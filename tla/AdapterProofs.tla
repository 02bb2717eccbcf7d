--------------------------- MODULE AdapterProofs ---------------------------
(***************************************************************************)
(* The three translations of the Anthropic adapter, for inputs of any      *)
(* length: an event stream is translated event by event, and the fast      *)
(* paths for requests and responses agree with the general ones.           *)
(*                                                                         *)
(* What a loop has computed is known by induction over its steps.  The     *)
(* induction is the lemma of that name, about sets of numbers; a set is    *)
(* made of the numbers for which the claim holds.                          *)
(***************************************************************************)
EXTENDS AnthropicStream, AnthropicRequest, AnthropicResponse, TLAPS,
        FiniteSetTheorems, SequenceTheorems, WellFoundedInduction

-----------------------------------------------------------------------------
(* Numbers.                                                                *)

\* A set of numbers that holds 0 and the successor of its members holds all.
LEMMA Induction ==
    ASSUME NEW S \in SUBSET Nat, 0 \in S, \A n \in S : n + 1 \in S
    PROVE  \A n \in Nat : n \in S
<1> DEFINE T == Nat \ S
           R == OpToRel(<, Nat)
<1>1. SUFFICES ASSUME T # {} PROVE FALSE
  OBVIOUS
<1>2. IsWellFoundedOn(R, Nat)
  BY NatLessThanWellFounded
<1>3. T \subseteq Nat
  OBVIOUS
<1> HIDE DEF R
<1>4. PICK x \in T : \A y \in T : ~(<<y, x>> \in R)
  BY <1>1, <1>2, <1>3, WFMin, Zenon
<1>5. x - 1 \in Nat /\ x - 1 < x /\ (x - 1) + 1 = x
  BY <1>4
<1>6. <<x - 1, x>> \in R
  BY <1>4, <1>5 DEF R, OpToRel
<1>7. x - 1 \in S
  BY <1>4, <1>5, <1>6
<1> QED
  BY <1>4, <1>5, <1>7

\* A set of numbers under a bound has a largest one.
LEMMA HasMax ==
    \A m \in Nat : \A S \in SUBSET (1..m) :
        S # {} => \E j \in S : \A k \in S : j >= k
<1> DEFINE P(m) == \A S \in SUBSET (1..m) : S # {} => \E j \in S : \A k \in S : j >= k
           Q == {m \in Nat : P(m)}
<1>1. P(0)
  <2>1. 1..0 = {}
    OBVIOUS
  <2> QED
    BY <2>1, Zenon
<1>2. ASSUME NEW m \in Nat, P(m) PROVE P(m + 1)
  <2> SUFFICES ASSUME NEW S \in SUBSET (1..(m + 1)), S # {}
               PROVE  \E j \in S : \A k \in S : j >= k
    OBVIOUS
  <2>1. CASE m + 1 \in S
    BY <2>1
  <2>2. CASE m + 1 \notin S
    <3>1. S \in SUBSET (1..m)
      BY <2>2
    <3> QED
      BY <1>2, <3>1
  <2> QED
    BY <2>1, <2>2
<1> HIDE DEF P
<1>3. \A m \in Q : m + 1 \in Q
  BY <1>2
<1>4. 0 \in Q /\ Q \in SUBSET Nat
  BY <1>1
<1> HIDE DEF Q
<1>5. \A m \in Nat : m \in Q
  BY <1>3, <1>4, Induction, Zenon
<1> QED
  BY <1>5, Zenon DEF P, Q

\* Max is the largest number of the set.
LEMMA MaxIsIn ==
    ASSUME NEW m \in Nat, NEW S \in SUBSET (1..m), S # {}
    PROVE  Max(S) \in S /\ \A k \in S : Max(S) >= k
BY HasMax, Zenon DEF Max

\* A number above the set is the latest once it is added.
LEMMA MaxOfMore ==
    ASSUME NEW m \in Nat, NEW S \in SUBSET (1..m)
    PROVE  Max(S \cup {m + 1}) = m + 1
<1>1. S \cup {m + 1} \in SUBSET (1..(m + 1)) /\ S \cup {m + 1} # {} /\ m + 1 \in Nat
  OBVIOUS
<1>2. /\ Max(S \cup {m + 1}) \in S \cup {m + 1}
      /\ \A k \in S \cup {m + 1} : Max(S \cup {m + 1}) >= k
  BY <1>1, MaxIsIn
<1>3. Max(S \cup {m + 1}) \in 1..(m + 1) /\ Max(S \cup {m + 1}) >= m + 1
  BY <1>1, <1>2, Zenon
<1> QED
  BY <1>3

-----------------------------------------------------------------------------
(* Counting.                                                               *)

LEMMA PlacesFinite ==
    ASSUME NEW m \in Nat, NEW W \in SUBSET (1..m)
    PROVE  IsFiniteSet(W) /\ Cardinality(W) \in Nat
<1>1. IsFiniteSet(1..m)
  BY FS_Interval
<1> QED
  BY <1>1, FS_Subset, FS_CardinalityType, Zenon

\* A chunk for a later event comes after the others and leaves their places.
LEMMA RankOfMore ==
    ASSUME NEW m \in Nat, NEW W \in SUBSET (1..m)
    PROVE  /\ Cardinality(W \cup {m + 1}) = Cardinality(W) + 1
           /\ Rank(W \cup {m + 1}, m + 1) = Cardinality(W) + 1
           /\ \A i \in W : Rank(W \cup {m + 1}, i) = Rank(W, i)
<1>0. \A j \in W : j \in Nat /\ j <= m /\ j <= m + 1 /\ m + 1 # j /\ ~(m + 1 <= j)
  OBVIOUS
<1>1. IsFiniteSet(W) /\ m + 1 \notin W /\ m + 1 <= m + 1
  <2>1. IsFiniteSet(W)
    BY PlacesFinite
  <2>2. m + 1 \notin W
    BY <1>0, Zenon
  <2>3. m + 1 <= m + 1
    OBVIOUS
  <2> QED
    BY <2>1, <2>2, <2>3
<1>2. Cardinality(W \cup {m + 1}) = Cardinality(W) + 1
  BY <1>1, FS_AddElement
<1>3. {j \in W \cup {m + 1} : j <= m + 1} = W \cup {m + 1}
  BY <1>0, <1>1, Zenon
<1>4. \A i \in W : {j \in W \cup {m + 1} : j <= i} = {j \in W : j <= i}
  <2> SUFFICES ASSUME NEW i \in W
               PROVE  {j \in W \cup {m + 1} : j <= i} = {j \in W : j <= i}
    OBVIOUS
  <2> QED
    BY <1>0, Zenon
<1> QED
  BY <1>2, <1>3, <1>4, Zenon DEF Rank

LEMMA RankBound ==
    ASSUME NEW m \in Nat, NEW W \in SUBSET (1..m), NEW i \in W
    PROVE  Rank(W, i) \in 1..Cardinality(W)
<1> DEFINE U == {j \in W : j <= i}
<1>1. IsFiniteSet(W) /\ Cardinality(W) \in Nat
  BY PlacesFinite
<1>2. U \subseteq W /\ i \in U
  OBVIOUS
<1> HIDE DEF U
<1>3. IsFiniteSet(U) /\ Cardinality(U) <= Cardinality(W)
  BY <1>1, <1>2, FS_Subset, Zenon
<1>4. Cardinality(U) \in Nat /\ Cardinality(U) # 0
  BY <1>2, <1>3, FS_CardinalityType, FS_EmptySet
<1>5. Cardinality(U) \in 1..Cardinality(W)
  BY <1>1, <1>3, <1>4
<1> QED
  BY <1>5 DEF Rank, U

\* Every place up to the last is taken.
LEMMA RankReaches ==
    \A m \in Nat : \A W \in SUBSET (1..m) :
        \A k \in 1..Cardinality(W) : \E j \in W : Rank(W, j) = k
<1> DEFINE P(m) == \A W \in SUBSET (1..m) :
                      \A k \in 1..Cardinality(W) : \E j \in W : Rank(W, j) = k
           Q == {m \in Nat : P(m)}
<1>1. P(0)
  <2>1. SUBSET (1..0) = {{}} /\ 1..Cardinality({}) = {}
    BY FS_EmptySet
  <2> QED
    BY <2>1, Zenon
<1>2. ASSUME NEW m \in Nat, P(m) PROVE P(m + 1)
  <2> SUFFICES ASSUME NEW W \in SUBSET (1..(m + 1)), NEW k \in 1..Cardinality(W)
               PROVE  \E j \in W : Rank(W, j) = k
    OBVIOUS
  <2>1. CASE m + 1 \notin W
    <3>1. W \in SUBSET (1..m)
      BY <2>1
    <3> QED
      BY <1>2, <3>1, Zenon
  <2>2. CASE m + 1 \in W
    <3> DEFINE V == W \ {m + 1}
    <3>1. V \in SUBSET (1..m) /\ W = V \cup {m + 1}
      BY <2>2
    <3> HIDE DEF V
    <3>2. /\ Cardinality(W) = Cardinality(V) + 1
          /\ Rank(W, m + 1) = Cardinality(V) + 1
          /\ \A j \in V : Rank(W, j) = Rank(V, j)
      BY <3>1, RankOfMore, Zenon
    <3>3. Cardinality(V) \in Nat
      BY <3>1, PlacesFinite, Zenon
    <3>4. k \in 1..Cardinality(V) \/ k = Cardinality(V) + 1
      BY <3>2, <3>3
    <3>5. CASE k \in 1..Cardinality(V)
      <4>1. PICK j \in V : Rank(V, j) = k
        BY <1>2, <3>1, <3>5
      <4>2. j \in W /\ Rank(W, j) = k
        BY <3>1, <3>2, <4>1
      <4> QED
        BY <4>2
    <3>6. CASE k = Cardinality(V) + 1
      BY <2>2, <3>2, <3>6, Zenon
    <3> QED
      BY <3>4, <3>5, <3>6
  <2> QED
    BY <2>1, <2>2
<1> HIDE DEF P
<1>3. \A m \in Q : m + 1 \in Q
  BY <1>2
<1>4. 0 \in Q /\ Q \in SUBSET Nat
  BY <1>1
<1> HIDE DEF Q
<1>5. \A m \in Nat : m \in Q
  BY <1>3, <1>4, Induction, Zenon
<1> QED
  BY <1>5, Zenon DEF P, Q

\* The member of W at place k.
Place(W, k) == Max({j \in W : Rank(W, j) = k})

LEMMA PlaceIsIn ==
    ASSUME NEW m \in Nat, NEW W \in SUBSET (1..m), NEW k \in 1..Cardinality(W)
    PROVE  Place(W, k) \in W
<1> DEFINE S == {j \in W : Rank(W, j) = k}
<1>1. S # {} /\ S \in SUBSET (1..m)
  BY RankReaches, Zenon
<1>2. Max(S) \in S
  BY <1>1, MaxIsIn, Zenon
<1> QED
  BY <1>2, Zenon DEF Place

\* A larger member takes the next place and leaves the others theirs.
LEMMA PlacesOfMore ==
    ASSUME NEW m \in Nat, NEW W \in SUBSET (1..m)
    PROVE  /\ Place(W \cup {m + 1}, Cardinality(W) + 1) = m + 1
           /\ \A k \in 1..Cardinality(W) : Place(W \cup {m + 1}, k) = Place(W, k)
<1> DEFINE V == W \cup {m + 1}
           c == Cardinality(W)
           S(k) == {j \in V : Rank(V, j) = k}
           T(k) == {j \in W : Rank(W, j) = k}
<1>1. c \in Nat
  BY PlacesFinite
<1>2. Rank(V, m + 1) = c + 1 /\ \A j \in W : Rank(V, j) = Rank(W, j)
  BY RankOfMore, Zenon
<1>3. \A j \in W : Rank(W, j) \in 1..c
  BY RankBound, Zenon
<1>4. \A j \in W : Rank(V, j) # c + 1
  BY <1>1, <1>2, <1>3
<1>5. S(c + 1) = {} \cup {m + 1}
  BY <1>2, <1>4, Zenon
<1>6. Max({} \cup {m + 1}) = m + 1
  <2>1. {} \in SUBSET (1..m)
    OBVIOUS
  <2> QED
    BY <2>1, MaxOfMore, Zenon
<1>7. \A k \in 1..c : c + 1 # k
  BY <1>1
<1> HIDE DEF c
<1>8. \A k \in 1..c : S(k) = T(k)
  BY <1>2, <1>7, Zenon
<1>9. Max(S(c + 1)) = m + 1
  BY <1>5, <1>6, Zenon
<1> QED
  BY <1>8, <1>9, Zenon DEF Place, c

-----------------------------------------------------------------------------
(* What a line appended to the stream leaves as it was.                    *)

LEMMA Appended ==
    ASSUME NEW s \in Seq(Line), NEW l \in Line
    PROVE  /\ Len(s) \in Nat
           /\ Append(s, l) \in Seq(Line)
           /\ Len(Append(s, l)) = Len(s) + 1
           /\ Append(s, l)[Len(s) + 1] = l
           /\ \A j \in 1..Len(s) : Append(s, l)[j] = s[j]
<1> HIDE DEF Line
<1> QED
  OBVIOUS

\* The lines of an event are those before its end.
LEMMA RunBefore ==
    ASSUME NEW s, NEW i
    PROVE  RunOf(s, i) \subseteq 1..(i - 1)
BY DEF RunOf

LEMMA SameRun ==
    ASSUME NEW s \in Seq(Line), NEW l \in Line, NEW i \in 1..(Len(s) + 1)
    PROVE  RunOf(Append(s, l), i) = RunOf(s, i)
<1> DEFINE t == Append(s, l)
<1>1. Len(s) \in Nat /\ \A j \in 1..Len(s) : t[j] = s[j]
  BY Appended
<1> HIDE DEF t
<1>2. \A j \in 1..(i - 1) : \A k \in j..(i - 1) : t[k] = s[k]
  BY <1>1
<1>3. RunOf(t, i) = RunOf(s, i)
  BY <1>2, Zenon DEF RunOf
<1> QED
  BY <1>3 DEF t

LEMMA SameKind ==
    ASSUME NEW s \in Seq(Line), NEW l \in Line, NEW i \in 1..(Len(s) + 1), NEW kind
    PROVE  /\ OfKind(Append(s, l), i, kind) = OfKind(s, i, kind)
           /\ OfKind(s, i, kind) \in SUBSET (1..(i - 1))
           /\ \A j \in OfKind(s, i, kind) : Append(s, l)[j] = s[j]
<1> DEFINE t == Append(s, l)
<1>1. Len(s) \in Nat /\ \A j \in 1..Len(s) : t[j] = s[j]
  BY Appended
<1>2. RunOf(t, i) = RunOf(s, i) /\ RunOf(s, i) \subseteq 1..(i - 1)
  BY SameRun, RunBefore
<1> HIDE DEF t
<1>3. 1..(i - 1) \subseteq 1..Len(s)
  BY <1>1
<1>4. \A j \in RunOf(s, i) : t[j] = s[j]
  BY <1>1, <1>2, <1>3, Zenon
<1>5. /\ OfKind(t, i, kind) = OfKind(s, i, kind)
      /\ OfKind(s, i, kind) \in SUBSET (1..(i - 1))
      /\ \A j \in OfKind(s, i, kind) : t[j] = s[j]
  BY <1>2, <1>4, Zenon DEF OfKind
<1> QED
  BY <1>5 DEF t

\* The payloads are those at the places of the data lines.
LEMMA PayloadsAre ==
    \A s, i : Payloads(s, i) =
        [k \in 1..Cardinality(OfKind(s, i, "data")) |->
            s[Place(OfKind(s, i, "data"), k)].value]
BY Zenon DEF Payloads, Place

LEMMA SamePayloads ==
    ASSUME NEW s \in Seq(Line), NEW l \in Line, NEW i \in 1..(Len(s) + 1)
    PROVE  Payloads(Append(s, l), i) = Payloads(s, i)
<1> DEFINE t == Append(s, l)
           data == OfKind(s, i, "data")
<1>1. /\ OfKind(t, i, "data") = data
      /\ data \in SUBSET (1..(i - 1))
      /\ \A j \in data : t[j] = s[j]
  BY SameKind, Zenon
<1>2. i - 1 \in Nat
  BY Appended
<1> HIDE DEF t, data
<1>3. \A k \in 1..Cardinality(data) : Place(data, k) \in data
  BY <1>1, <1>2, PlaceIsIn, Zenon
<1>4. [k \in 1..Cardinality(data) |-> t[Place(data, k)].value]
        = [k \in 1..Cardinality(data) |-> s[Place(data, k)].value]
  BY <1>1, <1>3, Zenon
<1> QED
  BY <1>1, <1>4, PayloadsAre, Zenon DEF t, data

LEMMA SameDoc ==
    ASSUME NEW s \in Seq(Line), NEW l \in Line, NEW i \in 1..(Len(s) + 1)
    PROVE  DocOf(Append(s, l), i) = DocOf(s, i)
BY SamePayloads, Zenon DEF DocOf

\* The type the event lines of an event give it.
Header(s, i) ==
    IF OfKind(s, i, "event") = {} THEN ""
    ELSE s[Max(OfKind(s, i, "event"))].value.type

LEMMA SameHeader ==
    ASSUME NEW s \in Seq(Line), NEW l \in Line, NEW i \in 1..(Len(s) + 1)
    PROVE  Header(Append(s, l), i) = Header(s, i)
<1> DEFINE t == Append(s, l)
           headers == OfKind(s, i, "event")
<1>1. /\ OfKind(t, i, "event") = headers
      /\ headers \in SUBSET (1..(i - 1))
      /\ \A j \in headers : t[j] = s[j]
  BY SameKind, Zenon
<1>2. i - 1 \in Nat
  BY Appended
<1>3. headers # {} => t[Max(headers)] = s[Max(headers)]
  BY <1>1, <1>2, MaxIsIn, Zenon
<1> HIDE DEF t
<1>4. Header(t, i) = Header(s, i)
  BY <1>1, <1>3, Zenon DEF Header
<1> QED
  BY <1>4 DEF t

LEMMA TypeIs ==
    \A s, i : TypeOf(s, i) = IF Header(s, i) # "" THEN Header(s, i)
                             ELSE envelopeType(DocOf(s, i))
BY Zenon DEF TypeOf, Header

LEMMA SameType ==
    ASSUME NEW s \in Seq(Line), NEW l \in Line, NEW i \in 1..(Len(s) + 1)
    PROVE  TypeOf(Append(s, l), i) = TypeOf(s, i)
BY SameHeader, SameDoc, TypeIs, Zenon

LEMMA SameEvent ==
    ASSUME NEW s \in Seq(Line), NEW l \in Line, NEW i \in 1..Len(s)
    PROVE  IsEvent(Append(s, l), i) = IsEvent(s, i)
<1>1. i \in 1..(Len(s) + 1)
  BY Appended
<1>2. Append(s, l)[i] = s[i]
  BY Appended
<1>3. Payloads(Append(s, l), i) = Payloads(s, i)
  BY <1>1, SamePayloads
<1> QED
  BY <1>2, <1>3, Zenon DEF IsEvent

LEMMA SameNaming ==
    ASSUME NEW s \in Seq(Line), NEW l \in Line, NEW i \in 1..(Len(s) + 1)
    PROVE  Naming(Append(s, l), i) = Naming(s, i)
<1>1. \A j \in 1..(i - 1) : j \in 1..Len(s) /\ j \in 1..(Len(s) + 1)
  BY Appended
<1>2. ASSUME NEW j \in 1..(i - 1)
      PROVE  /\ IsEvent(Append(s, l), j) = IsEvent(s, j)
             /\ TypeOf(Append(s, l), j) = TypeOf(s, j)
             /\ DocOf(Append(s, l), j) = DocOf(s, j)
  BY <1>1, SameEvent, SameType, SameDoc, Zenon
<1> QED
  BY <1>2, Zenon DEF Naming

LEMMA NamingBefore ==
    ASSUME NEW s, NEW i
    PROVE  /\ Naming(s, i) \in SUBSET (1..(i - 1))
           /\ \A j \in Naming(s, i) : names(TypeOf(s, j), DocOf(s, j))
BY DEF Naming

LEMMA SameModel ==
    ASSUME NEW s \in Seq(Line), NEW l \in Line, NEW i \in 1..(Len(s) + 1)
    PROVE  ModelAt(Append(s, l), i) = ModelAt(s, i)
<1> DEFINE N == Naming(s, i)
<1>1. Naming(Append(s, l), i) = N
  BY SameNaming
<1>2. i - 1 \in Nat /\ 1..(i - 1) \subseteq 1..(Len(s) + 1)
  BY Appended
<1>3. N # {} => Max(N) \in 1..(Len(s) + 1)
  BY <1>2, NamingBefore, MaxIsIn, Zenon
<1>4. N # {} => DocOf(Append(s, l), Max(N)) = DocOf(s, Max(N))
  BY <1>3, SameDoc, Zenon
<1> QED
  BY <1>1, <1>4, Zenon DEF ModelAt

LEMMA SameChunk ==
    ASSUME NEW s \in Seq(Line), NEW l \in Line, NEW i \in 1..(Len(s) + 1)
    PROVE  ChunkAt(Append(s, l), i) = ChunkAt(s, i)
BY SameType, SameDoc, SameModel, Zenon DEF ChunkAt

-----------------------------------------------------------------------------
(* What it adds.                                                           *)

LEMMA RunAfterBlank ==
    ASSUME NEW s \in Seq(Line), Blank \in Line
    PROVE  RunOf(Append(s, Blank), Len(s) + 2) = {}
<1> DEFINE t == Append(s, Blank)
<1>1. Len(s) \in Nat /\ t[Len(s) + 1] = Blank
  BY Appended
<1> HIDE DEF t
<1>2. \A j \in 1..((Len(s) + 2) - 1) : Len(s) + 1 \in j..((Len(s) + 2) - 1)
  BY <1>1
<1>3. RunOf(t, Len(s) + 2) = {}
  BY <1>1, <1>2, Zenon DEF RunOf
<1> QED
  BY <1>3 DEF t

LEMMA RunAfterLine ==
    ASSUME NEW s \in Seq(Line), NEW l \in Line, l # Blank
    PROVE  RunOf(Append(s, l), Len(s) + 2) = RunOf(s, Len(s) + 1) \cup {Len(s) + 1}
<1> DEFINE t == Append(s, l)
           n == Len(s) + 1
<1>1. Len(s) \in Nat /\ t[n] = l /\ n \in Nat /\ (Len(s) + 2) - 1 = n /\ n \in 1..n
  BY Appended
<1>2. RunOf(t, n) = RunOf(s, n)
  BY <1>1, SameRun
<1> HIDE DEF t
<1>3. \A j \in 1..(n - 1) : (\A k \in j..(n - 1) : t[k] # Blank)
                               <=> (\A k \in j..n : t[k] # Blank)
  <2>1. \A j \in 1..(n - 1) : j..n = (j..(n - 1)) \cup {n}
    BY <1>1
  <2> QED
    BY <1>1, <2>1, Zenon
<1>4. \A k \in n..n : t[k] # Blank
  BY <1>1
<1>5. 1..n = 1..(n - 1) \cup {n}
  BY <1>1
<1>6. RunOf(t, Len(s) + 2) = {j \in 1..n : \A k \in j..n : t[k] # Blank}
  BY <1>1, Zenon DEF RunOf
<1>7. RunOf(t, n) = {j \in 1..(n - 1) : \A k \in j..(n - 1) : t[k] # Blank}
  BY Zenon DEF RunOf
<1> HIDE DEF n
<1>8. RunOf(t, Len(s) + 2) = RunOf(t, n) \cup {n}
  BY <1>3, <1>4, <1>5, <1>6, <1>7, Zenon
<1> QED
  BY <1>2, <1>8 DEF t, n

\* Of each kind: nothing after a blank line, one more line of its own kind.
LEMMA KindAfterBlank ==
    ASSUME NEW s \in Seq(Line), Blank \in Line, NEW kind
    PROVE  OfKind(Append(s, Blank), Len(s) + 2, kind) = {}
BY RunAfterBlank, Zenon DEF OfKind

LEMMA KindAfterLine ==
    ASSUME NEW s \in Seq(Line), NEW l \in Line, l # Blank, NEW kind
    PROVE  OfKind(Append(s, l), Len(s) + 2, kind) =
              IF l.kind = kind THEN OfKind(s, Len(s) + 1, kind) \cup {Len(s) + 1}
              ELSE OfKind(s, Len(s) + 1, kind)
<1> DEFINE t == Append(s, l)
           n == Len(s) + 1
<1>1. Len(s) \in Nat /\ t[n] = l /\ n \in Nat /\ n \in 1..n
  BY Appended
<1>2. OfKind(t, n, kind) = OfKind(s, n, kind)
  BY <1>1, SameKind, Zenon
<1>3. RunOf(t, Len(s) + 2) = RunOf(t, n) \cup {n}
  <2>1. n \in 1..(Len(s) + 1)
    BY <1>1
  <2>2. RunOf(t, n) = RunOf(s, n)
    BY <2>1, SameRun, Zenon
  <2> QED
    BY <2>2, RunAfterLine, Zenon
<1> HIDE DEF t, n
<1>4. OfKind(t, Len(s) + 2, kind) = IF l.kind = kind THEN OfKind(t, n, kind) \cup {n}
                                    ELSE OfKind(t, n, kind)
  BY <1>1, <1>3, Zenon DEF OfKind
<1> QED
  BY <1>2, <1>4, Zenon DEF t, n

LEMMA BlankIsALine == Blank \in Line
BY Zenon DEF Line

\* The blank line a stream gets is the only line of its kind.
LEMMA EventsAfter ==
    ASSUME NEW s \in Seq(Line), NEW l \in Line, l # Blank
    PROVE  ~IsEvent(Append(s, l), Len(s) + 1)
BY Appended, Zenon DEF IsEvent

\* The events worth a chunk: those there were, and the one that just ended.
LEMMA WorthAfter ==
    ASSUME NEW s \in Seq(Line), NEW l \in Line
    PROVE  /\ Worth(s) \in SUBSET (1..Len(s))
           /\ Worth(Append(s, l)) =
                IF /\ IsEvent(Append(s, l), Len(s) + 1)
                   /\ ChunkAt(Append(s, l), Len(s) + 1) # <<>>
                THEN Worth(s) \cup {Len(s) + 1} ELSE Worth(s)
<1> DEFINE t == Append(s, l)
           n == Len(s) + 1
<1>1. Len(t) = n /\ 1..n = 1..Len(s) \cup {n} /\ n \notin 1..Len(s)
  BY Appended
<1>2. ASSUME NEW i \in 1..Len(s)
      PROVE  IsEvent(t, i) = IsEvent(s, i) /\ ChunkAt(t, i) = ChunkAt(s, i)
  BY <1>1, SameEvent, SameChunk, Zenon
<1> HIDE DEF t, n
<1>3. Worth(t) = IF IsEvent(t, n) /\ ChunkAt(t, n) # <<>>
                 THEN Worth(s) \cup {n} ELSE Worth(s)
  BY <1>1, <1>2, Zenon DEF Worth
<1>4. Worth(s) \in SUBSET (1..Len(s))
  BY Zenon DEF Worth
<1> QED
  BY <1>3, <1>4, Zenon DEF t, n

\* The model in force: the one there was, or the one just named.
LEMMA ModelAfter ==
    ASSUME NEW s \in Seq(Line), NEW l \in Line
    PROVE  ModelAt(Append(s, l), Len(s) + 2) =
              IF IsEvent(Append(s, l), Len(s) + 1)
              THEN modelAfter(TypeOf(Append(s, l), Len(s) + 1),
                              DocOf(Append(s, l), Len(s) + 1), ModelAt(s, Len(s) + 1))
              ELSE ModelAt(s, Len(s) + 1)
<1> DEFINE t == Append(s, l)
           n == Len(s) + 1
           new == IsEvent(t, n) /\ names(TypeOf(t, n), DocOf(t, n))
<1>1. /\ n \in 1..n /\ (Len(s) + 2) - 1 = n /\ 1..n = 1..(n - 1) \cup {n}
      /\ n - 1 \in Nat /\ (n - 1) + 1 = n
  BY Appended
<1>2. ModelAt(t, n) = ModelAt(s, n)
  BY <1>1, SameModel
<1> HIDE DEF t, n
<1>3. Naming(t, Len(s) + 2) = IF new THEN Naming(t, n) \cup {n} ELSE Naming(t, n)
  BY <1>1, Zenon DEF Naming
<1>4. Max(Naming(t, n) \cup {n}) = n
  <2>1. Naming(t, n) \in SUBSET (1..(n - 1))
    BY NamingBefore
  <2>2. Max(Naming(t, n) \cup {(n - 1) + 1}) = (n - 1) + 1
    BY <1>1, <2>1, MaxOfMore, Zenon
  <2> QED
    BY <1>1, <2>2, Zenon
<1>5. CASE new
  <2>1. ModelAt(t, Len(s) + 2) = DocOf(t, n).model
    BY <1>3, <1>4, <1>5, Zenon DEF ModelAt
  <2> QED
    BY <1>5, <2>1, Zenon DEF modelAfter, t, n
<1>6. CASE ~new
  <2>1. ModelAt(t, Len(s) + 2) = ModelAt(t, n)
    BY <1>3, <1>6, Zenon DEF ModelAt
  <2> QED
    BY <1>2, <1>6, <2>1, Zenon DEF modelAfter, t, n
<1> QED
  BY <1>5, <1>6

-----------------------------------------------------------------------------
(* The invariant.                                                          *)

Models == {"fallback"} \cup {d.model : d \in Docs}

Deltas   == {"role", "tool", "text", "arguments", "empty", "[DONE]"}
Escapes  == {"\\n", "\\a", "\\x7f", "\\u200b", "\\U000e0001", "itself"}
Finishes == {"", "tool_calls", "length", "stop"}

Chunks == [model : Models \cup {""}, delta : Deltas, text : Escapes, finish : Finishes]

Results == {"running", "returned", "read_error", "write_error"}

TypeOK ==
    /\ lines \in Seq(Line)
    /\ event \in [eventType : Types \cup {""}, data : Seq(Docs)]
    /\ model \in Models
    /\ out \in Seq(Chunks)
    /\ result \in Results

\* What an event record holds of the lines since the last blank one.
Holds(e, s) ==
    /\ e.data = Payloads(s, Len(s) + 1)
    /\ e.eventType = Header(s, Len(s) + 1)

\* The first chunks of o are those of the events worth one, in order.
Matches(s, o) ==
    \A i \in Worth(s) : Rank(Worth(s), i) <= Len(o) =>
        <<o[Rank(Worth(s), i)]>> = ChunkAt(s, i)

\* How many chunks there are, by how the translation stands.
Counts(s, o, r) ==
    LET n == Cardinality(Worth(s))
    IN  /\ r \in {"running", "read_error"} => Len(o) = n
        /\ r = "returned" => Len(o) = n + 1 /\ o[n + 1] = DoneChunk
        /\ r = "write_error" => Len(o) <= n

LEMMA Translates ==
    TranslatesEvents <=> Matches(lines, out) /\ Counts(lines, out, result)
BY Zenon DEF TranslatesEvents, Matches, Counts

Inv ==
    /\ TypeOK
    /\ Matches(lines, out)
    /\ Counts(lines, out, result)
    /\ result = "running" => /\ Holds(event, lines)
                             /\ model = ModelAt(lines, Len(lines) + 1)

-----------------------------------------------------------------------------
(* An event is worth one chunk at most.                                    *)

LEMMA ChunkType ==
    ASSUME NEW m \in Models \cup {""}, NEW delta \in Deltas, NEW text \in Escapes,
           NEW finish \in Finishes
    PROVE  Chunk(m, delta, text, finish) \in Chunks
BY DEF Chunk, Chunks

LEMMA QuoteType == \A c : AppendQuote(c) \in Escapes
BY Zenon DEF AppendQuote, Escapes

LEMMA FinishType == \A r : stopReasonToFinishReason(r) \in Finishes
BY Zenon DEF stopReasonToFinishReason, Finishes

LEMMA ModelType ==
    ASSUME NEW type, NEW doc \in Docs \cup {NoDoc}, NEW m \in Models
    PROVE  modelAfter(type, doc, m) \in Models
<1>1. ~names(type, NoDoc)
  BY DEF names, NoDoc
<1> QED
  BY <1>1, Zenon DEF modelAfter, Models

LEMMA OneChunk ==
    ASSUME NEW type, NEW doc \in Docs \cup {NoDoc}, NEW m \in Models
    PROVE  \/ translate(type, doc, m) = <<>>
           \/ \E c \in Chunks : translate(type, doc, m) = <<c>>
<1>1. modelAfter(type, doc, m) \in Models \cup {""} /\ m \in Models \cup {""}
  BY ModelType, Zenon
<1> DEFINE role == Chunk(modelAfter(type, doc, m), "role", "itself", "")
           say(delta) == Chunk(m, delta, AppendQuote(doc.text), "")
           end == Chunk(m, "empty", "itself", stopReasonToFinishReason(doc.stop))
<1>2. /\ {"role", "empty", "tool", "text", "arguments"} \subseteq Deltas
      /\ "itself" \in Escapes /\ "" \in Finishes
  BY Zenon DEF Deltas, Escapes, Finishes
<1>3. role \in Chunks /\ end \in Chunks
  BY <1>1, <1>2, ChunkType, FinishType, Zenon
<1>4. \A delta \in Deltas : say(delta) \in Chunks
  BY <1>1, <1>2, ChunkType, QuoteType, Zenon
<1>5. translate(type, doc, m) \in {<<>>, <<role>>, <<end>>, <<say("tool")>>,
                                   <<say("text")>>, <<say("arguments")>>}
  BY Zenon DEF translate
<1> HIDE DEF role, say, end
<1> QED
  BY <1>2, <1>3, <1>4, <1>5, Zenon

-----------------------------------------------------------------------------
(* The event record follows the lines.                                     *)

EventRecords == [eventType : Types \cup {""}, data : Seq(Docs)]

LEMMA Next2 ==
    ASSUME NEW s \in Seq(Line), NEW l \in Line
    PROVE  Len(Append(s, l)) + 1 = Len(s) + 2
BY Appended

LEMMA LineKinds ==
    ASSUME NEW l \in Line, l # Blank
    PROVE  \/ l.kind = "other"
           \/ l.kind = "event" /\ l.value.type \in Types
           \/ l.kind = "data" /\ l.value \in Docs
<1>1. CASE l = OtherLine
  BY <1>1 DEF OtherLine
<1>2. ASSUME NEW t \in Types, l = EventLine(t)
      PROVE  l.kind = "event" /\ l.value.type \in Types
  BY <1>2, Zenon DEF EventLine, JSONDoc, NoDoc
<1>3. ASSUME NEW d \in Docs, l = DataLine(d)
      PROVE  l.kind = "data" /\ l.value \in Docs
  BY <1>3 DEF DataLine
<1> QED
  BY <1>1, <1>2, <1>3, Zenon DEF Line

LEMMA HeaderAfter ==
    ASSUME NEW s \in Seq(Line), NEW l \in Line, l # Blank
    PROVE  Header(Append(s, l), Len(s) + 2) =
              IF l.kind = "event" THEN l.value.type ELSE Header(s, Len(s) + 1)
<1> DEFINE t == Append(s, l)
           n == Len(s) + 1
           H == OfKind(s, n, "event")
<1>1. /\ Len(s) \in Nat /\ n \in 1..n /\ n - 1 = Len(s) /\ n = Len(s) + 1
      /\ t[n] = l
  BY Appended
<1>2. /\ H \in SUBSET (1..Len(s)) /\ OfKind(t, n, "event") = H
  <2>1. n \in 1..(Len(s) + 1)
    BY <1>1
  <2>2. H \in SUBSET (1..(n - 1)) /\ OfKind(t, n, "event") = H
    BY <2>1, SameKind, Zenon
  <2> QED
    BY <1>1, <2>2, Zenon
<1>3. OfKind(t, Len(s) + 2, "event") = IF l.kind = "event" THEN H \cup {n} ELSE H
  BY KindAfterLine, Zenon
<1>4. Max(H \cup {n}) = n
  BY <1>1, <1>2, MaxOfMore
<1>5. Header(t, n) = Header(s, n)
  BY <1>1, SameHeader
<1> HIDE DEF t, n, H
<1>6. CASE l.kind = "event"
  <2>1. Header(t, Len(s) + 2) = l.value.type
    BY <1>1, <1>3, <1>4, <1>6, Zenon DEF Header
  <2> QED
    BY <1>6, <2>1, Zenon DEF t, n
<1>7. CASE l.kind # "event"
  <2>1. Header(t, Len(s) + 2) = Header(t, n)
    BY <1>2, <1>3, <1>7, Zenon DEF Header
  <2> QED
    BY <1>5, <1>7, <2>1, Zenon DEF t, n
<1> QED
  BY <1>6, <1>7

LEMMA PayloadsAfter ==
    ASSUME NEW s \in Seq(Line), NEW l \in Line, l # Blank,
           Payloads(s, Len(s) + 1) \in Seq(Docs)
    PROVE  Payloads(Append(s, l), Len(s) + 2) =
              IF l.kind = "data" THEN Append(Payloads(s, Len(s) + 1), l.value)
              ELSE Payloads(s, Len(s) + 1)
<1> DEFINE t == Append(s, l)
           n == Len(s) + 1
           D == OfKind(s, n, "data")
           c == Cardinality(D)
<1>1. /\ Len(s) \in Nat /\ n \in 1..n /\ n - 1 = Len(s) /\ n = Len(s) + 1
      /\ t[n] = l
  BY Appended
<1>2. /\ D \in SUBSET (1..Len(s)) /\ \A j \in D : t[j] = s[j]
  <2>1. n \in 1..(Len(s) + 1)
    BY <1>1
  <2>2. D \in SUBSET (1..(n - 1)) /\ \A j \in D : t[j] = s[j]
    BY <2>1, SameKind, Zenon
  <2> QED
    BY <1>1, <2>2, Zenon
<1>3. OfKind(t, Len(s) + 2, "data") = IF l.kind = "data" THEN D \cup {n} ELSE D
  BY KindAfterLine, Zenon
<1>4. /\ c \in Nat /\ Cardinality(D \cup {n}) = c + 1
      /\ Place(D \cup {n}, c + 1) = n
      /\ \A k \in 1..c : Place(D \cup {n}, k) = Place(D, k)
      /\ \A k \in 1..c : Place(D, k) \in D
  BY <1>1, <1>2, PlacesFinite, PlacesOfMore, PlaceIsIn, RankOfMore, Zenon
<1>5. Payloads(s, n) = [k \in 1..c |-> s[Place(D, k)].value]
  BY PayloadsAre, Zenon
<1> HIDE DEF t, n, D, c
<1>6. CASE l.kind = "data"
  <2> DEFINE p == Payloads(s, n)
             q == Payloads(t, Len(s) + 2)
  <2>1. q = [k \in 1..(c + 1) |-> t[Place(D \cup {n}, k)].value]
    BY <1>3, <1>4, <1>6, PayloadsAre, Zenon
  <2>2. p \in Seq(Docs) /\ DOMAIN p = 1..c
    BY <1>5, Zenon DEF n
  <2>3. Len(p) = c /\ DOMAIN Append(p, l.value) = 1..(c + 1)
    BY <1>4, <2>2
  <2>4. ASSUME NEW k \in 1..c PROVE q[k] = p[k]
    <3>1. k \in 1..(c + 1)
      BY <1>4
    <3>2. q[k] = t[Place(D \cup {n}, k)].value
      BY <2>1, <3>1, Zenon
    <3>3. p[k] = s[Place(D, k)].value
      BY <1>5, Zenon
    <3>4. Place(D \cup {n}, k) = Place(D, k) /\ t[Place(D, k)] = s[Place(D, k)]
      BY <1>2, <1>4, Zenon
    <3> QED
      BY <3>2, <3>3, <3>4, Zenon
  <2>5. q[c + 1] = l.value
    <3>1. c + 1 \in 1..(c + 1)
      BY <1>4
    <3> QED
      BY <1>1, <1>4, <2>1, <3>1, Zenon
  <2>6. DOMAIN q = 1..(c + 1) /\ q = [k \in DOMAIN q |-> q[k]]
    BY <2>1, Zenon
  <2> HIDE DEF p, q
  <2>7. \A k \in 1..(c + 1) : Append(p, l.value)[k] = q[k]
    <3>1. \A k \in 1..c : Append(p, l.value)[k] = p[k]
      BY <2>2, <2>3
    <3>2. Append(p, l.value)[c + 1] = l.value
      BY <2>2, <2>3
    <3>3. \A k \in 1..(c + 1) : k \in 1..c \/ k = c + 1
      BY <1>4
    <3> QED
      BY <2>4, <2>5, <3>1, <3>2, <3>3, Zenon
  <2>8. Append(p, l.value) = [k \in 1..(c + 1) |-> Append(p, l.value)[k]]
    BY <2>2, <2>3
  <2>9. q = Append(p, l.value)
    BY <2>6, <2>7, <2>8, Zenon
  <2> QED
    BY <1>6, <2>9, Zenon DEF p, q, t, n
<1>7. CASE l.kind # "data"
  <2>1. [k \in 1..c |-> t[Place(D, k)].value] = [k \in 1..c |-> s[Place(D, k)].value]
    BY <1>2, <1>4, Zenon
  <2>2. Payloads(t, Len(s) + 2) = [k \in 1..c |-> t[Place(D, k)].value]
    BY <1>3, <1>7, PayloadsAre, Zenon DEF c
  <2> QED
    BY <1>5, <1>7, <2>1, <2>2, Zenon DEF t, n
<1> QED
  BY <1>6, <1>7

LEMMA ConsumeHolds ==
    ASSUME NEW s \in Seq(Line), NEW l \in Line, l # Blank,
           NEW e \in EventRecords, Holds(e, s)
    PROVE  consume(e, l) \in EventRecords /\ Holds(consume(e, l), Append(s, l))
<1> DEFINE f == consume(e, l)
           t == Append(s, l)
<1>a. /\ Len(t) + 1 = Len(s) + 2
      /\ Header(t, Len(s) + 2) = IF l.kind = "event" THEN l.value.type
                                 ELSE Header(s, Len(s) + 1)
  BY Next2, HeaderAfter
<1>b. /\ e.data = Payloads(s, Len(s) + 1) /\ e.data \in Seq(Docs)
      /\ e.eventType = Header(s, Len(s) + 1)
  BY Zenon DEF Holds, EventRecords
<1>c. Payloads(t, Len(s) + 2) = IF l.kind = "data" THEN Append(e.data, l.value)
                                ELSE e.data
  BY <1>b, PayloadsAfter
<1> HIDE DEF t
<1>1. CASE l.kind = "other"
  <2>1. f = e
    BY <1>1, Zenon DEF consume
  <2>2. Holds(e, t)
    <3>1. l.kind # "data" /\ l.kind # "event"
      BY <1>1
    <3> QED
      BY <3>1, <1>a, <1>b, <1>c, Zenon DEF Holds
  <2> QED
    BY <2>1, <2>2, Zenon DEF t
<1>2. CASE l.kind = "event" /\ l.value.type \in Types
  <2>1. /\ f.eventType = l.value.type /\ f.data = e.data /\ f \in EventRecords
    BY <1>2 DEF consume, EventRecords
  <2>2. Holds(f, t)
    <3>1. l.kind # "data"
      BY <1>2
    <3> QED
      BY <1>2, <2>1, <3>1, <1>a, <1>b, <1>c, Zenon DEF Holds
  <2> QED
    BY <2>1, <2>2, Zenon DEF t
<1>3. CASE l.kind = "data" /\ l.value \in Docs
  <2>2. Append(e.data, l.value) \in Seq(Docs)
    BY <1>3, <1>b
  <2>3. f = [e EXCEPT !.data = Append(e.data, l.value)]
    BY <1>3 DEF consume
  <2>4. f.eventType = e.eventType /\ f.data = Append(e.data, l.value) /\ f \in EventRecords
    BY <2>2, <2>3 DEF EventRecords
  <2>5. Holds(f, t)
    <3>1. l.kind # "event"
      BY <1>3
    <3> QED
      BY <1>3, <2>4, <3>1, <1>a, <1>b, <1>c, Zenon DEF Holds
  <2> QED
    BY <2>4, <2>5, Zenon DEF t
<1> QED
  BY <1>1, <1>2, <1>3, LineKinds, Zenon DEF t

LEMMA NoEventFields ==
    NoEvent \in EventRecords /\ NoEvent.data = <<>> /\ NoEvent.eventType = ""
BY DEF NoEvent, EventRecords

\* No data lines, no payloads.
LEMMA NoPayloads ==
    ASSUME NEW s, NEW i, OfKind(s, i, "data") = {}
    PROVE  Payloads(s, i) = <<>>
<1>1. Payloads(s, i) = [k \in 1..0 |-> s[Place({}, k)].value]
  BY PayloadsAre, FS_EmptySet
<1>2. \A f : DOMAIN f = 1..0 /\ f = [k \in 1..0 |-> f[k]] => f = <<>>
  OBVIOUS
<1> QED
  BY <1>1, <1>2, Zenon

LEMMA ResetHolds ==
    ASSUME NEW s \in Seq(Line)
    PROVE  NoEvent \in EventRecords /\ Holds(NoEvent, Append(s, Blank))
<1> DEFINE t == Append(s, Blank)
<1>1. Len(t) + 1 = Len(s) + 2
  BY BlankIsALine, Next2
<1>2. OfKind(t, Len(s) + 2, "data") = {} /\ OfKind(t, Len(s) + 2, "event") = {}
  BY BlankIsALine, KindAfterBlank, Zenon
<1> HIDE DEF t
<1>3. Payloads(t, Len(s) + 2) = <<>> /\ Header(t, Len(s) + 2) = ""
  BY <1>2, NoPayloads, Zenon DEF Header
<1>4. Holds(NoEvent, t)
  BY <1>1, <1>3, NoEventFields, Zenon DEF Holds
<1> QED
  BY <1>4, NoEventFields, Zenon DEF t

\* A blank line ends the event the record holds.
LEMMA Ending ==
    ASSUME NEW s \in Seq(Line), NEW e \in EventRecords, Holds(e, s)
    PROVE  /\ IsEvent(Append(s, Blank), Len(s) + 1)
                <=> ~(e.data = <<>> \/ e.data = <<DonePayload>>)
           /\ TypeOf(Append(s, Blank), Len(s) + 1) = evType(e)
           /\ DocOf(Append(s, Blank), Len(s) + 1) = joined(e.data)
<1> DEFINE t == Append(s, Blank)
           n == Len(s) + 1
<1>1. n \in 1..(Len(s) + 1) /\ t[n] = Blank
  BY Appended, BlankIsALine
<1>2. Payloads(t, n) = e.data
  BY <1>1, BlankIsALine, SamePayloads DEF Holds
<1>3. Header(t, n) = e.eventType
  BY <1>1, BlankIsALine, SameHeader DEF Holds
<1>4. DocOf(t, n) = joined(e.data)
  BY <1>2, Zenon DEF DocOf
<1>5. TypeOf(t, n) = evType(e)
  BY <1>3, <1>4, TypeIs, Zenon DEF evType
<1> HIDE DEF t, n
<1>6. IsEvent(t, n) <=> ~(e.data = <<>> \/ e.data = <<DonePayload>>)
  BY <1>1, <1>2, Zenon DEF IsEvent
<1> QED
  BY <1>4, <1>5, <1>6, Zenon DEF t, n

-----------------------------------------------------------------------------
(* Writing.                                                                *)

\* What follows the chunks of the events disturbs none of them.
LEMMA MatchesMore ==
    ASSUME NEW s \in Seq(Line), NEW o \in Seq(Chunks), NEW c \in Chunks,
           Matches(s, o), Cardinality(Worth(s)) <= Len(o)
    PROVE  Matches(s, Append(o, c))
<1> SUFFICES ASSUME NEW i \in Worth(s)
             PROVE  <<Append(o, c)[Rank(Worth(s), i)]>> = ChunkAt(s, i)
  BY Zenon DEF Matches
<1> DEFINE r == Rank(Worth(s), i)
<1>1. Len(s) \in Nat /\ Worth(s) \in SUBSET (1..Len(s))
  BY Appended, BlankIsALine, WorthAfter
<1>2. r \in 1..Cardinality(Worth(s)) /\ Cardinality(Worth(s)) \in Nat
  BY <1>1, RankBound, PlacesFinite, Zenon
<1> HIDE DEF r
<1>3. r <= Len(o) /\ r \in 1..Len(o)
  BY <1>2
<1>4. <<o[r]>> = ChunkAt(s, i)
  BY <1>3, Zenon DEF Matches, r
<1> HIDE DEF Chunks
<1>5. Append(o, c)[r] = o[r]
  BY <1>3
<1> QED
  BY <1>4, <1>5, Zenon DEF r

\* A line that is worth nothing changes nothing.
LEMMA MatchesSame ==
    ASSUME NEW s \in Seq(Line), NEW l \in Line, NEW o, Matches(s, o),
           Worth(Append(s, l)) = Worth(s)
    PROVE  Matches(Append(s, l), o)
<1>1. \A i \in Worth(s) : i \in 1..(Len(s) + 1)
  BY Appended, WorthAfter
<1>2. \A i \in Worth(s) : ChunkAt(Append(s, l), i) = ChunkAt(s, i)
  BY <1>1, SameChunk, Zenon
<1> QED
  BY <1>2, Zenon DEF Matches

\* The chunk of the event that just ended comes after those written, which
\* stay as they are while it is not written.
LEMMA MatchesNew ==
    ASSUME NEW s \in Seq(Line), NEW l \in Line, NEW o \in Seq(Chunks), NEW c \in Chunks,
           Matches(s, o), Len(o) = Cardinality(Worth(s)),
           Worth(Append(s, l)) = Worth(s) \cup {Len(s) + 1},
           ChunkAt(Append(s, l), Len(s) + 1) = <<c>>
    PROVE  /\ Matches(Append(s, l), o)
           /\ Matches(Append(s, l), Append(o, c))
           /\ Cardinality(Worth(Append(s, l))) = Len(o) + 1
<1> DEFINE t == Append(s, l)
           n == Len(s) + 1
           W == Worth(s)
           V == Worth(t)
<1>1. Len(s) \in Nat /\ W \in SUBSET (1..Len(s)) /\ Len(o) \in Nat
  BY Appended, WorthAfter
<1>2. \A i \in W : i \in 1..(Len(s) + 1)
  BY <1>1
<1>3. \A i \in W : ChunkAt(t, i) = ChunkAt(s, i)
  BY <1>2, SameChunk, Zenon
<1>4. /\ V = W \cup {n}
      /\ Cardinality(V) = Len(o) + 1
      /\ Rank(V, n) = Len(o) + 1
      /\ \A i \in W : Rank(V, i) = Rank(W, i)
  <2>1. V = W \cup {n}
    OBVIOUS
  <2>2. /\ Cardinality(W \cup {n}) = Cardinality(W) + 1
        /\ Rank(W \cup {n}, n) = Cardinality(W) + 1
        /\ \A i \in W : Rank(W \cup {n}, i) = Rank(W, i)
    BY <1>1, RankOfMore, Zenon
  <2> QED
    BY <2>1, <2>2, Zenon
<1>5. \A i \in W : Rank(W, i) \in 1..Len(o)
  BY <1>1, RankBound, Zenon
<1>6. \A i \in W : Rank(W, i) <= Len(o)
  BY <1>1, <1>5
<1>7. \A i \in W : <<o[Rank(V, i)]>> = ChunkAt(t, i)
  BY <1>3, <1>4, <1>6, Zenon DEF Matches
<1>8. ~(Rank(V, n) <= Len(o))
  BY <1>1, <1>4
<1> HIDE DEF t, n, W, V, Chunks
<1>9. /\ Append(o, c)[Len(o) + 1] = c
      /\ \A r \in 1..Len(o) : Append(o, c)[r] = o[r]
  OBVIOUS
<1>10. Matches(t, o)
  BY <1>4, <1>7, <1>8, Zenon DEF Matches, V
<1>11. \A i \in V : <<Append(o, c)[Rank(V, i)]>> = ChunkAt(t, i)
  BY <1>4, <1>5, <1>7, <1>9, Zenon DEF t, n
<1>12. Matches(t, Append(o, c))
  BY <1>11, Zenon DEF Matches, V
<1> QED
  BY <1>4, <1>10, <1>12, Zenon DEF t, V

\* The chunks written by the end of an event: all of them, or some of them
\* when a write fails.
LEMMA Written ==
    ASSUME NEW o \in Seq(Chunks), NEW c \in Chunks, NEW d \in Chunks
    PROVE  /\ o \o <<>> \o <<>> = o
           /\ o \o <<>> \o <<d>> = Append(o, d)
           /\ o \o <<c>> \o <<>> = Append(o, c)
           /\ o \o <<c>> \o <<d>> = Append(Append(o, c), d)
           /\ \A k \in 0..(Len(<<>> \o <<>>) - 1) : FALSE
           /\ \A k \in 0..(Len(<<>> \o <<d>>) - 1) : o \o SubSeq(<<>> \o <<d>>, 1, k) = o
           /\ \A k \in 0..(Len(<<c>> \o <<>>) - 1) : o \o SubSeq(<<c>> \o <<>>, 1, k) = o
           /\ \A k \in 0..(Len(<<c>> \o <<d>>) - 1) :
                 o \o SubSeq(<<c>> \o <<d>>, 1, k) \in {o, Append(o, c)}
<1> HIDE DEF Chunks
<1>1. /\ o \o <<>> \o <<>> = o
      /\ o \o <<>> \o <<d>> = Append(o, d)
  OBVIOUS
<1>2. /\ o \o <<c>> \o <<>> = Append(o, c)
      /\ o \o <<c>> \o <<d>> = Append(Append(o, c), d)
  OBVIOUS
<1>3. /\ Len(<<>> \o <<>>) = 0 /\ Len(<<>> \o <<d>>) = 1 /\ Len(<<c>> \o <<>>) = 1
      /\ Len(<<c>> \o <<d>>) = 2
  OBVIOUS
<1>4. ASSUME NEW q \in Seq(Chunks) PROVE o \o SubSeq(q, 1, 0) = o
  OBVIOUS
<1>5. o \o SubSeq(<<c>> \o <<d>>, 1, 1) = Append(o, c)
  <2>1. <<c>> \in Seq(Chunks) /\ <<d>> \in Seq(Chunks) /\ Len(<<c>>) = 1 /\ 1 \in 1..1
    OBVIOUS
  <2>2. SubSeq(<<c>> \o <<d>>, 1, 1) = SubSeq(<<c>>, 1, 1)
    BY <2>1, SubSeqOfConcat1, Zenon
  <2>3. SubSeq(<<c>>, 1, 1) = <<c>>
    BY <2>1, SubSeqFull, Zenon
  <2> QED
    BY <2>2, <2>3
<1>6. <<>> \o <<d>> \in Seq(Chunks) /\ <<c>> \o <<>> \in Seq(Chunks)
        /\ <<c>> \o <<d>> \in Seq(Chunks)
  OBVIOUS
<1>7. 0..(0 - 1) = {} /\ 0..(1 - 1) = {0} /\ 0..(2 - 1) = {0, 1}
  OBVIOUS
<1> QED
  BY <1>1, <1>2, <1>3, <1>4, <1>5, <1>6, <1>7, Zenon

LEMMA DoneType == DoneChunk \in Chunks
<1>1. "[DONE]" \in Deltas /\ "itself" \in Escapes /\ "" \in Finishes
  BY Zenon DEF Deltas, Escapes, Finishes
<1> QED
  BY <1>1, ChunkType, Zenon DEF DoneChunk

\* One more chunk, and it is the last.
LEMMA Longer ==
    ASSUME NEW o \in Seq(Chunks), NEW c \in Chunks
    PROVE  /\ Append(o, c) \in Seq(Chunks)
           /\ Len(Append(o, c)) = Len(o) + 1
           /\ Append(o, c)[Len(o) + 1] = c
           /\ Len(o) \in Nat /\ Len(o) <= Len(o) /\ Len(o) <= Len(o) + 1
           /\ Len(o) + 1 <= Len(o) + 1
<1> HIDE DEF Chunks
<1> QED
  OBVIOUS

-----------------------------------------------------------------------------
(* The steps.                                                              *)

LEMMA InitInv == Init => Inv
<1> SUFFICES ASSUME Init PROVE Inv
  OBVIOUS
<1>1. lines = <<>> /\ event = NoEvent /\ model = "fallback" /\ out = <<>> /\ result = "running"
  BY DEF Init
<1>2. TypeOK
  <2>1. lines \in Seq(Line) /\ out \in Seq(Chunks)
    BY <1>1
  <2>2. event \in [eventType : Types \cup {""}, data : Seq(Docs)]
    BY <1>1, NoEventFields, Zenon DEF EventRecords
  <2>3. model \in Models /\ result \in Results
    BY <1>1, Zenon DEF Models, Results
  <2> QED
    BY <2>1, <2>2, <2>3 DEF TypeOK
<1>3. Len(lines) = 0 /\ Len(out) = 0 /\ 1..0 = {} /\ 0 + 1 = 1 /\ 1 - 1 = 0
  BY <1>1
<1>4. Worth(lines) = {} /\ Cardinality(Worth(lines)) = 0
  BY <1>3, FS_EmptySet, Zenon DEF Worth
<1>5. OfKind(lines, 1, "data") = {} /\ OfKind(lines, 1, "event") = {}
  BY <1>3, Zenon DEF OfKind, RunOf
<1>6. ModelAt(lines, 1) = "fallback"
  BY <1>3, Zenon DEF ModelAt, Naming
<1>7. Holds(event, lines)
  <2>1. event.data = <<>> /\ event.eventType = ""
    BY <1>1, NoEventFields, Zenon
  <2>2. Payloads(lines, 1) = <<>> /\ Header(lines, 1) = ""
    BY <1>5, NoPayloads, Zenon DEF Header
  <2> QED
    BY <1>3, <2>1, <2>2, Zenon DEF Holds
<1>8. Matches(lines, out)
  BY <1>4, Zenon DEF Matches
<1>9. Counts(lines, out, result)
  BY <1>1, <1>3, <1>4 DEF Counts
<1> QED
  BY <1>1, <1>2, <1>3, <1>6, <1>7, <1>8, <1>9, Zenon DEF Inv

\* A line that ends no event.
LEMMA LineKeeps ==
    ASSUME Inv, result = "running", NEW l \in Line, l # Blank
    PROVE  /\ Append(lines, l) \in Seq(Line)
           /\ consume(event, l) \in EventRecords
           /\ Holds(consume(event, l), Append(lines, l))
           /\ Worth(Append(lines, l)) = Worth(lines)
           /\ Matches(Append(lines, l), out)
           /\ model = ModelAt(Append(lines, l), Len(Append(lines, l)) + 1)
           /\ Len(out) = Cardinality(Worth(lines))
<1>1. /\ lines \in Seq(Line) /\ event \in EventRecords /\ Holds(event, lines)
      /\ Matches(lines, out) /\ model = ModelAt(lines, Len(lines) + 1)
  BY Zenon DEF Inv, TypeOK, EventRecords
<1>2. consume(event, l) \in EventRecords /\ Holds(consume(event, l), Append(lines, l))
  BY <1>1, ConsumeHolds
<1>3. ~IsEvent(Append(lines, l), Len(lines) + 1)
  BY <1>1, EventsAfter
<1>4. Worth(Append(lines, l)) = Worth(lines)
  BY <1>1, <1>3, WorthAfter, Zenon
<1>5. Matches(Append(lines, l), out)
  BY <1>1, <1>4, MatchesSame
<1>6. model = ModelAt(Append(lines, l), Len(lines) + 2)
  BY <1>1, <1>3, ModelAfter, Zenon
<1>7. Len(Append(lines, l)) + 1 = Len(lines) + 2 /\ Append(lines, l) \in Seq(Line)
  BY <1>1, Next2, Appended
<1>8. Len(out) = Cardinality(Worth(lines))
  BY Zenon DEF Inv, Counts
<1> QED
  BY <1>2, <1>4, <1>5, <1>6, <1>7, <1>8, Zenon

\* The blank line that ends an event: what it is worth, and what follows.
LEMMA BlankKeeps ==
    ASSUME Inv, result = "running"
    PROVE  LET t    == Append(lines, Blank)
               n    == Len(lines) + 1
               none == event.data = <<>> \/ event.data = <<DonePayload>>
               doc  == joined(event.data)
               new  == IF none THEN <<>> ELSE translate(evType(event), doc, model)
               m    == IF none THEN model ELSE modelAfter(evType(event), doc, model)
           IN  /\ t \in Seq(Line)
               /\ m \in Models
               /\ m = ModelAt(t, Len(t) + 1)
               /\ \/ new = <<>> /\ Worth(t) = Worth(lines)
                  \/ \E c \in Chunks : /\ new = <<c>>
                                       /\ Worth(t) = Worth(lines) \cup {n}
                                       /\ ChunkAt(t, n) = <<c>>
<1> DEFINE t    == Append(lines, Blank)
           n    == Len(lines) + 1
           none == event.data = <<>> \/ event.data = <<DonePayload>>
           doc  == joined(event.data)
           new  == IF none THEN <<>> ELSE translate(evType(event), doc, model)
           m    == IF none THEN model ELSE modelAfter(evType(event), doc, model)
<1>1. /\ lines \in Seq(Line) /\ event \in EventRecords /\ Holds(event, lines)
      /\ model = ModelAt(lines, n) /\ model \in Models
  BY Zenon DEF Inv, TypeOK, EventRecords
<1>2. /\ IsEvent(t, n) <=> ~none
      /\ TypeOf(t, n) = evType(event)
      /\ DocOf(t, n) = doc
  BY <1>1, Ending
<1>3. /\ t \in Seq(Line) /\ Len(t) + 1 = Len(lines) + 2 /\ n \in 1..(Len(lines) + 1)
  BY <1>1, BlankIsALine, Appended, Next2
<1>4. ModelAt(t, n) = model
  BY <1>1, <1>3, BlankIsALine, SameModel
<1>5. ChunkAt(t, n) = translate(evType(event), doc, model)
  BY <1>2, <1>4, Zenon DEF ChunkAt
<1>6. ModelAt(t, Len(lines) + 2) = IF IsEvent(t, n)
                                   THEN modelAfter(TypeOf(t, n), DocOf(t, n), ModelAt(lines, n))
                                   ELSE ModelAt(lines, n)
  BY <1>1, BlankIsALine, ModelAfter, Zenon
<1>7. doc \in Docs \cup {NoDoc}
  <2>1. event.data \in Seq(Docs)
    BY <1>1 DEF EventRecords
  <2>2. Len(event.data) = 1 => event.data[1] \in Docs
    BY <2>1
  <2> QED
    BY <2>2, WholeAssumption, Zenon DEF joined
<1>8. /\ translate(evType(event), doc, model) = <<>>
           \/ \E c \in Chunks : translate(evType(event), doc, model) = <<c>>
      /\ modelAfter(evType(event), doc, model) \in Models
  BY <1>1, <1>7, OneChunk, ModelType, Zenon
<1>9. Worth(t) = IF IsEvent(t, n) /\ ChunkAt(t, n) # <<>>
                 THEN Worth(lines) \cup {n} ELSE Worth(lines)
  BY <1>1, BlankIsALine, WorthAfter
<1>10. \A c : <<c>> # <<>>
  OBVIOUS
<1> HIDE DEF t, n, none, doc
<1>11. m \in Models /\ m = ModelAt(t, Len(t) + 1)
  BY <1>1, <1>2, <1>3, <1>6, <1>8, Zenon
<1>12. \/ new = <<>> /\ Worth(t) = Worth(lines)
       \/ \E c \in Chunks : /\ new = <<c>>
                            /\ Worth(t) = Worth(lines) \cup {n}
                            /\ ChunkAt(t, n) = <<c>>
  BY <1>2, <1>5, <1>8, <1>9, <1>10, Zenon
<1> QED
  BY <1>3, <1>11, <1>12, Zenon DEF t, n, none, doc

LEMMA ResultKinds ==
    /\ Results = {"running", "returned", "read_error", "write_error"}
    /\ "returned" # "running" /\ "returned" # "read_error" /\ "returned" # "write_error"
    /\ "write_error" # "running" /\ "write_error" # "read_error"
    /\ "running" # "write_error"
BY DEF Results

LEMMA CountsReturned ==
    ASSUME NEW t, NEW o, Len(o) = Cardinality(Worth(t)) + 1,
           o[Cardinality(Worth(t)) + 1] = DoneChunk
    PROVE  Counts(t, o, "returned")
BY ResultKinds, Zenon DEF Counts

LEMMA CountsRunning ==
    ASSUME NEW t, NEW o, Len(o) = Cardinality(Worth(t))
    PROVE  Counts(t, o, "running") /\ Counts(t, o, "read_error")
<1>1. "read_error" # "returned" /\ "read_error" # "write_error" /\ "running" # "returned"
  OBVIOUS
<1> QED
  BY <1>1, ResultKinds, Zenon DEF Counts

LEMMA CountsFailed ==
    ASSUME NEW t, NEW o, Len(o) <= Cardinality(Worth(t))
    PROVE  Counts(t, o, "write_error")
BY ResultKinds, Zenon DEF Counts

\* After all chunks, [DONE].
LEMMA WriteOver ==
    ASSUME NEW t \in Seq(Line), NEW o \in Seq(Chunks),
           Matches(t, o), Len(o) = Cardinality(Worth(t))
    PROVE  /\ Append(o, DoneChunk) \in Seq(Chunks)
           /\ Matches(t, Append(o, DoneChunk))
           /\ Counts(t, Append(o, DoneChunk), "returned")
<1>1. /\ Append(o, DoneChunk) \in Seq(Chunks)
      /\ Len(Append(o, DoneChunk)) = Cardinality(Worth(t)) + 1
      /\ Append(o, DoneChunk)[Cardinality(Worth(t)) + 1] = DoneChunk
      /\ Cardinality(Worth(t)) <= Len(o)
  BY DoneType, Longer, Zenon
<1>2. Matches(t, Append(o, DoneChunk))
  BY <1>1, DoneType, MatchesMore, Zenon
<1>3. Counts(t, Append(o, DoneChunk), "returned")
  BY <1>1, CountsReturned, Zenon
<1> QED
  BY <1>1, <1>2, <1>3

\* The end of an event keeps the chunks and the events together, whether its
\* writes succeed or one of them fails.
LEMMA EndWrites ==
    ASSUME Inv, result = "running", NEW eof \in BOOLEAN,
           lines' = Append(lines, Blank), EndEvent(eof)
    PROVE  /\ out' \in Seq(Chunks) /\ Matches(lines', out')
           /\ Counts(lines', out', result')
           /\ result' \in Results
           /\ result' = "running" => ~(event.data = <<DonePayload>> \/ eof)
<1> DEFINE t    == Append(lines, Blank)
           n    == Len(lines) + 1
           none == event.data = <<>> \/ event.data = <<DonePayload>>
           over == event.data = <<DonePayload>> \/ eof
           new  == IF none THEN <<>> ELSE translate(evType(event), joined(event.data), model)
           last == IF over THEN <<DoneChunk>> ELSE <<>>
<1>1. /\ lines \in Seq(Line) /\ out \in Seq(Chunks) /\ Matches(lines, out)
      /\ Len(out) = Cardinality(Worth(lines))
  BY Zenon DEF Inv, TypeOK, Counts
<1>2. /\ t \in Seq(Line)
      /\ \/ new = <<>> /\ Worth(t) = Worth(lines)
         \/ \E c \in Chunks : /\ new = <<c>>
                              /\ Worth(t) = Worth(lines) \cup {n}
                              /\ ChunkAt(t, n) = <<c>>
  BY BlankKeeps, Zenon
<1>3. \/ /\ out' = out \o new \o last
         /\ result' = IF over THEN "returned" ELSE "running"
      \/ \E k \in 0..(Len(new \o last) - 1) :
            /\ out' = out \o SubSeq(new \o last, 1, k)
            /\ result' = "write_error"
  BY Zenon DEF EndEvent
<1>4. DoneChunk \in Chunks /\ over \in BOOLEAN
  BY DoneType
<1> HIDE DEF t, n, none, new, over, Chunks, last
<1>5. CASE new = <<>> /\ Worth(t) = Worth(lines)
  <2>1. Matches(t, out)
    BY <1>1, <1>5, BlankIsALine, MatchesSame, Zenon DEF t
  <2>2. CASE /\ out' = out \o new \o last
             /\ result' = IF over THEN "returned" ELSE "running"
    <3>1. out' = IF over THEN Append(out, DoneChunk) ELSE out
      BY <1>1, <1>4, <1>5, <2>2, Written, Zenon DEF last
    <3>2. Counts(t, out, "running")
      BY <1>1, <1>5, CountsRunning, Zenon
    <3>3. /\ Append(out, DoneChunk) \in Seq(Chunks) /\ Matches(t, Append(out, DoneChunk))
          /\ Counts(t, Append(out, DoneChunk), "returned")
      BY <1>1, <1>2, <1>5, <2>1, WriteOver, Zenon
    <3> QED
      BY <1>1, <2>1, <2>2, <3>1, <3>2, <3>3, ResultKinds, Zenon DEF t, over
  <2>3. CASE \E k \in 0..(Len(new \o last) - 1) :
                /\ out' = out \o SubSeq(new \o last, 1, k)
                /\ result' = "write_error"
    <3>1. out' = out /\ result' = "write_error"
      <4>1. CASE over
        <5>1. last = <<DoneChunk>>
          BY <4>1 DEF last
        <5>2. \A k \in 0..(Len(<<>> \o <<DoneChunk>>) - 1) :
                 out \o SubSeq(<<>> \o <<DoneChunk>>, 1, k) = out
          BY <1>1, <1>4, Written, Zenon
        <5>3. \A k \in 0..(Len(new \o last) - 1) : out \o SubSeq(new \o last, 1, k) = out
          BY <1>5, <5>1, <5>2, Zenon
        <5> QED
          BY <2>3, <5>3, Zenon
      <4>2. CASE ~over
        <5>1. last = <<>>
          BY <4>2 DEF last
        <5> QED
          BY <1>1, <1>4, <1>5, <2>3, <5>1, Written, Zenon
      <4> QED
        BY <4>1, <4>2
    <3>2. Len(out) <= Cardinality(Worth(t))
      BY <1>1, <1>4, <1>5, Longer, Zenon
    <3>3. Counts(t, out, "write_error")
      BY <3>2, CountsFailed, Zenon
    <3> QED
      BY <1>1, <2>1, <3>1, <3>3, ResultKinds, Zenon DEF t
  <2> QED
    BY <1>3, <2>2, <2>3, Zenon
<1>6. ASSUME NEW c \in Chunks, new = <<c>>, Worth(t) = Worth(lines) \cup {n},
             ChunkAt(t, n) = <<c>>
      PROVE  /\ out' \in Seq(Chunks) /\ Matches(lines', out')
             /\ Counts(lines', out', result')
             /\ result' \in Results
             /\ result' = "running" => ~(event.data = <<DonePayload>> \/ eof)
  <2>1. /\ Matches(t, out) /\ Matches(t, Append(out, c))
        /\ Cardinality(Worth(t)) = Len(out) + 1
    BY <1>1, <1>6, BlankIsALine, MatchesNew, Zenon DEF t, n
  <2>2. /\ Append(out, c) \in Seq(Chunks)
        /\ Len(Append(out, c)) = Cardinality(Worth(t))
        /\ Len(out) <= Cardinality(Worth(t))
        /\ Len(Append(out, c)) <= Cardinality(Worth(t))
    BY <1>1, <1>6, <2>1, Longer, Zenon
  <2>3. CASE /\ out' = out \o new \o last
             /\ result' = IF over THEN "returned" ELSE "running"
    <3>1. out' = IF over THEN Append(Append(out, c), DoneChunk) ELSE Append(out, c)
      BY <1>1, <1>4, <1>6, <2>3, Written, Zenon DEF last
    <3>2. Counts(t, Append(out, c), "running")
      BY <2>2, CountsRunning, Zenon
    <3>3. /\ Append(Append(out, c), DoneChunk) \in Seq(Chunks)
          /\ Matches(t, Append(Append(out, c), DoneChunk))
          /\ Counts(t, Append(Append(out, c), DoneChunk), "returned")
      BY <1>2, <2>1, <2>2, WriteOver, Zenon
    <3> QED
      BY <2>1, <2>2, <2>3, <3>1, <3>2, <3>3, ResultKinds, Zenon DEF t, over
  <2>4. CASE \E k \in 0..(Len(new \o last) - 1) :
                /\ out' = out \o SubSeq(new \o last, 1, k)
                /\ result' = "write_error"
    <3>1. out' \in {out, Append(out, c)} /\ result' = "write_error"
      <4>1. CASE over
        <5>1. last = <<DoneChunk>>
          BY <4>1 DEF last
        <5>2. \A k \in 0..(Len(<<c>> \o <<DoneChunk>>) - 1) :
                 out \o SubSeq(<<c>> \o <<DoneChunk>>, 1, k) \in {out, Append(out, c)}
          BY <1>1, <1>4, Written, Zenon
        <5>3. \A k \in 0..(Len(new \o last) - 1) : out \o SubSeq(new \o last, 1, k) \in {out, Append(out, c)}
          BY <1>6, <5>1, <5>2, Zenon
        <5> QED
          BY <2>4, <5>3, Zenon
      <4>2. CASE ~over
        <5>1. last = <<>>
          BY <4>2 DEF last
        <5>2. \A k \in 0..(Len(<<c>> \o <<>>) - 1) :
                 out \o SubSeq(<<c>> \o <<>>, 1, k) = out
          BY <1>1, <1>4, Written, Zenon
        <5>3. \A k \in 0..(Len(new \o last) - 1) : out \o SubSeq(new \o last, 1, k) = out
          BY <1>6, <5>1, <5>2, Zenon
        <5> QED
          BY <2>4, <5>3, Zenon
      <4> QED
        BY <4>1, <4>2
    <3>2. Counts(t, out', "write_error")
      BY <2>2, <3>1, CountsFailed, Zenon
    <3> QED
      BY <1>1, <2>1, <2>2, <3>1, <3>2, ResultKinds, Zenon DEF t
  <2> QED
    BY <1>3, <2>3, <2>4, Zenon
<1> QED
  BY <1>2, <1>5, <1>6, Zenon

LEMMA EndKeeps ==
    ASSUME Inv, result = "running", NEW eof \in BOOLEAN,
           lines' = Append(lines, Blank), EndEvent(eof)
    PROVE  Inv'
<1> DEFINE done == event.data = <<DonePayload>>
<1>1. /\ out' \in Seq(Chunks) /\ Matches(lines', out') /\ Counts(lines', out', result')
      /\ result' \in Results
      /\ result' = "running" => ~done
  BY EndWrites, Zenon
<1>2. lines \in Seq(Line) /\ event \in EventRecords
  BY Zenon DEF Inv, TypeOK, EventRecords
<1>3. event' = IF done THEN event ELSE NoEvent
  BY Zenon DEF EndEvent, reset
<1>4. event' \in EventRecords /\ (~done => Holds(event', lines'))
  BY <1>2, <1>3, ResetHolds, Zenon
<1>5. lines' \in Seq(Line) /\ model' \in Models /\ model' = ModelAt(lines', Len(lines') + 1)
  BY BlankKeeps, Zenon DEF EndEvent
<1> HIDE DEF done
<1>6. out' \in Seq(Chunks) /\ result' \in Results /\ event' \in EventRecords
  BY <1>1, <1>4, Zenon
<1>7. TypeOK'
  BY <1>5, <1>6, Zenon DEF TypeOK, EventRecords
<1>8. Matches(lines', out') /\ Counts(lines', out', result')
  BY <1>1, Zenon
<1>9. result' = "running" => Holds(event', lines')
  BY <1>1, <1>4, Zenon
<1> QED
  BY <1>5, <1>7, <1>8, <1>9, Zenon DEF Inv

LEMMA NextInv == Inv /\ [Next]_vars => Inv'
<1> SUFFICES ASSUME Inv, [Next]_vars PROVE Inv'
  OBVIOUS
<1>1. CASE ReadLine
  <2>1. result = "running"
    BY <1>1, Zenon DEF ReadLine
  <2>2. PICK l \in Line :
           /\ lines' = Append(lines, l)
           /\ IF l = Blank THEN EndEvent(FALSE)
              ELSE /\ event' = consume(event, l)
                   /\ UNCHANGED <<model, out, result>>
    BY <1>1, Zenon DEF ReadLine
  <2>3. CASE l = Blank
    BY <2>1, <2>2, <2>3, EndKeeps, Zenon
  <2>4. CASE l # Blank
    <3>1. event' = consume(event, l) /\ model' = model /\ out' = out /\ result' = result
      BY <2>2, <2>4
    <3>2. /\ lines' \in Seq(Line) /\ event' \in EventRecords /\ Holds(event', lines')
          /\ Worth(lines') = Worth(lines) /\ Matches(lines', out')
          /\ model' = ModelAt(lines', Len(lines') + 1)
          /\ Len(out') = Cardinality(Worth(lines'))
      BY <2>1, <2>2, <2>4, <3>1, LineKeeps, Zenon
    <3>3. TypeOK'
      BY <3>1, <3>2, Zenon DEF Inv, TypeOK, EventRecords
    <3>4. Counts(lines', out', result')
      BY <2>1, <3>1, <3>2, CountsRunning, Zenon
    <3> QED
      BY <3>2, <3>3, <3>4, Zenon DEF Inv
  <2> QED
    BY <2>3, <2>4
<1>2. CASE ReadEOF
  BY <1>2, EndKeeps, Zenon DEF ReadEOF
<1>3. CASE ReadPartialLine
  <2>1. result = "running" /\ model' = model
    BY <1>3, Zenon DEF ReadPartialLine
  <2>2. PICK l \in Line \ {Blank} : lines' = Append(lines, l) /\ event' = consume(event, l)
    BY <1>3, Zenon DEF ReadPartialLine
  <2>3. \/ out' = Append(out, DoneChunk) /\ result' = "returned"
        \/ out' = out /\ result' = "write_error"
    BY <1>3, Zenon DEF ReadPartialLine
  <2>4. /\ lines' \in Seq(Line) /\ event' \in EventRecords
        /\ Matches(lines', out) /\ Len(out) = Cardinality(Worth(lines'))
    BY <2>1, <2>2, LineKeeps, Zenon
  <2>5. out \in Seq(Chunks) /\ model \in Models
    BY Zenon DEF Inv, TypeOK
  <2>6. CASE out' = Append(out, DoneChunk) /\ result' = "returned"
    <3>1. out' \in Seq(Chunks) /\ Matches(lines', out') /\ Counts(lines', out', result')
      BY <2>4, <2>5, <2>6, WriteOver, Zenon
    <3> QED
      BY <2>1, <2>4, <2>5, <2>6, <3>1, ResultKinds, Zenon DEF Inv, TypeOK, EventRecords
  <2>7. CASE out' = out /\ result' = "write_error"
    <3>1. Len(out) <= Cardinality(Worth(lines'))
      BY <2>4, <2>5, DoneType, Longer, Zenon
    <3>2. Counts(lines', out', result')
      BY <2>7, <3>1, CountsFailed, Zenon
    <3> QED
      BY <2>1, <2>4, <2>5, <2>7, <3>2, ResultKinds, Zenon DEF Inv, TypeOK, EventRecords
  <2> QED
    BY <2>3, <2>6, <2>7
<1>4. CASE ReadError
  <2>1. /\ result = "running" /\ result' = "read_error"
        /\ lines' = lines /\ event' = event /\ model' = model /\ out' = out
    BY <1>4 DEF ReadError
  <2>2. Counts(lines', out', result')
    <3>1. Len(out) = Cardinality(Worth(lines))
      BY <2>1, Zenon DEF Inv, Counts
    <3> QED
      BY <2>1, <3>1, CountsRunning, Zenon
  <2>3. result' # "running" /\ result' \in Results
    BY <2>1 DEF Results
  <2> QED
    BY <2>1, <2>2, <2>3, Zenon DEF Inv, TypeOK
<1>5. CASE UNCHANGED vars
  <2>1. /\ lines' = lines /\ event' = event /\ model' = model /\ out' = out
        /\ result' = result
    BY <1>5 DEF vars
  <2> QED
    BY <2>1, Zenon DEF Inv, TypeOK
<1> QED
  BY <1>1, <1>2, <1>3, <1>4, <1>5, Zenon DEF Next

\* TranslateAnthropicStream writes one chunk for every event of the stream
\* that is worth one, in order and made of that event alone, and [DONE] last
\* exactly when it returns without an error, for every stream.
THEOREM StreamTranslated == Spec => []TranslatesEvents
<1>1. Inv => TranslatesEvents
  BY Translates, Zenon DEF Inv
<1> QED
  BY <1>1, InitInv, NextInv, PTL DEF Spec

-----------------------------------------------------------------------------
(* The request.                                                            *)

\* A text AppendQuote writes as JSON is read back as it was.
LEMMA QuotedIsText == \A text : Quotable(text) => Quoted(text) = text
BY DEF Quoted

LEMMA NothingQuoted == Quoted(<<>>) = <<>>
<1>1. Quotable(<<>>)
  BY DEF Quotable
<1> QED
  BY <1>1, QuotedIsText

\* What both paths read in a message that the fast path takes.
SimpleMessage(m) ==
    /\ m.toolCalls = <<>> /\ m.toolCallID = "" /\ m.name = ""
    /\ isSimpleString(m.content)
    /\ m.role \in {"system", "user", "assistant"}

ComparableMessage(m) ==
    /\ m.content.kind = "string" => Quotable(m.content.text)
    /\ m.content.kind = "null" => m.role # "user"

\* The three contents a simple message may have, as they are read.
LEMMA ReadContents ==
    ASSUME NEW c, isSimpleString(c)
    PROVE  /\ c.kind = "string" =>
                /\ ContentAsRead(c).kind = "string"
                /\ ContentAsRead(c).text = Quoted(c.text)
                /\ contentAsString(ContentAsRead(c)) = Quoted(c.text)
                /\ contentAsString(c) = c.text
                /\ rawMessageAsSimpleString(c) = c.text
           /\ c.kind \in {"missing", "null"} =>
                /\ ContentAsRead(c).kind = "missing"
                /\ contentAsString(ContentAsRead(c)) = <<>>
                /\ contentAsString(c) = <<>>
                /\ rawMessageAsSimpleString(c) = <<>>
           /\ c.kind \in {"missing", "null", "string"}
<1>1. c.kind \in {"missing", "null", "string"}
  BY DEF isSimpleString
<1>2. ASSUME NEW d, NEW t, d.kind = "string", d.text = t
      PROVE  contentAsString(d) = t
  BY <1>2 DEF contentAsString, decodes, textOnly
<1>3. ASSUME NEW d, d.kind \in {"missing", "null"}
      PROVE  contentAsString(d) = <<>>
  BY <1>3 DEF contentAsString, decodes, textOnly
<1>4. CASE c.kind = "string"
  <2>1. ContentAsRead(c) = Text(Quoted(c.text))
    BY <1>4 DEF ContentAsRead
  <2>2. ContentAsRead(c).kind = "string" /\ ContentAsRead(c).text = Quoted(c.text)
    BY <2>1 DEF Text
  <2> QED
    BY <1>1, <1>2, <1>4, <2>2 DEF rawMessageAsSimpleString
<1>5. CASE c.kind = "null"
  <2>1. ContentAsRead(c) = NoContent
    BY <1>5 DEF ContentAsRead
  <2>2. ContentAsRead(c).kind = "missing"
    BY <2>1 DEF NoContent
  <2> QED
    BY <1>1, <1>3, <1>5, <2>2 DEF rawMessageAsSimpleString
<1>6. CASE c.kind = "missing"
  <2>1. ContentAsRead(c) = c
    BY <1>6 DEF ContentAsRead
  <2> QED
    BY <1>1, <1>3, <1>6, <2>1 DEF rawMessageAsSimpleString
<1> QED
  BY <1>1, <1>4, <1>5, <1>6

\* A message as it is read differs in its content only.
LEMMA ReadMessage ==
    ASSUME NEW m
    PROVE  /\ MessageAsRead(m).role = m.role
           /\ MessageAsRead(m).content = ContentAsRead(m.content)
           /\ MessageAsRead(m).toolCalls = m.toolCalls
           /\ IsSystem(MessageAsRead(m)) <=> IsSystem(m)
<1>1. /\ MessageAsRead(m).role = m.role
      /\ MessageAsRead(m).content = ContentAsRead(m.content)
      /\ MessageAsRead(m).toolCalls = m.toolCalls
  BY DEF MessageAsRead, Message
<1> QED
  BY <1>1 DEF IsSystem

LEMMA SameText ==
    ASSUME NEW m, SimpleMessage(m)
    PROVE  /\ Quoted(rawMessageAsSimpleString(m.content))
                = contentAsString(MessageAsRead(m).content)
           /\ ComparableMessage(m) =>
                contentAsString(MessageAsRead(m).content) = contentAsString(m.content)
<1>1. isSimpleString(m.content) /\ MessageAsRead(m).content = ContentAsRead(m.content)
  BY ReadMessage DEF SimpleMessage
<1>2. CASE m.content.kind = "string"
  <2>1. ComparableMessage(m) => Quoted(m.content.text) = m.content.text
    BY <1>2, QuotedIsText DEF ComparableMessage
  <2> QED
    BY <1>1, <1>2, <2>1, ReadContents, Zenon
<1>3. CASE m.content.kind \in {"missing", "null"}
  BY <1>1, <1>3, NothingQuoted, ReadContents, Zenon
<1> QED
  BY <1>1, <1>2, <1>3, ReadContents

\* The general path on a plain message.
LEMMA PlainMessage ==
    ASSUME NEW m, m.toolCalls = <<>>, m.role \in {"user", "assistant"},
           m.content.kind \in {"missing", "null", "string"},
           m.role = "user" => m.content.kind # "null"
    PROVE  translateMessage(m) = Said(m.role, Words(contentAsString(m.content)))
<1>1. CASE m.role = "assistant"
  <2>1. translateAssistantMessage(m) = Said("assistant", Words(contentAsString(m.content)))
    BY Zenon DEF translateAssistantMessage
  <2>2. translateMessage(m) = translateAssistantMessage(m)
    BY <1>1 DEF translateMessage
  <2> QED
    BY <1>1, <2>1, <2>2, Zenon
<1>2. CASE m.role = "user"
  <2>1. translateMessage(m) = translateUserMessage(m)
    BY <1>2 DEF translateMessage
  <2>2. m.content.kind \in {"missing", "string"}
    BY <1>2
  <2>3. translateUserMessage(m) = Said("user", Words(contentAsString(m.content)))
    BY <2>2 DEF translateUserMessage, contentAsString, decodes, textOnly
  <2> QED
    BY <1>2, <2>1, <2>3, Zenon
<1> QED
  BY <1>1, <1>2

LEMMA SameMessage ==
    ASSUME NEW m, SimpleMessage(m), ~IsSystem(m)
    PROVE  /\ Said(m.role, Words(Quoted(rawMessageAsSimpleString(m.content))))
                = translateMessage(MessageAsRead(m))
           /\ ComparableMessage(m) =>
                translateMessage(MessageAsRead(m)) = translateMessage(m)
<1> DEFINE r == MessageAsRead(m)
<1>1. /\ m.toolCalls = <<>> /\ m.role \in {"user", "assistant"}
      /\ isSimpleString(m.content)
  BY DEF SimpleMessage, IsSystem
<1>2. /\ r.toolCalls = <<>> /\ r.role = m.role
      /\ r.content.kind \in {"missing", "string"}
  BY <1>1, ReadMessage, ReadContents
<1> HIDE DEF r
<1>3. translateMessage(r) = Said(m.role, Words(contentAsString(r.content)))
  <2>1. r.content.kind \in {"missing", "null", "string"} /\ r.content.kind # "null"
    BY <1>2
  <2> QED
    BY <1>1, <1>2, <2>1, PlainMessage, Zenon
<1>4. ComparableMessage(m) =>
         translateMessage(m) = Said(m.role, Words(contentAsString(m.content)))
  <2>1. m.content.kind \in {"missing", "null", "string"}
    BY <1>1, ReadContents
  <2> QED
    BY <1>1, <2>1, PlainMessage, Zenon DEF ComparableMessage
<1> QED
  BY <1>3, <1>4, SameText, Zenon DEF r

\* The general path makes the same request of conversations it reads alike.
LEMMA GeneralSame ==
    ASSUME NEW r, NEW s, DOMAIN r.messages = DOMAIN s.messages,
           SystemOnes(r.messages) = {} \/
              Max(SystemOnes(r.messages)) \in SystemOnes(r.messages),
           r.model = s.model, r.max_tokens = s.max_tokens,
           r.options = s.options, r.stop = s.stop, r.format = s.format,
           r.tools = s.tools,
           \A i \in DOMAIN r.messages :
               /\ IsSystem(r.messages[i]) <=> IsSystem(s.messages[i])
               /\ contentAsString(r.messages[i].content)
                     = contentAsString(s.messages[i].content)
               /\ ~IsSystem(r.messages[i]) =>
                     translateMessage(r.messages[i]) = translateMessage(s.messages[i])
    PROVE  generalRequest(r) = generalRequest(s)
<1>1. SystemOnes(r.messages) = SystemOnes(s.messages)
  BY Zenon DEF SystemOnes
<1>2. SystemOnes(r.messages) \subseteq DOMAIN r.messages
  BY DEF SystemOnes
<1>3. systemPrompt(r.messages) = systemPrompt(s.messages)
  BY <1>1, <1>2, Zenon DEF systemPrompt
<1>4. [i \in DOMAIN r.messages |-> IF IsSystem(r.messages[i]) THEN <<>>
                                   ELSE <<translateMessage(r.messages[i])>>]
        = [i \in DOMAIN s.messages |-> IF IsSystem(s.messages[i]) THEN <<>>
                                       ELSE <<translateMessage(s.messages[i])>>]
  BY Zenon
<1>5. maxTokens(r) = maxTokens(s)
  BY DEF maxTokens
<1> QED
  BY <1>3, <1>4, <1>5, Zenon DEF generalRequest

\* The fast path sends the general path's translation of the conversation as
\* AppendQuote spells it.
LEMMA SimpleAsRead ==
    ASSUME NEW Messages, NEW Characters, NEW req, isSimple(req),
           req.messages \in Seq(Messages),
           \A m \in Messages : m.content.kind = "string" => m.content.text \in Seq(Characters)
    PROVE  translateOpenAIToAnthropicSimple(req) = generalRequest(AsRead(req))
<1> DEFINE M == req.messages
           n == Len(M)
           R == AsRead(req)
           N == R.messages
           text(i) == Quoted(rawMessageAsSimpleString(M[i].content))
<1>1. n \in Nat /\ DOMAIN M = 1..n
  OBVIOUS
<1>2. /\ R.model = Quoted(req.model) /\ R.max_tokens = req.max_tokens
      /\ R.options = req.options /\ R.format = req.format /\ R.tools = req.tools
      /\ R.stop = [i \in DOMAIN req.stop |-> Quoted(req.stop[i])]
      /\ N = [i \in DOMAIN M |-> MessageAsRead(M[i])]
  BY DEF AsRead
<1>3. DOMAIN N = DOMAIN M /\ \A i \in DOMAIN M : N[i] = MessageAsRead(M[i])
  BY <1>2, Zenon
<1> HIDE DEF R
<1>4. ASSUME NEW i \in DOMAIN M
      PROVE  /\ SimpleMessage(M[i]) /\ M[i] \in Messages
             /\ IsSystem(N[i]) <=> IsSystem(M[i])
             /\ text(i) = contentAsString(N[i].content)
             /\ ~IsSystem(M[i]) =>
                   Said(M[i].role, Words(text(i))) = translateMessage(N[i])
  <2>1. SimpleMessage(M[i])
    BY Zenon DEF isSimple, SimpleMessage
  <2>2. M[i] \in Messages
    OBVIOUS
  <2>3. N[i] = MessageAsRead(M[i])
    BY <1>3
  <2> QED
    BY <2>1, <2>2, <2>3, ReadMessage, SameText, SameMessage, Zenon
<1>5. [i \in DOMAIN M |-> IF IsSystem(M[i]) THEN <<>> ELSE <<Said(M[i].role, Words(text(i)))>>]
        = [i \in DOMAIN N |-> IF IsSystem(N[i]) THEN <<>> ELSE <<translateMessage(N[i])>>]
  BY <1>3, <1>4, Zenon
<1>6. directive(R.format) = <<>> /\ R.tools = <<>>
  BY <1>2 DEF isSimple, directive
<1>7. ASSUME NEW i \in DOMAIN M PROVE text(i) \o <<>> = text(i)
  <2>1. isSimpleString(M[i].content)
    BY <1>4 DEF SimpleMessage
  <2>2. CASE M[i].content.kind = "string"
    <3>1. M[i].content.text \in Seq(Characters)
      BY <1>4, <2>2, Zenon
    <3>2. rawMessageAsSimpleString(M[i].content) = M[i].content.text
      BY <2>1, <2>2, ReadContents, Zenon
    <3>3. \A t \in Seq(Characters) : t \o <<>> = t
      OBVIOUS
    <3>4. Garbled \o <<>> = Garbled
      BY DEF Garbled
    <3> QED
      BY <3>1, <3>2, <3>3, <3>4, Zenon DEF Quoted
  <2>3. CASE M[i].content.kind \in {"missing", "null"}
    <3>1. rawMessageAsSimpleString(M[i].content) = <<>>
      BY <2>1, <2>3, ReadContents, Zenon
    <3>2. <<>> \o <<>> = <<>>
      OBVIOUS
    <3> QED
      BY <3>1, <3>2, NothingQuoted, Zenon
  <2> QED
    BY <2>1, <2>2, <2>3, ReadContents
<1>8. SystemOnes(N) = SystemOnes(M) /\ SystemOnes(M) \in SUBSET (1..n)
  BY <1>1, <1>3, <1>4, Zenon DEF SystemOnes
<1> HIDE DEF N
<1>9. systemPrompt(N) \o directive(R.format)
        = IF SystemOnes(M) = {} THEN <<>> ELSE text(Max(SystemOnes(M)))
  <2>1. CASE SystemOnes(M) = {}
    <3>1. systemPrompt(N) = <<>>
      BY <1>8, <2>1, Zenon DEF systemPrompt
    <3>2. <<>> \o <<>> = <<>>
      OBVIOUS
    <3> QED
      BY <1>6, <2>1, <3>1, <3>2, Zenon
  <2>2. CASE SystemOnes(M) # {}
    <3>1. Max(SystemOnes(M)) \in DOMAIN M
      BY <1>1, <1>8, <2>2, MaxIsIn, Zenon
    <3>2. systemPrompt(N) = text(Max(SystemOnes(M)))
      BY <1>4, <1>8, <2>2, <3>1, Zenon DEF systemPrompt
    <3>3. text(Max(SystemOnes(M))) \o <<>> = text(Max(SystemOnes(M)))
      BY <1>7, <3>1, Zenon
    <3> QED
      BY <1>6, <2>2, <3>2, <3>3, Zenon
  <2> QED
    BY <2>1, <2>2
<1>10. maxTokens(R) = maxTokens(req)
  BY <1>2 DEF maxTokens
<1> HIDE DEF text
<1>11. generalRequest(R) =
          [model |-> R.model, max_tokens |-> maxTokens(R), options |-> R.options,
           stop_sequences |-> R.stop, system |-> systemPrompt(N) \o directive(R.format),
           tools |-> R.tools,
           messages |-> Joined([i \in DOMAIN N |-> IF IsSystem(N[i]) THEN <<>>
                                                   ELSE <<translateMessage(N[i])>>])]
  BY Zenon DEF generalRequest, N
<1> QED
  BY <1>2, <1>5, <1>6, <1>9, <1>10, <1>11, Zenon
     DEF translateOpenAIToAnthropicSimple, text, R

\* Whatever the conversation, the request sent is the general path's, for the
\* conversation itself or as strconv.AppendQuote spells its model, its stop
\* sequences and its texts; and for the conversation itself when each of these
\* is a string AppendQuote writes as JSON and no user message is null.
THEOREM RequestsAgree ==
    ASSUME NEW Messages, NEW Characters, NEW req,
           req.messages \in Seq(Messages),
           req.stop \in Seq(Seq(Characters)),
           \A m \in Messages : m.content.kind = "string" => m.content.text \in Seq(Characters)
    PROVE  RequestPathsAgree(req)
<1> DEFINE M == req.messages
           R == AsRead(req)
<1>1. CASE ~isSimple(req)
  BY <1>1, Zenon DEF RequestPathsAgree, TranslateOpenAIToAnthropicBody
<1>2. CASE isSimple(req)
  <2>1. TranslateOpenAIToAnthropicBody(req) = generalRequest(R)
    BY <1>2, SimpleAsRead, Zenon DEF TranslateOpenAIToAnthropicBody
  <2>2. ASSUME Comparable(req) PROVE generalRequest(R) = generalRequest(req)
    <3>1. /\ R.model = Quoted(req.model) /\ R.max_tokens = req.max_tokens
          /\ R.options = req.options /\ R.format = req.format /\ R.tools = req.tools
          /\ R.stop = [i \in DOMAIN req.stop |-> Quoted(req.stop[i])]
          /\ R.messages = [i \in DOMAIN M |-> MessageAsRead(M[i])]
      BY DEF AsRead
    <3> HIDE DEF R
    <3>2. R.model = req.model
      BY <2>2, <3>1, QuotedIsText, Zenon DEF Comparable
    <3>3. R.stop = req.stop
      <4>1. [i \in DOMAIN req.stop |-> Quoted(req.stop[i])]
              = [i \in DOMAIN req.stop |-> req.stop[i]]
        BY <2>2, QuotedIsText, Zenon DEF Comparable
      <4>2. [i \in DOMAIN req.stop |-> req.stop[i]] = req.stop
        OBVIOUS
      <4> QED
        BY <3>1, <4>1, <4>2, Zenon
    <3>4. DOMAIN R.messages = DOMAIN M
      BY <3>1, Zenon
    <3>5. ASSUME NEW i \in DOMAIN M
          PROVE  /\ IsSystem(R.messages[i]) <=> IsSystem(M[i])
                 /\ contentAsString(R.messages[i].content) = contentAsString(M[i].content)
                 /\ ~IsSystem(M[i]) =>
                       translateMessage(R.messages[i]) = translateMessage(M[i])
      <4>1. SimpleMessage(M[i])
        BY <1>2, Zenon DEF isSimple, SimpleMessage
      <4>2. ComparableMessage(M[i])
        BY <2>2, Zenon DEF Comparable, ComparableMessage
      <4>3. R.messages[i] = MessageAsRead(M[i])
        BY <3>1, Zenon
      <4>4. IsSystem(R.messages[i]) <=> IsSystem(M[i])
        BY <4>3, ReadMessage, Zenon
      <4>5. contentAsString(R.messages[i].content) = contentAsString(M[i].content)
        BY <4>1, <4>2, <4>3, SameText, Zenon
      <4>6. ~IsSystem(M[i]) =>
               translateMessage(R.messages[i]) = translateMessage(M[i])
        BY <4>1, <4>2, <4>3, SameMessage, Zenon
      <4> QED
        BY <4>4, <4>5, <4>6
    <3>6. SystemOnes(R.messages) = {} \/
             Max(SystemOnes(R.messages)) \in SystemOnes(R.messages)
      <4>1. Len(M) \in Nat /\ DOMAIN M = 1..Len(M)
        OBVIOUS
      <4>2. SystemOnes(R.messages) \in SUBSET (1..Len(M))
        BY <3>4, <4>1, Zenon DEF SystemOnes
      <4> QED
        BY <4>1, <4>2, MaxIsIn, Zenon
    <3> QED
      BY <3>1, <3>2, <3>3, <3>4, <3>5, <3>6, GeneralSame, ZenonT(30)
  <2> QED
    BY <2>1, <2>2, Zenon DEF RequestPathsAgree
<1> QED
  BY <1>1, <1>2

-----------------------------------------------------------------------------
(* The response: sequences put together, and values within values.         *)

\* The pieces are joined one after the other.
LEMMA JoinedSteps ==
    ASSUME NEW s, Len(s) \in Nat
    PROVE  \E f : /\ Joined(s) = f[Len(s)] /\ f[0] = <<>>
                  /\ \A i \in 1..Len(s) : f[i] = f[i - 1] \o s[i]
<1> DEFINE n == Len(s)
           UpTo(m, g) == [i \in 0..m |-> IF i = 0 THEN <<>> ELSE g[i - 1] \o s[i]]
           P(m) == \E g : g = UpTo(m, g)
           Q == {m \in Nat : P(m)}
<1>1. Joined(s) = (CHOOSE g : g = UpTo(n, g))[n]
  BY Zenon DEF Joined
<1>2. n \in Nat
  OBVIOUS
<1> HIDE DEF n
<1>3. P(0)
  <2> DEFINE g == [i \in 0..0 |-> <<>>]
  <2>1. \A i \in 0..0 : i = 0
    OBVIOUS
  <2>2. g = UpTo(0, g)
    BY <2>1, Zenon
  <2> QED
    BY <2>2, Zenon
<1>4. ASSUME NEW m \in Nat, P(m) PROVE P(m + 1)
  <2>1. PICK g : g = UpTo(m, g)
    BY <1>4, Zenon
  <2> DEFINE h == [i \in 0..(m + 1) |-> IF i <= m THEN g[i] ELSE g[i - 1] \o s[i]]
  <2>2. ASSUME NEW i \in 0..(m + 1)
        PROVE  h[i] = IF i = 0 THEN <<>> ELSE h[i - 1] \o s[i]
    <3>1. CASE i <= m
      <4>1. i \in 0..m
        BY <3>1
      <4>2. g[i] = IF i = 0 THEN <<>> ELSE g[i - 1] \o s[i]
        BY <2>1, <4>1, Zenon
      <4>3. h[i] = g[i]
        BY <3>1
      <4>4. i # 0 => h[i - 1] = g[i - 1]
        BY <3>1
      <4> HIDE DEF h
      <4> QED
        BY <4>2, <4>3, <4>4, Zenon
    <3>2. CASE i = m + 1
      <4>1. i # 0 /\ ~(i <= m) /\ i - 1 \in 0..(m + 1) /\ i - 1 <= m
        BY <3>2
      <4>2. h[i] = g[i - 1] \o s[i] /\ h[i - 1] = g[i - 1]
        BY <4>1, Zenon
      <4> HIDE DEF h
      <4> QED
        BY <4>1, <4>2, Zenon
    <3> QED
      BY <3>1, <3>2
  <2>3. h = [i \in 0..(m + 1) |-> h[i]]
    OBVIOUS
  <2> HIDE DEF h
  <2>4. h = UpTo(m + 1, h)
    BY <2>2, <2>3, Zenon
  <2> QED
    BY <2>4, Zenon
<1> HIDE DEF P
<1>5. n \in Q
  <2>1. Q \in SUBSET Nat /\ 0 \in Q /\ \A m \in Q : m + 1 \in Q
    BY <1>3, <1>4
  <2> HIDE DEF Q
  <2> QED
    BY <1>2, <2>1, Induction
<1>6. PICK h : h = UpTo(n, h)
  BY <1>5, Zenon DEF P
<1> DEFINE f == CHOOSE g : g = UpTo(n, g)
<1>7. f = UpTo(n, f) /\ Joined(s) = f[n]
  BY <1>1, <1>6, Zenon
<1> HIDE DEF f
<1>8. \A i \in 0..n : f[i] = IF i = 0 THEN <<>> ELSE f[i - 1] \o s[i]
  BY <1>7, Zenon
<1>9. 0 \in 0..n /\ \A i \in 1..n : i \in 0..n /\ i # 0
  BY <1>2
<1>10. f[0] = <<>> /\ \A i \in 1..n : f[i] = f[i - 1] \o s[i]
  BY <1>8, <1>9, Zenon
<1> QED
  BY <1>7, <1>10, Zenon DEF n

\* What holds of the empty text and of the pieces, and of two texts put
\* together if it holds of both, holds of the whole.
LEMMA JoinedIn ==
    ASSUME NEW S, NEW s, NEW n \in Nat, Len(s) = n, <<>> \in S,
           \A i \in 1..n : s[i] \in S,
           \A a, b \in S : a \o b \in S
    PROVE  Joined(s) \in S
<1>1. PICK f : /\ Joined(s) = f[n] /\ f[0] = <<>>
               /\ \A i \in 1..n : f[i] = f[i - 1] \o s[i]
  <2>1. Len(s) \in Nat
    OBVIOUS
  <2> QED
    BY <2>1, JoinedSteps, Zenon
<1> DEFINE P(m) == m \in 0..n => f[m] \in S
           Q == {m \in Nat : P(m)}
<1>2. P(0)
  BY <1>1, Zenon
<1>3. ASSUME NEW m \in Nat, P(m) PROVE P(m + 1)
  <2> SUFFICES ASSUME m + 1 \in 0..n PROVE f[m + 1] \in S
    OBVIOUS
  <2>1. m \in 0..n /\ m + 1 \in 1..n /\ (m + 1) - 1 = m
    OBVIOUS
  <2>2. f[m + 1] = f[m] \o s[m + 1]
    BY <1>1, <2>1, Zenon
  <2>3. f[m] \in S
    BY <1>3, <2>1
  <2> QED
    BY <2>1, <2>2, <2>3, Zenon
<1> HIDE DEF P
<1>4. n \in Q
  <2>1. Q \in SUBSET Nat /\ 0 \in Q /\ \A m \in Q : m + 1 \in Q
    BY <1>2, <1>3
  <2> HIDE DEF Q
  <2> QED
    BY <2>1, Induction
<1>5. P(n) /\ n \in 0..n
  BY <1>4
<1> QED
  BY <1>1, <1>5, Zenon DEF P

\* The values within a value, level by level.
LEMMA NestedLevels ==
    ASSUME NEW v, Depth \in Nat
    PROVE  \E w : /\ Nested(v) = w[Depth] /\ w[0] = {v}
                  /\ \A n \in 1..Depth :
                        w[n] = w[n - 1] \cup UNION {Inner(u) : u \in w[n - 1]}
<1> DEFINE More(S) == S \cup UNION {Inner(u) : u \in S}
           Levels(m, g) == [i \in 0..m |-> IF i = 0 THEN {v} ELSE More(g[i - 1])]
           P(m) == \E g : g = Levels(m, g)
           Q == {m \in Nat : P(m)}
<1>0. Nested(v) = (CHOOSE g : g = Levels(Depth, g))[Depth]
  BY Zenon DEF Nested
<1> HIDE DEF More
<1>1. P(0)
  <2> DEFINE g == [i \in 0..0 |-> {v}]
  <2>1. \A i \in 0..0 : i = 0
    OBVIOUS
  <2>2. g = Levels(0, g)
    BY <2>1, Zenon
  <2> QED
    BY <2>2, Zenon
<1>2. ASSUME NEW m \in Nat, P(m) PROVE P(m + 1)
  <2>1. PICK g : g = Levels(m, g)
    BY <1>2
  <2> DEFINE h == [i \in 0..(m + 1) |-> IF i <= m THEN g[i] ELSE More(g[i - 1])]
  <2>2. ASSUME NEW i \in 0..(m + 1)
        PROVE  h[i] = IF i = 0 THEN {v} ELSE More(h[i - 1])
    <3>1. CASE i <= m
      <4>1. i \in 0..m
        BY <3>1
      <4>2. g[i] = IF i = 0 THEN {v} ELSE More(g[i - 1])
        BY <2>1, <4>1, Zenon
      <4>3. h[i] = g[i]
        BY <3>1
      <4>4. i # 0 => h[i - 1] = g[i - 1]
        BY <3>1
      <4> HIDE DEF h
      <4> QED
        BY <4>2, <4>3, <4>4, Zenon
    <3>2. CASE i = m + 1
      <4>1. h[i] = More(g[i - 1]) /\ i # 0
        BY <3>2
      <4>2. h[i - 1] = g[i - 1]
        BY <3>2
      <4> HIDE DEF h
      <4> QED
        BY <4>1, <4>2, Zenon
    <3> QED
      BY <3>1, <3>2
  <2>3. h = [i \in 0..(m + 1) |-> h[i]]
    OBVIOUS
  <2> HIDE DEF h
  <2>4. h = Levels(m + 1, h)
    BY <2>2, <2>3, Zenon
  <2> QED
    BY <2>4, Zenon
<1> HIDE DEF P
<1>3. Depth \in Q
  <2>1. Q \in SUBSET Nat /\ 0 \in Q /\ \A m \in Q : m + 1 \in Q
    BY <1>1, <1>2
  <2> HIDE DEF Q
  <2> QED
    BY <2>1, Induction
<1>4. PICK h : h = Levels(Depth, h)
  BY <1>3 DEF P
<1> DEFINE w == CHOOSE g : g = Levels(Depth, g)
<1>5. w = Levels(Depth, w) /\ Nested(v) = w[Depth]
  BY <1>0, <1>4, Zenon
<1> HIDE DEF w
<1>6. \A i \in 0..Depth : w[i] = IF i = 0 THEN {v} ELSE More(w[i - 1])
  BY <1>5, Zenon
<1>7. 0 \in 0..Depth /\ \A i \in 1..Depth : i \in 0..Depth /\ i # 0
  OBVIOUS
<1>8. w[0] = {v} /\ \A i \in 1..Depth : w[i] = More(w[i - 1])
  BY <1>6, <1>7, Zenon
<1> QED
  BY <1>5, <1>8, Zenon DEF More

\* A value, its members, theirs and theirs are all within the value.
LEMMA NestedHolds ==
    ASSUME NEW v, Depth \in Nat, Depth >= 3
    PROVE  \A a \in Inner(v) :
              /\ a \in Nested(v)
              /\ \A b \in Inner(a) : b \in Nested(v) /\ Inner(b) \subseteq Nested(v)
<1>1. PICK w : /\ Nested(v) = w[Depth] /\ w[0] = {v}
               /\ \A n \in 1..Depth :
                     w[n] = w[n - 1] \cup UNION {Inner(u) : u \in w[n - 1]}
  BY NestedLevels, Zenon
<1>2. ASSUME NEW n \in 0..Depth, n + 1 \in 1..Depth
      PROVE  w[n] \subseteq w[n + 1] /\ \A u \in w[n] : Inner(u) \subseteq w[n + 1]
  <2>1. (n + 1) - 1 = n
    OBVIOUS
  <2>2. w[n + 1] = w[n] \cup UNION {Inner(u) : u \in w[n]}
    BY <1>1, <1>2, <2>1, Zenon
  <2> QED
    BY <2>2, Zenon
<1> DEFINE P(m) == 3 + m <= Depth => w[3] \subseteq w[3 + m]
           Q == {m \in Nat : P(m)}
<1>3. P(0)
  OBVIOUS
<1>4. ASSUME NEW m \in Nat, P(m) PROVE P(m + 1)
  <2> SUFFICES ASSUME 3 + (m + 1) <= Depth PROVE w[3] \subseteq w[3 + (m + 1)]
    OBVIOUS
  <2>1. 3 + m \in 0..Depth /\ (3 + m) + 1 \in 1..Depth /\ 3 + (m + 1) = (3 + m) + 1
    OBVIOUS
  <2>2. w[3] \subseteq w[3 + m]
    BY <1>4
  <2>3. w[3 + m] \subseteq w[(3 + m) + 1]
    BY <1>2, <2>1
  <2> QED
    BY <2>1, <2>2, <2>3, Zenon
<1> HIDE DEF P
<1>5. Q = Nat
  <2>1. Q \in SUBSET Nat /\ 0 \in Q /\ \A m \in Q : m + 1 \in Q
    BY <1>3, <1>4
  <2> HIDE DEF Q
  <2> QED
    BY <2>1, Induction, Zenon
<1>6. w[3] \subseteq w[Depth]
  <2>1. Depth - 3 \in Nat /\ 3 + (Depth - 3) = Depth /\ 3 + (Depth - 3) <= Depth
    OBVIOUS
  <2>2. P(Depth - 3)
    BY <1>5, <2>1
  <2> QED
    BY <2>1, <2>2, Zenon DEF P
<1>7. /\ 0 \in 0..Depth /\ 0 + 1 \in 1..Depth /\ 0 + 1 = 1
      /\ 1 \in 0..Depth /\ 1 + 1 \in 1..Depth /\ 1 + 1 = 2
      /\ 2 \in 0..Depth /\ 2 + 1 \in 1..Depth /\ 2 + 1 = 3
  OBVIOUS
<1>8. w[0] \subseteq w[1] /\ \A u \in w[0] : Inner(u) \subseteq w[1]
  BY <1>2, <1>7, Zenon
<1>9. w[1] \subseteq w[2] /\ \A u \in w[1] : Inner(u) \subseteq w[2]
  BY <1>2, <1>7, Zenon
<1>10. w[2] \subseteq w[3] /\ \A u \in w[2] : Inner(u) \subseteq w[3]
  BY <1>2, <1>7, Zenon
<1>11. v \in w[0]
  BY <1>1, Zenon
<1>12. ASSUME NEW a \in Inner(v) PROVE a \in w[1]
  BY <1>8, <1>11, Zenon
<1>13. ASSUME NEW a \in Inner(v), NEW b \in Inner(a) PROVE b \in w[2]
  BY <1>9, <1>12, Zenon
<1>14. ASSUME NEW a \in Inner(v), NEW b \in Inner(a) PROVE Inner(b) \subseteq w[3]
  BY <1>10, <1>13, Zenon
<1> QED
  BY <1>1, <1>6, <1>9, <1>10, <1>12, <1>13, <1>14, ZenonT(30)

-----------------------------------------------------------------------------
(* The text of the hand-written parser.                                    *)

Accs(C) == [text : Seq(C), builder : Seq(C), multi : BOOLEAN]

\* The text collected so far.
Collected(acc) == IF acc.multi THEN acc.builder ELSE acc.text

\* Whatever has come before, a block adds its text at the end.
LEMMA BlockAdds ==
    ASSUME NEW C, NEW acc \in Accs(C), NEW text \in Seq(C)
    PROVE  /\ addBlockText(acc, text) \in Accs(C)
           /\ Collected(addBlockText(acc, text)) = Collected(acc) \o text
<1>1. /\ acc.text \in Seq(C) /\ acc.builder \in Seq(C) /\ acc.multi \in BOOLEAN
  BY Zenon DEF Accs
<1>2. CASE ~acc.multi /\ acc.text = <<>>
  <2> DEFINE d == [acc EXCEPT !.text = text]
  <2>1. addBlockText(acc, text) = d
    BY <1>2, Zenon DEF addBlockText
  <2>2. d \in Accs(C) /\ d.text = text /\ d.multi = acc.multi
    BY Zenon DEF Accs
  <2>3. <<>> \o text = text
    OBVIOUS
  <2> QED
    BY <1>2, <2>1, <2>2, <2>3, Zenon DEF Collected
<1>3. CASE ~(~acc.multi /\ acc.text = <<>>)
  <2> DEFINE b == Collected(acc) \o text
             d == [acc EXCEPT !.builder = b, !.multi = TRUE]
  <2>1. addBlockText(acc, text) = d
    BY <1>3, Zenon DEF addBlockText, Collected
  <2>2. Collected(acc) \in Seq(C)
    BY <1>1, Zenon DEF Collected
  <2>3. b \in Seq(C)
    BY <2>2
  <2> HIDE DEF b
  <2>4. d \in Accs(C) /\ d.builder = b /\ d.multi = TRUE
    BY <2>3, Zenon DEF Accs
  <2> QED
    BY <2>1, <2>4, Zenon DEF Collected, b
<1> QED
  BY <1>2, <1>3

\* The loop of the parser, one block after the other.
LEMMA LoopSteps ==
    ASSUME NEW v, Len(v.items) \in Nat
    PROVE  \E a : /\ parseAnthropicTextContentArray(v) = Collected(a[Len(v.items)])
                  /\ a[0] = [text |-> <<>>, builder |-> <<>>, multi |-> FALSE]
                  /\ \A i \in 1..Len(v.items) :
                        a[i] = addBlockText(a[i - 1], StringIn(v.items[i], "text"))
<1> DEFINE n == Len(v.items)
           none == [text |-> <<>>, builder |-> <<>>, multi |-> FALSE]
           Add(x, i) == addBlockText(x, StringIn(v.items[i], "text"))
           Loop(m, g) == [i \in 0..m |-> IF i = 0 THEN none ELSE Add(g[i - 1], i)]
           P(m) == \E g : g = Loop(m, g)
           Q == {m \in Nat : P(m)}
<1>0. parseAnthropicTextContentArray(v) = Collected((CHOOSE g : g = Loop(n, g))[n])
  BY Zenon DEF parseAnthropicTextContentArray, Collected
<1> HIDE DEF none, Add
<1>n. n \in Nat
  OBVIOUS
<1> HIDE DEF n
<1>1. P(0)
  <2> DEFINE g == [i \in 0..0 |-> none]
  <2>1. \A i \in 0..0 : i = 0
    OBVIOUS
  <2>2. g = Loop(0, g)
    BY <2>1, Zenon
  <2> QED
    BY <2>2, Zenon
<1>2. ASSUME NEW m \in Nat, P(m) PROVE P(m + 1)
  <2>1. PICK g : g = Loop(m, g)
    BY <1>2
  <2> DEFINE h == [i \in 0..(m + 1) |-> IF i <= m THEN g[i] ELSE Add(g[i - 1], i)]
  <2>2. ASSUME NEW i \in 0..(m + 1)
        PROVE  h[i] = IF i = 0 THEN none ELSE Add(h[i - 1], i)
    <3>1. CASE i <= m
      <4>1. i \in 0..m
        BY <3>1
      <4>2. g[i] = IF i = 0 THEN none ELSE Add(g[i - 1], i)
        BY <2>1, <4>1, Zenon
      <4>3. h[i] = g[i]
        BY <3>1
      <4>4. i # 0 => h[i - 1] = g[i - 1]
        BY <3>1
      <4> HIDE DEF h
      <4> QED
        BY <4>2, <4>3, <4>4, Zenon
    <3>2. CASE i = m + 1
      <4>1. h[i] = Add(g[i - 1], i) /\ i # 0
        BY <3>2
      <4>2. h[i - 1] = g[i - 1]
        BY <3>2
      <4> HIDE DEF h
      <4> QED
        BY <4>1, <4>2, Zenon
    <3> QED
      BY <3>1, <3>2
  <2>3. h = [i \in 0..(m + 1) |-> h[i]]
    OBVIOUS
  <2> HIDE DEF h
  <2>4. h = Loop(m + 1, h)
    BY <2>2, <2>3, Zenon
  <2> QED
    BY <2>4, Zenon
<1> HIDE DEF P
<1>3. n \in Q
  <2>1. Q \in SUBSET Nat /\ 0 \in Q /\ \A m \in Q : m + 1 \in Q
    BY <1>1, <1>2
  <2> HIDE DEF Q
  <2> QED
    BY <1>n, <2>1, Induction
<1>4. PICK h : h = Loop(n, h)
  BY <1>3 DEF P
<1> DEFINE a == CHOOSE g : g = Loop(n, g)
<1>5. a = Loop(n, a) /\ parseAnthropicTextContentArray(v) = Collected(a[n])
  BY <1>0, <1>4, Zenon
<1> HIDE DEF a
<1>6. \A i \in 0..n : a[i] = IF i = 0 THEN none ELSE Add(a[i - 1], i)
  BY <1>5, Zenon
<1>7. 0 \in 0..n /\ \A i \in 1..n : i \in 0..n /\ i # 0
  BY <1>n
<1>8. a[0] = none /\ \A i \in 1..n : a[i] = Add(a[i - 1], i)
  BY <1>6, <1>7, Zenon
<1> QED
  BY <1>5, <1>8, Zenon DEF none, Add, n

\* The parser's text is the texts of the blocks, one after the other.
LEMMA ParserCollects ==
    ASSUME NEW C, NEW v, NEW n \in Nat, Len(v.items) = n,
           \A i \in 1..n : StringIn(v.items[i], "text") \in Seq(C)
    PROVE  parseAnthropicTextContentArray(v)
             = Joined([i \in 1..n |-> StringIn(v.items[i], "text")])
<1> DEFINE s == [i \in 1..n |-> StringIn(v.items[i], "text")]
<1>1. PICK a : /\ parseAnthropicTextContentArray(v) = Collected(a[n])
               /\ a[0] = [text |-> <<>>, builder |-> <<>>, multi |-> FALSE]
               /\ \A i \in 1..n :
                     a[i] = addBlockText(a[i - 1], StringIn(v.items[i], "text"))
  <2>1. Len(v.items) \in Nat
    OBVIOUS
  <2> QED
    BY <2>1, LoopSteps, Zenon
<1>2. a[0] \in Accs(C) /\ Collected(a[0]) = <<>>
  <2>1. <<>> \in Seq(C)
    OBVIOUS
  <2>2. a[0].multi = FALSE /\ a[0].text = <<>>
    BY <1>1
  <2>3. a[0] \in Accs(C)
    BY <1>1, <2>1 DEF Accs
  <2> QED
    BY <2>2, <2>3 DEF Collected
<1>3. /\ \A i \in 1..n : s[i] = StringIn(v.items[i], "text")
      /\ \A i \in 1..n : s[i] \in Seq(C)
      /\ Len(s) = n
  OBVIOUS
<1> HIDE DEF s
<1>4. PICK f : /\ Joined(s) = f[n] /\ f[0] = <<>>
               /\ \A i \in 1..n : f[i] = f[i - 1] \o s[i]
  <2>1. Len(s) \in Nat /\ Len(s) = n
    BY <1>3
  <2>2. \E f : /\ Joined(s) = f[Len(s)] /\ f[0] = <<>>
               /\ \A i \in 1..Len(s) : f[i] = f[i - 1] \o s[i]
    BY <2>1, JoinedSteps, Zenon
  <2> QED
    BY <2>1, <2>2, Zenon
<1> DEFINE P(m) == m \in 0..n => a[m] \in Accs(C) /\ Collected(a[m]) = f[m]
           Q == {m \in Nat : P(m)}
<1>5. P(0)
  BY <1>2, <1>4, Zenon
<1>6. ASSUME NEW m \in Nat, P(m) PROVE P(m + 1)
  <2> SUFFICES ASSUME m + 1 \in 0..n
               PROVE  a[m + 1] \in Accs(C) /\ Collected(a[m + 1]) = f[m + 1]
    OBVIOUS
  <2>1. m \in 0..n /\ m + 1 \in 1..n /\ (m + 1) - 1 = m
    OBVIOUS
  <2>2. a[m] \in Accs(C) /\ Collected(a[m]) = f[m]
    BY <1>6, <2>1
  <2>3. a[m + 1] = addBlockText(a[m], s[m + 1]) /\ s[m + 1] \in Seq(C)
    BY <1>1, <1>3, <2>1, Zenon
  <2>4. a[m + 1] \in Accs(C) /\ Collected(a[m + 1]) = Collected(a[m]) \o s[m + 1]
    BY <2>2, <2>3, BlockAdds, Zenon
  <2>5. f[m + 1] = f[m] \o s[m + 1]
    BY <1>4, <2>1, Zenon
  <2> QED
    BY <2>2, <2>4, <2>5, Zenon
<1> HIDE DEF P
<1>7. n \in Q
  <2>1. Q \in SUBSET Nat /\ 0 \in Q /\ \A m \in Q : m + 1 \in Q
    BY <1>5, <1>6
  <2> HIDE DEF Q
  <2> QED
    BY <2>1, Induction, Zenon
<1>8. P(n) /\ n \in 0..n
  BY <1>7
<1> QED
  BY <1>1, <1>4, <1>8, Zenon DEF P, s

-----------------------------------------------------------------------------
(* Texts that both ways of writing them agree on.                          *)

Fair(C) == {t \in Seq(C) : Quotable(t)}

LEMMA FairTexts ==
    ASSUME NEW C
    PROVE  <<>> \in Fair(C) /\ \A a, b \in Fair(C) : a \o b \in Fair(C)
<1>1. <<>> \in Fair(C)
  BY DEF Fair, Quotable
<1>2. ASSUME NEW a \in Fair(C), NEW b \in Fair(C) PROVE a \o b \in Fair(C)
  <2>1. /\ a \in Seq(C) /\ b \in Seq(C) /\ a \o b \in Seq(C)
        /\ \A i \in DOMAIN a : AppendQuote(a[i]) \notin NotJSON
        /\ \A i \in DOMAIN b : AppendQuote(b[i]) \notin NotJSON
    BY DEF Fair, Quotable
  <2>2. ASSUME NEW i \in DOMAIN (a \o b)
        PROVE  AppendQuote((a \o b)[i]) \notin NotJSON
    <3>1. \/ i \in DOMAIN a /\ (a \o b)[i] = a[i]
          \/ i - Len(a) \in DOMAIN b /\ (a \o b)[i] = b[i - Len(a)]
      BY <2>1
    <3> QED
      BY <2>1, <3>1, Zenon
  <2> QED
    BY <2>1, <2>2, Zenon DEF Fair, Quotable
<1> QED
  BY <1>1, <1>2

\* An object whose strings, of its own members, are fair.
FairObject(C, o) ==
    /\ o.kind = "object"
    /\ \A k \in DOMAIN o.fields : o.fields[k].kind = "string" => o.fields[k].text \in Fair(C)

LEMMA FairMember ==
    ASSUME NEW C, NEW o, FairObject(C, o), NEW key
    PROVE  StringIn(o, key) \in Fair(C) /\ Quoted(StringIn(o, key)) = StringIn(o, key)
<1>1. StringIn(o, key) \in Fair(C)
  BY FairTexts, Zenon DEF StringIn, Has, FairObject
<1> QED
  BY <1>1, Zenon DEF Fair, Quoted

LEMMA FairCall ==
    ASSUME NEW C, NEW o, FairObject(C, o)
    PROVE  quotedCall(o) = toolCall(o)
<1> DEFINE c == toolCall(o)
<1>1. Quoted(c.id) = c.id /\ Quoted(c.name) = c.name
  BY FairMember DEF toolCall
<1>2. c = [id |-> c.id, name |-> c.name, arguments |-> c.arguments]
  BY DEF toolCall
<1> HIDE DEF c
<1>3. [c EXCEPT !.id = Quoted(@), !.name = Quoted(@)] = c
  BY <1>1, <1>2, Zenon
<1> QED
  BY <1>3, Zenon DEF quotedCall, c

-----------------------------------------------------------------------------
(* The paths.                                                              *)

\* A body as JSON makes it: texts are sequences of characters, arrays are
\* sequences.
WellFormed(v, C) ==
    /\ v.kind = "object"
    /\ \A u \in Nested(v) :
          /\ u.kind = "string" => u.text \in Seq(C)
          /\ u.kind = "array" => \E S : u.items \in Seq(S)

AllQuotable(v) == \A u \in Nested(v) : u.kind = "string" => Quotable(u.text)

\* What the general path needs to have found to translate the body.
Decoded(v) ==
    /\ Has(v, "content") => v.fields["content"].kind \in {"array", "null"}
    /\ \A i \in DOMAIN ItemsIn(v, "content") :
          ItemsIn(v, "content")[i].kind \in {"object", "null"}

LEMMA FairBody ==
    ASSUME NEW C, NEW v, Depth \in Nat, Depth >= 3, WellFormed(v, C), AllQuotable(v)
    PROVE  FairObject(C, v)
<1>1. ASSUME NEW k \in DOMAIN v.fields, v.fields[k].kind = "string"
      PROVE  v.fields[k].text \in Fair(C)
  <2>1. v.fields[k] \in Inner(v)
    BY Zenon DEF Inner, WellFormed
  <2>2. v.fields[k] \in Nested(v)
    BY <2>1, NestedHolds, Zenon
  <2> QED
    BY <1>1, <2>2, Zenon DEF Fair, WellFormed, AllQuotable
<1> QED
  BY <1>1, Zenon DEF FairObject, WellFormed

\* The blocks of the content are a sequence of fair objects.
LEMMA FairBlocks ==
    ASSUME NEW C, NEW v, Depth \in Nat, Depth >= 3, WellFormed(v, C), AllQuotable(v),
           Decoded(v)
    PROVE  \E n \in Nat :
              /\ DOMAIN ItemsIn(v, "content") = 1..n /\ Len(ItemsIn(v, "content")) = n
              /\ \A i \in 1..n : FairObject(C, BlocksIn(v)[i])
<1> DEFINE items == ItemsIn(v, "content")
           content == v.fields["content"]
<1>1. CASE Has(v, "content") /\ content.kind = "array"
  <2>1. items = content.items
    BY <1>1, Zenon DEF ItemsIn
  <2>2. content \in Inner(v)
    BY <1>1, Zenon DEF Inner, Has, WellFormed
  <2>3. content \in Nested(v)
    BY <2>2, NestedHolds, Zenon
  <2>4. PICK S : items \in Seq(S)
    BY <1>1, <2>1, <2>3, Zenon DEF WellFormed
  <2> DEFINE n == Len(items)
  <2>5. n \in Nat /\ DOMAIN items = 1..n
    BY <2>4
  <2>6. ASSUME NEW i \in 1..n PROVE FairObject(C, BlocksIn(v)[i])
    <3>1. BlocksIn(v)[i] = IF items[i].kind = "null" THEN Obj(<<>>) ELSE items[i]
      BY <2>5, <2>6, Zenon DEF BlocksIn
    <3>2. CASE items[i].kind = "null"
      <4>1. FairObject(C, Obj(<<>>))
        BY DEF FairObject, Obj
      <4> QED
        BY <3>1, <3>2, <4>1, Zenon
    <3>3. CASE items[i].kind # "null"
      <4>1. items[i].kind = "object"
        BY <2>5, <3>3, Zenon DEF Decoded
      <4>2. items[i] \in Inner(content)
        <5>1. Inner(content) = {content.items[j] : j \in DOMAIN content.items}
          BY <1>1 DEF Inner
        <5> QED
          BY <2>1, <2>5, <5>1, Zenon
      <4>3. Inner(items[i]) \subseteq Nested(v)
        BY <2>2, <4>2, NestedHolds, Zenon
      <4>4. Inner(items[i]) = {items[i].fields[k] : k \in DOMAIN items[i].fields}
        BY <4>1 DEF Inner
      <4>5. ASSUME NEW k \in DOMAIN items[i].fields, items[i].fields[k].kind = "string"
            PROVE  items[i].fields[k].text \in Fair(C)
        <5>1. items[i].fields[k] \in Nested(v)
          BY <4>3, <4>4, Zenon
        <5> QED
          BY <4>5, <5>1, Zenon DEF Fair, WellFormed, AllQuotable
      <4>6. FairObject(C, items[i])
        BY <4>1, <4>5, Zenon DEF FairObject
      <4> QED
        BY <3>1, <3>3, <4>6, Zenon
    <3> QED
      BY <3>2, <3>3
  <2> HIDE DEF items
  <2> QED
    BY <2>5, <2>6, Zenon DEF items
<1>2. CASE ~(Has(v, "content") /\ content.kind = "array")
  <2>1. items = <<>>
    BY <1>2, Zenon DEF ItemsIn
  <2>2. /\ 0 \in Nat /\ DOMAIN <<>> = 1..0 /\ Len(<<>>) = 0
        /\ \A i \in 1..0 : FairObject(C, BlocksIn(v)[i])
    OBVIOUS
  <2> QED
    BY <2>1, <2>2, Zenon
<1> QED
  BY <1>1, <1>2

\* The texts of fair blocks are a fair text.
LEMMA FairText ==
    ASSUME NEW C, NEW blocks, NEW n \in Nat, DOMAIN blocks = 1..n,
           \A i \in 1..n : FairObject(C, blocks[i])
    PROVE  TextOf(blocks) \in Fair(C) /\ Quoted(TextOf(blocks)) = TextOf(blocks)
<1> DEFINE s == [i \in DOMAIN blocks |->
               IF IsOfType(blocks[i], "text") THEN StringIn(blocks[i], "text") ELSE <<>>]
<1>1. ASSUME NEW i \in 1..n PROVE s[i] \in Fair(C)
  BY FairMember, FairTexts, Zenon
<1>2. Len(s) = n
  OBVIOUS
<1>3. TextOf(blocks) = Joined(s)
  BY Zenon DEF TextOf
<1> HIDE DEF s
<1>4. Joined(s) \in Fair(C)
  BY <1>1, <1>2, FairTexts, JoinedIn, Zenon
<1> QED
  BY <1>3, <1>4, Zenon DEF Fair, Quoted

\* The calls of fair blocks come out as they are.
LEMMA FairCalls ==
    ASSUME NEW C, NEW blocks, NEW n, DOMAIN blocks = 1..n,
           \A i \in 1..n : FairObject(C, blocks[i])
    PROVE  quotedCalls(blocks) = toolCalls(blocks)
<1>1. [i \in DOMAIN blocks |->
          IF IsOfType(blocks[i], "tool_use") THEN <<quotedCall(blocks[i])>> ELSE <<>>]
      = [i \in DOMAIN blocks |->
          IF IsOfType(blocks[i], "tool_use") THEN <<toolCall(blocks[i])>> ELSE <<>>]
  BY FairCall, Zenon
<1> QED
  BY <1>1, Zenon DEF quotedCalls, toolCalls

\* An answer of text alone: the parser finds the text that the decoder finds,
\* and there are no calls to find.
LEMMA TextAlone ==
    ASSUME NEW C, NEW v, Depth \in Nat, Depth >= 3, WellFormed(v, C), AllQuotable(v),
           Decoded(v), Has(v, "content"), v.fields["content"].kind = "array",
           \A i \in DOMAIN v.fields["content"].items :
               parseAnthropicTextBlock(v.fields["content"].items[i])
    PROVE  /\ parseAnthropicTextContentArray(v.fields["content"]) = TextOf(BlocksIn(v))
           /\ toolCalls(BlocksIn(v)) = <<>>
<1> DEFINE content == v.fields["content"]
           items == content.items
           blocks == BlocksIn(v)
<1>1. ItemsIn(v, "content") = items
  BY Zenon DEF ItemsIn
<1>2. PICK n \in Nat : /\ DOMAIN items = 1..n /\ Len(items) = n
                       /\ \A i \in 1..n : FairObject(C, blocks[i])
  BY <1>1, FairBlocks, Zenon
<1>3. ASSUME NEW i \in 1..n
      PROVE  /\ blocks[i] = items[i] /\ StringIn(items[i], "type") = <<"text">>
             /\ StringIn(items[i], "text") \in Seq(C)
  <2>1. items[i].kind = "object" /\ StringIn(items[i], "type") = <<"text">>
    BY <1>2, Zenon DEF parseAnthropicTextBlock
  <2>2. blocks[i] = IF items[i].kind = "null" THEN Obj(<<>>) ELSE items[i]
    BY <1>1, <1>2, Zenon DEF BlocksIn
  <2>3. blocks[i] = items[i]
    BY <2>1, <2>2
  <2>4. StringIn(items[i], "text") \in Fair(C)
    BY <1>2, <2>3, FairMember, Zenon
  <2> QED
    BY <2>1, <2>3, <2>4, Zenon DEF Fair
<1>4. DOMAIN blocks = 1..n
  BY <1>1, <1>2, Zenon DEF BlocksIn
<1> HIDE DEF blocks
<1>5. ASSUME NEW i \in 1..n
      PROVE  IsOfType(blocks[i], "text") /\ ~IsOfType(blocks[i], "tool_use")
  <2>1. StringIn(blocks[i], "type") = <<"text">>
    BY <1>3, Zenon
  <2>2. <<"text">> # <<"tool_use">>
    OBVIOUS
  <2> QED
    BY <2>1, <2>2, Zenon DEF IsOfType
<1>6. parseAnthropicTextContentArray(content) = TextOf(blocks)
  <2>1. parseAnthropicTextContentArray(content)
          = Joined([i \in 1..n |-> StringIn(items[i], "text")])
    <3>1. Len(content.items) = n
      BY <1>2, Zenon
    <3>2. \A i \in 1..n : StringIn(content.items[i], "text") \in Seq(C)
      BY <1>3, Zenon
    <3> HIDE DEF content
    <3> QED
      BY <3>1, <3>2, ParserCollects
  <2>2. [i \in 1..n |-> StringIn(items[i], "text")]
          = [i \in DOMAIN blocks |->
                IF IsOfType(blocks[i], "text") THEN StringIn(blocks[i], "text") ELSE <<>>]
    BY <1>3, <1>4, <1>5, Zenon
  <2> QED
    BY <2>1, <2>2, Zenon DEF TextOf
<1>7. toolCalls(blocks) = <<>>
  <2> DEFINE s == [i \in DOMAIN blocks |->
            IF IsOfType(blocks[i], "tool_use") THEN <<toolCall(blocks[i])>> ELSE <<>>]
  <2>1. \A i \in 1..n : s[i] \in {<<>>}
    BY <1>4, <1>5, Zenon
  <2>2. Len(s) = n
    BY <1>4
  <2>3. \A a, b \in {<<>>} : a \o b \in {<<>>}
    OBVIOUS
  <2>4. toolCalls(blocks) = Joined(s)
    BY Zenon DEF toolCalls
  <2> HIDE DEF s
  <2>5. Joined(s) \in {<<>>}
    <3>1. <<>> \in {<<>>}
      OBVIOUS
    <3> QED
      BY <2>1, <2>2, <2>3, <3>1, JoinedIn, Zenon
  <2> QED
    BY <2>4, <2>5, Zenon
<1> QED
  BY <1>6, <1>7, Zenon DEF blocks

LEMMA UntranslatedIsNot == Untranslated.translated = FALSE
BY DEF Untranslated

\* The two fast paths of the response translation are only faster: an answer
\* the general path can translate and whose texts strconv.AppendQuote writes as
\* JSON is translated to the same completion, for bodies of any size and any
\* number of blocks, however the keys are spelt when there is a tool call and
\* when they are spelt as the fields are otherwise
\* (TranslateAnthropicToOpenAI of anthropic_provider.go).
THEOREM ResponsesAgree ==
    ASSUME NEW C, NEW status, NEW body, Depth \in Nat, Depth >= 3,
           WellFormed(ByField(body.value), C)
    PROVE  ResponsePathsAgree(status, body)
<1> DEFINE v == ByField(body.value)
           blocks == BlocksIn(v)
           text == translateAnthropicTextOnlyToOpenAI(body)
           tool == translateAnthropicToolUseToOpenAI(body)
           general == generalPath(body)
           reason == Reason(StringIn(v, "stop_reason"))
           answer == TranslateResponse(status, body)
<1>1. answer.status = status /\ (status # 200 => answer.body = Untranslated)
  BY DEF TranslateResponse
<1>2. ASSUME status = 200, general.translated, AllQuotable(v),
             Mentions(body.value, "tool_use") \/ v = body.value
      PROVE  TranslateAnthropicToOpenAI(body) = general
  <2>1. /\ general = Completion(StringIn(v, "id"), StringIn(v, "model"), TextOf(blocks),
                                toolCalls(blocks), reason, UsageOf(v))
        /\ Unmarshals(body, {"id", "type", "role", "model", "stop_reason"},
                      {"type", "text", "id", "name", "tool_use_id"})
    BY <1>2, UntranslatedIsNot, Zenon DEF generalPath
  <2>2. Decoded(v)
    BY <2>1, Zenon DEF Unmarshals, Decoded
  <2>3. FairObject(C, v)
    BY <1>2, FairBody
  <2>4. /\ Quoted(StringIn(v, "id")) = StringIn(v, "id")
        /\ Quoted(StringIn(v, "model")) = StringIn(v, "model")
    BY <2>3, FairMember, Zenon
  <2>5. PICK n \in Nat : /\ DOMAIN ItemsIn(v, "content") = 1..n
                         /\ \A i \in 1..n : FairObject(C, blocks[i])
    BY <1>2, <2>2, FairBlocks, Zenon
  <2>6. DOMAIN blocks = 1..n
    BY <2>5, Zenon DEF BlocksIn
  <2>7. Quoted(TextOf(blocks)) = TextOf(blocks) /\ quotedCalls(blocks) = toolCalls(blocks)
    BY <2>5, <2>6, FairText, FairCalls, Zenon
  <2>8. CASE isTextOnly(body) /\ parseAnthropicTextOnlyResponse(body)
    <3>0. v = body.value
      BY <1>2, <2>8, Zenon DEF isTextOnly
    <3>1. /\ Has(v, "content") /\ v.fields["content"].kind = "array"
          /\ \A i \in DOMAIN v.fields["content"].items :
                parseAnthropicTextBlock(v.fields["content"].items[i])
      <4>1. "content" \in DOMAIN v.fields
        BY <2>8, <3>0, Zenon DEF parseAnthropicTextOnlyResponse
      <4> QED
        BY <2>8, <3>0, <4>1 DEF parseAnthropicTextOnlyResponse, Has
    <3>2. /\ parseAnthropicTextContentArray(v.fields["content"]) = TextOf(blocks)
          /\ toolCalls(blocks) = <<>>
      BY <1>2, <2>2, <3>1, TextAlone, Zenon
    <3>3. text = Completion(Quoted(StringIn(v, "id")), Quoted(StringIn(v, "model")),
                     Quoted(parseAnthropicTextContentArray(v.fields["content"])), <<>>,
                     reason, UsageOf(v))
      BY <2>8, <3>0, Zenon DEF translateAnthropicTextOnlyToOpenAI
    <3>4. text = general
      BY <2>1, <2>4, <2>7, <3>2, <3>3, Zenon
    <3>5. text.translated
      BY <1>2, <3>4, Zenon
    <3>6. TranslateAnthropicToOpenAI(body) = text
      BY <3>5 DEF TranslateAnthropicToOpenAI
    <3> QED
      BY <3>4, <3>6, Zenon
  <2>9. CASE ~(isTextOnly(body) /\ parseAnthropicTextOnlyResponse(body))
    <3>1. text = Untranslated
      BY <2>9, Zenon DEF translateAnthropicTextOnlyToOpenAI
    <3>2. ~text.translated
      BY <3>1, UntranslatedIsNot, Zenon
    <3>3. \/ tool = Untranslated
          \/ tool = Completion(Quoted(StringIn(v, "id")), Quoted(StringIn(v, "model")),
                        Quoted(TextOf(blocks)), quotedCalls(blocks), reason, UsageOf(v))
      BY Zenon DEF translateAnthropicToolUseToOpenAI
    <3>4. tool = Untranslated \/ tool = general
      BY <2>1, <2>4, <2>7, <3>3, Zenon
    <3>5. CASE tool = general
      <4>1. tool.translated
        BY <1>2, <3>5, Zenon
      <4>2. TranslateAnthropicToOpenAI(body) = tool
        BY <3>2, <4>1 DEF TranslateAnthropicToOpenAI
      <4> QED
        BY <3>5, <4>2, Zenon
    <3>6. CASE tool = Untranslated
      <4>1. ~tool.translated
        BY <3>6, UntranslatedIsNot, Zenon
      <4> QED
        BY <3>2, <4>1 DEF TranslateAnthropicToOpenAI
    <3> QED
      BY <3>4, <3>5, <3>6
  <2> QED
    BY <2>8, <2>9
<1>3. status = 200 => answer.body = TranslateAnthropicToOpenAI(body)
  BY DEF TranslateResponse
<1> QED
  BY <1>1, <1>2, <1>3, Zenon DEF ResponsePathsAgree, AllQuotable

=============================================================================
