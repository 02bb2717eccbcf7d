-------------------------- MODULE ModelRouterProofs --------------------------
(***************************************************************************)
(* Proofs about the model router, for every set of configurations,         *)
(* providers, models and concurrent requests: every request is routed by   *)
(* the configuration it read, and the candidates that the resolver found   *)
(* unhealthy come last, whatever changes between its steps.                *)
(***************************************************************************)
EXTENDS ModelRouter, FunctionTheorems, FiniteSetTheorems, TLAPS

-----------------------------------------------------------------------------
(* Enumerating a set of numbers.                                           *)

\* Places in a sequence are numbers, and finitely many.
LEMMA PlacesFinite ==
    ASSUME NEW N \in Nat, NEW S \in SUBSET (1..N)
    PROVE  /\ IsFiniteSet(S) /\ Cardinality(S) \in Nat
           /\ \A x \in S : x \in Nat
<1>1. IsFiniteSet(1..N)
  <2>1. 1 \in Int /\ N \in Int
    OBVIOUS
  <2>2. QED
    BY <2>1, FS_Interval
<1>2. IsFiniteSet(S)
  BY <1>1, FS_Subset, Zenon
<1>3. Cardinality(S) \in Nat
  BY <1>2, FS_CardinalityType
<1>4. \A x \in S : x \in 1..N
  OBVIOUS
<1>5. QED
  BY <1>2, <1>3, <1>4

\* A larger element of a finite set of numbers has more elements below it.
LEMMA RankGrows ==
    ASSUME NEW N \in Nat, NEW S \in SUBSET (1..N),
           NEW x \in S, NEW y \in S, x < y
    PROVE  Cardinality({z \in S : z <= x}) < Cardinality({z \in S : z <= y})
<1> DEFINE X == {z \in S : z <= x}
           Y == {z \in S : z <= y}
<1>1. IsFiniteSet(S) /\ x \in Nat /\ y \in Nat /\ \A z \in S : z \in Nat
  BY PlacesFinite, Zenon
<1>2. X \in SUBSET Y /\ Y \in SUBSET S /\ y \in Y /\ y \notin X
  <2>1. \A z \in S : z <= x => z <= y
    BY <1>1
  <2>2. y <= y /\ ~(y <= x)
    BY <1>1
  <2>3. QED
    BY <2>1, <2>2, Zenon
<1> HIDE DEF X, Y
<1>3. IsFiniteSet(Y) /\ Cardinality(Y) \in Nat
  BY <1>1, <1>2, FS_Subset, FS_CardinalityType, Zenon
<1>4. IsFiniteSet(X) /\ Cardinality(X) \in Nat /\ Cardinality(X) <= Cardinality(Y)
  BY <1>2, <1>3, FS_Subset, FS_CardinalityType, Zenon
<1>5. Cardinality(X) # Cardinality(Y)
  BY <1>2, <1>3, FS_Subset, Zenon
<1>6. Cardinality(X) < Cardinality(Y)
  BY <1>3, <1>4, <1>5
<1>7. QED
  BY <1>6 DEF X, Y

\* The place of an element in ascending order.
LEMMA RankType ==
    ASSUME NEW N \in Nat, NEW S \in SUBSET (1..N), NEW x \in S
    PROVE  Cardinality({z \in S : z <= x}) \in 1..Cardinality(S)
<1> DEFINE X == {z \in S : z <= x}
<1>1. IsFiniteSet(S) /\ Cardinality(S) \in Nat
  BY PlacesFinite
<1>2. X \in SUBSET S /\ x \in X
  BY PlacesFinite
<1> HIDE DEF X
<1>3. /\ IsFiniteSet(X) /\ Cardinality(X) \in Nat
      /\ Cardinality(X) <= Cardinality(S)
  BY <1>1, <1>2, FS_Subset, FS_CardinalityType, Zenon
<1>4. Cardinality(X) # 0
  BY <1>2, <1>3, FS_EmptySet
<1>5. Cardinality(X) \in 1..Cardinality(S)
  BY <1>1, <1>3, <1>4
<1>6. QED
  BY <1>5 DEF X

\* Some sequence lists the elements of a finite set of numbers in order.
LEMMA AscendingExists ==
    ASSUME NEW N \in Nat, NEW S \in SUBSET (1..N)
    PROVE  \E s \in [1..Cardinality(S) -> S] :
              \A i, j \in 1..Cardinality(S) : i < j => s[i] < s[j]
<1> DEFINE n == Cardinality(S)
           rank == [x \in S |-> Cardinality({z \in S : z <= x})]
           g == [i \in 1..n |-> CHOOSE x \in S : rank[x] = i]
<1>1. IsFiniteSet(S) /\ n \in Nat
  BY PlacesFinite
<1>2. rank \in [S -> 1..n]
  BY RankType, Zenon
<1>3. \A x, y \in S : x < y => rank[x] < rank[y]
  BY RankGrows
<1> HIDE DEF rank
<1>4. \A x, y \in S : rank[x] = rank[y] => x = y
  <2> SUFFICES ASSUME NEW x \in S, NEW y \in S, rank[x] = rank[y] PROVE x = y
    OBVIOUS
  <2>1. rank[x] \in Nat /\ x \in Nat /\ y \in Nat
    BY <1>2
  <2>2. ~(x < y) /\ ~(y < x)
    BY <1>3, <2>1
  <2>3. QED
    BY <2>1, <2>2
<1>5. IsFiniteSet(1..n) /\ Cardinality(1..n) = n
  BY <1>1, FS_Interval
<1>6. rank \in Injection(S, 1..n)
  BY <1>2, <1>4, Fun_IsInj, Zenon
<1>7. rank \in Surjection(S, 1..n)
  BY <1>5, <1>6, FS_Injection
<1>8. \A i \in 1..n : \E x \in S : rank[x] = i
  BY <1>7, Fun_SurjectionProperties, Zenon
<1>9. \A i \in 1..n : g[i] \in S /\ rank[g[i]] = i
  BY <1>8
<1>10. g \in [1..n -> S]
  BY <1>9
<1> HIDE DEF g
<1>11. \A i, j \in 1..n : i < j => g[i] < g[j]
  <2> SUFFICES ASSUME NEW i \in 1..n, NEW j \in 1..n, i < j PROVE g[i] < g[j]
    OBVIOUS
  <2>1. g[i] \in S /\ g[j] \in S /\ rank[g[i]] = i /\ rank[g[j]] = j
    BY <1>9
  <2>2. g[i] \in Nat /\ g[j] \in Nat /\ i \in Nat /\ j \in Nat
    BY <1>1, <2>1, PlacesFinite, Zenon
  <2>3. ~(g[j] < g[i]) /\ g[i] # g[j]
    BY <1>3, <2>1, <2>2
  <2>4. QED
    BY <2>2, <2>3
<1>12. QED
  BY <1>10, <1>11, Zenon

\* Ascending lists every element of the set once, in order.
LEMMA AscendingFacts ==
    ASSUME NEW N \in Nat, NEW S \in SUBSET (1..N)
    PROVE  /\ IsFiniteSet(S) /\ Cardinality(S) \in Nat
           /\ Ascending(S) \in [1..Cardinality(S) -> S]
           /\ \A i, j \in 1..Cardinality(S) :
                 i < j => Ascending(S)[i] < Ascending(S)[j]
           /\ \A x \in S : \E i \in 1..Cardinality(S) : Ascending(S)[i] = x
<1> DEFINE n == Cardinality(S)
           s == Ascending(S)
<1>1. IsFiniteSet(S) /\ n \in Nat
  BY PlacesFinite
<1>2. s \in [1..n -> S] /\ \A i, j \in 1..n : i < j => s[i] < s[j]
  BY AscendingExists, Zenon DEF Ascending
<1> HIDE DEF s
<1>3. \A i, j \in 1..n : s[i] = s[j] => i = j
  <2> SUFFICES ASSUME NEW i \in 1..n, NEW j \in 1..n, s[i] = s[j] PROVE i = j
    OBVIOUS
  <2>1. s[i] \in Nat /\ i \in Nat /\ j \in Nat
    BY <1>1, <1>2, PlacesFinite, Zenon
  <2>2. ~(i < j) /\ ~(j < i)
    BY <1>2, <2>1
  <2>3. QED
    BY <2>1, <2>2
<1>4. s \in Injection(1..n, S)
  BY <1>2, <1>3, Fun_IsInj, Zenon
<1>5. Cardinality(1..n) = n
  BY <1>1, FS_Interval
<1>6. s \in Surjection(1..n, S)
  BY <1>1, <1>4, <1>5, FS_Injection
<1>7. \A x \in S : \E i \in 1..n : s[i] = x
  BY <1>6, Zenon DEF Surjection
<1>8. QED
  BY <1>1, <1>2, <1>7 DEF s

-----------------------------------------------------------------------------
(* The table.                                                              *)

InOrder(c) ==
    \A i, j \in 1..Len(c) : i < j => c[i].priority < c[j].priority

\* e is what the table of configuration cfg holds for model m.
EntryOf(e, cfg, m) ==
    /\ e \in Seq(Candidate) /\ InOrder(e)
    /\ Len(e) = Cardinality(Offering(cfg, m))
    /\ \A i \in 1..Len(e) : \E p \in Offering(cfg, m) : e[i] = route(cfg, p)
    /\ \A p \in Offering(cfg, m) : \E i \in 1..Len(e) : e[i] = route(cfg, p)

\* A table has an entry for exactly the models some provider offers.
LEMMA TableFacts ==
    ASSUME NEW cfg \in Configs, NEW m \in Models
    PROVE  /\ buildRouteTable(cfg).cfg = cfg
           /\ m \in DOMAIN buildRouteTable(cfg).byModel
                <=> Offering(cfg, m) # {}
           /\ Offering(cfg, m) # {} =>
                EntryOf(buildRouteTable(cfg).byModel[m], cfg, m)
<1> DEFINE S == Offering(cfg, m)
           n == Cardinality(S)
           s == Ascending(S)
           e == [i \in 1..n |-> route(cfg, s[i])]
<1>1. /\ Len(cfg) \in Nat
      /\ \A i \in 1..Len(cfg) : cfg[i].name \in Providers
  <2> DEFINE P == [name : Providers, models : SUBSET Models]
  <2>1. cfg \in Seq(P)
    BY RouterAssumption, Zenon
  <2>2. \A x \in P : x.name \in Providers
    OBVIOUS
  <2> HIDE DEF P
  <2>3. Len(cfg) \in Nat /\ \A i \in 1..Len(cfg) : cfg[i] \in P
    BY <2>1
  <2>4. QED
    BY <2>2, <2>3
<1>2. S \in SUBSET (1..Len(cfg))
  BY DEF Offering
<1>3. /\ n \in Nat /\ s \in [1..n -> S]
      /\ \A i, j \in 1..n : i < j => s[i] < s[j]
      /\ \A x \in S : \E i \in 1..n : s[i] = x
  BY <1>1, <1>2, AscendingFacts, Zenon
<1>4. /\ buildRouteTable(cfg).cfg = cfg
      /\ m \in DOMAIN buildRouteTable(cfg).byModel <=> S # {}
      /\ S # {} => buildRouteTable(cfg).byModel[m] = e
  BY Zenon DEF buildRouteTable
<1> HIDE DEF S, n, s
<1>5. \A p \in S : route(cfg, p) \in Candidate /\ route(cfg, p).priority = p
  <2>1. \A p \in S : /\ p \in 1..Len(cfg) /\ p \in Nat \ {0}
                    /\ cfg[p].name \in Providers
    BY <1>1, <1>2
  <2>2. QED
    BY <2>1, Zenon DEF route, Candidate
<1>6. e \in Seq(Candidate) /\ Len(e) = n
  BY <1>3, <1>5
<1>7. \A i \in 1..n : e[i] = route(cfg, s[i]) /\ e[i].priority = s[i]
  BY <1>3, <1>5
<1> HIDE DEF e
<1>8. InOrder(e)
  BY <1>3, <1>6, <1>7 DEF InOrder
<1>9. EntryOf(e, cfg, m)
  BY <1>3, <1>6, <1>7, <1>8, ZenonT(30) DEF EntryOf, S, n
<1>10. QED
  BY <1>4, <1>9 DEF S

-----------------------------------------------------------------------------
(* Dividing the candidates.                                                *)

\* g holds, in order, the candidates of e whose verdict in d was v.
Group(e, d, g, v) ==
    /\ \A a \in 1..Len(g) : \E i \in 1..Len(d) : d[i] = v /\ g[a] = e[i]
    /\ \A i \in 1..Len(d) : d[i] = v => \E a \in 1..Len(g) : g[a] = e[i]
    /\ InOrder(g)

\* One more on either side is one more in the sum.
LEMMA OneMore ==
    ASSUME NEW a \in Nat, NEW b \in Nat
    PROVE  a + (b + 1) = (a + b) + 1 /\ (a + 1) + b = (a + b) + 1
OBVIOUS

\* One more verdict extends the group it belongs to.
LEMMA GroupGrows ==
    ASSUME NEW e \in Seq(Candidate), InOrder(e),
           NEW d \in Seq(BOOLEAN), Len(d) < Len(e),
           NEW g \in Seq(Candidate), NEW v \in BOOLEAN, NEW w \in BOOLEAN,
           Group(e, d, g, v)
    PROVE  Group(e, Append(d, w),
                 IF w = v THEN Append(g, e[Len(d) + 1]) ELSE g, v)
<1> DEFINE n == Len(d) + 1
           d2 == Append(d, w)
           k == Len(g) + 1
           g2 == Append(g, e[n])
<1>1. /\ Len(d) \in Nat /\ Len(e) \in Nat /\ Len(g) \in Nat
      /\ n \in 1..Len(e) /\ e[n] \in Candidate
      /\ Len(d2) = n /\ d2[n] = w /\ \A i \in 1..Len(d) : d2[i] = d[i]
      /\ \A i \in 1..n : i = n \/ i \in 1..Len(d)
      /\ \A i \in 1..Len(d) : i \in 1..n /\ i < n /\ i \in 1..Len(e)
      /\ n \in 1..n
  OBVIOUS
<1>2. CASE w # v
  BY <1>1, <1>2 DEF Group
<1>3. CASE w = v
  <2>1. /\ Len(g2) = k /\ g2[k] = e[n] /\ \A a \in 1..Len(g) : g2[a] = g[a]
        /\ \A a \in 1..k : a = k \/ a \in 1..Len(g)
        /\ \A a \in 1..Len(g) : a \in 1..k
        /\ k \in 1..k
    BY <1>1
  <2> HIDE DEF n, d2, k, g2
  <2>2. \A a \in 1..k : \E i \in 1..n : d2[i] = v /\ g2[a] = e[i]
    <3> SUFFICES ASSUME NEW a \in 1..k
                 PROVE  \E i \in 1..n : d2[i] = v /\ g2[a] = e[i]
      OBVIOUS
    <3>1. CASE a = k
      BY <1>1, <1>3, <2>1, <3>1
    <3>2. CASE a \in 1..Len(g)
      <4>1. PICK i \in 1..Len(d) : d[i] = v /\ g[a] = e[i]
        BY <3>2 DEF Group
      <4>2. QED
        BY <1>1, <2>1, <3>2, <4>1
    <3>3. QED
      BY <2>1, <3>1, <3>2
  <2>3. \A i \in 1..n : d2[i] = v => \E a \in 1..k : g2[a] = e[i]
    <3> SUFFICES ASSUME NEW i \in 1..n, d2[i] = v
                 PROVE  \E a \in 1..k : g2[a] = e[i]
      OBVIOUS
    <3>1. CASE i = n
      BY <2>1, <3>1
    <3>2. CASE i \in 1..Len(d)
      <4>1. d[i] = v
        BY <1>1, <3>2
      <4>2. PICK a \in 1..Len(g) : g[a] = e[i]
        BY <3>2, <4>1 DEF Group
      <4>3. QED
        BY <2>1, <4>2
    <3>3. QED
      BY <1>1, <3>1, <3>2
  <2>4. InOrder(g2)
    <3> SUFFICES ASSUME NEW a \in 1..k, NEW b \in 1..k, a < b
                 PROVE  g2[a].priority < g2[b].priority
      BY <2>1 DEF InOrder
    <3>1. a \in 1..Len(g)
      BY <1>1, <2>1 DEF k
    <3>2. CASE b \in 1..Len(g)
      BY <2>1, <3>1, <3>2, Zenon DEF Group, InOrder
    <3>3. CASE b = k
      <4>1. PICK i \in 1..Len(d) : g[a] = e[i]
        BY <3>1 DEF Group
      <4>2. e[i].priority < e[n].priority
        BY <1>1 DEF InOrder
      <4>3. QED
        BY <2>1, <3>1, <3>3, <4>1, <4>2
    <3>4. QED
      BY <2>1, <3>2, <3>3
  <2>5. Group(e, d2, g2, v)
    BY <1>1, <2>1, <2>2, <2>3, <2>4 DEF Group
  <2>6. QED
    BY <1>3, <2>5 DEF d2, g2, n
<1>4. QED
  BY <1>2, <1>3

\* c has the candidates of e, those with a bad verdict in d last, and in the
\* order of e otherwise.
Arranged(e, d, c) ==
    /\ c \in Seq(Candidate) /\ Len(c) = Len(e)
    /\ \A a \in 1..Len(c) : \E i \in 1..Len(e) : c[a] = e[i]
    /\ \A i \in 1..Len(e) : \E a \in 1..Len(c) : c[a] = e[i]
    /\ \A a, b \in 1..Len(c) : a < b =>
          \E i, j \in 1..Len(e) :
             /\ c[a] = e[i] /\ c[b] = e[j]
             /\ \/ ~d[i] /\ d[j]
                \/ d[i] = d[j] /\ c[a].priority < c[b].priority

\* Some candidate with a good verdict follows one with a bad verdict.
Inverted(d) == \E i, j \in 1..Len(d) : i < j /\ d[i] /\ ~d[j]

\* The table's order may be kept when no verdict calls for another.
LEMMA KeptArranged ==
    ASSUME NEW e \in Seq(Candidate), InOrder(e), NEW d \in Seq(BOOLEAN),
           Len(e) < 2 \/ Len(d) = Len(e), ~Inverted(d)
    PROVE  Arranged(e, d, e)
<1>1. ASSUME NEW a \in 1..Len(e), NEW b \in 1..Len(e), a < b
      PROVE  \/ ~d[a] /\ d[b]
             \/ d[a] = d[b] /\ e[a].priority < e[b].priority
  <2>1. Len(d) = Len(e)
    BY <1>1
  <2>2. ~(d[a] /\ ~d[b]) /\ d[a] \in BOOLEAN /\ d[b] \in BOOLEAN
    BY <1>1, <2>1 DEF Inverted
  <2>3. e[a].priority < e[b].priority
    BY <1>1 DEF InOrder
  <2>4. QED
    BY <2>2, <2>3, Zenon
<1>2. QED
  BY <1>1, Zenon DEF Arranged

\* The two groups, one after the other, arrange the candidates, and not in
\* the order of the table if a verdict calls for another.
LEMMA MergedArranged ==
    ASSUME NEW e \in Seq(Candidate), InOrder(e), NEW d \in Seq(BOOLEAN),
           Len(d) = Len(e), NEW h \in Seq(Candidate), NEW u \in Seq(Candidate),
           Len(h) + Len(u) = Len(d),
           Group(e, d, h, FALSE), Group(e, d, u, TRUE)
    PROVE  Arranged(e, d, h \o u) /\ (Inverted(d) => ~InOrder(h \o u))
<1> DEFINE c == h \o u
           k == Len(h)
           m == Len(u)
<1>1. /\ k \in Nat /\ m \in Nat /\ c \in Seq(Candidate) /\ Len(c) = k + m
      /\ \A a \in 1..k : c[a] = h[a]
      /\ \A a \in 1..m : c[k + a] = u[a]
  OBVIOUS
<1>2. \A a \in 1..Len(c) : a \in 1..k \/ \E x \in 1..m : a = k + x
  <2> SUFFICES ASSUME NEW a \in 1..Len(c), a \notin 1..k
               PROVE  \E x \in 1..m : a = k + x
    OBVIOUS
  <2>1. a - k \in 1..m /\ a = k + (a - k)
    BY <1>1
  <2>2. QED
    BY <2>1, Zenon
<1>3. /\ \A a \in 1..k : a \in 1..Len(c)
      /\ \A x \in 1..m : k + x \in 1..Len(c)
      /\ \A a \in 1..k, x \in 1..m : a < k + x /\ ~(k + x < a)
      /\ \A x, y \in 1..m : k + x < k + y <=> x < y
  BY <1>1
<1> HIDE DEF c, k, m
<1>4. /\ \A a \in 1..k : \E i \in 1..Len(e) : ~d[i] /\ c[a] = e[i]
      /\ \A x \in 1..m : \E i \in 1..Len(e) : d[i] /\ c[k + x] = e[i]
      /\ \A i \in 1..Len(e) :
            /\ ~d[i] => \E a \in 1..k : c[a] = e[i]
            /\ d[i] => \E x \in 1..m : c[k + x] = e[i]
  <2>1. \A i \in 1..Len(e) : d[i] \in BOOLEAN
    OBVIOUS
  <2>2. ASSUME NEW a \in 1..k
        PROVE  \E i \in 1..Len(e) : ~d[i] /\ c[a] = e[i]
    <3>1. PICK i \in 1..Len(d) : d[i] = FALSE /\ h[a] = e[i]
      BY DEF Group, k
    <3>2. QED
      BY <1>1, <3>1, Zenon
  <2>3. ASSUME NEW x \in 1..m
        PROVE  \E i \in 1..Len(e) : d[i] /\ c[k + x] = e[i]
    <3>1. PICK i \in 1..Len(d) : d[i] = TRUE /\ u[x] = e[i]
      BY DEF Group, m
    <3>2. QED
      BY <1>1, <3>1, Zenon
  <2>4. ASSUME NEW i \in 1..Len(e), ~d[i]
        PROVE  \E a \in 1..k : c[a] = e[i]
    <3>1. d[i] = FALSE
      BY <2>1, <2>4
    <3>2. PICK a \in 1..k : h[a] = e[i]
      BY <3>1 DEF Group, k
    <3>3. QED
      BY <1>1, <3>2
  <2>5. ASSUME NEW i \in 1..Len(e), d[i]
        PROVE  \E x \in 1..m : c[k + x] = e[i]
    <3>1. d[i] = TRUE
      BY <2>1, <2>5
    <3>2. PICK x \in 1..m : u[x] = e[i]
      BY <3>1 DEF Group, m
    <3>3. QED
      BY <1>1, <3>2, Zenon
  <2>6. QED
    BY <2>2, <2>3, <2>4, <2>5, Zenon
<1>5. ASSUME NEW a \in 1..Len(c)
      PROVE  \E i \in 1..Len(e) : c[a] = e[i]
  <2>1. CASE a \in 1..k
    BY <1>4, <2>1, Zenon
  <2>2. CASE \E x \in 1..m : a = k + x
    <3>1. PICK x \in 1..m : a = k + x
      BY <2>2
    <3>2. PICK i \in 1..Len(e) : c[k + x] = e[i]
      BY <1>4
    <3>3. QED
      BY <3>1, <3>2
  <2>3. QED
    BY <1>2, <2>1, <2>2
<1>6. \A i \in 1..Len(e) : \E a \in 1..Len(c) : c[a] = e[i]
  BY <1>3, <1>4, Zenon
<1>7. ASSUME NEW a \in 1..Len(c), NEW b \in 1..Len(c), a < b
      PROVE  \E i, j \in 1..Len(e) :
                /\ c[a] = e[i] /\ c[b] = e[j]
                /\ \/ ~d[i] /\ d[j]
                   \/ d[i] = d[j] /\ c[a].priority < c[b].priority
  <2>0. \A i \in 1..Len(e) : d[i] \in BOOLEAN
    OBVIOUS
  <2>1. CASE a \in 1..k /\ b \in 1..k
    <3>1. c[a].priority < c[b].priority
      BY <1>1, <1>7, <2>1, Zenon DEF Group, InOrder, k
    <3>2. PICK i \in 1..Len(e) : ~d[i] /\ c[a] = e[i]
      BY <1>4, <2>1, Zenon
    <3>3. PICK j \in 1..Len(e) : ~d[j] /\ c[b] = e[j]
      BY <1>4, <2>1, ZenonT(30)
    <3>4. QED
      BY <2>0, <3>1, <3>2, <3>3, Zenon
  <2>2. CASE a \in 1..k /\ \E x \in 1..m : b = k + x
    BY <1>4, <2>2, Zenon
  <2>3. CASE (\E x \in 1..m : a = k + x) /\ b \in 1..k
    BY <1>3, <1>7, <2>3
  <2>4. CASE (\E x \in 1..m : a = k + x) /\ \E y \in 1..m : b = k + y
    <3>1. PICK x \in 1..m : a = k + x
      BY <2>4
    <3>2. PICK y \in 1..m : b = k + y
      BY <2>4
    <3>3. x < y
      BY <1>3, <1>7, <3>1, <3>2
    <3>4. u[x].priority < u[y].priority
      BY <3>3, Zenon DEF Group, InOrder, m
    <3>5. c[a].priority < c[b].priority
      <4>1. c[a] = u[x] /\ c[b] = u[y]
        BY <1>1, <3>1, <3>2
      <4>2. QED
        BY <3>4, <4>1, Zenon
    <3>6. PICK i \in 1..Len(e) : d[i] /\ c[a] = e[i]
      BY <1>4, <3>1, Zenon
    <3>7. PICK j \in 1..Len(e) : d[j] /\ c[b] = e[j]
      BY <1>4, <3>2, Zenon
    <3>8. QED
      BY <2>0, <3>5, <3>6, <3>7, Zenon
  <2>5. QED
    BY <1>2, <2>1, <2>2, <2>3, <2>4
<1>8. ASSUME Inverted(d) PROVE ~InOrder(c)
  <2>1. PICK i \in 1..Len(e), j \in 1..Len(e) : i < j /\ d[i] /\ ~d[j]
    BY <1>8 DEF Inverted
  <2>2. PICK a \in 1..k : c[a] = e[j]
    BY <1>4, <2>1
  <2>3. PICK x \in 1..m : c[k + x] = e[i]
    BY <1>4, <2>1, Zenon
  <2>4. e[i].priority < e[j].priority /\ e[i] \in Candidate /\ e[j] \in Candidate
    BY <2>1 DEF InOrder
  <2>5. e[i].priority \in Nat /\ e[j].priority \in Nat
    BY <2>4 DEF Candidate
  <2>6. ~(c[a].priority < c[k + x].priority)
    BY <2>2, <2>3, <2>4, <2>5
  <2>7. QED
    BY <1>3, <2>6, Zenon DEF InOrder
<1>9. QED
  BY <1>1, <1>5, <1>6, <1>7, <1>8, Zenon DEF Arranged, c, k, m

-----------------------------------------------------------------------------
(* One request.                                                            *)

\* The flags of applyHealthAwareRouting say what the verdicts were.
Flags(r) ==
    /\ r.sawUnhealthy <=> \E i \in 1..Len(r.down) : r.down[i]
    /\ r.reordered <=> \E i, j \in 1..Len(r.down) :
                          i < j /\ r.down[i] /\ ~r.down[j]

Resolving(r) ==
    /\ Offering(r.cfg, r.body) # {} /\ EntryOf(r.entry, r.cfg, r.body)
    /\ Len(r.down) <= Len(r.entry)
    /\ Len(r.healthyCandidates) + Len(r.unhealthyCandidates) = Len(r.down)
    /\ Group(r.entry, r.down, r.healthyCandidates, FALSE)
    /\ Group(r.entry, r.down, r.unhealthyCandidates, TRUE)
    /\ Flags(r)

\* Nothing asked yet.
Unasked(r) ==
    /\ r.down = <<>> /\ r.healthyCandidates = <<>>
    /\ r.unhealthyCandidates = <<>> /\ ~r.sawUnhealthy /\ ~r.reordered

RequestInv(r) ==
    /\ r \in Request
    /\ RoutedByOwnConfigOf(r) /\ UnhealthyLastOf(r)
    /\ r.pc \in {"load", "lock", "resolve"} =>
          r.cfg \in Configs /\ r.body \in Models /\ r.status = 0
    /\ r.pc \in {"load", "lock"} => Unasked(r)
    /\ r.pc = "resolve" => Resolving(r)

\* The two ways to say which providers offer the model.
LEMMA OfferingIs ==
    ASSUME NEW r
    PROVE  {i \in 1..Len(r.cfg) : r.body \in r.cfg[i].models}
              = Offering(r.cfg, r.body)
BY DEF Offering, Serves

\* Until it is routed or refused, a request promises nothing.
LEMMA NotYet ==
    ASSUME NEW r, r.status \notin {200, 404}
    PROVE  RoutedByOwnConfigOf(r) /\ UnhealthyLastOf(r)
BY DEF RoutedByOwnConfigOf, UnhealthyLastOf, Routed

\* Where a request can stand, and how it can end.
LEMMA Constants ==
    /\ "load" \in Steps /\ "lock" \in Steps /\ "resolve" \in Steps
    /\ "done" \in Steps /\ 200 \in Statuses /\ 400 \in Statuses
    /\ 404 \in Statuses /\ 500 \in Statuses
    /\ "configured_order" \in Policies
    /\ "healthy_then_configured_order" \in Policies
BY DEF Steps, Statuses, Policies

\* The updates of a request's fields: it waits for the table lock,
LEMMA WaitingUpdate ==
    ASSUME NEW r \in Request, NEW pc \in Steps
    PROVE  [r EXCEPT !.pc = pc] \in Request
BY Zenon DEF Request

\* it is refused,
LEMMA RefusedUpdate ==
    ASSUME NEW r \in Request, NEW pc \in Steps, NEW status \in Statuses
    PROVE  [r EXCEPT !.pc = pc, !.status = status] \in Request
BY Zenon DEF Request

\* it is refused for its body,
LEMMA BodyRefusedUpdate ==
    ASSUME NEW r \in Request, NEW pc \in Steps, NEW body \in Bodies,
           NEW status \in Statuses
    PROVE  [r EXCEPT !.pc = pc, !.body = body, !.status = status] \in Request
BY Zenon DEF Request

\* it starts the lookup,
LEMMA StartedUpdate ==
    ASSUME NEW r \in Request, NEW pc \in Steps, NEW body \in Bodies,
           NEW cfg \in Configs
    PROVE  [r EXCEPT !.pc = pc, !.body = body, !.cfg = cfg] \in Request
<1>1. cfg \in Configs \cup {<<>>}
  OBVIOUS
<1>2. QED
  BY <1>1, Zenon DEF Request

\* it finds the entry of its model,
LEMMA FoundUpdate ==
    ASSUME NEW r \in Request, NEW pc \in Steps, NEW entry \in Seq(Candidate)
    PROVE  [r EXCEPT !.pc = pc, !.entry = entry] \in Request
BY Zenon DEF Request

\* it is routed.
LEMMA RoutedUpdate ==
    ASSUME NEW r \in Request, NEW pc \in Steps, NEW status \in Statuses,
           NEW candidates \in Seq(Candidate), NEW policy \in Policies
    PROVE  [r EXCEPT !.pc = pc, !.status = status, !.candidates = candidates,
                     !.policy = policy] \in Request
BY Zenon DEF Request

\* The empty request.
LEMMA NoRequestInv == NoRequest \in Request /\ RequestInv(NoRequest)
<1>1. <<>> \in Seq(Candidate) /\ <<>> \in Seq(BOOLEAN)
  OBVIOUS
<1>2. NoRequest \in Request
  BY <1>1 DEF NoRequest, Request, Bodies, Steps, Policies, Statuses
<1>3. NoRequest.status = 0 /\ NoRequest.pc = "idle"
  BY DEF NoRequest
<1>4. QED
  BY <1>2, <1>3, NotYet DEF RequestInv

\* The checks before the lookup.
LEMMA EnterFacts ==
    ASSUME NEW body \in Bodies, NEW cfg \in Configs,
           NEW r, r = Entered(body, cfg)
    PROVE  RequestInv(r)
<1>1. /\ NoRequest \in Request /\ NoRequest.status = 0
      /\ Unasked(NoRequest)
  BY NoRequestInv DEF NoRequest, Unasked
<1>2. CASE body = "missing"
  <2>1. r = [NoRequest EXCEPT !.pc = "done", !.status = 500]
    BY <1>2 DEF Entered
  <2>2. r \in Request
    <3>1. "done" \in Steps /\ 500 \in Statuses
      BY Constants
    <3>2. NoRequest \in Request
      BY <1>1
    <3>3. ASSUME NEW v \in Statuses
          PROVE  [NoRequest EXCEPT !.pc = "done", !.status = v] \in Request
      BY <3>1, <3>2, RefusedUpdate, Zenon
    <3>4. [NoRequest EXCEPT !.pc = "done", !.status = 500] \in Request
      BY <3>1, <3>3, Zenon
    <3>5. QED
      BY <2>1, <3>4, Zenon
  <2>3. r.pc = "done" /\ r.status = 500
    BY <1>1, <2>1 DEF Request
  <2>4. QED
    BY <2>2, <2>3, NotYet DEF RequestInv
<1>3. CASE body # "missing" /\ body \in {"invalid", "no_model"}
  <2>1. r = [NoRequest EXCEPT !.pc = "done", !.body = body, !.status = 400]
    BY <1>3 DEF Entered
  <2>2. r \in Request
    <3>1. "done" \in Steps /\ 400 \in Statuses
      BY Constants
    <3>2. NoRequest \in Request
      BY <1>1
    <3>3. ASSUME NEW v \in Statuses
          PROVE  [NoRequest EXCEPT !.pc = "done", !.body = body, !.status = v]
                    \in Request
      BY <3>1, <3>2, BodyRefusedUpdate, Zenon
    <3>4. [NoRequest EXCEPT !.pc = "done", !.body = body, !.status = 400]
             \in Request
      BY <3>1, <3>3, Zenon
    <3>5. QED
      BY <2>1, <3>4, Zenon
  <2>3. r.pc = "done" /\ r.status = 400
    BY <1>1, <2>1 DEF Request
  <2>4. QED
    BY <2>2, <2>3, NotYet DEF RequestInv
<1>4. CASE body # "missing" /\ body \notin {"invalid", "no_model"}
  <2>1. r = [NoRequest EXCEPT !.pc = "load", !.body = body, !.cfg = cfg]
    BY <1>4 DEF Entered
  <2>2. r \in Request
    <3>1. "load" \in Steps
      BY Constants
    <3>2. NoRequest \in Request
      BY <1>1
    <3>3. [NoRequest EXCEPT !.pc = "load", !.body = body, !.cfg = cfg] \in Request
      BY <3>1, <3>2, StartedUpdate, Zenon
    <3>4. QED
      BY <2>1, <3>3, Zenon
  <2>3. /\ r.pc = "load" /\ r.status = 0 /\ r.cfg = cfg
        /\ r.body = body /\ Unasked(r)
    BY <1>1, <2>1 DEF Request, Unasked
  <2>4. body \in Models
    BY <1>4 DEF Bodies
  <2>5. QED
    BY <2>2, <2>3, <2>4, NotYet DEF RequestInv
<1>5. QED
  BY <1>2, <1>3, <1>4

\* Looking the model up in the table of the request's own configuration.
LEMMA LookupFacts ==
    ASSUME NEW r, RequestInv(r), r.pc \in {"load", "lock"},
           NEW table, table = buildRouteTable(r.cfg),
           NEW q, q = Lookup(r, table)
    PROVE  RequestInv(q)
<1>1. /\ r \in Request /\ r.cfg \in Configs /\ r.body \in Models
      /\ r.status = 0 /\ Unasked(r)
  BY DEF RequestInv
<1>2. /\ r.body \in DOMAIN table.byModel <=> Offering(r.cfg, r.body) # {}
      /\ Offering(r.cfg, r.body) # {} =>
            EntryOf(table.byModel[r.body], r.cfg, r.body)
  BY <1>1, TableFacts
<1>3. CASE r.body \notin DOMAIN table.byModel
  <2>1. q = [r EXCEPT !.pc = "done", !.status = 404]
    BY <1>3 DEF Lookup
  <2>2. /\ q \in Request /\ q.pc = "done" /\ q.status = 404 /\ q.cfg = r.cfg
        /\ q.body = r.body
    <3>1. q \in Request
      <4>1. "done" \in Steps /\ 404 \in Statuses
        BY Constants
      <4>2. r \in Request
        BY <1>1
      <4>3. ASSUME NEW v \in Statuses
            PROVE  [r EXCEPT !.pc = "done", !.status = v] \in Request
        BY <4>1, <4>2, RefusedUpdate, Zenon
      <4>4. [r EXCEPT !.pc = "done", !.status = 404] \in Request
        BY <4>1, <4>3, ZenonT(30)
      <4>5. QED
        BY <2>1, <4>4, Zenon
    <3>2. QED
      BY <1>1, <2>1, <3>1 DEF Request
  <2>3. Offering(q.cfg, q.body) = {}
    BY <1>2, <1>3, <2>2
  <2>4. RoutedByOwnConfigOf(q) /\ UnhealthyLastOf(q)
    BY <2>2, <2>3, OfferingIs DEF RoutedByOwnConfigOf, UnhealthyLastOf, Routed
  <2>5. QED
    BY <2>2, <2>4 DEF RequestInv
<1>4. CASE r.body \in DOMAIN table.byModel
  <2> DEFINE e == table.byModel[r.body]
  <2>1. q = [r EXCEPT !.pc = "resolve", !.entry = e]
    BY <1>4 DEF Lookup
  <2>2. EntryOf(e, r.cfg, r.body) /\ Offering(r.cfg, r.body) # {}
    BY <1>2, <1>4
  <2>3. e \in Seq(Candidate)
    BY <2>2 DEF EntryOf
  <2> HIDE DEF e
  <2>4. /\ q \in Request /\ q.pc = "resolve" /\ q.entry = e
        /\ q.cfg = r.cfg /\ q.body = r.body /\ q.status = r.status
    <3>1. q \in Request
      <4>1. "resolve" \in Steps
        BY Constants
      <4>2. r \in Request
        BY <1>1
      <4>3. [r EXCEPT !.pc = "resolve", !.entry = e] \in Request
        BY <4>1, <4>2, <2>3, FoundUpdate, Zenon
      <4>4. QED
        BY <2>1, <4>3, Zenon
    <3>2. QED
      BY <1>1, <2>1, <3>1 DEF Request
  <2>5. Unasked(q)
    BY <1>1, <2>1 DEF Request, Unasked
  <2>6. Len(q.down) = 0 /\ Len(q.entry) \in Nat
    BY <2>3, <2>4, <2>5 DEF Unasked
  <2>7. Flags(q)
    BY <2>5, <2>6 DEF Flags, Unasked
  <2>8. /\ Group(q.entry, q.down, q.healthyCandidates, FALSE)
        /\ Group(q.entry, q.down, q.unhealthyCandidates, TRUE)
    BY <2>5 DEF Group, InOrder, Unasked
  <2>9. Len(q.healthyCandidates) + Len(q.unhealthyCandidates) = Len(q.down)
    BY <2>5 DEF Unasked
  <2>10. Resolving(q)
    <3>1. Len(q.down) <= Len(q.entry)
      BY <2>6
    <3>2. EntryOf(q.entry, q.cfg, q.body) /\ Offering(q.cfg, q.body) # {}
      BY <2>2, <2>4
    <3>3. QED
      BY <2>7, <2>8, <2>9, <3>1, <3>2, Zenon DEF Resolving
  <2>11. QED
    BY <1>1, <2>4, <2>10, NotYet DEF RequestInv
<1>5. QED
  BY <1>3, <1>4

\* One verdict.
LEMMA ResolvedFacts ==
    ASSUME NEW r, RequestInv(r), r.pc = "resolve", ~AllAsked(r),
           NEW isDown \in BOOLEAN, NEW q, q = Resolved(r, isDown)
    PROVE  RequestInv(q)
<1> DEFINE n == Len(r.down) + 1
           x == r.entry[n]
           d == Append(r.down, isDown)
           h == IF isDown THEN r.healthyCandidates
                          ELSE Append(r.healthyCandidates, x)
           u == IF isDown THEN Append(r.unhealthyCandidates, x)
                          ELSE r.unhealthyCandidates
           saw == r.sawUnhealthy \/ isDown
           moved == r.reordered \/ (~isDown /\ r.sawUnhealthy)
<1>1. /\ r \in Request /\ r.cfg \in Configs /\ r.body \in Models
      /\ r.status = 0 /\ Resolving(r)
  BY DEF RequestInv
<1>2. /\ r.entry \in Seq(Candidate) /\ r.down \in Seq(BOOLEAN)
      /\ r.healthyCandidates \in Seq(Candidate)
      /\ r.unhealthyCandidates \in Seq(Candidate)
      /\ r.sawUnhealthy \in BOOLEAN /\ r.reordered \in BOOLEAN
  BY <1>1 DEF Request
<1>3. /\ Len(r.down) \in Nat /\ Len(r.entry) \in Nat
      /\ Len(r.down) < Len(r.entry) /\ n \in 1..Len(r.entry)
  BY <1>1, <1>2 DEF AllAsked, Resolving
<1>4. x \in Candidate
  BY <1>2, <1>3
<1>5. /\ d \in Seq(BOOLEAN) /\ Len(d) = n
      /\ d[n] = isDown /\ \A i \in 1..Len(r.down) : d[i] = r.down[i]
  BY <1>2, <1>3
<1>6. /\ h \in Seq(Candidate) /\ u \in Seq(Candidate) /\ Len(h) + Len(u) = n
      /\ Group(r.entry, d, h, FALSE) /\ Group(r.entry, d, u, TRUE)
  <2>1. /\ Group(r.entry, r.down, r.healthyCandidates, FALSE)
        /\ Group(r.entry, r.down, r.unhealthyCandidates, TRUE)
        /\ InOrder(r.entry)
        /\ Len(r.healthyCandidates) + Len(r.unhealthyCandidates) = Len(r.down)
    BY <1>1, Zenon DEF Resolving, EntryOf
  <2> DEFINE grown(g, v) == IF isDown = v THEN Append(g, x) ELSE g
  <2>2. /\ Group(r.entry, d, grown(r.healthyCandidates, FALSE), FALSE)
        /\ Group(r.entry, d, grown(r.unhealthyCandidates, TRUE), TRUE)
    BY <1>2, <1>3, <2>1, GroupGrows, Zenon
  <2>3. ASSUME NEW g \in Seq(Candidate)
        PROVE  /\ Append(g, x) \in Seq(Candidate) /\ Len(g) \in Nat
               /\ Len(Append(g, x)) = Len(g) + 1
    BY <1>4
  <2>4. /\ isDown = TRUE => /\ h = r.healthyCandidates
                            /\ u = Append(r.unhealthyCandidates, x)
        /\ isDown = FALSE => /\ h = Append(r.healthyCandidates, x)
                             /\ u = r.unhealthyCandidates
    OBVIOUS
  <2> HIDE DEF x, d, n, h, u
  <2>5. ASSUME NEW a \in Seq(Candidate), NEW b \in Seq(Candidate),
               Len(a) + Len(b) = Len(r.down)
        PROVE  /\ Len(a) + Len(Append(b, x)) = Len(r.down) + 1
               /\ Len(Append(a, x)) + Len(b) = Len(r.down) + 1
    <3>1. /\ Len(a) \in Nat /\ Len(b) \in Nat
          /\ Len(Append(a, x)) = Len(a) + 1 /\ Len(Append(b, x)) = Len(b) + 1
      BY <2>3
    <3>2. /\ Len(a) + (Len(b) + 1) = (Len(a) + Len(b)) + 1
          /\ (Len(a) + 1) + Len(b) = (Len(a) + Len(b)) + 1
      BY <3>1, OneMore, Zenon
    <3>3. QED
      BY <2>5, <3>1, <3>2, Zenon
  <2>6. CASE isDown = TRUE
    <3>1. Group(r.entry, d, h, FALSE) /\ Group(r.entry, d, u, TRUE)
      BY <2>2, <2>4, <2>6, Zenon
    <3>2. Len(h) + Len(u) = n
      BY <1>2, <2>1, <2>4, <2>5, <2>6, ZenonT(30) DEF n
    <3>3. QED
      BY <1>2, <2>3, <2>4, <2>6, <3>1, <3>2, Zenon
  <2>7. CASE isDown = FALSE
    <3>1. Group(r.entry, d, h, FALSE) /\ Group(r.entry, d, u, TRUE)
      BY <2>2, <2>4, <2>7, Zenon
    <3>2. Len(h) + Len(u) = n
      BY <1>2, <2>1, <2>4, <2>5, <2>7, Zenon DEF n
    <3>3. QED
      BY <1>2, <2>3, <2>4, <2>7, <3>1, <3>2, Zenon
  <2>8. QED
    BY <2>6, <2>7, Zenon
<1>7. q = [r EXCEPT !.down = d, !.sawUnhealthy = saw, !.reordered = moved,
                    !.healthyCandidates = h, !.unhealthyCandidates = u]
  BY Zenon DEF Resolved
<1>8. saw \in BOOLEAN /\ moved \in BOOLEAN
  BY <1>2, Zenon
<1>9. /\ saw <=> \E i \in 1..n : d[i]
      /\ moved <=> \E i, j \in 1..n : i < j /\ d[i] /\ ~d[j]
  <2>1. /\ r.sawUnhealthy <=> \E i \in 1..Len(r.down) : r.down[i]
        /\ r.reordered <=> \E i, j \in 1..Len(r.down) :
                              i < j /\ r.down[i] /\ ~r.down[j]
    BY <1>1 DEF Resolving, Flags
  <2>2. /\ \A i \in 1..n : i = n \/ i \in 1..Len(r.down)
        /\ \A i \in 1..Len(r.down) : i \in 1..n /\ i < n /\ ~(n < i)
        /\ n \in 1..n /\ ~(n < n)
    BY <1>3
  <2> HIDE DEF n, d
  <2>3. saw <=> \E i \in 1..n : d[i]
    BY <1>5, <2>1, <2>2, Zenon
  <2>4. ASSUME moved PROVE \E i, j \in 1..n : i < j /\ d[i] /\ ~d[j]
    <3>1. CASE r.reordered
      BY <1>5, <2>1, <2>2, <3>1, Zenon
    <3>2. CASE ~isDown /\ r.sawUnhealthy
      BY <1>5, <2>1, <2>2, <3>2, Zenon
    <3>3. QED
      BY <2>4, <3>1, <3>2
  <2>5. ASSUME NEW i \in 1..n, NEW j \in 1..n, i < j, d[i], ~d[j] PROVE moved
    <3>1. i \in 1..Len(r.down) /\ r.down[i]
      BY <1>3, <1>5, <2>2, <2>5 DEF n
    <3>2. CASE j = n
      BY <1>5, <2>1, <2>5, <3>1, <3>2, Zenon
    <3>3. CASE j \in 1..Len(r.down)
      BY <1>5, <2>1, <2>5, <3>1, <3>3, Zenon
    <3>4. QED
      BY <2>2, <3>2, <3>3
  <2>6. QED
    BY <2>3, <2>4, <2>5, Zenon
<1> HIDE DEF d, h, u, saw, moved, x
<1>10. /\ q \in Request
       /\ q.down = d /\ q.sawUnhealthy = saw
       /\ q.reordered = moved /\ q.healthyCandidates = h
       /\ q.unhealthyCandidates = u /\ q.entry = r.entry /\ q.cfg = r.cfg
       /\ q.body = r.body /\ q.pc = r.pc /\ q.status = r.status
  <2>1. q \in Request
    BY <1>1, <1>5, <1>6, <1>7, <1>8, ZenonT(30) DEF Request
  <2>2. /\ q.down = d /\ q.sawUnhealthy = saw
        /\ q.reordered = moved /\ q.healthyCandidates = h
        /\ q.unhealthyCandidates = u /\ q.entry = r.entry /\ q.cfg = r.cfg
        /\ q.body = r.body /\ q.pc = r.pc /\ q.status = r.status
    BY <1>1, <1>7 DEF Request
  <2>3. QED
    BY <2>1, <2>2
<1>11. Flags(q)
  BY <1>5, <1>9, <1>10 DEF Flags
<1>12. Resolving(q)
  <2>1. /\ Offering(r.cfg, r.body) # {} /\ EntryOf(r.entry, r.cfg, r.body)
    BY <1>1 DEF Resolving
  <2>2. Len(d) <= Len(r.entry) /\ Len(h) + Len(u) = Len(d)
    BY <1>3, <1>5, <1>6
  <2>3. QED
    BY <1>6, <1>10, <1>11, <2>1, <2>2, Zenon DEF Resolving
<1>13. QED
  BY <1>1, <1>10, <1>12, NotYet DEF RequestInv

\* The candidates a request is given.
LEMMA CandidatesFacts ==
    ASSUME NEW r, RequestInv(r), r.pc = "resolve", AllAsked(r),
           NEW c, c = IF r.reordered THEN healthyFirst(r) ELSE r.entry
    PROVE  /\ Arranged(r.entry, r.down, c)
           /\ r.reordered <=> ~InOrder(c)
           /\ \A a, b \in 1..Len(c) : a < b => Len(r.down) = Len(r.entry)
<1>1. /\ r \in Request /\ Resolving(r)
  BY DEF RequestInv
<1>2. /\ r.entry \in Seq(Candidate) /\ r.down \in Seq(BOOLEAN)
      /\ r.healthyCandidates \in Seq(Candidate)
      /\ r.unhealthyCandidates \in Seq(Candidate)
      /\ r.reordered \in BOOLEAN
  BY <1>1 DEF Request
<1>3. /\ InOrder(r.entry) /\ Len(r.down) <= Len(r.entry)
      /\ Len(r.healthyCandidates) + Len(r.unhealthyCandidates) = Len(r.down)
      /\ Group(r.entry, r.down, r.healthyCandidates, FALSE)
      /\ Group(r.entry, r.down, r.unhealthyCandidates, TRUE)
      /\ r.reordered <=> Inverted(r.down)
  BY <1>1, Zenon DEF Resolving, EntryOf, Flags, Inverted
<1>4. Len(r.entry) < 2 \/ Len(r.down) = Len(r.entry)
  BY DEF AllAsked
<1>5. ASSUME Inverted(r.down) PROVE Len(r.down) = Len(r.entry)
  BY <1>2, <1>3, <1>4, <1>5 DEF Inverted
<1>6. Arranged(r.entry, r.down, c) /\ (r.reordered <=> ~InOrder(c))
  <2>1. CASE r.reordered
    <3>1. c = r.healthyCandidates \o r.unhealthyCandidates
      BY <2>1, Zenon DEF healthyFirst
    <3>2. QED
      BY <1>2, <1>3, <1>5, <2>1, <3>1, MergedArranged, Zenon
  <2>2. CASE ~r.reordered
    BY <1>2, <1>3, <1>4, <2>2, KeptArranged
  <2>3. QED
    BY <2>1, <2>2
<1>7. Len(c) = Len(r.entry) /\ Len(c) \in Nat
  BY <1>2, <1>6 DEF Arranged
<1>8. \A a, b \in 1..Len(c) : a < b => Len(r.down) = Len(r.entry)
  BY <1>4, <1>7
<1>9. QED
  BY <1>6, <1>8

\* The verdict on a candidate of the table's entry.
LEMMA FoundDownIs ==
    ASSUME NEW q, q.entry \in Seq(Candidate), InOrder(q.entry),
           NEW i \in 1..Len(q.entry), q.down[i] \in BOOLEAN
    PROVE  FoundDown(q, q.entry[i]) = q.down[i]
<1> DEFINE e == q.entry
<1>1. \A j \in 1..Len(e) : e[j].priority \in Nat
  <2>1. \A x \in Candidate : x.priority \in Nat
    BY DEF Candidate
  <2>2. QED
    BY <2>1
<1>2. ASSUME NEW j \in 1..Len(e), e[j] = e[i] PROVE j = i
  <2>1. ~(i < j) /\ ~(j < i)
    BY <1>1, <1>2 DEF InOrder
  <2>2. QED
    BY <2>1
<1>3. (\E j \in 1..Len(e) : e[j] = e[i] /\ q.down[j]) <=> q.down[i]
  BY <1>2
<1>4. QED
  BY <1>3, Zenon DEF FoundDown

\* What the arrangement of the candidates says of a routed request.
LEMMA ArrangedFacts ==
    ASSUME NEW q, q.entry \in Seq(Candidate), q.down \in Seq(BOOLEAN),
           q.cfg \in Configs, Routed(q), Offering(q.cfg, q.body) # {},
           EntryOf(q.entry, q.cfg, q.body),
           Arranged(q.entry, q.down, q.candidates),
           q.policy = "configured_order" <=> InOrder(q.candidates),
           \A a, b \in 1..Len(q.candidates) :
              a < b => Len(q.down) = Len(q.entry)
    PROVE  RoutedByOwnConfigOf(q) /\ UnhealthyLastOf(q)
<1> DEFINE c == q.candidates
           e == q.entry
           S == Offering(q.cfg, q.body)
<1>1. UnhealthyLastOf(q)
  <2>1. ASSUME NEW a \in 1..Len(c), NEW b \in 1..Len(c), a < b
        PROVE  \/ ~FoundDown(q, c[a]) /\ FoundDown(q, c[b])
               \/ /\ FoundDown(q, c[a]) = FoundDown(q, c[b])
                  /\ c[a].priority < c[b].priority
    <3>1. PICK i \in 1..Len(e), j \in 1..Len(e) :
             /\ c[a] = e[i] /\ c[b] = e[j]
             /\ \/ ~q.down[i] /\ q.down[j]
                \/ q.down[i] = q.down[j] /\ c[a].priority < c[b].priority
      BY <2>1, Zenon DEF Arranged
    <3>2. q.down[i] \in BOOLEAN /\ q.down[j] \in BOOLEAN
      BY <2>1
    <3>3. InOrder(e)
      BY DEF EntryOf
    <3>4. FoundDown(q, e[i]) = q.down[i] /\ FoundDown(q, e[j]) = q.down[j]
      BY <3>2, <3>3, FoundDownIs
    <3>5. QED
      BY <3>1, <3>4, Zenon
  <2>2. q.policy = "configured_order" <=>
           \A i, j \in 1..Len(c) : i < j => c[i].priority < c[j].priority
    BY DEF InOrder
  <2>3. QED
    BY <2>1, <2>2, Zenon DEF UnhealthyLastOf
<1>2. Len(c) = Cardinality(S)
  BY DEF Arranged, EntryOf
<1>3. Range(c) = {route(q.cfg, p) : p \in S}
  <2>1. c \in Seq(Candidate)
    BY DEF Arranged
  <2>2. \A x : x \in Range(c) <=> \E a \in 1..Len(c) : x = c[a]
    BY <2>1 DEF Range
  <2>3. ASSUME NEW a \in 1..Len(c) PROVE \E p \in S : c[a] = route(q.cfg, p)
    <3>1. PICK i \in 1..Len(e) : c[a] = e[i]
      BY DEF Arranged
    <3>2. QED
      BY <3>1 DEF EntryOf
  <2>4. ASSUME NEW p \in S PROVE \E a \in 1..Len(c) : c[a] = route(q.cfg, p)
    <3>1. PICK i \in 1..Len(e) : e[i] = route(q.cfg, p)
      BY DEF EntryOf
    <3>2. PICK a \in 1..Len(c) : c[a] = e[i]
      BY DEF Arranged
    <3>3. QED
      BY <3>1, <3>2
  <2>5. ASSUME NEW x
        PROVE  x \in Range(c) <=> \E p \in S : x = route(q.cfg, p)
    <3>1. ASSUME x \in Range(c) PROVE \E p \in S : x = route(q.cfg, p)
      <4>1. PICK a \in 1..Len(c) : x = c[a]
        BY <2>2, <3>1
      <4>2. QED
        BY <2>3, <4>1
    <3>2. ASSUME NEW p \in S, x = route(q.cfg, p) PROVE x \in Range(c)
      <4>1. PICK a \in 1..Len(c) : c[a] = route(q.cfg, p)
        BY <2>4
      <4>2. QED
        BY <2>2, <3>2, <4>1
    <3>3. QED
      BY <3>1, <3>2, Zenon
  <2> HIDE DEF c, S
  <2>6. QED
    BY <2>5
<1>4. {route(q.cfg, p) : p \in S}
        = {[name |-> q.cfg[i].name, priority |-> i] : i \in S}
  BY Zenon DEF route
<1>5. q.status # 404
  BY DEF Routed
<1>6. QED
  BY <1>1, <1>2, <1>3, <1>4, <1>5, OfferingIs, ZenonT(30) DEF RoutedByOwnConfigOf

\* The candidates in their order.
LEMMA RouteFacts ==
    ASSUME NEW r, RequestInv(r), r.pc = "resolve", AllAsked(r),
           NEW q, q = RouteOf(r)
    PROVE  RequestInv(q)
<1> DEFINE c == IF r.reordered THEN healthyFirst(r) ELSE r.entry
           policy == IF r.reordered THEN "healthy_then_configured_order"
                                    ELSE "configured_order"
<1>1. /\ r \in Request /\ r.cfg \in Configs /\ r.body \in Models
      /\ Resolving(r)
  BY DEF RequestInv
<1>2. /\ Arranged(r.entry, r.down, c)
      /\ r.reordered <=> ~InOrder(c)
      /\ \A a, b \in 1..Len(c) : a < b => Len(r.down) = Len(r.entry)
  BY CandidatesFacts
<1>3. policy = "configured_order" <=> InOrder(c)
  BY <1>2
<1>4. policy \in Policies /\ "done" \in Steps
  BY Constants
<1>5. q = [r EXCEPT !.pc = "done", !.status = 200, !.candidates = c,
                    !.policy = policy]
  BY Zenon DEF RouteOf
<1>6. c \in Seq(Candidate)
  BY <1>2 DEF Arranged
<1> HIDE DEF c, policy
<1>7. q \in Request
  <2>1. ASSUME NEW v \in Statuses
        PROVE  [r EXCEPT !.pc = "done", !.status = v, !.candidates = c,
                         !.policy = policy] \in Request
    BY <1>1, <1>4, <1>6, RoutedUpdate, Zenon
  <2>2. [r EXCEPT !.pc = "done", !.status = 200, !.candidates = c,
                  !.policy = policy] \in Request
    BY <2>1, Constants, ZenonT(30)
  <2>3. QED
    BY <1>5, <2>2, Zenon
<1>8. /\ q.pc = "done" /\ q.status = 200 /\ q.candidates = c
      /\ q.policy = policy /\ q.entry = r.entry /\ q.down = r.down
      /\ q.cfg = r.cfg /\ q.body = r.body
  BY <1>1, <1>5 DEF Request
<1>9. q.entry \in Seq(Candidate) /\ q.down \in Seq(BOOLEAN)
  BY <1>7 DEF Request
<1>10. RoutedByOwnConfigOf(q) /\ UnhealthyLastOf(q)
  <2>1. Offering(q.cfg, q.body) # {} /\ EntryOf(q.entry, q.cfg, q.body)
    BY <1>1, <1>8 DEF Resolving
  <2>2. Routed(q)
    BY <1>8 DEF Routed
  <2>3. QED
    <3>1. Arranged(q.entry, q.down, q.candidates)
      BY <1>2, <1>8, Zenon
    <3>2. q.policy = "configured_order" <=> InOrder(q.candidates)
      BY <1>3, <1>8, Zenon
    <3>3. \A a, b \in 1..Len(q.candidates) :
             a < b => Len(q.down) = Len(q.entry)
      BY <1>2, <1>8
    <3>4. q.cfg \in Configs
      BY <1>1, <1>8
    <3>5. QED
      BY <1>9, <2>1, <2>2, <3>1, <3>2, <3>3, <3>4, ArrangedFacts, Zenon
<1>11. QED
  BY <1>7, <1>8, <1>10 DEF RequestInv

-----------------------------------------------------------------------------
(* The invariant.                                                          *)

IInv ==
    /\ globalConfig \in Configs
    /\ routeTableCache \in {NoTable} \cup {buildRouteTable(c) : c \in Configs}
    /\ unhealthy \subseteq Providers
    /\ request = [t \in Threads |-> request[t]]
    /\ \A t \in Threads : RequestInv(request[t])

\* A step of one request that leaves it and the shared state sound.
LEMMA OneRequest ==
    ASSUME IInv, NEW t \in Threads, NEW q, RequestInv(q),
           request' = [request EXCEPT ![t] = q],
           routeTableCache' \in {NoTable} \cup {buildRouteTable(c) : c \in Configs},
           UNCHANGED <<globalConfig, unhealthy>>
    PROVE  IInv'
<1>1. request' = [u \in Threads |-> IF u = t THEN q ELSE request[u]]
  BY Zenon DEF IInv
<1>2. \A u \in Threads : request'[u] = IF u = t THEN q ELSE request[u]
  BY <1>1
<1>3. \A u \in Threads : RequestInv(request'[u])
  BY <1>2 DEF IInv
<1>4. request' = [u \in Threads |-> request'[u]]
  BY <1>1, Zenon
<1>5. /\ globalConfig' \in Configs /\ unhealthy' \subseteq Providers
  BY DEF IInv
<1>6. QED
  BY <1>3, <1>4, <1>5, Zenon DEF IInv

\* A cached table that is hit is the table of the request's configuration.
LEMMA HitFacts ==
    ASSUME NEW table \in {NoTable} \cup {buildRouteTable(c) : c \in Configs},
           NEW cfg \in Configs, cacheHit(table, cfg)
    PROVE  table = buildRouteTable(cfg)
<1>1. PICK c \in Configs : table = buildRouteTable(c)
  BY DEF cacheHit
<1>2. buildRouteTable(c).cfg = c
  BY DEF buildRouteTable
<1>3. QED
  BY <1>1, <1>2 DEF cacheHit

\* No request is in the middleware yet, and no table is cached.
LEMMA InitInv == Init => IInv
<1> SUFFICES ASSUME Init PROVE IInv
  OBVIOUS
<1>1. request = [t \in Threads |-> NoRequest]
  BY DEF Init
<1>2. \A t \in Threads : RequestInv(request[t])
  BY <1>1, NoRequestInv
<1>3. request = [t \in Threads |-> request[t]]
  BY <1>1
<1>4. QED
  BY <1>2, <1>3, Zenon DEF Init, IInv

\* A new configuration and a new verdict on a provider leave requests alone.
LEMMA SharedInv == IInv /\ (LoadConfig \/ HealthChanges) => IInv'
<1> SUFFICES ASSUME IInv, LoadConfig \/ HealthChanges PROVE IInv'
  OBVIOUS
<1>1. /\ request' = request /\ routeTableCache' = routeTableCache
      /\ globalConfig' \in Configs /\ unhealthy' \subseteq Providers
  <2>1. CASE LoadConfig
    BY <2>1 DEF LoadConfig, IInv
  <2>2. CASE HealthChanges
    BY <2>2 DEF HealthChanges, IInv
  <2>3. QED
    BY <2>1, <2>2
<1>2. QED
  BY <1>1 DEF IInv

\* Entering.
LEMMA EnterInv == \A t \in Threads : IInv /\ Enter(t) => IInv'
<1> SUFFICES ASSUME NEW t \in Threads, IInv, Enter(t) PROVE IInv'
  OBVIOUS
<1>1. PICK body \in Bodies :
         request' = [request EXCEPT ![t] = Entered(body, globalConfig)]
  BY Zenon DEF Enter
<1>2. RequestInv(Entered(body, globalConfig))
  BY EnterFacts DEF IInv
<1>3. QED
  BY <1>1, <1>2, OneRequest DEF Enter, IInv

\* Reading the cache.
LEMMA LoadTableInv == \A t \in Threads : IInv /\ LoadTable(t) => IInv'
<1> SUFFICES ASSUME NEW t \in Threads, IInv, LoadTable(t) PROVE IInv'
  OBVIOUS
<1> DEFINE r == request[t]
<1>1. /\ RequestInv(r) /\ r.pc = "load" /\ r.cfg \in Configs
      /\ r.body \in Models /\ r.status = 0 /\ Unasked(r) /\ r \in Request
  BY DEF IInv, LoadTable, RequestInv
<1>2. CASE cacheHit(routeTableCache, r.cfg)
  <2>1. routeTableCache = buildRouteTable(r.cfg)
    BY <1>1, <1>2, HitFacts DEF IInv
  <2>2. RequestInv(Lookup(r, routeTableCache))
    BY <1>1, <2>1, LookupFacts
  <2>3. request' = [request EXCEPT ![t] = Lookup(r, routeTableCache)]
    BY <1>2 DEF LoadTable
  <2>4. QED
    BY <2>2, <2>3, OneRequest DEF LoadTable, IInv
<1>3. CASE ~cacheHit(routeTableCache, r.cfg)
  <2> DEFINE q == [r EXCEPT !.pc = "lock"]
  <2>1. q \in Request
    BY <1>1, Constants, WaitingUpdate, ZenonT(30)
  <2>2. /\ q.pc = "lock" /\ q.cfg = r.cfg /\ q.body = r.body
        /\ q.status = r.status /\ Unasked(q)
    BY <1>1 DEF Request, Unasked
  <2>3. request' = [request EXCEPT ![t] = q]
    BY <1>3 DEF LoadTable
  <2> HIDE DEF q
  <2>4. RequestInv(q)
    BY <1>1, <2>1, <2>2, NotYet DEF RequestInv
  <2>5. QED
    BY <2>3, <2>4, OneRequest DEF LoadTable, IInv
<1>4. QED
  BY <1>2, <1>3

\* Under the table lock.
LEMMA BuildTableInv == \A t \in Threads : IInv /\ BuildTable(t) => IInv'
<1> SUFFICES ASSUME NEW t \in Threads, IInv, BuildTable(t) PROVE IInv'
  OBVIOUS
<1> DEFINE r == request[t]
<1>1. RequestInv(r) /\ r.pc = "lock" /\ r.cfg \in Configs
  BY DEF IInv, BuildTable, RequestInv
<1>2. routeTableCache' = buildRouteTable(r.cfg)
  BY <1>1, HitFacts DEF IInv, BuildTable
<1>3. RequestInv(Lookup(r, routeTableCache'))
  BY <1>1, <1>2, LookupFacts
<1>4. request' = [request EXCEPT ![t] = Lookup(r, routeTableCache')]
  BY DEF BuildTable
<1>5. QED
  BY <1>1, <1>2, <1>3, <1>4, OneRequest DEF BuildTable, IInv

\* One verdict.
LEMMA ResolveNextInv == \A t \in Threads : IInv /\ ResolveNext(t) => IInv'
<1> SUFFICES ASSUME NEW t \in Threads, IInv, ResolveNext(t) PROVE IInv'
  OBVIOUS
<1> DEFINE r == request[t]
           isDown == r.entry[Len(r.down) + 1].name \in unhealthy
<1>1. RequestInv(r) /\ r.pc = "resolve" /\ ~AllAsked(r)
  BY DEF IInv, ResolveNext
<1>2. request' = [request EXCEPT ![t] = Resolved(r, isDown)]
  BY DEF ResolveNext
<1>3. isDown \in BOOLEAN
  OBVIOUS
<1> HIDE DEF isDown
<1>4. RequestInv(Resolved(r, isDown))
  BY <1>1, <1>3, ResolvedFacts
<1>5. QED
  BY <1>2, <1>4, OneRequest, Zenon DEF ResolveNext, IInv

\* Routing, and leaving.
LEMMA RouteInv == \A t \in Threads : IInv /\ (Route(t) \/ Leave(t)) => IInv'
<1> SUFFICES ASSUME NEW t \in Threads, IInv, Route(t) \/ Leave(t) PROVE IInv'
  OBVIOUS
<1>1. CASE Route(t)
  <2>1. RequestInv(RouteOf(request[t]))
    BY <1>1, RouteFacts DEF IInv, Route
  <2>2. request' = [request EXCEPT ![t] = RouteOf(request[t])]
    BY <1>1 DEF Route
  <2>3. QED
    BY <1>1, <2>1, <2>2, OneRequest DEF Route, IInv
<1>2. CASE Leave(t)
  BY <1>2, NoRequestInv, OneRequest DEF Leave, IInv
<1>3. QED
  BY <1>1, <1>2

\* The invariant is inductive.
LEMMA NextInv == IInv /\ [Next]_vars => IInv'
<1> SUFFICES ASSUME IInv, [Next]_vars PROVE IInv'
  OBVIOUS
<1>1. CASE LoadConfig \/ HealthChanges
  BY <1>1, SharedInv
<1>2. ASSUME NEW t \in Threads,
             \/ Enter(t) \/ LoadTable(t) \/ BuildTable(t)
             \/ ResolveNext(t) \/ Route(t) \/ Leave(t)
      PROVE  IInv'
  BY <1>2, EnterInv, LoadTableInv, BuildTableInv, ResolveNextInv, RouteInv, Zenon
<1>3. CASE UNCHANGED vars
  BY <1>3 DEF IInv, vars
<1>4. QED
  BY <1>1, <1>2, <1>3, Zenon DEF Next

\* The invariant implies the properties.
LEMMA IInvImplies == IInv => TypeOK /\ RoutedByOwnConfig /\ UnhealthyLast
<1> SUFFICES ASSUME IInv PROVE TypeOK /\ RoutedByOwnConfig /\ UnhealthyLast
  OBVIOUS
<1>1. \A t \in Threads : request[t] \in Request
  BY DEF IInv, RequestInv
<1>2. request \in [Threads -> Request]
  BY <1>1, Zenon DEF IInv
<1>3. TypeOK
  BY <1>2, Zenon DEF IInv, TypeOK
<1>4. RoutedByOwnConfig /\ UnhealthyLast
  BY Zenon DEF IInv, RequestInv, RoutedByOwnConfig, UnhealthyLast
<1>5. QED
  BY <1>3, <1>4

\* The invariant always holds.
THEOREM Invariance == Spec => []IInv
BY InitInv, NextInv, PTL DEF Spec

\* The router's state is well typed: the cache is empty or the table of a
\* configuration that was loaded (ModelRouterMiddleware).
THEOREM TypeCorrect == Spec => []TypeOK
BY Invariance, IInvImplies, PTL

\* Every request is routed by the configuration it read on entry, however
\* many configurations are loaded and tables built meanwhile
\* (currentRouteTable).
THEOREM RoutedByOwnConfigHolds == Spec => []RoutedByOwnConfig
BY Invariance, IInvImplies, PTL

\* Candidates found unhealthy come last, the configured order is kept within
\* each group, and the reported policy is true, however the health of the
\* providers changes between two verdicts (applyHealthAwareRouting).
THEOREM UnhealthyLastHolds == Spec => []UnhealthyLast
BY Invariance, IInvImplies, PTL

=============================================================================
