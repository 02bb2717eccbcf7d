------------------------- MODULE AvailabilityProofs -------------------------
(***************************************************************************)
(* Readiness and routing agree, for any number of candidates, requests and *)
(* attempts.  A readiness request looks at the health map once and at the  *)
(* breakers one after the other, so the property alone is not inductive:   *)
(* the invariant says what the copy holds half-way.  An entry that has     *)
(* been taken for healthy had the map, and once overlaid its breaker, on   *)
(* its side at a moment of the request; one that has not was unhealthy     *)
(* for routing at some moment.                                             *)
(*                                                                         *)
(* And the composition keeps to what its parts promise: its steps are      *)
(* steps of the breakers' contract, which module CircuitBreaker            *)
(* implements.  For that, whoever a breaker waits for must be a request    *)
(* that waits for an answer through this breaker: then nobody is admitted  *)
(* while an earlier attempt of their own still counts, and each gives back *)
(* the place they took.                                                    *)
(***************************************************************************)
EXTENDS Availability, TLAPS, FiniteSetTheorems

\* What the copy says of the i-th candidate, when at is the next to overlay,
\* was so at some moment.
Copied(statuses, at, i) ==
    LET p == Candidates[i]
    IN  IF statuses[p] THEN "entry" \in seen[p] /\ (i < at => "breaker" \in seen[p])
        ELSE "unavailable" \in seen[p]

\* A readiness request under way.
Overlaying ==
    /\ ready.at \in 1..Len(Candidates)
    /\ ready.statuses \in [Providers -> BOOLEAN]
    /\ ready.httpStatus = 0
    /\ \A i \in 1..Len(Candidates) : Copied(ready.statuses, ready.at, i)

Stages == {"absent", "idle", "overlay"}

Copies == [Providers -> BOOLEAN] \cup {<<>>}

HttpStatuses == {0, 200, 503}

ReadyRecords ==
    [pc : Stages, at : Nat, statuses : Copies, httpStatus : HttpStatuses]

IInv ==
    /\ status \in [Providers -> BOOLEAN]
    /\ ready \in ReadyRecords
    /\ ready.pc # "overlay" => ready.at = 1
    /\ ready.pc = "overlay" => Overlaying

-----------------------------------------------------------------------------
\* The candidates are the providers.
LEMMA CandidatesAre ==
    /\ Len(Candidates) \in Nat /\ Len(Candidates) >= 2
    /\ \A i \in 1..Len(Candidates) : Candidates[i] \in Providers
    /\ \A p \in Providers : \E i \in 1..Len(Candidates) : Candidates[i] = p
    /\ \A i, j \in 1..Len(Candidates) : Candidates[i] = Candidates[j] => i = j
<1>1. /\ Candidates \in Seq(Providers)
      /\ Len(Candidates) >= 2 /\ IsInjective(Candidates)
  BY AvailabilityAssumption
<1>2. /\ Len(Candidates) \in Nat /\ DOMAIN Candidates = 1..Len(Candidates)
      /\ \A i \in 1..Len(Candidates) : Candidates[i] \in Providers
  BY <1>1
<1>3. \A p \in Providers : \E i \in 1..Len(Candidates) : Candidates[i] = p
  BY <1>2 DEF Providers, Range
<1>4. QED
  BY <1>1, <1>2, <1>3 DEF IsInjective

\* While a request is under way nothing that was seen is forgotten, and what
\* is true now is seen.
LEMMA Watched ==
    ASSUME Watch, ready.pc = "overlay", ready'.pc = "overlay", NEW p \in Providers
    PROVE  seen[p] \subseteq seen'[p] /\ Facts(p)' \subseteq seen'[p]
<1>1. seen'[p] = Facts(p)' \cup seen[p]
  BY DEF Watch
<1>2. QED
  BY <1>1

\* Steps of requests, probes and upstreams leave a readiness request alone.
LEMMA Bystander ==
    ASSUME IInv, Watch, ready' = ready, status' \in [Providers -> BOOLEAN]
    PROVE  IInv'
<1>1. ASSUME ready.pc = "overlay" PROVE Overlaying'
  <2>1. ASSUME NEW i \in 1..Len(Candidates)
        PROVE  Copied(ready.statuses, ready.at, i)'
    <3>1. Copied(ready.statuses, ready.at, i)
      BY <1>1 DEF IInv, Overlaying
    <3>2. seen[Candidates[i]] \subseteq seen'[Candidates[i]]
      BY <1>1, Watched, CandidatesAre
    <3>3. QED
      BY <3>1, <3>2 DEF Copied
  <2>2. QED
    BY <1>1, <2>1 DEF IInv, Overlaying
<1>2. QED
  BY <1>1 DEF IInv

\* A new verdict is stored.
LEMMA Updated ==
    ASSUME IInv, NEW p, NEW healthy \in BOOLEAN, updateProviderHealth(p, healthy)
    PROVE  status' \in [Providers -> BOOLEAN]
BY Zenon DEF IInv, updateProviderHealth

Fields(q, x, a, s, h) ==
    /\ q.pc = x /\ q.at = a /\ q.statuses = s /\ q.httpStatus = h
    /\ q \in ReadyRecords

\* The readiness record after the copy.
LEMMA CopyFields ==
    ASSUME NEW r \in ReadyRecords, NEW x \in Stages, NEW s \in Copies,
           NEW h \in HttpStatuses,
           NEW q, q = [r EXCEPT !.pc = x, !.statuses = s, !.httpStatus = h]
    PROVE  Fields(q, x, r.at, s, h)
BY Zenon DEF Fields, ReadyRecords

\* The readiness record after a look at a breaker that is not the last.
LEMMA OverlayFields ==
    ASSUME NEW r \in ReadyRecords, NEW a \in Nat, NEW s \in Copies,
           NEW q, q = [r EXCEPT !.at = a, !.statuses = s]
    PROVE  Fields(q, r.pc, a, s, r.httpStatus)
BY Zenon DEF Fields, ReadyRecords

\* The copy is the health map.
LEMMA CopyStep ==
    ASSUME IInv, Watch, ReadyCopy
    PROVE  IInv'
<1>1. /\ ready' = [ready EXCEPT !.pc = "overlay", !.statuses = status, !.httpStatus = 0]
      /\ ready.pc = "idle" /\ ready.at = 1 /\ ready \in ReadyRecords
      /\ status' = status /\ status \in [Providers -> BOOLEAN]
  BY DEF ReadyCopy, IInv
<1>2. /\ ready'.pc = "overlay" /\ ready'.at = 1 /\ ready'.statuses = status
      /\ ready'.httpStatus = 0 /\ ready' \in ReadyRecords
  <2>1. "overlay" \in Stages /\ 0 \in HttpStatuses /\ status \in Copies
    BY <1>1 DEF Stages, HttpStatuses, Copies
  <2>2. Fields(ready', "overlay", ready.at, status, 0)
    BY <1>1, <2>1, CopyFields, Zenon
  <2>3. QED
    BY <1>1, <2>2 DEF Fields
<1>3. ASSUME NEW i \in 1..Len(Candidates)
      PROVE  Copied(ready.statuses, ready.at, i)'
  <2> DEFINE p == Candidates[i]
  <2>1. p \in Providers
    BY CandidatesAre
  <2>2. seen'[p] = Facts(p)' \cup {}
    BY <1>1, <1>2, <2>1 DEF Watch
  <2>3. /\ status[p] => "entry" \in seen'[p]
        /\ ~status[p] => "unavailable" \in seen'[p]
    BY <1>1, <2>2 DEF Facts, Unavailable
  <2>4. ~(i < 1)
    OBVIOUS
  <2>5. QED
    BY <1>2, <2>3, <2>4 DEF Copied
<1>4. Overlaying'
  BY <1>1, <1>2, <1>3, CandidatesAre DEF Overlaying
<1>5. QED
  BY <1>1, <1>2, <1>4, Zenon DEF IInv

\* The answer, as the property has it.
Truthful ==
    LET met(p) == seen[p] \cup Facts(p)'
    IN  /\ ready'.httpStatus = 503 => \A p \in Providers : "unavailable" \in met(p)
        /\ ready'.httpStatus = 200 =>
              \E p \in Providers : {"entry", "breaker"} \subseteq met(p)

\* One breaker is overlaid; after the last one, the answer.
LEMMA OverlayStep ==
    ASSUME IInv, Watch, ReadyOverlay
    PROVE  IInv' /\ (ready'.pc = "idle" => Truthful)
<1> DEFINE p == Candidates[ready.at]
           s == [ready.statuses EXCEPT ![p] = overlay(@, breaker'[p].state)]
           n == Len(Candidates)
           met(q) == seen[q] \cup Facts(q)'
<1>1. /\ ready.pc = "overlay" /\ Overlaying /\ ready \in ReadyRecords
      /\ status' = status /\ status \in [Providers -> BOOLEAN]
      /\ ready' = IF ready.at < n
                  THEN [ready EXCEPT !.at = @ + 1, !.statuses = s]
                  ELSE [NotAsked EXCEPT !.httpStatus = httpStatusOf(s)]
  BY DEF ReadyOverlay, IInv
<1>2. /\ ready.at \in 1..n /\ ready.statuses \in [Providers -> BOOLEAN]
      /\ ready.httpStatus = 0 /\ n \in Nat /\ p \in Providers
  BY <1>1, CandidatesAre DEF Overlaying
<1>3. s \in [Providers -> BOOLEAN]
  BY <1>2 DEF overlay
<1>4. ASSUME NEW i \in 1..n
      PROVE  LET c == Candidates[i]
             IN  IF s[c] THEN "entry" \in met(c) /\ (i <= ready.at => "breaker" \in met(c))
                 ELSE "unavailable" \in met(c)
  <2> DEFINE c == Candidates[i]
  <2>1. c \in Providers /\ Copied(ready.statuses, ready.at, i)
    BY <1>1, CandidatesAre DEF Overlaying
  <2>2. CASE i = ready.at
    <3>1. s[c] = (ready.statuses[c] /\ breaker'[c].state # "open")
      BY <1>2, <2>2 DEF overlay
    <3>2. ready.statuses[c] \in BOOLEAN
      BY <1>2, <2>1
    <3>3. /\ breaker'[c].state # "open" => "breaker" \in Facts(c)'
          /\ breaker'[c].state = "open" => "unavailable" \in Facts(c)'
      BY DEF Facts, Unavailable, breakerHealthy
    <3>4. QED
      BY <2>1, <3>1, <3>2, <3>3 DEF Copied
  <2>3. CASE i # ready.at
    <3>1. c # p
      BY <1>2, <2>3, CandidatesAre
    <3>2. s[c] = ready.statuses[c]
      BY <1>2, <2>1, <3>1
    <3>3. i <= ready.at => i < ready.at
      BY <1>2, <2>3
    <3>4. QED
      BY <2>1, <3>2, <3>3 DEF Copied
  <2>4. QED
    BY <2>2, <2>3
<1> HIDE DEF s
<1>5. CASE ready.at < n
  <2>1. ready' = [ready EXCEPT !.at = @ + 1, !.statuses = s]
    BY <1>1, <1>5
  <2>2. /\ ready'.pc = "overlay" /\ ready'.at = ready.at + 1
        /\ ready'.statuses = s /\ ready'.httpStatus = 0 /\ ready' \in ReadyRecords
    <3>1. s \in Copies
      BY <1>3 DEF Copies
    <3>2. ready.at + 1 \in Nat
      BY <1>2
    <3>3. Fields(ready', ready.pc, ready.at + 1, s, ready.httpStatus)
      BY <1>1, <2>1, <3>1, <3>2, OverlayFields, Zenon
    <3>4. QED
      BY <1>1, <1>2, <3>3 DEF Fields
  <2>3. ASSUME NEW i \in 1..n
        PROVE  Copied(ready.statuses, ready.at, i)'
    <3>1. Candidates[i] \in Providers
      BY CandidatesAre
    <3>2. met(Candidates[i]) \subseteq seen'[Candidates[i]]
      BY <1>1, <2>2, <3>1, Watched
    <3>3. i < ready.at + 1 => i <= ready.at
      BY <1>2
    <3> HIDE DEF met
    <3>4. QED
      BY <1>4, <2>2, <3>2, <3>3 DEF Copied
  <2>4. Overlaying'
    BY <1>2, <1>3, <1>5, <2>2, <2>3 DEF Overlaying
  <2>5. QED
    BY <1>1, <2>2, <2>4 DEF IInv
<1>6. CASE ~(ready.at < n)
  <2>1. ready' = [NotAsked EXCEPT !.httpStatus = httpStatusOf(s)]
    BY <1>1, <1>6
  <2>2. httpStatusOf(s) = IF \A q \in Providers : ~s[q] THEN 503 ELSE 200
    BY DEF httpStatusOf
  <2>3. /\ ready'.pc = "idle" /\ ready'.at = 1
        /\ ready'.httpStatus = httpStatusOf(s) /\ ready' \in ReadyRecords
    BY <2>1, <2>2 DEF NotAsked, ReadyRecords, Stages, Copies, HttpStatuses
  <2>4. ASSUME NEW q \in Providers
        PROVE  IF s[q] THEN {"entry", "breaker"} \subseteq met(q)
               ELSE "unavailable" \in met(q)
    <3>1. PICK i \in 1..n : Candidates[i] = q
      BY CandidatesAre
    <3>2. i <= ready.at
      BY <1>2, <1>6
    <3> HIDE DEF met
    <3>3. QED
      BY <1>4, <3>1, <3>2
  <2>5. Truthful
    <3> HIDE DEF met
    <3>1. CASE \A q \in Providers : ~s[q]
      <4>1. ready'.httpStatus = 503
        BY <2>2, <2>3, <3>1
      <4>2. \A q \in Providers : "unavailable" \in met(q)
        BY <2>4, <3>1
      <4>3. QED
        BY <4>1, <4>2 DEF Truthful, met
    <3>2. CASE \E q \in Providers : s[q]
      <4>1. ready'.httpStatus = 200
        BY <2>2, <2>3, <3>2
      <4>2. \E q \in Providers : {"entry", "breaker"} \subseteq met(q)
        BY <2>4, <3>2
      <4>3. QED
        BY <4>1, <4>2 DEF Truthful, met
    <3>3. QED
      BY <3>1, <3>2
  <2>6. QED
    BY <1>1, <2>3, <2>5 DEF IInv
<1>7. QED
  BY <1>5, <1>6

\* Nobody has asked for readiness yet.
LEMMA Initially == Init => IInv
<1> SUFFICES ASSUME Init PROVE IInv
  OBVIOUS
<1>1. status \in [Providers -> BOOLEAN]
  BY DEF Init
<1>2. ready = NotAsked \/ ready = [NotAsked EXCEPT !.pc = "absent"]
  BY DEF Init
<1>3. /\ ready.pc \in {"idle", "absent"} /\ ready.at = 1 /\ ready \in ReadyRecords
  BY <1>2 DEF NotAsked, ReadyRecords, Stages, Copies, HttpStatuses
<1>4. QED
  BY <1>1, <1>3 DEF IInv

\* Every step keeps the invariant.
LEMMA NextInv == IInv /\ [Next]_vars => IInv'
<1> SUFFICES ASSUME IInv, [Next]_vars PROVE IInv'
  OBVIOUS
<1>1. CASE UNCHANGED vars
  BY <1>1 DEF vars, IInv, Overlaying, Copied
<1>2. CASE Next
  <2>1. Watch
    BY <1>2 DEF Next
  <2>2. ASSUME ready' = ready, status' = status PROVE IInv'
    BY <2>1, <2>2, Bystander DEF IInv
  <2>3. ASSUME NEW p, NEW healthy \in BOOLEAN, updateProviderHealth(p, healthy),
               ready' = ready
        PROVE  IInv'
    BY <2>1, <2>3, Updated, Bystander
  <2>4. ASSUME NEW p \in Providers, UpstreamChanges(p) PROVE IInv'
    BY <2>2, <2>4 DEF UpstreamChanges
  <2>5. ASSUME NEW p \in Providers, Probe(p) PROVE IInv'
    <3>1. Answers(p) \in BOOLEAN
      BY DEF Answers
    <3>2. /\ updateProviderHealth(p, Answers(p)) \/ status' = status
          /\ ready' = ready
      BY <2>5 DEF Probe
    <3>3. QED
      BY <2>2, <2>3, <3>1, <3>2, Zenon
  <2>6. ASSUME NEW t \in Threads, Arrive(t) PROVE IInv'
    BY <2>2, <2>6 DEF Arrive
  <2>7. ASSUME NEW t \in Threads, AskBreaker(t) PROVE IInv'
    BY <2>2, <2>7 DEF AskBreaker
  <2>8. ASSUME NEW t \in Threads, ReadStatus(t) PROVE IInv'
    BY <2>2, <2>8 DEF ReadStatus
  <2>9. ASSUME NEW t \in Threads, GetBreaker(t) PROVE IInv'
    BY <2>2, <2>9 DEF GetBreaker
  <2>10. ASSUME NEW t \in Threads, Send(t) PROVE IInv'
    BY <2>2, <2>10 DEF Send
  <2>11. ASSUME NEW t \in Threads, Return(t) PROVE IInv'
    BY <2>2, <2>11 DEF Return
  <2>12. ASSUME NEW t \in Threads, ClientLeaves(t) PROVE IInv'
    BY <2>2, <2>12 DEF ClientLeaves
  <2>13. ASSUME NEW t \in Threads, Report(t) PROVE IInv'
    BY <2>3, <2>13, Zenon DEF Report
  <2>14. QED
    BY <1>2, <2>1, <2>4, <2>5, <2>6, <2>7, <2>8, <2>9, <2>10, <2>11, <2>12,
       <2>13, CopyStep, OverlayStep DEF Next, Step
<1>3. QED
  BY <1>1, <1>2

-----------------------------------------------------------------------------
\* A step that answers is the last of the overlay, so its answer is true.
LEMMA AnswersTruthfully ==
    ASSUME IInv, [Next]_vars, ready.pc = "overlay", ready'.pc = "idle"
    PROVE  Truthful
<1>1. ready' # ready
  OBVIOUS
<1>2. ~ReadyCopy
  BY DEF ReadyCopy
<1>3. \A p \in Providers : ~UpstreamChanges(p) /\ ~Probe(p)
  BY <1>1 DEF UpstreamChanges, Probe
<1>4. \A t \in Threads : ~Arrive(t) /\ ~Step(t) /\ ~ClientLeaves(t)
  BY <1>1 DEF Arrive, Step, AskBreaker, ReadStatus, GetBreaker, Send, Return,
              ClientLeaves, Report
<1>5. ReadyOverlay /\ Watch
  BY <1>1, <1>2, <1>3, <1>4 DEF Next, vars
<1>6. QED
  BY <1>5, OverlayStep

\* What readiness answers was so while it looked: a 503 means that routing held
\* every provider for unhealthy at some moment of the request, a 200 that some
\* provider had a healthy entry and a breaker that was not open, whatever
\* requests, probes and breakers do between its look at the health map and its
\* looks at the breakers, for any number of candidates and requests
\* (GetEffectiveUpstreamStatuses, buildReadyHealthResponse).
THEOREM ReadinessMatchesRoutingHolds == Spec => ReadinessMatchesRouting
<1>1. IInv /\ [Next]_vars =>
          [ready.pc = "overlay" /\ ready'.pc = "idle" => Truthful]_vars
  BY AnswersTruthfully
<1>2. Spec => [][ready.pc = "overlay" /\ ready'.pc = "idle" => Truthful]_vars
  BY <1>1, Initially, NextInv, PTL DEF Spec
<1>3. QED
  BY <1>2 DEF ReadinessMatchesRouting, Truthful

-----------------------------------------------------------------------------
(* The breakers under the gateway.  A step of the gateway is a step of the *)
(* contract or leaves the breakers alone, and the requests a breaker       *)
(* counts as out are requests that are out.                                *)

\* One period within the limit of a trial.
Within(b) ==
    b.state = "half-open" =>
        b.successes + Cardinality(b.pending) <= MaxHalfOpenRequests

Good == {b \in Breakers!Periods : Within(b)}

RequestRecords ==
    [pc : {"absent", "idle", "ask", "read", "send", "sent", "report"},
     at : 1..Len(Candidates), down : SUBSET Providers, attempt : Nat,
     result : {"none", "ok", "failed", "canceled"}]

\* A request that a breaker still waits for has passed this breaker and has
\* not come back.
SlotsHeld ==
    \A p \in Providers, t \in Threads :
        t \in breaker[p].pending => request[t].pc = "sent" /\ Target(request[t]) = p

BInv ==
    /\ breaker \in [Providers -> Good]
    /\ request \in [Threads -> RequestRecords]
    /\ SlotsHeld

LEMMA ContractCounts ==
    ASSUME NEW S
    PROVE  Breakers!Cardinality(S) = Cardinality(S)
BY Zenon DEF Breakers!Cardinality, Cardinality

\* A new period has nothing out and nothing answered.
LEMMA NewPeriod ==
    ASSUME NEW s \in {"none", "closed", "open", "half-open"}
    PROVE  Breakers!Period(s) \in Good /\ Breakers!Period(s).pending = {}
<1>1. Cardinality({}) = 0 /\ MaxHalfOpenRequests \in Nat
  BY FS_EmptySet, AvailabilityAssumption
<1> QED
  BY <1>1 DEF Breakers!Period, Breakers!Periods, Good, Within

\* A look at the clock keeps the period or begins a new one.
LEMMA SeenGood ==
    ASSUME NEW b \in Good, NEW c \in Breakers!Seen(b)
    PROVE  c \in Good /\ c.pending \subseteq b.pending
<1>1. c = b \/ c = Breakers!Period("closed") \/ c = Breakers!Period("half-open")
  BY DEF Breakers!Seen
<1>2. CASE c = b
  BY <1>2
<1>3. CASE c # b
  <2>1. PICK s \in {"none", "closed", "open", "half-open"} : c = Breakers!Period(s)
    BY <1>1, <1>3
  <2> QED
    BY <2>1, NewPeriod
<1> QED
  BY <1>2, <1>3

\* An admission is checked before it is made.
LEMMA AdmitGood ==
    ASSUME NEW c \in Good, NEW t \in Threads, Breakers!admits(c),
           t \notin c.pending
    PROVE  /\ [c EXCEPT !.pending = @ \cup {t}] \in Good
           /\ [c EXCEPT !.pending = @ \cup {t}].pending = c.pending \cup {t}
<1> DEFINE d == [c EXCEPT !.pending = @ \cup {t}]
<1>1. /\ c \in Breakers!Periods
      /\ c.pending \subseteq Threads
      /\ c.successes \in Nat
      /\ MaxHalfOpenRequests \in Nat
  BY AvailabilityAssumption DEF Good, Breakers!Periods
<1>2. IsFiniteSet(c.pending)
  BY <1>1, FS_Subset, AvailabilityAssumption
<1>3. /\ Cardinality(c.pending) \in Nat
      /\ Cardinality(c.pending \cup {t}) = Cardinality(c.pending) + 1
  BY <1>2, FS_CardinalityType, FS_AddElement, Zenon
<1>4. /\ d \in Breakers!Periods
      /\ d.state = c.state
      /\ d.pending = c.pending \cup {t}
      /\ d.successes = c.successes
  BY <1>1 DEF Breakers!Periods
<1>5. c.state = "half-open" =>
          c.successes + Cardinality(c.pending) < MaxHalfOpenRequests
  BY ContractCounts DEF Breakers!admits
<1>6. Within(d)
  BY <1>1, <1>3, <1>4, <1>5 DEF Within
<1> QED
  BY <1>4, <1>6 DEF Good

\* An answer takes its request out of those pending, and counts it at most
\* once.
LEMMA AnswerGood ==
    ASSUME NEW c \in Good, NEW t \in Threads, NEW success \in BOOLEAN,
           NEW d \in Breakers!Answered(c, t, success)
    PROVE  d \in Good /\ d.pending \subseteq c.pending \ {t}
<1> DEFINE e == [c EXCEPT !.pending = @ \ {t}]
           f == [e EXCEPT !.successes = c.successes + 1]
<1>1. /\ c \in Breakers!Periods
      /\ c.pending \subseteq Threads
      /\ c.successes \in Nat
      /\ MaxHalfOpenRequests \in Nat
  BY AvailabilityAssumption DEF Good, Breakers!Periods
<1>2. IsFiniteSet(c.pending)
  BY <1>1, FS_Subset, AvailabilityAssumption
<1>3. CASE t \notin c.pending
  BY <1>3 DEF Breakers!Answered
<1>4. CASE t \in c.pending
  <2>1. /\ Cardinality(c.pending) \in Nat
        /\ Cardinality(c.pending \ {t}) = Cardinality(c.pending) - 1
    BY <1>2, <1>4, FS_CardinalityType, FS_RemoveElement
  <2>2. /\ e \in Breakers!Periods
        /\ e.state = c.state
        /\ e.pending = c.pending \ {t}
        /\ e.successes = c.successes
    BY <1>1 DEF Breakers!Periods
  <2>3. /\ f \in Breakers!Periods
        /\ f.state = c.state
        /\ f.pending = c.pending \ {t}
        /\ f.successes = c.successes + 1
    <3> HIDE DEF e
    <3>1. c.successes + 1 \in Nat
      BY <1>1
    <3> QED
      BY <2>2, <3>1 DEF Breakers!Periods
  <2>4. Within(c)
    BY DEF Good
  <2>5. Within(e) /\ Within(f)
    BY <1>1, <2>1, <2>2, <2>3, <2>4 DEF Within
  <2>6. d \in {e, f, Breakers!Period("open"), Breakers!Period("closed")}
    BY <1>4 DEF Breakers!Answered
  <2> QED
    BY <2>2, <2>3, <2>5, <2>6, NewPeriod DEF Good
<1> QED
  BY <1>3, <1>4

\* What any step does to the breakers: their type stays, and the contract
\* allows it.
Allowed == breaker' \in [Providers -> Good] /\ (Breakers!Next \/ UNCHANGED breaker)

LEMMA Becoming ==
    ASSUME BInv, NEW p \in Providers, NEW b \in Good, Breakers!Becomes(p, b)
    PROVE  /\ breaker' \in [Providers -> Good]
           /\ breaker'[p] = b
           /\ \A q \in Providers : q # p => breaker'[q] = breaker[q]
BY Zenon DEF BInv, Breakers!Becomes

\* There is no breaker but those of the providers.
LEMMA NoSuchBreaker ==
    ASSUME BInv, NEW p, p \notin Providers, NEW b, Breakers!Becomes(p, b)
    PROVE  breaker' = breaker
<1>1. breaker \in [Providers -> Good] /\ breaker' = [breaker EXCEPT ![p] = b]
  BY Zenon DEF BInv, Breakers!Becomes
<1> QED
  BY <1>1

LEMMA Appearing ==
    ASSUME BInv, NEW p, Breakers!Appear(p)
    PROVE  Allowed /\ \A q \in Providers : breaker'[q].pending \subseteq breaker[q].pending
<1>1. Breakers!Becomes(p, Breakers!Period("closed"))
  BY Zenon DEF Breakers!Appear
<1>2. CASE p \in Providers
  <2>1. Breakers!Next
    BY <1>2, Zenon DEF Breakers!Next
  <2>2. Breakers!Period("closed") \in Good /\ Breakers!Period("closed").pending = {}
    BY NewPeriod
  <2>3. /\ breaker' \in [Providers -> Good]
        /\ breaker'[p] = Breakers!Period("closed")
        /\ \A q \in Providers : q # p => breaker'[q] = breaker[q]
    BY <1>1, <1>2, <2>2, Becoming
  <2> QED
    BY <2>1, <2>2, <2>3 DEF Allowed
<1>3. CASE p \notin Providers
  BY <1>1, <1>3, NoSuchBreaker DEF Allowed, BInv
<1> QED
  BY <1>2, <1>3

LEMMA Asking ==
    ASSUME BInv, NEW p, Breakers!Ask(p)
    PROVE  Allowed /\ \A q \in Providers : breaker'[q].pending \subseteq breaker[q].pending
<1>1. PICK c \in Breakers!Seen(breaker[p]) : Breakers!Becomes(p, c)
  BY Zenon DEF Breakers!Ask
<1>2. CASE p \in Providers
  <2>1. Breakers!Next
    BY <1>2, Zenon DEF Breakers!Next
  <2>2. breaker[p] \in Good
    BY <1>2 DEF BInv
  <2>3. c \in Good /\ c.pending \subseteq breaker[p].pending
    BY <2>2, SeenGood
  <2>4. /\ breaker' \in [Providers -> Good]
        /\ breaker'[p] = c
        /\ \A q \in Providers : q # p => breaker'[q] = breaker[q]
    BY <1>1, <1>2, <2>3, Becoming
  <2> QED
    BY <2>1, <2>3, <2>4 DEF Allowed
<1>3. CASE p \notin Providers
  BY <1>1, <1>3, NoSuchBreaker DEF Allowed, BInv
<1> QED
  BY <1>2, <1>3

LEMMA Admitting ==
    ASSUME BInv, NEW p, NEW t \in Threads, Breakers!Admit(p, t)
    PROVE  /\ Allowed
           /\ \A q \in Providers :
                 \A u \in breaker'[q].pending :
                     u \in breaker[q].pending \/ (q = p /\ u = t)
<1>1. PICK c \in Breakers!Seen(breaker[p]) :
          /\ Breakers!admits(c)
          /\ t \notin c.pending
          /\ Breakers!Becomes(p, [c EXCEPT !.pending = @ \cup {t}])
  BY Zenon DEF Breakers!Admit
<1>2. CASE p \in Providers
  <2>1. Breakers!Next
    BY <1>2, Zenon DEF Breakers!Next
  <2>2. breaker[p] \in Good
    BY <1>2 DEF BInv
  <2>3. c \in Good /\ c.pending \subseteq breaker[p].pending
    BY <2>2, SeenGood
  <2> DEFINE d == [c EXCEPT !.pending = @ \cup {t}]
  <2>4. d \in Good /\ d.pending = c.pending \cup {t}
    BY <1>1, <2>3, AdmitGood
  <2>5. Breakers!Becomes(p, d)
    BY <1>1
  <2> HIDE DEF d
  <2>6. /\ breaker' \in [Providers -> Good]
        /\ breaker'[p] = d
        /\ \A q \in Providers : q # p => breaker'[q] = breaker[q]
    BY <1>2, <2>4, <2>5, Becoming
  <2> QED
    BY <2>1, <2>3, <2>4, <2>6 DEF Allowed
<1>3. CASE p \notin Providers
  BY <1>1, <1>3, NoSuchBreaker DEF Allowed, BInv
<1> QED
  BY <1>2, <1>3

LEMMA AnswerArrives ==
    ASSUME BInv, NEW p, NEW t \in Threads, NEW success \in BOOLEAN,
           Breakers!Answer(p, t, success)
    PROVE  /\ Allowed
           /\ \A q \in Providers : breaker'[q].pending \subseteq breaker[q].pending
           /\ p \in Providers => t \notin breaker'[p].pending
<1>1. PICK c \in Breakers!Seen(breaker[p]) :
          \E d \in Breakers!Answered(c, t, success) : Breakers!Becomes(p, d)
  BY Zenon DEF Breakers!Answer
<1>2. PICK d \in Breakers!Answered(c, t, success) : Breakers!Becomes(p, d)
  BY <1>1
<1>3. CASE p \in Providers
  <2>1. Breakers!Next
    BY <1>3, Zenon DEF Breakers!Next
  <2>2. breaker[p] \in Good
    BY <1>3 DEF BInv
  <2>3. c \in Good /\ c.pending \subseteq breaker[p].pending
    BY <2>2, SeenGood
  <2>4. d \in Good /\ d.pending \subseteq c.pending \ {t}
    BY <2>3, AnswerGood
  <2>5. /\ breaker' \in [Providers -> Good]
        /\ breaker'[p] = d
        /\ \A q \in Providers : q # p => breaker'[q] = breaker[q]
    BY <1>2, <1>3, <2>4, Becoming
  <2> QED
    BY <2>1, <2>3, <2>4, <2>5 DEF Allowed
<1>4. CASE p \notin Providers
  BY <1>2, <1>4, NoSuchBreaker DEF Allowed, BInv
<1> QED
  BY <1>3, <1>4

\* What a breaker waits for stays out as long as no request that is out moves.
LEMMA SlotsStay ==
    ASSUME BInv, breaker' \in [Providers -> Good],
           request' \in [Threads -> RequestRecords],
           \A q \in Providers : breaker'[q].pending \subseteq breaker[q].pending,
           \A u \in Threads : request[u].pc = "sent" => request'[u] = request[u]
    PROVE  BInv'
<1>1. ASSUME NEW q \in Providers, NEW u \in Threads, u \in breaker'[q].pending
      PROVE  request'[u].pc = "sent" /\ Target(request[u])' = q
  <2>1. request[u].pc = "sent" /\ Target(request[u]) = q
    BY <1>1, Zenon DEF BInv, SlotsHeld
  <2>2. request'[u] = request[u]
    BY <2>1
  <2> QED
    BY <2>1, <2>2, Zenon DEF Target
<1> QED
  BY <1>1, Zenon DEF BInv, SlotsHeld

\* A step of a request that is not out.
LEMMA RequestMoves ==
    ASSUME BInv, breaker' \in [Providers -> Good],
           \A q \in Providers : breaker'[q].pending \subseteq breaker[q].pending,
           NEW t \in Threads, request[t].pc # "sent",
           NEW r \in RequestRecords, Set(t, r)
    PROVE  BInv'
<1>1. /\ request' \in [Threads -> RequestRecords]
      /\ \A u \in Threads : u # t => request'[u] = request[u]
  BY Zenon DEF BInv, Set
<1> QED
  BY <1>1, SlotsStay, Zenon

\* A step of a request that was out, and whose answer its breaker has.
LEMMA RequestReturns ==
    ASSUME BInv, breaker' \in [Providers -> Good],
           \A q \in Providers : breaker'[q].pending \subseteq breaker[q].pending,
           NEW t \in Threads,
           Target(request[t]) \in Providers => t \notin breaker'[Target(request[t])].pending,
           NEW r \in RequestRecords, Set(t, r)
    PROVE  BInv'
<1>1. /\ request' \in [Threads -> RequestRecords]
      /\ \A u \in Threads : u # t => request'[u] = request[u]
  BY Zenon DEF BInv, Set
<1>2. ASSUME NEW q \in Providers, NEW u \in Threads, u \in breaker'[q].pending
      PROVE  request'[u].pc = "sent" /\ Target(request[u])' = q
  <2>1. request[u].pc = "sent" /\ Target(request[u]) = q
    BY <1>2, Zenon DEF BInv, SlotsHeld
  <2>2. u # t
    BY <1>2, <2>1, Zenon
  <2> QED
    BY <1>1, <2>1, <2>2, Zenon DEF Target
<1> QED
  BY <1>1, <1>2, Zenon DEF BInv, SlotsHeld

\* A request that passes its breaker takes a place there.
LEMMA RequestLeaves ==
    ASSUME BInv, breaker' \in [Providers -> Good], NEW t \in Threads,
           request[t].pc # "sent",
           NEW p, p = Target(request[t]),
           \A q \in Providers :
               \A u \in breaker'[q].pending :
                   u \in breaker[q].pending \/ (q = p /\ u = t),
           Set(t, [request[t] EXCEPT !.pc = "sent"])
    PROVE  BInv'
<1> DEFINE r == [request[t] EXCEPT !.pc = "sent"]
<1>1. request[t] \in RequestRecords
  BY DEF BInv
<1>2. /\ r \in RequestRecords /\ r.pc = "sent"
      /\ r.at = request[t].at /\ r.down = request[t].down
  BY <1>1 DEF RequestRecords
<1>3. Set(t, r)
  OBVIOUS
<1> HIDE DEF r
<1>4. /\ request' \in [Threads -> RequestRecords]
      /\ request'[t] = r
      /\ \A u \in Threads : u # t => request'[u] = request[u]
  BY <1>2, <1>3, Zenon DEF BInv, Set
<1>5. ASSUME NEW q \in Providers, NEW u \in Threads, u \in breaker'[q].pending
      PROVE  request'[u].pc = "sent" /\ Target(request[u])' = q
  <2>1. CASE u = t
    <3>1. t \notin breaker[q].pending
      BY Zenon DEF BInv, SlotsHeld
    <3>2. q = p
      BY <1>5, <2>1, <3>1
    <3> QED
      BY <1>2, <1>4, <2>1, <3>2, Zenon DEF Target
  <2>2. CASE u # t
    <3>1. request[u].pc = "sent" /\ Target(request[u]) = q
      BY <1>5, <2>2, Zenon DEF BInv, SlotsHeld
    <3> QED
      BY <1>4, <2>2, <3>1, Zenon DEF Target
  <2> QED
    BY <2>1, <2>2
<1> QED
  BY <1>4, <1>5, Zenon DEF BInv, SlotsHeld

LEMMA Undecided == \A p : Answers(p) \in BOOLEAN
BY DEF Answers

\* The records that the steps of a request make.
LEMMA RequestFields ==
    ASSUME NEW r \in RequestRecords
    PROVE  /\ [Idle EXCEPT !.pc = "ask"] \in RequestRecords
           /\ Idle \in RequestRecords
           /\ [r EXCEPT !.pc = "read"] \in RequestRecords
           /\ \A y \in {"ok", "failed", "canceled"} :
                 [r EXCEPT !.pc = "report", !.result = y] \in RequestRecords
           /\ [r EXCEPT !.pc = "send", !.attempt = @ + 1] \in RequestRecords
           /\ r.at < Len(Candidates) =>
                 [r EXCEPT !.pc = "send", !.at = @ + 1, !.attempt = 1] \in RequestRecords
           /\ \A down \in SUBSET Providers :
                 /\ r.at < Len(Candidates) =>
                       [r EXCEPT !.pc = "ask", !.at = @ + 1, !.down = down]
                           \in RequestRecords
                 /\ [r EXCEPT !.pc = "send", !.at = 1, !.down = down] \in RequestRecords
<1>1. /\ 1 \in 1..Len(Candidates) /\ 1 \in Nat
      /\ r.at < Len(Candidates) => r.at + 1 \in 1..Len(Candidates)
      /\ r.attempt + 1 \in Nat
  BY CandidatesAre DEF RequestRecords
<1>2. Idle \in RequestRecords /\ [Idle EXCEPT !.pc = "ask"] \in RequestRecords
  BY <1>1 DEF RequestRecords, Idle
<1>3. [r EXCEPT !.pc = "read"] \in RequestRecords
  BY DEF RequestRecords
<1>4. ASSUME NEW y \in {"ok", "failed", "canceled"}
      PROVE  [r EXCEPT !.pc = "report", !.result = y] \in RequestRecords
  BY DEF RequestRecords
<1>5. [r EXCEPT !.pc = "send", !.attempt = @ + 1] \in RequestRecords
  BY <1>1, Zenon DEF RequestRecords
<1>6. ASSUME r.at < Len(Candidates)
      PROVE  [r EXCEPT !.pc = "send", !.at = @ + 1, !.attempt = 1] \in RequestRecords
  BY <1>1, <1>6, Zenon DEF RequestRecords
<1>7. ASSUME r.at < Len(Candidates), NEW down \in SUBSET Providers
      PROVE  [r EXCEPT !.pc = "ask", !.at = @ + 1, !.down = down] \in RequestRecords
  BY <1>1, <1>7, Zenon DEF RequestRecords
<1>8. ASSUME NEW down \in SUBSET Providers
      PROVE  [r EXCEPT !.pc = "send", !.at = 1, !.down = down] \in RequestRecords
  BY <1>1, Zenon DEF RequestRecords
<1> QED
  BY <1>2, <1>3, <1>4, <1>5, <1>6, <1>7, <1>8, Zenon

\* The verdict on a candidate is in.
LEMMA Resolving ==
    ASSUME BInv, breaker' \in [Providers -> Good],
           \A q \in Providers : breaker'[q].pending \subseteq breaker[q].pending,
           NEW t \in Threads, request[t].pc # "sent",
           NEW down \in SUBSET Providers, Resolved(t, down)
    PROVE  BInv'
<1>1. request[t] \in RequestRecords
  BY DEF BInv
<1>2. CASE request[t].at < Len(Candidates)
  <2>1. Set(t, [request[t] EXCEPT !.pc = "ask", !.at = @ + 1, !.down = down])
    BY <1>2, Zenon DEF Resolved
  <2> QED
    BY <1>1, <1>2, <2>1, RequestFields, RequestMoves, Zenon
<1>3. CASE ~(request[t].at < Len(Candidates))
  <2>1. Set(t, [request[t] EXCEPT !.pc = "send", !.at = 1, !.down = down])
    BY <1>3, Zenon DEF Resolved
  <2> QED
    BY <1>1, <2>1, RequestFields, RequestMoves, Zenon
<1> QED
  BY <1>2, <1>3

Keeps == BInv' /\ (Breakers!Next \/ UNCHANGED breaker)

\* Steps that leave the breakers alone, and move no request that is out.
LEMMA Untouched ==
    ASSUME BInv, breaker' = breaker
    PROVE  /\ breaker' \in [Providers -> Good]
           /\ \A q \in Providers : breaker'[q].pending \subseteq breaker[q].pending
           /\ request' = request => BInv'
<1>1. /\ breaker' \in [Providers -> Good]
      /\ \A q \in Providers : breaker'[q].pending \subseteq breaker[q].pending
  BY DEF BInv
<1>2. ASSUME request' = request PROVE BInv'
  BY <1>1, <1>2, SlotsStay DEF BInv
<1> QED
  BY <1>1, <1>2

\* A request on its way from the router to its answer.
LEMMA RequestStep ==
    ASSUME BInv, NEW t \in Threads,
           Arrive(t) \/ Step(t) \/ ClientLeaves(t)
    PROVE  Keeps
<1> DEFINE r == request[t]
           p == Target(r)
<1>1. r \in RequestRecords
  BY DEF BInv
<1>2. CASE Arrive(t)
  <2>1. breaker' = breaker /\ r.pc # "sent" /\ Set(t, [Idle EXCEPT !.pc = "ask"])
    BY <1>2 DEF Arrive
  <2> QED
    BY <1>1, <2>1, Untouched, RequestFields, RequestMoves DEF Keeps
<1>3. CASE AskBreaker(t)
  <2> DEFINE c == Candidates[r.at]
  <2>1. Breakers!Ask(c) /\ r.pc # "sent"
    BY <1>3 DEF AskBreaker
  <2>2. Allowed /\ \A q \in Providers : breaker'[q].pending \subseteq breaker[q].pending
    BY <2>1, Asking
  <2>3. r.down \cup {c} \in SUBSET Providers
    BY <1>1, CandidatesAre DEF RequestRecords
  <2>4. Set(t, [r EXCEPT !.pc = "read"]) \/ Resolved(t, r.down \cup {c})
    BY <1>3, Zenon DEF AskBreaker
  <2>5. BInv'
    BY <1>1, <2>1, <2>2, <2>3, <2>4, RequestFields, RequestMoves, Resolving, Zenon
       DEF Allowed
  <2> QED
    BY <2>2, <2>5, Zenon DEF Keeps, Allowed
<1>4. CASE ReadStatus(t)
  <2> DEFINE c == Candidates[r.at]
             down == r.down \cup (IF status[c] THEN {} ELSE {c})
  <2>1. breaker' = breaker /\ r.pc # "sent" /\ Resolved(t, down)
    BY <1>4 DEF ReadStatus
  <2>2. down \in SUBSET Providers
    BY <1>1, CandidatesAre DEF RequestRecords
  <2> HIDE DEF down
  <2>3. BInv'
    BY <2>1, <2>2, Untouched, Resolving
  <2> QED
    BY <2>1, <2>3 DEF Keeps
<1>5. CASE GetBreaker(t)
  <2>1. Breakers!Appear(p) /\ request' = request
    BY <1>5 DEF GetBreaker
  <2>2. Allowed /\ \A q \in Providers : breaker'[q].pending \subseteq breaker[q].pending
    BY <2>1, Appearing
  <2>3. BInv'
    BY <2>1, <2>2, SlotsStay DEF Allowed, BInv
  <2> QED
    BY <2>2, <2>3, Zenon DEF Keeps, Allowed
<1>6. CASE Send(t)
  <2>1. r.pc # "sent"
    BY <1>6 DEF Send
  <2>2. CASE Breakers!Admit(p, t) /\ Set(t, [r EXCEPT !.pc = "sent"])
    <3>1. /\ Allowed
          /\ \A q \in Providers :
                \A u \in breaker'[q].pending :
                    u \in breaker[q].pending \/ (q = p /\ u = t)
      BY <2>2, Admitting, Zenon
    <3>2. BInv'
      BY <2>1, <2>2, <3>1, RequestLeaves, Zenon DEF Allowed
    <3> QED
      BY <3>1, <3>2, Zenon DEF Keeps, Allowed
  <2>3. CASE /\ Breakers!Ask(p)
             /\ Set(t, [r EXCEPT !.pc = "report", !.result = "failed"])
    <3>1. Allowed /\ \A q \in Providers : breaker'[q].pending \subseteq breaker[q].pending
      BY <2>3, Asking
    <3>2. BInv'
      BY <1>1, <2>1, <2>3, <3>1, RequestFields, RequestMoves DEF Allowed
    <3> QED
      BY <3>1, <3>2, Zenon DEF Keeps, Allowed
  <2> QED
    BY <1>6, <2>2, <2>3, Zenon DEF Send
<1>7. ASSUME NEW success \in BOOLEAN, NEW y \in {"ok", "failed", "canceled"},
             Breakers!Answer(p, t, success),
             Set(t, [r EXCEPT !.pc = "report", !.result = y])
      PROVE  Keeps
  <2>1. /\ Allowed
        /\ \A q \in Providers : breaker'[q].pending \subseteq breaker[q].pending
        /\ p \in Providers => t \notin breaker'[p].pending
    BY <1>7, AnswerArrives, Zenon
  <2>2. [r EXCEPT !.pc = "report", !.result = y] \in RequestRecords
    BY <1>1, RequestFields, Zenon
  <2>3. BInv'
    BY <1>7, <2>1, <2>2, RequestReturns, Zenon DEF Allowed
  <2> QED
    BY <2>1, <2>3, Zenon DEF Keeps, Allowed
<1>8. CASE Return(t)
  <2>1. /\ Breakers!Answer(p, t, Answers(p))
        /\ Set(t, [r EXCEPT !.pc = "report",
                      !.result = IF Answers(p) THEN "ok" ELSE "failed"])
    BY <1>8, Zenon DEF Return
  <2>2. (IF Answers(p) THEN "ok" ELSE "failed") \in {"ok", "failed", "canceled"}
    OBVIOUS
  <2> QED
    BY <1>7, <2>1, <2>2, Undecided, Zenon
<1>9. CASE ClientLeaves(t)
  <2>1. /\ Breakers!Answer(p, t, FALSE)
        /\ Set(t, [r EXCEPT !.pc = "report", !.result = "canceled"])
    BY <1>9, Zenon DEF ClientLeaves
  <2> QED
    BY <1>7, <2>1, Zenon
<1>10. CASE Report(t)
  <2>1. breaker' = breaker /\ r.pc # "sent"
    BY <1>10 DEF Report
  <2>2. PICK q \in RequestRecords : Set(t, q)
    <3>1. CASE Set(t, Idle)
      BY <1>1, <3>1, RequestFields, Zenon
    <3>2. CASE /\ r.at < Len(Candidates)
               /\ Set(t, [r EXCEPT !.pc = "send", !.at = @ + 1, !.attempt = 1])
      BY <1>1, <3>2, RequestFields, Zenon
    <3>3. CASE Set(t, [r EXCEPT !.pc = "send", !.attempt = @ + 1])
      BY <1>1, <3>3, RequestFields, Zenon
    <3> QED
      BY <1>10, <3>1, <3>2, <3>3, Zenon DEF Report
  <2>3. BInv'
    BY <2>1, <2>2, Untouched, RequestMoves, Zenon
  <2> QED
    BY <2>1, <2>3 DEF Keeps
<1> QED
  BY <1>2, <1>3, <1>4, <1>5, <1>6, <1>8, <1>9, <1>10 DEF Step

\* Every step of the gateway is one of the contract or leaves the breakers
\* alone, and keeps the invariant.
LEMMA StepKeeps ==
    ASSUME BInv, [Next]_vars
    PROVE  Keeps
<1>1. CASE UNCHANGED vars
  BY <1>1, Untouched DEF vars, Keeps
<1>2. ASSUME breaker' = breaker, request' = request PROVE Keeps
  BY <1>2, Untouched DEF Keeps
<1>3. ASSUME NEW p \in Providers, UpstreamChanges(p) \/ Probe(p) PROVE Keeps
  BY <1>2, <1>3 DEF UpstreamChanges, Probe
<1>4. CASE ReadyCopy
  BY <1>2, <1>4 DEF ReadyCopy
<1>5. CASE ReadyOverlay
  <2>1. Breakers!Ask(Candidates[ready.at]) /\ request' = request
    BY <1>5 DEF ReadyOverlay
  <2>2. Allowed /\ \A q \in Providers : breaker'[q].pending \subseteq breaker[q].pending
    BY <2>1, Asking
  <2>3. BInv'
    BY <2>1, <2>2, SlotsStay DEF Allowed, BInv
  <2> QED
    BY <2>2, <2>3, Zenon DEF Keeps, Allowed
<1> QED
  BY <1>1, <1>3, <1>4, <1>5, RequestStep, Zenon DEF Next

LEMMA BreakersInitially == Init => BInv /\ Breakers!Init
<1> SUFFICES ASSUME Init PROVE BInv /\ Breakers!Init
  OBVIOUS
<1>1. Breakers!Init
  BY DEF Init
<1>2. breaker = [p \in Providers |-> Breakers!Period("none")]
  BY <1>1 DEF Breakers!Init
<1>3. Breakers!Period("none") \in Good /\ Breakers!Period("none").pending = {}
  BY NewPeriod
<1>4. breaker \in [Providers -> Good] /\ \A p \in Providers : breaker[p].pending = {}
  BY <1>2, <1>3, Zenon
<1>5. Idle \in RequestRecords /\ [Idle EXCEPT !.pc = "absent"] \in RequestRecords
  BY CandidatesAre DEF Idle, RequestRecords
<1>6. request \in [Threads -> RequestRecords]
  <2>1. PICK cast \in Casts :
            request = [t \in Threads |->
                IF t \in cast THEN Idle ELSE [Idle EXCEPT !.pc = "absent"]]
    BY DEF Init
  <2> QED
    BY <1>5, <2>1
<1> QED
  BY <1>1, <1>4, <1>6, Zenon DEF BInv, SlotsHeld

\* The gateway uses its breakers as their contract allows: whatever router,
\* retry loop, probes and the readiness endpoint do, the breakers behave as
\* module CircuitBreaker is shown to make them behave.
THEOREM GatewayKeepsContract == Spec => Breakers!Spec
<1>1. BInv /\ [Next]_vars => BInv' /\ [Breakers!Next]_breaker
  BY StepKeeps DEF Keeps
<1> QED
  BY <1>1, BreakersInitially, PTL DEF Spec, Breakers!Spec

\* A place in a breaker's trial is never lost: whoever holds one is a request
\* that has passed the breaker and whose answer is still to come, also after
\* retries, failovers and clients that left (RoundTrip of transport.go, called
\* by the loop of proxy.go).  And they are never more than the trial allows.
THEOREM PlacesHeld == Spec => [](SlotsHeld /\ Breakers!TrialLimit)
<1>1. BInv /\ [Next]_vars => BInv'
  BY StepKeeps DEF Keeps
<1>2. BInv => SlotsHeld /\ Breakers!TrialLimit
  BY ContractCounts DEF BInv, Good, Within, Breakers!TrialLimit
<1> QED
  BY <1>1, <1>2, BreakersInitially, PTL DEF Spec

=============================================================================
