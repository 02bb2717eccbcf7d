------------------------ MODULE CircuitBreakerProofs ------------------------
(***************************************************************************)
(* The breakers' counts are exact, they trip in time, the gauge shows      *)
(* their state, and they keep their contract: for every set of keys, every *)
(* number of concurrent requests, and all settings.                        *)
(***************************************************************************)
EXTENDS CircuitBreaker, FiniteSetTheorems, TLAPS

-----------------------------------------------------------------------------
(* One breaker of which n requests are in flight.                          *)

Sound(b, n) ==
    /\ b.requests = b.successes + b.failures + n
    /\ b.state = "half-open" => b.failures = 0 /\ ~b.expired
    /\ b.state = "open" => b.requests = 0
    /\ BelowRatio(b)

\* The same key in a new period.
Fresh(b, c, state) ==
    /\ c.key = b.key /\ c.state = state
    /\ c.generation = b.generation + 1
    /\ c.requests = 0 /\ c.successes = 0 /\ c.failures = 0
    /\ c.expired = FALSE

\* setState starts a period without counts.
LEMMA NewGenerationFacts ==
    ASSUME NEW b \in Breaker, NEW state \in States
    PROVE  /\ NewGeneration(b, state) \in Breaker
           /\ Fresh(b, NewGeneration(b, state), state)
<1>1. b.key \in Keys /\ b.generation \in Nat
  BY DEF Breaker
<1> QED
  BY <1>1 DEF NewGeneration, Breaker, Fresh

\* A look at the clock leaves the breaker alone or starts the next period.
LEMMA CurrentStateFacts ==
    ASSUME NEW b \in Breaker
    PROVE  /\ currentState(b) \in Breaker
           /\ \/ ~b.expired /\ currentState(b) = b
              \/ /\ b.expired
                 /\ Fresh(b, currentState(b),
                          IF b.state = "open" THEN "half-open" ELSE "closed")
<1>1. b.expired \in BOOLEAN
  BY DEF Breaker
<1>2. CASE b.expired
  BY <1>2, NewGenerationFacts DEF currentState, States
<1>3. CASE ~b.expired
  BY <1>3 DEF currentState
<1> QED
  BY <1>1, <1>2, <1>3

\* A new period is sound with nothing in flight.
LEMMA FreshSound ==
    ASSUME NEW b \in Breaker, NEW c \in Breaker, NEW state \in States,
           Fresh(b, c, state)
    PROVE  Sound(c, 0)
BY DEF Fresh, Sound, BelowRatio, Breaker

\* A request more, and one more in flight.
LEMMA AdmitSound ==
    ASSUME NEW c \in Breaker, NEW n \in Nat, Sound(c, n), admits(c)
    PROVE  /\ [c EXCEPT !.requests = @ + 1] \in Breaker
           /\ Sound([c EXCEPT !.requests = @ + 1], n + 1)
<1> DEFINE d == [c EXCEPT !.requests = @ + 1]
<1>1. /\ d \in Breaker /\ d.requests = c.requests + 1 /\ d.state = c.state
      /\ d.successes = c.successes /\ d.failures = c.failures
      /\ d.expired = c.expired
  BY DEF Breaker
<1>2. c.requests \in Nat /\ c.failures \in Nat /\ c.successes \in Nat
  BY DEF Breaker
<1>3. c.state # "open"
  BY DEF admits
<1> HIDE DEF d
<1>4. RatioNum * (c.requests + 1) = RatioNum * c.requests + RatioNum
  BY <1>2, BreakerAssumption
<1>5. /\ RatioNum * c.requests \in Int /\ c.failures * RatioDen \in Int
      /\ RatioNum \in Nat
  BY <1>2, BreakerAssumption
<1>6. d.state = "closed" /\ d.failures > 0 /\ d.failures >= MinimumRequests
         => d.failures * RatioDen < RatioNum * d.requests
  BY <1>1, <1>4, <1>5 DEF Sound, BelowRatio
<1> QED
  BY <1>1, <1>2, <1>3, <1>6 DEF Sound, BelowRatio, d

-----------------------------------------------------------------------------
(* What afterRequest makes of a breaker that waits for the answer.         *)

\* A success counts, or is the last one the trial needs.
LEMMA SuccessFacts ==
    ASSUME NEW c \in Breaker, NEW n \in Nat, Sound(c, n + 1), c.state # "open"
    PROVE  LET d == onSuccess(c)
           IN  /\ d \in Breaker
               /\ \/ /\ d = [c EXCEPT !.successes = @ + 1]
                     /\ Sound(d, n)
                     /\ c.state = "half-open" => c.successes + 1 < MaxHalfOpenRequests
                  \/ /\ Fresh(c, d, "closed") /\ c.state = "half-open"
                     /\ c.successes + 1 >= MaxHalfOpenRequests
<1> DEFINE e == [c EXCEPT !.successes = @ + 1]
<1>1. /\ e \in Breaker /\ e.successes = c.successes + 1 /\ e.state = c.state
      /\ e.key = c.key /\ e.generation = c.generation /\ e.requests = c.requests
      /\ e.failures = c.failures /\ e.expired = c.expired
  BY DEF Breaker
<1>2. /\ c.requests \in Nat /\ c.failures \in Nat /\ c.successes \in Nat
      /\ MaxHalfOpenRequests \in Nat
  BY BreakerAssumption DEF Breaker
<1>3. onSuccess(c) = IF c.state = "half-open" /\ e.successes >= MaxHalfOpenRequests
                     THEN NewGeneration(e, "closed") ELSE e
  BY DEF onSuccess
<1> HIDE DEF e
<1>4. Sound(e, n)
  BY <1>1, <1>2 DEF Sound, BelowRatio
<1>5. CASE c.state = "half-open" /\ e.successes >= MaxHalfOpenRequests
  <2>1. NewGeneration(e, "closed") \in Breaker /\ Fresh(e, NewGeneration(e, "closed"), "closed")
    BY <1>1, NewGenerationFacts DEF States
  <2> QED
    BY <1>1, <1>3, <1>5, <2>1 DEF Fresh
<1>6. CASE ~(c.state = "half-open" /\ e.successes >= MaxHalfOpenRequests)
  <2>1. onSuccess(c) = e
    BY <1>3, <1>6
  <2>2. c.state = "half-open" => c.successes + 1 < MaxHalfOpenRequests
    BY <1>1, <1>2, <1>6
  <2> QED
    BY <1>1, <1>4, <2>1, <2>2 DEF e
<1> QED
  BY <1>5, <1>6

\* A failure counts, or opens the breaker.
LEMMA FailureFacts ==
    ASSUME NEW c \in Breaker, NEW n \in Nat, Sound(c, n + 1), c.state # "open"
    PROVE  LET d == onFailure(c)
           IN  /\ d \in Breaker
               /\ \/ /\ d = [c EXCEPT !.failures = @ + 1]
                     /\ Sound(d, n) /\ c.state = "closed"
                  \/ Fresh(c, d, "open")
<1> DEFINE e == [c EXCEPT !.failures = @ + 1]
<1>1. /\ e \in Breaker /\ e.failures = c.failures + 1 /\ e.state = c.state
      /\ e.key = c.key /\ e.generation = c.generation /\ e.requests = c.requests
      /\ e.successes = c.successes /\ e.expired = c.expired
  BY DEF Breaker
<1>2. /\ c.requests \in Nat /\ c.failures \in Nat /\ c.successes \in Nat
      /\ c.state \in States
  BY DEF Breaker
<1>3. onFailure(c) = IF c.state = "half-open" \/ ReadyToTrip(e)
                     THEN NewGeneration(e, "open") ELSE e
  BY DEF onFailure
<1> HIDE DEF e
<1>4. CASE c.state = "half-open" \/ ReadyToTrip(e)
  <2>1. NewGeneration(e, "open") \in Breaker /\ Fresh(e, NewGeneration(e, "open"), "open")
    BY <1>1, NewGenerationFacts DEF States
  <2> QED
    BY <1>1, <1>3, <1>4, <2>1 DEF Fresh
<1>5. CASE ~(c.state = "half-open" \/ ReadyToTrip(e))
  <2>1. onFailure(c) = e /\ c.state = "closed"
    BY <1>2, <1>3, <1>5 DEF States
  <2>2. e.requests = e.successes + e.failures + n
    BY <1>1, <1>2 DEF Sound
  <2>3. e.failures * RatioDen \in Int /\ RatioNum * e.requests \in Int
    BY <1>1, <1>2, BreakerAssumption
  <2>4. e.failures > 0 /\ e.failures >= MinimumRequests
           => e.failures * RatioDen < RatioNum * e.requests
    <3>1. SUFFICES ASSUME e.failures > 0, e.failures >= MinimumRequests
                   PROVE  e.failures * RatioDen < RatioNum * e.requests
      OBVIOUS
    <3>2. e.requests >= MinimumRequests /\ e.requests # 0
      BY <1>1, <1>2, <2>2, <3>1, BreakerAssumption
    <3>3. ~(e.failures * RatioDen >= RatioNum * e.requests)
      BY <1>5, <3>2 DEF ReadyToTrip
    <3> QED
      BY <2>3, <3>3
  <2>5. Sound(e, n)
    BY <1>1, <2>1, <2>2, <2>4 DEF Sound, BelowRatio
  <2> QED
    BY <1>1, <2>1, <2>5 DEF e
<1> QED
  BY <1>4, <1>5

-----------------------------------------------------------------------------
(* The inductive invariant.                                                *)

Sent(th, i, g) ==
    {t \in Threads : th[t].pc = "sent" /\ th[t].cb = i /\ th[t].generation = g}

\* A key and its breaker know each other.
MapOK ==
    /\ \A k \in Keys : cbMap[k] # 0 => breakers[cbMap[k]].key = k
    /\ \A i \in 1..Len(breakers) : cbMap[breakers[i].key] = i

\* A request works on the breaker of its key, in a generation that has begun.
RequestOK(r, map, bs) ==
    /\ r.pc \in {"before", "sent"} => r.cb # 0 /\ r.cb = map[r.key]
    /\ r.pc = "sent" => r.generation <= bs[r.cb].generation

ThreadsOK == \A t \in Threads : RequestOK(thread[t], cbMap, breakers)

AllSound ==
    \A i \in 1..Len(breakers) :
        Sound(breakers[i], Cardinality(Sent(thread, i, breakers[i].generation)))

IInv == TypeOK /\ MapOK /\ ThreadsOK /\ AllSound /\ GaugeShowsState

\* The threads are finitely many, so their subsets have a size.
LEMMA SentFinite ==
    ASSUME NEW th, NEW i, NEW g
    PROVE  IsFiniteSet(Sent(th, i, g)) /\ Cardinality(Sent(th, i, g)) \in Nat
<1>1. Sent(th, i, g) \subseteq Threads
  BY DEF Sent
<1> QED
  BY <1>1, FS_Subset, FS_CardinalityType, BreakerAssumption

LEMMA InFlightIsSent ==
    \A i : InFlight(i) = Sent(thread, i, breakers[i].generation)
BY DEF InFlight, Sent

LEMMA BreakerType ==
    ASSUME TypeOK, NEW i \in 1..Len(breakers)
    PROVE  /\ breakers[i] \in Breaker /\ breakers[i].key \in Keys
           /\ breakers[i].generation \in Nat /\ breakers[i].state \in States
<1>1. breakers \in Seq(Breaker)
  BY DEF TypeOK
<1>2. breakers[i] \in Breaker
  BY <1>1
<1> QED
  BY <1>2 DEF Breaker

\* No request belongs to a generation that has not begun.
LEMMA NothingSentYet ==
    ASSUME IInv, NEW i \in 1..Len(breakers), NEW g \in Nat,
           g > breakers[i].generation
    PROVE  Sent(thread, i, g) = {}
<1>1. breakers[i].generation \in Nat
  BY BreakerType DEF IInv
<1>2. ASSUME NEW t \in Sent(thread, i, g) PROVE FALSE
  <2>1. /\ t \in Threads /\ thread[t].pc = "sent" /\ thread[t].cb = i
        /\ thread[t].generation = g
    BY <1>2 DEF Sent
  <2>2. thread[t].generation <= breakers[thread[t].cb].generation
    BY <2>1 DEF IInv, ThreadsOK, RequestOK
  <2> QED
    BY <1>1, <2>1, <2>2
<1> QED
  BY <1>2

\* Looking at the clock keeps a breaker sound, with what is then in flight.
LEMMA LookSound ==
    ASSUME IInv, NEW i \in 1..Len(breakers), NEW c, c = currentState(breakers[i])
    PROVE  /\ c \in Breaker /\ c.key = breakers[i].key
           /\ c.generation >= breakers[i].generation
           /\ Sound(c, Cardinality(Sent(thread, i, c.generation)))
           /\ \/ c = breakers[i]
              \/ /\ Sent(thread, i, c.generation) = {}
                 /\ c.successes = 0
                 /\ \/ breakers[i].state = "open" /\ c.state = "half-open"
                    \/ breakers[i].state = "closed" /\ c.state = "closed"
<1> DEFINE b == breakers[i]
<1>1. b \in Breaker /\ b.generation \in Nat /\ b.state \in States
  BY BreakerType DEF IInv
<1>2. Sound(b, Cardinality(Sent(thread, i, b.generation)))
  BY DEF IInv, AllSound
<1> HIDE DEF b
<1>3. CASE ~b.expired /\ c = b
  BY <1>1, <1>2, <1>3 DEF b
<1>4. CASE /\ b.expired
           /\ Fresh(b, c, IF b.state = "open" THEN "half-open" ELSE "closed")
  <2>0. c \in Breaker
    BY <1>1, CurrentStateFacts DEF b
  <2>1. /\ c.key = b.key /\ c.generation = b.generation + 1 /\ c.successes = 0
        /\ c.state = IF b.state = "open" THEN "half-open" ELSE "closed"
    BY <1>4 DEF Fresh
  <2>2. Sent(thread, i, c.generation) = {}
    BY <1>1, <2>1, NothingSentYet DEF b
  <2>3. Cardinality(Sent(thread, i, c.generation)) = 0
    BY <2>2, FS_EmptySet
  <2>4. (IF b.state = "open" THEN "half-open" ELSE "closed") \in States
    BY DEF States
  <2>5. Sound(c, 0)
    BY <1>1, <1>4, <2>0, <2>4, FreshSound
  <2>6. b.state # "half-open"
    BY <1>2, <1>4 DEF Sound
  <2>7. b.state = "open" \/ b.state = "closed"
    BY <1>1, <2>6 DEF States
  <2> QED
    BY <1>1, <2>0, <2>1, <2>2, <2>3, <2>5, <2>7 DEF b
<1> QED
  BY <1>1, <1>3, <1>4, CurrentStateFacts DEF b

-----------------------------------------------------------------------------
(* A step that replaces one breaker, and what it needs of the requests.    *)

\* A breaker of the map in the terms of the contract.
Shown(b, pending) ==
    [state |-> b.state, pending |-> pending,
     successes |-> IF b.state = "half-open" THEN b.successes ELSE 0]

LEMMA ShownWithout ==
    ASSUME NEW b, NEW S, NEW t
    PROVE  [Shown(b, S) EXCEPT !.pending = @ \ {t}] = Shown(b, S \ {t})
<1> DEFINE n == IF b.state = "half-open" THEN b.successes ELSE 0
<1>1. ASSUME NEW T
      PROVE  Shown(b, T) = [state |-> b.state, pending |-> T, successes |-> n]
  BY DEF Shown
<1> HIDE DEF n
<1>2. [[state |-> b.state, pending |-> S, successes |-> n] EXCEPT !.pending = @ \ {t}]
         = [state |-> b.state, pending |-> S \ {t}, successes |-> n]
  OBVIOUS
<1> QED
  BY <1>1, <1>2, Zenon

\* The contract counts as FiniteSets does.
LEMMA ContractCounts ==
    ASSUME NEW S
    PROVE  Contract!Cardinality(S) = Cardinality(S)
BY Zenon DEF Contract!Cardinality, Cardinality

LEMMA PeriodShown ==
    ASSUME NEW k \in Keys, cbMap[k] # 0
    PROVE  period(k) = Shown(breakers[cbMap[k]],
                             Sent(thread, cbMap[k], breakers[cbMap[k]].generation))
BY InFlightIsSent DEF period, Shown

\* The sequence after the step.
LEMMA UpdatedBreakers ==
    ASSUME TypeOK, NEW i \in 1..Len(breakers), NEW d \in Breaker, Update(i, d)
    PROVE  /\ breakers' \in Seq(Breaker) /\ Len(breakers') = Len(breakers)
           /\ breakers'[i] = d
           /\ \A j \in 1..Len(breakers) : j # i => breakers'[j] = breakers[j]
<1>1. breakers \in Seq(Breaker)
  BY DEF TypeOK
<1>2. breakers' = [breakers EXCEPT ![i] = d]
  BY DEF Update
<1> QED
  BY <1>1, <1>2

\* Generations only grow, so the requests stay in order.
LEMMA RequestsStayOK ==
    ASSUME IInv, NEW i \in 1..Len(breakers), NEW d \in Breaker, Update(i, d),
           d.generation >= breakers[i].generation, NEW t \in Threads
    PROVE  RequestOK(thread[t], cbMap, breakers')
<1>1. /\ thread[t].cb \in 0..Len(breakers) /\ thread[t].generation \in Nat
      /\ RequestOK(thread[t], cbMap, breakers)
  BY DEF IInv, TypeOK, Request, ThreadsOK
<1>2. \A j \in 1..Len(breakers) : breakers[j].generation \in Nat
  BY BreakerType DEF IInv
<1>3. d.generation \in Nat
  BY DEF Breaker
<1>4. \A j \in 1..Len(breakers) : breakers'[j].generation >= breakers[j].generation
                                   /\ breakers'[j].generation \in Nat
  BY <1>2, <1>3, UpdatedBreakers DEF IInv
<1>5. ASSUME thread[t].pc = "sent"
      PROVE  thread[t].generation <= breakers'[thread[t].cb].generation
  <2>1. /\ thread[t].cb # 0
        /\ thread[t].generation <= breakers[thread[t].cb].generation
    BY <1>1, <1>5 DEF RequestOK
  <2>2. PICK j \in 1..Len(breakers) : j = thread[t].cb
    BY <1>1, <2>1
  <2>3. QED
    BY <1>1, <1>2, <1>4, <2>1, <2>2
<1> QED
  BY <1>1, <1>5, Zenon DEF RequestOK

LEMMA UpdateKeeps ==
    ASSUME IInv, NEW i \in 1..Len(breakers), NEW d \in Breaker,
           Update(i, d), cbMap' = cbMap,
           d.key = breakers[i].key,
           thread' \in [Threads -> Request(Len(breakers))],
           \A t \in Threads : RequestOK(thread'[t], cbMap, breakers'),
           Sound(d, Cardinality(Sent(thread', i, d.generation))),
           \A j \in 1..Len(breakers) : \A g :
               j # i => Sent(thread', j, g) = Sent(thread, j, g)
    PROVE  IInv'
<1>1. /\ breakers' \in Seq(Breaker) /\ Len(breakers') = Len(breakers)
      /\ breakers'[i] = d
      /\ \A j \in 1..Len(breakers) : j # i => breakers'[j] = breakers[j]
  BY UpdatedBreakers DEF IInv
<1>2. d.key \in Keys /\ d.state \in States
  BY DEF Breaker
<1>3. /\ cbMap \in [Keys -> 0..Len(breakers)]
      /\ gauge \in [Keys -> States \cup {"none"}]
      /\ \A k \in Keys : cbMap[k] # 0 => breakers[cbMap[k]].key = k
      /\ \A j \in 1..Len(breakers) : cbMap[breakers[j].key] = j
  BY DEF IInv, TypeOK, MapOK
<1>4. gauge' = IF d.state # breakers[i].state
               THEN [gauge EXCEPT ![d.key] = d.state] ELSE gauge
  BY DEF Update
<1>5. gauge' \in [Keys -> States \cup {"none"}]
  BY <1>2, <1>3, <1>4
<1>6. TypeOK'
  BY <1>1, <1>3, <1>5 DEF TypeOK, Request
<1>7. MapOK'
  <2>1. \A j \in 1..Len(breakers) : breakers'[j].key = breakers[j].key
    BY <1>1
  <2>2. ASSUME NEW k \in Keys, cbMap'[k] # 0
        PROVE  breakers'[cbMap'[k]].key = k
    <3>1. cbMap[k] \in 1..Len(breakers) /\ breakers[cbMap[k]].key = k
      BY <1>3, <2>2
    <3> QED
      BY <2>1, <3>1
  <2>3. ASSUME NEW j \in 1..Len(breakers')
        PROVE  cbMap'[breakers'[j].key] = j
    <3>1. j \in 1..Len(breakers)
      BY <1>1
    <3> QED
      BY <1>3, <2>1, <3>1
  <2> QED
    BY <2>2, <2>3 DEF MapOK
<1>8. ThreadsOK'
  BY DEF ThreadsOK
<1>9. AllSound'
  <2>1. ASSUME NEW j \in 1..Len(breakers), j # i
        PROVE  Sound(breakers'[j], Cardinality(Sent(thread', j, breakers'[j].generation)))
    <3>1. breakers'[j] = breakers[j]
      BY <1>1, <2>1
    <3>2. Sent(thread', j, breakers[j].generation) = Sent(thread, j, breakers[j].generation)
      BY <2>1
    <3>3. Sound(breakers[j], Cardinality(Sent(thread, j, breakers[j].generation)))
      BY DEF IInv, AllSound
    <3> QED
      BY <3>1, <3>2, <3>3
  <2> QED
    BY <1>1, <2>1 DEF AllSound
<1>10. GaugeShowsState'
  <2>1. ASSUME NEW k \in Keys
        PROVE  gauge'[k] = IF cbMap[k] = 0 THEN "none" ELSE breakers'[cbMap[k]].state
    <3>1. gauge[k] = IF cbMap[k] = 0 THEN "none" ELSE breakers[cbMap[k]].state
      BY DEF IInv, GaugeShowsState
    <3>2. CASE k = d.key
      <4>1. cbMap[k] = i /\ i # 0
        BY <1>3, <3>2
      <4> QED
        BY <1>1, <1>3, <1>4, <3>1, <3>2, <4>1
    <3>3. CASE k # d.key
      <4>1. gauge'[k] = gauge[k]
        BY <1>2, <1>3, <1>4, <3>3
      <4>2. cbMap[k] # i
        BY <1>3, <3>3
      <4>3. cbMap[k] # 0 => breakers'[cbMap[k]] = breakers[cbMap[k]]
        BY <1>1, <1>3, <4>2
      <4> QED
        BY <3>1, <4>1, <4>3
    <3> QED
      BY <3>2, <3>3
  <2> QED
    BY <2>1 DEF GaugeShowsState
<1> QED
  BY <1>6, <1>7, <1>8, <1>9, <1>10 DEF IInv

\* In the contract the step replaces the period of one key.
LEMMA UpdateShown ==
    ASSUME IInv, NEW i \in 1..Len(breakers), NEW d \in Breaker,
           Update(i, d), cbMap' = cbMap, d.key = breakers[i].key,
           \A j \in 1..Len(breakers) : \A g :
               j # i => Sent(thread', j, g) = Sent(thread, j, g)
    PROVE  Contract!Becomes(d.key, Shown(d, Sent(thread', i, d.generation)))
<1> DEFINE s == Shown(d, Sent(thread', i, d.generation))
<1>1. /\ breakers'[i] = d
      /\ \A j \in 1..Len(breakers) : j # i => breakers'[j] = breakers[j]
  BY UpdatedBreakers DEF IInv
<1>2. /\ cbMap \in [Keys -> 0..Len(breakers)] /\ d.key \in Keys
      /\ \A k \in Keys : cbMap[k] # 0 => breakers[cbMap[k]].key = k
      /\ \A j \in 1..Len(breakers) : cbMap[breakers[j].key] = j
  BY Zenon DEF IInv, TypeOK, MapOK, Breaker
<1>3. period(d.key)' = s
  <2>1. cbMap[d.key] = i /\ i # 0
    BY <1>2
  <2>2. period(d.key)' = Shown(breakers'[i], Sent(thread', i, breakers'[i].generation))
    BY <2>1 DEF period, Shown, InFlight, Sent
  <2> QED
    BY <1>1, <2>2
<1>4. ASSUME NEW k \in Keys, k # d.key
      PROVE  period(k)' = period(k)
  <2>1. CASE cbMap[k] = 0
    BY <2>1 DEF period
  <2>2. CASE cbMap[k] # 0
    <3>1. cbMap[k] \in 1..Len(breakers) /\ cbMap[k] # i
      BY <1>2, <1>4, <2>2
    <3>2. breakers'[cbMap[k]] = breakers[cbMap[k]]
      BY <1>1, <3>1
    <3>3. period(k)' = Shown(breakers'[cbMap[k]],
                         Sent(thread', cbMap[k], breakers'[cbMap[k]].generation))
      BY <2>2 DEF period, Shown, InFlight, Sent
    <3>4. Sent(thread', cbMap[k], breakers[cbMap[k]].generation)
             = Sent(thread, cbMap[k], breakers[cbMap[k]].generation)
      BY <3>1
    <3> QED
      BY <2>2, <3>2, <3>3, <3>4, PeriodShown
  <2> QED
    BY <2>1, <2>2
<1> HIDE DEF s
<1>5. [k \in Keys |-> period(k)]' = [[k \in Keys |-> period(k)] EXCEPT ![d.key] = s]
  BY <1>2, <1>3, <1>4, Zenon
<1> QED
  BY <1>5 DEF Contract!Becomes, s

\* What a look at the clock finds is among what the contract lets it find.
LEMMA LookSeen ==
    ASSUME IInv, NEW i \in 1..Len(breakers), NEW c, c = currentState(breakers[i])
    PROVE  Shown(c, Sent(thread, i, c.generation))
              \in Contract!Seen(period(breakers[i].key))
<1> DEFINE k == breakers[i].key
           s == Shown(c, Sent(thread, i, c.generation))
<1>1. k \in Keys /\ cbMap[k] = i /\ i # 0
  BY BreakerType DEF IInv, MapOK
<1>2. period(k) = Shown(breakers[i], Sent(thread, i, breakers[i].generation))
  BY <1>1, PeriodShown
<1>3. CASE c = breakers[i]
  BY <1>2, <1>3 DEF Contract!Seen
<1>4. CASE /\ Sent(thread, i, c.generation) = {}
           /\ c.successes = 0
           /\ \/ breakers[i].state = "open" /\ c.state = "half-open"
              \/ breakers[i].state = "closed" /\ c.state = "closed"
  <2>1. s = Contract!Period(c.state)
    BY <1>4 DEF Shown, Contract!Period
  <2>2. period(k).state = breakers[i].state
    BY <1>2 DEF Shown
  <2> HIDE DEF s, k
  <2>3. s \in Contract!Seen(period(k))
    BY <1>4, <2>1, <2>2 DEF Contract!Seen
  <2> QED
    BY <2>3 DEF s, k
<1> QED
  BY <1>3, <1>4, LookSound

-----------------------------------------------------------------------------
(* Steps of one request.                                                   *)

\* A step in which t is no longer, or not yet, waiting for an answer.
LEMMA NotSent ==
    ASSUME NEW t \in Threads, thread'[t].pc # "sent",
           \A u \in Threads \ {t} : thread'[u] = thread[u], NEW i, NEW g
    PROVE  Sent(thread', i, g) = Sent(thread, i, g) \ {t}
BY DEF Sent

\* A step in which t is admitted.
LEMMA NowSent ==
    ASSUME NEW t \in Threads, thread[t].pc # "sent", thread'[t].pc = "sent",
           \A u \in Threads \ {t} : thread'[u] = thread[u], NEW i, NEW g
    PROVE  Sent(thread', i, g) =
              IF thread'[t].cb = i /\ thread'[t].generation = g
              THEN Sent(thread, i, g) \cup {t} ELSE Sent(thread, i, g)
BY DEF Sent

\* A step that moves requests only, none of them to or from "sent".
LEMMA RequestsOnly ==
    ASSUME IInv, UNCHANGED <<cbMap, breakers, gauge>>,
           thread' \in [Threads -> Request(Len(breakers))],
           \A t \in Threads : RequestOK(thread'[t], cbMap, breakers),
           \A i, g : Sent(thread', i, g) = Sent(thread, i, g)
    PROVE  IInv' /\ UNCHANGED [k \in Keys |-> period(k)]
<1>1. TypeOK'
  BY DEF IInv, TypeOK, Request
<1>2. MapOK' /\ GaugeShowsState'
  BY DEF IInv, MapOK, GaugeShowsState
<1>3. ThreadsOK'
  BY DEF ThreadsOK
<1>4. AllSound'
  BY DEF IInv, AllSound
<1>5. \A k \in Keys : period(k)' = period(k)
  <2>1. \A i : InFlight(i)' = Sent(thread', i, breakers[i].generation)
    BY DEF InFlight, Sent
  <2>2. \A i : InFlight(i)' = InFlight(i)
    BY <2>1, InFlightIsSent
  <2> QED
    BY <2>2 DEF period
<1> QED
  BY <1>1, <1>2, <1>3, <1>4, <1>5 DEF IInv

\* Every request but t is as it was.
LEMMA OthersOK ==
    ASSUME IInv, NEW t \in Threads, \A u \in Threads \ {t} : thread'[u] = thread[u],
           RequestOK(thread'[t], cbMap, breakers)
    PROVE  \A u \in Threads : RequestOK(thread'[u], cbMap, breakers)
BY DEF IInv, ThreadsOK

LEMMA IdleType ==
    /\ Idle.pc = "idle" /\ Idle.key \in Keys /\ Idle.cb = 0 /\ Idle.generation = 0
    /\ \A n \in Nat : Idle \in Request(n)
<1>1. (CHOOSE k \in Keys : TRUE) \in Keys
  BY BreakerAssumption
<1> QED
  BY <1>1 DEF Idle, Request

LEMMA LookupStep ==
    ASSUME IInv, NEW t \in Threads, Lookup(t)
    PROVE  IInv' /\ UNCHANGED [k \in Keys |-> period(k)]
<1>1. PICK k \in Keys : thread' = [thread EXCEPT ![t] =
                 [pc |-> IF cbMap[k] = 0 THEN "create" ELSE "before",
                  key |-> k, cb |-> cbMap[k], generation |-> 0]]
  BY Zenon DEF Lookup
<1> DEFINE r == [pc |-> IF cbMap[k] = 0 THEN "create" ELSE "before",
                 key |-> k, cb |-> cbMap[k], generation |-> 0]
<1>3. cbMap[k] \in 0..Len(breakers) /\ thread \in [Threads -> Request(Len(breakers))]
  BY DEF IInv, TypeOK
<1>4. r \in Request(Len(breakers)) /\ r.pc # "sent" /\ RequestOK(r, cbMap, breakers)
  BY <1>3 DEF Request, RequestOK
<1> HIDE DEF r
<1>5. /\ thread' \in [Threads -> Request(Len(breakers))] /\ thread'[t] = r
      /\ \A u \in Threads \ {t} : thread'[u] = thread[u]
  BY <1>1, <1>3, <1>4 DEF r
<1>6. \A i, g : Sent(thread', i, g) = Sent(thread, i, g)
  <2>1. thread[t].pc # "sent" /\ thread'[t].pc # "sent"
    BY <1>4, <1>5 DEF Lookup
  <2> QED
    BY <1>5, <2>1 DEF Sent
<1>7. \A u \in Threads : RequestOK(thread'[u], cbMap, breakers)
  BY <1>4, <1>5, OthersOK
<1>8. UNCHANGED <<cbMap, breakers, gauge>>
  BY DEF Lookup
<1> QED
  BY <1>5, <1>6, <1>7, <1>8, RequestsOnly

\* The first request of a key makes its breaker; the others find it.
LEMMA CreateStep ==
    ASSUME IInv, NEW t \in Threads, NEW k \in Keys, k = thread[t].key, Create(t)
    PROVE  IInv' /\ (UNCHANGED [j \in Keys |-> period(j)] \/ Contract!Appear(k))
<1> DEFINE n == Len(breakers) + 1
<1>1. /\ thread \in [Threads -> Request(Len(breakers))] /\ thread[t].pc = "create"
      /\ thread[t].cb \in 0..Len(breakers) /\ thread[t].generation \in Nat
      /\ cbMap \in [Keys -> 0..Len(breakers)] /\ breakers \in Seq(Breaker)
      /\ gauge \in [Keys -> States \cup {"none"}]
      /\ DOMAIN thread[t] = {"pc", "key", "cb", "generation"}
  BY DEF IInv, TypeOK, Request, Create
<1>2. CASE cbMap[k] # 0
  <2>1. /\ thread' = [thread EXCEPT ![t] = [thread[t] EXCEPT !.pc = "before",
                                                            !.cb = cbMap[k]]]
        /\ UNCHANGED <<cbMap, breakers, gauge>>
    BY <1>2, Zenon DEF Create
  <2> DEFINE r == [thread[t] EXCEPT !.pc = "before", !.cb = cbMap[k]]
  <2>2. /\ r \in Request(Len(breakers)) /\ r.pc = "before" /\ r.cb = cbMap[k]
        /\ r.key = k
    BY <1>1, Zenon DEF Request
  <2> HIDE DEF r
  <2>3. /\ thread' \in [Threads -> Request(Len(breakers))] /\ thread'[t] = r
        /\ \A u \in Threads \ {t} : thread'[u] = thread[u]
    BY <1>1, <2>1, <2>2 DEF r
  <2>4. RequestOK(thread'[t], cbMap, breakers)
    BY <1>2, <2>2, <2>3 DEF RequestOK
  <2>5. \A i, g : Sent(thread', i, g) = Sent(thread, i, g)
    <3>1. thread[t].pc # "sent" /\ thread'[t].pc # "sent"
      BY <1>1, <2>2, <2>3
    <3> QED
      BY <2>3, <3>1 DEF Sent
  <2>6. \A u \in Threads : RequestOK(thread'[u], cbMap, breakers)
    BY <2>3, <2>4, OthersOK
  <2> QED
    BY <2>1, <2>3, <2>5, <2>6, RequestsOnly, Zenon
<1>3. CASE cbMap[k] = 0
  <2> DEFINE new == NewCircuitBreaker(k)
  <2>1. /\ breakers' = Append(breakers, new)
        /\ cbMap' = [cbMap EXCEPT ![k] = n]
        /\ gauge' = [gauge EXCEPT ![k] = "closed"]
        /\ thread' = [thread EXCEPT ![t] = [thread[t] EXCEPT !.pc = "before", !.cb = n]]
    BY <1>3, Zenon DEF Create
  <2> DEFINE r == [thread[t] EXCEPT !.pc = "before", !.cb = n]
  <2>2. /\ r \in Request(n) /\ r.pc = "before" /\ r.cb = n /\ r.key = k
    <3>1. n \in 0..n
      BY <1>1
    <3> HIDE DEF n
    <3> QED
      BY <1>1, <3>1, Zenon DEF Request
  <2> HIDE DEF r
  <2>3. new \in Breaker /\ new.key = k /\ new.state = "closed" /\ new.generation = 1
    BY <1>1 DEF NewCircuitBreaker, Breaker, States
  <2>4. Sound(new, 0)
    BY BreakerAssumption DEF NewCircuitBreaker, Sound, BelowRatio
  <2> HIDE DEF new
  <2>5. /\ breakers' \in Seq(Breaker) /\ Len(breakers') = n /\ breakers'[n] = new
        /\ \A j \in 1..Len(breakers) : breakers'[j] = breakers[j]
    BY <1>1, <2>1, <2>3
  <2>6. /\ thread' \in [Threads -> Request(n)] /\ thread'[t] = r
        /\ \A u \in Threads \ {t} : thread'[u] = thread[u]
    <3>1. \A u \in Threads : thread[u] \in Request(n)
      BY <1>1 DEF Request
    <3> QED
      BY <1>1, <2>1, <2>2, <3>1 DEF r
  <2>7. /\ cbMap' \in [Keys -> 0..n] /\ cbMap'[k] = n
        /\ \A j \in Keys \ {k} : cbMap'[j] = cbMap[j]
    BY <1>1, <2>1
  <2>8. /\ gauge' \in [Keys -> States \cup {"none"}] /\ gauge'[k] = "closed"
        /\ \A j \in Keys \ {k} : gauge'[j] = gauge[j]
    BY <1>1, <2>1 DEF States
  <2>9. TypeOK'
    BY <2>5, <2>6, <2>7, <2>8 DEF TypeOK, Request
  <2>10. \A i \in 1..Len(breakers) : breakers[i].key \in Keys /\ breakers[i].key # k
    BY <1>3, BreakerType DEF IInv, MapOK
  <2>11. MapOK'
    <3>1. ASSUME NEW j \in Keys, cbMap'[j] # 0
          PROVE  breakers'[cbMap'[j]].key = j
      <4>1. CASE j = k
        BY <2>3, <2>5, <2>7, <4>1
      <4>2. CASE j # k
        <5>1. cbMap'[j] = cbMap[j] /\ cbMap[j] \in 1..Len(breakers)
          BY <1>1, <2>7, <3>1, <4>2
        <5>2. breakers[cbMap[j]].key = j
          BY <3>1, <5>1 DEF IInv, MapOK
        <5> QED
          BY <2>5, <5>1, <5>2
      <4> QED
        BY <4>1, <4>2
    <3>2. ASSUME NEW i \in 1..n
          PROVE  cbMap'[breakers'[i].key] = i
      <4>1. CASE i = n
        BY <2>3, <2>5, <2>7, <4>1
      <4>2. CASE i # n
        <5>1. i \in 1..Len(breakers)
          BY <1>1, <4>2
        <5>2. cbMap[breakers[i].key] = i
          BY <5>1 DEF IInv, MapOK
        <5> QED
          BY <2>5, <2>7, <2>10, <5>1, <5>2
      <4> QED
        BY <4>1, <4>2
    <3> QED
      BY <2>5, <3>1, <3>2 DEF MapOK
  <2>12. \A i, g : Sent(thread', i, g) = Sent(thread, i, g)
    <3>1. thread[t].pc # "sent" /\ thread'[t].pc # "sent"
      BY <1>1, <2>2, <2>6
    <3> QED
      BY <2>6, <3>1 DEF Sent
  <2>13. ThreadsOK'
    <3>1. RequestOK(thread'[t], cbMap', breakers')
      BY <1>1, <2>2, <2>6, <2>7 DEF RequestOK
    <3>2. ASSUME NEW u \in Threads \ {t}
          PROVE  RequestOK(thread[u], cbMap', breakers')
      <4>1. /\ thread[u].key \in Keys /\ thread[u].cb \in 0..Len(breakers)
            /\ RequestOK(thread[u], cbMap, breakers)
        BY DEF IInv, TypeOK, Request, ThreadsOK
      <4> QED
        BY <1>3, <2>5, <2>7, <4>1 DEF RequestOK
    <3> QED
      BY <2>6, <3>1, <3>2 DEF ThreadsOK
  <2>14. \A g : Sent(thread, n, g) = {}
    <3>1. \A u \in Threads : thread[u].cb # n
      BY <1>1 DEF Request
    <3> QED
      BY <3>1 DEF Sent
  <2>15. AllSound'
    <3>1. Sound(breakers'[n], Cardinality(Sent(thread', n, breakers'[n].generation)))
      BY <2>4, <2>5, <2>12, <2>14, FS_EmptySet, Zenon
    <3>2. ASSUME NEW i \in 1..Len(breakers)
          PROVE  Sound(breakers'[i], Cardinality(Sent(thread', i, breakers'[i].generation)))
      <4>1. Sound(breakers[i], Cardinality(Sent(thread, i, breakers[i].generation)))
        BY DEF IInv, AllSound
      <4> QED
        BY <2>5, <2>12, <4>1
    <3>3. \A i \in 1..n : i = n \/ i \in 1..Len(breakers)
      BY <1>1
    <3> QED
      BY <2>5, <3>1, <3>2, <3>3 DEF AllSound
  <2>16. GaugeShowsState'
    <3>1. ASSUME NEW j \in Keys
          PROVE  gauge'[j] = IF cbMap'[j] = 0 THEN "none" ELSE breakers'[cbMap'[j]].state
      <4>1. CASE j = k
        BY <1>1, <2>3, <2>5, <2>7, <2>8, <4>1
      <4>2. CASE j # k
        <5>1. gauge[j] = IF cbMap[j] = 0 THEN "none" ELSE breakers[cbMap[j]].state
          BY DEF IInv, GaugeShowsState
        <5>2. cbMap'[j] = cbMap[j] /\ gauge'[j] = gauge[j] /\ cbMap[j] \in 0..Len(breakers)
          BY <1>1, <2>7, <2>8, <4>2
        <5> QED
          BY <2>5, <5>1, <5>2
      <4> QED
        BY <4>1, <4>2
    <3> QED
      BY <3>1 DEF GaugeShowsState
  <2>17. Contract!Appear(k)
    <3>1. period(k) = Contract!Period("none")
      BY <1>3 DEF period, Contract!Period
    <3>2. period(k)' = Contract!Period("closed")
      <4>1. period(k)' = Shown(breakers'[n], Sent(thread', n, breakers'[n].generation))
        BY <1>1, <2>7 DEF period, Shown, InFlight, Sent
      <4>2. Sent(thread', n, breakers'[n].generation) = {}
        BY <2>12, <2>14
      <4> QED
        BY <2>3, <2>5, <4>1, <4>2, ZenonT(30) DEF Shown, Contract!Period
    <3>3. ASSUME NEW j \in Keys, j # k
          PROVE  period(j)' = period(j)
      <4>1. cbMap'[j] = cbMap[j] /\ cbMap[j] \in 0..Len(breakers)
        BY <1>1, <2>7, <3>3
      <4>2. CASE cbMap[j] = 0
        BY <4>1, <4>2 DEF period
      <4>3. CASE cbMap[j] # 0
        <5>1. breakers'[cbMap[j]] = breakers[cbMap[j]]
          BY <2>5, <4>1, <4>3
        <5>2. period(j)' = Shown(breakers'[cbMap[j]],
                             Sent(thread', cbMap[j], breakers'[cbMap[j]].generation))
          BY <4>1, <4>3 DEF period, Shown, InFlight, Sent
        <5> QED
          BY <2>12, <4>3, <5>1, <5>2, PeriodShown
      <4> QED
        BY <4>2, <4>3
    <3>4. [j \in Keys |-> period(j)]' = [[j \in Keys |-> period(j)]
                                            EXCEPT ![k] = Contract!Period("closed")]
      BY <3>2, <3>3, Zenon
    <3> QED
      BY <3>1, <3>4 DEF Contract!Appear, Contract!Becomes
  <2> QED
    BY <2>9, <2>11, <2>13, <2>15, <2>16, <2>17 DEF IInv
<1> QED
  BY <1>2, <1>3

\* A request past getBreaker works on the breaker of its key.
LEMMA RequestFacts ==
    ASSUME IInv, NEW t \in Threads, thread[t].pc \in {"before", "sent"}
    PROVE  /\ thread[t].cb \in 1..Len(breakers) /\ thread[t].key \in Keys
           /\ breakers[thread[t].cb].key = thread[t].key
           /\ thread[t].generation \in Nat
           /\ DOMAIN thread[t] = {"pc", "key", "cb", "generation"}
<1>1. /\ thread[t].cb \in 0..Len(breakers) /\ thread[t].key \in Keys
      /\ thread[t].generation \in Nat
      /\ DOMAIN thread[t] = {"pc", "key", "cb", "generation"}
  BY DEF IInv, TypeOK, Request
<1>2. thread[t].cb # 0 /\ thread[t].cb = cbMap[thread[t].key]
  BY DEF IInv, ThreadsOK, RequestOK
<1>3. breakers[thread[t].cb].key = thread[t].key
  BY <1>1, <1>2 DEF IInv, MapOK
<1> QED
  BY <1>1, <1>2, <1>3

\* The state is asked for: the contract's Ask.
LEMMA StateAskedStep ==
    ASSUME IInv, StateAsked
    PROVE  IInv' /\ \E k \in Keys : Contract!Ask(k)
<1>1. PICK k \in Keys : /\ cbMap[k] # 0
                        /\ Update(cbMap[k], currentState(breakers[cbMap[k]]))
  BY DEF StateAsked
<1>2. PICK i \in 1..Len(breakers) : i = cbMap[k]
  BY <1>1 DEF IInv, TypeOK
<1>3. PICK c : c = currentState(breakers[i])
  OBVIOUS
<1>4. UNCHANGED <<cbMap, thread>>
  BY DEF StateAsked
<1>5. Update(i, c) /\ breakers[i].key = k
  BY <1>1, <1>2, <1>3 DEF IInv, MapOK
<1>6. /\ c \in Breaker /\ c.key = breakers[i].key
      /\ c.generation >= breakers[i].generation
      /\ Sound(c, Cardinality(Sent(thread, i, c.generation)))
  BY <1>3, LookSound
<1>7. \A j \in 1..Len(breakers) : \A g :
          j # i => Sent(thread', j, g) = Sent(thread, j, g)
  BY <1>4
<1>8. thread' \in [Threads -> Request(Len(breakers))]
  BY <1>4 DEF IInv, TypeOK
<1>9. \A t \in Threads : RequestOK(thread'[t], cbMap, breakers')
  BY <1>4, <1>5, <1>6, RequestsStayOK
<1>10. IInv'
  <2>1. Sound(c, Cardinality(Sent(thread', i, c.generation)))
    BY <1>4, <1>6
  <2> QED
    BY <1>4, <1>5, <1>6, <1>7, <1>8, <1>9, <2>1, UpdateKeeps, ZenonT(30)
<1>11. Contract!Becomes(k, Shown(c, Sent(thread', i, c.generation)))
  BY <1>4, <1>5, <1>6, <1>7, UpdateShown
<1>12. Shown(c, Sent(thread', i, c.generation)) \in Contract!Seen(period(k))
  BY <1>3, <1>4, <1>5, LookSeen
<1>13. Contract!Ask(k)
  BY <1>11, <1>12 DEF Contract!Ask
<1> QED
  BY <1>10, <1>13

\* The clock runs out: nothing the contract could show changes.
LEMMA ExpireStep ==
    ASSUME IInv, Expire
    PROVE  IInv' /\ \E k \in Keys : Contract!Ask(k)
<1>1. PICK i \in 1..Len(breakers) :
         /\ breakers[i].state # "half-open"
         /\ breakers' = [breakers EXCEPT ![i] = [breakers[i] EXCEPT !.expired = TRUE]]
  BY Zenon DEF Expire
<1>2. breakers[i] \in Breaker /\ breakers[i].key \in Keys /\ breakers[i].generation \in Nat
  BY BreakerType DEF IInv
<1>3. PICK d : d = [breakers[i] EXCEPT !.expired = TRUE]
  BY Zenon
<1>4. /\ d \in Breaker /\ d.key = breakers[i].key /\ d.state = breakers[i].state
      /\ d.generation = breakers[i].generation /\ d.requests = breakers[i].requests
      /\ d.successes = breakers[i].successes /\ d.failures = breakers[i].failures
  BY <1>2, <1>3, Zenon DEF Breaker
<1>5. UNCHANGED <<cbMap, gauge, thread>>
  BY DEF Expire
<1>6. Update(i, d)
  BY <1>1, <1>3, <1>4, <1>5 DEF Update
<1>7. \A j \in 1..Len(breakers) : \A g :
          j # i => Sent(thread', j, g) = Sent(thread, j, g)
  BY <1>5
<1>8. thread' \in [Threads -> Request(Len(breakers))]
  BY <1>5 DEF IInv, TypeOK
<1>9. \A t \in Threads : RequestOK(thread'[t], cbMap, breakers')
  BY <1>2, <1>4, <1>5, <1>6, RequestsStayOK
<1>10. Sound(d, Cardinality(Sent(thread', i, d.generation)))
  <2>1. Sound(breakers[i], Cardinality(Sent(thread, i, breakers[i].generation)))
    BY DEF IInv, AllSound
  <2> QED
    BY <1>1, <1>4, <1>5, <2>1 DEF Sound, BelowRatio
<1>11. IInv'
  BY <1>4, <1>5, <1>6, <1>7, <1>8, <1>9, <1>10, UpdateKeeps, ZenonT(30)
<1>12. Contract!Becomes(breakers[i].key, Shown(d, Sent(thread', i, d.generation)))
  BY <1>4, <1>5, <1>6, <1>7, UpdateShown
<1>13. Shown(d, Sent(thread', i, d.generation)) = period(breakers[i].key)
  <2>1. cbMap[breakers[i].key] = i /\ i # 0
    BY DEF IInv, MapOK
  <2> QED
    BY <1>2, <1>4, <1>5, <2>1, PeriodShown DEF Shown
<1>14. Contract!Ask(breakers[i].key)
  <2>1. period(breakers[i].key) \in Contract!Seen(period(breakers[i].key))
    BY DEF Contract!Seen
  <2> QED
    BY <1>2, <1>12, <1>13, <2>1 DEF Contract!Ask
<1> QED
  BY <1>2, <1>11, <1>14

-----------------------------------------------------------------------------
(* beforeRequest.                                                          *)

\* Adding t to what is pending is the contract's Admit.
LEMMA AdmitShown ==
    ASSUME NEW k \in Keys, NEW t, NEW c, NEW d, NEW S,
           Shown(c, S) \in Contract!Seen(period(k)), Contract!admits(Shown(c, S)),
           t \notin S, d.state = c.state, d.successes = c.successes,
           Contract!Becomes(k, Shown(d, S \cup {t}))
    PROVE  Contract!Admit(k, t)
<1>1. PICK n : n = IF c.state = "half-open" THEN c.successes ELSE 0
  OBVIOUS
<1>2. PICK a : a = c.state
  OBVIOUS
<1>3. PICK T : T = S \cup {t}
  OBVIOUS
<1>4. PICK s : s = Shown(c, S)
  OBVIOUS
<1>5. s = [state |-> a, pending |-> S, successes |-> n]
  BY <1>1, <1>2, <1>4 DEF Shown
<1>6. Shown(d, S \cup {t}) = [state |-> a, pending |-> T, successes |-> n]
  BY <1>1, <1>2, <1>3 DEF Shown
<1>7. [s EXCEPT !.pending = T] = [state |-> a, pending |-> T, successes |-> n]
  BY <1>5
<1>8. s.pending = S /\ s.pending \cup {t} = T
  BY <1>3, <1>5
<1>9. [s EXCEPT !.pending = @ \cup {t}] = [s EXCEPT !.pending = T]
  BY <1>8, Zenon
<1>10. Contract!Becomes(k, [s EXCEPT !.pending = @ \cup {t}])
  BY <1>6, <1>7, <1>9, Zenon
<1>11. s \in Contract!Seen([j \in Keys |-> period(j)][k])
  BY <1>4
<1> QED
  BY <1>4, <1>8, <1>10, <1>11, Zenon DEF Contract!Admit

\* A request is admitted, or turned away.
LEMMA BeforeStep ==
    ASSUME IInv, NEW t \in Threads, Before(t)
    PROVE  IInv' /\ \E k \in Keys : Contract!Ask(k) \/ Contract!Admit(k, t)
<1>1. /\ thread[t].pc = "before" /\ cbMap' = cbMap
      /\ thread \in [Threads -> Request(Len(breakers))]
  BY DEF Before, IInv, TypeOK
<1>2. PICK i \in 1..Len(breakers) : i = thread[t].cb
  BY <1>1, RequestFacts
<1>3. PICK k \in Keys : k = thread[t].key
  BY <1>1, RequestFacts
<1>4. PICK c : c = currentState(breakers[i])
  OBVIOUS
<1>5. /\ breakers[i].key = k /\ DOMAIN thread[t] = {"pc", "key", "cb", "generation"}
      /\ i = cbMap[k] /\ i # 0
  <2>1. /\ breakers[thread[t].cb].key = thread[t].key
        /\ DOMAIN thread[t] = {"pc", "key", "cb", "generation"}
    BY <1>1, RequestFacts
  <2>2. RequestOK(thread[t], cbMap, breakers)
    BY Zenon DEF IInv, ThreadsOK
  <2>3. thread[t].cb # 0 /\ thread[t].cb = cbMap[thread[t].key]
    BY <1>1, <2>2 DEF RequestOK
  <2>4. QED
    BY <1>2, <1>3, <2>1, <2>3, Zenon
<1>6. /\ c \in Breaker /\ c.key = k
      /\ c.generation >= breakers[i].generation
      /\ Sound(c, Cardinality(Sent(thread, i, c.generation)))
  BY <1>4, <1>5, LookSound
<1>7. Shown(c, Sent(thread, i, c.generation)) \in Contract!Seen(period(k))
  BY <1>4, <1>5, LookSeen
<1>8. breakers[i].generation \in Nat /\ c.generation \in Nat
  BY <1>6, BreakerType DEF IInv, Breaker
<1>9. CASE ~admits(c)
  <2>1. Update(i, c) /\ thread' = [thread EXCEPT ![t] = Idle]
    BY <1>2, <1>4, <1>9 DEF Before
  <2>2. /\ thread' \in [Threads -> Request(Len(breakers))] /\ thread'[t] = Idle
        /\ \A u \in Threads \ {t} : thread'[u] = thread[u]
    <3>1. Idle \in Request(Len(breakers))
      BY IdleType DEF IInv, TypeOK
    <3> QED
      BY <1>1, <2>1, <3>1
  <2>3. \A j, g : Sent(thread', j, g) = Sent(thread, j, g)
    <3>1. thread[t].pc # "sent" /\ thread'[t].pc # "sent"
      BY <1>1, <2>2, IdleType
    <3> QED
      BY <2>2, <3>1 DEF Sent
  <2>4. \A u \in Threads : RequestOK(thread'[u], cbMap, breakers')
    <3>1. RequestOK(thread'[t], cbMap, breakers')
      BY <2>2, IdleType DEF RequestOK
    <3>2. \A u \in Threads : RequestOK(thread[u], cbMap, breakers')
      BY <1>6, <2>1, RequestsStayOK
    <3> QED
      BY <2>2, <3>1, <3>2
  <2>5. Sound(c, Cardinality(Sent(thread', i, c.generation)))
    BY <1>6, <2>3
  <2>6. /\ \A j \in 1..Len(breakers) : \A g :
               j # i => Sent(thread', j, g) = Sent(thread, j, g)
        /\ c.key = breakers[i].key
    BY <1>5, <1>6, <2>3
  <2>7. IInv'
    BY <1>1, <1>6, <2>1, <2>2, <2>4, <2>5, <2>6, UpdateKeeps, Zenon
  <2>8. Contract!Becomes(c.key, Shown(c, Sent(thread', i, c.generation)))
    BY <1>1, <1>6, <2>1, <2>6, UpdateShown, ZenonT(30)
  <2>9. Contract!Ask(k)
    BY <1>6, <1>7, <2>3, <2>8 DEF Contract!Ask
  <2> QED
    BY <2>7, <2>9
<1>10. CASE admits(c)
  <2>0. PICK d : d = [c EXCEPT !.requests = @ + 1]
    BY Zenon
  <2>1. /\ Update(i, d)
        /\ thread' = [thread EXCEPT ![t] = [thread[t] EXCEPT !.pc = "sent",
                                                   !.generation = c.generation]]
    BY <1>2, <1>4, <1>10, <2>0, Zenon DEF Before
  <2> DEFINE r == [thread[t] EXCEPT !.pc = "sent", !.generation = c.generation]
             S == Sent(thread, i, c.generation)
  <2>2. /\ r \in Request(Len(breakers)) /\ r.pc = "sent" /\ r.cb = i /\ r.key = k
        /\ r.generation = c.generation
    BY <1>1, <1>2, <1>3, <1>5, <1>8, Zenon DEF Request
  <2> HIDE DEF r
  <2>3. /\ thread' \in [Threads -> Request(Len(breakers))] /\ thread'[t] = r
        /\ \A u \in Threads \ {t} : thread'[u] = thread[u]
    BY <1>1, <2>1, <2>2 DEF r
  <2>4. /\ d.key = c.key /\ d.generation = c.generation /\ d.state = c.state
        /\ d.successes = c.successes
    BY <1>6, <2>0 DEF Breaker
  <2>5. Sent(thread', i, d.generation) = S \cup {t} /\ t \notin S
    <3>1. Sent(thread', i, d.generation) = S \cup {t}
      BY <1>1, <2>2, <2>3, <2>4, NowSent, SMTT(30)
    <3>2. t \notin S
      BY <1>1 DEF Sent
    <3> QED
      BY <3>1, <3>2
  <2>6. \A j \in 1..Len(breakers) : \A g :
            j # i => Sent(thread', j, g) = Sent(thread, j, g)
    BY <1>1, <2>2, <2>3, NowSent
  <2>7. Cardinality(S) \in Nat /\ Cardinality(S \cup {t}) = Cardinality(S) + 1
    BY <2>5, SentFinite, FS_AddElement, Zenon
  <2>8. d \in Breaker /\ Sound(d, Cardinality(S) + 1)
    BY <1>6, <1>10, <2>0, <2>7, AdmitSound
  <2>9. \A u \in Threads : RequestOK(thread'[u], cbMap, breakers')
    <3>1. breakers'[i] = d
      BY <2>1, <2>8, UpdatedBreakers DEF IInv
    <3>2. RequestOK(thread'[t], cbMap, breakers')
      BY <1>5, <1>8, <2>2, <2>3, <2>4, <3>1 DEF RequestOK
    <3>3. \A u \in Threads : RequestOK(thread[u], cbMap, breakers')
      BY <1>6, <2>1, <2>4, <2>8, RequestsStayOK
    <3> QED
      BY <2>3, <3>2, <3>3
  <2>10. IInv'
    <3>1. Sound(d, Cardinality(Sent(thread', i, d.generation)))
      BY <2>5, <2>7, <2>8
    <3>2. d.key = breakers[i].key
      BY <1>5, <1>6, <2>4
    <3> QED
      BY <1>1, <2>1, <2>3, <2>6, <2>8, <2>9, <3>1, <3>2, UpdateKeeps, ZenonT(30)
  <2>11. Contract!Becomes(k, Shown(d, S \cup {t}))
    <3>1. d.key = breakers[i].key /\ d.key = k
      BY <1>5, <1>6, <2>4
    <3> QED
      BY <1>1, <2>1, <2>5, <2>6, <2>8, <3>1, UpdateShown, ZenonT(30)
  <2>12. Contract!Admit(k, t)
    <3>1. PICK s : s = Shown(c, S)
      OBVIOUS
    <3>2. s.state = c.state /\ s.pending = S
          /\ s.successes = (IF c.state = "half-open" THEN c.successes ELSE 0)
      BY <3>1 DEF Shown
    <3>3. Contract!admits(s)
      <4>1. c.requests \in Nat /\ c.successes \in Nat /\ c.failures \in Nat
        BY <1>6 DEF Breaker
      <4>2. CASE c.state = "closed"
        BY <3>2, <4>2 DEF Contract!admits
      <4>3. CASE c.state = "half-open" /\ c.requests < MaxHalfOpenRequests
        <5>1. c.requests = c.successes + Cardinality(S)
          BY <1>6, <2>7, <4>1, <4>3 DEF Sound
        <5> QED
          BY <3>2, <4>3, <5>1, ContractCounts DEF Contract!admits
      <4> QED
        BY <1>10, <4>2, <4>3 DEF admits
    <3>4. Shown(c, S) \in Contract!Seen(period(k)) /\ Contract!admits(Shown(c, S))
      BY <1>7, <3>1, <3>3
    <3> HIDE DEF S
    <3> QED
      BY <2>4, <2>5, <2>11, <3>4, AdmitShown
  <2> QED
    BY <2>10, <2>12
<1> QED
  BY <1>9, <1>10

-----------------------------------------------------------------------------
(* afterRequest.                                                           *)

\* The answer to t makes c into d: what the contract lets happen.  (The hidden
\* sets are the requests in flight before and after.)
LEMMA AnswerAllowed ==
    ASSUME NEW c \in Breaker, NEW d \in Breaker, NEW t, NEW S, NEW T,
           NEW success \in BOOLEAN,
           \/ d = c /\ T = S /\ t \notin S
           \/ /\ t \in S /\ c.state # "open" /\ success
              /\ d = [c EXCEPT !.successes = @ + 1] /\ T = S \ {t}
              /\ c.state = "half-open" => c.successes + 1 < MaxHalfOpenRequests
           \/ /\ t \in S /\ success /\ c.state = "half-open"
              /\ c.successes + 1 >= MaxHalfOpenRequests
              /\ Fresh(c, d, "closed") /\ T = {}
           \/ /\ t \in S /\ c.state = "closed" /\ ~success
              /\ d = [c EXCEPT !.failures = @ + 1] /\ T = S \ {t}
           \/ /\ t \in S /\ c.state # "open" /\ ~success
              /\ Fresh(c, d, "open") /\ T = {}
    PROVE  Shown(d, T) \in Contract!Answered(Shown(c, S), t, success)
<1>s. PICK s : s = Shown(c, S)
  OBVIOUS
<1>0. c.successes \in Nat /\ MaxHalfOpenRequests \in Nat /\ c.state \in States
  BY BreakerAssumption DEF Breaker
<1>1. /\ s.state = c.state /\ s.pending = S
      /\ s.successes = (IF c.state = "half-open" THEN c.successes ELSE 0)
  BY <1>s DEF Shown
<1>2. [s EXCEPT !.pending = @ \ {t}] = Shown(c, S \ {t})
  BY <1>s, ShownWithout, Zenon
<1>3. CASE d = c /\ T = S /\ t \notin S
  BY <1>s, <1>1, <1>3 DEF Contract!Answered
<1>4. CASE /\ t \in S /\ c.state # "open" /\ success
           /\ d = [c EXCEPT !.successes = @ + 1] /\ T = S \ {t}
           /\ c.state = "half-open" => c.successes + 1 < MaxHalfOpenRequests
  <2>1. d.state = c.state /\ d.successes = c.successes + 1
    BY <1>4 DEF Breaker
  <2>2. CASE c.state = "half-open"
    <3>1. Contract!Answered(s, t, success) =
             {[Shown(c, S \ {t}) EXCEPT !.successes = c.successes + 1]}
      <4>1. ~(c.successes + 1 >= MaxHalfOpenRequests)
        BY <1>0, <1>4, <2>2
      <4> QED
        BY <1>1, <1>2, <1>4, <2>2, <4>1, Zenon DEF Contract!Answered
    <3>2. [Shown(c, S \ {t}) EXCEPT !.successes = c.successes + 1] = Shown(d, T)
      <4>1. Shown(c, S \ {t}) = [state |-> "half-open", pending |-> T,
                                 successes |-> c.successes]
        BY <1>4, <2>2 DEF Shown
      <4>2. Shown(d, T) = [state |-> "half-open", pending |-> T,
                           successes |-> c.successes + 1]
        BY <2>1, <2>2 DEF Shown
      <4> QED
        BY <4>1, <4>2
    <3> QED
      BY <1>s, <3>1, <3>2, Zenon
  <2>3. CASE c.state # "half-open"
    <3>1. Contract!Answered(s, t, success) = {Shown(c, S \ {t})}
      BY <1>1, <1>2, <1>4, <2>3 DEF Contract!Answered
    <3>2. Shown(c, S \ {t}) = Shown(d, T)
      BY <1>4, <2>1, <2>3 DEF Shown
    <3> QED
      BY <1>s, <3>1, <3>2
  <2> QED
    BY <2>2, <2>3
<1>5. CASE /\ t \in S /\ success /\ c.state = "half-open"
           /\ c.successes + 1 >= MaxHalfOpenRequests
           /\ Fresh(c, d, "closed") /\ T = {}
  <2>1. Shown(d, T) = Contract!Period("closed")
    BY <1>5 DEF Fresh, Shown, Contract!Period
  <2>2. Contract!Answered(s, t, success) = {Contract!Period("closed")}
    BY <1>1, <1>5 DEF Contract!Answered
  <2> QED
    BY <1>s, <2>1, <2>2
<1>6. CASE /\ t \in S /\ c.state = "closed" /\ ~success
           /\ d = [c EXCEPT !.failures = @ + 1] /\ T = S \ {t}
  <2>1. d.state = c.state
    BY <1>6 DEF Breaker
  <2>2. Shown(c, S \ {t}) = Shown(d, T)
    BY <1>6, <2>1 DEF Shown
  <2>3. Shown(c, S \ {t}) \in Contract!Answered(s, t, success)
    BY <1>1, <1>2, <1>6 DEF Contract!Answered
  <2> QED
    BY <1>s, <2>2, <2>3
<1>7. CASE /\ t \in S /\ c.state # "open" /\ ~success
           /\ Fresh(c, d, "open") /\ T = {}
  <2>1. Shown(d, T) = Contract!Period("open")
    BY <1>7 DEF Fresh, Shown, Contract!Period
  <2>2. Contract!Period("open") \in Contract!Answered(s, t, success)
    BY <1>1, <1>7 DEF Contract!Answered
  <2> QED
    BY <1>s, <2>1, <2>2
<1> QED
  BY <1>3, <1>4, <1>5, <1>6, <1>7

\* An answer comes in.
LEMMA AfterStep ==
    ASSUME IInv, NEW t \in Threads, After(t)
    PROVE  IInv' /\ \E k \in Keys, success \in BOOLEAN : Contract!Answer(k, t, success)
<1>1. /\ thread[t].pc = "sent" /\ cbMap' = cbMap
      /\ thread \in [Threads -> Request(Len(breakers))]
      /\ thread' = [thread EXCEPT ![t] = Idle]
  BY DEF After, IInv, TypeOK
<1>2. PICK i \in 1..Len(breakers) : i = thread[t].cb
  BY <1>1, RequestFacts
<1>3. PICK k \in Keys : k = breakers[i].key
  BY BreakerType DEF IInv
<1>4. PICK g \in Nat : g = thread[t].generation
  BY <1>1, RequestFacts
<1>5. PICK success \in BOOLEAN : Update(i, afterRequest(breakers[i], g, success))
  BY <1>2, <1>4, Zenon DEF After, Succeeded
<1>6. PICK c : c = currentState(breakers[i])
  OBVIOUS
<1>7. PICK d : d = afterRequest(breakers[i], g, success)
  OBVIOUS
<1> DEFINE S == Sent(thread, i, c.generation)
           T == Sent(thread', i, d.generation)
           n == Cardinality(S \ {t})
<1>8. /\ c \in Breaker /\ c.key = k /\ c.generation >= breakers[i].generation
      /\ Sound(c, Cardinality(S))
  BY <1>3, <1>6, LookSound, SMTT(30)
<1>9. /\ c.generation \in Nat /\ breakers[i].generation \in Nat
      /\ c.requests \in Nat /\ c.successes \in Nat /\ c.failures \in Nat
  BY <1>8, BreakerType DEF IInv, Breaker
<1>10. /\ thread' \in [Threads -> Request(Len(breakers))] /\ thread'[t] = Idle
       /\ \A u \in Threads \ {t} : thread'[u] = thread[u]
  <2>1. Idle \in Request(Len(breakers))
    BY IdleType DEF IInv, TypeOK
  <2> QED
    BY <1>1, <2>1
<1>11. \A j, h : Sent(thread', j, h) = Sent(thread, j, h) \ {t}
  BY <1>10, IdleType, NotSent
<1>0. \A X : t \notin X => X \ {t} = X
  OBVIOUS
<1>12. \A j \in 1..Len(breakers) : \A h :
           j # i => Sent(thread', j, h) = Sent(thread, j, h)
  <2>1. \A j, h : j # i => t \notin Sent(thread, j, h)
    BY <1>2 DEF Sent
  <2> QED
    BY <1>0, <1>11, <2>1
<1>13. t \in S <=> c.generation = g
  BY <1>1, <1>2, <1>4 DEF Sent
<1>14. d = IF c.generation # g \/ c.state = "open" THEN c
           ELSE IF success THEN onSuccess(c) ELSE onFailure(c)
  BY <1>6, <1>7 DEF afterRequest
<1>15. Cardinality(S) \in Nat /\ IsFiniteSet(S)
  BY SentFinite
<1>16. Sent(thread, i, c.generation + 1) = {}
  BY <1>8, <1>9, NothingSentYet
<1>17. /\ d \in Breaker /\ d.key = k /\ d.generation >= c.generation
       /\ Sound(d, Cardinality(T))
       /\ Shown(d, T) \in Contract!Answered(Shown(c, S), t, success)
  <2>1. CASE c.generation # g \/ c.state = "open"
    <3>1. d = c
      BY <1>14, <2>1
    <3>2. t \notin S
      <4>1. CASE c.generation # g
        BY <1>13, <4>1
      <4>2. CASE c.state = "open"
        <5>1. Cardinality(S) = 0
          BY <1>8, <1>9, <1>15, <4>2 DEF Sound
        <5>2. S = {}
          BY <1>15, <5>1, FS_EmptySet
        <5> QED
          BY <5>2
      <4> QED
        BY <2>1, <4>1, <4>2
    <3>3. T = S
      BY <1>0, <1>11, <3>1, <3>2, Zenon
    <3> HIDE DEF S, T
    <3>4. Shown(d, T) \in Contract!Answered(Shown(c, S), t, success)
      BY <1>8, <3>1, <3>2, <3>3, AnswerAllowed
    <3> QED
      BY <1>8, <1>9, <3>1, <3>3, <3>4
  <2>2. CASE c.generation = g /\ c.state # "open"
    <3>1. t \in S
      BY <1>13, <2>2
    <3>2. n \in Nat /\ Cardinality(S) = n + 1
      <4> HIDE DEF S
      <4>1. Cardinality(S \ {t}) = Cardinality(S) - 1
        BY <1>15, <3>1, FS_RemoveElement, Zenon
      <4>2. IsFiniteSet(S \ {t})
        BY <1>15, FS_RemoveElement
      <4>3. Cardinality(S \ {t}) \in Nat
        BY <4>2, FS_CardinalityType
      <4> QED
        BY <1>15, <4>1, <4>3
    <3>3. Sound(c, n + 1)
      BY <1>8, <3>2
    <3>4. d.generation = c.generation => T = S \ {t}
      BY <1>11
    <3>5. d.generation = c.generation + 1 => T = {}
      BY <1>11, <1>16
    <3>6. Cardinality({}) = 0
      BY FS_EmptySet
    <3>7. CASE success
      <4>1. d = onSuccess(c)
        BY <1>14, <2>2, <3>7
      <4> HIDE DEF S, T
      <4>2. CASE /\ d = [c EXCEPT !.successes = @ + 1] /\ Sound(d, n)
                 /\ c.state = "half-open" => c.successes + 1 < MaxHalfOpenRequests
        <5>1. d \in Breaker /\ d.key = c.key /\ d.generation = c.generation
          BY <1>8, <4>2 DEF Breaker
        <5>2. T = S \ {t}
          BY <3>4, <5>1
        <5>3. Shown(d, T) \in Contract!Answered(Shown(c, S), t, success)
          BY <1>8, <2>2, <3>1, <3>7, <4>2, <5>1, <5>2, AnswerAllowed, ZenonT(30)
        <5> QED
          BY <1>8, <1>9, <4>2, <5>1, <5>2, <5>3
      <4>3. CASE /\ Fresh(c, d, "closed") /\ c.state = "half-open"
                 /\ c.successes + 1 >= MaxHalfOpenRequests
        <5>1. d \in Breaker
          BY <1>8, <2>2, <3>2, <3>3, <4>1, SuccessFacts
        <5>2. d.key = c.key /\ d.generation = c.generation + 1 /\ T = {}
          BY <3>5, <4>3 DEF Fresh
        <5>3. Sound(d, 0)
          BY <1>8, <4>3, <5>1, FreshSound DEF States
        <5>4. Shown(d, T) \in Contract!Answered(Shown(c, S), t, success)
          BY <1>8, <3>1, <3>7, <4>3, <5>1, <5>2, AnswerAllowed, Zenon
        <5> QED
          BY <1>8, <1>9, <3>6, <5>1, <5>2, <5>3, <5>4
      <4> QED
        BY <1>8, <2>2, <3>2, <3>3, <4>1, <4>2, <4>3, SuccessFacts
    <3>8. CASE ~success
      <4>1. d = onFailure(c)
        BY <1>14, <2>2, <3>8
      <4> HIDE DEF S, T
      <4>2. CASE d = [c EXCEPT !.failures = @ + 1] /\ Sound(d, n) /\ c.state = "closed"
        <5>1. d \in Breaker /\ d.key = c.key /\ d.generation = c.generation
          BY <1>8, <4>2 DEF Breaker
        <5>2. T = S \ {t}
          BY <3>4, <5>1
        <5>3. Shown(d, T) \in Contract!Answered(Shown(c, S), t, success)
          BY <1>8, <2>2, <3>1, <3>8, <4>2, <5>1, <5>2, AnswerAllowed, ZenonT(30)
        <5> QED
          BY <1>8, <1>9, <4>2, <5>1, <5>2, <5>3
      <4>3. CASE Fresh(c, d, "open")
        <5>1. d \in Breaker
          BY <1>8, <2>2, <3>2, <3>3, <4>1, FailureFacts, Zenon
        <5>2. d.key = c.key /\ d.generation = c.generation + 1 /\ T = {}
          BY <3>5, <4>3 DEF Fresh
        <5>3. Sound(d, 0)
          BY <1>8, <4>3, <5>1, FreshSound DEF States
        <5>4. Shown(d, T) \in Contract!Answered(Shown(c, S), t, success)
          BY <1>8, <2>2, <3>1, <3>8, <4>3, <5>1, <5>2, AnswerAllowed, ZenonT(30)
        <5> QED
          BY <1>8, <1>9, <3>6, <5>1, <5>2, <5>3, <5>4
      <4> QED
        BY <1>8, <2>2, <3>2, <3>3, <4>1, <4>2, <4>3, FailureFacts
    <3> QED
      BY <3>7, <3>8
  <2> QED
    BY <2>1, <2>2, Zenon
<1>18. Update(i, d) /\ d.key = breakers[i].key
  BY <1>3, <1>5, <1>7, <1>17
<1>19. \A u \in Threads : RequestOK(thread'[u], cbMap, breakers')
  <2>1. d.generation >= breakers[i].generation
    <3>1. d.generation \in Nat
      BY <1>17 DEF Breaker
    <3> QED
      BY <1>8, <1>9, <1>17, <3>1
  <2>2. RequestOK(thread'[t], cbMap, breakers')
    BY <1>10, IdleType DEF RequestOK
  <2>3. \A u \in Threads : RequestOK(thread[u], cbMap, breakers')
    BY <1>17, <1>18, <2>1, RequestsStayOK
  <2> QED
    BY <1>10, <2>2, <2>3
<1>20. IInv'
  BY <1>1, <1>10, <1>12, <1>17, <1>18, <1>19, UpdateKeeps, Zenon
<1>21. Contract!Becomes(d.key, Shown(d, T))
  BY <1>1, <1>12, <1>17, <1>18, UpdateShown, Zenon
<1>22. Shown(c, S) \in Contract!Seen(period(k))
  BY <1>3, <1>6, LookSeen
<1> HIDE DEF S, T
<1>23. Contract!Answer(k, t, success)
  BY <1>17, <1>21, <1>22 DEF Contract!Answer
<1> QED
  BY <1>20, <1>23

-----------------------------------------------------------------------------
(* The theorems.                                                           *)

LEMMA Initially == Init => IInv /\ Contract!Init
<1> SUFFICES ASSUME Init PROVE IInv /\ Contract!Init
  OBVIOUS
<1>1. /\ breakers = <<>> /\ Len(breakers) = 0 /\ cbMap = [k \in Keys |-> 0]
      /\ gauge = [k \in Keys |-> "none"] /\ thread = [t \in Threads |-> Idle]
  BY DEF Init
<1>2. TypeOK
  BY <1>1, IdleType DEF TypeOK
<1>3. MapOK /\ AllSound /\ GaugeShowsState
  BY <1>1 DEF MapOK, AllSound, GaugeShowsState
<1>4. ThreadsOK
  BY <1>1, IdleType DEF ThreadsOK, RequestOK
<1>5. Contract!Init
  BY <1>1 DEF Contract!Init, Contract!Period, period
<1> QED
  BY <1>2, <1>3, <1>4, <1>5 DEF IInv

\* A step of the breakers keeps the invariant and is a step of the contract.
LEMMA Stepwise ==
    ASSUME IInv, [Next]_vars
    PROVE  IInv' /\ [Contract!Next]_([k \in Keys |-> period(k)])
<1>1. CASE UNCHANGED vars
  <2>1. UNCHANGED <<cbMap, breakers, gauge>> /\ thread' = thread
    BY <1>1 DEF vars
  <2>2. thread' \in [Threads -> Request(Len(breakers))]
    BY <2>1 DEF IInv, TypeOK
  <2>3. /\ \A t \in Threads : RequestOK(thread'[t], cbMap, breakers)
        /\ \A i, g : Sent(thread', i, g) = Sent(thread, i, g)
    BY <2>1 DEF IInv, ThreadsOK
  <2> QED
    BY <2>1, <2>2, <2>3, RequestsOnly
<1>2. ASSUME NEW t \in Threads, Lookup(t)
      PROVE  IInv' /\ [Contract!Next]_([k \in Keys |-> period(k)])
  BY <1>2, LookupStep
<1>3. ASSUME NEW t \in Threads, Create(t)
      PROVE  IInv' /\ [Contract!Next]_([k \in Keys |-> period(k)])
  <2>1. PICK k \in Keys : k = thread[t].key
    BY DEF IInv, TypeOK, Request
  <2> QED
    BY <1>3, <2>1, CreateStep DEF Contract!Next
<1>4. ASSUME NEW t \in Threads, Before(t)
      PROVE  IInv' /\ [Contract!Next]_([k \in Keys |-> period(k)])
  BY <1>4, BeforeStep DEF Contract!Next
<1>5. ASSUME NEW t \in Threads, After(t)
      PROVE  IInv' /\ [Contract!Next]_([k \in Keys |-> period(k)])
  BY <1>5, AfterStep DEF Contract!Next
<1>6. CASE StateAsked
  BY <1>6, StateAskedStep DEF Contract!Next
<1>7. CASE Expire
  BY <1>7, ExpireStep DEF Contract!Next
<1> QED
  BY <1>1, <1>2, <1>3, <1>4, <1>5, <1>6, <1>7 DEF Next

\* The counts of a breaker add up, a closed breaker with enough failures is
\* below its ratio and the gauge shows the state, in every reachable state.
LEMMA Consequences ==
    ASSUME IInv
    PROVE  /\ CountsExact /\ GaugeShowsState
           /\ \A i \in 1..Len(breakers) : BelowRatio(breakers[i])
<1>1. \A i \in 1..Len(breakers) : Sound(breakers[i], Cardinality(InFlight(i)))
  BY InFlightIsSent DEF IInv, AllSound
<1> QED
  BY <1>1 DEF IInv, Sound, CountsExact

-----------------------------------------------------------------------------
(* A failure is weighed when it is counted.                                *)

\* The clock and an admission count no failure and open nothing.
LEMMA LookWeighed ==
    ASSUME IInv, NEW i \in 1..Len(breakers), NEW c \in Breaker,
           c = currentState(breakers[i])
    PROVE  /\ c.failures = breakers[i].failures \/ c.failures = 0
           /\ c.state = "open" => c = breakers[i]
<1>1. breakers[i] \in Breaker
  BY BreakerType DEF IInv
<1> QED
  BY <1>1, CurrentStateFacts DEF Fresh

\* afterRequest.
LEMMA AnswerWeighed ==
    ASSUME IInv, NEW i \in 1..Len(breakers), NEW g, NEW success \in BOOLEAN,
           NEW d \in Breaker, d = afterRequest(breakers[i], g, success),
           d.requests >= d.failures
    PROVE  FailureWeighed(breakers[i], d)
<1> DEFINE b == breakers[i]
<1>1. PICK c : c = currentState(b)
  OBVIOUS
<1>2. /\ b \in Breaker /\ c \in Breaker
      /\ b.failures \in Nat /\ c.failures \in Nat /\ c.requests \in Nat
      /\ d.failures \in Nat /\ d.requests \in Nat
      /\ c.state \in States
  <2>1. b \in Breaker
    BY BreakerType DEF IInv
  <2>2. c \in Breaker
    BY <1>1, <2>1, CurrentStateFacts
  <2> QED
    BY <2>1, <2>2 DEF Breaker
<1>3. c.failures = b.failures \/ c.failures = 0
  BY <1>1, <1>2, LookWeighed
<1>4. c.state = "open" => c = b
  BY <1>1, <1>2, LookWeighed
<1>5. b.state = "closed" => c = b \/ (c.requests = 0 /\ c.state = "closed")
  BY <1>1, <1>2, CurrentStateFacts DEF Fresh
<1> HIDE DEF b
<1>6. d = IF c.generation # g \/ c.state = "open" THEN c
          ELSE IF success THEN onSuccess(c) ELSE onFailure(c)
  BY <1>1 DEF afterRequest, b
<1>7. CASE d = c
  BY <1>2, <1>3, <1>4, <1>7 DEF FailureWeighed, b
<1>8. CASE d = onSuccess(c) /\ c.state # "open"
  <2>1. d.failures = c.failures \/ d.failures = 0
    BY <1>2, <1>8 DEF onSuccess, NewGeneration, Breaker
  <2>2. d.state # "open"
    BY <1>2, <1>8 DEF onSuccess, NewGeneration, Breaker
  <2> QED
    BY <1>2, <1>3, <2>1, <2>2 DEF FailureWeighed, b
<1>9. CASE d = onFailure(c) /\ c.state # "open" /\ c.generation = g
  <2> DEFINE e == [c EXCEPT !.failures = @ + 1]
  <2>1. /\ e.failures = c.failures + 1 /\ e.requests = c.requests
        /\ e.state = c.state
    BY <1>2 DEF Breaker
  <2>2. d = IF c.state = "half-open" \/ ReadyToTrip(e)
            THEN NewGeneration(e, "open") ELSE e
    BY <1>9 DEF onFailure
  <2> HIDE DEF e
  <2>3. CASE c.state = "half-open" \/ ReadyToTrip(e)
    <3>1. d.failures = 0 /\ d.state = "open"
      BY <2>2, <2>3 DEF NewGeneration
    <3>2. ASSUME b.state = "closed" PROVE RatioReached(b.requests, b.failures + 1)
      <4>1. c.state = "closed" /\ ReadyToTrip(e)
        BY <1>5, <2>3, <3>2
      <4>2. c.requests # 0
        BY <2>1, <4>1 DEF ReadyToTrip
      <4>3. c = b
        BY <1>5, <3>2, <4>2
      <4> QED
        BY <2>1, <4>1, <4>3 DEF ReadyToTrip, RatioReached
    <3> QED
      BY <1>2, <3>1, <3>2 DEF FailureWeighed, b
  <2>4. CASE ~(c.state = "half-open" \/ ReadyToTrip(e))
    <3>1. d = e /\ d.state = "closed"
      BY <1>2, <1>9, <2>1, <2>2, <2>4 DEF States
    <3>2. d.requests # 0
      BY <1>2, <2>1, <3>1
    <3>3. ~RatioReached(d.requests, d.failures)
      BY <2>4, <3>1, <3>2 DEF ReadyToTrip, RatioReached
    <3> QED
      BY <3>1, <3>3 DEF FailureWeighed
  <2> QED
    BY <2>3, <2>4
<1> QED
  BY <1>6, <1>7, <1>8, <1>9

\* The breakers of a step that replaces none, or the one a request works on.
LEMMA StepWeighed ==
    ASSUME IInv, IInv', [Next]_vars, NEW i \in 1..Len(breakers)
    PROVE  FailureWeighed(breakers[i], breakers'[i])
<1>1. /\ breakers[i] \in Breaker /\ breakers[i].failures \in Nat
  BY BreakerType DEF IInv, Breaker
<1>2. ASSUME breakers'[i].failures = breakers[i].failures \/ breakers'[i].failures = 0,
             breakers'[i].state = "open" => breakers[i].state = "open"
      PROVE  FailureWeighed(breakers[i], breakers'[i])
  BY <1>1, <1>2 DEF FailureWeighed
<1>3. CASE breakers'[i] = breakers[i]
  BY <1>2, <1>3
<1>4. CASE UNCHANGED vars \/ \E t \in Threads : Lookup(t)
  <2>1. breakers' = breakers
    BY <1>4 DEF vars, Lookup
  <2> QED
    BY <1>3, <2>1
<1>5. ASSUME NEW t \in Threads, Create(t)
      PROVE  FailureWeighed(breakers[i], breakers'[i])
  <2>1. breakers \in Seq(Breaker)
    BY DEF IInv, TypeOK
  <2>2. breakers' = breakers \/ \E b : breakers' = Append(breakers, b)
    BY <1>5, Zenon DEF Create
  <2>3. breakers'[i] = breakers[i]
    BY <2>1, <2>2
  <2> QED
    BY <1>3, <2>3
<1>6. ASSUME NEW t \in Threads, Before(t)
      PROVE  FailureWeighed(breakers[i], breakers'[i])
  <2>1. PICK j \in 1..Len(breakers) : j = thread[t].cb
    BY <1>6, RequestFacts DEF Before
  <2>2. PICK c \in Breaker : c = currentState(breakers[j])
    BY <2>1, BreakerType, CurrentStateFacts DEF IInv
  <2>3. Update(j, c) \/ Update(j, [c EXCEPT !.requests = @ + 1])
    BY <1>6, <2>1, <2>2, Zenon DEF Before
  <2>4. PICK d : Update(j, d) /\ (d = c \/ d = [c EXCEPT !.requests = @ + 1])
    BY <2>3
  <2>5. d \in Breaker /\ d.failures = c.failures /\ d.state = c.state
    BY <2>2, <2>4 DEF Breaker
  <2>6. CASE i = j
    <3>1. breakers'[i] = d
      BY <2>4, <2>5, <2>6, UpdatedBreakers DEF IInv
    <3> QED
      BY <1>2, <2>2, <2>5, <2>6, <3>1, LookWeighed
  <2>7. CASE i # j
    BY <1>3, <2>4, <2>5, <2>7, UpdatedBreakers DEF IInv
  <2> QED
    BY <2>6, <2>7
<1>7. ASSUME NEW t \in Threads, After(t)
      PROVE  FailureWeighed(breakers[i], breakers'[i])
  <2>1. PICK j \in 1..Len(breakers) : j = thread[t].cb
    BY <1>7, RequestFacts DEF After
  <2>2. PICK success \in BOOLEAN :
           Update(j, afterRequest(breakers[j], thread[t].generation, success))
    BY <1>7, <2>1, Zenon DEF After, Succeeded
  <2>3. PICK d : d = afterRequest(breakers[j], thread[t].generation, success)
    OBVIOUS
  <2>4. breakers' = [breakers EXCEPT ![j] = d] /\ breakers \in Seq(Breaker)
    BY <2>2, <2>3 DEF Update, IInv, TypeOK
  <2>5. Len(breakers') = Len(breakers) /\ breakers'[j] = d
    BY <2>4
  <2>6. d \in Breaker
    BY <2>1, <2>5 DEF IInv, TypeOK
  <2>7. d.requests >= d.failures
    <3>1. CountsExact'
      BY Consequences, PTL
    <3>2. d.requests = d.successes + d.failures + Cardinality(InFlight(j)')
      BY <2>1, <2>5, <3>1 DEF CountsExact
    <3>3. Cardinality(InFlight(j)') \in Nat
      <4>1. InFlight(j)' \subseteq Threads
        BY DEF InFlight
      <4> QED
        BY <4>1, FS_Subset, FS_CardinalityType, BreakerAssumption
    <3> QED
      BY <2>6, <3>2, <3>3 DEF Breaker
  <2>8. CASE i = j
    BY <2>3, <2>5, <2>6, <2>7, <2>8, AnswerWeighed
  <2>9. CASE i # j
    BY <1>3, <2>4, <2>9
  <2> QED
    BY <2>8, <2>9
<1>8. CASE StateAsked
  <2>1. PICK j \in 1..Len(breakers) : Update(j, currentState(breakers[j]))
    BY <1>8 DEF StateAsked, IInv, TypeOK
  <2>2. PICK c \in Breaker : c = currentState(breakers[j])
    BY <2>1, BreakerType, CurrentStateFacts DEF IInv
  <2>3. CASE i = j
    <3>1. breakers'[i] = c
      BY <2>1, <2>2, <2>3, UpdatedBreakers DEF IInv
    <3> QED
      BY <1>2, <2>2, <2>3, <3>1, LookWeighed
  <2>4. CASE i # j
    BY <1>3, <2>1, <2>2, <2>4, UpdatedBreakers DEF IInv
  <2> QED
    BY <2>3, <2>4
<1>9. CASE Expire
  <2>1. PICK j \in 1..Len(breakers) :
           breakers' = [breakers EXCEPT ![j] = [breakers[j] EXCEPT !.expired = TRUE]]
    BY <1>9, Zenon DEF Expire
  <2>2. CASE i = j
    <3>1. breakers'[i] = [breakers[i] EXCEPT !.expired = TRUE]
      <4>1. breakers \in Seq(Breaker)
        BY DEF IInv, TypeOK
      <4>2. i \in DOMAIN breakers
        BY <4>1
      <4> QED
        BY <2>1, <2>2, <4>2, Zenon
    <3> QED
      BY <1>1, <1>2, <3>1 DEF Breaker
  <2>3. CASE i # j
    BY <1>3, <2>1, <2>3 DEF IInv, TypeOK
  <2> QED
    BY <2>2, <2>3
<1> QED
  BY <1>4, <1>5, <1>6, <1>7, <1>8, <1>9 DEF Next

LEMMA Invariance == Spec => []IInv
<1>1. Init => IInv
  BY Initially
<1>2. IInv /\ [Next]_vars => IInv'
  BY Stepwise
<1> QED
  BY <1>1, <1>2, PTL DEF Spec

\* Every request of a generation is counted as success, as failure, or is still
\* in flight (beforeRequest, afterRequest), however many requests there are.
THEOREM CountsAlwaysExact == Spec => []CountsExact
BY Invariance, Consequences, PTL

\* A closed breaker opens with exactly the failures that find the minimum of
\* requests and the ratio reached, and is below its ratio once its failures
\* alone are the minimum (ReadyToTrip), whatever the ratio and the minimum.
THEOREM TripsAlwaysInTime == Spec => TripsInTime
<1>1. IInv => \A i \in 1..Len(breakers) : BelowRatio(breakers[i])
  BY Consequences
<1>2. IInv /\ IInv' /\ [Next]_vars
         => [\A i \in 1..Len(breakers) :
                FailureWeighed(breakers[i], breakers'[i])]_vars
  BY StepWeighed
<1> QED
  BY <1>1, <1>2, Invariance, PTL DEF Spec, TripsInTime

\* The gauge of a key shows the state of its one breaker (getBreaker).
THEOREM GaugeAlwaysRight == Spec => []GaugeShowsState
BY Invariance, Consequences, PTL

\* The breakers implement their contract, with a key's requests in flight as
\* the pending ones.
THEOREM KeepsContract == Spec => ImplementsContract
<1>1. Init => Contract!Init
  BY Initially
<1>2. IInv /\ [Next]_vars => [Contract!Next]_([k \in Keys |-> period(k)])
  BY Stepwise
<1> QED
  BY <1>1, <1>2, Invariance, PTL DEF Spec, ImplementsContract, Contract!Spec

-----------------------------------------------------------------------------
(* The contract limits a trial.  The limit is inductive once the periods   *)
(* have their type: an admission is checked against it, and a successful   *)
(* answer moves one request from those still out to those answered.        *)

\* One period within its limit.
Within(b) ==
    b.state = "half-open" =>
        b.successes + Cardinality(b.pending) <= MaxHalfOpenRequests

Good == {b \in Contract!Periods : Within(b)}

Limited == \A k \in Keys : period(k) \in Good

\* A new period has nothing out and nothing answered.
LEMMA NewPeriod ==
    ASSUME NEW s \in {"none", "closed", "open", "half-open"}
    PROVE  Contract!Period(s) \in Good
<1>1. Cardinality({}) = 0 /\ MaxHalfOpenRequests \in Nat
  BY FS_EmptySet, BreakerAssumption
<1> QED
  BY <1>1 DEF Contract!Period, Contract!Periods, Good, Within

\* What a look at the clock finds is within the limit when what was there is.
LEMMA SeenGood ==
    ASSUME NEW b \in Good, NEW c \in Contract!Seen(b)
    PROVE  c \in Good
<1>1. c = b \/ c = Contract!Period("closed") \/ c = Contract!Period("half-open")
  BY DEF Contract!Seen
<1> QED
  BY <1>1, NewPeriod

\* An admission is checked before it is made.
LEMMA AdmitGood ==
    ASSUME NEW c \in Good, NEW t \in Threads, Contract!admits(c),
           t \notin c.pending
    PROVE  [c EXCEPT !.pending = @ \cup {t}] \in Good
<1> DEFINE d == [c EXCEPT !.pending = @ \cup {t}]
<1>1. /\ c \in Contract!Periods
      /\ c.pending \subseteq Threads
      /\ c.successes \in Nat
      /\ MaxHalfOpenRequests \in Nat
  BY BreakerAssumption DEF Good, Contract!Periods
<1>2. IsFiniteSet(c.pending)
  BY <1>1, FS_Subset, BreakerAssumption
<1>3. /\ Cardinality(c.pending) \in Nat
      /\ Cardinality(c.pending \cup {t}) = Cardinality(c.pending) + 1
  BY <1>2, FS_CardinalityType, FS_AddElement, Zenon
<1>4. /\ d \in Contract!Periods
      /\ d.state = c.state
      /\ d.pending = c.pending \cup {t}
      /\ d.successes = c.successes
  BY <1>1 DEF Contract!Periods
<1>5. c.state = "half-open" =>
          c.successes + Cardinality(c.pending) < MaxHalfOpenRequests
  BY ContractCounts DEF Contract!admits
<1>6. Within(d)
  BY <1>1, <1>3, <1>4, <1>5 DEF Within
<1> QED
  BY <1>4, <1>6 DEF Good

\* An answer takes its request out of those pending, and counts it at most
\* once.
LEMMA AnswerGood ==
    ASSUME NEW c \in Good, NEW t \in Threads, NEW success \in BOOLEAN,
           NEW d \in Contract!Answered(c, t, success)
    PROVE  d \in Good
<1> DEFINE e == [c EXCEPT !.pending = @ \ {t}]
           f == [e EXCEPT !.successes = c.successes + 1]
<1>1. /\ c \in Contract!Periods
      /\ c.pending \subseteq Threads
      /\ c.successes \in Nat
      /\ MaxHalfOpenRequests \in Nat
  BY BreakerAssumption DEF Good, Contract!Periods
<1>2. IsFiniteSet(c.pending)
  BY <1>1, FS_Subset, BreakerAssumption
<1>3. CASE t \notin c.pending
  BY <1>3 DEF Contract!Answered
<1>4. CASE t \in c.pending
  <2>1. /\ Cardinality(c.pending) \in Nat
        /\ Cardinality(c.pending \ {t}) = Cardinality(c.pending) - 1
    BY <1>2, <1>4, FS_CardinalityType, FS_RemoveElement
  <2>2. /\ e \in Contract!Periods
        /\ e.state = c.state
        /\ e.pending = c.pending \ {t}
        /\ e.successes = c.successes
    BY <1>1 DEF Contract!Periods
  <2>3. /\ f \in Contract!Periods
        /\ f.state = c.state
        /\ f.pending = c.pending \ {t}
        /\ f.successes = c.successes + 1
    <3> HIDE DEF e
    <3>1. c.successes + 1 \in Nat
      BY <1>1
    <3> QED
      BY <2>2, <3>1 DEF Contract!Periods
  <2>4. Within(c)
    BY DEF Good
  <2>5. Within(e) /\ Within(f)
    BY <1>1, <2>1, <2>2, <2>3, <2>4 DEF Within
  <2>6. d \in {e, f, Contract!Period("open"), Contract!Period("closed")}
    BY <1>4 DEF Contract!Answered
  <2> QED
    BY <2>2, <2>3, <2>5, <2>6, NewPeriod DEF Good
<1> QED
  BY <1>3, <1>4

\* Every step of the contract keeps its trials within the limit.
LEMMA ContractLimits ==
    ASSUME Limited, Contract!Next
    PROVE  Limited'
<1> DEFINE shown == [k \in Keys |-> period(k)]
<1>1. ASSUME NEW k \in Keys, NEW b \in Good, Contract!Becomes(k, b)
      PROVE  Limited'
  <2>1. shown' = [shown EXCEPT ![k] = b]
    BY <1>1 DEF Contract!Becomes
  <2>2. \A j \in Keys : shown'[j] = IF j = k THEN b ELSE shown[j]
    BY <2>1, Zenon
  <2>3. \A j \in Keys : period(j)' = IF j = k THEN b ELSE period(j)
    BY <2>2
  <2> QED
    BY <1>1, <2>3 DEF Limited
<1>2. ASSUME NEW k \in Keys, NEW c \in Contract!Seen(shown[k])
      PROVE  c \in Good
  <2>1. shown[k] \in Good
    BY DEF Limited
  <2> QED
    BY <1>2, <2>1, SeenGood
<1>3. ASSUME NEW k \in Keys, Contract!Appear(k)
      PROVE  Limited'
  BY <1>1, <1>3, NewPeriod DEF Contract!Appear
<1>4. ASSUME NEW k \in Keys, Contract!Ask(k)
      PROVE  Limited'
  BY <1>1, <1>2, <1>4 DEF Contract!Ask
<1>5. ASSUME NEW k \in Keys, NEW t \in Threads, Contract!Admit(k, t)
      PROVE  Limited'
  <2>1. PICK c \in Contract!Seen(shown[k]) :
            /\ Contract!admits(c)
            /\ t \notin c.pending
            /\ Contract!Becomes(k, [c EXCEPT !.pending = @ \cup {t}])
    BY <1>5, Zenon DEF Contract!Admit
  <2>2. [c EXCEPT !.pending = @ \cup {t}] \in Good
    BY <1>2, <2>1, AdmitGood
  <2> QED
    BY <1>1, <2>1, <2>2
<1>6. ASSUME NEW k \in Keys, NEW t \in Threads, NEW success \in BOOLEAN,
             Contract!Answer(k, t, success)
      PROVE  Limited'
  <2>1. PICK c \in Contract!Seen(shown[k]) :
            \E d \in Contract!Answered(c, t, success) : Contract!Becomes(k, d)
    BY <1>6 DEF Contract!Answer
  <2>2. PICK d \in Contract!Answered(c, t, success) : Contract!Becomes(k, d)
    BY <2>1
  <2>3. c \in Good
    BY <1>2
  <2>4. d \in Good
    BY <2>3, AnswerGood
  <2> QED
    BY <1>1, <2>2, <2>4
<1> QED
  BY <1>3, <1>4, <1>5, <1>6 DEF Contract!Next

\* A half-open breaker of the transport never has more requests out and
\* answered than upstream.breaker_half_open_requests allows.
THEOREM TrialsLimited == Spec => []Contract!TrialLimit
<1>1. Contract!Init => Limited
  <2> SUFFICES ASSUME Contract!Init, NEW k \in Keys PROVE period(k) \in Good
    BY DEF Limited
  <2>1. [j \in Keys |-> period(j)][k] = Contract!Period("none")
    BY DEF Contract!Init
  <2>2. period(k) = Contract!Period("none")
    BY <2>1
  <2> QED
    BY <2>2, NewPeriod
<1>2. Limited /\ [Contract!Next]_([k \in Keys |-> period(k)]) => Limited'
  <2> SUFFICES ASSUME Limited, UNCHANGED [k \in Keys |-> period(k)]
               PROVE  Limited'
    BY ContractLimits
  <2> DEFINE shown == [k \in Keys |-> period(k)]
  <2>1. \A k \in Keys : shown'[k] = shown[k]
    OBVIOUS
  <2>2. \A k \in Keys : period(k)' = period(k)
    BY <2>1
  <2> QED
    BY <2>2 DEF Limited
<1>3. Limited => Contract!TrialLimit
  BY ContractCounts DEF Limited, Good, Within, Contract!TrialLimit
<1> QED
  BY <1>1, <1>2, <1>3, KeepsContract, PTL DEF ImplementsContract, Contract!Spec

=============================================================================
