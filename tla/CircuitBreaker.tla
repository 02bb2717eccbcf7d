--------------------------- MODULE CircuitBreaker ---------------------------
(***************************************************************************)
(* The circuit breakers of the upstream transport                          *)
(* (internal/proxy/transport.go): the map of breakers, one per             *)
(* provider@host, and the gobreaker state machine behind each of them, as  *)
(* CircuitBreakerTransport.RoundTrip drives it.                            *)
(*                                                                         *)
(* A RoundTrip is four steps: the lookup under the read lock, the creation *)
(* under the write lock when the lookup found nothing, beforeRequest and   *)
(* afterRequest, each under the breaker's own mutex.  Time is the flag     *)
(* expired of a breaker: its interval (closed) or timeout (open) is over,  *)
(* and the next call that looks at the clock will notice.                  *)
(***************************************************************************)
EXTENDS UpstreamOutcome, Sequences, FiniteSets

CONSTANTS
    Keys,                  \* provider@host
    Threads,               \* concurrent RoundTrips
    MinimumRequests,       \* config upstream.breaker_minimum_requests
    RatioNum, RatioDen,    \* config upstream.breaker_failure_ratio
    MaxHalfOpenRequests,   \* config upstream.breaker_half_open_requests
    MaxGeneration,         \* bound: no expiry beyond this generation
    MaxCount               \* bound: requests counted in one generation

ASSUME BreakerAssumption ==
    /\ Keys # {}
    /\ IsFiniteSet(Threads)
    /\ MinimumRequests \in Nat
    /\ RatioNum \in Nat /\ RatioDen \in Nat \ {0}
    /\ MaxHalfOpenRequests \in Nat \ {0}
    /\ MaxGeneration \in Nat /\ MaxCount \in Nat

VARIABLES
    cbMap,      \* key -> index into breakers, or 0
    breakers,   \* every gobreaker.CircuitBreaker ever created
    gauge,      \* CircuitBreakerState, per key
    thread      \* the RoundTrips in progress

vars == <<cbMap, breakers, gauge, thread>>

-----------------------------------------------------------------------------
(* gobreaker.CircuitBreaker.  ConsecutiveSuccesses is only read in the     *)
(* half-open state, where the first failure ends the generation: there it  *)
(* equals TotalSuccesses.                                                  *)

States == {"closed", "open", "half-open"}

Breaker == [key : Keys, state : States, generation : Nat, requests : Nat,
            successes : Nat, failures : Nat, expired : BOOLEAN]

NewCircuitBreaker(key) ==
    [key |-> key, state |-> "closed", generation |-> 1, requests |-> 0,
     successes |-> 0, failures |-> 0, expired |-> FALSE]

\* Faulty variant: the counts of the old generation are kept.
NewGenerationKeepsCounts(b, state) ==
    [b EXCEPT !.state = state, !.generation = @ + 1, !.expired = FALSE]

\* setState and toNewGeneration: the counts start from zero.
NewGeneration(b, state) ==
    [key |-> b.key, state |-> state, generation |-> b.generation + 1,
     requests |-> 0, successes |-> 0, failures |-> 0, expired |-> FALSE]

\* The half-open state has no expiry.
currentState(b) ==
    IF b.expired
    THEN NewGeneration(b, IF b.state = "open" THEN "half-open" ELSE "closed")
    ELSE b

\* beforeRequest, after currentState: neither ErrOpenState nor
\* ErrTooManyRequests.
admits(b) ==
    \/ b.state = "closed"
    \/ b.state = "half-open" /\ b.requests < MaxHalfOpenRequests

\* Faulty variant: asks for a ratio above the threshold.
ReadyToTripAbove(b) ==
    /\ b.requests >= MinimumRequests /\ b.requests # 0
    /\ b.failures * RatioDen > RatioNum * b.requests

ReadyToTrip(b) ==
    /\ b.requests >= MinimumRequests /\ b.requests # 0
    /\ b.failures * RatioDen >= RatioNum * b.requests

\* Faulty variant: waits for one success more than it admits requests.
onSuccessNeverEnough(b) ==
    LET c == [b EXCEPT !.successes = @ + 1]
    IN  IF b.state = "half-open" /\ c.successes > MaxHalfOpenRequests
        THEN NewGeneration(c, "closed") ELSE c

onSuccess(b) ==
    LET c == [b EXCEPT !.successes = @ + 1]
    IN  IF b.state = "half-open" /\ c.successes >= MaxHalfOpenRequests
        THEN NewGeneration(c, "closed") ELSE c

onFailure(b) ==
    LET c == [b EXCEPT !.failures = @ + 1]
    IN  IF b.state = "half-open" \/ ReadyToTrip(c)
        THEN NewGeneration(c, "open") ELSE c

\* Faulty variant: a failure of an earlier generation ends the trial.
afterRequestLateFailure(b, generation, success) ==
    LET c == currentState(b)
    IN  IF c.state = "open" \/ (c.generation # generation /\ success) THEN c
        ELSE IF c.generation # generation
        THEN IF c.state = "half-open" THEN NewGeneration(c, "open") ELSE c
        ELSE IF success THEN onSuccess(c) ELSE onFailure(c)

\* The answer to a request of an earlier generation is dropped.
afterRequest(b, generation, success) ==
    LET c == currentState(b)
    IN  IF c.generation # generation \/ c.state = "open" THEN c
        ELSE IF success THEN onSuccess(c) ELSE onFailure(c)

\* Errors, 5xx and 429 count as failures; a response is returned all the same.
Succeeded(res) == res.err = NoError /\ res.status < 500 /\ res.status # 429

-----------------------------------------------------------------------------
Idle == [pc |-> "idle", key |-> CHOOSE k \in Keys : TRUE, cb |-> 0,
         generation |-> 0]

Init ==
    /\ cbMap = [k \in Keys |-> 0]
    /\ breakers = <<>>
    /\ gauge = [k \in Keys |-> "none"]
    /\ thread = [t \in Threads |-> Idle]

\* Under the breaker's mutex; OnStateChange sets the gauge.
Update(i, b) ==
    /\ breakers' = [breakers EXCEPT ![i] = b]
    /\ gauge' = IF b.state # breakers[i].state
                THEN [gauge EXCEPT ![b.key] = b.state] ELSE gauge

\* getBreaker under the read lock.
Lookup(t) ==
    /\ thread[t].pc = "idle"
    /\ \E k \in Keys :
          /\ cbMap[k] # 0 => breakers[cbMap[k]].requests < MaxCount
          /\ thread' = [thread EXCEPT ![t] =
                 [pc |-> IF cbMap[k] = 0 THEN "create" ELSE "before",
                  key |-> k, cb |-> cbMap[k], generation |-> 0]]
    /\ UNCHANGED <<cbMap, breakers, gauge>>

\* Faulty variant: the map is not looked at again under the write lock.
CreateUnchecked(t) ==
    /\ thread[t].pc = "create"
    /\ LET k == thread[t].key
           n == Len(breakers) + 1
       IN  /\ breakers' = Append(breakers, NewCircuitBreaker(k))
           /\ cbMap' = [cbMap EXCEPT ![k] = n]
           /\ gauge' = [gauge EXCEPT ![k] = "closed"]
           /\ thread' = [thread EXCEPT ![t].pc = "before", ![t].cb = n]

\* getBreaker under the write lock: another RoundTrip may have been first.
Create(t) ==
    /\ thread[t].pc = "create"
    /\ LET k == thread[t].key
           n == Len(breakers) + 1
       IN  IF cbMap[k] # 0
           THEN /\ thread' = [thread EXCEPT ![t].pc = "before",
                                            ![t].cb = cbMap[k]]
                /\ UNCHANGED <<cbMap, breakers, gauge>>
           ELSE /\ breakers' = Append(breakers, NewCircuitBreaker(k))
                /\ cbMap' = [cbMap EXCEPT ![k] = n]
                /\ gauge' = [gauge EXCEPT ![k] = "closed"]
                /\ thread' = [thread EXCEPT ![t].pc = "before", ![t].cb = n]

\* beforeRequest: admitted and counted, or turned away with an error.
Before(t) ==
    /\ thread[t].pc = "before"
    /\ LET i == thread[t].cb
           c == currentState(breakers[i])
       IN  IF admits(c)
           THEN /\ Update(i, [c EXCEPT !.requests = @ + 1])
                /\ thread' = [thread EXCEPT ![t].pc = "sent",
                                            ![t].generation = c.generation]
           ELSE /\ Update(i, c)
                /\ thread' = [thread EXCEPT ![t] = Idle]
    /\ UNCHANGED cbMap

\* The wrapped transport returned; afterRequest.
After(t) ==
    /\ thread[t].pc = "sent"
    /\ \E res \in Results :
          Update(thread[t].cb, afterRequest(breakers[thread[t].cb],
                                            thread[t].generation,
                                            Succeeded(res)))
    /\ thread' = [thread EXCEPT ![t] = Idle]
    /\ UNCHANGED cbMap

\* cb.State(), asked by routing (resolveCircuitBreakerHealth) and readiness.
StateAsked ==
    /\ \E k \in Keys :
          /\ cbMap[k] # 0
          /\ breakers[cbMap[k]].expired
          /\ Update(cbMap[k], currentState(breakers[cbMap[k]]))
    /\ UNCHANGED <<cbMap, thread>>

\* The interval of a closed or the timeout of an open breaker is over.
Expire ==
    /\ \E i \in 1..Len(breakers) :
          /\ breakers[i].state # "half-open" /\ ~breakers[i].expired
          /\ breakers[i].generation < MaxGeneration
          /\ breakers' = [breakers EXCEPT ![i].expired = TRUE]
    /\ UNCHANGED <<cbMap, gauge, thread>>

Next ==
    \/ \E t \in Threads : Lookup(t) \/ Create(t) \/ Before(t) \/ After(t)
    \/ StateAsked
    \/ Expire

\* An attempt has a deadline, so the wrapped transport returns.
Spec == Init /\ [][Next]_vars /\ \A t \in Threads : WF_vars(After(t))

-----------------------------------------------------------------------------
(* Properties.                                                             *)

Request(made) == [pc : {"idle", "create", "before", "sent"}, key : Keys,
                  cb : 0..made, generation : Nat]

TypeOK ==
    /\ breakers \in Seq(Breaker)
    /\ cbMap \in [Keys -> 0..Len(breakers)]
    /\ gauge \in [Keys -> States \cup {"none"}]
    /\ thread \in [Threads -> Request(Len(breakers))]

\* The requests the breaker still waits for in its generation.
InFlight(i) == {t \in Threads : /\ thread[t].pc = "sent"
                                /\ thread[t].cb = i
                                /\ thread[t].generation = breakers[i].generation}

\* Every request of a generation is counted as success, as failure, or is
\* still in flight, however late the answers of other generations come in
\* (beforeRequest and afterRequest of the breaker RoundTrip executes on).
CountsExact ==
    \A i \in 1..Len(breakers) :
        breakers[i].requests = breakers[i].successes + breakers[i].failures
                                 + Cardinality(InFlight(i))

\* A key has one breaker, so the gauge, which every breaker of that name
\* writes, shows its state (getBreaker's second look at the map, and
\* setCircuitBreakerMetric in OnStateChange).
GaugeShowsState ==
    \A k \in Keys :
        gauge[k] = IF cbMap[k] = 0 THEN "none" ELSE breakers[cbMap[k]].state

\* The present period of a key's breaker, with the requests in flight as the
\* pending ones.
period(k) ==
    IF cbMap[k] = 0 THEN [state |-> "none", pending |-> {}, successes |-> 0]
    ELSE LET b == breakers[cbMap[k]]
         IN  [state |-> b.state, pending |-> InFlight(cbMap[k]),
              successes |-> IF b.state = "half-open" THEN b.successes ELSE 0]

\* What the breakers promise.
Contract == INSTANCE BreakerContract WITH breaker <- [k \in Keys |-> period(k)]

\* The breakers keep their contract: a key has one breaker, which opens by a
\* failure of its present period only, never closes without a trial, admits no
\* more than MaxRequests to one, and drops the answers of earlier periods.
ImplementsContract == Contract!Spec

RatioReached(requests, failures) ==
    requests >= MinimumRequests /\ failures * RatioDen >= RatioNum * requests

\* From breaker b to c: a failure that is counted leaves a closed breaker
\* below its ratio, and a closed breaker opens only by a failure that reaches
\* the ratio.
FailureWeighed(b, c) ==
    /\ c.failures > b.failures =>
          c.state = "closed" /\ ~RatioReached(c.requests, c.failures)
    /\ b.state = "closed" /\ c.state = "open" =>
          RatioReached(b.requests, b.failures + 1)

BelowRatio(b) ==
    b.state = "closed" /\ b.failures > 0 /\ b.failures >= MinimumRequests
      => b.failures * RatioDen < RatioNum * b.requests

\* A breaker opens with the first failure that finds enough requests and the
\* failure ratio reached, and with no other, although the requests counted
\* include those in flight.  Between failures nobody looks: admissions and
\* successes may bring a closed breaker with few failures to its minimum and
\* its ratio, but never one whose failures alone are the minimum
\* (ReadyToTrip, asked by onFailure only).
TripsInTime ==
    /\ [](\A i \in 1..Len(breakers) : BelowRatio(breakers[i]))
    /\ [][\A i \in 1..Len(breakers) :
             FailureWeighed(breakers[i], breakers'[i])]_vars

\* A trial in which all the admitted requests are out ends: the breaker
\* closes or opens again (afterRequest).
TrialEnds ==
    \A k \in Keys :
        LET trial == cbMap[k] # 0 /\ breakers[cbMap[k]].state = "half-open"
        IN  (trial /\ breakers[cbMap[k]].requests = MaxHalfOpenRequests)
                ~> ~trial

=============================================================================
