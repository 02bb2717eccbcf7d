---------------------------- MODULE Availability ----------------------------
(***************************************************************************)
(* How the parts of the gateway that judge an upstream act on each other:  *)
(* the circuit breakers (BreakerContract), the health map with its active  *)
(* probes and passive results (internal/proxy/health.go), the health-aware *)
(* order of the candidates (internal/middleware/router.go), the retry loop *)
(* (internal/proxy/proxy.go) and the readiness endpoint                    *)
(* (internal/router/router.go).                                            *)
(*                                                                         *)
(* The configuration is fixed and every candidate has an address of its    *)
(* own, so a provider names its breaker.  Modules CircuitBreaker,          *)
(* ProviderHealth, ModelRouter and GatewayProxy have the details of each   *)
(* part.                                                                   *)
(***************************************************************************)
EXTENDS Naturals, Sequences, FiniteSets, Functions

CONSTANTS
    Candidates,            \* the providers of the model, in configured order
    Threads,               \* concurrent requests
    MaxHalfOpenRequests,   \* config upstream.breaker_half_open_requests
    Attempts,              \* attempt budget at each provider
    Changing,              \* upstreams that go down and come back
    Probed,                \* providers whose probes get a verdict now and again
    Casts, Poller          \* who takes part: sets of threads, and of Poller,
                           \* who asks for readiness

Providers == Range(Candidates)

ASSUME AvailabilityAssumption ==
    /\ Candidates \in Seq(Providers)
    /\ Len(Candidates) >= 2 /\ IsInjective(Candidates)
    /\ IsFiniteSet(Threads)
    /\ MaxHalfOpenRequests \in Nat \ {0} /\ Attempts \in Nat \ {0}

VARIABLES
    breaker,     \* the breakers of the transport
    status,      \* providerHealthMap
    upstream,    \* whether the upstreams answer
    request,     \* the requests between router and response
    ready,       \* a readiness request and its last answer
    seen         \* history: what was true of each provider at some moment of
                 \* the readiness request under way

sys == <<breaker, status, upstream, request, ready>>
vars == <<breaker, status, upstream, request, ready, seen>>

Breakers == INSTANCE BreakerContract WITH Keys <- Providers

-----------------------------------------------------------------------------
Idle == [pc |-> "idle", at |-> 1, down |-> {}, attempt |-> 1, result |-> "none"]

NotAsked == [pc |-> "idle", at |-> 1, statuses |-> <<>>, httpStatus |-> 0]

\* After RefreshProviderHealthSnapshot of initUpstreamHealthMonitor.
Init ==
    /\ Breakers!Init
    /\ status = [p \in Providers |-> TRUE]
    /\ upstream \in [Providers -> {"up", "down"}]
    /\ \E cast \in Casts :
          /\ request = [t \in Threads |->
                 IF t \in cast THEN Idle ELSE [Idle EXCEPT !.pc = "absent"]]
          /\ ready = IF Poller \in cast THEN NotAsked
                     ELSE [NotAsked EXCEPT !.pc = "absent"]
    /\ seen = [p \in Providers |-> {}]

\* The environment: an upstream goes down or comes back.
UpstreamChanges(p) ==
    /\ p \in Changing
    /\ upstream' = [upstream EXCEPT ![p] = IF @ = "up" THEN "down" ELSE "up"]
    /\ UNCHANGED <<breaker, status, request, ready>>

Answers(p) == upstream[p] = "up"

-----------------------------------------------------------------------------
(* Health.                                                                 *)

\* Faulty variant: a half-open breaker counts as unhealthy.
breakerHealthyClosed(state) == state \in {"none", "closed"}

\* resolveCircuitBreakerHealth; without a breaker there is nothing against p.
breakerHealthy(state) == state # "open"

\* resolveProviderHealth says known and not healthy: routing puts p last.
Unavailable(p) == ~breakerHealthy(breaker[p].state) \/ ~status[p]

updateProviderHealth(p, healthy) == status' = [status EXCEPT ![p] = healthy]

\* Faulty variant: a probe takes a provider out but never back in.
ProbeOut(p) ==
    /\ updateProviderHealth(p, status[p] /\ Answers(p))
    /\ UNCHANGED <<breaker, upstream, request, ready>>

\* probeProvider, which goes past the breakers.  A verdict that is inconclusive
\* (the root of the provider answers with a 4xx) leaves the map as it is.
\* Verdicts that are stored late are in module ProviderHealth.
Probe(p) ==
    /\ \/ updateProviderHealth(p, Answers(p))
       \/ Answers(p) /\ UNCHANGED status
    /\ UNCHANGED <<breaker, upstream, request, ready>>

-----------------------------------------------------------------------------
(* A request.                                                              *)

Set(t, r) == request' = [request EXCEPT ![t] = r]

Arrive(t) ==
    /\ request[t].pc = "idle"
    /\ Set(t, [Idle EXCEPT !.pc = "ask"])
    /\ UNCHANGED <<breaker, status, upstream, ready>>

\* The verdict on one candidate is in; the next one, or the first attempt.
Resolved(t, down) ==
    LET r == request[t]
    IN  Set(t, IF r.at < Len(Candidates)
               THEN [r EXCEPT !.pc = "ask", !.at = @ + 1, !.down = down]
               ELSE [r EXCEPT !.pc = "send", !.at = 1, !.down = down])

\* resolveProviderHealth: the breaker first, and the map if it is not open.
AskBreaker(t) ==
    LET p == Candidates[request[t].at]
    IN  /\ request[t].pc = "ask"
        /\ Breakers!Ask(p)
        /\ IF breakerHealthy(breaker'[p].state)
           THEN Set(t, [request[t] EXCEPT !.pc = "read"])
           ELSE Resolved(t, request[t].down \cup {p})
        /\ UNCHANGED <<status, upstream, ready>>

ReadStatus(t) ==
    LET p == Candidates[request[t].at]
    IN  /\ request[t].pc = "read"
        /\ Resolved(t, request[t].down \cup (IF status[p] THEN {} ELSE {p}))
        /\ UNCHANGED <<breaker, status, upstream, ready>>

\* The candidates that are not down go first; both halves keep their order.
reordered(down) ==
    SelectSeq(Candidates, LAMBDA p : p \notin down)
        \o SelectSeq(Candidates, LAMBDA p : p \in down)

Target(r) == reordered(r.down)[r.at]

\* getBreaker.
GetBreaker(t) ==
    /\ request[t].pc = "send"
    /\ Breakers!Appear(Target(request[t]))
    /\ UNCHANGED <<status, upstream, request, ready>>

\* The attempt passes the breaker, or is turned away by it.
Send(t) ==
    LET p == Target(request[t])
    IN  /\ request[t].pc = "send"
        /\ breaker[p].state # "none"
        /\ \/ /\ Breakers!Admit(p, t)
              /\ Set(t, [request[t] EXCEPT !.pc = "sent"])
           \/ /\ Breakers!Ask(p)
              /\ ~Breakers!admits(breaker'[p])
              /\ Set(t, [request[t] EXCEPT !.pc = "report", !.result = "failed"])
        /\ UNCHANGED <<status, upstream, ready>>

\* The upstream's answer, or its failure, reaches the breaker.
Return(t) ==
    LET p == Target(request[t])
    IN  /\ request[t].pc = "sent"
        /\ Breakers!Answer(p, t, Answers(p))
        /\ Set(t, [request[t] EXCEPT !.pc = "report",
                      !.result = IF Answers(p) THEN "ok" ELSE "failed"])
        /\ UNCHANGED <<status, upstream, ready>>

\* The client leaves, at any upstream: for breaker and health map a failure like
\* any other.
ClientLeaves(t) ==
    LET p == Target(request[t])
    IN  /\ request[t].pc = "sent"
        /\ Breakers!Answer(p, t, FALSE)
        /\ Set(t, [request[t] EXCEPT !.pc = "report", !.result = "canceled"])
        /\ UNCHANGED <<status, upstream, ready>>

\* markPassiveProbeResult puts the result into the map; then the attempt is
\* classified: answered or given up by the client, tried again, or the next
\* candidate's turn (at once for a status that fails over), after the last of
\* which the request fails.
Report(t) ==
    LET r == request[t]
        failover == IF r.at < Len(Candidates)
                    THEN [r EXCEPT !.pc = "send", !.at = @ + 1, !.attempt = 1]
                    ELSE Idle
    IN  /\ r.pc = "report"
        /\ updateProviderHealth(Target(r), r.result = "ok")
        /\ \/ r.result \in {"ok", "canceled"} /\ Set(t, Idle)
           \/ r.result = "failed" /\ Set(t, failover)
           \/ /\ r.result = "failed" /\ r.attempt < Attempts
              /\ Set(t, [r EXCEPT !.pc = "send", !.attempt = @ + 1])
        /\ UNCHANGED <<breaker, upstream, ready>>

-----------------------------------------------------------------------------
(* Readiness.                                                              *)

\* GetUpstreamStatuses, under the read lock.
ReadyCopy ==
    /\ ready.pc = "idle"
    /\ ready' = [ready EXCEPT !.pc = "overlay", !.statuses = status, !.httpStatus = 0]
    /\ UNCHANGED <<breaker, status, upstream, request>>

\* Faulty variant: a half-open breaker hides its provider.
overlayHalfOpen(healthy, state) == healthy /\ state \in {"none", "closed"}

overlay(healthy, state) == healthy /\ state # "open"

\* buildReadyHealthResponse.
httpStatusOf(statuses) ==
    IF \A p \in Providers : ~statuses[p] THEN 503 ELSE 200

\* GetEffectiveUpstreamStatuses asks one breaker after the other.
ReadyOverlay ==
    LET p == Candidates[ready.at]
        s == [ready.statuses EXCEPT ![p] = overlay(@, breaker'[p].state)]
    IN  /\ ready.pc = "overlay"
        /\ Breakers!Ask(p)
        /\ ready' = IF ready.at < Len(Candidates)
                    THEN [ready EXCEPT !.at = @ + 1, !.statuses = s]
                    ELSE [NotAsked EXCEPT !.httpStatus = httpStatusOf(s)]
        /\ UNCHANGED <<status, upstream, request>>

-----------------------------------------------------------------------------
Step(t) ==
    \/ AskBreaker(t) \/ ReadStatus(t) \/ GetBreaker(t) \/ Send(t)
    \/ Return(t) \/ Report(t)

\* What is true of p: each of the two sources that routing asks speaks for it,
\* or routing takes it for unhealthy.
Facts(p) ==
    (IF status[p] THEN {"entry"} ELSE {})
        \cup (IF breakerHealthy(breaker[p].state) THEN {"breaker"} ELSE {})
        \cup (IF Unavailable(p) THEN {"unavailable"} ELSE {})

Watch ==
    seen' = [p \in Providers |->
                IF ready'.pc # "overlay" THEN {}
                ELSE Facts(p)' \cup (IF ready.pc = "overlay" THEN seen[p] ELSE {})]

Next ==
    /\ \/ \E p \in Providers : UpstreamChanges(p) \/ Probe(p)
       \/ \E t \in Threads : Arrive(t) \/ Step(t) \/ ClientLeaves(t)
       \/ ReadyCopy
       \/ ReadyOverlay
    /\ Watch

Look == ReadyOverlay \/ \E t \in Threads : AskBreaker(t)

\* Handlers run on, and so do probes, which reach a verdict for the providers
\* in Probed; whoever polls readiness goes on; and the timeout of an open
\* breaker is over one day: not every look finds it open.
Fairness ==
    /\ \A p \in Probed : WF_sys(Probe(p))
    /\ \A t \in Threads : WF_sys(Step(t))
    /\ WF_sys(ReadyCopy \/ ReadyOverlay)
    /\ \A p \in Providers :
          SF_sys(Look /\ breaker[p].state = "open" /\ breaker'[p].state # "open")

Spec == Init /\ [][Next]_vars /\ Fairness

-----------------------------------------------------------------------------
(* Properties.                                                             *)

\* Readiness and routing use the same availability truth, as the comment on
\* GetEffectiveUpstreamStatuses says, although the endpoint copies the map
\* first and asks the breakers one after the other later: with a 503, every
\* provider was unhealthy for routing at some moment of the request; with a
\* 200, the map spoke for one of them at some moment, and so did its breaker.
\* When nothing changes meanwhile, the answer is routing's.
ReadinessMatchesRouting ==
    [][ready.pc = "overlay" /\ ready'.pc = "idle" =>
          LET met(p) == seen[p] \cup Facts(p)'
          IN  /\ ready'.httpStatus = 503 =>
                    \A p \in Providers : "unavailable" \in met(p)
              /\ ready'.httpStatus = 200 =>
                    \E p \in Providers : {"entry", "breaker"} \subseteq met(p)]_vars

\* From some time on no client leaves an attempt.
ClientsStay == <>[](\A t \in Threads : request[t].result # "canceled")

\* Once an upstream answers for good, readiness reports it, also when no more
\* requests come in because a load balancer has withdrawn them: probes repair
\* the map, and looking at an open breaker is enough for it to let go.  Its
\* probes must reach a verdict, and clients stop leaving: each one who leaves
\* marks the provider unhealthy.
ReadyAgain ==
    (\E p \in Probed : <>[]Answers(p)) /\ ClientsStay => <>[](ready.httpStatus # 503)

\* With requests coming in, an upstream that answers for good is back in its
\* place for good: its breaker closes and its health is restored.  The claim
\* is about the first candidate; a later one sees no requests to close its
\* breaker with while an earlier one answers.
RecoveryCompletes ==
    LET p == Candidates[1]
    IN  /\ p \in Probed /\ <>[]Answers(p) /\ ClientsStay
        /\ []<>(\E t \in Threads : request[t].pc = "ask")
        => <>[](breaker[p].state \in {"none", "closed"} /\ status[p])

=============================================================================
