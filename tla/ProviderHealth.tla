--------------------------- MODULE ProviderHealth ---------------------------
(***************************************************************************)
(* The health of the upstream providers (internal/proxy/health.go): the    *)
(* map routing and readiness read, the gauge operators read, and the three *)
(* writers of both: requests that report what they saw (passive), sweeps   *)
(* that probe every provider (active), and the refresh after a change of   *)
(* the configuration.                                                      *)
(*                                                                         *)
(* updateProviderHealth writes the map under its lock and the gauge after  *)
(* the unlock; a sweep copies the provider list before it waits for the    *)
(* sweep lock.  Both are separate steps here.                              *)
(***************************************************************************)
EXTENDS UpstreamOutcome, FiniteSets

CONSTANTS
    Providers,
    Configurations,  \* the sets of providers a configuration may name
    HasHealthPath,   \* providers with a health_check_path
    Answers,         \* what an upstream may answer, probes and requests alike
    Sweepers,        \* callers of probeConfiguredProviders
    Ticker,          \* the one of them that is the monitor's goroutine
    Requests         \* requests that report to markPassiveProbeResult

ASSUME HealthAssumption ==
    /\ Configurations \subseteq (SUBSET Providers) \ {{}}
    /\ HasHealthPath \subseteq Providers
    /\ Answers \subseteq Results
    /\ Ticker \in Sweepers

VARIABLES
    configured,   \* config.GlobalConfig.Providers
    reloading,    \* a new configuration awaits RefreshProviderHealthSnapshot
    health,       \* providerHealthMap
    gauge,        \* UpstreamProviderHealth
    answer,       \* what each upstream answers now
    sweep,        \* the sweeps: their step and their copy of the providers
    update        \* the updates in progress

vars == <<configured, reloading, health, gauge, answer, sweep, update>>

\* A request updates one provider, a sweep all of its copy at once.
Updaters == Requests \cup (Sweepers \X Providers)

Levels == {"healthy", "unhealthy", "absent"}

-----------------------------------------------------------------------------
(* Verdicts.                                                               *)

classifyPassiveProbeVerdict(res) ==
    IF \/ res.err # NoError
       \/ res.status \in {401, 403, 404, 408, 429}
       \/ res.status >= 500
    THEN "unhealthy" ELSE "healthy"

\* Faulty variant: every answer without a 5xx proves nothing.
activeVerdictTimid(p, res) ==
    IF res.err # NoError \/ res.status >= 500 THEN "unhealthy"
    ELSE "inconclusive"

\* Without a health path, 4xx says nothing about the provider.
classifyActiveProbeVerdict(p, res) ==
    IF res.err # NoError THEN "unhealthy"
    ELSE IF p \in HasHealthPath THEN classifyPassiveProbeVerdict(res)
    ELSE IF res.status \in {408, 429} \/ res.status >= 500 THEN "unhealthy"
    ELSE IF res.status >= 400 THEN "inconclusive"
    ELSE "healthy"

-----------------------------------------------------------------------------
NoUpdate == [pc |-> "idle", provider |-> CHOOSE p \in Providers : TRUE,
             verdict |-> "inconclusive"]
NoSweep == [pc |-> "idle", providers |-> {}]

\* After initUpstreamHealthMonitor has refreshed the snapshot.
Init ==
    /\ configured \in Configurations
    /\ reloading = FALSE
    /\ health = [p \in Providers |->
                    IF p \in configured THEN "healthy" ELSE "absent"]
    /\ gauge = health
    /\ answer \in [Providers -> Answers]
    /\ sweep = [s \in Sweepers |-> NoSweep]
    /\ update = [u \in Updaters |-> NoUpdate]

UpstreamChanges ==
    /\ \E p \in Providers, a \in Answers :
          a # answer[p] /\ answer' = [answer EXCEPT ![p] = a]
    /\ UNCHANGED <<configured, reloading, health, gauge, sweep, update>>

Reload ==
    /\ ~reloading
    /\ configured' \in Configurations \ {configured}
    /\ reloading' = TRUE
    /\ UNCHANGED <<health, gauge, answer, sweep, update>>

\* Statuses are kept, new providers start healthy.  The gauge of a provider
\* that is in neither the new nor the old map is left alone.
RefreshProviderHealthSnapshot ==
    /\ reloading
    /\ reloading' = FALSE
    /\ health' = [p \in Providers |->
                     IF p \notin configured THEN "absent"
                     ELSE IF health[p] = "absent" THEN "healthy"
                     ELSE health[p]]
    /\ gauge' = [p \in Providers |->
                    IF p \in configured \/ health[p] # "absent"
                    THEN health'[p] ELSE gauge[p]]
    /\ UNCHANGED <<configured, answer, sweep, update>>

-----------------------------------------------------------------------------
(* updateProviderHealth, and its two callers.                              *)

\* A request was routed to a configured provider.
RequestSent(r) ==
    /\ update[r].pc = "idle"
    /\ \E p \in configured :
          update' = [update EXCEPT ![r] = [NoUpdate EXCEPT
                        !.pc = "asked", !.provider = p]]
    /\ UNCHANGED <<configured, reloading, health, gauge, answer, sweep>>

\* A request also fails without the upstream: its client left, or the circuit
\* breaker refused it.  Probes do not go through the breaker.
Outcomes(u, p) ==
    {answer[p]} \cup IF u \in Requests
                     THEN {Failed("canceled"), Failed("open_state")} ELSE {}

VerdictOf(u, p, res) ==
    IF u \in Requests THEN classifyPassiveProbeVerdict(res)
    ELSE classifyActiveProbeVerdict(p, res)

\* Faulty variant: an inconclusive probe is stored.
AnsweredAlwaysStores(u) ==
    /\ update[u].pc = "asked"
    /\ \E res \in Outcomes(u, update[u].provider) :
          LET v == VerdictOf(u, update[u].provider, res)
          IN  update' = [update EXCEPT ![u] =
                            [@ EXCEPT !.pc = "answered", !.verdict = v]]
    /\ UNCHANGED <<configured, reloading, health, gauge, answer, sweep>>

\* The upstream answers; an inconclusive probe ends here.
Answered(u) ==
    /\ update[u].pc = "asked"
    /\ \E res \in Outcomes(u, update[u].provider) :
          LET v == VerdictOf(u, update[u].provider, res)
          IN  update' = [update EXCEPT ![u] =
                            IF v = "inconclusive" THEN NoUpdate
                            ELSE [@ EXCEPT !.pc = "answered", !.verdict = v]]
    /\ UNCHANGED <<configured, reloading, health, gauge, answer, sweep>>

\* Faulty variant: writes nothing over an existing entry.
StoreOnce(u) ==
    /\ update[u].pc = "answered"
    /\ health' = [health EXCEPT ![update[u].provider] =
                     IF @ = "absent" THEN update[u].verdict ELSE @]
    /\ update' = [update EXCEPT ![u].pc = "stored"]
    /\ UNCHANGED <<configured, reloading, gauge, answer, sweep>>

\* Under providerHealthMu, whether or not the provider is still configured.
Store(u) ==
    /\ update[u].pc = "answered"
    /\ health' = [health EXCEPT ![update[u].provider] = update[u].verdict]
    /\ update' = [update EXCEPT ![u].pc = "stored"]
    /\ UNCHANGED <<configured, reloading, gauge, answer, sweep>>

\* setProviderHealthMetric, after the unlock.
SetGauge(u) ==
    /\ update[u].pc = "stored"
    /\ gauge' = [gauge EXCEPT ![update[u].provider] = update[u].verdict]
    /\ update' = [update EXCEPT ![u] = NoUpdate]
    /\ UNCHANGED <<configured, reloading, health, answer, sweep>>

-----------------------------------------------------------------------------
(* probeConfiguredProviders.                                               *)

\* The copy of the configured providers, before the lock.
SweepBegins(s) ==
    /\ sweep[s].pc = "idle"
    /\ sweep' = [sweep EXCEPT ![s] = [pc |-> "waiting",
                                      providers |-> configured]]
    /\ UNCHANGED <<configured, reloading, health, gauge, answer, update>>

Unlocked == \A s \in Sweepers : sweep[s].pc # "probing"

\* providerProbeMu.Lock() and one goroutine per provider.
SweepProbes(s) ==
    /\ sweep[s].pc = "waiting"
    /\ Unlocked
    /\ sweep' = [sweep EXCEPT ![s].pc = "probing"]
    /\ update' = [u \in Updaters |->
                     IF \E p \in sweep[s].providers : u = <<s, p>>
                     THEN [NoUpdate EXCEPT !.pc = "asked", !.provider = u[2]]
                     ELSE update[u]]
    /\ UNCHANGED <<configured, reloading, health, gauge, answer>>

\* wg.Wait() and the unlock.
SweepEnds(s) ==
    /\ sweep[s].pc = "probing"
    /\ \A p \in Providers : update[<<s, p>>].pc = "idle"
    /\ sweep' = [sweep EXCEPT ![s] = NoSweep]
    /\ UNCHANGED <<configured, reloading, health, gauge, answer, update>>

Progress(u) == Answered(u) \/ Store(u) \/ SetGauge(u)

Next ==
    \/ UpstreamChanges \/ Reload \/ RefreshProviderHealthSnapshot
    \/ \E r \in Requests : RequestSent(r)
    \/ \E u \in Updaters : Progress(u)
    \/ \E s \in Sweepers : SweepBegins(s) \/ SweepProbes(s) \/ SweepEnds(s)

\* The monitor's goroutine sweeps forever; a probe and an attempt have a
\* deadline; a Go mutex does not starve a waiter; a reload ends with the
\* refresh.
Fairness ==
    /\ WF_vars(RefreshProviderHealthSnapshot)
    /\ WF_vars(SweepBegins(Ticker))
    /\ \A u \in Updaters : WF_vars(Progress(u))
    /\ \A s \in Sweepers : SF_vars(SweepProbes(s)) /\ WF_vars(SweepEnds(s))

Spec == Init /\ [][Next]_vars /\ Fairness

-----------------------------------------------------------------------------
(* Properties.                                                             *)

TypeOK ==
    /\ configured \in Configurations /\ reloading \in BOOLEAN
    /\ health \in [Providers -> Levels] /\ gauge \in [Providers -> Levels]
    /\ answer \in [Providers -> Answers]
    /\ sweep \in [Sweepers -> [pc : {"idle", "waiting", "probing"},
                               providers : SUBSET Providers]]
    /\ update \in [Updaters -> [pc : {"idle", "asked", "answered", "stored"},
                                provider : Providers,
                                verdict : {"healthy", "unhealthy",
                                           "inconclusive"}]]

Answering(p) == p \in configured /\ answer[p] = Status(200)
Failing(p) == p \in configured /\ (answer[p].err # NoError \/ answer[p].status >= 500)

\* A provider that has become well is used again: map and gauge return to
\* healthy while it answers 200, however often a late result, a client that
\* leaves (markPassiveProbeResult comes before the cancellation is
\* recognised) or the breaker marks it down in between.
RecoveryNoticed ==
    \A p \in Providers :
        <>[]Answering(p)
            => []<>(health[p] = "healthy") /\ []<>(gauge[p] = "healthy")

\* And a provider that fails every check ends up, and stays, unhealthy.
OutageNoticed ==
    \A p \in Providers :
        <>[]Failing(p)
            => <>[](health[p] = "unhealthy" /\ gauge[p] = "unhealthy")

\* What the comment of RefreshProviderHealthSnapshot says: "removed providers
\* are dropped from readiness output and metrics immediately".
RemovedStayRemoved ==
    ~reloading =>
        \A p \in Providers \ configured :
            health[p] = "absent" /\ gauge[p] = "absent"

=============================================================================
