---------------------------- MODULE ModelRouter ----------------------------
(***************************************************************************)
(* ModelRouterMiddleware (internal/middleware/router.go): the route table  *)
(* built from the configuration and cached under the configuration it was  *)
(* built from, and the health-aware order of the candidates.               *)
(*                                                                         *)
(* A lookup reads the configuration, then the cache, then takes the table  *)
(* lock if the cache was built from another configuration, and asks the    *)
(* health of one candidate after the other.  Configuration, cache and      *)
(* health may change between any two of these steps.                       *)
(***************************************************************************)
EXTENDS Naturals, Sequences, FiniteSets, Functions

CONSTANTS
    Providers, Models,
    Configs,        \* configurations that may be loaded: sequences of
                    \* [name |-> a provider, models |-> a set of models]
    Threads         \* concurrent requests

ASSUME RouterAssumption ==
    /\ Configs \subseteq Seq([name : Providers, models : SUBSET Models])
    /\ \A c \in Configs : IsInjective([i \in 1..Len(c) |-> c[i].name])

VARIABLES
    globalConfig,      \* config.GlobalConfig
    routeTableCache,   \* the cached table, or NoTable
    unhealthy,         \* the providers the resolver knows to be unhealthy
    request            \* the requests in the middleware

vars == <<globalConfig, routeTableCache, unhealthy, request>>

-----------------------------------------------------------------------------
(* Tables.                                                                 *)

NoTable == [cfg |-> <<>>, byModel |-> [m \in {} |-> <<>>]]

Serves(provider, m) == m \in provider.models

\* The elements of a finite set of numbers in ascending order.
Ascending(S) ==
    CHOOSE s \in [1..Cardinality(S) -> S] :
        \A i, j \in 1..Cardinality(S) : i < j => s[i] < s[j]

\* The configuration's providers for the model, as index into it.
Offering(cfg, m) == {i \in 1..Len(cfg) : Serves(cfg[i], m)}

\* Faulty variant: priorities count from zero.
routeFromZero(cfg, i) == [name |-> cfg[i].name, priority |-> i - 1]

\* A route is the provider's name with its priority.
route(cfg, i) == [name |-> cfg[i].name, priority |-> i]

\* The providers of each model in the order of the configuration.
buildRouteTable(cfg) ==
    LET entry(m) == LET s == Ascending(Offering(cfg, m))
                    IN  [i \in 1..Cardinality(Offering(cfg, m)) |-> route(cfg, s[i])]
    IN  [cfg |-> cfg,
         byModel |-> [m \in {x \in Models : Offering(cfg, x) # {}} |-> entry(m)]]

\* Faulty variant: any table will do.
cacheHitAny(table, cfg) == table # NoTable

cacheHit(table, cfg) == table # NoTable /\ table.cfg = cfg

-----------------------------------------------------------------------------
(* applyHealthAwareRouting, one candidate after the other.  down is        *)
(* history: the verdicts so far, TRUE for known to be unhealthy.           *)

Resolved(r, isDown) ==
    LET candidate == r.entry[Len(r.down) + 1]
    IN  [r EXCEPT !.down = Append(@, isDown),
                  !.sawUnhealthy = @ \/ isDown,
                  !.reordered = @ \/ (~isDown /\ r.sawUnhealthy),
                  !.healthyCandidates = IF isDown THEN @
                                        ELSE Append(@, candidate),
                  !.unhealthyCandidates = IF isDown THEN Append(@, candidate)
                                          ELSE @]

\* Fewer than two candidates are not asked about.
AllAsked(r) == Len(r.entry) < 2 \/ Len(r.down) = Len(r.entry)

\* Faulty variant: the unhealthy candidates come first.
unhealthyFirst(r) == r.unhealthyCandidates \o r.healthyCandidates

healthyFirst(r) == r.healthyCandidates \o r.unhealthyCandidates

-----------------------------------------------------------------------------
(* The middleware.                                                         *)

\* The body context: missing, not JSON, without a model, or its model.
Bodies == {"missing", "invalid", "no_model"} \cup Models

NoRequest == [pc |-> "idle", body |-> "missing", cfg |-> <<>>,
              entry |-> <<>>, down |-> <<>>,
              healthyCandidates |-> <<>>, unhealthyCandidates |-> <<>>,
              sawUnhealthy |-> FALSE, reordered |-> FALSE,
              candidates |-> <<>>, policy |-> "none", status |-> 0]

Init ==
    /\ globalConfig \in Configs
    /\ routeTableCache = NoTable
    /\ unhealthy \in SUBSET Providers
    /\ request = [t \in Threads |-> NoRequest]

LoadConfig ==
    /\ globalConfig' \in Configs \ {globalConfig}
    /\ UNCHANGED <<routeTableCache, unhealthy, request>>

HealthChanges ==
    /\ \E p \in Providers :
          unhealthy' = IF p \in unhealthy THEN unhealthy \ {p}
                       ELSE unhealthy \cup {p}
    /\ UNCHANGED <<globalConfig, routeTableCache, request>>

\* The checks before the lookup, and the configuration it will use.
Entered(body, cfg) ==
    IF body = "missing"
    THEN [NoRequest EXCEPT !.pc = "done", !.status = 500]
    ELSE IF body \in {"invalid", "no_model"}
    THEN [NoRequest EXCEPT !.pc = "done", !.body = body, !.status = 400]
    ELSE [NoRequest EXCEPT !.pc = "load", !.body = body, !.cfg = cfg]

Enter(t) ==
    /\ request[t].pc = "idle"
    /\ \E body \in Bodies :
          request' = [request EXCEPT ![t] = Entered(body, globalConfig)]
    /\ UNCHANGED <<globalConfig, routeTableCache, unhealthy>>

\* With the table in hand: the model's entry, or 404.
Lookup(r, table) ==
    IF r.body \notin DOMAIN table.byModel
    THEN [r EXCEPT !.pc = "done", !.status = 404]
    ELSE [r EXCEPT !.pc = "resolve", !.entry = table.byModel[r.body]]

LoadTable(t) ==
    /\ request[t].pc = "load"
    /\ request' = [request EXCEPT ![t] =
          IF cacheHit(routeTableCache, request[t].cfg)
          THEN Lookup(@, routeTableCache) ELSE [@ EXCEPT !.pc = "lock"]]
    /\ UNCHANGED <<globalConfig, routeTableCache, unhealthy>>

\* Under routeTableMu: another request may have built the table by now, or a
\* table for a newer configuration, which this one replaces.
BuildTable(t) ==
    /\ request[t].pc = "lock"
    /\ routeTableCache' = IF cacheHit(routeTableCache, request[t].cfg)
                          THEN routeTableCache
                          ELSE buildRouteTable(request[t].cfg)
    /\ request' = [request EXCEPT ![t] = Lookup(@, routeTableCache')]
    /\ UNCHANGED <<globalConfig, unhealthy>>

\* The resolver's verdict on the next candidate.
ResolveNext(t) ==
    /\ request[t].pc = "resolve"
    /\ ~AllAsked(request[t])
    /\ LET p == request[t].entry[Len(request[t].down) + 1].name
       IN  request' = [request EXCEPT ![t] = Resolved(@, p \in unhealthy)]
    /\ UNCHANGED <<globalConfig, routeTableCache, unhealthy>>

\* The request with the candidates in the order it is to try them.
RouteOf(r) ==
    [r EXCEPT !.pc = "done", !.status = 200,
              !.candidates = IF r.reordered THEN healthyFirst(r) ELSE r.entry,
              !.policy = IF r.reordered THEN "healthy_then_configured_order"
                                        ELSE "configured_order"]

\* The gateway context goes to the proxy; its first candidate is active.
Route(t) ==
    /\ request[t].pc = "resolve"
    /\ AllAsked(request[t])
    /\ request' = [request EXCEPT ![t] = RouteOf(@)]
    /\ UNCHANGED <<globalConfig, routeTableCache, unhealthy>>

Leave(t) ==
    /\ request[t].pc = "done"
    /\ request' = [request EXCEPT ![t] = NoRequest]
    /\ UNCHANGED <<globalConfig, routeTableCache, unhealthy>>

Next ==
    \/ LoadConfig \/ HealthChanges
    \/ \E t \in Threads : \/ Enter(t) \/ LoadTable(t) \/ BuildTable(t)
                          \/ ResolveNext(t) \/ Route(t) \/ Leave(t)

Spec == Init /\ [][Next]_vars

-----------------------------------------------------------------------------
(* Properties.                                                             *)

Candidate == [name : Providers, priority : Nat \ {0}]

Steps == {"idle", "load", "lock", "resolve", "done"}

Policies == {"none", "configured_order", "healthy_then_configured_order"}

Statuses == {0, 200, 400, 404, 500}

Request ==
    [pc : Steps, body : Bodies, cfg : Configs \cup {<<>>},
     entry : Seq(Candidate), down : Seq(BOOLEAN),
     healthyCandidates : Seq(Candidate), unhealthyCandidates : Seq(Candidate),
     sawUnhealthy : BOOLEAN, reordered : BOOLEAN, candidates : Seq(Candidate),
     policy : Policies, status : Statuses]

TypeOK ==
    /\ globalConfig \in Configs
    /\ routeTableCache \in {NoTable} \cup {buildRouteTable(c) : c \in Configs}
    /\ unhealthy \subseteq Providers
    /\ request \in [Threads -> Request]

Routed(r) == r.pc = "done" /\ r.status = 200

\* A request is routed by the configuration it read on entry, also when the
\* cache was rebuilt for another one meanwhile: every provider of the model
\* is a candidate once, with its priority, and at least one exists, so that
\* candidates[0] is safe; 404 means that configuration has none
\* (currentRouteTable's comparison of cached.cfg with cfg).
RoutedByOwnConfigOf(r) ==
    LET offering == {i \in 1..Len(r.cfg) : r.body \in r.cfg[i].models}
    IN  /\ Routed(r) =>
              /\ offering # {}
              /\ Len(r.candidates) = Cardinality(offering)
              /\ Range(r.candidates) =
                    {[name |-> r.cfg[i].name, priority |-> i] : i \in offering}
        /\ r.status = 404 => offering = {}

\* RoutedByOwnConfigOf for every request (currentRouteTable).
RoutedByOwnConfig == \A t \in Threads : RoutedByOwnConfigOf(request[t])

\* Was the candidate found to be unhealthy?
FoundDown(r, x) == \E i \in 1..Len(r.entry) : r.entry[i] = x /\ r.down[i]

\* Candidates found unhealthy come last, within each group the order of the
\* configuration is kept, and the policy in the trace says truly whether the
\* whole order is the configured one (applyHealthAwareRouting).
UnhealthyLastOf(r) ==
    LET c == r.candidates
    IN  Routed(r) =>
          /\ \A i, j \in 1..Len(c) : i < j =>
                \/ ~FoundDown(r, c[i]) /\ FoundDown(r, c[j])
                \/ /\ FoundDown(r, c[i]) = FoundDown(r, c[j])
                   /\ c[i].priority < c[j].priority
          /\ r.policy = "configured_order" <=>
                \A i, j \in 1..Len(c) : i < j => c[i].priority < c[j].priority

\* UnhealthyLastOf for every request (applyHealthAwareRouting).
UnhealthyLast == \A t \in Threads : UnhealthyLastOf(request[t])

=============================================================================
