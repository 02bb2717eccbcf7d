--------------------------- MODULE RequestPipeline ---------------------------
(***************************************************************************)
(* The path of a chat request through the handler chain that NewRouter and *)
(* buildChatHandler (internal/router) assemble:                            *)
(*                                                                         *)
(*   Recovery, draining, RequestMeta, AccessLog, Auth, RateLimit,          *)
(*   BodyContext, ModelAllowlist, ModelRouter, Metrics, proxy              *)
(*                                                                         *)
(* Going in, each handler may answer and return; coming back, Metrics and  *)
(* AccessLog record what their response observers saw.  A panic unwinds    *)
(* the chain to Recovery and runs only what was deferred.  The limiter,    *)
(* the router and the proxy are modules of their own; here they are what   *)
(* the chain sees of them.                                                 *)
(***************************************************************************)
EXTENDS Naturals, FiniteSets

CONSTANT Requests       \* requests being served concurrently

ASSUME RequestsAssumption == IsFiniteSet(Requests)

VARIABLES
    draining,           \* router.draining
    inFlight,           \* the RequestsInFlight gauge
    req                 \* the state of each request

vars == <<draining, inFlight, req>>

-----------------------------------------------------------------------------
(* Requests.                                                               *)

\* What the Authorization header holds: nothing usable, a token nobody has,
\* a token without an allowlist, a token with one.
Tokens == {"unusable", "unknown", "open", "restricted"}

\* What the body turns out to be.  net/http never hands a nil body to a
\* handler.  "listed" and "unlisted" are models that have a route and are,
\* or are not, in the restricted token's list; the other two have none.
Bodies == {"too_large", "unreadable", "undecodable", "no_model", "listed",
           "unlisted", "listed_unrouted", "unlisted_unrouted"}

Fresh == [pc        |-> "idle",
          token     |-> "unusable",
          body      |-> "unreadable",
          wire      |-> 0,          \* the status line the client was sent
          recorder  |-> 0,          \* statusCode of AccessLog's observer
          wrapped   |-> 0,          \* statusCode of Metrics' observer
          final     |-> 0,          \* gatewayCtx.FinalStatusCode
          logged    |-> 0,          \* status_code of the access log entry
          counted   |-> 0,          \* status_code label of RequestTotal
          refused   |-> FALSE,      \* turned away by drainingMiddleware
          panicked  |-> FALSE]

Init ==
    /\ draining = FALSE
    /\ inFlight = 0
    /\ req = [i \in Requests |-> Fresh]

\* Only the first status is kept, by an observer as by net/http.
First(seen, status) == IF seen = 0 THEN status ELSE seen

\* responseObserver.WriteHeader and its implicit 200 in Write and ReadFrom.
observed(seen, status) == First(seen, status)

\* A response written by a handler between AccessLog and Metrics.
WriteError(r, status) ==
    [r EXCEPT !.recorder = observed(@, status), !.wire = First(@, status)]

\* Faulty variant: a write that goes round Metrics' observer.
WriteThroughBypass(r, status) ==
    [r EXCEPT !.recorder = observed(@, status), !.wire = First(@, status)]

\* A response written by the proxy goes through both observers.
WriteThrough(r, status) ==
    [r EXCEPT !.wrapped = observed(@, status), !.recorder = observed(@, status),
              !.wire = First(@, status)]

-----------------------------------------------------------------------------
(* Going in.                                                               *)

SetDraining(v) ==
    /\ draining # v
    /\ draining' = v
    /\ UNCHANGED <<inFlight, req>>

\* Faulty variant: the flag is not looked at.
ArriveAnyway(i) ==
    /\ req[i].pc = "idle"
    /\ \E token \in Tokens, body \in Bodies :
          req' = [req EXCEPT ![i] = [Fresh EXCEPT !.token = token,
                                        !.body = body, !.pc = "auth"]]
    /\ UNCHANGED <<draining, inFlight>>

\* Recovery and draining stand before every route.
Arrive(i) ==
    /\ req[i].pc = "idle"
    /\ \E token \in Tokens, body \in Bodies :
          LET r == [Fresh EXCEPT !.token = token, !.body = body]
          IN  req' = [req EXCEPT ![i] =
                 IF draining
                 THEN [r EXCEPT !.pc = "done", !.wire = 503, !.refused = TRUE]
                 ELSE [r EXCEPT !.pc = "auth"]]
    /\ UNCHANGED <<draining, inFlight>>

\* A stage that answers with a status, or passes on to the next one.
Stage(i, at, next, status) ==
    /\ req[i].pc = at
    /\ req' = [req EXCEPT ![i] =
          IF status = 0 THEN [@ EXCEPT !.pc = next]
          ELSE [WriteError(@, status) EXCEPT !.pc = "access_log"]]
    /\ UNCHANGED <<draining, inFlight>>

AuthMiddleware(i) ==
    Stage(i, "auth", "rate_limit",
          IF req[i].token \in {"unusable", "unknown"} THEN 401 ELSE 0)

RateLimitMiddleware(i) ==
    \E allowed \in BOOLEAN :
        Stage(i, "rate_limit", "body", IF allowed THEN 0 ELSE 429)

\* A body that does not decode is passed on: the router answers for it.
BodyContextMiddleware(i) ==
    Stage(i, "body", "allowlist",
          CASE req[i].body = "too_large"  -> 413
            [] req[i].body = "unreadable" -> 400
            [] OTHER                      -> 0)

\* isModelAllowed, for a model that was named.
isModelAllowed(body) == body \notin {"unlisted", "unlisted_unrouted"}

\* Faulty variant: no return after the 403.
ModelAllowlistGoesOn(i) ==
    /\ req[i].pc = "allowlist"
    /\ req' = [req EXCEPT ![i] =
          IF req[i].token = "restricted" /\ ~isModelAllowed(req[i].body)
          THEN [WriteError(@, 403) EXCEPT !.pc = "route"]
          ELSE [@ EXCEPT !.pc = "route"]]
    /\ UNCHANGED <<draining, inFlight>>

\* A body without a model is passed on too.
ModelAllowlistMiddleware(i) ==
    Stage(i, "allowlist", "route",
          IF req[i].token = "restricted" /\ ~isModelAllowed(req[i].body)
          THEN 403 ELSE 0)

ModelRouterMiddleware(i) ==
    Stage(i, "route", "metrics",
          CASE req[i].body \in {"undecodable", "no_model"}              -> 400
            [] req[i].body \in {"listed_unrouted", "unlisted_unrouted"} -> 404
            [] OTHER                                                    -> 0)

MetricsEnter(i) ==
    /\ req[i].pc = "metrics"
    /\ inFlight' = inFlight + 1
    /\ req' = [req EXCEPT ![i].pc = "proxy"]
    /\ UNCHANGED draining

-----------------------------------------------------------------------------
(* The proxy, as the chain sees it: it starts a response or not, and may   *)
(* have set the terminal status of the gateway context by the time it      *)
(* returns.                                                                *)

ProxyStatuses == {200, 400, 500, 503, 504}

\* The terminal status when a response begins: none for what the upstream
\* answered, that of the response for an error of the proxy's own.
Terminal(status) == {0} \cup ({status} \ {200, 400})

\* The upstream's answer with its status, or an error of the proxy's own.
ProxyResponds(i) ==
    /\ req[i].pc = "proxy"
    /\ \E status \in ProxyStatuses : \E final \in Terminal(status) :
          req' = [req EXCEPT ![i] =
             [WriteThrough(@, status) EXCEPT !.pc = "writing", !.final = final]]
    /\ UNCHANGED <<draining, inFlight>>

\* The body is written; the client may have gone away meanwhile.
ProxyFinishes(i) ==
    /\ req[i].pc = "writing"
    /\ \E final \in IF req[i].final = 0 THEN {0, 499} ELSE {req[i].final} :
          req' = [req EXCEPT ![i] =
             [@ EXCEPT !.pc = "metrics_exit", !.final = final]]
    /\ UNCHANGED <<draining, inFlight>>

\* Nothing is written: the client is gone (499), or an upstream body could
\* not be read and its error stays unanswered.
ProxySilent(i) ==
    /\ req[i].pc = "proxy"
    /\ \E final \in {0, 499} :
          req' = [req EXCEPT ![i] =
             [@ EXCEPT !.pc = "metrics_exit", !.final = final]]
    /\ UNCHANGED <<draining, inFlight>>

-----------------------------------------------------------------------------
(* Coming back.                                                            *)

MetricsExit(i) ==
    /\ req[i].pc = "metrics_exit"
    /\ req' = [req EXCEPT ![i] =
          [@ EXCEPT !.pc = "access_log",
                    !.counted = First(req[i].wrapped, 200)]]
    /\ inFlight' = inFlight - 1
    /\ UNCHANGED draining

\* Faulty variant: the terminal status overrides what was written.
logStatusFinal(r) == IF r.final > 0 THEN r.final ELSE First(r.recorder, 200)

logStatus(r) == First(r.recorder, IF r.final > 0 THEN r.final ELSE 200)

\* A handler that returns without writing makes net/http send 200.
AccessLogExit(i) ==
    /\ req[i].pc = "access_log"
    /\ req' = [req EXCEPT ![i] =
          [@ EXCEPT !.pc = "done", !.logged = logStatus(req[i]),
                    !.wire = First(req[i].wire, 200)]]
    /\ UNCHANGED <<draining, inFlight>>

\* Faulty variant: the decrement runs for every panic of the chain.
gaugeAfterPanicAlways(pc) == inFlight - 1

\* Faulty variant: the decrement is not deferred.
gaugeAfterPanicLeaked(pc) == inFlight

\* RequestsInFlight.Dec is the one deferred statement of the chain.
gaugeAfterPanic(pc) ==
    IF pc \in {"proxy", "writing", "metrics_exit"} THEN inFlight - 1
    ELSE inFlight

\* Faulty variant: Recovery swallows the panic without answering.
PanicSwallowed(i) ==
    /\ req[i].pc \notin {"idle", "done"}
    /\ inFlight' = gaugeAfterPanic(req[i].pc)
    /\ req' = [req EXCEPT ![i] =
          [@ EXCEPT !.pc = "done", !.panicked = TRUE,
                    !.wire = First(req[i].wire, 200)]]
    /\ UNCHANGED draining

\* Any handler panics; nothing is logged or counted, and Recovery writes its
\* 500 straight to the connection, where a status line may already be.
Panic(i) ==
    /\ req[i].pc \notin {"idle", "done"}
    /\ inFlight' = gaugeAfterPanic(req[i].pc)
    /\ req' = [req EXCEPT ![i] =
          [@ EXCEPT !.pc = "done", !.panicked = TRUE,
                    !.wire = First(req[i].wire, 500)]]
    /\ UNCHANGED draining

\* The connection's next request.
Leave(i) ==
    /\ req[i].pc = "done"
    /\ req' = [req EXCEPT ![i] = Fresh]
    /\ UNCHANGED <<draining, inFlight>>

Step(i) ==
    \/ AuthMiddleware(i) \/ RateLimitMiddleware(i) \/ BodyContextMiddleware(i)
    \/ ModelAllowlistMiddleware(i) \/ ModelRouterMiddleware(i)
    \/ MetricsEnter(i) \/ ProxyResponds(i) \/ ProxyFinishes(i)
    \/ ProxySilent(i) \/ MetricsExit(i) \/ AccessLogExit(i) \/ Panic(i)

Next ==
    \/ \E v \in BOOLEAN : SetDraining(v)
    \/ \E i \in Requests : Arrive(i) \/ Step(i) \/ Leave(i)

Spec == Init /\ [][Next]_vars

\* A handler that was entered runs on: nothing in the chain waits for another
\* request, and the proxy's attempts are bounded by timeouts.
FairSpec == Spec /\ \A i \in Requests : WF_vars(Step(i))

-----------------------------------------------------------------------------
(* Properties.                                                             *)

Statuses == {0, 200, 400, 401, 403, 404, 413, 429, 499, 500, 503, 504}

Stages == {"idle", "auth", "rate_limit", "body", "allowlist", "route",
           "metrics", "proxy", "writing", "metrics_exit", "access_log", "done"}

WireStatuses == Statuses \ {499}

FinalStatuses == {0, 499, 500, 503, 504}

RequestStates ==
    [pc : Stages, token : Tokens, body : Bodies,
     wire : WireStatuses, recorder : Statuses, wrapped : Statuses,
     final : FinalStatuses, logged : Statuses, counted : Statuses,
     refused : BOOLEAN, panicked : BOOLEAN]

TypeOK ==
    /\ draining \in BOOLEAN
    /\ inFlight \in 0..Cardinality(Requests)
    /\ req \in [Requests -> RequestStates]

\* The gauge is the number of requests inside Metrics, after panics too: the
\* decrement is deferred, everything else in MetricsMiddleware is not.
InFlightExact ==
    inFlight = Cardinality({i \in Requests :
                   req[i].pc \in {"proxy", "writing", "metrics_exit"}})

\* The access log tells what the client was sent.  The one exception is a
\* client that went away before anything was written: the log says 499 while
\* net/http would send an empty 200 (the fallback to FinalStatusCode).
LogTellsTruth ==
    \A i \in Requests :
        LET r == req[i]
        IN  r.logged # 0 =>
              \/ r.logged = r.wire
              \/ r.logged = 499 /\ r.final = 499 /\ r.recorder = 0

\* What RequestTotal counts is what the client was sent: for a client gone
\* before the response it counts a 200 where the access log has 499.
CountTellsWire ==
    \A i \in Requests :
        LET r == req[i]
        IN  r.logged # 0 /\ r.counted # 0 =>
              /\ r.counted = r.wire
              /\ r.counted # r.logged => r.counted = 200 /\ r.logged = 499

\* Only admitted requests reach the proxy: a known token, a decoded body, a
\* routed model, and a listed one for a restricted token.  The allowlist lets
\* bodies it cannot judge through, relying on the router to stop them.
OnlyAdmitted ==
    \A i \in Requests :
        LET r == req[i]
        IN  r.pc \in {"metrics", "proxy", "writing", "metrics_exit"} =>
              /\ r.token \in {"open", "restricted"}
              /\ r.body \in {"listed", "unlisted"}
              /\ r.token = "restricted" => r.body = "listed"

\* A panic is answered with 500 unless the handler that panicked had begun a
\* response; it is never in the access log, whose entry is not deferred.
PanicContained ==
    \A i \in Requests :
        LET r == req[i]
        IN  r.panicked => /\ r.logged = 0
                          /\ r.wire = 500 \/ r.wire = r.recorder

\* Once draining stays set, the requests that had passed the check finish and
\* no other is let in: the chain runs empty (SetDraining before Shutdown).
DrainCompletes ==
    <>[]draining => <>[](\A i \in Requests : req[i].pc \in {"idle", "done"})

=============================================================================
