---------------------------- MODULE GatewayProxy ----------------------------
(***************************************************************************)
(* gatewayProxyHandler.ServeHTTP (internal/proxy/proxy.go): the retry and  *)
(* failover loop of one client request.                                    *)
(*                                                                         *)
(* The local variables of ServeHTTP and the fields of the GatewayContext   *)
(* it writes are one record q, and each handler step is an operator on it. *)
(* A step runs from one blocking point of the code to the next:            *)
(*   start     before ServeHTTP                                            *)
(*   do        in http.Client.Do                                           *)
(*   backoff   in the select of waitRetryBackoff                           *)
(*   translate in the adapter's TranslateResponse                          *)
(*   done      ServeHTTP has returned                                      *)
(***************************************************************************)
EXTENDS UpstreamOutcome, Sequences, FiniteSets

CONSTANTS
    Providers,
    MaxRetries,          \* config: providers[].max_retries
    DefaultMaxRetries,   \* config: upstream.default_max_retries
    Adapter,             \* the adapter of each provider
    CandidateLists       \* GatewayContext.CandidateProviders, as routing leaves it

ASSUME ProviderAssumption ==
    /\ MaxRetries \in [Providers -> Nat]
    /\ DefaultMaxRetries \in Nat
    /\ Adapter \in [Providers -> {"openai", "anthropic"}]
    /\ CandidateLists \subseteq Seq(Providers)

VARIABLES
    q,           \* the state of the ServeHTTP call
    clientGone   \* r.Context() has been canceled

vars == <<q, clientGone>>

-----------------------------------------------------------------------------
(* The state of one ServeHTTP call.                                        *)

Codes == {"none", "missing_gateway_context", "missing_body_context",
          "no_route_candidates", "upstream_request_build_failed",
          "client_canceled", "upstream_request_timeout",
          "all_upstreams_unavailable"}

AttemptResults == {"retry", "retry_exhausted", "failover", "error",
                   "returned_response"}

\* model.UpstreamAttemptTrace and model.UpstreamFailoverTrace; provider
\* indices count from 1.
AttemptTrace == [index : Nat, attempt : Nat, status : Nat,
                 result : AttemptResults, reason : Reasons]
FailoverTrace == [from : Providers, to : Providers, index : Nat,
                  count : Nat, reason : Reasons]

\* What SetTerminalError stored; status 0 when it was never called.
Terminal == [status : Nat, code : Codes, reason : Reasons]

\* What was written to the client; counted when the two X-Gateway counter
\* headers were set before.
Reply == [from : {"none", "gateway", "upstream"}, status : Nat,
          counted : BOOLEAN, retries : Nat, failovers : Nat]

RequestState ==
    [candidates : Seq(Providers),
     pc : {"start", "do", "backoff", "translate", "done"},
     index : Nat, attempt : Nat,
     finalErr : AnyError, lastRetryReason : Reasons,
     totalRetries : Nat, failoverCount : Nat,
     attempts : Seq(AttemptTrace), failovers : Seq(FailoverTrace),
     streamOutcome : {"none", "completed", "empty", "client_canceled",
                      "upstream_error"},
     final : Terminal, reply : Reply]

NoTerminal == [status |-> 0, code |-> "none", reason |-> Reason("unknown")]
NoReply == [from |-> "none", status |-> 0,
            counted |-> FALSE, retries |-> 0, failovers |-> 0]

NewRequest(candidates) ==
    [candidates |-> candidates, pc |-> "start", index |-> 1, attempt |-> 0,
     finalErr |-> NoError, lastRetryReason |-> Reason("unknown"),
     totalRetries |-> 0, failoverCount |-> 0,
     attempts |-> <<>>, failovers |-> <<>>, streamOutcome |-> "none",
     final |-> NoTerminal, reply |-> NoReply]

Current(s) == s.candidates[s.index]

-----------------------------------------------------------------------------
(* The pieces ServeHTTP is made of.                                        *)

\* MaxRetries 0 means "not configured" and takes the default.
effectiveRetryCount(p) ==
    IF MaxRetries[p] > 0 THEN MaxRetries[p] ELSE DefaultMaxRetries

AttemptBudget(p) == effectiveRetryCount(p) + 1

SetTerminalError(s, status, code, reason) ==
    [s EXCEPT !.final = [status |-> status, code |-> code, reason |-> reason]]

SetCounterHeaders(s) ==
    [s EXCEPT !.reply = [@ EXCEPT !.counted = TRUE,
                                  !.retries = s.totalRetries,
                                  !.failovers = s.failoverCount]]

WriteError(s, status) ==
    [s EXCEPT !.pc = "done",
              !.reply = [@ EXCEPT !.from = "gateway", !.status = status]]

\* SetTerminalError with the reason equal to the code, then the error body.
FailWith(s, status, code) ==
    WriteError(SetTerminalError(s, status, code, Reason(code)), status)

ClientCanceledReturn(s) ==
    [SetTerminalError(s, 499, "client_canceled", Reason("client_canceled"))
        EXCEPT !.pc = "done"]

recordUpstreamAttempt(s, res, reason, result) ==
    [s EXCEPT !.attempts =
        Append(@, [index |-> s.index, attempt |-> s.attempt,
                   status |-> res.status, result |-> result,
                   reason |-> reason])]

retryAttemptResult(s) ==
    IF s.attempt < AttemptBudget(Current(s)) THEN "retry" ELSE "retry_exhausted"

\* Head of the provider loop: SetActiveProvider and the compilation of the
\* upstream request, which the adapter may refuse.
EnterProvider(s, built) ==
    IF built
    THEN [s EXCEPT !.pc = "do", !.attempt = 1]
    ELSE FailWith(s, 500, "upstream_request_build_failed")

\* Faulty variant: answers a client that has gone.
ExhaustedUnsuppressed(s, gone) ==
    LET f == classifyTerminalProxyFailure(gone, s.finalErr, s.lastRetryReason)
        t == SetTerminalError(SetCounterHeaders(s), f.status, f.code, f.reason)
    IN  WriteError(t, 503)

\* After the last provider.
Exhausted(s, gone) ==
    LET f == classifyTerminalProxyFailure(gone, s.finalErr, s.lastRetryReason)
        t == SetTerminalError(SetCounterHeaders(s), f.status, f.code, f.reason)
    IN  IF f.suppress THEN [t EXCEPT !.pc = "done"] ELSE WriteError(t, f.status)

\* Faulty variant: traces the counter before it is bumped.
RecordFailoverEarly(s) ==
    [s EXCEPT !.failoverCount = @ + 1,
              !.failovers =
                 Append(@, [from |-> Current(s),
                            to |-> s.candidates[s.index + 1],
                            index |-> s.index,
                            count |-> s.failoverCount,
                            reason |-> s.lastRetryReason])]

\* The failover counter is only bumped when another candidate exists.
RecordFailover(s) ==
    [s EXCEPT !.failoverCount = @ + 1,
              !.failovers =
                 Append(@, [from |-> Current(s),
                            to |-> s.candidates[s.index + 1],
                            index |-> s.index,
                            count |-> s.failoverCount + 1,
                            reason |-> s.lastRetryReason])]

\* Faulty variant: never enters the last candidate.
LeaveProviderEarly(s, gone, built) ==
    IF s.index + 1 < Len(s.candidates)
    THEN EnterProvider([RecordFailover(s) EXCEPT !.index = @ + 1], built)
    ELSE Exhausted(s, gone)

\* The end of one iteration of the provider loop.
LeaveProvider(s, gone, built) ==
    IF s.index < Len(s.candidates)
    THEN EnterProvider([RecordFailover(s) EXCEPT !.index = @ + 1], built)
    ELSE Exhausted(s, gone)

\* Faulty variant: one attempt more than the budget.
RetryOnceMore(s, gone, res, reason, built) ==
    LET r == recordUpstreamAttempt(s, res, reason, retryAttemptResult(s))
        t == [r EXCEPT !.finalErr = res.err, !.lastRetryReason = reason,
                       !.totalRetries = @ + 1]
    IN  IF s.attempt <= AttemptBudget(Current(s))
        THEN [t EXCEPT !.pc = "backoff"]
        ELSE LeaveProvider(t, gone, built)

\* Faulty variant: the exhausted attempt is not counted.
RetryUncounted(s, gone, res, reason, built) ==
    LET r == recordUpstreamAttempt(s, res, reason, retryAttemptResult(s))
        t == [r EXCEPT !.finalErr = res.err, !.lastRetryReason = reason]
    IN  IF s.attempt < AttemptBudget(Current(s))
        THEN [t EXCEPT !.pc = "backoff", !.totalRetries = @ + 1]
        ELSE LeaveProvider(t, gone, built)

Retry(s, gone, res, reason, built) ==
    LET r == recordUpstreamAttempt(s, res, reason, retryAttemptResult(s))
        t == [r EXCEPT !.finalErr = res.err, !.lastRetryReason = reason,
                       !.totalRetries = @ + 1]
    IN  IF s.attempt < AttemptBudget(Current(s))
        THEN [t EXCEPT !.pc = "backoff"]
        ELSE LeaveProvider(t, gone, built)

\* finalErr keeps the value an earlier attempt left in it.
Failover(s, gone, res, reason, built) ==
    LeaveProvider([recordUpstreamAttempt(s, res, reason, "failover")
                       EXCEPT !.lastRetryReason = reason], gone, built)

Terminate(s, res, reason) ==
    LET r == recordUpstreamAttempt(s, res, reason, "error")
    IN  ClientCanceledReturn([r EXCEPT !.finalErr = res.err,
                                       !.lastRetryReason = reason])

\* The response is recorded under its bare status label.
ReturnResponse(s, res) ==
    LET label == [kind |-> "label", code |-> res.status]
        r == recordUpstreamAttempt(s, res, label, "returned_response")
    IN  [SetCounterHeaders(r) EXCEPT !.pc = "translate"]

\* http.Client.Do returned res: everything up to the next blocking call.
AttemptReturned(s, gone, res, built) ==
    LET reason == upstreamFailureReason(gone, res)
        action == classifyUpstreamAttempt(gone, res)
    IN  CASE action = "retry"     -> Retry(s, gone, res, reason, built)
          [] action = "failover"  -> Failover(s, gone, res, reason, built)
          [] action = "terminate" -> Terminate(s, res, reason)
          [] action = "return"    -> ReturnResponse(s, res)

-----------------------------------------------------------------------------
(* TranslateResponse of the adapter: streaming is a text/event-stream      *)
(* response, started whether the header was written, chunk whether a byte  *)
(* of the body was, err the first read or write error.                     *)

Translations == [streaming : BOOLEAN, started : BOOLEAN, chunk : BOOLEAN,
                 err : {NoError, "timeout", "refused", "reset", "canceled"}]

\* The openai adapter writes the header before it reads the body, and so
\* does the anthropic stream translator, which ends every stream it read to
\* the end with a [DONE] chunk.  The anthropic JSON path reads first.
TranslateResponse(adapter, out) ==
    /\ out.chunk => out.started
    /\ IF adapter = "openai" \/ out.streaming
       THEN out.started
       ELSE out.started \/ out.err # NoError
    /\ (adapter = "anthropic" /\ out.err = NoError) => out.chunk

classifyStreamOutcome(gone, out) ==
    IF out.err = NoError
    THEN IF out.chunk THEN "completed" ELSE "empty"
    ELSE IF isClientCanceledRequest(gone, out.err)
    THEN "client_canceled" ELSE "upstream_error"

\* The anthropic stream translator answers 200 whatever the upstream said.
ReplyStatus(s, out) ==
    IF Adapter[Current(s)] = "anthropic" /\ out.streaming
    THEN 200 ELSE s.attempts[Len(s.attempts)].status

Translated(s, gone, out) ==
    LET r == [s EXCEPT !.pc = "done",
                       !.finalErr = IF out.err = NoError THEN @ ELSE out.err,
                       !.streamOutcome = IF out.streaming
                                         THEN classifyStreamOutcome(gone, out)
                                         ELSE @,
                       !.reply = IF out.started
                                 THEN [@ EXCEPT !.from = "upstream",
                                                !.status = ReplyStatus(s, out)]
                                 ELSE @]
    IN  IF isClientCanceledRequest(gone, out.err)
        THEN ClientCanceledReturn(r) ELSE r

-----------------------------------------------------------------------------
(* The early returns of ServeHTTP and its first provider.  ctx says which  *)
(* request-context values the middleware chain has attached.               *)

Begin(s, ctx, built) ==
    CASE ctx = "no_gateway_context" -> WriteError(s, 500)
      [] ctx = "no_body_context"    -> FailWith(s, 500, "missing_body_context")
      [] ctx = "ok" -> IF s.candidates = <<>>
                       THEN FailWith(s, 503, "no_route_candidates")
                       ELSE EnterProvider(s, built)

\* Only the anthropic adapter rewrites the body, and so can refuse it.
CanBuild(p) == IF Adapter[p] = "anthropic" THEN BOOLEAN ELSE {TRUE}

BuiltChoices(s, i) ==
    IF i \in 1..Len(s.candidates) THEN CanBuild(s.candidates[i]) ELSE {TRUE}

-----------------------------------------------------------------------------
Init ==
    /\ q \in {NewRequest(c) : c \in CandidateLists}
    /\ clientGone = FALSE

ServeHTTP ==
    /\ q.pc = "start"
    /\ \E ctx \in {"ok", "no_gateway_context", "no_body_context"},
          built \in BuiltChoices(q, 1) :
             q' = Begin(q, ctx, built)
    /\ UNCHANGED clientGone

\* context.Canceled comes from the client's context alone: the attempt's own
\* context is canceled after Do has returned.
DoReturns ==
    /\ q.pc = "do"
    /\ \E res \in Results, built \in BuiltChoices(q, q.index + 1) :
          /\ res.err = "canceled" => clientGone
          /\ q' = AttemptReturned(q, clientGone, res, built)
    /\ UNCHANGED clientGone

\* Faulty variant: the timer case of the select is missing.
NextAttemptNeverDue(s) == s

\* waitRetryBackoff returned true: the attempt loop goes round.
NextAttempt(s) == [s EXCEPT !.pc = "do", !.attempt = @ + 1]

BackoffElapsed ==
    /\ q.pc = "backoff"
    /\ q' = NextAttempt(q)
    /\ UNCHANGED clientGone

BackoffCanceled ==
    /\ q.pc = "backoff"
    /\ clientGone
    /\ q' = ClientCanceledReturn([q EXCEPT
               !.finalErr = "canceled",
               !.lastRetryReason = Reason("client_canceled")])
    /\ UNCHANGED clientGone

ResponseTranslated ==
    /\ q.pc = "translate"
    /\ \E out \in Translations :
          /\ TranslateResponse(Adapter[Current(q)], out)
          /\ out.err = "canceled" => clientGone
          /\ q' = Translated(q, clientGone, out)
    /\ UNCHANGED clientGone

\* The server cancels the request context when the client disconnects.
ClientDisconnects ==
    /\ q.pc # "done"
    /\ ~clientGone
    /\ clientGone' = TRUE
    /\ UNCHANGED q

Handler == \/ ServeHTTP \/ DoReturns \/ BackoffElapsed
           \/ BackoffCanceled \/ ResponseTranslated

Returned ==
    /\ q.pc = "done"
    /\ UNCHANGED vars

Next == Handler \/ ClientDisconnects \/ Returned

\* Do returns because every attempt has a deadline, the backoff timer fires,
\* and the copy of the body ends with the attempt's deadline at the latest.
Spec == Init /\ [][Next]_vars /\ WF_vars(Handler)

-----------------------------------------------------------------------------
(* Properties.                                                             *)

TypeOK == q \in RequestState /\ clientGone \in BOOLEAN

GivesWay == {"retry_exhausted", "failover"}

\* What attempt k + 1 may be after attempt k.
FollowsOn(x, index, attempt) ==
    \/ x.result = "retry" /\ index = x.index /\ attempt = x.attempt + 1
    \/ x.result \in GivesWay /\ index = x.index + 1 /\ attempt = 1

AttemptChainOf(s) ==
    LET a == s.attempts
    IN  /\ a # <<>> => a[1].index = 1 /\ a[1].attempt = 1
        /\ \A k \in 1..Len(a) :
              /\ a[k].index \in 1..Len(s.candidates)
              /\ a[k].attempt \in 1..AttemptBudget(s.candidates[a[k].index])
              /\ a[k].result = "retry_exhausted" =>
                    a[k].attempt = AttemptBudget(s.candidates[a[k].index])
        /\ \A k \in 1..(Len(a) - 1) :
              FollowsOn(a[k], a[k+1].index, a[k+1].attempt)

\* The recorded attempts are the run of the two nested loops: the first goes
\* to the first candidate, each next one either retries the same candidate
\* within its budget or starts on the following candidate, and only after
\* the one before was exhausted or failed over (proxy.go, the provider loop
\* and attemptLoop).
AttemptChain == AttemptChainOf(q)

\* Some attempt on candidate i ended it, for this reason.
GaveWay(s, i, reason) ==
    \E j \in 1..Len(s.attempts) : /\ s.attempts[j].index = i
                                  /\ s.attempts[j].result \in GivesWay
                                  /\ s.attempts[j].reason = reason

FailoverChainOf(s) ==
    /\ Len(s.failovers) = s.failoverCount
    /\ s.index = s.failoverCount + 1
    /\ \A k \in 1..Len(s.failovers) :
          LET f == s.failovers[k]
          IN  /\ f.from = s.candidates[k] /\ f.to = s.candidates[k+1]
              /\ f.index = k /\ f.count = k
              /\ GaveWay(s, k, f.reason)

\* FailoverCount, the failover trace and the provider loop agree: failover k
\* goes from candidate k to candidate k+1 and carries the reason of an
\* attempt that gave candidate k up (proxy.go, the end of the provider loop).
FailoverChain == FailoverChainOf(q)

GaveUpAfterAllOf(s) ==
    s.final.code \in {"upstream_request_timeout", "all_upstreams_unavailable"}
        => \A i \in 1..Len(s.candidates) : 
             \E k \in 1..Len(s.attempts) :
                 GaveWay(s, i, s.attempts[k].reason)

\* The gateway reports that all upstreams failed only after every candidate
\* was tried and either used up its attempt budget or answered with a
\* failover status (proxy.go, after the provider loop).
GaveUpAfterAll == GaveUpAfterAllOf(q)

\* Attempt k ran into its deadline.
TimedOut(s, k) == s.attempts[k].reason.kind = "upstream_timeout"

TimeoutAnswerOf(s) ==
    /\ s.final.status = 504 => \E k \in 1..Len(s.attempts) : TimedOut(s, k)
    /\ s.final.code = "all_upstreams_unavailable" =>
          \E k \in 1..Len(s.attempts) : ~TimedOut(s, k)

\* A 504 has a timed-out attempt behind it, and a request whose attempts all
\* timed out is not reported as merely unavailable
\* (classifyTerminalProxyFailure).
TimeoutAnswer == TimeoutAnswerOf(q)

\* The attempts that were classified as retryable.
Retried(s) ==
    {k \in 1..Len(s.attempts) :
        s.attempts[k].result \in {"retry", "retry_exhausted"}}

CountersMatchTraceOf(s) ==
    s.reply.counted =>
        /\ s.reply.failovers = Len(s.failovers)
        /\ s.reply.retries = Cardinality(Retried(s))

\* The counter headers of an answer tell what happened: the retries header
\* the attempts classified as retryable, the failovers header the moves to
\* another candidate (X-Gateway-Upstream-Retries, X-Gateway-Failovers).
CountersMatchTrace == CountersMatchTraceOf(q)

LoggedStatusIsSentOf(s) ==
    /\ s.reply.from = "gateway" => s.final.status \in {0, s.reply.status}
    /\ s.reply.from # "gateway" => s.final.status \in {0, 499}
    /\ s.final.status = 499 => s.pc = "done"

\* The status kept for the access log is the one the client was sent; the
\* only status logged without being sent is 499 (SetTerminalError and the
\* Write* helpers of internal/response).
LoggedStatusIsSent == LoggedStatusIsSentOf(q)

\* Every request ends, whatever the upstreams answer (ServeHTTP returns).
RequestEnds == <>(q.pc = "done")

\* What the log line of logClientCanceled says of a request ended with 499:
\* "Client canceled request before upstream response completed".
CanceledMeansClientGone == q.final.status = 499 => clientGone

=============================================================================
