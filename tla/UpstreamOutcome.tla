--------------------------- MODULE UpstreamOutcome ---------------------------
(***************************************************************************)
(* What one call of http.Client.Do hands back, and the pure functions of   *)
(* internal/proxy that classify it: the retry decision of the request      *)
(* loop, the failure reason, the terminal failure, the health verdicts.    *)
(*                                                                         *)
(* A result is [err, status].  The error is abstracted to what the code    *)
(* tells apart:                                                            *)
(*   "timeout"     deadline of the attempt, or any net.Error with Timeout  *)
(*   "refused"     any other network error                                 *)
(*   "reset"       ECONNRESET, EPIPE, net.ErrClosed or their messages      *)
(*   "canceled"    context.Canceled                                        *)
(*   "open_state", "too_many"   the two errors of an open circuit breaker  *)
(* and the status to the codes the configuration of a model lists.         *)
(***************************************************************************)
EXTENDS Naturals

CONSTANTS
    StatusCodes,             \* the upstream status codes of the instance
    RetryableStatusCodes     \* config: upstream.retryable_status_codes

ASSUME StatusAssumption ==
    /\ StatusCodes \subseteq 100..599
    /\ RetryableStatusCodes \subseteq 100..599

NoError == "none"

\* The message tests of isClientCanceledRequest accept these whoever closed
\* the connection.
ClosedConnectionErrors == {"canceled", "reset"}

OtherErrors == {"timeout", "refused", "open_state", "too_many"}

Errors == ClosedConnectionErrors \cup OtherErrors

AnyError == Errors \cup {NoError}

Status(s) == [err |-> NoError, status |-> s]
Failed(e) == [err |-> e, status |-> 0]

\* http.Client.Do returns a response or an error, never both.
Results == {Status(s) : s \in StatusCodes} \cup {Failed(e) : e \in Errors}

(***************************************************************************)
(* Failure reasons: "status_N" is [kind |-> "status", code |-> N].         *)
(***************************************************************************)
Reason(k) == [kind |-> k, code |-> 0]

\* "label" is the bare status under which a returned response is recorded.
ReasonKinds == {"unknown", "client_canceled", "upstream_timeout",
                "network_error", "status", "label",
                "upstream_unavailable", "missing_body_context",
                "no_route_candidates", "upstream_request_build_failed"}

Reasons == [kind : ReasonKinds, code : Nat]

\* gone: the context of the client's request has been canceled.
isClientCanceledRequest(gone, err) ==
    /\ err # NoError
    /\ gone \/ err \in ClosedConnectionErrors

isUpstreamTimeoutError(gone, err) ==
    err = "timeout" /\ ~isClientCanceledRequest(gone, err)

upstreamFailureReason(gone, res) ==
    CASE isClientCanceledRequest(gone, res.err) -> Reason("client_canceled")
      [] isUpstreamTimeoutError(gone, res.err)  -> Reason("upstream_timeout")
      [] OTHER -> IF res.err # NoError
                  THEN Reason("network_error")
                  ELSE [kind |-> "status", code |-> res.status]

shouldFailoverStatusCode(s) == s \in {401, 403, 404, 429}

isRetryableStatusCode(s) == s \in RetryableStatusCodes

\* The failover test comes before the retry test, so a 429 listed as
\* retryable still moves on to the next provider.
classifyUpstreamAttempt(gone, res) ==
    IF isClientCanceledRequest(gone, res.err) THEN "terminate"
    ELSE IF res.err # NoError                   THEN "retry"
    ELSE IF shouldFailoverStatusCode(res.status) THEN "failover"
    ELSE IF isRetryableStatusCode(res.status)    THEN "retry"
    ELSE "return"

\* Faulty variant: every network error counts as a timeout.
terminalFailureAnyErrorTimesOut(gone, err, lastRetryReason) ==
    IF \/ isClientCanceledRequest(gone, err)
       \/ lastRetryReason.kind = "client_canceled"
    THEN [status |-> 499, code |-> "client_canceled",
          reason |-> Reason("client_canceled"), suppress |-> TRUE]
    ELSE IF err # NoError \/ lastRetryReason.kind = "upstream_timeout"
    THEN [status |-> 504, code |-> "upstream_request_timeout",
          reason |-> Reason("upstream_timeout"), suppress |-> FALSE]
    ELSE [status |-> 503, code |-> "all_upstreams_unavailable",
          reason |-> lastRetryReason, suppress |-> FALSE]

(***************************************************************************)
(* The answer when every candidate failed; suppress means nothing is       *)
(* written to the client.                                                  *)
(***************************************************************************)
classifyTerminalProxyFailure(gone, err, lastRetryReason) ==
    IF \/ isClientCanceledRequest(gone, err)
       \/ lastRetryReason.kind = "client_canceled"
    THEN [status |-> 499, code |-> "client_canceled",
          reason |-> Reason("client_canceled"), suppress |-> TRUE]
    ELSE IF \/ lastRetryReason.kind = "upstream_timeout"
            \/ isUpstreamTimeoutError(gone, err)
    THEN [status |-> 504, code |-> "upstream_request_timeout",
          reason |-> Reason("upstream_timeout"), suppress |-> FALSE]
    ELSE [status |-> 503, code |-> "all_upstreams_unavailable",
          reason |-> IF lastRetryReason.kind = "unknown"
                     THEN Reason("upstream_unavailable")
                     ELSE lastRetryReason,
          suppress |-> FALSE]

=============================================================================
