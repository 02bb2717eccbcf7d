--------------------------- MODULE MCGatewayProxy ---------------------------
(***************************************************************************)
(* Three candidates: one with a retry of its own, one on the default of no *)
(* retry behind the anthropic adapter, one with a retry.  The statuses     *)
(* cover every branch of classifyUpstreamAttempt: 200 and 501 are          *)
(* returned, 401 and 429 fail over (429 although it is listed as           *)
(* retryable), 503 is retried.                                             *)
(***************************************************************************)
EXTENDS GatewayProxy, TLC

CONSTANTS p1, p2, p3

MCProviders == {p1, p2, p3}
MCMaxRetries == (p1 :> 1) @@ (p2 :> 0) @@ (p3 :> 1)
MCAdapter == (p1 :> "openai") @@ (p2 :> "anthropic") @@ (p3 :> "openai")
MCCandidateLists == {<<>>, <<p1, p2>>, <<p2, p3>>, <<p2, p1, p3>>}
=============================================================================
