------------------------- MODULE MCRequestPipeline -------------------------
(* Instances of RequestPipeline for TLC.                                   *)
EXTENDS RequestPipeline

CONSTANTS r1, r2

TwoRequests == {r1, r2}

=============================================================================
