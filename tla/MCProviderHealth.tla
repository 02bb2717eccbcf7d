-------------------------- MODULE MCProviderHealth --------------------------
(* Of two providers each replaces the other in the configuration; one has  *)
(* a health path.  An upstream is well, refuses with a status that proves  *)
(* nothing to a probe without that path, or does not answer.               *)
EXTENDS ProviderHealth, TLC

CONSTANTS p1, p2

MCProviders == {p1, p2}
OneOfTwo == {{p1}, {p2}}
MCHasHealthPath == {p1}
ThreeAnswers == {Status(200), Status(404), Failed("timeout")}
=============================================================================
