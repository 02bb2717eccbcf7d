-------------------------- MODULE MCTokenRegistry --------------------------
(* Instances of TokenRegistry for TLC.                                     *)
EXTENDS TokenRegistry

CONSTANTS k1, k2, k3

MCTokens  == {k1, k2, k3}
\* k1 stays enabled in every configuration, k2 comes and goes, k3 is disabled.
MCConfigs == {[tokens |-> MCTokens, disabled |-> {k2, k3}],
              [tokens |-> MCTokens, disabled |-> {k3}]}

=============================================================================
