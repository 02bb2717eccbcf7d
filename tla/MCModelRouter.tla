--------------------------- MODULE MCModelRouter ---------------------------
(* Two configurations over three providers and two models: a model moves   *)
(* to other providers, another one disappears.                             *)
EXTENDS ModelRouter, TLC

CONSTANTS p1, p2, p3, m1, m2

MCProviders == {p1, p2, p3}
MCModels == {m1, m2}
First == <<[name |-> p1, models |-> {m1, m2}], [name |-> p2, models |-> {m1}],
           [name |-> p3, models |-> {m1}]>>
Second == <<[name |-> p3, models |-> {m1}], [name |-> p1, models |-> {m1}]>>
MCConfigs == {First, Second}
Symmetry == Permutations(Threads)
=============================================================================
