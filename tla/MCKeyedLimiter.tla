--------------------------- MODULE MCKeyedLimiter ---------------------------
(* A token without limits of its own under two global limits, in both of   *)
(* which a bucket refills well within its time to live.                    *)
EXTENDS KeyedLimiter, TLC

TwoLimits == {[tenths |-> 10, burst |-> 1], [tenths |-> 25, burst |-> 2]}
Unlimited == [k \in Keys |-> [tenths |-> 0, burst |-> 0]]

Symmetry == Permutations(Threads)
=============================================================================
