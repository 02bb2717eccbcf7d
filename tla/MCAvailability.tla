-------------------------- MODULE MCAvailability --------------------------
(* Instances of Availability for TLC.                                      *)
EXTENDS Availability

CONSTANTS p1, p2, t1, t2

TwoCandidates == <<p1, p2>>

\* Two requests at once, or one with somebody who polls readiness.
MCCasts == {{t1, t2}, {t1, Poller}}

=============================================================================
