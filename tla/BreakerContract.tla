--------------------------- MODULE BreakerContract ---------------------------
(***************************************************************************)
(* What the rest of the gateway may rely on from the circuit breakers of   *)
(* the transport, without generations, counts or clocks.                   *)
(*                                                                         *)
(* The breaker of a key is in a period: closed, open or half-open.  The    *)
(* end of an interval or of a timeout is noticed when somebody looks, or   *)
(* not yet.  Only the answers to requests of the present period matter.    *)
(* Module CircuitBreaker implements this contract; module Availability is  *)
(* built on it.                                                            *)
(***************************************************************************)
EXTENDS Naturals, FiniteSets

CONSTANTS
    Keys,                  \* provider@host
    Threads,               \* concurrent requests
    MaxHalfOpenRequests    \* requests of a trial

VARIABLE breaker           \* the present period of each key's breaker

\* pending: requests admitted in this period and not yet answered;
\* successes: successful answers of a trial.
Period(state) == [state |-> state, pending |-> {}, successes |-> 0]

Periods == [state : {"none", "closed", "open", "half-open"},
            pending : SUBSET Threads, successes : Nat]

Init == breaker = [k \in Keys |-> Period("none")]

\* What a look at the clock may find in place of b.
Seen(b) ==
    {b} \cup (CASE b.state = "closed" -> {Period("closed")}
                [] b.state = "open"   -> {Period("half-open")}
                [] OTHER              -> {})

admits(b) ==
    \/ b.state = "closed"
    \/ /\ b.state = "half-open"
       /\ b.successes + Cardinality(b.pending) < MaxHalfOpenRequests

\* What may become of b when t's answer arrives.  A closed breaker may trip
\* on a failure; a trial ends with its first failure or its last success.
Answered(b, t, success) ==
    LET c == [b EXCEPT !.pending = @ \ {t}]
        s == b.successes + 1
    IN  CASE t \notin b.pending -> {b}
          [] t \in b.pending /\ b.state = "half-open" ->
                IF ~success THEN {Period("open")}
                ELSE IF s >= MaxHalfOpenRequests THEN {Period("closed")}
                ELSE {[c EXCEPT !.successes = s]}
          [] OTHER -> IF success THEN {c} ELSE {c, Period("open")}

-----------------------------------------------------------------------------
Becomes(k, b) == breaker' = [breaker EXCEPT ![k] = b]

\* The first request for the key.
Appear(k) ==
    /\ breaker[k] = Period("none")
    /\ Becomes(k, Period("closed"))

\* The state is asked for, or a request is turned away.
Ask(k) == \E c \in Seen(breaker[k]) : Becomes(k, c)

Admit(k, t) ==
    \E c \in Seen(breaker[k]) :
        /\ admits(c)
        /\ t \notin c.pending
        /\ Becomes(k, [c EXCEPT !.pending = @ \cup {t}])

Answer(k, t, success) ==
    \E c \in Seen(breaker[k]) :
        \E d \in Answered(c, t, success) : Becomes(k, d)

Next ==
    \E k \in Keys :
        \/ Appear(k)
        \/ Ask(k)
        \/ \E t \in Threads :
              Admit(k, t) \/ \E success \in BOOLEAN : Answer(k, t, success)

Spec == Init /\ [][Next]_breaker

-----------------------------------------------------------------------------
(* Properties.                                                             *)

\* A trial keeps its limit: what was answered and what is still out is never
\* more than MaxRequests of the settings.
TrialLimit ==
    \A k \in Keys :
        breaker[k].state = "half-open" =>
            breaker[k].successes + Cardinality(breaker[k].pending)
                <= MaxHalfOpenRequests

=============================================================================
