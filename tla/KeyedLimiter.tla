---------------------------- MODULE KeyedLimiter ----------------------------
(***************************************************************************)
(* The token-bucket rate limiter (internal/middleware/local_limiter.go)    *)
(* and the limits RateLimitMiddleware hands to it (ratelimit.go).          *)
(*                                                                         *)
(* keyedLocalLimiter.Allow reads the clock, may sweep the map, looks its   *)
(* bucket up under the limiter's lock, and takes a token under the         *)
(* bucket's own lock: four separate steps, so requests reach a bucket out  *)
(* of the order of their clock readings and may hold a bucket that has     *)
(* left the map.                                                           *)
(*                                                                         *)
(* A token is Cost units and the clock ticks Cost times a second, so that  *)
(* a rate of n tokens a second refills n units a tick and the float64      *)
(* arithmetic of the code is integer arithmetic here.  A configured rate   *)
(* is given in tenths of a request per second.                             *)
(***************************************************************************)
EXTENDS Integers, Sequences, FiniteSets

CONSTANTS
    Keys, Threads,
    Cost,              \* units per token, ticks per second
    TTL,               \* localLimiterBucketTTL, in ticks
    CleanupInterval,   \* localLimiterCleanupInterval
    GlobalLimits,      \* values of auth.rate_limit_qps (tenths) and _burst
    TokenLimit,        \* the same of the key's token, fixed in the registry
    MaxClock,          \* bound: the clock stops here
    MaxLag,            \* bound: ticks between a clock reading and its use
    MaxBuckets,        \* bound: buckets ever created
    MaxGranted         \* bound: requests allowed per key

Limits == [tenths : Nat, burst : Nat]

ASSUME LimiterAssumption ==
    /\ Keys # {}
    /\ Cost \in Nat \ {0}
    /\ TTL \in Nat /\ MaxClock \in Nat /\ MaxLag \in Nat
    /\ MaxBuckets \in Nat /\ MaxGranted \in Nat
    /\ CleanupInterval \in Nat \ {0}
    /\ GlobalLimits \subseteq Limits
    /\ TokenLimit \in [Keys -> Limits]

VARIABLES
    clock,     \* time.Now()
    global,    \* the global limits in force
    calls,     \* keyedLocalLimiter.calls, modulo CleanupInterval
    buckets,   \* keyedLocalLimiter.buckets: key -> index into heap, or 0
    heap,      \* every localTokenBucket ever created
    thread,    \* the requests inside Allow
    granted,   \* history: requests allowed, per key
    stray,     \* history: of those, by a bucket that had left the map
    since      \* history: when the key's first bucket was created, or -1;
               \* Mixed once the global limits have changed

vars == <<clock, global, calls, buckets, heap, thread, granted, stray, since>>

-----------------------------------------------------------------------------
(* The limits RateLimitMiddleware computes.  int(qps) truncates; only the  *)
(* global rate is kept from becoming zero.                                 *)

GlobalQPS(g) == IF g.tenths \div 10 > 0 THEN g.tenths \div 10 ELSE 1

GlobalBurst(g) == IF g.burst > 0 THEN g.burst ELSE GlobalQPS(g)

LimitRate(g, token) ==
    IF token.tenths > 0 THEN token.tenths \div 10 ELSE GlobalQPS(g)

LimitBurst(g, token) == IF token.burst > 0 THEN token.burst ELSE GlobalBurst(g)

-----------------------------------------------------------------------------
(* localTokenBucket.  burst and tokens are in units; grants and born are   *)
(* history: the tokens handed out in a window of time, and when it opened: *)
(* at the creation of the bucket, at a change of its limits, or at any     *)
(* later moment (OpenWindow).                                              *)

newLocalTokenBucket(rate, burst, now) ==
    [rate |-> rate, burst |-> burst * Cost, tokens |-> burst * Cost,
     last |-> now, grants |-> 0, born |-> now]

Lesser(x, y) == IF x <= y THEN x ELSE y

\* The bucket with the limits of this request: a larger burst fills it up, a
\* smaller one clips it; a rate of zero leaves the old rate.
WithLimits(b, rate, burst, now) ==
    LET newRate == IF rate > 0 THEN rate ELSE b.rate
        newBurst == IF burst > 0 THEN burst * Cost ELSE b.burst
        same == newRate = b.rate /\ newBurst = b.burst
    IN  [rate |-> newRate, burst |-> newBurst,
         tokens |-> IF newBurst > b.burst THEN newBurst
                    ELSE IF newBurst < b.burst THEN Lesser(b.tokens, newBurst)
                    ELSE b.tokens,
         last |-> b.last,
         grants |-> IF same THEN b.grants ELSE 0,
         born |-> IF same THEN b.born ELSE now]

\* Faulty variant: the refill is not clipped to the burst.
RefilledUnclipped(b, now) == b.tokens + (now - b.last) * b.rate

\* The refill: negative when the request read the clock before the last one
\* the bucket served.
Refilled(b, now) ==
    Lesser(b.tokens + (now - b.last) * b.rate, b.burst)

\* Faulty variant: a rejected request is charged too.
ServedChargesRejected(b, rate, burst, now) ==
    LET c == WithLimits(b, rate, burst, now)
        tokens == Refilled(c, now)
    IN  [c EXCEPT !.last = now, !.tokens = tokens - Cost,
                  !.grants = IF tokens < Cost THEN @ ELSE @ + 1]

\* localTokenBucket.Allow, as the bucket it leaves behind.
Served(b, rate, burst, now) ==
    LET c == WithLimits(b, rate, burst, now)
        tokens == Refilled(c, now)
    IN  IF tokens < Cost
        THEN [c EXCEPT !.last = now, !.tokens = tokens]
        ELSE [c EXCEPT !.last = now, !.tokens = tokens - Cost,
                       !.grants = @ + 1]

Allowed(b, rate, burst, now) ==
    Refilled(WithLimits(b, rate, burst, now), now) >= Cost

\* Faulty variant: expires a bucket at exactly its TTL.
bucketExpiredEarly(b, now) == now - b.last >= TTL

\* lastSeen is always last; an instant exactly TTL old has not expired.
bucketExpired(b, now) == now - b.last > TTL

-----------------------------------------------------------------------------
Mixed == -2

Idle == [pc |-> "idle", key |-> CHOOSE k \in Keys : TRUE, now |-> 0,
         bucket |-> 0, rate |-> 0, burst |-> 0]

Init ==
    /\ clock = 0
    /\ global \in GlobalLimits
    /\ calls = 0
    /\ buckets = [k \in Keys |-> 0]
    /\ heap = <<>>
    /\ thread = [t \in Threads |-> Idle]
    /\ granted = [k \in Keys |-> 0]
    /\ stray = [k \in Keys |-> 0]
    /\ since = [k \in Keys |-> -1]

\* A reading of the clock is at most MaxLag ticks old when it is used.
Tick ==
    /\ clock < MaxClock
    /\ \A t \in Threads :
          thread[t].pc # "idle" => clock + 1 - thread[t].now <= MaxLag
    /\ clock' = clock + 1
    /\ UNCHANGED <<global, calls, buckets, heap, thread, granted, stray, since>>

\* config.GlobalConfig is replaced by one with other global limits.
ChangeLimits ==
    /\ global' \in GlobalLimits \ {global}
    /\ since' = [k \in Keys |-> Mixed]
    /\ UNCHANGED <<clock, calls, buckets, heap, thread, granted, stray>>

\* The limits the middleware read, time.Now(), and the call counter that
\* decides whether to sweep.
Arrive(t) ==
    /\ thread[t].pc = "idle"
    /\ Len(heap) < MaxBuckets
    /\ calls' = (calls + 1) % CleanupInterval
    /\ \E k \in Keys :
          /\ granted[k] < MaxGranted
          /\ thread' = [thread EXCEPT ![t] =
                 [pc |-> IF calls' = 0 THEN "cleanup" ELSE "lookup",
                  key |-> k, now |-> clock, bucket |-> 0,
                  rate |-> LimitRate(global, TokenLimit[k]),
                  burst |-> LimitBurst(global, TokenLimit[k])]]
    /\ UNCHANGED <<clock, global, buckets, heap, granted, stray, since>>

\* Is there a live bucket for the key?
Live(k, now) == buckets[k] # 0 /\ ~bucketExpired(heap[buckets[k]], now)

maybeCleanup(t) ==
    /\ thread[t].pc = "cleanup"
    /\ buckets' = [k \in Keys |-> IF Live(k, thread[t].now)
                                  THEN buckets[k] ELSE 0]
    /\ thread' = [thread EXCEPT ![t].pc = "lookup"]
    /\ UNCHANGED <<clock, global, calls, heap, granted, stray, since>>

\* The section under the limiter's lock: find the bucket or make one.
Lookup(t) ==
    LET k == thread[t].key
        now == thread[t].now
        made == newLocalTokenBucket(thread[t].rate, thread[t].burst, now)
    IN  /\ thread[t].pc = "lookup"
        /\ IF Live(k, now)
           THEN /\ thread' = [thread EXCEPT ![t].pc = "allow",
                                            ![t].bucket = buckets[k]]
                /\ UNCHANGED <<buckets, heap, since>>
           ELSE /\ Len(heap) < MaxBuckets
                /\ heap' = Append(heap, made)
                /\ buckets' = [buckets EXCEPT ![k] = Len(heap) + 1]
                /\ since' = [since EXCEPT ![k] = IF @ = -1 THEN now ELSE @]
                /\ thread' = [thread EXCEPT ![t].pc = "allow",
                                            ![t].bucket = Len(heap) + 1]
        /\ UNCHANGED <<clock, global, calls, granted, stray>>

\* localTokenBucket.Allow under the bucket's lock.
Allow(t) ==
    LET k == thread[t].key
        now == thread[t].now
        i == thread[t].bucket
        rate == thread[t].rate
        burst == thread[t].burst
        ok == IF Allowed(heap[i], rate, burst, now) THEN 1 ELSE 0
    IN  /\ thread[t].pc = "allow"
        /\ heap' = [heap EXCEPT ![i] = Served(@, rate, burst, now)]
        /\ granted' = [granted EXCEPT ![k] = @ + ok]
        /\ stray' = [stray EXCEPT ![k] = @ + IF buckets[k] = i THEN 0 ELSE ok]
        /\ thread' = [thread EXCEPT ![t] = Idle]
        /\ UNCHANGED <<clock, global, calls, buckets, since>>

\* History: start to count the grants of a bucket anew.
OpenWindow ==
    /\ \E i \in 1..Len(heap) :
          /\ heap[i].born < clock
          /\ heap' = [heap EXCEPT ![i].grants = 0, ![i].born = clock]
    /\ UNCHANGED <<clock, global, calls, buckets, thread, granted, stray, since>>

Next ==
    \/ Tick
    \/ OpenWindow
    \/ ChangeLimits
    \/ \E t \in Threads : Arrive(t) \/ maybeCleanup(t) \/ Lookup(t) \/ Allow(t)

Spec == Init /\ [][Next]_vars

-----------------------------------------------------------------------------
(* Properties.                                                             *)

\* No bucket carries a time that has not come yet.
Bucket(time) == [rate : Nat, burst : Nat, tokens : Int, last : 0..time,
                 grants : Nat, born : 0..time]

Request(time, made) ==
    [pc : {"idle", "cleanup", "lookup", "allow"}, key : Keys, now : 0..time,
     bucket : 0..made, rate : Nat, burst : Nat]

TypeOK ==
    /\ clock \in Nat
    /\ global \in GlobalLimits
    /\ calls \in 0..(CleanupInterval - 1)
    /\ heap \in Seq(Bucket(clock))
    /\ buckets \in [Keys -> 0..Len(heap)]
    /\ thread \in [Threads -> Request(clock, Len(heap))]
    /\ granted \in [Keys -> Nat] /\ stray \in [Keys -> Nat]
    /\ since \in [Keys -> Mixed..clock]

\* In any window of time, under one limit, a bucket hands out no more than
\* its burst plus what its rate refills in the window and the lag of the
\* requests, however these are reordered between their clock reading and the
\* bucket's lock (localTokenBucket.Allow).
WindowBound ==
    \A i \in 1..Len(heap) :
        heap[i].grants * Cost
            <= heap[i].burst + heap[i].rate * (clock - heap[i].born + MaxLag)

\* What "Retry-After: 1" tells a rejected client: one second after the last
\* request the bucket has a token again, if nobody else takes it, as long as
\* the limits stay and the rate int(RateLimitQPS) left is not zero.
RetryAfterHonest ==
    (\A k \in Keys : since[k] # Mixed /\ LimitRate(global, TokenLimit[k]) > 0) =>
      \A i \in 1..Len(heap) :
        heap[i].tokens + heap[i].rate * (clock + Cost - heap[i].last) >= Cost

\* Is an idle bucket of the key full again when it expires, also when the
\* requests that used it last and that find it expired lag behind?
RefillsInTime(k) ==
    LimitBurst(global, TokenLimit[k]) * Cost
        <= LimitRate(global, TokenLimit[k]) * (TTL + 1 - 2 * MaxLag)

\* A bucket that refills within the TTL is evicted without cost: over all the
\* buckets a key ever had under one limit, the grants stay within one burst
\* plus the rate, but for those of a request that still held a bucket when it
\* was evicted.
KeyBound ==
    \A k \in Keys :
        since[k] >= 0 /\ RefillsInTime(k) =>
            (granted[k] - stray[k]) * Cost
                <= LimitBurst(global, TokenLimit[k]) * Cost
                     + LimitRate(global, TokenLimit[k]) * (clock - since[k])

=============================================================================
