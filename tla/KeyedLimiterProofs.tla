------------------------- MODULE KeyedLimiterProofs -------------------------
(***************************************************************************)
(* Proofs about the rate limiter, for every number of keys, requests and   *)
(* buckets, every limit, and every interleaving of the four steps of       *)
(* Allow: no bucket exceeds its limit in any window of time, no key        *)
(* exceeds its limit over all the buckets it ever had, and a rejected      *)
(* client finds a token when Retry-After tells it to come back.            *)
(*                                                                         *)
(* The potential of a bucket is what it has handed out in the window plus  *)
(* what it still holds.  A refill moves it by rate * (now - last), also    *)
(* when that is negative, and clipping only lowers it.                     *)
(***************************************************************************)
EXTENDS KeyedLimiter, TLAPS

\* The window bound of one bucket, strengthened by its potential at time
\* last.  A bucket that was not used in the window has handed out nothing.
BucketInv(b, time) ==
    /\ b.tokens <= b.burst
    /\ b.last < b.born - MaxLag => b.grants = 0
    /\ b.last >= b.born - MaxLag =>
          b.grants * Cost + b.tokens
              <= b.burst + b.rate * (b.last - b.born + MaxLag)
    /\ b.grants * Cost <= b.burst + b.rate * (time - b.born + MaxLag)

ThreadInv ==
    \A t \in Threads :
        /\ thread[t].pc # "idle" => clock - thread[t].now <= MaxLag
        /\ thread[t].pc = "allow" => thread[t].bucket \in 1..Len(heap)

IInv ==
    /\ TypeOK
    /\ ThreadInv
    /\ \A i \in 1..Len(heap) : BucketInv(heap[i], clock)

-----------------------------------------------------------------------------
(* Arithmetic.                                                             *)

\* A refill over two stretches of time is the sum of the refills.
LEMMA MulAdd ==
    ASSUME NEW r \in Int, NEW x \in Int, NEW y \in Int
    PROVE  /\ r * (x + y) = r * x + r * y /\ r * x \in Int /\ r * y \in Int
           /\ x * r = r * x
OBVIOUS

\* More time refills no less.
LEMMA MulMono ==
    ASSUME NEW r \in Nat, NEW x \in Int, NEW y \in Int, x <= y
    PROVE  r * x <= r * y /\ r * x \in Int /\ r * y \in Int
OBVIOUS

\* A refill is a natural number of units.
LEMMA MulNat ==
    ASSUME NEW r \in Nat, NEW x \in Nat
    PROVE  r * x \in Nat
OBVIOUS

\* What both counters gain leaves their difference alone.
LEMMA SameNet ==
    ASSUME NEW g \in Nat, NEW s \in Nat, NEW z \in Nat
    PROVE  (g + z) - (s + z) = g - s
OBVIOUS

\* A debt made up leaves what is added on top.
LEMMA Covers ==
    ASSUME NEW d \in Int, NEW e \in Int, NEW n \in Int, NEW c \in Int,
           c <= n, 0 <= d + e
    PROVE  d + (e + n) >= c
OBVIOUS

\* A later moment is no shorter a wait.
LEMMA Later ==
    ASSUME NEW c \in Nat, NEW l \in Nat, NEW s \in Int
    PROVE  /\ c - l - s \in Int /\ (c + 1) - l - s \in Int
           /\ c - l - s <= (c + 1) - l - s
OBVIOUS

-----------------------------------------------------------------------------
(* One bucket.                                                             *)

\* The limits are natural numbers.
LEMMA LimitType ==
    ASSUME NEW g \in Limits, NEW l \in Limits
    PROVE  LimitRate(g, l) \in Nat /\ LimitBurst(g, l) \in Nat
<1>1. GlobalQPS(g) \in Nat /\ GlobalBurst(g) \in Nat
  BY DEF GlobalQPS, GlobalBurst, Limits
<1>2. QED
  BY <1>1 DEF LimitRate, LimitBurst, Limits

\* A new bucket is full and has handed out nothing.
LEMMA NewBucketInv ==
    ASSUME NEW rate \in Nat, NEW burst \in Nat, NEW time \in Nat,
           NEW now \in 0..time, NEW b, b = newLocalTokenBucket(rate, burst, now)
    PROVE  b \in Bucket(time) /\ BucketInv(b, time)
<1>1. burst * Cost \in Nat
  BY LimiterAssumption, MulNat
<1>2. /\ b \in Bucket(time) /\ b.rate = rate /\ b.grants = 0
      /\ b.tokens = b.burst /\ b.last = now /\ b.born = now /\ b.burst \in Nat
  BY <1>1 DEF newLocalTokenBucket, Bucket
<1>3. rate * (now - now + MaxLag) \in Nat /\ rate * (time - now + MaxLag) \in Nat
  BY LimiterAssumption, MulNat
<1>4. 0 * Cost = 0
  BY LimiterAssumption
<1>5. QED
  BY <1>2, <1>3, <1>4 DEF BucketInv

\* Taking over other limits opens a new window; under the same limits the
\* bucket is unchanged.
LEMMA WithLimitsInv ==
    ASSUME NEW time \in Nat, NEW b \in Bucket(time), BucketInv(b, time),
           NEW rate \in Nat, NEW burst \in Nat, NEW now \in 0..time,
           NEW c, c = WithLimits(b, rate, burst, now)
    PROVE  c \in Bucket(time) /\ BucketInv(c, time) /\ c.last = b.last
<1> DEFINE newRate == IF rate > 0 THEN rate ELSE b.rate
           newBurst == IF burst > 0 THEN burst * Cost ELSE b.burst
           newTokens == IF newBurst > b.burst THEN newBurst
                        ELSE IF newBurst < b.burst
                        THEN Lesser(b.tokens, newBurst) ELSE b.tokens
           same == newRate = b.rate /\ newBurst = b.burst
<1>1. /\ b.rate \in Nat /\ b.burst \in Nat /\ b.tokens \in Int
      /\ b.last \in 0..time /\ b.grants \in Nat /\ b.born \in 0..time
  BY DEF Bucket
<1>2. burst * Cost \in Nat
  BY LimiterAssumption, MulNat
<1>3. newRate \in Nat /\ newBurst \in Nat
  BY <1>1, <1>2
<1>4. newTokens \in Int /\ newTokens <= newBurst
  BY <1>1, <1>3 DEF Lesser, BucketInv
<1>5. c = [rate |-> newRate, burst |-> newBurst, tokens |-> newTokens,
           last |-> b.last,
           grants |-> IF same THEN b.grants ELSE 0,
           born |-> IF same THEN b.born ELSE now]
  BY DEF WithLimits
<1>6. CASE same
  <2>1. newTokens = b.tokens
    BY <1>1, <1>6
  <2>2. /\ c.rate = b.rate /\ c.burst = b.burst /\ c.tokens = b.tokens
        /\ c.last = b.last /\ c.grants = b.grants /\ c.born = b.born
    BY <1>5, <1>6, <2>1
  <2>3. c \in Bucket(time)
    BY <1>1, <1>3, <1>4, <1>5, <1>6 DEF Bucket
  <2>4. QED
    BY <2>2, <2>3 DEF BucketInv
<1>7. CASE ~same
  <2> HIDE DEF newRate, newBurst, newTokens, same
  <2>1. /\ c.rate = newRate /\ c.burst = newBurst /\ c.tokens = newTokens
        /\ c.last = b.last /\ c.grants = 0 /\ c.born = now
    BY <1>5, <1>7
  <2>2. c \in Bucket(time)
    BY <1>1, <1>3, <1>4, <1>5, <1>7 DEF Bucket
  <2>3. b.last >= now - MaxLag => newRate * (b.last - now + MaxLag) \in Nat
    BY <1>1, <1>3, LimiterAssumption, MulNat
  <2>4. newRate * (time - now + MaxLag) \in Nat
    BY <1>1, <1>3, LimiterAssumption, MulNat
  <2>5. 0 * Cost = 0
    BY LimiterAssumption
  <2>6. QED
    BY <1>3, <1>4, <2>1, <2>2, <2>3, <2>4, <2>5 DEF BucketInv
<1>8. QED
  BY <1>6, <1>7

\* The potential after the refill, at the time of the request.
LEMMA RefillPotential ==
    ASSUME NEW time \in Nat, NEW c \in Bucket(time), BucketInv(c, time),
           NEW now \in 0..time, time - now <= MaxLag
    PROVE  /\ Refilled(c, now) \in Int
           /\ Refilled(c, now) <= c.burst
           /\ c.grants * Cost + Refilled(c, now)
                <= c.burst + c.rate * (now - c.born + MaxLag)
<1> DEFINE earned == (now - c.last) * c.rate
           room == c.rate * (now - c.born + MaxLag)
           spent == c.grants * Cost
<1>1. /\ c.rate \in Nat /\ c.burst \in Nat /\ c.tokens \in Int
      /\ c.last \in 0..time /\ c.grants \in Nat /\ c.born \in 0..time
      /\ MaxLag \in Nat /\ Cost \in Nat
  BY LimiterAssumption DEF Bucket
<1>2. earned \in Int /\ room \in Nat /\ spent \in Nat
  BY <1>1, MulNat, MulAdd
<1>3. Refilled(c, now) = Lesser(c.tokens + earned, c.burst)
  BY DEF Refilled
<1>4. Lesser(c.tokens + earned, c.burst) \in Int
  BY <1>1, <1>2 DEF Lesser
<1>5. /\ Lesser(c.tokens + earned, c.burst) <= c.burst
      /\ Lesser(c.tokens + earned, c.burst) <= c.tokens + earned
  BY <1>1, <1>2 DEF Lesser
<1>6. CASE c.last < c.born - MaxLag
  <2>1. spent = 0
    BY <1>1, <1>6 DEF BucketInv
  <2>2. QED
    BY <1>1, <1>2, <1>3, <1>4, <1>5, <2>1
<1>7. CASE c.last >= c.born - MaxLag
  <2> DEFINE before == c.rate * (c.last - c.born + MaxLag)
  <2>1. spent + c.tokens <= c.burst + before
    BY <1>7 DEF BucketInv
  <2>2. before \in Int /\ room = before + earned
    <3>1. (now - c.born + MaxLag) = (c.last - c.born + MaxLag) + (now - c.last)
      BY <1>1
    <3>2. /\ (c.last - c.born + MaxLag) \in Int /\ (now - c.last) \in Int
      BY <1>1
    <3>3. QED
      BY <1>1, <3>1, <3>2, MulAdd
  <2> HIDE DEF before, earned, room, spent
  <2>3. QED
    BY <1>1, <1>2, <1>3, <1>4, <1>5, <2>1, <2>2 DEF room, spent
<1>8. QED
  BY <1>1, <1>6, <1>7

\* Serving a request keeps the bucket's bound, whenever it read the clock.
LEMMA ServedInv ==
    ASSUME NEW time \in Nat, NEW b \in Bucket(time), BucketInv(b, time),
           NEW rate \in Nat, NEW burst \in Nat,
           NEW now \in 0..time, time - now <= MaxLag
    PROVE  LET d == Served(b, rate, burst, now)
           IN  d \in Bucket(time) /\ BucketInv(d, time)
<1> DEFINE c == WithLimits(b, rate, burst, now)
           tokens == Refilled(c, now)
           d == Served(b, rate, burst, now)
<1>1. c \in Bucket(time) /\ BucketInv(c, time)
  BY WithLimitsInv, Zenon
<1> HIDE DEF c
<1>2. /\ tokens \in Int /\ tokens <= c.burst
      /\ c.grants * Cost + tokens <= c.burst + c.rate * (now - c.born + MaxLag)
  BY <1>1, RefillPotential
<1>3. /\ c.rate \in Nat /\ c.burst \in Nat /\ c.tokens \in Int
      /\ c.last \in 0..time /\ c.grants \in Nat /\ c.born \in 0..time
      /\ MaxLag \in Nat /\ Cost \in Nat \ {0}
  BY <1>1, LimiterAssumption DEF Bucket
<1> DEFINE room == c.rate * (now - c.born + MaxLag)
           later == c.rate * (time - c.born + MaxLag)
           spent == c.grants * Cost
<1>4. room \in Int /\ later \in Int /\ room <= later
  <2>1. (now - c.born + MaxLag) \in Int /\ (time - c.born + MaxLag) \in Int
    BY <1>3
  <2>2. now - c.born + MaxLag <= time - c.born + MaxLag
    BY <1>3
  <2>3. QED
    BY <1>3, <2>1, <2>2, MulMono
<1>5. spent \in Nat /\ (c.grants + 1) * Cost = spent + Cost
  BY <1>3, MulNat
<1>6. now >= c.born - MaxLag
  BY <1>3
<1>7. spent <= c.burst + later
  BY <1>1 DEF BucketInv
<1>8. d = IF tokens < Cost
          THEN [c EXCEPT !.last = now, !.tokens = tokens]
          ELSE [c EXCEPT !.last = now, !.tokens = tokens - Cost,
                         !.grants = @ + 1]
  BY DEF Served, c
<1> HIDE DEF tokens, d
<1>9. CASE tokens < Cost
  <2>1. d = [c EXCEPT !.last = now, !.tokens = tokens]
    BY <1>8, <1>9
  <2>2. /\ d \in Bucket(time) /\ d.rate = c.rate /\ d.burst = c.burst
        /\ d.tokens = tokens /\ d.last = now
        /\ d.grants = c.grants /\ d.born = c.born
    BY <1>1, <1>2, <2>1, Zenon DEF Bucket
  <2>3. BucketInv(d, time)
    BY <1>2, <1>3, <1>6, <1>7, <2>2 DEF BucketInv
  <2>4. QED
    BY <2>2, <2>3 DEF d
<1>10. CASE ~(tokens < Cost)
  <2>1. d = [c EXCEPT !.last = now, !.tokens = tokens - Cost,
                      !.grants = c.grants + 1]
    BY <1>8, <1>10
  <2>2. tokens - Cost \in Int /\ c.grants + 1 \in Nat
    BY <1>2, <1>3
  <2>3. /\ d \in Bucket(time) /\ d.rate = c.rate /\ d.burst = c.burst
        /\ d.tokens = tokens - Cost /\ d.last = now
        /\ d.grants = c.grants + 1 /\ d.born = c.born
    BY <1>1, <2>1, <2>2, Zenon DEF Bucket
  <2>4. (c.grants + 1) * Cost + (tokens - Cost) <= c.burst + room
    <3> HIDE DEF room, spent
    <3>1. spent + tokens <= c.burst + room
      BY <1>2 DEF spent, room
    <3>2. QED
      BY <1>2, <1>3, <1>4, <1>5, <3>1
  <2>5. (c.grants + 1) * Cost <= c.burst + later
    <3> HIDE DEF room, later, spent
    <3>1. (c.grants + 1) * Cost \in Int
      BY <1>3, <1>5
    <3>2. QED
      BY <1>2, <1>3, <1>4, <1>10, <2>4, <3>1
  <2>6. d.tokens <= d.burst
    BY <1>2, <1>3, <2>3
  <2>7. BucketInv(d, time)
    BY <1>6, <2>3, <2>4, <2>5, <2>6, <1>3 DEF BucketInv
  <2>8. QED
    BY <2>3, <2>7 DEF d
<1>11. QED
  BY <1>9, <1>10

\* Time passing keeps the bucket's bound.
LEMMA TickBucket ==
    ASSUME NEW time \in Nat, NEW next \in Nat, next = time + 1,
           NEW b \in Bucket(time), BucketInv(b, time)
    PROVE  b \in Bucket(next) /\ BucketInv(b, next)
<1>1. /\ b.rate \in Nat /\ b.burst \in Nat /\ b.born \in 0..time
      /\ MaxLag \in Nat /\ b.grants * Cost \in Nat
  BY LimiterAssumption, MulNat DEF Bucket
<1>2. /\ b.rate * (time - b.born + MaxLag) <= b.rate * (next - b.born + MaxLag)
      /\ b.rate * (time - b.born + MaxLag) \in Int
      /\ b.rate * (next - b.born + MaxLag) \in Int
  BY <1>1, MulMono
<1>3. b.grants * Cost <= b.burst + b.rate * (next - b.born + MaxLag)
  BY <1>1, <1>2 DEF BucketInv
<1>4. b \in Bucket(next)
  BY DEF Bucket
<1>5. BucketInv(b, next)
  BY <1>3, Zenon DEF BucketInv
<1>6. QED
  BY <1>4, <1>5

\* A window that opens now has seen no grant.
LEMMA WindowBucket ==
    ASSUME NEW time \in Nat, NEW b \in Bucket(time), BucketInv(b, time),
           NEW d, d = [b EXCEPT !.grants = 0, !.born = time]
    PROVE  d \in Bucket(time) /\ BucketInv(d, time)
<1>1. /\ d \in Bucket(time) /\ d.grants = 0 /\ d.born = time
      /\ d.tokens = b.tokens /\ d.burst = b.burst /\ d.rate = b.rate
      /\ d.last = b.last
  <2>1. time \in 0..time /\ 0 \in Nat
    OBVIOUS
  <2> DEFINE span == 0..time
  <2>2. b \in [rate : Nat, burst : Nat, tokens : Int, last : span,
               grants : Nat, born : span]
    BY DEF Bucket
  <2>3. time \in span
    BY <2>1
  <2> HIDE DEF span
  <2>4. /\ d \in [rate : Nat, burst : Nat, tokens : Int, last : span,
                  grants : Nat, born : span]
        /\ d.grants = 0 /\ d.born = time
        /\ d.tokens = b.tokens /\ d.burst = b.burst /\ d.rate = b.rate
        /\ d.last = b.last
    BY <2>1, <2>2, <2>3, Zenon
  <2>5. QED
    BY <2>4 DEF span, Bucket
<1>2. /\ b.rate \in Nat /\ b.burst \in Nat /\ b.tokens \in Int
      /\ b.last \in 0..time /\ MaxLag \in Nat
  BY LimiterAssumption DEF Bucket
<1>3. b.last >= time - MaxLag => b.rate * (b.last - time + MaxLag) \in Nat
  BY <1>2, MulNat
<1>4. b.rate * (time - time + MaxLag) \in Nat
  BY <1>2, MulNat
<1>5. 0 * Cost = 0
  BY LimiterAssumption
<1>6. QED
  BY <1>1, <1>2, <1>3, <1>4, <1>5 DEF BucketInv

-----------------------------------------------------------------------------
(* The invariant: it holds at the start and every action keeps it.         *)

\* No bucket and no request yet.
LEMMA InitInv == Init => IInv
<1> SUFFICES ASSUME Init PROVE IInv
  OBVIOUS
<1>1. Idle \in Request(0, 0)
  BY LimiterAssumption DEF Idle, Request
<1>2. heap = <<>> /\ Len(heap) = 0 /\ clock = 0
  BY DEF Init
<1>3. TypeOK
  BY <1>1, <1>2, LimiterAssumption DEF Init, TypeOK, Mixed
<1>4. ThreadInv
  BY DEF Init, ThreadInv, Idle
<1>5. QED
  BY <1>2, <1>3, <1>4 DEF IInv

\* A request's record stays one as the clock and the heap grow.
LEMMA RequestGrows ==
    ASSUME NEW time \in Nat, NEW later \in Nat, time <= later,
           NEW made \in Nat, NEW more \in Nat, made <= more,
           NEW f \in [Threads -> Request(time, made)]
    PROVE  f \in [Threads -> Request(later, more)]
<1>1. Request(time, made) \subseteq Request(later, more)
  <2>1. 0..time \subseteq 0..later /\ 0..made \subseteq 0..more
    OBVIOUS
  <2>2. QED
    BY <2>1 DEF Request
<1>2. QED
  BY <1>1

\* A sequence whose elements are in a set is a sequence over that set.
LEMMA SeqOver ==
    ASSUME NEW S, NEW T, NEW s \in Seq(S), \A i \in 1..Len(s) : s[i] \in T
    PROVE  s \in Seq(T)
OBVIOUS

\* The clock advances only while every reading of it is recent enough.
LEMMA TickInv == IInv /\ Tick => IInv'
<1> SUFFICES ASSUME IInv, Tick PROVE IInv'
  OBVIOUS
<1>1. /\ clock \in Nat /\ clock' \in Nat /\ clock' = clock + 1
      /\ heap' = heap /\ thread' = thread /\ Len(heap) \in Nat
  BY DEF IInv, TypeOK, Tick
<1>2. \A i \in 1..Len(heap) :
         heap[i] \in Bucket(clock') /\ BucketInv(heap[i], clock')
  BY <1>1, TickBucket DEF IInv, TypeOK
<1>3. heap \in Seq(Bucket(clock'))
  <2>1. heap \in Seq(Bucket(clock)) /\ \A i \in 1..Len(heap) : heap[i] \in Bucket(clock')
    BY <1>2 DEF IInv, TypeOK
  <2>2. QED
    BY <2>1, SeqOver
<1>4. thread \in [Threads -> Request(clock', Len(heap))]
  <2>1. thread \in [Threads -> Request(clock, Len(heap))]
    BY DEF IInv, TypeOK
  <2>2. clock <= clock' /\ Len(heap) <= Len(heap)
    BY <1>1
  <2>3. QED
    BY <1>1, <2>1, <2>2, RequestGrows, Zenon
<1>5. since \in [Keys -> Mixed..clock']
  BY <1>1 DEF IInv, TypeOK
<1>6. TypeOK'
  BY <1>1, <1>3, <1>4, <1>5 DEF IInv, TypeOK, Tick
<1>7. ThreadInv'
  <2>1. ASSUME NEW t \in Threads
        PROVE  /\ thread[t].pc # "idle" => clock' - thread[t].now <= MaxLag
               /\ thread[t].pc = "allow" => thread[t].bucket \in 1..Len(heap)
    <3>1. thread[t].pc # "idle" => clock + 1 - thread[t].now <= MaxLag
      BY DEF Tick
    <3>2. thread[t].pc = "allow" => thread[t].bucket \in 1..Len(heap)
      BY DEF IInv, ThreadInv
    <3>3. QED
      <4>1. /\ clock' = clock + 1 /\ clock \in Nat /\ MaxLag \in Nat
            /\ thread[t].now \in Int
        BY <1>1, LimiterAssumption DEF IInv, TypeOK, Request
      <4>2. QED
        BY <3>1, <3>2, <4>1
  <2>2. QED
    BY <1>1, <2>1 DEF ThreadInv
<1>8. QED
  BY <1>1, <1>2, <1>6, <1>7 DEF IInv

\* Replacing one bucket by one that satisfies the invariant.
LEMMA ReplaceBucket ==
    ASSUME IInv, NEW i \in 1..Len(heap), NEW d,
           d \in Bucket(clock), BucketInv(d, clock),
           heap' = [heap EXCEPT ![i] = d], clock' = clock
    PROVE  /\ heap' \in Seq(Bucket(clock')) /\ Len(heap') = Len(heap)
           /\ \A j \in 1..Len(heap') : BucketInv(heap'[j], clock')
<1>1. heap \in Seq(Bucket(clock))
  BY DEF IInv, TypeOK
<1>2. /\ heap' \in Seq(Bucket(clock)) /\ Len(heap') = Len(heap)
      /\ \A j \in 1..Len(heap) : heap'[j] = IF j = i THEN d ELSE heap[j]
  BY <1>1
<1>3. QED
  BY <1>2 DEF IInv

\* A new window changes only the history of one bucket.
LEMMA OpenWindowInv == IInv /\ OpenWindow => IInv'
<1> SUFFICES ASSUME IInv, OpenWindow PROVE IInv'
  OBVIOUS
<1>1. PICK i \in 1..Len(heap) :
         heap' = [heap EXCEPT ![i].grants = 0, ![i].born = clock]
  BY Zenon DEF OpenWindow
<1> DEFINE d == [heap[i] EXCEPT !.grants = 0, !.born = clock]
<1>2. heap[i] \in Bucket(clock) /\ BucketInv(heap[i], clock) /\ clock \in Nat
  BY DEF IInv, TypeOK
<1>3. d \in Bucket(clock) /\ BucketInv(d, clock)
  BY <1>2, WindowBucket, Zenon
<1>4. heap' = [heap EXCEPT ![i] = d] /\ clock' = clock
  BY <1>1, Zenon DEF OpenWindow
<1> HIDE DEF d
<1>5. /\ heap' \in Seq(Bucket(clock')) /\ Len(heap') = Len(heap)
      /\ \A j \in 1..Len(heap') : BucketInv(heap'[j], clock')
  BY <1>3, <1>4, ReplaceBucket, Zenon
<1>6. TypeOK' /\ ThreadInv'
  BY <1>5 DEF IInv, TypeOK, ThreadInv, OpenWindow
<1>7. QED
  BY <1>5, <1>6 DEF IInv

\* Limits change in the configuration only.
LEMMA ChangeLimitsInv == IInv /\ ChangeLimits => IInv'
BY DEF ChangeLimits, IInv, TypeOK, ThreadInv, Mixed

\* The fields of a request.
LEMMA RequestFields ==
    ASSUME IInv, NEW t \in Threads
    PROVE  /\ thread[t] \in Request(clock, Len(heap))
           /\ thread[t].key \in Keys /\ thread[t].now \in 0..clock
           /\ thread[t].rate \in Nat /\ thread[t].burst \in Nat
<1>1. thread[t] \in Request(clock, Len(heap))
  BY DEF IInv, TypeOK
<1>2. QED
  BY <1>1 DEF Request

\* A step that moves one request and leaves clock and heap alone.
LEMMA MoveRequest ==
    ASSUME IInv, NEW t \in Threads, NEW d \in Request(clock, Len(heap)),
           thread' = [thread EXCEPT ![t] = d],
           d.pc # "idle" => clock - d.now <= MaxLag,
           d.pc = "allow" => d.bucket \in 1..Len(heap),
           clock' = clock, Len(heap') = Len(heap)
    PROVE  /\ thread' \in [Threads -> Request(clock', Len(heap'))]
           /\ ThreadInv'
<1>1. thread \in [Threads -> Request(clock, Len(heap))]
  BY DEF IInv, TypeOK
<1>2. /\ thread' \in [Threads -> Request(clock, Len(heap))]
      /\ \A u \in Threads : thread'[u] = IF u = t THEN d ELSE thread[u]
  BY <1>1
<1>3. QED
  BY <1>2 DEF IInv, ThreadInv

\* A request reads the clock as it arrives.
LEMMA ArriveInv ==
    ASSUME IInv, NEW t \in Threads, Arrive(t)
    PROVE  IInv'
<1>1. PICK k \in Keys : thread' = [thread EXCEPT ![t] =
         [pc |-> IF calls' = 0 THEN "cleanup" ELSE "lookup",
          key |-> k, now |-> clock, bucket |-> 0,
          rate |-> LimitRate(global, TokenLimit[k]),
          burst |-> LimitBurst(global, TokenLimit[k])]]
  BY Zenon DEF Arrive
<1> DEFINE d == [pc |-> IF calls' = 0 THEN "cleanup" ELSE "lookup",
                 key |-> k, now |-> clock, bucket |-> 0,
                 rate |-> LimitRate(global, TokenLimit[k]),
                 burst |-> LimitBurst(global, TokenLimit[k])]
<1>2. /\ clock \in Nat /\ Len(heap) \in Nat
      /\ LimitRate(global, TokenLimit[k]) \in Nat
      /\ LimitBurst(global, TokenLimit[k]) \in Nat
  BY LimiterAssumption, LimitType DEF IInv, TypeOK
<1>3. d \in Request(clock, Len(heap))
  BY <1>2 DEF Request
<1>4. /\ d.pc # "idle" => clock - d.now <= MaxLag
      /\ d.pc = "allow" => d.bucket \in 1..Len(heap)
  BY <1>2, LimiterAssumption
<1>5. clock' = clock /\ heap' = heap /\ thread' = [thread EXCEPT ![t] = d]
  BY <1>1, Zenon DEF Arrive
<1> HIDE DEF d
<1>6. thread' \in [Threads -> Request(clock', Len(heap'))] /\ ThreadInv'
  BY <1>3, <1>4, <1>5, MoveRequest, Zenon
<1>7. calls' \in 0..(CleanupInterval - 1)
  <2>1. calls \in Nat /\ CleanupInterval \in Nat \ {0}
    BY LimiterAssumption DEF IInv, TypeOK
  <2>2. (calls + 1) % CleanupInterval \in 0..(CleanupInterval - 1)
    BY <2>1
  <2>3. QED
    BY <2>2 DEF Arrive
<1>8. QED
  BY <1>5, <1>6, <1>7, SMTT(30) DEF Arrive, IInv, TypeOK

\* The sweep only drops buckets from the map.
LEMMA CleanupInv ==
    ASSUME IInv, NEW t \in Threads, maybeCleanup(t)
    PROVE  IInv'
<1> DEFINE d == [thread[t] EXCEPT !.pc = "lookup"]
<1>1. thread[t] \in Request(clock, Len(heap))
  BY RequestFields
<1>2. /\ d \in Request(clock, Len(heap)) /\ d.pc = "lookup"
      /\ d.now = thread[t].now
  BY <1>1 DEF Request
<1>3. clock - d.now <= MaxLag
  BY <1>2 DEF maybeCleanup, IInv, ThreadInv
<1>4. clock' = clock /\ heap' = heap /\ thread' = [thread EXCEPT ![t] = d]
  BY DEF maybeCleanup
<1> HIDE DEF d
<1>5. thread' \in [Threads -> Request(clock', Len(heap'))] /\ ThreadInv'
  BY <1>2, <1>3, <1>4, MoveRequest, Zenon
<1>6. buckets' \in [Keys -> 0..Len(heap')]
  BY <1>4 DEF maybeCleanup, IInv, TypeOK
<1>7. QED
  BY <1>4, <1>5, <1>6 DEF maybeCleanup, IInv, TypeOK

\* A request finds a live bucket in the map.
LEMMA LookupFindsInv ==
    ASSUME IInv, NEW t \in Threads, Lookup(t),
           Live(thread[t].key, thread[t].now)
    PROVE  IInv'
<1> DEFINE i == buckets[thread[t].key]
           d == [thread[t] EXCEPT !.pc = "allow", !.bucket = i]
<1>1. thread[t] \in Request(clock, Len(heap)) /\ thread[t].key \in Keys
  BY RequestFields
<1>2. i \in 0..Len(heap) /\ i # 0 /\ Len(heap) \in Nat
  BY <1>1 DEF Live, IInv, TypeOK
<1>3. clock' = clock /\ heap' = heap /\ thread' = [thread EXCEPT ![t] = d]
  BY Zenon DEF Lookup
<1> HIDE DEF i
<1>4. /\ d \in Request(clock, Len(heap)) /\ d.pc = "allow" /\ d.bucket = i
      /\ d.now = thread[t].now
  BY <1>1, <1>2, Zenon DEF Request
<1>5. clock - d.now <= MaxLag
  BY <1>4 DEF Lookup, IInv, ThreadInv
<1>6. d.bucket \in 1..Len(heap)
  BY <1>2, <1>4
<1> HIDE DEF d
<1>7. thread' \in [Threads -> Request(clock', Len(heap'))] /\ ThreadInv'
  BY <1>3, <1>4, <1>5, <1>6, MoveRequest, Zenon
<1>8. QED
  BY <1>3, <1>7 DEF Lookup, IInv, TypeOK

\* A request makes the bucket it did not find.
LEMMA LookupMakesInv ==
    ASSUME IInv, NEW t \in Threads, Lookup(t),
           ~Live(thread[t].key, thread[t].now)
    PROVE  IInv'
<1> DEFINE n == Len(heap) + 1
           now == thread[t].now
           made == newLocalTokenBucket(thread[t].rate, thread[t].burst, now)
           d == [thread[t] EXCEPT !.pc = "allow", !.bucket = n]
<1>1. /\ thread[t] \in Request(clock, Len(heap)) /\ thread[t].key \in Keys
      /\ now \in 0..clock /\ clock \in Nat
      /\ heap \in Seq(Bucket(clock)) /\ Len(heap) \in Nat
  BY RequestFields DEF IInv, TypeOK
<1>2. made \in Bucket(clock) /\ BucketInv(made, clock)
  BY <1>1, RequestFields, NewBucketInv
<1>3. /\ clock' = clock /\ heap' = Append(heap, made)
      /\ thread' = [thread EXCEPT ![t] = d]
      /\ buckets' = [buckets EXCEPT ![thread[t].key] = n]
      /\ since' = [since EXCEPT ![thread[t].key] = IF @ = -1 THEN now ELSE @]
  BY Zenon DEF Lookup
<1> HIDE DEF made
<1>4. /\ heap' \in Seq(Bucket(clock)) /\ Len(heap') = n
      /\ \A j \in 1..n : heap'[j] = IF j = n THEN made ELSE heap[j]
  BY <1>1, <1>2, <1>3
<1>5. n \in Nat /\ Len(heap) <= n /\ n \in 0..n /\ n \in 1..n
  BY <1>1
<1> HIDE DEF n
<1>6. \A j \in 1..Len(heap') : BucketInv(heap'[j], clock')
  <2>1. \A j \in 1..Len(heap) : BucketInv(heap[j], clock)
    BY DEF IInv
  <2>2. \A j \in 1..n : j # n => j \in 1..Len(heap)
    BY <1>1 DEF n
  <2>3. QED
    BY <1>2, <1>3, <1>4, <2>1, <2>2
<1>7. thread \in [Threads -> Request(clock, n)]
  <2>1. thread \in [Threads -> Request(clock, Len(heap))]
    BY DEF IInv, TypeOK
  <2>2. clock <= clock
    BY <1>1
  <2>3. QED
    BY <1>1, <1>5, <2>1, <2>2, RequestGrows, Zenon
<1>8. /\ d \in Request(clock, n) /\ d.pc = "allow" /\ d.bucket = n
      /\ d.now = now
  BY <1>5, <1>7, ZenonT(30) DEF Request
<1>9. clock - d.now <= MaxLag
  BY <1>8 DEF Lookup, IInv, ThreadInv
<1> HIDE DEF d
<1>10. /\ thread' \in [Threads -> Request(clock, n)]
       /\ \A u \in Threads : thread'[u] = IF u = t THEN d ELSE thread[u]
  BY <1>3, <1>7, <1>8
<1>11. ThreadInv'
  <2>1. 1..Len(heap) \subseteq 1..n
    BY <1>1 DEF n
  <2>2. QED
    BY <1>3, <1>4, <1>5, <1>8, <1>9, <1>10, <2>1 DEF IInv, ThreadInv
<1>12. buckets' \in [Keys -> 0..n]
  <2>1. 0..Len(heap) \subseteq 0..n
    BY <1>1 DEF n
  <2>2. buckets \in [Keys -> 0..n]
    BY <2>1 DEF IInv, TypeOK
  <2>3. QED
    BY <1>3, <1>5, <2>2, Zenon
<1>13. since' \in [Keys -> Mixed..clock]
  <2>1. now \in Mixed..clock
    BY <1>1 DEF Mixed
  <2>2. QED
    BY <1>3, <2>1, Zenon DEF IInv, TypeOK
<1>14. TypeOK'
  BY <1>3, <1>4, <1>10, <1>12, <1>13 DEF Lookup, IInv, TypeOK
<1>15. QED
  BY <1>6, <1>11, <1>14 DEF IInv

\* A request takes a token from the bucket it holds, in the map or not.
LEMMA AllowInv ==
    ASSUME IInv, NEW t \in Threads, Allow(t)
    PROVE  IInv'
<1> DEFINE i == thread[t].bucket
           rate == thread[t].rate
           burst == thread[t].burst
           b == Served(heap[i], rate, burst, thread[t].now)
<1>1. /\ rate \in Nat /\ burst \in Nat /\ thread[t].now \in 0..clock
      /\ clock \in Nat /\ thread[t].key \in Keys /\ Len(heap) \in Nat
  BY RequestFields DEF IInv, TypeOK
<1>2. i \in 1..Len(heap) /\ clock - thread[t].now <= MaxLag
  BY DEF Allow, IInv, ThreadInv
<1>3. heap[i] \in Bucket(clock) /\ BucketInv(heap[i], clock)
  BY <1>2 DEF IInv, TypeOK
<1>4. b \in Bucket(clock) /\ BucketInv(b, clock)
  <2> HIDE DEF rate, burst, i
  <2>1. QED
    BY <1>1, <1>2, <1>3, ServedInv, Zenon
<1>5. clock' = clock /\ heap' = [heap EXCEPT ![i] = b]
      /\ thread' = [thread EXCEPT ![t] = Idle]
  BY DEF Allow
<1>6. granted' \in [Keys -> Nat] /\ stray' \in [Keys -> Nat]
  <2>1. ASSUME NEW x \in {0, 1}, NEW y \in {0, 1}
        PROVE  /\ [granted EXCEPT ![thread[t].key] = @ + x] \in [Keys -> Nat]
               /\ [stray EXCEPT ![thread[t].key] = @ + y] \in [Keys -> Nat]
    <3>1. granted \in [Keys -> Nat] /\ stray \in [Keys -> Nat]
      BY DEF IInv, TypeOK
    <3>2. ASSUME NEW f \in [Keys -> Nat], NEW k \in Keys, NEW z \in {0, 1}
          PROVE  [f EXCEPT ![k] = @ + z] \in [Keys -> Nat]
      <4>1. f[k] + z \in Nat
        OBVIOUS
      <4>2. QED
        BY <4>1
    <3>3. QED
      BY <1>1, <3>1, <3>2, SMTT(30)
  <2>2. QED
    BY <2>1 DEF Allow
<1> HIDE DEF b
<1>7. /\ heap' \in Seq(Bucket(clock')) /\ Len(heap') = Len(heap)
      /\ \A j \in 1..Len(heap') : BucketInv(heap'[j], clock')
  BY <1>2, <1>4, <1>5, ReplaceBucket, Zenon
<1>8. Idle \in Request(clock, Len(heap)) /\ Idle.pc = "idle"
  BY <1>1, LimiterAssumption DEF Idle, Request
<1>9. thread' \in [Threads -> Request(clock', Len(heap'))] /\ ThreadInv'
  BY <1>5, <1>7, <1>8, MoveRequest, Zenon
<1>10. QED
  BY <1>5, <1>6, <1>7, <1>9 DEF Allow, IInv, TypeOK

\* Every step keeps the invariant.
LEMMA StepInv == IInv /\ [Next]_vars => IInv'
<1> SUFFICES ASSUME IInv, [Next]_vars PROVE IInv'
  OBVIOUS
<1>1. CASE UNCHANGED vars
  BY <1>1 DEF vars, IInv, TypeOK, ThreadInv
<1>2. ASSUME NEW t \in Threads, Lookup(t) PROVE IInv'
  BY <1>2, LookupFindsInv, LookupMakesInv
<1>3. QED
  BY <1>1, <1>2, TickInv, OpenWindowInv, ChangeLimitsInv, ArriveInv,
     CleanupInv, AllowInv DEF Next

\* The invariant of the limiter.
LEMMA Invariance == Spec => []IInv
BY InitInv, StepInv, PTL DEF Spec

-----------------------------------------------------------------------------
(* The second invariant: what holds while the limits stay.  Every request  *)
(* carries the limits of its key and finds them in the bucket it holds, so *)
(* that no bucket changes its limits; a request with an old clock reading  *)
(* puts a bucket in debt, but never by more than the refill of its lag;    *)
(* and a key has spent no more than its burst and its rate, less what its  *)
(* bucket still holds.                                                     *)

Rate(k) == LimitRate(global, TokenLimit[k])

Burst(k) == LimitBurst(global, TokenLimit[k]) * Cost

Steady == \A k \in Keys : since[k] # Mixed

HasLimits(b, k) == b.rate = Rate(k) /\ b.burst = Burst(k)

LimitsInv ==
    /\ Steady \/ \A k \in Keys : since[k] = Mixed
    /\ Steady =>
        /\ \A t \in Threads : thread[t].pc # "idle" =>
              /\ thread[t].rate = Rate(thread[t].key)
              /\ thread[t].burst = LimitBurst(global, TokenLimit[thread[t].key])
        /\ \A t \in Threads : thread[t].pc = "allow" =>
              HasLimits(heap[thread[t].bucket], thread[t].key)
        /\ \A k \in Keys : buckets[k] # 0 => HasLimits(heap[buckets[k]], k)
        /\ \A i \in 1..Len(heap) : \E k \in Keys : HasLimits(heap[i], k)

Debt(b, time) == 0 <= b.tokens + b.rate * Lesser(MaxLag, time - b.last)

DebtInv == Steady => \A i \in 1..Len(heap) : Debt(heap[i], clock)

Spent(k) == (granted[k] - stray[k]) * Cost

\* A key that never had a bucket has been granted nothing.
Fresh(k) ==
    /\ granted[k] = 0 /\ stray[k] = 0 /\ buckets[k] = 0
    /\ \A t \in Threads : thread[t].pc = "allow" => thread[t].key # k

\* With a bucket, what the key has spent and what the bucket holds stay
\* within the burst and the refill up to the bucket's last use.  Without
\* one, a full burst is to spare by the time any request can read the clock.
Within(k) ==
    IF buckets[k] = 0
    THEN Spent(k) <= Rate(k) * (clock - MaxLag - since[k])
    ELSE Spent(k) + heap[buckets[k]].tokens
            <= Burst(k) + Rate(k) * (heap[buckets[k]].last - since[k])

KeyInv ==
    \A k \in Keys :
        /\ since[k] = -1 => Fresh(k)
        /\ since[k] >= 0 /\ RefillsInTime(k) => Within(k)

SteadyInv == LimitsInv /\ DebtInv /\ KeyInv

-----------------------------------------------------------------------------
(* One bucket under one limit.                                             *)

\* The limits handed to a bucket are never without burst.
LEMMA BurstPositive ==
    ASSUME NEW g \in Limits, NEW l \in Limits
    PROVE  LimitBurst(g, l) > 0
<1>1. GlobalQPS(g) \in Nat /\ GlobalQPS(g) > 0
  BY DEF GlobalQPS, Limits
<1>2. GlobalBurst(g) \in Nat /\ GlobalBurst(g) > 0
  BY <1>1 DEF GlobalBurst, Limits
<1>3. QED
  BY <1>2 DEF LimitBurst, Limits

\* A bucket that already has the limits of the request is left as it is.
LEMMA SameLimits ==
    ASSUME NEW time \in Nat, NEW b \in Bucket(time), NEW rate \in Nat,
           NEW burst \in Nat, burst > 0, NEW now \in Nat,
           b.rate = rate, b.burst = burst * Cost
    PROVE  WithLimits(b, rate, burst, now) = b
<1>1. /\ b.rate \in Nat /\ b.burst \in Nat
      /\ b = [rate |-> b.rate, burst |-> b.burst, tokens |-> b.tokens,
              last |-> b.last, grants |-> b.grants, born |-> b.born]
  BY DEF Bucket
<1>2. ~(b.burst > b.burst) /\ ~(b.burst < b.burst)
  BY <1>1
<1>3. (IF rate > 0 THEN rate ELSE b.rate) = b.rate
  OBVIOUS
<1>4. (IF burst > 0 THEN burst * Cost ELSE b.burst) = b.burst
  OBVIOUS
<1>5. WithLimits(b, rate, burst, now)
        = [rate |-> b.rate, burst |-> b.burst, tokens |-> b.tokens,
           last |-> b.last, grants |-> b.grants, born |-> b.born]
  BY <1>2, <1>3, <1>4, Zenon DEF WithLimits
<1>6. QED
  BY <1>1, <1>5

\* d is bucket b after a request with clock reading now, which took a token
\* if ok is 1.
ServedWell(b, d, ok, now, time) ==
    /\ d.rate = b.rate /\ d.burst = b.burst /\ d.last = now
    /\ d.tokens \in Int
    /\ ok * Cost + d.tokens <= b.tokens + b.rate * (now - b.last)
    /\ Debt(b, time) => Debt(d, time)

\* Serving a request under the bucket's own limits moves its content by the
\* refill, less the token, and keeps its debt within the lag.
LEMMA ServedSteady ==
    ASSUME NEW time \in Nat, NEW b \in Bucket(time), NEW rate \in Nat,
           NEW burst \in Nat, burst > 0, NEW now \in 0..time,
           time - now <= MaxLag, b.rate = rate, b.burst = burst * Cost,
           NEW d, d = Served(b, rate, burst, now),
           NEW ok, ok = IF Allowed(b, rate, burst, now) THEN 1 ELSE 0
    PROVE  ServedWell(b, d, ok, now, time)
<1> DEFINE tokens == Refilled(b, now)
           earned == b.rate * (now - b.last)
<1>1. /\ b.rate \in Nat /\ b.burst \in Nat /\ b.tokens \in Int
      /\ b.last \in 0..time /\ MaxLag \in Nat /\ Cost \in Nat \ {0}
  BY LimiterAssumption DEF Bucket
<1>2. earned \in Int /\ (now - b.last) * b.rate = earned
  BY <1>1, MulAdd
<1>3. WithLimits(b, rate, burst, now) = b
  BY SameLimits, SMTT(30)
<1>4. /\ d = IF tokens < Cost
             THEN [b EXCEPT !.last = now, !.tokens = tokens]
             ELSE [b EXCEPT !.last = now, !.tokens = tokens - Cost,
                            !.grants = @ + 1]
      /\ ok = IF tokens >= Cost THEN 1 ELSE 0
  BY <1>3, Zenon DEF Served, Allowed
<1>5. tokens = Lesser(b.tokens + earned, b.burst)
  BY <1>2 DEF Refilled
<1> HIDE DEF tokens, earned
<1>6. /\ tokens \in Int /\ tokens <= b.tokens + earned
      /\ tokens = b.tokens + earned \/ tokens = b.burst
  BY <1>1, <1>2, <1>5 DEF Lesser
<1>7. d.rate = b.rate /\ d.burst = b.burst /\ d.last = now
  BY <1>4, Zenon DEF Bucket
<1>8. d.tokens = IF tokens < Cost THEN tokens ELSE tokens - Cost
  BY <1>4, Zenon DEF Bucket
<1>9. d.tokens \in Int /\ ok * Cost + d.tokens <= b.tokens + earned
  <2>1. CASE tokens < Cost
    <3>1. ok * Cost = 0
      BY <1>1, <1>4, <1>6, <2>1
    <3>2. QED
      BY <1>1, <1>2, <1>6, <1>8, <2>1, <3>1
  <2>2. CASE ~(tokens < Cost)
    <3>1. ok * Cost = Cost
      BY <1>1, <1>4, <1>6, <2>2
    <3>2. QED
      BY <1>1, <1>2, <1>6, <1>8, <2>2, <3>1
  <2>3. QED
    BY <2>1, <2>2
<1>10. ASSUME Debt(b, time) PROVE Debt(d, time)
  <2> DEFINE lag == Lesser(MaxLag, time - b.last)
             owed == b.rate * lag
             late == b.rate * (time - now)
  <2>1. lag \in Int /\ lag <= time - b.last
    BY <1>1 DEF Lesser
  <2>2. Lesser(MaxLag, time - now) = time - now
    BY <1>1 DEF Lesser
  <2>3. late \in Nat /\ owed \in Int
    BY <1>1, <2>1, MulNat, MulAdd
  <2>4. owed <= late + earned
    <3>1. /\ (time - b.last) = (time - now) + (now - b.last)
          /\ (time - now) \in Int /\ (now - b.last) \in Int
      BY <1>1
    <3>2. b.rate * (time - b.last) = late + earned
      BY <1>1, <3>1, MulAdd DEF earned
    <3>3. owed <= b.rate * (time - b.last)
      BY <1>1, <2>1, MulMono
    <3>4. QED
      BY <3>2, <3>3
  <2>5. 0 <= b.tokens + owed
    BY <1>10 DEF Debt
  <2>6. Debt(d, time) <=> 0 <= d.tokens + late
    BY <1>7, <2>2 DEF Debt
  <2> HIDE DEF lag, owed, late
  <2>7. 0 <= tokens + late
    BY <1>1, <1>2, <1>6, <2>3, <2>4, <2>5
  <2>8. 0 <= d.tokens + late
    BY <1>1, <1>6, <1>8, <2>3, <2>7
  <2>9. QED
    BY <2>6, <2>8
<1>11. QED
  BY <1>7, <1>9, <1>10 DEF earned, ServedWell

\* More time only lowers the debt.
LEMMA DebtShrinks ==
    ASSUME NEW time \in Nat, NEW next \in Nat, next = time + 1,
           NEW b \in Bucket(time), Debt(b, time)
    PROVE  Debt(b, next)
<1>1. /\ b.rate \in Nat /\ b.tokens \in Int /\ b.last \in 0..time
      /\ MaxLag \in Nat
  BY LimiterAssumption DEF Bucket
<1> DEFINE x == Lesser(MaxLag, time - b.last)
           y == Lesser(MaxLag, next - b.last)
<1>2. x \in Int /\ y \in Int /\ x <= y
  BY <1>1 DEF Lesser
<1>3. /\ 0 <= b.tokens + b.rate * x
      /\ Debt(b, next) <=> 0 <= b.tokens + b.rate * y
  BY DEF Debt
<1> HIDE DEF x, y
<1>4. /\ b.rate * x <= b.rate * y /\ b.rate * x \in Int
      /\ b.rate * y \in Int
  BY <1>1, <1>2, MulMono
<1>5. 0 <= b.tokens + b.rate * y
  BY <1>1, <1>3, <1>4
<1>6. QED
  BY <1>3, <1>5

\* The debt of a bucket is less than its refill since its last use.
LEMMA DebtBound ==
    ASSUME NEW time \in Nat, NEW b \in Bucket(time), Debt(b, time)
    PROVE  /\ 0 <= b.tokens + b.rate * (time - b.last)
           /\ 0 <= b.tokens + b.rate * MaxLag
<1>1. /\ b.rate \in Nat /\ b.tokens \in Int /\ b.last \in 0..time
      /\ MaxLag \in Nat
  BY LimiterAssumption DEF Bucket
<1> DEFINE x == Lesser(MaxLag, time - b.last)
<1>2. x \in Int /\ x <= time - b.last /\ x <= MaxLag
  BY <1>1 DEF Lesser
<1>3. 0 <= b.tokens + b.rate * x
  BY DEF Debt
<1> HIDE DEF x
<1>4. /\ b.rate * x <= b.rate * (time - b.last)
      /\ b.rate * x <= b.rate * MaxLag
      /\ b.rate * x \in Int /\ b.rate * (time - b.last) \in Int
      /\ b.rate * MaxLag \in Int
  BY <1>1, <1>2, MulMono
<1>5. QED
  BY <1>1, <1>3, <1>4

\* A bucket that has expired leaves a full burst to spare, if it refills
\* within the TTL.
LEMMA EvictionArithmetic ==
    ASSUME NEW r \in Nat, NEW spent \in Int, NEW tokens \in Int, NEW full \in Int,
           NEW last \in Int, NEW start \in Int, NEW time \in Int,
           NEW lag \in Int, NEW ttl \in Int,
           spent + tokens <= full + r * (last - start),
           0 <= tokens + r * lag, full <= r * (ttl + 1 - 2 * lag),
           last <= time - ttl - 1
    PROVE  spent <= r * (time - lag - start)
<1> DEFINE x == last - start
           y == ttl + 1 - 2 * lag
           z == time - lag - start
<1>1. x \in Int /\ y \in Int /\ z \in Int /\ x + y + lag <= z
  OBVIOUS
<1>2. spent + tokens <= full + r * x /\ 0 <= tokens + r * lag /\ full <= r * y
  OBVIOUS
<1> HIDE DEF x, y, z
<1>3. /\ r * (x + y) = r * x + r * y
      /\ r * x \in Int /\ r * y \in Int /\ r * lag \in Int
  BY <1>1, MulAdd
<1>4. (x + y) \in Int /\ (x + y + lag) \in Int
  BY <1>1
<1>5. r * (x + y + lag) = r * (x + y) + r * lag
  BY <1>4, MulAdd
<1>6. r * (x + y + lag) <= r * z /\ r * z \in Int
  BY <1>1, <1>4, MulMono
<1>7. spent <= r * z
  BY <1>2, <1>3, <1>5, <1>6
<1>8. QED
  BY <1>7 DEF z

-----------------------------------------------------------------------------
(* Every action keeps the second invariant.                                *)

\* The limits of a key, and what it takes from them.
LEMMA KeyFacts ==
    ASSUME IInv, NEW k \in Keys
    PROVE  /\ Rate(k) \in Nat /\ Burst(k) \in Nat /\ Spent(k) \in Int
           /\ LimitBurst(global, TokenLimit[k]) \in Nat
           /\ LimitBurst(global, TokenLimit[k]) > 0
           /\ since[k] \in Int /\ since[k] <= clock /\ clock \in Nat
           /\ buckets[k] \in 0..Len(heap)
           /\ since[k] # Mixed => since[k] = -1 \/ since[k] >= 0
<1>1. global \in Limits /\ TokenLimit[k] \in Limits
  BY LimiterAssumption DEF IInv, TypeOK
<1>2. Rate(k) \in Nat /\ LimitBurst(global, TokenLimit[k]) \in Nat
  BY <1>1, LimitType DEF Rate
<1>3. LimitBurst(global, TokenLimit[k]) > 0
  BY <1>1, BurstPositive
<1>4. Burst(k) \in Nat
  BY <1>2, LimiterAssumption, MulNat DEF Burst
<1>5. Spent(k) \in Int
  <2>1. granted[k] - stray[k] \in Int /\ Cost \in Int
    BY LimiterAssumption DEF IInv, TypeOK
  <2>2. QED
    BY <2>1, MulAdd DEF Spent
<1>6. since[k] \in Mixed..clock /\ clock \in Nat
  BY DEF IInv, TypeOK
<1>7. buckets[k] \in 0..Len(heap)
  BY DEF IInv, TypeOK
<1>8. QED
  BY <1>2, <1>3, <1>4, <1>5, <1>6, <1>7, SMTT(30) DEF Mixed

\* The fields of a bucket.
LEMMA BucketFields ==
    ASSUME IInv, NEW i \in 1..Len(heap)
    PROVE  /\ heap[i] \in Bucket(clock) /\ clock \in Nat
           /\ heap[i].rate \in Nat /\ heap[i].burst \in Nat
           /\ heap[i].tokens \in Int /\ heap[i].last \in 0..clock
<1>1. heap[i] \in Bucket(clock) /\ clock \in Nat
  BY DEF IInv, TypeOK
<1>2. QED
  BY <1>1 DEF Bucket

\* While the configuration stays, so do the limits of every key.
LEMMA LimitsStay ==
    ASSUME global' = global
    PROVE  \A k \in Keys :
              /\ Rate(k)' = Rate(k) /\ Burst(k)' = Burst(k)
              /\ RefillsInTime(k)' = RefillsInTime(k)
              /\ LimitBurst(global, TokenLimit[k])'
                    = LimitBurst(global, TokenLimit[k])
<1> SUFFICES ASSUME NEW k \in Keys
             PROVE  /\ Rate(k)' = Rate(k) /\ Burst(k)' = Burst(k)
                    /\ RefillsInTime(k)' = RefillsInTime(k)
                    /\ LimitBurst(global, TokenLimit[k])'
                          = LimitBurst(global, TokenLimit[k])
  OBVIOUS
<1>1. /\ LimitRate(global, TokenLimit[k])' = LimitRate(global, TokenLimit[k])
      /\ LimitBurst(global, TokenLimit[k])'
            = LimitBurst(global, TokenLimit[k])
  BY DEF LimitRate, LimitBurst, GlobalQPS, GlobalBurst
<1>2. QED
  BY <1>1 DEF Rate, Burst, RefillsInTime

\* What a step has to show for the limits, in terms of the limits before it.
LEMMA LimitsSuffices ==
    ASSUME global' = global,
           Steady' \/ \A k \in Keys : since'[k] = Mixed,
           Steady' =>
             /\ \A u \in Threads :
                  /\ thread'[u].pc # "idle" =>
                       /\ thread'[u].rate = Rate(thread'[u].key)
                       /\ thread'[u].burst
                            = LimitBurst(global, TokenLimit[thread'[u].key])
                  /\ thread'[u].pc = "allow" =>
                       HasLimits(heap'[thread'[u].bucket], thread'[u].key)
             /\ \A k \in Keys :
                  buckets'[k] # 0 => HasLimits(heap'[buckets'[k]], k)
             /\ \A i \in 1..Len(heap') : \E k \in Keys : HasLimits(heap'[i], k)
    PROVE  LimitsInv'
BY DEF LimitsInv, HasLimits, Rate, Burst

\* The second invariant, taken apart.
LEMMA LimitsGive ==
    ASSUME SteadyInv, Steady
    PROVE  /\ \A t \in Threads : thread[t].pc # "idle" =>
                 /\ thread[t].rate = Rate(thread[t].key)
                 /\ thread[t].burst
                      = LimitBurst(global, TokenLimit[thread[t].key])
           /\ \A t \in Threads : thread[t].pc = "allow" =>
                 HasLimits(heap[thread[t].bucket], thread[t].key)
           /\ \A k \in Keys : buckets[k] # 0 => HasLimits(heap[buckets[k]], k)
           /\ \A i \in 1..Len(heap) : \E k \in Keys : HasLimits(heap[i], k)
BY Zenon DEF SteadyInv, LimitsInv

\* What it says of one key.
LEMMA KeyGives ==
    ASSUME SteadyInv, NEW k \in Keys
    PROVE  /\ since[k] = -1 => Fresh(k)
           /\ since[k] >= 0 /\ RefillsInTime(k) => Within(k)
BY Zenon DEF SteadyInv, KeyInv

\* A key with a history of its own has seen no change of the limits.
LEMMA SteadyGives ==
    ASSUME SteadyInv, NEW k \in Keys, since[k] >= 0
    PROVE  Steady
<1>1. since[k] # Mixed
  BY DEF Mixed
<1>2. QED
  BY <1>1, Zenon DEF SteadyInv, LimitsInv

\* A step that leaves a key's grants and the content of its bucket alone.
LEMMA KeyKept ==
    ASSUME SteadyInv, NEW k \in Keys, global' = global, clock' = clock,
           granted'[k] = granted[k], stray'[k] = stray[k],
           since'[k] = since[k], buckets'[k] = buckets[k],
           buckets[k] # 0 =>
              /\ heap'[buckets[k]].tokens = heap[buckets[k]].tokens
              /\ heap'[buckets[k]].last = heap[buckets[k]].last,
           Fresh(k) => \A u \in Threads :
                          thread'[u].pc = "allow" => thread'[u].key # k
    PROVE  /\ since'[k] = -1 => Fresh(k)'
           /\ since'[k] >= 0 /\ RefillsInTime(k) => Within(k)'
<1>1. Rate(k)' = Rate(k) /\ Burst(k)' = Burst(k)
  BY LimitsStay, Zenon
<1>2. Spent(k)' = Spent(k)
  BY Zenon DEF Spent
<1>3. Fresh(k) => Fresh(k)'
  BY ZenonT(30) DEF Fresh
<1>4. Within(k) => Within(k)'
  <2>1. CASE buckets[k] = 0
    BY <1>1, <1>2, <2>1, Zenon DEF Within
  <2>2. CASE buckets[k] # 0
    BY <1>1, <1>2, <2>2, Zenon DEF Within
  <2>3. QED
    BY <2>1, <2>2, ZenonT(30)
<1>5. QED
  BY <1>3, <1>4, KeyGives, ZenonT(30)

\* What a step has to show for the keys.
LEMMA KeysSuffice ==
    ASSUME global' = global,
           \A k \in Keys :
              /\ since'[k] = -1 => Fresh(k)'
              /\ since'[k] >= 0 /\ RefillsInTime(k) => Within(k)'
    PROVE  KeyInv'
<1>1. \A k \in Keys : RefillsInTime(k)' = RefillsInTime(k)
  BY LimitsStay, Zenon
<1>2. QED
  BY <1>1, ZenonT(30) DEF KeyInv

\* What a step has to show for the debts.
LEMMA DebtsSuffice ==
    ASSUME clock' = clock, Steady' => Steady,
           Steady => \A i \in 1..Len(heap') : Debt(heap'[i], clock)
    PROVE  DebtInv'
<1>1. \A b : Debt(b, clock') = Debt(b, clock)
  BY Zenon
<1>2. \A i \in 1..Len(heap') : Debt(heap[i], clock)' = Debt(heap'[i], clock')
  BY Zenon DEF Debt, Lesser
<1>3. QED
  BY <1>1, <1>2, Zenon DEF DebtInv

\* Without a bucket that is alive at the time of its request, a key has a
\* full burst to spare.
LEMMA Evicted ==
    ASSUME IInv, SteadyInv, Steady, NEW k \in Keys, NEW now \in 0..clock,
           since[k] >= 0, RefillsInTime(k), ~Live(k, now)
    PROVE  Spent(k) <= Rate(k) * (clock - MaxLag - since[k])
<1>1. CASE buckets[k] = 0
  BY <1>1 DEF SteadyInv, KeyInv, Within
<1>2. CASE buckets[k] # 0
  <2> DEFINE b == heap[buckets[k]]
  <2>1. buckets[k] \in 1..Len(heap)
    BY <1>2, KeyFacts
  <2>2. /\ b \in Bucket(clock) /\ b.tokens \in Int /\ b.last \in 0..clock
        /\ clock \in Nat
    BY <2>1, BucketFields
  <2>3. b.rate = Rate(k)
    BY <1>2 DEF SteadyInv, LimitsInv, HasLimits
  <2>4. Spent(k) + b.tokens <= Burst(k) + Rate(k) * (b.last - since[k])
    BY <1>2, SMTT(30) DEF SteadyInv, KeyInv, Within
  <2>5. 0 <= b.tokens + Rate(k) * MaxLag
    <3>1. Debt(b, clock)
      BY <2>1 DEF SteadyInv, DebtInv
    <3>2. QED
      BY <2>2, <2>3, <3>1, DebtBound, SMTT(30)
  <2>6. now - b.last > TTL
    BY <1>2 DEF Live, bucketExpired
  <2>7. Burst(k) <= Rate(k) * (TTL + 1 - 2 * MaxLag)
    BY DEF RefillsInTime, Burst, Rate
  <2> HIDE DEF b
  <2>8. b.last <= clock - TTL - 1 /\ TTL \in Int /\ MaxLag \in Int
    BY <2>2, <2>6, LimiterAssumption
  <2>9. /\ Rate(k) \in Nat /\ Spent(k) \in Int /\ Burst(k) \in Int
        /\ since[k] \in Int /\ clock \in Int /\ b.last \in Int
    BY <2>2, KeyFacts
  <2>10. QED
    BY <2>2, <2>4, <2>5, <2>7, <2>8, <2>9, EvictionArithmetic
<1>3. QED
  BY <1>1, <1>2

\* The clock advances: debts shrink and allowances grow.
LEMMA TickSteady == IInv /\ SteadyInv /\ Tick => SteadyInv'
<1> SUFFICES ASSUME IInv, SteadyInv, Tick PROVE SteadyInv'
  OBVIOUS
<1>1. /\ clock \in Nat /\ clock' = clock + 1 /\ global' = global
      /\ buckets' = buckets /\ heap' = heap /\ thread' = thread
      /\ granted' = granted /\ stray' = stray /\ since' = since
  <2>1. clock \in Nat
    BY DEF IInv, TypeOK
  <2>2. QED
    BY <2>1, Zenon DEF Tick
<1>2. LimitsInv'
  <2>1. \A t \in Threads : thread[t].key \in Keys
    BY RequestFields
  <2>2. QED
    BY <1>1, <2>1, LimitsStay DEF SteadyInv, LimitsInv, Steady, HasLimits
<1>3. DebtInv'
  <2>1. clock' \in Nat
    BY <1>1
  <2>2. \A i \in 1..Len(heap) : Debt(heap[i], clock) => Debt(heap[i], clock')
    BY <1>1, <2>1, DebtShrinks, BucketFields
  <2>3. QED
    BY <1>1, <2>2 DEF SteadyInv, DebtInv, Steady
<1>4. ASSUME NEW k \in Keys
      PROVE  /\ since[k] = -1 => Fresh(k)'
             /\ since[k] >= 0 /\ RefillsInTime(k) => Within(k)'
  <2>1. since[k] = -1 => Fresh(k)'
    BY <1>1 DEF SteadyInv, KeyInv, Fresh
  <2>2. ASSUME since[k] >= 0, RefillsInTime(k) PROVE Within(k)'
    <3>1. Within(k)
      BY <2>2 DEF SteadyInv, KeyInv
    <3>2. Rate(k)' = Rate(k) /\ Burst(k)' = Burst(k) /\ Spent(k)' = Spent(k)
      BY <1>1, LimitsStay DEF Spent
    <3>3. /\ Rate(k) * (clock - MaxLag - since[k])
                <= Rate(k) * (clock' - MaxLag - since[k])
          /\ Rate(k) * (clock - MaxLag - since[k]) \in Int
          /\ Rate(k) * (clock' - MaxLag - since[k]) \in Int
      <4>1. /\ Rate(k) \in Nat /\ since[k] \in Int /\ clock \in Nat
            /\ clock' = clock + 1
        BY <1>1, KeyFacts, Zenon
      <4>2. MaxLag \in Nat
        BY LimiterAssumption, Zenon
      <4>3. /\ clock - MaxLag - since[k] \in Int
            /\ clock' - MaxLag - since[k] \in Int
            /\ clock - MaxLag - since[k] <= clock' - MaxLag - since[k]
        BY <4>1, <4>2, Later, Zenon
      <4>4. QED
        BY <4>1, <4>3, MulMono, Zenon
    <3>4. CASE buckets[k] = 0
      <4>1. Spent(k) <= Rate(k) * (clock - MaxLag - since[k])
        BY <3>1, <3>4 DEF Within
      <4>2. Spent(k) <= Rate(k) * (clock' - MaxLag - since[k])
        BY <3>3, <4>1, KeyFacts, SMTT(30)
      <4>3. QED
        BY <1>1, <3>2, <3>4, <4>2 DEF Within
    <3>5. CASE buckets[k] # 0
      BY <1>1, <3>1, <3>2, <3>5 DEF Within
    <3>6. QED
      BY <3>4, <3>5
  <2>3. QED
    BY <2>1, <2>2
<1>5. KeyInv'
  BY <1>1, <1>4, LimitsStay DEF KeyInv
<1>6. QED
  BY <1>2, <1>3, <1>5 DEF SteadyInv

\* A new window leaves the limits and the content of every bucket alone.
LEMMA OpenWindowSteady == IInv /\ SteadyInv /\ OpenWindow => SteadyInv'
<1> SUFFICES ASSUME IInv, SteadyInv, OpenWindow PROVE SteadyInv'
  OBVIOUS
<1>1. PICK i \in 1..Len(heap) :
         heap' = [heap EXCEPT ![i].grants = 0, ![i].born = clock]
  BY Zenon DEF OpenWindow
<1>2. /\ clock' = clock /\ global' = global /\ buckets' = buckets
      /\ thread' = thread /\ granted' = granted /\ stray' = stray
      /\ since' = since
  BY DEF OpenWindow
<1>3. Len(heap') = Len(heap) /\ Len(heap) \in Nat
  BY <1>1 DEF IInv, TypeOK
<1>4. ASSUME NEW j \in 1..Len(heap)
      PROVE  /\ heap'[j].rate = heap[j].rate /\ heap'[j].burst = heap[j].burst
             /\ heap'[j].tokens = heap[j].tokens
             /\ heap'[j].last = heap[j].last
  <2>1. heap[j] \in Bucket(clock) /\ j \in DOMAIN heap /\ i \in DOMAIN heap
    BY DEF IInv, TypeOK
  <2>2. heap'[j] = IF j = i
                   THEN [heap[i] EXCEPT !.grants = 0, !.born = clock]
                   ELSE heap[j]
    BY <1>1, <2>1, Zenon
  <2>3. QED
    BY <2>1, <2>2, Zenon DEF Bucket
<1>5. ASSUME NEW j \in 1..Len(heap)
      PROVE  Debt(heap[j], clock) => Debt(heap'[j], clock)
  BY <1>4 DEF Debt
<1>6. DebtInv'
  BY <1>2, <1>3, <1>5 DEF SteadyInv, DebtInv, Steady
<1>7. \A t \in Threads : thread[t].key \in Keys
  BY RequestFields
<1>8. \A t \in Threads : thread[t].pc = "allow" => thread[t].bucket \in 1..Len(heap)
  BY DEF IInv, ThreadInv
<1>9. \A k \in Keys : buckets[k] # 0 => buckets[k] \in 1..Len(heap)
  BY KeyFacts
<1>10. LimitsInv'
  <2>1. Steady' <=> Steady
    BY <1>2, Zenon DEF Steady
  <2>2. \A j \in 1..Len(heap), k \in Keys :
           HasLimits(heap[j], k) => HasLimits(heap'[j], k)
    BY <1>4, Zenon DEF HasLimits
  <2>3. QED
    BY <1>2, <1>3, <1>7, <1>8, <1>9, <2>1, <2>2, LimitsGive, LimitsSuffices,
       Zenon DEF SteadyInv, LimitsInv
<1>11. KeyInv'
  <2>1. ASSUME NEW k \in Keys
        PROVE  /\ since'[k] = -1 => Fresh(k)'
               /\ since'[k] >= 0 /\ RefillsInTime(k) => Within(k)'
    <3>1. Fresh(k) => \A u \in Threads :
                        thread'[u].pc = "allow" => thread'[u].key # k
      BY <1>2, Zenon DEF Fresh
    <3>2. QED
      BY <1>2, <1>4, <1>9, <3>1, KeyKept, Zenon
  <2>2. QED
    BY <1>2, <2>1, KeysSuffice, Zenon
<1>12. QED
  BY <1>6, <1>10, <1>11 DEF SteadyInv

\* Other limits end the period the invariant speaks of.
LEMMA ChangeLimitsSteady == ChangeLimits => SteadyInv'
<1> SUFFICES ASSUME ChangeLimits PROVE SteadyInv'
  OBVIOUS
<1>1. \A k \in Keys : since'[k] = Mixed
  BY DEF ChangeLimits
<1>2. ~Steady'
  BY <1>1, LimiterAssumption DEF Steady
<1>3. QED
  BY <1>1, <1>2 DEF SteadyInv, LimitsInv, DebtInv, KeyInv, Mixed

\* A request arrives with the limits of its key.
LEMMA ArriveSteady ==
    ASSUME IInv, SteadyInv, NEW t \in Threads, Arrive(t)
    PROVE  SteadyInv'
<1>1. PICK k \in Keys : thread' = [thread EXCEPT ![t] =
         [pc |-> IF calls' = 0 THEN "cleanup" ELSE "lookup",
          key |-> k, now |-> clock, bucket |-> 0,
          rate |-> LimitRate(global, TokenLimit[k]),
          burst |-> LimitBurst(global, TokenLimit[k])]]
  BY Zenon DEF Arrive
<1>2. /\ clock' = clock /\ global' = global /\ buckets' = buckets
      /\ heap' = heap /\ granted' = granted /\ stray' = stray
      /\ since' = since
  BY DEF Arrive
<1>3. /\ thread'[t].pc # "allow" /\ thread'[t].key = k
      /\ thread'[t].rate = Rate(k)
      /\ thread'[t].burst = LimitBurst(global, TokenLimit[k])
      /\ \A u \in Threads : u # t => thread'[u] = thread[u]
  BY <1>1, ZenonT(30) DEF IInv, TypeOK, Rate
<1>4. \A u \in Threads : thread[u].key \in Keys
  BY RequestFields, Zenon
<1>5. Steady' <=> Steady
  BY <1>2, Zenon DEF Steady
<1>6. LimitsInv'
  <2>1. ASSUME Steady, NEW u \in Threads
        PROVE  /\ thread'[u].pc # "idle" =>
                    /\ thread'[u].rate = Rate(thread'[u].key)
                    /\ thread'[u].burst
                         = LimitBurst(global, TokenLimit[thread'[u].key])
               /\ thread'[u].pc = "allow" =>
                    HasLimits(heap[thread'[u].bucket], thread'[u].key)
    <3>1. CASE u = t
      BY <1>3, <3>1, Zenon
    <3>2. CASE u # t
      BY <1>3, <2>1, <3>2, LimitsGive, Zenon
    <3>3. QED
      BY <3>1, <3>2, Zenon
  <2>2. QED
    BY <1>2, <1>5, <2>1, LimitsGive, LimitsSuffices, Zenon
       DEF SteadyInv, LimitsInv
<1>7. DebtInv'
  BY <1>2, <1>5, DebtsSuffice, Zenon DEF SteadyInv, DebtInv
<1>8. KeyInv'
  <2>1. ASSUME NEW k2 \in Keys
        PROVE  /\ since'[k2] = -1 => Fresh(k2)'
               /\ since'[k2] >= 0 /\ RefillsInTime(k2) => Within(k2)'
    <3>1. Fresh(k2) => \A u \in Threads :
                         thread'[u].pc = "allow" => thread'[u].key # k2
      BY <1>3, Zenon DEF Fresh
    <3>2. QED
      BY <1>2, <3>1, KeyKept, Zenon
  <2>2. QED
    BY <1>2, <2>1, KeysSuffice, Zenon
<1>9. QED
  BY <1>6, <1>7, <1>8 DEF SteadyInv

\* The sweep evicts only buckets that leave a full burst to spare.
LEMMA CleanupSteady ==
    ASSUME IInv, SteadyInv, NEW t \in Threads, maybeCleanup(t)
    PROVE  SteadyInv'
<1>1. /\ clock' = clock /\ global' = global /\ heap' = heap
      /\ granted' = granted /\ stray' = stray /\ since' = since
      /\ \A k \in Keys : buckets'[k] = IF Live(k, thread[t].now)
                                       THEN buckets[k] ELSE 0
  BY DEF maybeCleanup
<1>2. \A u \in Threads :
         /\ thread'[u].key = thread[u].key /\ thread'[u].rate = thread[u].rate
         /\ thread'[u].burst = thread[u].burst
         /\ thread'[u].pc = "allow" => u # t
         /\ u # t => thread'[u] = thread[u]
  BY Zenon DEF maybeCleanup, IInv, TypeOK, Request
<1>3. \A u \in Threads : thread[u].key \in Keys
  BY RequestFields
<1>4. thread[t].pc # "idle" /\ thread[t].now \in 0..clock
  <2>1. thread[t].pc = "cleanup"
    BY DEF maybeCleanup
  <2>2. QED
    BY <2>1, RequestFields, Zenon
<1>5. LimitsInv'
  <2>1. Steady' <=> Steady
    BY <1>1, Zenon DEF Steady
  <2>2. ASSUME Steady, NEW u \in Threads
        PROVE  /\ thread'[u].pc # "idle" =>
                    /\ thread'[u].rate = Rate(thread'[u].key)
                    /\ thread'[u].burst
                         = LimitBurst(global, TokenLimit[thread'[u].key])
               /\ thread'[u].pc = "allow" =>
                    HasLimits(heap[thread'[u].bucket], thread'[u].key)
    <3>1. CASE u = t
      BY <1>2, <1>4, <2>2, <3>1, LimitsGive, Zenon
    <3>2. CASE u # t
      BY <1>2, <2>2, <3>2, LimitsGive, Zenon
    <3>3. QED
      BY <3>1, <3>2, Zenon
  <2>3. ASSUME Steady, NEW k \in Keys, buckets'[k] # 0
        PROVE  HasLimits(heap[buckets'[k]], k)
    <3>1. buckets'[k] = buckets[k]
      BY <1>1, <2>3
    <3>2. QED
      BY <2>3, <3>1, LimitsGive, Zenon
  <2>4. QED
    BY <1>1, <2>1, <2>2, <2>3, LimitsGive, LimitsSuffices, Zenon
       DEF SteadyInv, LimitsInv
<1>6. DebtInv'
  <2>1. Steady' <=> Steady
    BY <1>1, Zenon DEF Steady
  <2>2. QED
    BY <1>1, <2>1, DebtsSuffice, Zenon DEF SteadyInv, DebtInv
<1>7. ASSUME NEW k \in Keys
      PROVE  /\ since[k] = -1 => Fresh(k)'
             /\ since[k] >= 0 /\ RefillsInTime(k) => Within(k)'
  <2>1. since[k] = -1 => Fresh(k)'
    BY <1>1, <1>2, KeyGives DEF Fresh
  <2>2. ASSUME since[k] >= 0, RefillsInTime(k) PROVE Within(k)'
    <3>1. Steady /\ Within(k)
      BY <2>2, SteadyGives, KeyGives, ZenonT(30)
    <3>2. Rate(k)' = Rate(k) /\ Burst(k)' = Burst(k)
      BY <1>1, LimitsStay
    <3>3. Spent(k)' = Spent(k)
      BY <1>1, Zenon DEF Spent
    <3>4. CASE Live(k, thread[t].now)
      <4>1. buckets'[k] = buckets[k]
        BY <1>1, <3>4
      <4>2. QED
        BY <1>1, <3>1, <3>2, <3>3, <4>1, Zenon DEF Within
    <3>5. CASE ~Live(k, thread[t].now)
      <4>1. Spent(k) <= Rate(k) * (clock - MaxLag - since[k])
        BY <1>4, <2>2, <3>1, <3>5, Evicted, Zenon
      <4>2. buckets'[k] = 0
        BY <1>1, <3>5
      <4>3. QED
        BY <1>1, <3>2, <3>3, <4>1, <4>2, Zenon DEF Within
    <3>6. QED
      BY <3>4, <3>5, Zenon
  <2>3. QED
    BY <2>1, <2>2
<1>8. KeyInv'
  BY <1>1, <1>7, KeysSuffice, Zenon
<1>9. QED
  BY <1>5, <1>6, <1>8 DEF SteadyInv

\* The bucket a request finds in the map has the limits of its key.
LEMMA LookupFindsSteady ==
    ASSUME IInv, SteadyInv, NEW t \in Threads, Lookup(t),
           Live(thread[t].key, thread[t].now)
    PROVE  SteadyInv'
<1>1. /\ clock' = clock /\ global' = global /\ buckets' = buckets
      /\ heap' = heap /\ granted' = granted /\ stray' = stray
      /\ since' = since
      /\ thread' = [thread EXCEPT ![t].pc = "allow",
                                  ![t].bucket = buckets[thread[t].key]]
      /\ thread[t].pc = "lookup"
  BY DEF Lookup
<1>2. /\ thread'[t].bucket = buckets[thread[t].key]
      /\ thread'[t].key = thread[t].key /\ thread'[t].rate = thread[t].rate
      /\ thread'[t].burst = thread[t].burst
      /\ \A u \in Threads : u # t => thread'[u] = thread[u]
  BY <1>1, ZenonT(30) DEF IInv, TypeOK, Request
<1>3. \A u \in Threads : thread[u].key \in Keys
  BY RequestFields, Zenon
<1>4. buckets[thread[t].key] # 0
  BY DEF Live
<1>5. LimitsInv'
  <2>1. ASSUME Steady, NEW u \in Threads
        PROVE  /\ thread'[u].pc # "idle" =>
                    /\ thread'[u].rate = Rate(thread'[u].key)
                    /\ thread'[u].burst
                         = LimitBurst(global, TokenLimit[thread'[u].key])
               /\ thread'[u].pc = "allow" =>
                    HasLimits(heap[thread'[u].bucket], thread'[u].key)
    <3>1. CASE u = t
      <4>1. thread[t].pc # "idle"
        BY <1>1, Zenon
      <4>2. QED
        BY <1>2, <1>3, <1>4, <2>1, <3>1, <4>1, LimitsGive, Zenon
    <3>2. CASE u # t
      BY <1>2, <2>1, <3>2, LimitsGive, Zenon
    <3>3. QED
      BY <3>1, <3>2, Zenon
  <2>2. Steady' <=> Steady
    BY <1>1 DEF Steady
  <2>3. QED
    BY <1>1, <2>1, <2>2, LimitsSuffices, Zenon DEF SteadyInv, LimitsInv
<1>6. DebtInv'
  <2>1. Steady' <=> Steady
    BY <1>1, Zenon DEF Steady
  <2>2. QED
    BY <1>1, <2>1, DebtsSuffice, Zenon DEF SteadyInv, DebtInv
<1>7. ASSUME NEW k \in Keys
      PROVE  /\ since'[k] = -1 => Fresh(k)'
             /\ since'[k] >= 0 /\ RefillsInTime(k) => Within(k)'
  <2>1. ASSUME Fresh(k), NEW u \in Threads, thread'[u].pc = "allow"
        PROVE  thread'[u].key # k
    <3>1. CASE u = t
      BY <1>2, <1>4, <2>1, <3>1, Zenon DEF Fresh
    <3>2. CASE u # t
      BY <1>2, <2>1, <3>2, Zenon DEF Fresh
    <3>3. QED
      BY <3>1, <3>2
  <2>2. QED
    BY <1>1, <2>1, KeyKept, Zenon
<1>8. KeyInv'
  BY <1>1, <1>7, KeysSuffice, Zenon
<1>9. QED
  BY <1>5, <1>6, <1>8 DEF SteadyInv

\* A request that makes a bucket fills it with the burst its key has to
\* spare.
LEMMA LookupMakesSteady ==
    ASSUME IInv, SteadyInv, NEW t \in Threads, Lookup(t),
           ~Live(thread[t].key, thread[t].now)
    PROVE  SteadyInv'
<1> DEFINE n == Len(heap) + 1
           key == thread[t].key
           now == thread[t].now
           made == newLocalTokenBucket(thread[t].rate, thread[t].burst, now)
<1>1. /\ clock' = clock /\ global' = global /\ granted' = granted
      /\ stray' = stray /\ heap' = Append(heap, made)
      /\ thread' = [thread EXCEPT ![t].pc = "allow", ![t].bucket = n]
      /\ buckets' = [buckets EXCEPT ![key] = n]
      /\ since' = [since EXCEPT ![key] = IF @ = -1 THEN now ELSE @]
      /\ thread[t].pc = "lookup"
  BY Zenon DEF Lookup
<1>2. /\ key \in Keys /\ now \in 0..clock /\ clock \in Nat
      /\ Len(heap) \in Nat /\ heap \in Seq(Bucket(clock))
      /\ clock - now <= MaxLag
  <2>1. /\ clock \in Nat /\ heap \in Seq(Bucket(clock))
    BY DEF IInv, TypeOK
  <2>2. key \in Keys /\ now \in 0..clock
    BY RequestFields, Zenon
  <2>3. thread[t].pc # "idle"
    BY <1>1, Zenon
  <2>4. clock - now <= MaxLag
    BY <2>3 DEF IInv, ThreadInv
  <2>5. QED
    BY <2>1, <2>2, <2>4
<1>3. /\ thread'[t].bucket = n
      /\ thread'[t].key = key /\ thread'[t].rate = thread[t].rate
      /\ thread'[t].burst = thread[t].burst
      /\ \A u \in Threads : u # t => thread'[u] = thread[u]
  BY <1>1, ZenonT(30) DEF IInv, TypeOK, Request
<1>4. /\ made.rate = thread[t].rate /\ made.burst = thread[t].burst * Cost
      /\ made.tokens = made.burst /\ made.last = now
  BY DEF newLocalTokenBucket
<1>5. made \in Bucket(clock)
  BY <1>2, RequestFields, NewBucketInv
<1> HIDE DEF made
<1>6. /\ Len(heap') = n /\ heap'[n] = made
      /\ \A j \in 1..Len(heap) : heap'[j] = heap[j]
      /\ \A j \in 1..n : j = n \/ j \in 1..Len(heap)
  BY <1>1, <1>2, <1>5
<1>7. /\ buckets'[key] = n
      /\ \A k \in Keys : k # key => buckets'[k] = buckets[k] /\ since'[k] = since[k]
      /\ since'[key] = IF since[key] = -1 THEN now ELSE since[key]
  BY <1>1, <1>2, ZenonT(30) DEF IInv, TypeOK
<1>8. \A k \in Keys : buckets[k] # 0 => buckets[k] \in 1..Len(heap)
  BY KeyFacts
<1>9. \A u \in Threads :
         /\ thread[u].key \in Keys
         /\ thread[u].pc = "allow" => thread[u].bucket \in 1..Len(heap)
  BY RequestFields DEF IInv, ThreadInv
<1>10. n # 0 /\ n \in 1..n
  BY <1>2
<1> HIDE DEF n, now, key
<1>11. Steady' <=> Steady
  BY <1>2, <1>7 DEF Steady, Mixed
<1>12. ASSUME Steady PROVE HasLimits(made, key)
  BY <1>1, <1>4, <1>12 DEF SteadyInv, LimitsInv, HasLimits, Burst, key
<1>13. LimitsInv'
  <2>1. ASSUME Steady, NEW u \in Threads
        PROVE  /\ thread'[u].pc # "idle" =>
                    /\ thread'[u].rate = Rate(thread'[u].key)
                    /\ thread'[u].burst
                         = LimitBurst(global, TokenLimit[thread'[u].key])
               /\ thread'[u].pc = "allow" =>
                    HasLimits(heap'[thread'[u].bucket], thread'[u].key)
    <3>1. CASE u = t
      <4>1. thread[t].pc # "idle"
        BY <1>1, Zenon
      <4>2. /\ thread'[t].rate = Rate(key)
            /\ thread'[t].burst = LimitBurst(global, TokenLimit[key])
        BY <1>3, <2>1, <4>1, LimitsGive, Zenon DEF key
      <4>3. HasLimits(heap'[thread'[t].bucket], key)
        BY <1>3, <1>6, <1>12, <2>1, Zenon
      <4>4. QED
        BY <1>3, <3>1, <4>2, <4>3, Zenon
    <3>2. CASE u # t
      BY <1>3, <1>6, <1>9, <2>1, <3>2, LimitsGive, ZenonT(30)
    <3>3. QED
      BY <3>1, <3>2, Zenon
  <2>2. ASSUME Steady, NEW k \in Keys, buckets'[k] # 0
        PROVE  HasLimits(heap'[buckets'[k]], k)
    <3>1. CASE k = key
      BY <1>6, <1>7, <1>12, <2>2, <3>1, Zenon
    <3>2. CASE k # key
      BY <1>6, <1>7, <1>8, <2>2, <3>2, LimitsGive, ZenonT(30)
    <3>3. QED
      BY <3>1, <3>2
  <2>3. ASSUME Steady, NEW i \in 1..n
        PROVE  \E k \in Keys : HasLimits(heap'[i], k)
    <3>1. CASE i = n
      BY <1>2, <1>6, <1>12, <2>3, <3>1, Zenon
    <3>2. CASE i \in 1..Len(heap)
      BY <1>6, <2>3, <3>2, LimitsGive, ZenonT(30)
    <3>3. QED
      BY <1>6, <3>1, <3>2, Zenon
  <2>4. Steady' \/ \A k \in Keys : since'[k] = Mixed
    BY <1>2, <1>7, <1>11 DEF SteadyInv, LimitsInv, Mixed
  <2>5. QED
    BY <1>1, <1>6, <1>11, <2>1, <2>2, <2>3, <2>4, LimitsSuffices, Zenon
<1>14. DebtInv'
  <2>1. ASSUME Steady PROVE Debt(made, clock)
    <3> DEFINE lag == Lesser(MaxLag, clock - made.last)
    <3>1. lag \in Nat
      BY <1>2, <1>4, LimiterAssumption DEF Lesser
    <3>2. /\ made.rate \in Nat /\ made.tokens \in Nat
      BY <1>4, <1>5 DEF Bucket
    <3> HIDE DEF lag
    <3>3. made.rate * lag \in Nat
      BY <3>1, <3>2, MulNat
    <3>4. 0 <= made.tokens + made.rate * lag
      BY <3>2, <3>3
    <3>5. QED
      BY <3>4 DEF Debt, lag
  <2>2. ASSUME Steady, NEW i \in 1..n PROVE Debt(heap'[i], clock)
    BY <1>6, <2>1, <2>2 DEF SteadyInv, DebtInv
  <2>3. QED
    BY <1>1, <1>6, <1>11, <2>2 DEF DebtInv
<1>15. ASSUME NEW k \in Keys
       PROVE  /\ since'[k] = -1 => Fresh(k)'
              /\ since'[k] >= 0 /\ RefillsInTime(k) => Within(k)'
  <2>1. since'[key] # -1
    BY <1>2, <1>7
  <2>2. CASE k # key
    <3>1. buckets'[k] = buckets[k] /\ since'[k] = since[k]
      BY <1>7, <2>2
    <3>2. buckets[k] # 0 => heap'[buckets[k]] = heap[buckets[k]]
      BY <1>6, <1>8
    <3>3. ASSUME Fresh(k), NEW u \in Threads, thread'[u].pc = "allow"
          PROVE  thread'[u].key # k
      <4>1. CASE u = t
        BY <1>3, <2>2, <4>1, Zenon
      <4>2. CASE u # t
        BY <1>3, <3>3, <4>2, Zenon DEF Fresh
      <4>3. QED
        BY <4>1, <4>2
    <3>4. QED
      BY <1>1, <3>1, <3>2, <3>3, KeyKept, Zenon
  <2>3. ASSUME k = key, since'[k] >= 0, RefillsInTime(k) PROVE Within(k)'
    <3>1. Rate(k)' = Rate(k) /\ Burst(k)' = Burst(k)
      BY <1>1, LimitsStay
    <3>2. Spent(k)' = Spent(k)
      BY <1>1, Zenon DEF Spent
    <3>3. k = key
      BY <2>3
    <3>4. Within(k)'
      <4>1. Steady
        <5>1. since'[k] # Mixed
          BY <2>3 DEF Mixed
        <5>2. Steady' \/ \A j \in Keys : since'[j] = Mixed
          BY <1>13, Zenon DEF LimitsInv
        <5>3. QED
          BY <1>11, <5>1, <5>2, Zenon
      <4>2. /\ Rate(k) \in Nat /\ Burst(k) \in Nat /\ Spent(k) \in Int
            /\ since[k] \in Int /\ MaxLag \in Nat
        <5>1. MaxLag \in Nat
          BY LimiterAssumption
        <5>2. QED
          BY <5>1, KeyFacts, Zenon
      <4>3. Spent(k) <= Rate(k) * (now - since'[k])
        <5>1. CASE since[k] = -1
          <6>1. Spent(k) = 0
            <7>1. granted[k] = 0 /\ stray[k] = 0
              BY <5>1, KeyGives, Zenon DEF Fresh
            <7>2. (0 - 0) * Cost = 0
              BY LimiterAssumption
            <7>3. QED
              BY <7>1, <7>2, Zenon DEF Spent
          <6>2. now - since'[k] = 0
            BY <1>2, <1>7, <3>3, <5>1
          <6>3. Rate(k) * 0 = 0
            BY <4>2
          <6>4. QED
            BY <6>1, <6>2, <6>3, SMTT(30)
        <5>2. CASE since[k] # -1
          <6>1. since'[k] = since[k] /\ since[k] >= 0
            BY <1>7, <2>3, <3>3, <5>2
          <6>2. Spent(k) <= Rate(k) * (clock - MaxLag - since[k])
            BY <1>2, <2>3, <3>3, <4>1, <6>1, Evicted DEF key, now
          <6>3. /\ Rate(k) * (clock - MaxLag - since[k])
                      <= Rate(k) * (now - since[k])
                /\ Rate(k) * (clock - MaxLag - since[k]) \in Int
                /\ Rate(k) * (now - since[k]) \in Int
            BY <1>2, <4>2, MulMono, SMTT(30)
          <6>4. QED
            BY <4>2, <6>1, <6>2, <6>3
        <5>3. QED
          BY <5>1, <5>2
      <4>4. made.tokens = Burst(k)
        BY <1>4, <1>12, <3>3, <4>1 DEF HasLimits
      <4>5. Rate(k) * (now - since'[k]) \in Int
        <5>1. now - since'[k] \in Int
          BY <1>2, <1>7, <3>3, <4>2
        <5>2. QED
          BY <4>2, <5>1, MulAdd
      <4>6. Spent(k) + made.tokens <= Burst(k) + Rate(k) * (now - since'[k])
        BY <4>2, <4>3, <4>4, <4>5
      <4>7. buckets'[k] # 0 /\ heap'[buckets'[k]] = made
        BY <1>6, <1>7, <1>10, <3>3, Zenon
      <4>8. QED
        BY <1>4, <3>1, <3>2, <4>6, <4>7, Zenon DEF Within
    <3>5. QED
      BY <3>4
  <2>4. QED
    BY <2>1, <2>2, <2>3, Zenon
<1>16. KeyInv'
  BY <1>1, <1>15, KeysSuffice, Zenon
<1>17. QED
  BY <1>13, <1>14, <1>16 DEF SteadyInv

\* A request takes a token: what its key has spent and what the bucket holds
\* grow together by no more than the refill.
LEMMA AllowSteady ==
    ASSUME IInv, SteadyInv, NEW t \in Threads, Allow(t)
    PROVE  SteadyInv'
<1> DEFINE i == thread[t].bucket
           key == thread[t].key
           now == thread[t].now
           rate == thread[t].rate
           burst == thread[t].burst
           d == Served(heap[i], rate, burst, now)
           ok == IF Allowed(heap[i], rate, burst, now) THEN 1 ELSE 0
           late == IF buckets[key] = i THEN 0 ELSE ok
<1>1. /\ clock' = clock /\ global' = global /\ buckets' = buckets
      /\ since' = since /\ heap' = [heap EXCEPT ![i] = d]
      /\ granted' = [granted EXCEPT ![key] = @ + ok]
      /\ stray' = [stray EXCEPT ![key] = @ + late]
      /\ thread' = [thread EXCEPT ![t] = Idle] /\ thread[t].pc = "allow"
  BY ZenonT(30) DEF Allow
<1>2. /\ i \in 1..Len(heap) /\ key \in Keys /\ now \in 0..clock
      /\ rate \in Nat /\ burst \in Nat /\ clock - now <= MaxLag
      /\ ok \in {0, 1}
  <2>1. key \in Keys /\ now \in 0..clock /\ rate \in Nat /\ burst \in Nat
    BY RequestFields, Zenon
  <2>2. ThreadInv /\ thread[t].pc = "allow" /\ thread[t].pc # "idle"
    BY <1>1, Zenon DEF IInv
  <2>3. i \in 1..Len(heap) /\ clock - now <= MaxLag
    BY <2>2, Zenon DEF ThreadInv
  <2>4. ok = 0 \/ ok = 1
    BY Zenon
  <2> HIDE DEF i, key, now, rate, burst, ok
  <2>5. ok \in {0, 1}
    BY <2>4, Zenon
  <2>6. QED
    BY <2>1, <2>3, <2>5, Zenon
<1>3. Len(heap') = Len(heap)
      /\ \A j \in 1..Len(heap) : heap'[j] = IF j = i THEN d ELSE heap[j]
  <2>1. heap \in Seq(Bucket(clock)) /\ heap' = [heap EXCEPT ![i] = d]
    BY <1>1 DEF IInv, TypeOK
  <2> HIDE DEF d, i
  <2>2. QED
    BY <1>2, <2>1
<1>4. \A u \in Threads : thread'[u] = IF u = t THEN Idle ELSE thread[u]
  BY <1>1, Zenon DEF IInv, TypeOK
<1>5. Idle.pc = "idle"
  BY DEF Idle
<1>6. /\ granted'[key] = granted[key] + ok /\ stray'[key] = stray[key] + late
      /\ \A k \in Keys : k # key => /\ granted'[k] = granted[k]
                                    /\ stray'[k] = stray[k]
  BY <1>1, <1>2, Zenon DEF IInv, TypeOK
<1>7. ASSUME Steady
      PROVE  /\ d.rate = heap[i].rate /\ d.burst = heap[i].burst
             /\ d.last = now /\ d.tokens \in Int
             /\ ok * Cost + d.tokens
                  <= heap[i].tokens + heap[i].rate * (now - heap[i].last)
             /\ Debt(heap[i], clock) => Debt(d, clock)
  <2>1. /\ rate = Rate(key) /\ burst = LimitBurst(global, TokenLimit[key])
        /\ HasLimits(heap[i], key)
    <3>1. thread[t].pc = "allow" /\ thread[t].pc # "idle"
      BY <1>1, Zenon
    <3>2. QED
      BY <1>7, <3>1, LimitsGive, Zenon
  <2>2. heap[i].rate = rate /\ heap[i].burst = burst * Cost
    BY <2>1, Zenon DEF HasLimits, Burst
  <2>3. burst > 0
    BY <1>2, <2>1, KeyFacts, Zenon
  <2>4. heap[i] \in Bucket(clock) /\ clock \in Nat
    BY <1>2, BucketFields, Zenon
  <2>5. /\ d = Served(heap[i], rate, burst, now)
        /\ ok = IF Allowed(heap[i], rate, burst, now) THEN 1 ELSE 0
    OBVIOUS
  <2> HIDE DEF i, key, now, rate, burst, d, ok
  <2>6. ServedWell(heap[i], d, ok, now, clock)
    BY <1>2, <2>2, <2>3, <2>4, <2>5, ServedSteady, Zenon
  <2>7. QED
    BY <2>6, Zenon DEF ServedWell
<1> HIDE DEF d, ok
<1>8. ASSUME Steady, NEW j \in 1..Len(heap)
      PROVE  /\ heap'[j].rate = heap[j].rate /\ heap'[j].burst = heap[j].burst
             /\ Debt(heap'[j], clock)
  BY <1>3, <1>7, <1>8, ZenonT(30) DEF SteadyInv, DebtInv
<1>9. \A k \in Keys : buckets[k] # 0 => buckets[k] \in 1..Len(heap)
  BY KeyFacts
<1>10. Steady' <=> Steady
  BY <1>1 DEF Steady
<1>11. LimitsInv'
  <2>1. ASSUME NEW u \in Threads, thread[u].pc = "allow"
        PROVE  thread[u].bucket \in 1..Len(heap)
    BY <2>1 DEF IInv, ThreadInv
  <2>2. ASSUME Steady, NEW j \in 1..Len(heap), NEW k \in Keys
        PROVE  HasLimits(heap[j], k) => HasLimits(heap'[j], k)
    BY <1>8, <2>2 DEF HasLimits
  <2>3. ASSUME Steady, NEW u \in Threads
        PROVE  /\ thread'[u].pc # "idle" =>
                    /\ thread'[u].rate = Rate(thread'[u].key)
                    /\ thread'[u].burst
                         = LimitBurst(global, TokenLimit[thread'[u].key])
               /\ thread'[u].pc = "allow" =>
                    HasLimits(heap'[thread'[u].bucket], thread'[u].key)
    <3>1. CASE u = t
      BY <1>4, <1>5, <3>1
    <3>2. CASE u # t
      <4>1. thread[u].key \in Keys
        BY RequestFields, Zenon
      <4>2. QED
        BY <1>4, <2>1, <2>2, <2>3, <3>2, <4>1, LimitsGive, Zenon
    <3>3. QED
      BY <3>1, <3>2, Zenon
  <2>4. ASSUME Steady, NEW k \in Keys, buckets'[k] # 0
        PROVE  HasLimits(heap'[buckets'[k]], k)
    <3>1. buckets[k] # 0 /\ buckets'[k] = buckets[k]
      BY <1>1, <2>4
    <3>2. QED
      BY <1>9, <2>2, <2>4, <3>1, LimitsGive, ZenonT(30)
  <2>5. ASSUME Steady, NEW j \in 1..Len(heap)
        PROVE  \E k \in Keys : HasLimits(heap'[j], k)
    BY <2>2, <2>5, LimitsGive, Zenon
  <2>6. QED
    BY <1>1, <1>3, <1>10, <2>3, <2>4, <2>5, LimitsSuffices, Zenon
       DEF SteadyInv, LimitsInv
<1>12. DebtInv'
  BY <1>1, <1>3, <1>8, <1>10, DebtsSuffice, Zenon
<1>13. ASSUME NEW k \in Keys
       PROVE  /\ since[k] = -1 => Fresh(k)'
              /\ since[k] >= 0 /\ RefillsInTime(k) => Within(k)'
  <2>1. ASSUME since[k] = -1 PROVE Fresh(k)'
    <3>1. Fresh(k) /\ k # key
      BY <1>1, <2>1, KeyGives, Zenon DEF Fresh
    <3>2. granted'[k] = granted[k] /\ stray'[k] = stray[k]
      BY <1>6, <3>1, Zenon
    <3>3. ASSUME NEW u \in Threads, thread'[u].pc = "allow"
          PROVE  thread'[u].key # k
      <4>1. u # t
        BY <1>4, <1>5, <3>3
      <4>2. QED
        BY <1>4, <3>1, <3>3, <4>1, Zenon DEF Fresh
    <3>4. QED
      BY <1>1, <3>1, <3>2, <3>3, Zenon DEF Fresh
  <2>2. ASSUME since[k] >= 0, RefillsInTime(k) PROVE Within(k)'
    <3>1. Within(k) /\ Steady
      BY <2>2, KeyGives, SteadyGives, ZenonT(30)
    <3>2. Rate(k)' = Rate(k) /\ Burst(k)' = Burst(k)
      BY <1>1, LimitsStay
    <3>3. /\ granted[k] \in Nat /\ stray[k] \in Nat /\ Cost \in Nat
          /\ ok \in {0, 1}
      BY <1>2, LimiterAssumption DEF IInv, TypeOK
    <3>4. Spent(k)' = (granted'[k] - stray'[k]) * Cost
      BY Zenon DEF Spent
    <3>5. CASE buckets[k] # i
      <4>1. Spent(k)' = Spent(k)
        <5>1. granted'[k] - stray'[k] = granted[k] - stray[k]
          <6>1. CASE k # key
            BY <1>6, <6>1, Zenon
          <6>2. CASE k = key
            <7>1. late = ok
              BY <3>5, <6>2, Zenon
            <7>2. granted'[k] = granted[k] + ok /\ stray'[k] = stray[k] + ok
              BY <1>6, <6>2, <7>1, Zenon
            <7>3. ok \in Nat
              BY <3>3
            <7>4. (granted[k] + ok) - (stray[k] + ok) = granted[k] - stray[k]
              BY <3>3, <7>3, SameNet, Zenon
            <7>5. QED
              BY <7>2, <7>4, Zenon
          <6>3. QED
            BY <6>1, <6>2, Zenon
        <5>2. QED
          BY <3>4, <5>1, ZenonT(30) DEF Spent
      <4>2. buckets[k] # 0 => heap'[buckets[k]] = heap[buckets[k]]
        BY <1>3, <1>9, <3>5
      <4>3. QED
        BY <1>1, <3>1, <3>2, <4>1, <4>2, Zenon DEF Within
    <3>6. CASE buckets[k] = i
      <4> DEFINE b == heap[i]
                 before == Rate(k) * (b.last - since[k])
                 earned == Rate(k) * (now - b.last)
                 after == Rate(k) * (now - since[k])
      <4>1. i # 0 /\ heap'[i] = d
        BY <1>2, <1>3
      <4>2. Spent(k) + b.tokens <= Burst(k) + before
        BY <3>1, <3>6, <4>1, Zenon DEF Within
      <4>3. b.rate = Rate(k)
        BY <3>1, <3>6, <4>1, LimitsGive, Zenon DEF HasLimits
      <4>4. /\ d.last = now /\ d.tokens \in Int
            /\ ok * Cost + d.tokens <= b.tokens + earned
        BY <1>7, <3>1, <4>3, Zenon
      <4>5. /\ Spent(k) \in Int /\ Burst(k) \in Nat /\ Rate(k) \in Nat
            /\ b.tokens \in Int /\ b.last \in Int /\ now \in Int
            /\ since[k] \in Int /\ ok * Cost \in Int
        <5>1. b.tokens \in Int /\ b.last \in Int
          BY <1>2, BucketFields, SMTT(30)
        <5>2. ok * Cost \in Int
          BY <3>3, MulNat
        <5>3. now \in Int
          BY <1>2
        <5>4. /\ Spent(k) \in Int /\ Burst(k) \in Nat /\ Rate(k) \in Nat
              /\ since[k] \in Int
          BY KeyFacts, SMTT(30)
        <5>5. QED
          BY <5>1, <5>2, <5>3, <5>4, Zenon
      <4>6. after = before + earned /\ before \in Int /\ earned \in Int
        <5>1. (now - since[k]) = (b.last - since[k]) + (now - b.last)
          BY <4>5
        <5>2. (b.last - since[k]) \in Int /\ (now - b.last) \in Int
          BY <4>5
        <5>3. QED
          BY <4>5, <5>1, <5>2, MulAdd
      <4>7. Spent(k)' <= Spent(k) + ok * Cost /\ Spent(k)' \in Int
        <5> DEFINE net == granted[k] - stray[k]
        <5>1. net \in Int /\ net * Cost = Spent(k)
          BY <3>3, SMTT(30) DEF Spent
        <5>2. \/ granted'[k] - stray'[k] = net
              \/ granted'[k] - stray'[k] = net + ok
          BY <1>6, <3>3
        <5>3. (net + ok) * Cost = net * Cost + ok * Cost
          <6> HIDE DEF net
          <6>1. QED
            BY <3>3, <5>1, MulAdd
        <5>4. 0 <= ok * Cost
          BY <3>3, MulNat
        <5> HIDE DEF net
        <5>5. Spent(k)' = net * Cost \/ Spent(k)' = (net + ok) * Cost
          BY <3>4, <5>2, Zenon
        <5>6. QED
          BY <4>5, <5>1, <5>3, <5>4, <5>5
      <4>8. Within(k)' <=> Spent(k)' + d.tokens <= Burst(k) + after
        BY <1>1, <3>2, <3>6, <4>1, <4>4, Zenon DEF Within
      <4> HIDE DEF b, before, earned, after
      <4>9. Spent(k)' + d.tokens <= Burst(k) + after
        BY <4>2, <4>4, <4>5, <4>6, <4>7, SMTT(30)
      <4>10. QED
        BY <4>8, <4>9
    <3>7. QED
      BY <3>5, <3>6, Zenon
  <2>3. QED
    BY <2>1, <2>2, Zenon
<1>14. KeyInv'
  BY <1>1, <1>13, KeysSuffice, Zenon
<1>15. QED
  BY <1>11, <1>12, <1>14 DEF SteadyInv

\* Every step keeps the second invariant, given the first.
LEMMA StepSteady == IInv /\ SteadyInv /\ [Next]_vars => SteadyInv'
<1> SUFFICES ASSUME IInv, SteadyInv, [Next]_vars PROVE SteadyInv'
  OBVIOUS
<1>1. CASE UNCHANGED vars
  <2>1. /\ clock' = clock /\ global' = global /\ buckets' = buckets
        /\ heap' = heap /\ thread' = thread /\ granted' = granted
        /\ stray' = stray /\ since' = since
    BY <1>1 DEF vars
  <2>2. QED
    BY <2>1, Zenon DEF SteadyInv, LimitsInv, DebtInv, KeyInv, Steady, HasLimits,
                Rate, Burst, RefillsInTime, Fresh, Within, Spent
<1>2. ASSUME NEW t \in Threads, Lookup(t) PROVE SteadyInv'
  BY <1>2, LookupFindsSteady, LookupMakesSteady
<1>3. QED
  BY <1>1, <1>2, TickSteady, OpenWindowSteady, ChangeLimitsSteady,
     ArriveSteady, CleanupSteady, AllowSteady DEF Next

\* No key has a bucket yet.
LEMMA InitSteady == Init => SteadyInv
<1> SUFFICES ASSUME Init PROVE SteadyInv
  OBVIOUS
<1>1. /\ heap = <<>> /\ Len(heap) = 0 /\ 1..Len(heap) = {}
      /\ \A t \in Threads : thread[t].pc = "idle"
      /\ \A k \in Keys : /\ buckets[k] = 0 /\ granted[k] = 0 /\ stray[k] = 0
                         /\ since[k] = -1
  BY SMTT(30) DEF Init, Idle
<1>2. LimitsInv /\ DebtInv
  BY <1>1 DEF LimitsInv, DebtInv, Steady, Mixed
<1>3. KeyInv
  BY <1>1 DEF KeyInv, Fresh
<1>4. QED
  BY <1>2, <1>3 DEF SteadyInv

\* The second invariant holds in every reachable state.
LEMMA SteadyInvariance == Spec => []SteadyInv
BY InitSteady, StepSteady, Invariance, PTL DEF Spec

-----------------------------------------------------------------------------
(* Results.                                                                *)

\* No bucket, request or history value leaves its type; in particular no
\* bucket is ever stamped with a time that has not come.
THEOREM TypeCorrect == Spec => []TypeOK
<1>1. IInv => TypeOK
  BY DEF IInv
<1>2. QED
  BY <1>1, Invariance, PTL

\* In every window of time a bucket hands out at most its burst plus its
\* refill, for any number of concurrent requests, any limits and any TTL.
THEOREM WindowBoundHolds == Spec => []WindowBound
<1>1. IInv => WindowBound
  BY DEF IInv, BucketInv, WindowBound
<1>2. QED
  BY <1>1, Invariance, PTL

\* A rejected client that waits the second "Retry-After: 1" names finds a
\* token in the bucket, if nobody else takes it: a request that read the
\* clock early leaves a debt, but the time it lagged behind pays for it.
THEOREM RetryAfterHonestHolds == Spec => []RetryAfterHonest
<1>1. IInv /\ SteadyInv => RetryAfterHonest
  <2> SUFFICES ASSUME IInv, SteadyInv, NEW i \in 1..Len(heap),
                      \A k \in Keys : /\ since[k] # Mixed
                                      /\ LimitRate(global, TokenLimit[k]) > 0
               PROVE  heap[i].tokens
                        + heap[i].rate * (clock + Cost - heap[i].last) >= Cost
    BY DEF RetryAfterHonest
  <2>1. Steady
    BY DEF Steady
  <2>2. PICK k \in Keys : HasLimits(heap[i], k)
    BY <2>1, LimitsGive, Zenon
  <2> DEFINE r == heap[i].rate
             x == clock - heap[i].last
  <2>3. /\ r \in Nat /\ x \in Int /\ heap[i].tokens \in Int
        /\ heap[i].last \in Int /\ clock \in Nat /\ Cost \in Nat \ {0}
        /\ heap[i] \in Bucket(clock)
    BY BucketFields, LimiterAssumption
  <2>4. r > 0
    BY <2>2, <2>3 DEF HasLimits, Rate
  <2>5. 0 <= heap[i].tokens + r * x
    BY <2>1, <2>3, DebtBound DEF SteadyInv, DebtInv
  <2>6. clock + Cost - heap[i].last = x + Cost
    BY <2>3
  <2> HIDE DEF r, x
  <2>7. r * (x + Cost) = r * x + r * Cost /\ r * x \in Int /\ r * Cost \in Int
    BY <2>3, MulAdd
  <2>8. Cost <= r * Cost
    <3>1. Cost * 1 <= Cost * r
      BY <2>3, <2>4, MulMono
    <3>2. Cost * 1 = Cost /\ Cost * r = r * Cost
      BY <2>3, MulAdd
    <3>3. QED
      BY <3>1, <3>2
  <2> DEFINE earned == r * x
             second == r * Cost
  <2>9. heap[i].tokens + r * (x + Cost) >= Cost
    <3>1. /\ earned \in Int /\ second \in Int /\ Cost <= second
          /\ r * (x + Cost) = earned + second /\ 0 <= heap[i].tokens + earned
      BY <2>5, <2>7, <2>8
    <3> HIDE DEF earned, second
    <3>2. QED
      <4>1. heap[i].tokens \in Int /\ Cost \in Int
        BY <2>3
      <4>2. heap[i].tokens + (earned + second) >= Cost
        BY <3>1, <4>1, Covers, Zenon
      <4>3. QED
        BY <3>1, <4>2, Zenon
  <2>10. QED
    BY <2>6, <2>9 DEF r
<1>2. QED
  BY <1>1, Invariance, SteadyInvariance, PTL

\* Over all the buckets a key ever had, the grants stay within one burst plus
\* the rate, for every limit whose buckets refill within the TTL: neither the
\* sweep nor the expiry at lookup gives a key anything.
THEOREM KeyBoundHolds == Spec => []KeyBound
<1>1. IInv /\ SteadyInv => KeyBound
  <2> SUFFICES ASSUME IInv, SteadyInv, NEW k \in Keys,
                      since[k] >= 0, RefillsInTime(k)
               PROVE  Spent(k) <= Burst(k) + Rate(k) * (clock - since[k])
    BY DEF KeyBound, Spent, Burst, Rate
  <2> DEFINE room == Rate(k) * (clock - since[k])
  <2>1. /\ Rate(k) \in Nat /\ Burst(k) \in Nat /\ Spent(k) \in Int
        /\ since[k] \in Int /\ clock \in Nat /\ MaxLag \in Nat
    <3>1. MaxLag \in Nat
      BY LimiterAssumption
    <3>2. QED
      BY <3>1, KeyFacts, Zenon
  <2>2. Within(k) /\ Steady
    BY KeyGives, SteadyGives, Zenon
  <2>3. CASE buckets[k] = 0
    <3>1. Spent(k) <= Rate(k) * (clock - MaxLag - since[k])
      BY <2>2, <2>3 DEF Within
    <3>2. /\ Rate(k) * (clock - MaxLag - since[k]) <= room
          /\ Rate(k) * (clock - MaxLag - since[k]) \in Int /\ room \in Int
      BY <2>1, MulMono
    <3> HIDE DEF room
    <3>3. Spent(k) <= Burst(k) + room
      BY <2>1, <3>1, <3>2, SMTT(30)
    <3>4. QED
      BY <3>3 DEF room
  <2>4. CASE buckets[k] # 0
    <3> DEFINE b == heap[buckets[k]]
               before == Rate(k) * (b.last - since[k])
               earned == Rate(k) * (clock - b.last)
    <3>1. /\ b \in Bucket(clock) /\ b.tokens \in Int /\ b.last \in Int
          /\ Debt(b, clock) /\ b.rate = Rate(k)
      <4>1. buckets[k] \in 1..Len(heap)
        BY <2>4, KeyFacts
      <4>2. QED
        <5>1. b.rate = Rate(k)
          BY <2>2, <2>4, LimitsGive, Zenon DEF HasLimits
        <5>2. Debt(b, clock)
          BY <2>2, <4>1, Zenon DEF SteadyInv, DebtInv
        <5>3. b \in Bucket(clock) /\ b.tokens \in Int /\ b.last \in 0..clock
          BY <4>1, BucketFields, ZenonT(30)
        <5>4. QED
          BY <5>1, <5>2, <5>3
    <3>2. 0 <= b.tokens + earned
      BY <2>1, <3>1, DebtBound
    <3>3. Spent(k) + b.tokens <= Burst(k) + before
      BY <2>2, <2>4, SMTT(30) DEF Within
    <3>4. room = before + earned /\ before \in Int /\ earned \in Int
      <4>1. (clock - since[k]) = (b.last - since[k]) + (clock - b.last)
        BY <2>1, <3>1
      <4>2. (b.last - since[k]) \in Int /\ (clock - b.last) \in Int
        BY <2>1, <3>1
      <4>3. QED
        BY <2>1, <4>1, <4>2, MulAdd, SMTT(30)
    <3> HIDE DEF b, before, earned, room
    <3>5. Spent(k) <= Burst(k) + room
      BY <2>1, <3>1, <3>2, <3>3, <3>4
    <3>6. QED
      BY <3>5 DEF room
  <2>5. QED
    BY <2>3, <2>4
<1>2. QED
  BY <1>1, Invariance, SteadyInvariance, PTL

=============================================================================
