------------------------- MODULE GatewayProxyProofs -------------------------
(***************************************************************************)
(* Proofs about the request loop, for every set of providers, every retry  *)
(* configuration and every candidate list.                                 *)
(***************************************************************************)
EXTENDS GatewayProxy, FiniteSetTheorems, TLAPS

-----------------------------------------------------------------------------
(* The outcome functions are well typed.                                   *)

\* A result carries an error of Errors, or none, and a natural status.
LEMMA ResultType ==
    ASSUME NEW res \in Results
    PROVE  res.err \in AnyError /\ res.status \in Nat
BY StatusAssumption DEF Results, Status, Failed, AnyError, Errors, NoError

\* upstreamFailureReason returns a reason.
LEMMA ReasonType ==
    ASSUME NEW gone \in BOOLEAN, NEW res \in Results
    PROVE  upstreamFailureReason(gone, res) \in Reasons
BY ResultType DEF upstreamFailureReason, Reasons, Reason, ReasonKinds

\* classifyTerminalProxyFailure returns a status, a code and a reason.
LEMMA TerminalType ==
    ASSUME NEW gone \in BOOLEAN, NEW err \in AnyError, NEW last \in Reasons,
           NEW f, f = classifyTerminalProxyFailure(gone, err, last)
    PROVE  /\ f.status \in Nat /\ f.code \in Codes /\ f.reason \in Reasons
           /\ f.suppress \in BOOLEAN
BY DEF classifyTerminalProxyFailure, Reasons, Reason, ReasonKinds, Codes

-----------------------------------------------------------------------------
(* What the pieces of ServeHTTP that end a request leave alone: the trace  *)
(* and the loop counters.                                                  *)

Frame(s, t) ==
    /\ t.candidates = s.candidates /\ t.index = s.index
    /\ t.attempts = s.attempts
    /\ t.failovers = s.failovers /\ t.failoverCount = s.failoverCount

\* SetTerminalError rewrites the terminal error and nothing else.
LEMMA SetTerminalErrorFacts ==
    ASSUME NEW s \in RequestState, NEW status \in Nat, NEW code \in Codes,
           NEW reason \in Reasons,
           NEW t, t = SetTerminalError(s, status, code, reason)
    PROVE  /\ t \in RequestState /\ Frame(s, t) /\ t.pc = s.pc
           /\ t.final.code = code
BY Zenon DEF SetTerminalError, RequestState, Terminal, Frame

\* Setting the counter headers touches the reply only.
LEMMA CountersFacts ==
    ASSUME NEW s \in RequestState, NEW t, t = SetCounterHeaders(s)
    PROVE  /\ t \in RequestState /\ Frame(s, t) /\ t.pc = s.pc
           /\ t.final = s.final
BY Zenon DEF SetCounterHeaders, RequestState, Reply, Frame

\* Writing an error ends the request.
LEMMA WriteErrorFacts ==
    ASSUME NEW s \in RequestState, NEW status \in Nat,
           NEW t, t = WriteError(s, status)
    PROVE  /\ t \in RequestState /\ Frame(s, t) /\ t.pc = "done"
           /\ t.final = s.final
BY Zenon DEF WriteError, RequestState, Reply, Frame

\* Returning without an answer only moves the control state.
LEMMA ReturnFacts ==
    ASSUME NEW s \in RequestState, NEW t, t = [s EXCEPT !.pc = "done"]
    PROVE  /\ t \in RequestState /\ Frame(s, t) /\ t.pc = "done"
           /\ t.final = s.final
BY Zenon DEF RequestState, Frame

FailureCodes == {"missing_body_context", "no_route_candidates",
                 "upstream_request_build_failed"}

FailedWith(s, code, t) ==
    /\ t \in RequestState /\ Frame(s, t) /\ t.pc = "done" /\ t.final.code = code

\* A gateway error answer ends the request with its code.
LEMMA FailWithFacts ==
    ASSUME NEW s \in RequestState, NEW status \in Nat, NEW code \in FailureCodes,
           NEW t, t = FailWith(s, status, code)
    PROVE  FailedWith(s, code, t)
<1> DEFINE u == SetTerminalError(s, status, code, Reason(code))
<1>1. code \in Codes /\ Reason(code) \in Reasons
  BY DEF FailureCodes, Codes, Reason, Reasons, ReasonKinds
<1>2. u \in RequestState /\ Frame(s, u) /\ u.final.code = code
  BY <1>1, SetTerminalErrorFacts
<1>3. t = WriteError(u, status)
  BY DEF FailWith
<1> HIDE DEF u
<1>4. QED
  BY <1>2, <1>3, WriteErrorFacts DEF FailedWith, Frame

\* A canceled request ends with 499 and without an answer.
LEMMA ClientCanceledFacts ==
    ASSUME NEW s \in RequestState, NEW t, t = ClientCanceledReturn(s)
    PROVE  /\ t \in RequestState /\ Frame(s, t) /\ t.pc = "done"
           /\ t.final.code = "client_canceled"
<1> DEFINE u == SetTerminalError(s, 499, "client_canceled",
                                 Reason("client_canceled"))
<1>1. "client_canceled" \in Codes /\ Reason("client_canceled") \in Reasons
  BY DEF Codes, Reason, Reasons, ReasonKinds
<1>2. /\ u \in RequestState /\ Frame(s, u)
      /\ u.final.code = "client_canceled"
  BY <1>1, SetTerminalErrorFacts
<1>3. t = [u EXCEPT !.pc = "done"]
  BY DEF ClientCanceledReturn
<1> HIDE DEF u
<1>4. QED
  BY <1>2, <1>3, ReturnFacts DEF Frame

\* When every candidate has failed the request ends.
LEMMA ExhaustedFacts ==
    ASSUME NEW s \in RequestState, NEW gone \in BOOLEAN,
           NEW t, t = Exhausted(s, gone)
    PROVE  t \in RequestState /\ Frame(s, t) /\ t.pc = "done"
<1> DEFINE f == classifyTerminalProxyFailure(gone, s.finalErr,
                                             s.lastRetryReason)
           c == SetCounterHeaders(s)
           u == SetTerminalError(c, f.status, f.code, f.reason)
<1>1. s.finalErr \in AnyError /\ s.lastRetryReason \in Reasons
  BY DEF RequestState
<1>2. /\ f.status \in Nat /\ f.code \in Codes /\ f.reason \in Reasons
      /\ f.suppress \in BOOLEAN
  BY <1>1, TerminalType
<1>3. c \in RequestState /\ Frame(s, c)
  BY CountersFacts
<1>4. t = IF f.suppress THEN [u EXCEPT !.pc = "done"]
                        ELSE WriteError(u, f.status)
  BY DEF Exhausted
<1> HIDE DEF f, c
<1>5. u \in RequestState /\ Frame(c, u)
  BY <1>2, <1>3, SetTerminalErrorFacts
<1> HIDE DEF u
<1>6. CASE f.suppress
  BY <1>3, <1>4, <1>5, <1>6, ReturnFacts DEF Frame
<1>7. CASE ~f.suppress
  BY <1>2, <1>3, <1>4, <1>5, <1>7, WriteErrorFacts DEF Frame
<1>8. QED
  BY <1>2, <1>6, <1>7

-----------------------------------------------------------------------------
(* The inductive invariant, as a predicate of one request state.           *)

Last(s) == s.attempts[Len(s.attempts)]

\* The attempt in flight continues the recorded chain.
Fits(s) ==
    /\ s.index \in 1..Len(s.candidates)
    /\ s.attempt \in 1..AttemptBudget(Current(s))
    /\ IF s.attempts = <<>>
       THEN s.index = 1 /\ s.attempt = 1
       ELSE FollowsOn(Last(s), s.index, s.attempt)

\* The recorded attempt is to be retried and there is budget for it.
Waits(s) ==
    /\ s.attempts # <<>>
    /\ Last(s).result = "retry"
    /\ Last(s).index = s.index /\ Last(s).attempt = s.attempt
    /\ s.attempt < AttemptBudget(Current(s))

\* What holds whenever a step of ServeHTTP is over.
RequestInv(s) ==
    /\ s \in RequestState
    /\ AttemptChainOf(s)
    /\ FailoverChainOf(s)
    /\ GaveUpAfterAllOf(s)
    /\ s.pc # "done" => s.final.code = "none"
    /\ s.pc = "start" => /\ s.attempts = <<>> /\ s.index = 1
    /\ s.pc = "do" => Fits(s)
    /\ s.pc = "backoff" => Waits(s) /\ s.index \in 1..Len(s.candidates)
    /\ s.pc = "translate" => /\ s.attempts # <<>>
                             /\ s.index \in 1..Len(s.candidates)

\* What holds when the attempt loop of a provider is left.
Leaving(s) ==
    /\ s \in RequestState
    /\ AttemptChainOf(s)
    /\ FailoverChainOf(s)
    /\ s.attempts # <<>>
    /\ s.index \in 1..Len(s.candidates)
    /\ Last(s).index = s.index
    /\ Last(s).result \in GivesWay
    /\ Last(s).reason = s.lastRetryReason
    /\ s.final.code = "none"

IInv == RequestInv(q) /\ clientGone \in BOOLEAN

\* The list m is l with e at its end.
Grown(l, e, m) ==
    /\ Len(m) = Len(l) + 1 /\ m[Len(l) + 1] = e
    /\ \A k \in 1..Len(l) : m[k] = l[k]
    /\ m # <<>>

\* A list with an entry has a first one.
LEMMA NotEmpty ==
    ASSUME NEW S, NEW l \in Seq(S), l # <<>>
    PROVE  Len(l) >= 1
OBVIOUS

\* The last of one more, or one of those before.
LEMMA OneMore ==
    ASSUME NEW n \in Nat, NEW k \in 1..(n + 1)
    PROVE  k = n + 1 \/ k \in 1..n
OBVIOUS

\* What appending does to a sequence.
LEMMA Appended ==
    ASSUME NEW S, NEW l \in Seq(S), NEW e \in S
    PROVE  Grown(l, e, Append(l, e))
BY DEF Grown

\* Attempt budgets are positive.
LEMMA BudgetType ==
    ASSUME NEW p \in Providers
    PROVE  AttemptBudget(p) \in Nat /\ AttemptBudget(p) >= 1
BY ProviderAssumption DEF AttemptBudget, effectiveRetryCount

\* The chain predicates depend on the framed fields alone.
LEMMA FrameChain ==
    ASSUME NEW s, NEW t, Frame(s, t)
    PROVE  /\ AttemptChainOf(s) => AttemptChainOf(t)
           /\ FailoverChainOf(s) => FailoverChainOf(t)
           /\ \A i, r : GaveWay(s, i, r) => GaveWay(t, i, r)
BY DEF Frame, AttemptChainOf, FailoverChainOf, GaveWay

\* A request that ends without giving up keeps the invariant.
LEMMA EndsWell ==
    ASSUME NEW s, AttemptChainOf(s), FailoverChainOf(s),
           NEW t \in RequestState, Frame(s, t), t.pc = "done",
           t.final.code \notin {"upstream_request_timeout",
                                "all_upstreams_unavailable"}
    PROVE  RequestInv(t)
BY FrameChain DEF RequestInv, GaveUpAfterAllOf

\* Recording the attempt in flight extends the chain.
LEMMA RecordChain ==
    ASSUME NEW s \in RequestState, AttemptChainOf(s), FailoverChainOf(s),
           Fits(s), NEW res \in Results, NEW reason \in Reasons,
           NEW result \in AttemptResults,
           result = "retry_exhausted" => s.attempt = AttemptBudget(Current(s)),
           NEW t, t = recordUpstreamAttempt(s, res, reason, result)
    PROVE  /\ t \in RequestState /\ AttemptChainOf(t) /\ FailoverChainOf(t)
           /\ t.attempts # <<>> /\ t.candidates = s.candidates
           /\ Last(t).index = s.index /\ Last(t).attempt = s.attempt
           /\ Last(t).result = result /\ Last(t).reason = reason
           /\ t.index = s.index /\ t.attempt = s.attempt
           /\ t.pc = s.pc /\ t.final = s.final
<1> DEFINE e == [index |-> s.index, attempt |-> s.attempt,
                 status |-> res.status, result |-> result, reason |-> reason]
           n == Len(s.attempts)
<1>1. e \in AttemptTrace
  BY ResultType DEF AttemptTrace, RequestState
<1>2. /\ s.attempts \in Seq(AttemptTrace) /\ n \in Nat
      /\ s.candidates \in Seq(Providers) /\ s.index \in Nat
      /\ s.attempt \in Nat
  BY DEF RequestState
<1>3. /\ t.attempts = Append(s.attempts, e) /\ t.candidates = s.candidates
      /\ t.index = s.index /\ t.attempt = s.attempt
      /\ t.failovers = s.failovers /\ t.failoverCount = s.failoverCount
      /\ t.pc = s.pc /\ t.final = s.final
  BY DEF recordUpstreamAttempt, RequestState
<1>4. t \in RequestState
  <2>1. Append(s.attempts, e) \in Seq(AttemptTrace)
    BY <1>1, <1>2
  <2>2. QED
    BY <2>1, Zenon DEF recordUpstreamAttempt, RequestState
<1>5. /\ Len(t.attempts) = n + 1 /\ t.attempts[n + 1] = e
      /\ \A k \in 1..n : t.attempts[k] = s.attempts[k]
      /\ t.attempts # <<>>
  <2>1. Grown(s.attempts, e, t.attempts)
    BY <1>1, <1>2, <1>3, Appended, Zenon
  <2>2. QED
    BY <2>1, Zenon DEF Grown
<1> HIDE DEF n
<1>6. Last(t) = e
  BY <1>5, Zenon DEF Last
<1>7. AttemptChainOf(t)
  <2>1. t.attempts[1].index = 1 /\ t.attempts[1].attempt = 1
    <3>1. CASE s.attempts = <<>>
      <4>1. n = 0
        BY <3>1 DEF n
      <4>2. QED
        BY <1>5, <3>1, <4>1 DEF Fits
    <3>2. CASE s.attempts # <<>>
      <4>1. n >= 1
        BY <1>2, <3>2, NotEmpty, Zenon DEF n
      <4>2. QED
        BY <1>2, <1>5, <3>2, <4>1 DEF AttemptChainOf
    <3>3. QED
      BY <3>1, <3>2
  <2>2. ASSUME NEW k \in 1..Len(t.attempts)
        PROVE  /\ t.attempts[k].index \in 1..Len(t.candidates)
               /\ t.attempts[k].attempt \in
                    1..AttemptBudget(t.candidates[t.attempts[k].index])
               /\ t.attempts[k].result = "retry_exhausted" =>
                    t.attempts[k].attempt =
                      AttemptBudget(t.candidates[t.attempts[k].index])
    <3>1. CASE k = n + 1
      BY <1>3, <1>5, <3>1 DEF Fits, Current
    <3>2. CASE k \in 1..n
      BY <1>3, <1>5, <3>2 DEF AttemptChainOf, n
    <3>3. k = n + 1 \/ k \in 1..n
      BY <1>2, <1>5, OneMore, Zenon
    <3>4. QED
      BY <3>1, <3>2, <3>3, Zenon
  <2>3. ASSUME NEW k \in 1..(Len(t.attempts) - 1)
        PROVE  FollowsOn(t.attempts[k], t.attempts[k+1].index,
                         t.attempts[k+1].attempt)
    <3>1. CASE k = n
      <4>1. s.attempts # <<>> /\ t.attempts[k] = Last(s)
        BY <1>2, <1>5, <3>1 DEF n, Last
      <4>2. FollowsOn(Last(s), s.index, s.attempt)
        BY <4>1 DEF Fits
      <4>3. QED
        BY <1>5, <3>1, <4>1, <4>2
    <3>2. CASE k \in 1..(n - 1)
      <4>1. t.attempts[k] = s.attempts[k] /\ t.attempts[k+1] = s.attempts[k+1]
        BY <1>2, <1>5, <3>2
      <4>2. QED
        BY <3>2, <4>1 DEF AttemptChainOf, n
    <3>3. QED
      BY <1>2, <1>5, <3>1, <3>2
  <2>4. QED
    BY <2>1, <2>2, <2>3 DEF AttemptChainOf
<1>8. FailoverChainOf(t)
  <2>1. ASSUME NEW i, NEW r, GaveWay(s, i, r) PROVE GaveWay(t, i, r)
    <3>1. PICK j \in 1..Len(s.attempts) :
              /\ s.attempts[j].index = i /\ s.attempts[j].result \in GivesWay
              /\ s.attempts[j].reason = r
      BY <2>1, Zenon DEF GaveWay
    <3>2. j \in 1..Len(t.attempts) /\ t.attempts[j] = s.attempts[j]
      BY <1>2, <1>5 DEF n
    <3>3. QED
      BY <3>1, <3>2, Zenon DEF GaveWay
  <2>2. QED
    BY <1>3, <2>1 DEF FailoverChainOf
<1>9. QED
  BY <1>3, <1>4, <1>5, <1>6, <1>7, <1>8

-----------------------------------------------------------------------------
(* The steps of the loop preserve the invariant.                           *)

\* A compiled request starts the first attempt.
LEMMA EnterBuiltFacts ==
    ASSUME NEW s \in RequestState,
           NEW t, t = [s EXCEPT !.pc = "do", !.attempt = 1]
    PROVE  /\ t \in RequestState /\ t.pc = "do" /\ t.attempt = 1
           /\ Frame(s, t) /\ t.final = s.final
BY Zenon DEF RequestState, Frame

\* A request that cannot be compiled ends with a build failure.
LEMMA EnterFailedFacts ==
    ASSUME NEW s \in RequestState,
           NEW t, t = FailWith(s, 500, "upstream_request_build_failed")
    PROVE  /\ t \in RequestState /\ Frame(s, t) /\ t.pc = "done"
           /\ t.final.code = "upstream_request_build_failed"
<1>1. "upstream_request_build_failed" \in FailureCodes
  BY DEF FailureCodes
<1>2. ASSUME NEW status \in Nat, t = FailWith(s, status, "upstream_request_build_failed")
      PROVE  FailedWith(s, "upstream_request_build_failed", t)
  BY <1>1, <1>2, FailWithFacts, ZenonT(30)
<1>3. FailedWith(s, "upstream_request_build_failed", t)
  BY <1>2
<1>4. QED
  BY <1>3, Zenon DEF FailedWith

\* A failover appends one trace entry and bumps the counter.
LEMMA RecordFailoverFacts ==
    ASSUME NEW s \in RequestState, s.index \in 1..(Len(s.candidates) - 1),
           NEW f, f = [from |-> Current(s), to |-> s.candidates[s.index + 1],
                       index |-> s.index, count |-> s.failoverCount + 1,
                       reason |-> s.lastRetryReason],
           NEW u, u = [RecordFailover(s) EXCEPT !.index = @ + 1]
    PROVE  /\ f \in FailoverTrace
           /\ u \in RequestState /\ u.candidates = s.candidates
           /\ u.index = s.index + 1 /\ u.attempts = s.attempts
           /\ u.failovers = Append(s.failovers, f)
           /\ u.failoverCount = s.failoverCount + 1 /\ u.final = s.final
<1> DEFINE n == s.failoverCount + 1
           g == Append(s.failovers, f)
           i == s.index + 1
<1>1. f \in FailoverTrace
  <2>1. /\ s.candidates \in Seq(Providers) /\ s.index \in Nat
        /\ s.failoverCount \in Nat /\ s.lastRetryReason \in Reasons
    BY DEF RequestState
  <2>2. /\ Current(s) \in Providers /\ s.candidates[s.index + 1] \in Providers
        /\ n \in Nat
    BY <2>1 DEF Current
  <2>3. QED
    BY <2>1, <2>2, Zenon DEF FailoverTrace
<1>2. g \in Seq(FailoverTrace) /\ n \in Nat /\ i \in Nat
  <2>1. /\ s.failovers \in Seq(FailoverTrace) /\ s.index \in Nat
        /\ s.failoverCount \in Nat
    BY DEF RequestState
  <2>2. QED
    BY <1>1, <2>1
<1>3. u = [s EXCEPT !.failoverCount = n, !.failovers = g, !.index = i]
  BY DEF RecordFailover, RequestState
<1> HIDE DEF n, g, i
<1>4. /\ u \in RequestState /\ u.candidates = s.candidates
      /\ u.index = i /\ u.attempts = s.attempts
      /\ u.failovers = g /\ u.failoverCount = n /\ u.final = s.final
  BY <1>2, <1>3, ZenonT(30) DEF RequestState
<1>5. QED
  BY <1>1, <1>4 DEF n, g, i

\* Entering a provider starts its first attempt or ends the request.
LEMMA EnterProviderInv ==
    ASSUME NEW s \in RequestState, AttemptChainOf(s), FailoverChainOf(s),
           s.final.code = "none", s.index \in 1..Len(s.candidates),
           IF s.attempts = <<>> THEN s.index = 1
                                ELSE FollowsOn(Last(s), s.index, 1),
           NEW built \in BOOLEAN, NEW t, t = EnterProvider(s, built)
    PROVE  RequestInv(t)
<1>1. CASE built
  <2>0. t = [s EXCEPT !.pc = "do", !.attempt = 1]
    BY <1>1 DEF EnterProvider
  <2>1. /\ t \in RequestState /\ t.pc = "do" /\ t.attempt = 1
        /\ Frame(s, t) /\ t.final = s.final
    BY <2>0, EnterBuiltFacts, Zenon
  <2>2. AttemptChainOf(t) /\ FailoverChainOf(t)
    BY <2>1, FrameChain
  <2>3. Current(t) \in Providers
    BY <2>1 DEF Current, RequestState, Frame
  <2>4. Fits(t)
    BY <2>1, <2>3, BudgetType DEF Fits, Last, Frame
  <2>5. QED
    BY <2>1, <2>2, <2>4 DEF RequestInv, GaveUpAfterAllOf
<1>2. CASE ~built
  <2>1. t = FailWith(s, 500, "upstream_request_build_failed")
    BY <1>2 DEF EnterProvider
  <2>2. /\ t \in RequestState /\ Frame(s, t) /\ t.pc = "done"
        /\ t.final.code = "upstream_request_build_failed"
    BY <2>1, EnterFailedFacts
  <2>3. QED
    BY <2>2, EndsWell
<1>3. QED
  BY <1>1, <1>2

\* Leaving a provider moves to the next candidate or gives up after the last.
LEMMA LeaveProviderInv ==
    ASSUME NEW s, Leaving(s), NEW gone \in BOOLEAN, NEW built \in BOOLEAN,
           NEW t, t = LeaveProvider(s, gone, built)
    PROVE  RequestInv(t)
<1> DEFINE N == Len(s.candidates)
<1>1. /\ s.candidates \in Seq(Providers) /\ N \in Nat /\ s.index \in 1..N
      /\ s.attempts \in Seq(AttemptTrace)
      /\ s.failovers \in Seq(FailoverTrace)
      /\ s.failoverCount \in Nat /\ s.lastRetryReason \in Reasons
  BY DEF Leaving, RequestState
<1>2. GaveWay(s, s.index, s.lastRetryReason)
  <2>1. Len(s.attempts) \in 1..Len(s.attempts)
    BY <1>1 DEF Leaving
  <2>2. QED
    BY <2>1 DEF Leaving, GaveWay, Last
<1>3. CASE s.index < N
  <2> DEFINE f == [from |-> Current(s), to |-> s.candidates[s.index + 1],
                   index |-> s.index, count |-> s.failoverCount + 1,
                   reason |-> s.lastRetryReason]
             u == [RecordFailover(s) EXCEPT !.index = @ + 1]
  <2>1. t = EnterProvider(u, built)
    BY <1>3 DEF LeaveProvider
  <2>2. s \in RequestState /\ s.index \in 1..(N - 1)
    BY <1>1, <1>3 DEF Leaving
  <2>3. f \in FailoverTrace
    BY <2>2, RecordFailoverFacts, Zenon
  <2>4. /\ u \in RequestState /\ u.candidates = s.candidates
        /\ u.index = s.index + 1 /\ u.attempts = s.attempts
        /\ u.failovers = Append(s.failovers, f)
        /\ u.failoverCount = s.failoverCount + 1 /\ u.final = s.final
    BY <2>2, RecordFailoverFacts, ZenonT(30)
  <2> HIDE DEF u
  <2>5. AttemptChainOf(u)
    BY <2>4 DEF AttemptChainOf, Leaving
  <2>6. FailoverChainOf(u)
    <3>1. Len(s.failovers) = s.failoverCount /\ s.index = s.failoverCount + 1
      BY DEF Leaving, FailoverChainOf
    <3>2. /\ Len(u.failovers) = s.index /\ u.failovers[s.index] = f
          /\ \A k \in 1..Len(s.failovers) : u.failovers[k] = s.failovers[k]
      BY <1>1, <2>3, <2>4, <3>1
    <3>3. \A i, r : GaveWay(s, i, r) => GaveWay(u, i, r)
      BY <2>4 DEF GaveWay
    <3>4. ASSUME NEW k \in 1..Len(u.failovers)
          PROVE  /\ u.failovers[k].from = u.candidates[k]
                 /\ u.failovers[k].to = u.candidates[k+1]
                 /\ u.failovers[k].index = k /\ u.failovers[k].count = k
                 /\ GaveWay(u, k, u.failovers[k].reason)
      <4>1. CASE k = s.index
        BY <1>1, <1>2, <2>4, <3>1, <3>2, <3>3, <4>1 DEF Current
      <4>2. CASE k \in 1..Len(s.failovers)
        BY <2>4, <3>2, <3>3, <4>2 DEF Leaving, FailoverChainOf
      <4>3. QED
        BY <1>1, <3>1, <3>2, <4>1, <4>2
    <3>5. QED
      BY <1>1, <2>4, <3>1, <3>2, <3>4, Zenon DEF FailoverChainOf
  <2>7. Last(u) = Last(s) /\ FollowsOn(Last(u), u.index, 1)
    BY <2>4 DEF Last, FollowsOn, Leaving
  <2>8. u.final.code = "none" /\ u.index \in 1..Len(u.candidates)
    BY <1>1, <1>3, <2>4 DEF Leaving
  <2>9. IF u.attempts = <<>> THEN u.index = 1
                             ELSE FollowsOn(Last(u), u.index, 1)
    BY <2>4, <2>7 DEF Leaving
  <2>10. u \in RequestState
    BY <2>4
  <2>11. QED
    BY <2>1, <2>5, <2>6, <2>8, <2>9, <2>10, EnterProviderInv, Zenon
<1>4. CASE s.index = N
  <2>1. t = Exhausted(s, gone)
    BY <1>4 DEF LeaveProvider
  <2>2. t \in RequestState /\ Frame(s, t) /\ t.pc = "done"
    BY <2>1, ExhaustedFacts DEF Leaving
  <2>3. AttemptChainOf(t) /\ FailoverChainOf(t)
    BY <2>2, FrameChain DEF Leaving
  <2>4. \A i \in 1..N : \E k \in 1..Len(s.attempts) :
            GaveWay(s, i, s.attempts[k].reason)
    <3>1. Len(s.failovers) = s.failoverCount /\ s.index = s.failoverCount + 1
      BY DEF Leaving, FailoverChainOf
    <3>2. ASSUME NEW i \in 1..N PROVE \E r : GaveWay(s, i, r)
      <4>1. CASE i = s.index
        BY <1>2, <4>1
      <4>2. CASE i \in 1..Len(s.failovers)
        BY <4>2 DEF Leaving, FailoverChainOf
      <4>3. QED
        BY <1>1, <1>4, <3>1, <4>1, <4>2
    <3>3. QED
      BY <3>2 DEF GaveWay
  <2>5. GaveUpAfterAllOf(t)
    BY <2>2, <2>4, FrameChain DEF GaveUpAfterAllOf, Frame
  <2>6. QED
    BY <2>2, <2>3, <2>5 DEF RequestInv
<1>5. QED
  BY <1>1, <1>3, <1>4

\* The state in which a retryable attempt has been recorded.
RetryRecord(s, res, reason) ==
    LET r == recordUpstreamAttempt(s, res, reason, retryAttemptResult(s))
    IN  [r EXCEPT !.finalErr = res.err, !.lastRetryReason = reason,
                  !.totalRetries = @ + 1]

\* It is recorded as the last attempt, and as exhausted at the end of the
\* budget only.
LEMMA RetryRecordFacts ==
    ASSUME NEW s, RequestInv(s), s.pc = "do",
           NEW res \in Results, NEW reason \in Reasons,
           NEW u, u = RetryRecord(s, res, reason)
    PROVE  /\ u \in RequestState /\ AttemptChainOf(u) /\ FailoverChainOf(u)
           /\ u.attempts # <<>> /\ u.candidates = s.candidates
           /\ u.index = s.index /\ u.attempt = s.attempt
           /\ u.final = s.final /\ u.final.code = "none"
           /\ Last(u).index = s.index /\ Last(u).attempt = s.attempt
           /\ Last(u).result = retryAttemptResult(s)
           /\ ~(s.attempt < AttemptBudget(Current(s))) => Leaving(u)
<1> DEFINE result == retryAttemptResult(s)
           r == recordUpstreamAttempt(s, res, reason, result)
           n == r.totalRetries + 1
           e == res.err
<1>1. /\ s \in RequestState /\ AttemptChainOf(s) /\ FailoverChainOf(s)
      /\ Fits(s) /\ s.final.code = "none"
  BY DEF RequestInv
<1>2. Current(s) \in Providers /\ AttemptBudget(Current(s)) \in Nat
  BY <1>1, BudgetType, SMTT(30) DEF Fits, Current, RequestState
<1>3. /\ result \in AttemptResults
      /\ result = "retry_exhausted" => s.attempt = AttemptBudget(Current(s))
      /\ result = IF s.attempt < AttemptBudget(Current(s))
                  THEN "retry" ELSE "retry_exhausted"
  BY <1>1, <1>2 DEF retryAttemptResult, AttemptResults, Fits
<1>4. u = [r EXCEPT !.finalErr = e, !.lastRetryReason = reason,
                    !.totalRetries = n]
  BY DEF RetryRecord
<1> HIDE DEF result
<1>5. /\ r \in RequestState /\ AttemptChainOf(r) /\ FailoverChainOf(r)
      /\ r.attempts # <<>> /\ r.candidates = s.candidates
      /\ Last(r).index = s.index /\ Last(r).attempt = s.attempt
      /\ Last(r).result = result /\ Last(r).reason = reason
      /\ r.index = s.index /\ r.attempt = s.attempt
      /\ r.pc = s.pc /\ r.final = s.final
  BY <1>1, <1>3, RecordChain
<1> HIDE DEF r
<1>6. n \in Nat /\ e \in AnyError
  BY <1>5, ResultType DEF RequestState
<1> HIDE DEF n, e
<1>7. /\ u \in RequestState /\ Frame(r, u) /\ u.attempt = r.attempt
      /\ u.pc = r.pc /\ u.final = r.final /\ u.lastRetryReason = reason
  BY <1>4, <1>5, <1>6, ZenonT(30) DEF RequestState, Frame
<1>8. /\ AttemptChainOf(u) /\ FailoverChainOf(u) /\ u.attempts # <<>>
      /\ Last(u) = Last(r) /\ u.index = s.index /\ u.attempt = s.attempt
      /\ u.candidates = s.candidates /\ u.final.code = "none"
  BY <1>1, <1>5, <1>7, FrameChain DEF Frame, Last
<1>9. ASSUME ~(s.attempt < AttemptBudget(Current(s))) PROVE Leaving(u)
  BY <1>1, <1>3, <1>5, <1>7, <1>8, <1>9 DEF Leaving, GivesWay, Fits
<1>10. QED
  BY <1>5, <1>7, <1>8, <1>9 DEF result

\* A retryable attempt waits for its backoff or leaves the provider.
LEMMA RetryInv ==
    ASSUME NEW s, RequestInv(s), s.pc = "do", NEW gone \in BOOLEAN,
           NEW res \in Results, NEW reason \in Reasons, NEW built \in BOOLEAN,
           NEW t, t = Retry(s, gone, res, reason, built)
    PROVE  RequestInv(t)
<1> DEFINE u == RetryRecord(s, res, reason)
<1>1. t = IF s.attempt < AttemptBudget(Current(s))
          THEN [u EXCEPT !.pc = "backoff"]
          ELSE LeaveProvider(u, gone, built)
  BY DEF Retry, RetryRecord
<1>2. /\ u \in RequestState /\ AttemptChainOf(u) /\ FailoverChainOf(u)
      /\ u.attempts # <<>> /\ u.candidates = s.candidates
      /\ u.index = s.index /\ u.attempt = s.attempt
      /\ u.final.code = "none"
      /\ Last(u).index = s.index /\ Last(u).attempt = s.attempt
      /\ Last(u).result = retryAttemptResult(s)
      /\ ~(s.attempt < AttemptBudget(Current(s))) => Leaving(u)
  BY RetryRecordFacts
<1> HIDE DEF u
<1>3. CASE s.attempt < AttemptBudget(Current(s))
  <2>1. t = [u EXCEPT !.pc = "backoff"]
    BY <1>1, <1>3
  <2>2. /\ t \in RequestState /\ Frame(u, t) /\ t.pc = "backoff"
        /\ t.attempt = u.attempt /\ t.final = u.final
    BY <1>2, <2>1, SMTT(30) DEF RequestState, Frame
  <2>3. AttemptChainOf(t) /\ FailoverChainOf(t)
    BY <1>2, <2>2, FrameChain
  <2>4. Fits(s)
    BY DEF RequestInv
  <2>5. Waits(t) /\ t.index \in 1..Len(t.candidates)
    BY <1>2, <1>3, <2>2, <2>4
       DEF Waits, Last, Frame, Current, Fits, retryAttemptResult
  <2>6. QED
    BY <1>2, <2>2, <2>3, <2>5 DEF RequestInv, GaveUpAfterAllOf
<1>4. CASE ~(s.attempt < AttemptBudget(Current(s)))
  <2>1. t = LeaveProvider(u, gone, built) /\ Leaving(u)
    BY <1>1, <1>2, <1>4
  <2>2. QED
    BY <2>1, LeaveProviderInv
<1>5. QED
  BY <1>3, <1>4

\* The state in which a failover status has been recorded.
FailoverRecord(s, res, reason) ==
    [recordUpstreamAttempt(s, res, reason, "failover")
        EXCEPT !.lastRetryReason = reason]

\* The provider loop is left in it.
LEMMA FailoverRecordFacts ==
    ASSUME NEW s, RequestInv(s), s.pc = "do",
           NEW res \in Results, NEW reason \in Reasons,
           NEW u, u = FailoverRecord(s, res, reason)
    PROVE  Leaving(u)
<1> DEFINE r == recordUpstreamAttempt(s, res, reason, "failover")
<1>1. /\ s \in RequestState /\ AttemptChainOf(s) /\ FailoverChainOf(s)
      /\ Fits(s) /\ s.final.code = "none" /\ "failover" \in AttemptResults
  BY DEF RequestInv, AttemptResults
<1>2. u = [r EXCEPT !.lastRetryReason = reason]
  BY DEF FailoverRecord
<1>3. /\ r \in RequestState /\ AttemptChainOf(r) /\ FailoverChainOf(r)
      /\ r.attempts # <<>> /\ r.candidates = s.candidates
      /\ Last(r).index = s.index
      /\ Last(r).result = "failover" /\ Last(r).reason = reason
      /\ r.index = s.index /\ r.final = s.final
  BY <1>1, RecordChain
<1> HIDE DEF r
<1>4. /\ u \in RequestState /\ Frame(r, u) /\ u.final = r.final
      /\ u.lastRetryReason = reason
  BY <1>2, <1>3, Zenon DEF RequestState, Frame
<1>5. AttemptChainOf(u) /\ FailoverChainOf(u) /\ Last(u) = Last(r)
  BY <1>3, <1>4, FrameChain DEF Frame, Last
<1>6. QED
  BY <1>1, <1>3, <1>4, <1>5 DEF Leaving, Frame, Fits, GivesWay

\* A failover status leaves the provider at once.
LEMMA FailoverInv ==
    ASSUME NEW s, RequestInv(s), s.pc = "do", NEW gone \in BOOLEAN,
           NEW res \in Results, NEW reason \in Reasons, NEW built \in BOOLEAN,
           NEW t, t = Failover(s, gone, res, reason, built)
    PROVE  RequestInv(t)
<1>1. t = LeaveProvider(FailoverRecord(s, res, reason), gone, built)
  BY DEF Failover, FailoverRecord
<1>2. Leaving(FailoverRecord(s, res, reason))
  BY FailoverRecordFacts
<1>3. QED
  BY <1>1, <1>2, LeaveProviderInv

\* A canceled attempt is recorded and ends the request.
LEMMA TerminateInv ==
    ASSUME NEW s, RequestInv(s), s.pc = "do", NEW res \in Results,
           NEW reason \in Reasons, NEW t, t = Terminate(s, res, reason)
    PROVE  RequestInv(t)
<1> DEFINE r == recordUpstreamAttempt(s, res, reason, "error")
           e == res.err
           u == [r EXCEPT !.finalErr = e, !.lastRetryReason = reason]
<1>1. /\ s \in RequestState /\ AttemptChainOf(s) /\ FailoverChainOf(s)
      /\ Fits(s) /\ "error" \in AttemptResults
  BY DEF RequestInv, AttemptResults
<1>2. t = ClientCanceledReturn(u)
  BY DEF Terminate
<1>3. r \in RequestState /\ AttemptChainOf(r) /\ FailoverChainOf(r)
  BY <1>1, RecordChain
<1>4. e \in AnyError
  BY ResultType
<1> HIDE DEF r, e
<1>5. u \in RequestState /\ Frame(r, u)
  BY <1>3, <1>4, Zenon DEF RequestState, Frame
<1> HIDE DEF u
<1>6. /\ t \in RequestState /\ Frame(u, t) /\ t.pc = "done"
      /\ t.final.code = "client_canceled"
  BY <1>2, <1>5, ClientCanceledFacts
<1>7. AttemptChainOf(u) /\ FailoverChainOf(u)
  BY <1>3, <1>5, FrameChain
<1>8. QED
  BY <1>6, <1>7, EndsWell

\* A response that is returned is recorded before it is translated.
LEMMA ReturnResponseInv ==
    ASSUME NEW s, RequestInv(s), s.pc = "do", NEW res \in Results,
           NEW t, t = ReturnResponse(s, res)
    PROVE  RequestInv(t)
<1> DEFINE label == [kind |-> "label", code |-> res.status]
           r == recordUpstreamAttempt(s, res, label, "returned_response")
           u == SetCounterHeaders(r)
<1>1. /\ s \in RequestState /\ AttemptChainOf(s) /\ FailoverChainOf(s)
      /\ Fits(s) /\ s.final.code = "none"
      /\ "returned_response" \in AttemptResults
  BY DEF RequestInv, AttemptResults
<1>2. label \in Reasons
  BY ResultType DEF Reasons, ReasonKinds
<1>3. t = [u EXCEPT !.pc = "translate"]
  BY DEF ReturnResponse
<1> HIDE DEF label
<1>4. /\ r \in RequestState /\ AttemptChainOf(r) /\ FailoverChainOf(r)
      /\ r.attempts # <<>> /\ r.candidates = s.candidates
      /\ r.index = s.index /\ r.final = s.final
  BY <1>1, <1>2, RecordChain
<1> HIDE DEF r
<1>5. u \in RequestState /\ Frame(r, u) /\ u.final = r.final
  BY <1>4, CountersFacts
<1> HIDE DEF u
<1>6. /\ t \in RequestState /\ Frame(u, t) /\ t.final = u.final
      /\ t.pc = "translate"
  BY <1>3, <1>5, Zenon DEF RequestState, Frame
<1>7. AttemptChainOf(t) /\ FailoverChainOf(t)
  BY <1>4, <1>5, <1>6, FrameChain
<1>8. t.attempts # <<>> /\ t.index \in 1..Len(t.candidates)
  BY <1>1, <1>4, <1>5, <1>6 DEF Frame, Fits
<1>9. QED
  BY <1>1, <1>4, <1>5, <1>6, <1>7, <1>8 DEF RequestInv, GaveUpAfterAllOf

\* Whatever Do returned, the step up to the next blocking call is sound.
LEMMA AttemptReturnedInv ==
    ASSUME NEW s, RequestInv(s), s.pc = "do", NEW gone \in BOOLEAN,
           NEW res \in Results, NEW built \in BOOLEAN,
           NEW t, t = AttemptReturned(s, gone, res, built)
    PROVE  RequestInv(t)
<1> DEFINE reason == upstreamFailureReason(gone, res)
           action == classifyUpstreamAttempt(gone, res)
<1>1. reason \in Reasons
  BY ReasonType
<1>2. action \in {"retry", "failover", "terminate", "return"}
  BY DEF classifyUpstreamAttempt
<1>3. t = CASE action = "retry"     -> Retry(s, gone, res, reason, built)
            [] action = "failover"  -> Failover(s, gone, res, reason, built)
            [] action = "terminate" -> Terminate(s, res, reason)
            [] action = "return"    -> ReturnResponse(s, res)
  BY DEF AttemptReturned
<1> HIDE DEF reason, action
<1>4. CASE action = "retry"
  <2>1. t = Retry(s, gone, res, reason, built)
    BY <1>3, <1>4
  <2>2. QED
    BY <1>1, <2>1, RetryInv
<1>5. CASE action = "failover"
  <2>1. t = Failover(s, gone, res, reason, built)
    BY <1>3, <1>5
  <2>2. QED
    BY <1>1, <2>1, FailoverInv
<1>6. CASE action = "terminate"
  <2>1. t = Terminate(s, res, reason)
    BY <1>3, <1>6
  <2>2. QED
    BY <1>1, <2>1, TerminateInv
<1>7. CASE action = "return"
  <2>1. t = ReturnResponse(s, res)
    BY <1>3, <1>7
  <2>2. QED
    BY <2>1, ReturnResponseInv
<1>8. QED
  BY <1>2, <1>4, <1>5, <1>6, <1>7

\* A request without a body context ends at once.
LEMMA NoBodyFacts ==
    ASSUME NEW s \in RequestState,
           NEW t, t = FailWith(s, 500, "missing_body_context")
    PROVE  /\ t \in RequestState /\ Frame(s, t) /\ t.pc = "done"
           /\ t.final.code = "missing_body_context"
<1>1. "missing_body_context" \in FailureCodes
  BY DEF FailureCodes
<1>2. ASSUME NEW status \in Nat, t = FailWith(s, status, "missing_body_context")
      PROVE  FailedWith(s, "missing_body_context", t)
  BY <1>1, <1>2, FailWithFacts, ZenonT(30)
<1>3. FailedWith(s, "missing_body_context", t)
  BY <1>2
<1>4. QED
  BY <1>3, Zenon DEF FailedWith

\* So does a request without candidates.
LEMMA NoCandidatesFacts ==
    ASSUME NEW s \in RequestState,
           NEW t, t = FailWith(s, 503, "no_route_candidates")
    PROVE  /\ t \in RequestState /\ Frame(s, t) /\ t.pc = "done"
           /\ t.final.code = "no_route_candidates"
<1>1. "no_route_candidates" \in FailureCodes
  BY DEF FailureCodes
<1>2. ASSUME NEW status \in Nat, t = FailWith(s, status, "no_route_candidates")
      PROVE  FailedWith(s, "no_route_candidates", t)
  BY <1>1, <1>2, FailWithFacts, ZenonT(30)
<1>3. FailedWith(s, "no_route_candidates", t)
  BY <1>2
<1>4. QED
  BY <1>3, Zenon DEF FailedWith

\* The early returns and the first provider.
LEMMA BeginInv ==
    ASSUME NEW s, RequestInv(s), s.pc = "start", NEW built \in BOOLEAN,
           NEW ctx \in {"ok", "no_gateway_context", "no_body_context"},
           NEW t, t = Begin(s, ctx, built)
    PROVE  RequestInv(t)
<1>1. /\ s \in RequestState /\ AttemptChainOf(s) /\ FailoverChainOf(s)
      /\ s.attempts = <<>> /\ s.index = 1 /\ s.final.code = "none"
  BY DEF RequestInv
<1>2. CASE ctx = "no_gateway_context"
  <2>1. t = WriteError(s, 500)
    BY <1>2 DEF Begin
  <2>2. /\ t \in RequestState /\ Frame(s, t) /\ t.pc = "done"
        /\ t.final = s.final
    BY <1>1, <2>1, WriteErrorFacts
  <2>3. QED
    BY <1>1, <2>2, EndsWell
<1>3. CASE ctx = "no_body_context"
  <2>1. t = FailWith(s, 500, "missing_body_context")
    BY <1>3 DEF Begin
  <2>2. /\ t \in RequestState /\ Frame(s, t) /\ t.pc = "done"
        /\ t.final.code = "missing_body_context"
    BY <1>1, <2>1, NoBodyFacts
  <2>3. QED
    BY <1>1, <2>2, EndsWell
<1>4. CASE ctx = "ok" /\ s.candidates = <<>>
  <2>1. t = FailWith(s, 503, "no_route_candidates")
    BY <1>4 DEF Begin
  <2>2. /\ t \in RequestState /\ Frame(s, t) /\ t.pc = "done"
        /\ t.final.code = "no_route_candidates"
    BY <1>1, <2>1, NoCandidatesFacts
  <2>3. QED
    BY <1>1, <2>2, EndsWell
<1>5. CASE ctx = "ok" /\ s.candidates # <<>>
  <2>1. t = EnterProvider(s, built)
    BY <1>5 DEF Begin
  <2>2. s.index \in 1..Len(s.candidates)
    BY <1>1, <1>5 DEF RequestState
  <2>3. QED
    BY <1>1, <2>1, <2>2, EnterProviderInv
<1>6. QED
  BY <1>2, <1>3, <1>4, <1>5

\* The state in which the response has been translated.
TranslationRecord(s, gone, out) ==
    [s EXCEPT !.pc = "done",
              !.finalErr = IF out.err = NoError THEN @ ELSE out.err,
              !.streamOutcome = IF out.streaming
                                THEN classifyStreamOutcome(gone, out) ELSE @,
              !.reply = IF out.started
                        THEN [s.reply EXCEPT !.from = "upstream",
                                             !.status = ReplyStatus(s, out)]
                        ELSE @]

\* The request is over, its traces are left alone, and of the answer only
\* its origin and status are new.
LEMMA TranslationFacts ==
    ASSUME NEW s, RequestInv(s), s.pc = "translate", NEW gone \in BOOLEAN,
           NEW out \in Translations, NEW r, r = TranslationRecord(s, gone, out)
    PROVE  /\ r \in RequestState /\ Frame(s, r) /\ r.pc = "done"
           /\ r.final = s.final
           /\ r.reply.counted = s.reply.counted
           /\ r.reply.retries = s.reply.retries
           /\ r.reply.failovers = s.reply.failovers
           /\ r.reply.from \in {"upstream", s.reply.from}
<1> DEFINE e == IF out.err = NoError THEN s.finalErr ELSE out.err
           o == IF out.streaming THEN classifyStreamOutcome(gone, out)
                                 ELSE s.streamOutcome
           y == IF out.started
                THEN [s.reply EXCEPT !.from = "upstream",
                                     !.status = ReplyStatus(s, out)]
                ELSE s.reply
<1>1. s \in RequestState /\ s.attempts # <<>>
  BY DEF RequestInv
<1>2. ReplyStatus(s, out) \in Nat
  <2>1. /\ s.attempts \in Seq(AttemptTrace)
        /\ Len(s.attempts) \in 1..Len(s.attempts)
    BY <1>1 DEF RequestState
  <2>2. s.attempts[Len(s.attempts)].status \in Nat
    <3>1. s.attempts[Len(s.attempts)] \in AttemptTrace
      BY <2>1
    <3>2. QED
      BY <3>1 DEF AttemptTrace
  <2>3. QED
    BY <2>2 DEF ReplyStatus
<1>3. s.finalErr \in AnyError /\ s.reply \in Reply
  BY <1>1 DEF RequestState
<1>4. e \in AnyError
  BY <1>3 DEF Translations, AnyError, Errors, ClosedConnectionErrors,
              OtherErrors
<1>5. o \in {"none", "completed", "empty", "client_canceled",
             "upstream_error"}
  BY <1>1 DEF RequestState, classifyStreamOutcome
<1>6. y \in Reply
  BY <1>2, <1>3, Zenon DEF Reply
<1>7. /\ y.counted = s.reply.counted /\ y.retries = s.reply.retries
      /\ y.failovers = s.reply.failovers
      /\ y.from \in {"upstream", s.reply.from}
  BY <1>3 DEF Reply
<1>8. r = [s EXCEPT !.pc = "done", !.finalErr = e, !.streamOutcome = o,
                    !.reply = y]
  BY <1>1 DEF TranslationRecord, RequestState
<1> HIDE DEF e, o, y
<1>9. /\ r \in RequestState /\ Frame(s, r) /\ r.pc = "done"
      /\ r.final = s.final /\ r.reply = y
  BY <1>1, <1>4, <1>5, <1>6, <1>8, ZenonT(30) DEF RequestState, Frame
<1>10. QED
  BY <1>7, <1>9

\* Translating the response ends the request and leaves the traces alone.
LEMMA TranslatedInv ==
    ASSUME NEW s, RequestInv(s), s.pc = "translate", NEW gone \in BOOLEAN,
           NEW out \in Translations, NEW t, t = Translated(s, gone, out)
    PROVE  RequestInv(t)
<1> DEFINE r == TranslationRecord(s, gone, out)
<1>1. /\ s \in RequestState /\ AttemptChainOf(s) /\ FailoverChainOf(s)
      /\ s.final.code = "none"
  BY DEF RequestInv
<1>2. t = IF isClientCanceledRequest(gone, out.err)
          THEN ClientCanceledReturn(r) ELSE r
  BY DEF Translated, TranslationRecord
<1>3. /\ r \in RequestState /\ Frame(s, r) /\ r.pc = "done"
      /\ r.final = s.final
  BY TranslationFacts
<1> HIDE DEF r
<1>4. CASE isClientCanceledRequest(gone, out.err)
  <2>1. t = ClientCanceledReturn(r)
    BY <1>2, <1>4
  <2>2. /\ t \in RequestState /\ Frame(r, t) /\ t.pc = "done"
        /\ t.final.code = "client_canceled"
    BY <1>3, <2>1, ClientCanceledFacts
  <2>3. AttemptChainOf(r) /\ FailoverChainOf(r)
    BY <1>1, <1>3, FrameChain
  <2>4. QED
    BY <2>2, <2>3, EndsWell
<1>5. CASE ~isClientCanceledRequest(gone, out.err)
  <2>1. t = r
    BY <1>2, <1>5
  <2>2. QED
    BY <1>1, <1>3, <2>1, EndsWell
<1>6. QED
  BY <1>4, <1>5

\* The next attempt on the same provider continues the chain.
LEMMA NextAttemptInv ==
    ASSUME NEW s, RequestInv(s), s.pc = "backoff", NEW t, t = NextAttempt(s)
    PROVE  RequestInv(t)
<1>1. /\ s \in RequestState /\ AttemptChainOf(s) /\ FailoverChainOf(s)
      /\ s.final.code = "none" /\ Waits(s)
      /\ s.index \in 1..Len(s.candidates)
  BY DEF RequestInv
<1>2. /\ t \in RequestState /\ Frame(s, t) /\ t.pc = "do"
      /\ t.attempt = s.attempt + 1 /\ t.final = s.final
  <2> DEFINE n == s.attempt + 1
  <2>1. n \in Nat
    BY <1>1 DEF RequestState
  <2>2. t = [s EXCEPT !.pc = "do", !.attempt = n]
    BY DEF NextAttempt
  <2> HIDE DEF n
  <2>3. /\ t \in RequestState /\ Frame(s, t) /\ t.pc = "do"
        /\ t.attempt = n /\ t.final = s.final
    BY <1>1, <2>1, <2>2, Zenon DEF RequestState, Frame
  <2>4. QED
    BY <2>3 DEF n
<1>3. AttemptChainOf(t) /\ FailoverChainOf(t)
  BY <1>1, <1>2, FrameChain
<1>4. /\ Current(s) \in Providers /\ AttemptBudget(Current(s)) \in Nat
      /\ s.attempt \in Nat
  BY <1>1, BudgetType DEF Current, RequestState
<1>5. Fits(t)
  BY <1>1, <1>2, <1>4 DEF Fits, Waits, Frame, Current, Last, FollowsOn
<1>6. QED
  BY <1>1, <1>2, <1>3, <1>5 DEF RequestInv, GaveUpAfterAllOf

-----------------------------------------------------------------------------
(* The second invariant: what the client is told and what is logged.  It   *)
(* is inductive relative to the first one.                                 *)

HasTimedOut(s) == \E k \in 1..Len(s.attempts) : TimedOut(s, k)

\* Nothing has been sent, and nothing kept for the log.
Unanswered(s) ==
    s.final.status = 0 /\ s.final.code = "none" /\ s.reply.from = "none"

\* In the two loops, the retry counter counts what the trace shows, and a
\* timeout left in finalErr has its attempt in the trace.
Trying(s) ==
    /\ s \in RequestState
    /\ Unanswered(s) /\ ~s.reply.counted
    /\ s.totalRetries = Cardinality(Retried(s))
    /\ s.finalErr = "timeout" => HasTimedOut(s)

AnswerInv(s) ==
    /\ TimeoutAnswerOf(s) /\ CountersMatchTraceOf(s) /\ LoggedStatusIsSentOf(s)
    /\ s.pc \in {"start", "do", "backoff"} => Trying(s)
    /\ s.pc = "translate" => Unanswered(s)

\* What the properties of the trace depend on.
SameTrace(s, t) == t.attempts = s.attempts /\ t.failovers = s.failovers

\* The fields SetTerminalError writes.
LEMMA TerminalFields ==
    ASSUME NEW s \in RequestState, NEW status, NEW code, NEW reason,
           NEW t, t = SetTerminalError(s, status, code, reason)
    PROVE  /\ SameTrace(s, t) /\ t.pc = s.pc /\ t.reply = s.reply
           /\ t.final.status = status /\ t.final.code = code
BY DEF SetTerminalError, RequestState, SameTrace

\* The fields SetCounterHeaders writes.
LEMMA CounterFields ==
    ASSUME NEW s \in RequestState, NEW t, t = SetCounterHeaders(s)
    PROVE  /\ SameTrace(s, t) /\ t.final = s.final
           /\ t.reply.counted = TRUE /\ t.reply.from = s.reply.from
           /\ t.reply.retries = s.totalRetries
           /\ t.reply.failovers = s.failoverCount
<1>1. s.reply \in Reply
  BY DEF RequestState
<1>2. t.reply = [s.reply EXCEPT !.counted = TRUE, !.retries = s.totalRetries,
                                !.failovers = s.failoverCount]
      /\ SameTrace(s, t) /\ t.final = s.final
  BY DEF SetCounterHeaders, RequestState, SameTrace
<1>3. QED
  BY <1>1, <1>2 DEF Reply

\* The fields WriteError writes.
LEMMA ErrorFields ==
    ASSUME NEW s \in RequestState, NEW status, NEW t, t = WriteError(s, status)
    PROVE  /\ SameTrace(s, t) /\ t.final = s.final /\ t.pc = "done"
           /\ t.reply.from = "gateway" /\ t.reply.status = status
           /\ t.reply.counted = s.reply.counted
           /\ t.reply.retries = s.reply.retries
           /\ t.reply.failovers = s.reply.failovers
<1>1. s.reply \in Reply
  BY DEF RequestState
<1>2. t.reply = [s.reply EXCEPT !.from = "gateway", !.status = status]
      /\ SameTrace(s, t) /\ t.final = s.final /\ t.pc = "done"
  BY DEF WriteError, RequestState, SameTrace
<1>3. QED
  BY <1>1, <1>2 DEF Reply

\* An early failure is logged with the status it is answered with.
LEMMA FailWithAnswer ==
    ASSUME NEW s, Trying(s), NEW status \in {500, 503},
           NEW code \in {"missing_body_context", "no_route_candidates",
                         "upstream_request_build_failed"},
           NEW t, t = FailWith(s, status, code)
    PROVE  AnswerInv(t)
<1> DEFINE u == SetTerminalError(s, status, code, Reason(code))
<1>1. code \in Codes /\ Reason(code) \in Reasons /\ status \in Nat
  BY DEF Codes, Reason, Reasons, ReasonKinds
<1>2. s \in RequestState /\ ~s.reply.counted
  BY DEF Trying
<1>3. u \in RequestState
  BY <1>1, <1>2, SetTerminalErrorFacts
<1>4. u.reply = s.reply /\ u.final.status = status /\ u.final.code = code
  BY <1>2, TerminalFields
<1>5. t = WriteError(u, status)
  BY DEF FailWith
<1> HIDE DEF u
<1>6. /\ t.final = u.final /\ t.pc = "done" /\ t.reply.from = "gateway"
      /\ t.reply.status = status /\ t.reply.counted = u.reply.counted
  BY <1>3, <1>5, ErrorFields
<1>7. QED
  BY <1>2, <1>4, <1>6 DEF AnswerInv, TimeoutAnswerOf, CountersMatchTraceOf,
                          LoggedStatusIsSentOf

\* A canceled request is logged with 499 and not answered.
LEMMA CanceledAnswer ==
    ASSUME NEW s \in RequestState, s.reply.from # "gateway",
           CountersMatchTraceOf(s), NEW t, t = ClientCanceledReturn(s)
    PROVE  AnswerInv(t)
<1> DEFINE u == SetTerminalError(s, 499, "client_canceled",
                                 Reason("client_canceled"))
<1>1. "client_canceled" \in Codes /\ Reason("client_canceled") \in Reasons
  BY DEF Codes, Reason, Reasons, ReasonKinds
<1>2. u \in RequestState
  BY <1>1, SetTerminalErrorFacts
<1>3. /\ SameTrace(s, u) /\ u.reply = s.reply
      /\ u.final.status = 499 /\ u.final.code = "client_canceled"
  BY TerminalFields
<1>4. t = [u EXCEPT !.pc = "done"]
  BY DEF ClientCanceledReturn
<1> HIDE DEF u
<1>5. SameTrace(u, t) /\ t.reply = u.reply /\ t.final = u.final /\ t.pc = "done"
  BY <1>2, <1>4 DEF RequestState, SameTrace
<1>6. CountersMatchTraceOf(t)
  BY <1>3, <1>5 DEF CountersMatchTraceOf, SameTrace, Retried
<1>7. QED
  BY <1>3, <1>5, <1>6 DEF AnswerInv, TimeoutAnswerOf, LoggedStatusIsSentOf

\* The answer after the last candidate: the headers count what the trace
\* shows, and the last attempt decides between 504 and 503.
LEMMA ExhaustedAnswer ==
    ASSUME NEW s, Trying(s), Leaving(s), NEW gone \in BOOLEAN,
           NEW t, t = Exhausted(s, gone)
    PROVE  AnswerInv(t)
<1> DEFINE f == classifyTerminalProxyFailure(gone, s.finalErr,
                                             s.lastRetryReason)
           c == SetCounterHeaders(s)
           u == SetTerminalError(c, f.status, f.code, f.reason)
<1>1. /\ s \in RequestState /\ s.finalErr \in AnyError
      /\ s.lastRetryReason \in Reasons
      /\ s.attempts \in Seq(AttemptTrace) /\ s.attempts # <<>>
  BY DEF Trying, Leaving, RequestState
<1>2. /\ f.status \in Nat /\ f.code \in Codes /\ f.reason \in Reasons
      /\ f.suppress \in BOOLEAN
  BY <1>1, TerminalType
<1>3. /\ f.suppress => f.status = 499 /\ f.code = "client_canceled"
      /\ f.status = 504 => \/ s.lastRetryReason.kind = "upstream_timeout"
                           \/ s.finalErr = "timeout"
      /\ f.code = "all_upstreams_unavailable" =>
            s.lastRetryReason.kind # "upstream_timeout"
  BY DEF classifyTerminalProxyFailure, isUpstreamTimeoutError
<1>4. t = IF f.suppress THEN [u EXCEPT !.pc = "done"]
                        ELSE WriteError(u, f.status)
  BY DEF Exhausted
<1>5. Len(s.attempts) \in 1..Len(s.attempts)
  BY <1>1
<1>6. s.attempts[Len(s.attempts)].reason = s.lastRetryReason
  BY DEF Leaving, Last
<1>7. /\ f.status = 504 => HasTimedOut(s)
      /\ f.code = "all_upstreams_unavailable" =>
            \E k \in 1..Len(s.attempts) : ~TimedOut(s, k)
  BY <1>3, <1>5, <1>6 DEF Trying, HasTimedOut, TimedOut
<1>8. c \in RequestState
  BY <1>1, CountersFacts
<1>9. /\ SameTrace(s, c) /\ c.reply.counted = TRUE /\ c.reply.from = "none"
      /\ c.reply.retries = Cardinality(Retried(s))
      /\ c.reply.failovers = Len(s.failovers)
  <2>1. /\ SameTrace(s, c) /\ c.reply.counted = TRUE
        /\ c.reply.from = s.reply.from /\ c.reply.retries = s.totalRetries
        /\ c.reply.failovers = s.failoverCount
    BY <1>1, CounterFields, Zenon
  <2>2. s.reply.from = "none" /\ s.totalRetries = Cardinality(Retried(s))
    BY Zenon DEF Trying, Unanswered
  <2>3. s.failoverCount = Len(s.failovers)
    BY Zenon DEF Leaving, FailoverChainOf
  <2>4. QED
    BY <2>1, <2>2, <2>3, Zenon
<1> HIDE DEF f, c
<1>10. u \in RequestState
  BY <1>2, <1>8, SetTerminalErrorFacts
<1>11. /\ SameTrace(c, u) /\ u.reply = c.reply
       /\ u.final.status = f.status /\ u.final.code = f.code
  BY <1>8, TerminalFields
<1> HIDE DEF u
<1>12. /\ SameTrace(u, t) /\ t.final = u.final /\ t.pc = "done"
       /\ t.reply.counted = u.reply.counted
       /\ t.reply.retries = u.reply.retries
       /\ t.reply.failovers = u.reply.failovers
       /\ IF f.suppress THEN t.reply.from = u.reply.from
          ELSE t.reply.from = "gateway" /\ t.reply.status = f.status
  <2>1. CASE f.suppress
    <3>1. t = [u EXCEPT !.pc = "done"]
      BY <1>4, <2>1
    <3>2. QED
      BY <1>10, <2>1, <3>1 DEF RequestState, SameTrace
  <2>2. CASE ~f.suppress
    BY <1>4, <1>10, <2>2, ErrorFields
  <2>3. QED
    BY <2>1, <2>2
<1>13. SameTrace(s, t) /\ Retried(t) = Retried(s)
  BY <1>9, <1>11, <1>12 DEF SameTrace, Retried
<1>14. CountersMatchTraceOf(t)
  BY <1>9, <1>11, <1>12, <1>13 DEF CountersMatchTraceOf, SameTrace
<1>15. TimeoutAnswerOf(t)
  BY <1>7, <1>11, <1>12, <1>13
     DEF TimeoutAnswerOf, SameTrace, TimedOut, HasTimedOut
<1>16. LoggedStatusIsSentOf(t)
  BY <1>3, <1>9, <1>11, <1>12 DEF LoggedStatusIsSentOf
<1>17. QED
  BY <1>12, <1>14, <1>15, <1>16 DEF AnswerInv

\* What an attempt's record changes of the answer to come.
Recorded(s, reason, result, t) ==
    /\ t.reply = s.reply /\ t.final = s.final
    /\ t.failovers = s.failovers /\ t.failoverCount = s.failoverCount
    /\ t.totalRetries = s.totalRetries /\ t.finalErr = s.finalErr
    /\ s.totalRetries \in Nat
    /\ Cardinality(Retried(t)) =
          IF result \in {"retry", "retry_exhausted"}
          THEN s.totalRetries + 1 ELSE s.totalRetries
    /\ HasTimedOut(s) => HasTimedOut(t)
    /\ reason.kind = "upstream_timeout" => HasTimedOut(t)

\* Recording an attempt adds it to the retried ones if it is to be retried,
\* and its timeout, if it ran into one, to the trace.
LEMMA RecordAnswer ==
    ASSUME NEW s, Trying(s), NEW res \in Results, NEW reason \in Reasons,
           NEW result \in AttemptResults,
           NEW t, t = recordUpstreamAttempt(s, res, reason, result)
    PROVE  Recorded(s, reason, result, t)
<1> DEFINE e == [index |-> s.index, attempt |-> s.attempt,
                 status |-> res.status, result |-> result, reason |-> reason]
           n == Len(s.attempts)
<1>1. /\ s \in RequestState /\ s.attempts \in Seq(AttemptTrace) /\ n \in Nat
      /\ s.totalRetries \in Nat /\ s.totalRetries = Cardinality(Retried(s))
  BY DEF Trying, RequestState
<1>2. /\ t.attempts = Append(s.attempts, e) /\ t.reply = s.reply
      /\ t.final = s.final /\ t.failovers = s.failovers
      /\ t.failoverCount = s.failoverCount
      /\ t.totalRetries = s.totalRetries /\ t.finalErr = s.finalErr
  BY <1>1, ZenonT(30) DEF recordUpstreamAttempt, RequestState
<1>3. e \in AttemptTrace
  BY <1>1, ResultType DEF AttemptTrace, RequestState
<1>4. /\ Len(t.attempts) = n + 1 /\ t.attempts[n + 1] = e
      /\ \A k \in 1..n : t.attempts[k] = s.attempts[k]
  <2>1. Grown(s.attempts, e, t.attempts)
    BY <1>1, <1>2, <1>3, Appended, Zenon
  <2>2. QED
    BY <2>1, Zenon DEF Grown
<1>5. e.result = result /\ e.reason = reason
  OBVIOUS
<1> HIDE DEF e
<1>6. Retried(t) = IF result \in {"retry", "retry_exhausted"}
                   THEN Retried(s) \cup {n + 1} ELSE Retried(s)
  <2>1. \A k \in 1..n : t.attempts[k].result = s.attempts[k].result
    BY <1>4, Zenon
  <2>2. t.attempts[n + 1].result = result
    BY <1>4, <1>5, Zenon
  <2>3. 1..Len(t.attempts) = 1..n \cup {n + 1}
    BY <1>1, <1>4
  <2>4. QED
    BY <2>1, <2>2, <2>3 DEF Retried
<1>7. IsFiniteSet(Retried(s)) /\ n + 1 \notin Retried(s)
  <2>1. Retried(s) \subseteq 1..n /\ n + 1 \notin 1..n
    BY <1>1 DEF Retried
  <2>2. IsFiniteSet(1..n)
    BY <1>1, FS_Interval
  <2>3. QED
    BY <2>1, <2>2, FS_Subset
<1>8. Cardinality(Retried(t)) =
         IF result \in {"retry", "retry_exhausted"}
         THEN s.totalRetries + 1 ELSE s.totalRetries
  <2>1. Cardinality(Retried(s) \cup {n + 1}) = Cardinality(Retried(s)) + 1
    BY <1>7, FS_AddElement, Zenon
  <2>2. QED
    BY <1>1, <1>6, <2>1, Zenon
<1>9. HasTimedOut(s) => HasTimedOut(t)
  BY <1>1, <1>4 DEF HasTimedOut, TimedOut
<1>10. reason.kind = "upstream_timeout" => HasTimedOut(t)
  BY <1>1, <1>4, <1>5 DEF HasTimedOut, TimedOut
<1>11. QED
  BY <1>1, <1>2, <1>8, <1>9, <1>10, Zenon DEF Recorded

\* A request that is still being tried satisfies the second invariant.
LEMMA TryingSuffices ==
    ASSUME NEW s, Trying(s), s.pc \in {"start", "do", "backoff"}
    PROVE  AnswerInv(s)
BY DEF Trying, Unanswered, AnswerInv, TimeoutAnswerOf, CountersMatchTraceOf,
       LoggedStatusIsSentOf

\* Entering a provider.
LEMMA EnterProviderAnswer ==
    ASSUME NEW s, Trying(s), NEW built \in BOOLEAN,
           NEW t, t = EnterProvider(s, built)
    PROVE  AnswerInv(t)
<1>1. CASE built
  <2>1. t = [s EXCEPT !.pc = "do", !.attempt = 1] /\ s \in RequestState
    BY <1>1 DEF EnterProvider, Trying
  <2>2. /\ t \in RequestState /\ t.pc = "do" /\ Frame(s, t)
        /\ t.final = s.final
    BY <2>1, EnterBuiltFacts, Zenon
  <2>3. /\ t.reply = s.reply /\ t.totalRetries = s.totalRetries
        /\ t.finalErr = s.finalErr /\ t.attempts = s.attempts
    BY <2>1 DEF RequestState
  <2>4. Trying(t)
    BY <2>2, <2>3 DEF Trying, Unanswered, Retried, HasTimedOut, TimedOut
  <2>5. QED
    BY <2>2, <2>4, TryingSuffices
<1>2. CASE ~built
  <2>1. t = FailWith(s, 500, "upstream_request_build_failed")
    BY <1>2 DEF EnterProvider
  <2>2. QED
    BY <2>1, FailWithAnswer
<1>3. QED
  BY <1>1, <1>2

\* Leaving a provider.
LEMMA LeaveProviderAnswer ==
    ASSUME NEW s, Trying(s), Leaving(s), NEW gone \in BOOLEAN,
           NEW built \in BOOLEAN, NEW t, t = LeaveProvider(s, gone, built)
    PROVE  AnswerInv(t)
<1>1. /\ s \in RequestState /\ Len(s.candidates) \in Nat
      /\ s.index \in 1..Len(s.candidates)
  BY DEF Leaving, RequestState
<1>2. CASE s.index < Len(s.candidates)
  <2> DEFINE u == [RecordFailover(s) EXCEPT !.index = @ + 1]
  <2>1. t = EnterProvider(u, built)
    BY <1>2 DEF LeaveProvider
  <2>2. s.index \in 1..(Len(s.candidates) - 1)
    BY <1>1, <1>2
  <2>3. /\ u \in RequestState /\ u.attempts = s.attempts
        /\ u.final = s.final
    BY <1>1, <2>2, RecordFailoverFacts, ZenonT(30)
  <2>4. /\ u.reply = s.reply /\ u.totalRetries = s.totalRetries
        /\ u.finalErr = s.finalErr
    BY <1>1 DEF RecordFailover, RequestState
  <2> HIDE DEF u
  <2>5. Trying(u)
    BY <2>3, <2>4 DEF Trying, Unanswered, Retried, HasTimedOut, TimedOut
  <2>6. QED
    BY <2>1, <2>5, EnterProviderAnswer
<1>3. CASE ~(s.index < Len(s.candidates))
  <2>1. t = Exhausted(s, gone)
    BY <1>3 DEF LeaveProvider
  <2>2. QED
    BY <2>1, ExhaustedAnswer
<1>4. QED
  BY <1>2, <1>3

\* A retryable attempt.  A timeout that is retried was not taken for a client
\* that left, so that its reason says so.
LEMMA RetryAnswer ==
    ASSUME NEW s, RequestInv(s), Trying(s), s.pc = "do", NEW gone \in BOOLEAN,
           NEW res \in Results, NEW built \in BOOLEAN,
           classifyUpstreamAttempt(gone, res) = "retry", NEW reason,
           reason = upstreamFailureReason(gone, res),
           NEW t, t = Retry(s, gone, res, reason, built)
    PROVE  AnswerInv(t)
<1> DEFINE r == recordUpstreamAttempt(s, res, reason, retryAttemptResult(s))
           u == RetryRecord(s, res, reason)
<1>1. reason \in Reasons
  BY ReasonType
<1>2. res.err = "timeout" => reason.kind = "upstream_timeout"
  BY DEF classifyUpstreamAttempt, upstreamFailureReason,
         isUpstreamTimeoutError, Reason, NoError
<1>3. t = IF s.attempt < AttemptBudget(Current(s))
          THEN [u EXCEPT !.pc = "backoff"]
          ELSE LeaveProvider(u, gone, built)
  BY DEF Retry, RetryRecord
<1>4. retryAttemptResult(s) \in {"retry", "retry_exhausted"}
      /\ retryAttemptResult(s) \in AttemptResults
  BY DEF retryAttemptResult, AttemptResults
<1>5. /\ r.reply = s.reply /\ r.final = s.final
      /\ r.totalRetries = s.totalRetries /\ s.totalRetries \in Nat
      /\ Cardinality(Retried(r)) = s.totalRetries + 1
      /\ reason.kind = "upstream_timeout" => HasTimedOut(r)
  <2>1. Recorded(s, reason, retryAttemptResult(s), r)
    BY <1>1, <1>4, RecordAnswer, Zenon
  <2>2. QED
    BY <1>4, <2>1, Zenon DEF Recorded
<1>6. u \in RequestState /\ (~(s.attempt < AttemptBudget(Current(s))) => Leaving(u))
  BY <1>1, RetryRecordFacts
<1>7. /\ u.reply = r.reply /\ u.final = r.final /\ u.attempts = r.attempts
      /\ u.totalRetries = r.totalRetries + 1 /\ u.finalErr = res.err
  <2>1. s \in RequestState
    BY DEF Trying
  <2>2. QED
    BY <2>1 DEF RetryRecord, recordUpstreamAttempt, RequestState
<1> HIDE DEF r, u
<1>8. Trying(u)
  BY <1>2, <1>5, <1>6, <1>7
     DEF Trying, Unanswered, Retried, HasTimedOut, TimedOut
<1>9. CASE s.attempt < AttemptBudget(Current(s))
  <2>1. t = [u EXCEPT !.pc = "backoff"]
    BY <1>3, <1>9
  <2>2. t \in RequestState
    BY <1>6, <2>1, Zenon DEF RequestState
  <2>3. /\ t.reply = u.reply /\ t.final = u.final /\ t.attempts = u.attempts
        /\ t.totalRetries = u.totalRetries /\ t.finalErr = u.finalErr
        /\ t.pc = "backoff"
    BY <1>6, <2>1 DEF RequestState
  <2>4. Trying(t)
    BY <1>8, <2>2, <2>3 DEF Trying, Unanswered, Retried, HasTimedOut, TimedOut
  <2>5. QED
    BY <2>3, <2>4, TryingSuffices
<1>10. CASE ~(s.attempt < AttemptBudget(Current(s)))
  BY <1>3, <1>6, <1>8, <1>10, LeaveProviderAnswer
<1>11. QED
  BY <1>9, <1>10

\* A failover status.
LEMMA FailoverAnswer ==
    ASSUME NEW s, RequestInv(s), Trying(s), s.pc = "do", NEW gone \in BOOLEAN,
           NEW res \in Results, NEW reason \in Reasons, NEW built \in BOOLEAN,
           NEW t, t = Failover(s, gone, res, reason, built)
    PROVE  AnswerInv(t)
<1> DEFINE r == recordUpstreamAttempt(s, res, reason, "failover")
           u == FailoverRecord(s, res, reason)
<1>1. t = LeaveProvider(u, gone, built)
  BY DEF Failover, FailoverRecord
<1>2. Leaving(u)
  BY FailoverRecordFacts
<1>3. "failover" \in AttemptResults
  BY DEF AttemptResults
<1>4. /\ r.reply = s.reply /\ r.final = s.final
      /\ r.totalRetries = s.totalRetries /\ r.finalErr = s.finalErr
      /\ Cardinality(Retried(r)) = s.totalRetries
      /\ HasTimedOut(s) => HasTimedOut(r)
  <2>1. Recorded(s, reason, "failover", r)
    BY <1>3, RecordAnswer, Zenon
  <2>2. QED
    BY <2>1 DEF Recorded
<1>5. /\ u.reply = r.reply /\ u.final = r.final /\ u.attempts = r.attempts
      /\ u.totalRetries = r.totalRetries /\ u.finalErr = r.finalErr
  <2>1. s \in RequestState
    BY SMTT(30) DEF Trying
  <2>2. QED
    BY <2>1 DEF FailoverRecord, recordUpstreamAttempt, RequestState
<1> HIDE DEF r, u
<1>6. Trying(u)
  BY <1>2, <1>4, <1>5
     DEF Trying, Leaving, Unanswered, Retried, HasTimedOut, TimedOut
<1>7. QED
  BY <1>1, <1>2, <1>6, LeaveProviderAnswer

\* A canceled attempt.
LEMMA TerminateAnswer ==
    ASSUME NEW s, RequestInv(s), Trying(s), s.pc = "do",
           NEW res \in Results, NEW reason \in Reasons,
           NEW t, t = Terminate(s, res, reason)
    PROVE  AnswerInv(t)
<1> DEFINE r == recordUpstreamAttempt(s, res, reason, "error")
           e == res.err
           u == [r EXCEPT !.finalErr = e, !.lastRetryReason = reason]
<1>1. /\ s \in RequestState /\ AttemptChainOf(s) /\ FailoverChainOf(s)
      /\ Fits(s) /\ "error" \in AttemptResults /\ e \in AnyError
  BY ResultType DEF RequestInv, AttemptResults
<1>2. t = ClientCanceledReturn(u)
  BY DEF Terminate
<1>3. r \in RequestState
  BY <1>1, RecordChain
<1>4. r.reply = s.reply
  <2>1. Recorded(s, reason, "error", r)
    BY <1>1, RecordAnswer, Zenon
  <2>2. QED
    BY <2>1, Zenon DEF Recorded
<1> HIDE DEF r, e
<1>5. u \in RequestState
  BY <1>1, <1>3, Zenon DEF RequestState
<1>6. u.reply = s.reply
  BY <1>3, <1>4 DEF RequestState
<1> HIDE DEF u
<1>7. u.reply.from # "gateway" /\ CountersMatchTraceOf(u)
  BY <1>6 DEF CountersMatchTraceOf, Trying, Unanswered
<1>8. QED
  BY <1>2, <1>5, <1>7, CanceledAnswer

\* A response that will be returned is counted before it is translated.
LEMMA ReturnResponseAnswer ==
    ASSUME NEW s, RequestInv(s), Trying(s), s.pc = "do",
           NEW res \in Results, NEW t, t = ReturnResponse(s, res)
    PROVE  AnswerInv(t)
<1> DEFINE label == [kind |-> "label", code |-> res.status]
           r == recordUpstreamAttempt(s, res, label, "returned_response")
           u == SetCounterHeaders(r)
<1>1. /\ s \in RequestState /\ AttemptChainOf(s) /\ FailoverChainOf(s)
      /\ Fits(s) /\ "returned_response" \in AttemptResults
  BY DEF RequestInv, AttemptResults
<1>2. label \in Reasons
  BY ResultType DEF Reasons, ReasonKinds
<1>3. t = [u EXCEPT !.pc = "translate"]
  BY DEF ReturnResponse
<1> HIDE DEF label
<1>4. r \in RequestState
  BY <1>1, <1>2, RecordChain, ZenonT(30)
<1>5. /\ r.reply = s.reply /\ r.final = s.final
      /\ r.totalRetries = Cardinality(Retried(r))
      /\ r.failoverCount = Len(r.failovers)
  <2>1. Recorded(s, label, "returned_response", r)
    BY <1>1, <1>2, RecordAnswer, Zenon
  <2>2. QED
    BY <1>1, <2>1 DEF Recorded, FailoverChainOf
<1> HIDE DEF r
<1>6. u \in RequestState
  BY <1>4, CountersFacts
<1>7. /\ SameTrace(r, u) /\ u.final = r.final /\ u.reply.from = r.reply.from
      /\ u.reply.retries = r.totalRetries
      /\ u.reply.failovers = r.failoverCount
  BY <1>4, CounterFields, Zenon
<1> HIDE DEF u
<1>8. /\ SameTrace(u, t) /\ t.final = u.final /\ t.reply = u.reply
      /\ t.pc = "translate"
  BY <1>3, <1>6 DEF RequestState, SameTrace
<1>9. CountersMatchTraceOf(t)
  BY <1>5, <1>7, <1>8 DEF CountersMatchTraceOf, SameTrace, Retried
<1>10. Unanswered(t)
  BY <1>5, <1>7, <1>8 DEF Trying, Unanswered
<1>11. QED
  BY <1>8, <1>9, <1>10
     DEF AnswerInv, Unanswered, TimeoutAnswerOf, LoggedStatusIsSentOf

\* Whatever Do returned.
LEMMA AttemptReturnedAnswer ==
    ASSUME NEW s, RequestInv(s), AnswerInv(s), s.pc = "do",
           NEW gone \in BOOLEAN, NEW res \in Results, NEW built \in BOOLEAN,
           NEW t, t = AttemptReturned(s, gone, res, built)
    PROVE  AnswerInv(t)
<1> DEFINE reason == upstreamFailureReason(gone, res)
           action == classifyUpstreamAttempt(gone, res)
<1>1. reason \in Reasons
  BY ReasonType
<1>2. action \in {"retry", "failover", "terminate", "return"}
  BY DEF classifyUpstreamAttempt
<1>3. t = CASE action = "retry"     -> Retry(s, gone, res, reason, built)
            [] action = "failover"  -> Failover(s, gone, res, reason, built)
            [] action = "terminate" -> Terminate(s, res, reason)
            [] action = "return"    -> ReturnResponse(s, res)
  BY DEF AttemptReturned
<1>4. Trying(s)
  BY DEF AnswerInv
<1>5. CASE action = "retry"
  <2>1. t = Retry(s, gone, res, reason, built)
    BY <1>3, <1>5
  <2>2. QED
    BY <1>4, <1>5, <2>1, RetryAnswer
<1> HIDE DEF reason, action
<1>6. CASE action = "failover"
  <2>1. t = Failover(s, gone, res, reason, built)
    BY <1>3, <1>6
  <2>2. QED
    BY <1>1, <1>4, <2>1, FailoverAnswer
<1>7. CASE action = "terminate"
  <2>1. t = Terminate(s, res, reason)
    BY <1>3, <1>7
  <2>2. QED
    BY <1>1, <1>4, <2>1, TerminateAnswer
<1>8. CASE action = "return"
  <2>1. t = ReturnResponse(s, res)
    BY <1>3, <1>8
  <2>2. QED
    BY <1>4, <2>1, ReturnResponseAnswer
<1>9. QED
  BY <1>2, <1>5, <1>6, <1>7, <1>8

\* The early returns and the first provider.
LEMMA BeginAnswer ==
    ASSUME NEW s, AnswerInv(s), s.pc = "start", NEW built \in BOOLEAN,
           NEW ctx \in {"ok", "no_gateway_context", "no_body_context"},
           NEW t, t = Begin(s, ctx, built)
    PROVE  AnswerInv(t)
<1>1. Trying(s) /\ s \in RequestState
  BY SMTT(30) DEF AnswerInv, Trying
<1>2. CASE ctx = "no_gateway_context"
  <2>1. t = WriteError(s, 500)
    BY <1>2 DEF Begin
  <2>2. /\ t.final = s.final /\ t.pc = "done" /\ t.reply.from = "gateway"
        /\ t.reply.counted = s.reply.counted
    BY <1>1, <2>1, ErrorFields
  <2>3. QED
    BY <1>1, <2>2 DEF Trying, Unanswered, AnswerInv, TimeoutAnswerOf,
                      CountersMatchTraceOf, LoggedStatusIsSentOf
<1>3. CASE ctx = "no_body_context"
  <2>1. t = FailWith(s, 500, "missing_body_context")
    BY <1>3 DEF Begin
  <2>2. QED
    BY <1>1, <2>1, FailWithAnswer
<1>4. CASE ctx = "ok" /\ s.candidates = <<>>
  <2>1. t = FailWith(s, 503, "no_route_candidates")
    BY <1>4 DEF Begin
  <2>2. QED
    BY <1>1, <2>1, FailWithAnswer
<1>5. CASE ctx = "ok" /\ s.candidates # <<>>
  <2>1. t = EnterProvider(s, built)
    BY <1>5 DEF Begin
  <2>2. QED
    BY <1>1, <2>1, EnterProviderAnswer
<1>6. QED
  BY <1>2, <1>3, <1>4, <1>5

\* Translating the response leaves the counters alone, and logs 499 for a
\* client that left and no status otherwise.
LEMMA TranslatedAnswer ==
    ASSUME NEW s, RequestInv(s), AnswerInv(s), s.pc = "translate",
           NEW gone \in BOOLEAN, NEW out \in Translations,
           NEW t, t = Translated(s, gone, out)
    PROVE  AnswerInv(t)
<1> DEFINE r == TranslationRecord(s, gone, out)
<1>1. Unanswered(s) /\ CountersMatchTraceOf(s)
  BY DEF AnswerInv
<1>2. t = IF isClientCanceledRequest(gone, out.err)
          THEN ClientCanceledReturn(r) ELSE r
  BY DEF Translated, TranslationRecord
<1>3. /\ r \in RequestState /\ Frame(s, r) /\ r.pc = "done"
      /\ r.final = s.final /\ r.reply.counted = s.reply.counted
      /\ r.reply.retries = s.reply.retries
      /\ r.reply.failovers = s.reply.failovers
      /\ r.reply.from \in {"upstream", s.reply.from}
  BY TranslationFacts
<1> HIDE DEF r
<1>4. CountersMatchTraceOf(r) /\ r.reply.from # "gateway"
  BY <1>1, <1>3 DEF CountersMatchTraceOf, Frame, Retried, Unanswered
<1>5. CASE isClientCanceledRequest(gone, out.err)
  <2>1. t = ClientCanceledReturn(r)
    BY <1>2, <1>5, SMTT(30)
  <2>2. QED
    BY <1>3, <1>4, <2>1, CanceledAnswer
<1>6. CASE ~isClientCanceledRequest(gone, out.err)
  <2>1. t = r
    BY <1>2, <1>6
  <2>2. QED
    BY <1>1, <1>3, <1>4, <2>1
       DEF AnswerInv, Unanswered, TimeoutAnswerOf, LoggedStatusIsSentOf
<1>7. QED
  BY <1>5, <1>6

\* The next attempt.
LEMMA NextAttemptAnswer ==
    ASSUME NEW s, RequestInv(s), AnswerInv(s), s.pc = "backoff",
           NEW t, t = NextAttempt(s)
    PROVE  AnswerInv(t)
<1>1. Trying(s) /\ s \in RequestState
  BY DEF AnswerInv, Trying
<1>2. t \in RequestState
  BY NextAttemptInv DEF RequestInv
<1>3. /\ t.reply = s.reply /\ t.final = s.final /\ t.attempts = s.attempts
      /\ t.totalRetries = s.totalRetries /\ t.finalErr = s.finalErr
      /\ t.pc = "do"
  BY <1>1 DEF NextAttempt, RequestState
<1>4. Trying(t)
  BY <1>1, <1>2, <1>3 DEF Trying, Unanswered, Retried, HasTimedOut, TimedOut
<1>5. QED
  BY <1>3, <1>4, TryingSuffices

-----------------------------------------------------------------------------
(* The theorems.                                                           *)

\* A new request satisfies the invariant.
LEMMA InitInv == Init => IInv
<1> SUFFICES ASSUME Init PROVE IInv
  OBVIOUS
<1>1. PICK c \in CandidateLists : q = NewRequest(c)
  BY DEF Init
<1>2. c \in Seq(Providers)
  BY ProviderAssumption
<1>3. q \in RequestState
  <2>1. Reason("unknown") \in Reasons
    BY DEF Reason, Reasons, ReasonKinds
  <2>2. NoTerminal \in Terminal
    BY <2>1 DEF NoTerminal, Terminal, Codes
  <2>3. NoReply \in Reply
    BY DEF NoReply, Reply
  <2>4. <<>> \in Seq(AttemptTrace) /\ <<>> \in Seq(FailoverTrace)
    OBVIOUS
  <2>5. NoError \in AnyError
    BY DEF AnyError
  <2>6. QED
    BY <1>1, <1>2, <2>1, <2>2, <2>3, <2>4, <2>5, SMTT(30) DEF NewRequest, RequestState
<1>4. /\ q.attempts = <<>> /\ q.failovers = <<>> /\ q.failoverCount = 0
      /\ q.index = 1 /\ q.pc = "start" /\ q.final.code = "none"
  BY <1>1 DEF NewRequest, NoTerminal
<1>5. AttemptChainOf(q) /\ FailoverChainOf(q) /\ GaveUpAfterAllOf(q)
  BY <1>4 DEF AttemptChainOf, FailoverChainOf, GaveUpAfterAllOf
<1>6. QED
  BY <1>3, <1>4, <1>5, Zenon DEF IInv, RequestInv, Init

\* Every step of the handler and of the client preserves the invariant.
LEMMA StepInv == IInv /\ [Next]_vars => IInv'
<1> SUFFICES ASSUME IInv, [Next]_vars PROVE IInv'
  OBVIOUS
<1>1. RequestInv(q) /\ clientGone \in BOOLEAN
  BY DEF IInv
<1>2. \A s, i : BuiltChoices(s, i) \subseteq BOOLEAN
  BY Zenon DEF BuiltChoices, CanBuild
<1>3. CASE ServeHTTP
  <2>1. PICK ctx \in {"ok", "no_gateway_context", "no_body_context"},
             built \in BuiltChoices(q, 1) : q' = Begin(q, ctx, built)
    BY <1>3 DEF ServeHTTP
  <2>2. q.pc = "start" /\ clientGone' = clientGone /\ built \in BOOLEAN
    BY <1>2, <1>3 DEF ServeHTTP
  <2>3. RequestInv(q')
    BY <1>1, <2>1, <2>2, BeginInv
  <2>4. QED
    BY <1>1, <2>2, <2>3 DEF IInv
<1>4. CASE DoReturns
  <2>1. PICK res \in Results, built \in BuiltChoices(q, q.index + 1) :
              q' = AttemptReturned(q, clientGone, res, built)
    BY <1>4 DEF DoReturns
  <2>2. q.pc = "do" /\ clientGone' = clientGone /\ built \in BOOLEAN
    BY <1>2, <1>4 DEF DoReturns
  <2>3. RequestInv(q')
    BY <1>1, <2>1, <2>2, AttemptReturnedInv
  <2>4. QED
    BY <1>1, <2>2, <2>3 DEF IInv
<1>5. CASE BackoffElapsed
  BY <1>1, <1>5, NextAttemptInv DEF BackoffElapsed, IInv
<1>6. CASE BackoffCanceled
  <2> DEFINE r == Reason("client_canceled")
             u == [q EXCEPT !.finalErr = "canceled", !.lastRetryReason = r]
  <2>1. q' = ClientCanceledReturn(u) /\ clientGone' = clientGone
    BY <1>6 DEF BackoffCanceled
  <2>2. /\ q \in RequestState /\ AttemptChainOf(q) /\ FailoverChainOf(q)
    BY <1>1 DEF RequestInv
  <2>3. r \in Reasons /\ "canceled" \in AnyError
    BY DEF Reason, Reasons, ReasonKinds, AnyError, Errors,
           ClosedConnectionErrors
  <2> HIDE DEF r
  <2>4. u \in RequestState /\ Frame(q, u)
    BY <2>2, <2>3, Zenon DEF RequestState, Frame
  <2> HIDE DEF u
  <2>5. AttemptChainOf(u) /\ FailoverChainOf(u)
    BY <2>2, <2>4, FrameChain
  <2>6. /\ q' \in RequestState /\ Frame(u, q') /\ q'.pc = "done"
        /\ q'.final.code = "client_canceled"
    BY <2>1, <2>4, ClientCanceledFacts
  <2>7. RequestInv(q')
    BY <2>5, <2>6, EndsWell
  <2>8. QED
    BY <1>1, <2>1, <2>7 DEF IInv
<1>7. CASE ResponseTranslated
  <2>1. PICK out \in Translations : q' = Translated(q, clientGone, out)
    BY <1>7 DEF ResponseTranslated
  <2>2. q.pc = "translate" /\ clientGone' = clientGone
    BY <1>7 DEF ResponseTranslated
  <2>3. RequestInv(q')
    BY <1>1, <2>1, <2>2, TranslatedInv
  <2>4. QED
    BY <1>1, <2>2, <2>3 DEF IInv
<1>8. CASE ClientDisconnects
  BY <1>1, <1>8 DEF ClientDisconnects, IInv
<1>9. CASE UNCHANGED vars
  BY <1>1, <1>9 DEF vars, IInv
<1>10. QED
  BY <1>3, <1>4, <1>5, <1>6, <1>7, <1>8, <1>9 DEF Next, Handler, Returned

\* The invariant holds in every reachable state.
LEMMA Invariance == Spec => []IInv
<1>1. QED
  BY InitInv, StepInv, PTL DEF Spec

\* A new request satisfies the second invariant.
LEMMA InitAnswer == Init => AnswerInv(q)
<1> SUFFICES ASSUME Init PROVE AnswerInv(q)
  OBVIOUS
<1>1. PICK c \in CandidateLists : q = NewRequest(c)
  BY DEF Init
<1>2. /\ q.attempts = <<>> /\ q.totalRetries = 0 /\ q.finalErr = NoError
      /\ q.pc = "start" /\ q.final = NoTerminal /\ q.reply = NoReply
  BY <1>1, ZenonT(30) DEF NewRequest
<1>3. Unanswered(q) /\ ~q.reply.counted
  <2>1. NoTerminal.status = 0 /\ NoTerminal.code = "none"
    BY DEF NoTerminal
  <2>2. NoReply.from = "none" /\ ~NoReply.counted
    BY Zenon DEF NoReply
  <2>3. QED
    BY <1>2, <2>1, <2>2, Zenon DEF Unanswered
<1>4. Retried(q) = {}
  BY <1>2 DEF Retried
<1>5. q.totalRetries = Cardinality(Retried(q))
  <2>1. Cardinality({}) = 0
    BY FS_EmptySet
  <2>2. QED
    BY <1>2, <1>4, <2>1, Zenon
<1>6. q \in RequestState
  BY InitInv DEF IInv, RequestInv
<1>7. Trying(q)
  BY <1>2, <1>3, <1>5, <1>6 DEF Trying, NoError
<1>8. QED
  BY <1>2, <1>7, TryingSuffices

\* Every step preserves the second invariant, given the first.
LEMMA StepAnswer == IInv /\ AnswerInv(q) /\ [Next]_vars => AnswerInv(q)'
<1> SUFFICES ASSUME IInv, AnswerInv(q), [Next]_vars PROVE AnswerInv(q')
  OBVIOUS
<1>1. RequestInv(q) /\ clientGone \in BOOLEAN
  BY DEF IInv
<1>2. \A s, i : BuiltChoices(s, i) \subseteq BOOLEAN
  BY Zenon DEF BuiltChoices, CanBuild
<1>3. CASE ServeHTTP
  <2>1. PICK ctx \in {"ok", "no_gateway_context", "no_body_context"},
             built \in BuiltChoices(q, 1) : q' = Begin(q, ctx, built)
    BY <1>3 DEF ServeHTTP
  <2>2. q.pc = "start" /\ built \in BOOLEAN
    BY <1>2, <1>3 DEF ServeHTTP
  <2>3. QED
    BY <2>1, <2>2, BeginAnswer
<1>4. CASE DoReturns
  <2>1. PICK res \in Results, built \in BuiltChoices(q, q.index + 1) :
              q' = AttemptReturned(q, clientGone, res, built)
    BY <1>4 DEF DoReturns
  <2>2. q.pc = "do" /\ built \in BOOLEAN
    BY <1>2, <1>4 DEF DoReturns
  <2>3. QED
    BY <1>1, <2>1, <2>2, AttemptReturnedAnswer
<1>5. CASE BackoffElapsed
  BY <1>1, <1>5, NextAttemptAnswer DEF BackoffElapsed
<1>6. CASE BackoffCanceled
  <2> DEFINE r == Reason("client_canceled")
             u == [q EXCEPT !.finalErr = "canceled", !.lastRetryReason = r]
  <2>1. q' = ClientCanceledReturn(u) /\ q.pc = "backoff"
    BY <1>6 DEF BackoffCanceled
  <2>2. Trying(q) /\ q \in RequestState
    BY <2>1 DEF AnswerInv, Trying
  <2>3. r \in Reasons /\ "canceled" \in AnyError
    BY DEF Reason, Reasons, ReasonKinds, AnyError, Errors,
           ClosedConnectionErrors
  <2> HIDE DEF r
  <2>4. u \in RequestState
    BY <2>2, <2>3, Zenon DEF RequestState
  <2>5. u.reply = q.reply
    BY <2>2 DEF RequestState
  <2> HIDE DEF u
  <2>6. u.reply.from # "gateway" /\ CountersMatchTraceOf(u)
    BY <2>2, <2>5 DEF CountersMatchTraceOf, Trying, Unanswered
  <2>7. QED
    BY <2>1, <2>4, <2>6, CanceledAnswer
<1>7. CASE ResponseTranslated
  <2>1. PICK out \in Translations : q' = Translated(q, clientGone, out)
    BY <1>7 DEF ResponseTranslated
  <2>2. q.pc = "translate"
    BY <1>7 DEF ResponseTranslated
  <2>3. QED
    BY <1>1, <2>1, <2>2, TranslatedAnswer
<1>8. CASE ClientDisconnects
  BY <1>8 DEF ClientDisconnects
<1>9. CASE UNCHANGED vars
  BY <1>9 DEF vars
<1>10. QED
  BY <1>3, <1>4, <1>5, <1>6, <1>7, <1>8, <1>9 DEF Next, Handler, Returned

\* The second invariant holds in every reachable state.
LEMMA AnswerInvariance == Spec => []AnswerInv(q)
<1>1. QED
  BY InitAnswer, StepAnswer, Invariance, PTL DEF Spec

\* The state of a request stays well typed for every set of providers and
\* every retry configuration (RequestState).
THEOREM TypeCorrect == Spec => []TypeOK
<1>1. IInv => TypeOK
  BY DEF IInv, RequestInv, TypeOK
<1>2. QED
  BY <1>1, Invariance, PTL

\* The retry and failover loops never exceed an attempt budget, never skip
\* a candidate and never go back to an earlier one.
THEOREM AttemptChainHolds == Spec => []AttemptChain
<1>1. IInv => AttemptChain
  BY DEF IInv, RequestInv, AttemptChain
<1>2. QED
  BY <1>1, Invariance, PTL

\* The failover counter and the failover trace tell the moves the loop made.
THEOREM FailoverChainHolds == Spec => []FailoverChain
<1>1. IInv => FailoverChain
  BY DEF IInv, RequestInv, FailoverChain
<1>2. QED
  BY <1>1, Invariance, PTL

\* The gateway gives up only after every candidate has given way.
THEOREM GaveUpAfterAllHolds == Spec => []GaveUpAfterAll
<1>1. IInv => GaveUpAfterAll
  BY DEF IInv, RequestInv, GaveUpAfterAll
<1>2. QED
  BY <1>1, Invariance, PTL

\* A 504 always has a timed-out attempt behind it, and a 503 an attempt that
\* failed in another way, also when the timeout was an earlier candidate's
\* and finalErr still holds it.
THEOREM TimeoutAnswerHolds == Spec => []TimeoutAnswer
<1>1. AnswerInv(q) => TimeoutAnswer
  BY DEF AnswerInv, TimeoutAnswer
<1>2. QED
  BY <1>1, AnswerInvariance, PTL

\* The two counter headers tell the retries and failovers the trace shows,
\* on every path that sets them.
THEOREM CountersMatchTraceHolds == Spec => []CountersMatchTrace
<1>1. AnswerInv(q) => CountersMatchTrace
  BY DEF AnswerInv, CountersMatchTrace
<1>2. QED
  BY <1>1, AnswerInvariance, PTL

\* The access log never shows a status that the client was not sent, but for
\* the 499 of a client that was sent nothing.
THEOREM LoggedStatusIsSentHolds == Spec => []LoggedStatusIsSent
<1>1. AnswerInv(q) => LoggedStatusIsSent
  BY DEF AnswerInv, LoggedStatusIsSent
<1>2. QED
  BY <1>1, AnswerInvariance, PTL

=============================================================================
