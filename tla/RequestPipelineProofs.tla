------------------------ MODULE RequestPipelineProofs ------------------------
(***************************************************************************)
(* What the chain of handlers records is what it did, and only admitted    *)
(* requests reach the proxy: for any number of concurrent requests.        *)
(*                                                                         *)
(* Requests share nothing but the gauge, so the inductive invariant says   *)
(* of each request what its stage has established (Admission) and what has *)
(* been written and recorded by then (Books).                              *)
(***************************************************************************)
EXTENDS RequestPipeline, FiniteSetTheorems, TLAPS

Entered == {"idle", "auth", "rate_limit", "body", "allowlist", "route",
            "metrics", "proxy"}

InsideMetrics == {"proxy", "writing", "metrics_exit"}

\* FinalStatusCode of a proxy that returned without an answer.
Unanswered == {0, 499}

\* What the stages before r.pc have let through.
Admission(r) ==
    /\ r.pc \in {"rate_limit", "body", "allowlist", "route", "metrics"}
                    \cup InsideMetrics =>
           r.token \in {"open", "restricted"}
    /\ r.pc \in {"allowlist", "route"} =>
           r.body \notin {"too_large", "unreadable"}
    /\ r.pc = "route" =>
           (r.token = "restricted" =>
               isModelAllowed(r.body))
    /\ r.pc \in {"metrics"} \cup InsideMetrics =>
           /\ r.body \in {"listed", "unlisted"}
           /\ r.token = "restricted" => r.body = "listed"

\* What the two observers, the log and the counter hold of a request.
Books(r) ==
    /\ r.pc # "done" => r.logged = 0 /\ ~r.panicked /\ r.wire = r.recorder
    /\ r.pc \in Entered =>
           r.recorder = 0 /\ r.wrapped = 0 /\ r.counted = 0 /\ r.final = 0
    /\ r.pc \in {"writing", "metrics_exit"} =>
           r.wrapped = r.recorder /\ r.counted = 0
    /\ r.pc = "writing" => r.recorder # 0
    /\ r.pc \in {"metrics_exit", "access_log"} =>
           (r.recorder = 0 => r.final \in Unanswered)
    /\ r.pc = "access_log" => r.counted \in {0, First(r.recorder, 200)}

\* What the properties say of a request that is done.
Told(r) ==
    /\ r.logged # 0 =>
           \/ r.logged = r.wire
           \/ r.logged = 499 /\ r.final = 499 /\ r.recorder = 0
    /\ r.logged # 0 /\ r.counted # 0 =>
           /\ r.counted = r.wire
           /\ r.counted # r.logged => r.counted = 200 /\ r.logged = 499
    /\ r.panicked => r.logged = 0 /\ (r.wire = 500 \/ r.wire = r.recorder)

Good == {r \in RequestStates : Admission(r) /\ Books(r) /\ Told(r)}

IInv ==
    /\ draining \in BOOLEAN
    /\ req \in [Requests -> Good]
    /\ InFlightExact

-----------------------------------------------------------------------------
(* One request.                                                            *)

\* The fields that the handlers set keep their types.
LEMMA SetPc ==
    ASSUME NEW r \in RequestStates, NEW v \in Stages
    PROVE  [r EXCEPT !.pc = v] \in RequestStates
BY DEF RequestStates

LEMMA SetToken ==
    ASSUME NEW r \in RequestStates, NEW v \in Tokens
    PROVE  [r EXCEPT !.token = v] \in RequestStates
BY DEF RequestStates

LEMMA SetBody ==
    ASSUME NEW r \in RequestStates, NEW v \in Bodies
    PROVE  [r EXCEPT !.body = v] \in RequestStates
BY DEF RequestStates

LEMMA SetRefused ==
    ASSUME NEW r \in RequestStates, NEW v \in BOOLEAN
    PROVE  [r EXCEPT !.refused = v] \in RequestStates
BY DEF RequestStates

LEMMA SetWire ==
    ASSUME NEW r \in RequestStates, NEW v \in WireStatuses
    PROVE  [r EXCEPT !.wire = v] \in RequestStates
BY DEF RequestStates

LEMMA SetRecorder ==
    ASSUME NEW r \in RequestStates, NEW v \in Statuses
    PROVE  [r EXCEPT !.recorder = v] \in RequestStates
BY DEF RequestStates

LEMMA SetWrapped ==
    ASSUME NEW r \in RequestStates, NEW v \in Statuses
    PROVE  [r EXCEPT !.wrapped = v] \in RequestStates
BY DEF RequestStates

LEMMA SetFinal ==
    ASSUME NEW r \in RequestStates, NEW v \in FinalStatuses
    PROVE  [r EXCEPT !.final = v] \in RequestStates
BY DEF RequestStates

LEMMA SetCounted ==
    ASSUME NEW r \in RequestStates, NEW v \in Statuses
    PROVE  [r EXCEPT !.counted = v] \in RequestStates
BY DEF RequestStates

LEMMA SetLogged ==
    ASSUME NEW r \in RequestStates, NEW v \in Statuses
    PROVE  [r EXCEPT !.logged = v] \in RequestStates
BY DEF RequestStates

LEMMA SetPanicked ==
    ASSUME NEW r \in RequestStates, NEW v \in BOOLEAN
    PROVE  [r EXCEPT !.panicked = v] \in RequestStates
BY DEF RequestStates

\* A stage answers: nothing had been written before.
LEMMA RefusalGood ==
    ASSUME NEW r \in Good, r.pc \in Entered, NEW s \in WireStatuses, s # 0
    PROVE  [WriteError(r, s) EXCEPT !.pc = "access_log"] \in Good
<1> DEFINE d == [WriteError(r, s) EXCEPT !.pc = "access_log"]
<1>1. /\ r \in RequestStates
      /\ r.wire = 0 /\ r.recorder = 0 /\ r.logged = 0 /\ ~r.panicked
      /\ r.counted = 0
  BY DEF Good, Books, Entered
<1>2. observed(r.recorder, s) = s /\ First(r.wire, s) = s
  BY <1>1 DEF observed, First
<1>3. d = [r EXCEPT !.recorder = s, !.wire = s, !.pc = "access_log"]
  BY <1>2 DEF WriteError
<1> HIDE DEF d
<1>4. d \in RequestStates
  <2>1. s \in Statuses
    BY DEF WireStatuses
  <2>2. [r EXCEPT !.recorder = s, !.wire = s] \in RequestStates
    BY <1>1, <2>1, SetRecorder, SetWire, Zenon
  <2> QED
    BY <1>3, <2>2, SetPc, Zenon DEF Stages
<1>5. d.pc = "access_log" /\ d.wire = s /\ d.recorder = s
  BY <1>1, <1>3 DEF RequestStates
<1>6. d.logged = r.logged /\ d.counted = r.counted /\ d.panicked = r.panicked
  BY <1>1, <1>3 DEF RequestStates
<1>7. Admission(d) /\ Books(d) /\ Told(d)
  BY <1>1, <1>5, <1>6 DEF Admission, Books, Told, Entered, InsideMetrics
<1> QED
  BY <1>4, <1>7 DEF Good, d

\* A stage, or Metrics going in, passes a request on.
LEMMA PassGood ==
    ASSUME NEW r \in Good, r.pc \in Entered, NEW next \in Entered,
           Admission([r EXCEPT !.pc = next])
    PROVE  [r EXCEPT !.pc = next] \in Good
<1>1. PICK d : d = [r EXCEPT !.pc = next]
  BY Zenon
<1>2. r \in RequestStates /\ Books(r) /\ r.pc # "done" /\ next # "done"
  BY DEF Good, Entered
<1>3. next \in Stages
  BY DEF Entered, Stages
<1>4. d \in RequestStates
  BY <1>1, <1>2, <1>3, SetPc
<1>5. /\ d.pc = next /\ d.wire = r.wire /\ d.recorder = r.recorder
      /\ d.wrapped = r.wrapped /\ d.final = r.final
      /\ d.counted = r.counted /\ d.logged = r.logged
      /\ d.panicked = r.panicked
  BY <1>1, <1>2 DEF RequestStates
<1>6. Books(d) /\ Told(d)
  <2>1. /\ r.logged = 0 /\ ~r.panicked /\ r.wire = r.recorder
        /\ r.recorder = 0 /\ r.wrapped = 0 /\ r.counted = 0 /\ r.final = 0
    BY <1>2 DEF Books
  <2> QED
    BY <1>5, <2>1 DEF Books, Told, Entered
<1> QED
  BY <1>1, <1>4, <1>6 DEF Good

LEMMA FreshGood == Fresh \in Good
<1>1. Fresh \in RequestStates
  <2>1. 0 \in Statuses /\ 0 \in WireStatuses /\ 0 \in FinalStatuses
    BY DEF Statuses, WireStatuses, FinalStatuses
  <2> QED
    BY <2>1 DEF Fresh, RequestStates, Stages, Tokens, Bodies
<1>2. Admission(Fresh)
  BY DEF Fresh, Admission, InsideMetrics
<1>3. Books(Fresh)
  BY DEF Fresh, Books, Entered
<1>4. Told(Fresh)
  BY DEF Fresh, Told
<1> QED
  BY <1>1, <1>2, <1>3, <1>4 DEF Good

\* A request that arrives, turned away or not.
LEMMA ArrivalGood ==
    ASSUME NEW token \in Tokens, NEW body \in Bodies, NEW r,
           r = [Fresh EXCEPT !.token = token, !.body = body]
    PROVE  /\ [r EXCEPT !.pc = "auth"] \in Good
           /\ \A s \in WireStatuses :
                 [r EXCEPT !.pc = "done", !.wire = s, !.refused = TRUE] \in Good
<1>1. Fresh \in RequestStates
  BY FreshGood DEF Good
<1>2. r \in RequestStates
  BY <1>1, SetToken, SetBody, Zenon
<1>3. /\ r.wire = 0 /\ r.recorder = 0 /\ r.wrapped = 0 /\ r.final = 0
      /\ r.logged = 0 /\ r.counted = 0 /\ r.panicked = FALSE
  BY DEF Fresh
<1>4. PICK d : d = [r EXCEPT !.pc = "auth"]
  BY Zenon
<1>5. d \in RequestStates
  BY <1>2, <1>4, SetPc, Zenon DEF Stages
<1>6. /\ d.pc = "auth" /\ d.wire = r.wire /\ d.recorder = r.recorder
      /\ d.wrapped = r.wrapped /\ d.final = r.final
      /\ d.counted = r.counted /\ d.logged = r.logged
      /\ d.panicked = r.panicked
  BY <1>2, <1>4 DEF RequestStates
<1>7. Admission(d) /\ Books(d) /\ Told(d)
  BY <1>3, <1>6 DEF Admission, Books, Told, Entered, InsideMetrics
<1>8. ASSUME NEW s \in WireStatuses
      PROVE  [r EXCEPT !.pc = "done", !.wire = s, !.refused = TRUE] \in Good
  <2>1. PICK e : e = [r EXCEPT !.pc = "done", !.wire = s, !.refused = TRUE]
    BY Zenon
  <2>2. [r EXCEPT !.pc = "done", !.wire = s] \in RequestStates
    BY <1>2, SetPc, SetWire, Zenon DEF Stages
  <2>3. e \in RequestStates
    BY <2>1, <2>2, SetRefused, Zenon
  <2>4. e.pc = "done" /\ e.logged = r.logged /\ e.panicked = r.panicked
    BY <1>2, <2>1 DEF RequestStates
  <2>5. Admission(e) /\ Books(e) /\ Told(e)
    BY <1>3, <2>4 DEF Admission, Books, Told, Entered, InsideMetrics
  <2> QED
    BY <2>1, <2>3, <2>5 DEF Good
<1> QED
  BY <1>4, <1>5, <1>7, <1>8, Zenon DEF Good

\* The proxy begins a response, which both observers see.
LEMMA ResponseGood ==
    ASSUME NEW r \in Good, r.pc = "proxy", NEW s \in WireStatuses, s # 0,
           NEW final \in FinalStatuses
    PROVE  [WriteThrough(r, s) EXCEPT !.pc = "writing", !.final = final]
               \in Good
<1> DEFINE d == [WriteThrough(r, s) EXCEPT !.pc = "writing", !.final = final]
<1>1. /\ r \in RequestStates
      /\ r.wire = 0 /\ r.recorder = 0 /\ r.logged = 0 /\ ~r.panicked
      /\ r.counted = 0 /\ r.wrapped = 0
  BY DEF Good, Books, Entered
<1>2. /\ observed(r.recorder, s) = s /\ observed(r.wrapped, s) = s
      /\ First(r.wire, s) = s
  BY <1>1 DEF observed, First
<1>3. d = [r EXCEPT !.wrapped = s, !.recorder = s, !.wire = s,
                    !.pc = "writing", !.final = final]
  BY <1>2 DEF WriteThrough
<1> HIDE DEF d
<1>4. s \in Statuses
  BY DEF WireStatuses
<1>5. d \in RequestStates
  <2>1. [r EXCEPT !.wrapped = s, !.recorder = s, !.wire = s] \in RequestStates
    BY <1>1, <1>4, SetWrapped, SetRecorder, SetWire, Zenon
  <2> QED
    BY <1>3, <2>1, SetPc, SetFinal, Zenon DEF Stages
<1>6. /\ d.pc = "writing" /\ d.wire = s /\ d.recorder = s /\ d.wrapped = s
  BY <1>1, <1>3 DEF RequestStates
<1>7. /\ d.logged = r.logged /\ d.counted = r.counted
      /\ d.panicked = r.panicked /\ d.token = r.token /\ d.body = r.body
  BY <1>1, <1>3 DEF RequestStates
<1>8. Admission(d)
  BY <1>6, <1>7 DEF Good, Admission, InsideMetrics
<1>9. Books(d) /\ Told(d)
  BY <1>1, <1>6, <1>7 DEF Books, Told, Entered
<1> QED
  BY <1>5, <1>8, <1>9 DEF Good, d

\* The proxy returns, having answered or not.
LEMMA ReturnGood ==
    ASSUME NEW r \in Good, r.pc \in {"proxy", "writing"},
           NEW final \in FinalStatuses,
           r.pc = "proxy" => final \in Unanswered
    PROVE  [r EXCEPT !.pc = "metrics_exit", !.final = final] \in Good
<1>1. PICK d : d = [r EXCEPT !.pc = "metrics_exit", !.final = final]
  BY Zenon
<1>2. r \in RequestStates /\ Books(r) /\ Admission(r)
  BY DEF Good
<1>3. d \in RequestStates
  <2>1. [r EXCEPT !.pc = "metrics_exit"] \in RequestStates
    BY <1>2, SetPc, Zenon DEF Stages
  <2> QED
    BY <1>1, <2>1, SetFinal, Zenon
<1>4. /\ d.pc = "metrics_exit" /\ d.wire = r.wire /\ d.recorder = r.recorder
      /\ d.wrapped = r.wrapped /\ d.final = final
  BY <1>1, <1>2 DEF RequestStates
<1>5. /\ d.counted = r.counted /\ d.logged = r.logged
      /\ d.panicked = r.panicked /\ d.token = r.token /\ d.body = r.body
  BY <1>1, <1>2 DEF RequestStates
<1>6. Admission(d)
  BY <1>2, <1>4, <1>5 DEF Admission, InsideMetrics
<1>7. /\ r.logged = 0 /\ ~r.panicked /\ r.wire = r.recorder
      /\ r.wrapped = r.recorder /\ r.counted = 0
      /\ r.pc = "writing" => r.recorder # 0
  BY <1>2 DEF Books, Entered
<1>8. Books(d) /\ Told(d)
  BY <1>4, <1>5, <1>7 DEF Books, Told, Entered
<1> QED
  BY <1>1, <1>3, <1>6, <1>8 DEF Good

\* Metrics counts what its observer saw, which is what AccessLog's saw.
LEMMA CountGood ==
    ASSUME NEW r \in Good, r.pc = "metrics_exit"
    PROVE  [r EXCEPT !.pc = "access_log",
                     !.counted = First(r.wrapped, 200)] \in Good
<1>1. PICK s : s = First(r.wrapped, 200)
  BY Zenon
<1>2. PICK d : d = [r EXCEPT !.pc = "access_log", !.counted = s]
  BY Zenon
<1>3. r \in RequestStates /\ Books(r) /\ r.wrapped \in Statuses
  BY DEF Good, RequestStates
<1>4. s \in Statuses
  BY <1>1, <1>3 DEF First, Statuses
<1>5. d \in RequestStates
  BY <1>2, <1>3, <1>4, SetPc, SetCounted, Zenon DEF Stages
<1>6. /\ d.pc = "access_log" /\ d.wire = r.wire /\ d.recorder = r.recorder
      /\ d.final = r.final /\ d.counted = s
  BY <1>2, <1>3 DEF RequestStates
<1>7. d.logged = r.logged /\ d.panicked = r.panicked
  BY <1>2, <1>3 DEF RequestStates
<1>8. /\ r.logged = 0 /\ ~r.panicked /\ r.wire = r.recorder
      /\ r.wrapped = r.recorder
      /\ r.recorder = 0 => r.final \in Unanswered
  BY <1>3 DEF Books
<1>9. s = First(r.recorder, 200)
  BY <1>1, <1>8
<1>10. Admission(d) /\ Books(d) /\ Told(d)
  BY <1>6, <1>7, <1>8, <1>9 DEF Admission, Books, Told, Entered, InsideMetrics
<1> QED
  BY <1>1, <1>2, <1>5, <1>10 DEF Good

\* AccessLog logs what its observer saw, or what the gateway context says.
LEMMA LogGood ==
    ASSUME NEW r \in Good, r.pc = "access_log"
    PROVE  [r EXCEPT !.pc = "done", !.logged = logStatus(r),
                     !.wire = First(r.wire, 200)] \in Good
<1>1. PICK s : s = logStatus(r)
  BY Zenon
<1>2. PICK w : w = First(r.wire, 200)
  BY Zenon
<1>3. PICK d : d = [r EXCEPT !.pc = "done", !.logged = s, !.wire = w]
  BY Zenon
<1>4. /\ r \in RequestStates /\ Books(r)
      /\ r.recorder \in Statuses /\ r.wire \in WireStatuses
      /\ r.final \in FinalStatuses /\ r.counted \in Statuses
  BY DEF Good, RequestStates
<1>5. s \in Statuses
  BY <1>1, <1>4 DEF logStatus, First, Statuses, FinalStatuses
<1>6. w \in WireStatuses
  BY <1>2, <1>4 DEF First, WireStatuses, Statuses
<1>7. d \in RequestStates
  <2>1. [r EXCEPT !.pc = "done", !.logged = s] \in RequestStates
    BY <1>4, <1>5, SetPc, SetLogged, Zenon DEF Stages
  <2> QED
    BY <1>3, <1>6, <2>1, SetWire, Zenon
<1>8. /\ d.pc = "done" /\ d.wire = w /\ d.recorder = r.recorder
      /\ d.final = r.final /\ d.counted = r.counted /\ d.logged = s
  BY <1>3, <1>4 DEF RequestStates
<1>9. d.panicked = r.panicked
  BY <1>3, <1>4 DEF RequestStates
<1>10. /\ ~r.panicked /\ r.wire = r.recorder
       /\ r.counted \in {0, First(r.recorder, 200)}
       /\ r.recorder = 0 => r.final \in Unanswered
  BY <1>4 DEF Books
<1>11. /\ w = First(r.recorder, 200)
       /\ \/ s = w
          \/ s = 499 /\ w = 200 /\ r.final = 499 /\ r.recorder = 0
  BY <1>1, <1>2, <1>4, <1>10 DEF logStatus, First, FinalStatuses, Unanswered
<1>12. Told(d)
  BY <1>8, <1>9, <1>10, <1>11 DEF Told
<1>13. Admission(d) /\ Books(d)
  BY <1>8 DEF Admission, Books, Entered, InsideMetrics
<1> QED
  BY <1>1, <1>2, <1>3, <1>7, <1>12, <1>13 DEF Good

\* Recovery answers a panic.
LEMMA PanicGood ==
    ASSUME NEW r \in Good, r.pc # "done"
    PROVE  [r EXCEPT !.pc = "done", !.panicked = TRUE,
                     !.wire = First(r.wire, 500)] \in Good
<1>1. PICK w : w = First(r.wire, 500)
  BY Zenon
<1>2. PICK d : d = [r EXCEPT !.pc = "done", !.panicked = TRUE, !.wire = w]
  BY Zenon
<1>3. r \in RequestStates /\ Books(r) /\ r.wire \in WireStatuses
  BY DEF Good, RequestStates
<1>4. w \in WireStatuses
  BY <1>1, <1>3 DEF First, WireStatuses, Statuses
<1>5. d \in RequestStates
  <2>1. [r EXCEPT !.pc = "done", !.panicked = TRUE] \in RequestStates
    BY <1>3, SetPc, SetPanicked, Zenon DEF Stages
  <2> QED
    BY <1>2, <1>4, <2>1, SetWire, Zenon
<1>6. /\ d.pc = "done" /\ d.wire = w /\ d.recorder = r.recorder
      /\ d.logged = r.logged
  BY <1>2, <1>3 DEF RequestStates
<1>7. r.logged = 0 /\ r.wire = r.recorder
  BY <1>3 DEF Books
<1>8. w = 500 \/ w = r.recorder
  BY <1>1, <1>7 DEF First
<1>9. Admission(d) /\ Books(d) /\ Told(d)
  BY <1>6, <1>7, <1>8 DEF Admission, Books, Told, Entered, InsideMetrics
<1> QED
  BY <1>1, <1>2, <1>5, <1>9 DEF Good

-----------------------------------------------------------------------------
(* Steps.                                                                  *)

\* The gauge as it must be after a request moved from stage a to stage b.
Moved(a, b) ==
    CASE a \notin InsideMetrics /\ b \in InsideMetrics -> inFlight + 1
      [] a \in InsideMetrics /\ b \notin InsideMetrics -> inFlight - 1
      [] OTHER -> inFlight

LEMMA OneMoves ==
    ASSUME IInv, NEW i \in Requests, NEW d \in Good,
           req' = [req EXCEPT ![i] = d],
           inFlight' = Moved(req[i].pc, d.pc), UNCHANGED draining
    PROVE  IInv'
<1> DEFINE in == {j \in Requests : req[j].pc \in InsideMetrics}
           out == {j \in Requests : req'[j].pc \in InsideMetrics}
<1>1. draining' \in BOOLEAN /\ req' \in [Requests -> Good]
  BY DEF IInv
<1>2. IsFiniteSet(in)
  BY RequestsAssumption, FS_Subset
<1>3. inFlight = Cardinality(in) /\ Cardinality(in) \in Nat
  BY <1>2, FS_CardinalityType DEF IInv, InFlightExact, InsideMetrics
<1>4. req'[i] = d /\ \A j \in Requests : j # i => req'[j] = req[j]
  BY DEF IInv
<1>5. inFlight' = Cardinality(out)
  <2>1. CASE req[i].pc \notin InsideMetrics /\ d.pc \in InsideMetrics
    <3>1. out = in \cup {i} /\ i \notin in
      BY <1>4, <2>1
    <3>2. Cardinality(out) = Cardinality(in) + 1
      BY <1>2, <3>1, FS_AddElement, Zenon
    <3> QED
      BY <1>3, <2>1, <3>2 DEF Moved
  <2>2. CASE req[i].pc \in InsideMetrics /\ d.pc \notin InsideMetrics
    <3>1. out = in \ {i} /\ i \in in
      BY <1>4, <2>2
    <3>2. Cardinality(out) = Cardinality(in) - 1
      <4> HIDE DEF in, out
      <4> QED
        BY <1>2, <3>1, FS_RemoveElement, Zenon
    <3> QED
      BY <1>3, <2>2, <3>2 DEF Moved
  <2>3. CASE (req[i].pc \in InsideMetrics) = (d.pc \in InsideMetrics)
    <3>1. out = in
      BY <1>4, <2>3
    <3> QED
      BY <1>3, <2>3, <3>1, Zenon DEF Moved
  <2> QED
    BY <2>1, <2>2, <2>3
<1> QED
  BY <1>1, <1>5 DEF IInv, InFlightExact, InsideMetrics

\* A stage in front of Metrics.
LEMMA StageMoves ==
    ASSUME IInv, NEW i \in Requests, NEW at \in Entered, NEW next \in Entered,
           at # "proxy", next # "proxy",
           NEW status \in WireStatuses, Stage(i, at, next, status),
           status = 0 => Admission([req[i] EXCEPT !.pc = next])
    PROVE  IInv'
<1>1. req[i] \in Good /\ req[i].pc = at
  BY DEF IInv, Stage
<1>2. PICK d : d = IF status = 0 THEN [req[i] EXCEPT !.pc = next]
                   ELSE [WriteError(req[i], status) EXCEPT !.pc = "access_log"]
  BY Zenon
<1>3. req' = [req EXCEPT ![i] = d] /\ UNCHANGED <<draining, inFlight>>
  BY <1>2 DEF Stage
<1>4. d \in Good
  <2>1. CASE status = 0
    BY <1>1, <1>2, <2>1, PassGood
  <2>2. CASE status # 0
    BY <1>1, <1>2, <2>2, RefusalGood
  <2> QED
    BY <2>1, <2>2
<1>5. d.pc \in {next, "access_log"}
  <2>1. req[i] \in RequestStates
    BY <1>1 DEF Good
  <2> QED
    BY <1>2, <2>1 DEF RequestStates, WriteError
<1>6. Moved(at, d.pc) = inFlight
  BY <1>5 DEF Moved, Entered, InsideMetrics
<1> QED
  BY <1>1, <1>3, <1>4, <1>6, OneMoves, Zenon

\* What the guards of the stages establish for those behind them.
LEMMA StagesStep ==
    ASSUME IInv, NEW i \in Requests,
           \/ AuthMiddleware(i) \/ RateLimitMiddleware(i)
           \/ BodyContextMiddleware(i) \/ ModelAllowlistMiddleware(i)
           \/ ModelRouterMiddleware(i)
    PROVE  IInv'
<1>1. PICK r : r = req[i]
  BY Zenon
<1>2. r \in RequestStates /\ Admission(r)
  BY <1>1 DEF IInv, Good
<1>3. ASSUME NEW next
      PROVE  /\ [r EXCEPT !.pc = next].pc = next
             /\ [r EXCEPT !.pc = next].token = r.token
             /\ [r EXCEPT !.pc = next].body = r.body
  BY <1>2 DEF RequestStates
<1>4. {0, 400, 401, 403, 404, 413, 429} \subseteq WireStatuses
  BY DEF WireStatuses, Statuses
<1>5. CASE AuthMiddleware(i)
  <2>1. PICK s : s = IF r.token \in {"unusable", "unknown"} THEN 401 ELSE 0
    BY ZenonT(30)
  <2>2. Stage(i, "auth", "rate_limit", s)
    BY <1>1, <1>5, <2>1 DEF AuthMiddleware
  <2>3. s \in WireStatuses
    BY <1>4, <2>1
  <2>4. s = 0 => r.token \in {"open", "restricted"}
    BY <1>2, <2>1 DEF RequestStates, Tokens
  <2>5. s = 0 => Admission([r EXCEPT !.pc = "rate_limit"])
    BY <1>3, <2>4 DEF Admission, InsideMetrics
  <2> QED
    BY <1>1, <2>2, <2>3, <2>5, StageMoves, Zenon DEF Entered
<1>6. CASE RateLimitMiddleware(i)
  <2>1. PICK allowed \in BOOLEAN :
            Stage(i, "rate_limit", "body", IF allowed THEN 0 ELSE 429)
    BY <1>6 DEF RateLimitMiddleware
  <2>2. PICK s : s = IF allowed THEN 0 ELSE 429
    BY Zenon
  <2>3. Stage(i, "rate_limit", "body", s) /\ r.pc = "rate_limit"
    BY <1>1, <2>1, <2>2 DEF Stage
  <2>4. s \in WireStatuses
    BY <1>4, <2>2
  <2>5. Admission([r EXCEPT !.pc = "body"])
    BY <1>2, <1>3, <2>3 DEF Admission, InsideMetrics
  <2> QED
    BY <1>1, <2>3, <2>4, <2>5, StageMoves, Zenon DEF Entered
<1>7. CASE BodyContextMiddleware(i)
  <2>1. PICK s : s = CASE r.body = "too_large"  -> 413
                       [] r.body = "unreadable" -> 400
                       [] OTHER                 -> 0
    OBVIOUS
  <2>2. Stage(i, "body", "allowlist", s) /\ r.pc = "body"
    BY <1>1, <1>7, <2>1 DEF BodyContextMiddleware, Stage
  <2>3. s \in WireStatuses
    BY <1>4, <2>1
  <2>4. s = 0 => r.body \notin {"too_large", "unreadable"}
    BY <2>1
  <2>5. s = 0 => Admission([r EXCEPT !.pc = "allowlist"])
    BY <1>2, <1>3, <2>2, <2>4 DEF Admission, InsideMetrics
  <2> QED
    BY <1>1, <2>2, <2>3, <2>5, StageMoves, Zenon DEF Entered
<1>8. CASE ModelAllowlistMiddleware(i)
  <2>1. PICK s : s = IF r.token = "restricted" /\ ~isModelAllowed(r.body)
                     THEN 403 ELSE 0
    BY ZenonT(30)
  <2>2. Stage(i, "allowlist", "route", s) /\ r.pc = "allowlist"
    BY <1>1, <1>8, <2>1 DEF ModelAllowlistMiddleware, Stage
  <2>3. s \in WireStatuses
    BY <1>4, <2>1
  <2>4. s = 0 => (r.token = "restricted" => isModelAllowed(r.body))
    BY <2>1
  <2>5. s = 0 => Admission([r EXCEPT !.pc = "route"])
    BY <1>2, <1>3, <2>2, <2>4 DEF Admission, InsideMetrics
  <2> QED
    BY <1>1, <2>2, <2>3, <2>5, StageMoves, Zenon DEF Entered
<1>9. CASE ModelRouterMiddleware(i)
  <2>1. PICK s : s = CASE r.body \in {"undecodable", "no_model"}              -> 400
                       [] r.body \in {"listed_unrouted", "unlisted_unrouted"} -> 404
                       [] OTHER                                               -> 0
    OBVIOUS
  <2>2. Stage(i, "route", "metrics", s) /\ r.pc = "route"
    BY <1>1, <1>9, <2>1 DEF ModelRouterMiddleware, Stage
  <2>3. s \in WireStatuses
    BY <1>4, <2>1
  <2>4. s = 0 => r.body \notin {"undecodable", "no_model", "listed_unrouted",
                                "unlisted_unrouted"}
    BY <2>1
  <2>5. r.body \in Bodies
    BY <1>2 DEF RequestStates
  <2>6. s = 0 => Admission([r EXCEPT !.pc = "metrics"])
    BY <1>2, <1>3, <2>2, <2>4, <2>5 DEF Admission, InsideMetrics, Bodies, isModelAllowed
  <2> QED
    BY <1>1, <2>2, <2>3, <2>6, StageMoves, Zenon DEF Entered
<1> QED
  BY <1>5, <1>6, <1>7, <1>8, <1>9

LEMMA MetricsStep ==
    ASSUME IInv, NEW i \in Requests, MetricsEnter(i) \/ MetricsExit(i)
    PROVE  IInv'
<1>1. req[i] \in Good /\ req[i] \in RequestStates /\ Admission(req[i])
  BY DEF IInv, Good
<1>2. CASE MetricsEnter(i)
  <2>1. PICK d : d = [req[i] EXCEPT !.pc = "proxy"]
    BY Zenon
  <2>2. req' = [req EXCEPT ![i] = d] /\ req[i].pc = "metrics"
    BY <1>2, <2>1 DEF MetricsEnter, IInv
  <2>3. d.pc = "proxy" /\ d.token = req[i].token /\ d.body = req[i].body
    BY <1>1, <2>1 DEF RequestStates
  <2>4. Admission(d)
    BY <1>1, <2>2, <2>3 DEF Admission, InsideMetrics
  <2>5. d \in Good
    BY <1>1, <2>1, <2>2, <2>4, PassGood, Zenon DEF Entered
  <2>6. inFlight' = Moved(req[i].pc, d.pc)
    BY <1>2, <2>2, <2>3 DEF MetricsEnter, Moved, InsideMetrics
  <2> QED
    BY <1>2, <2>2, <2>5, <2>6, OneMoves, Zenon DEF MetricsEnter
<1>3. CASE MetricsExit(i)
  <2>1. PICK d : d = [req[i] EXCEPT !.pc = "access_log",
                                    !.counted = First(req[i].wrapped, 200)]
    BY Zenon
  <2>2. req' = [req EXCEPT ![i] = d] /\ req[i].pc = "metrics_exit"
    BY <1>3, <2>1 DEF MetricsExit
  <2>3. d.pc = "access_log"
    BY <1>1, <2>1 DEF RequestStates
  <2>4. d \in Good
    BY <1>1, <2>1, <2>2, CountGood, Zenon
  <2>5. inFlight' = Moved(req[i].pc, d.pc)
    BY <1>3, <2>2, <2>3 DEF MetricsExit, Moved, InsideMetrics
  <2>6. UNCHANGED draining
    BY <1>3 DEF MetricsExit
  <2> QED
    BY <2>2, <2>4, <2>5, <2>6, OneMoves, Zenon
<1> QED
  BY <1>2, <1>3

LEMMA ProxyStep ==
    ASSUME IInv, NEW i \in Requests,
           ProxyResponds(i) \/ ProxyFinishes(i) \/ ProxySilent(i)
    PROVE  IInv'
<1>1. req[i] \in Good /\ req[i] \in RequestStates
  BY DEF IInv, Good
<1>2. ASSUME NEW s \in WireStatuses, s # 0, NEW final \in FinalStatuses,
             req[i].pc = "proxy",
             req' = [req EXCEPT ![i] =
                [WriteThrough(req[i], s) EXCEPT !.pc = "writing",
                                                !.final = final]],
             UNCHANGED <<draining, inFlight>>
      PROVE  IInv'
  <2>1. PICK d : d = [WriteThrough(req[i], s) EXCEPT !.pc = "writing",
                                                     !.final = final]
    BY Zenon
  <2>2. d \in Good
    BY <1>1, <1>2, <2>1, ResponseGood, Zenon
  <2>3. d.pc = "writing"
    BY <1>1, <2>1 DEF RequestStates, WriteThrough
  <2>4. inFlight' = Moved(req[i].pc, d.pc)
    BY <1>2, <2>3 DEF Moved, InsideMetrics
  <2> QED
    BY <1>2, <2>1, <2>2, <2>4, OneMoves, Zenon
<1>3. ASSUME NEW final \in FinalStatuses, req[i].pc \in {"proxy", "writing"},
             req[i].pc = "proxy" => final \in Unanswered,
             req' = [req EXCEPT ![i] =
                [req[i] EXCEPT !.pc = "metrics_exit", !.final = final]],
             UNCHANGED <<draining, inFlight>>
      PROVE  IInv'
  <2>1. PICK d : d = [req[i] EXCEPT !.pc = "metrics_exit", !.final = final]
    BY Zenon
  <2>2. d \in Good
    BY <1>1, <1>3, <2>1, ReturnGood, Zenon
  <2>3. d.pc = "metrics_exit"
    BY <1>1, <2>1 DEF RequestStates
  <2>4. inFlight' = Moved(req[i].pc, d.pc)
    BY <1>3, <2>3 DEF Moved, InsideMetrics
  <2> QED
    BY <1>3, <2>1, <2>2, <2>4, OneMoves, Zenon
<1>4. CASE ProxyResponds(i)
  <2>1. PICK s \in ProxyStatuses : \E final \in Terminal(s) :
           req' = [req EXCEPT ![i] =
              [WriteThrough(req[i], s) EXCEPT !.pc = "writing", !.final = final]]
    BY <1>4, Zenon DEF ProxyResponds
  <2>2. PICK final \in Terminal(s) :
           req' = [req EXCEPT ![i] =
              [WriteThrough(req[i], s) EXCEPT !.pc = "writing", !.final = final]]
    BY <2>1, Zenon
  <2>3. s \in WireStatuses /\ s # 0 /\ final \in FinalStatuses
    BY DEF ProxyStatuses, Terminal, WireStatuses, Statuses, FinalStatuses
  <2>4. req[i].pc = "proxy" /\ UNCHANGED <<draining, inFlight>>
    BY <1>4, Zenon DEF ProxyResponds
  <2> QED
    BY <1>2, <2>2, <2>3, <2>4, Zenon
<1>5. Unanswered \subseteq FinalStatuses /\ req[i].final \in FinalStatuses
  BY <1>1 DEF RequestStates, FinalStatuses, Unanswered
<1>6. CASE ProxyFinishes(i)
  <2>1. PICK final \in IF req[i].final = 0 THEN {0, 499} ELSE {req[i].final} :
            req' = [req EXCEPT ![i] =
               [req[i] EXCEPT !.pc = "metrics_exit", !.final = final]]
    BY <1>6, Zenon DEF ProxyFinishes
  <2>2. final \in FinalStatuses
    BY <1>5 DEF Unanswered
  <2> QED
    BY <1>3, <1>6, <2>1, <2>2, Zenon DEF ProxyFinishes
<1>7. CASE ProxySilent(i)
  <2>1. PICK final \in {0, 499} :
            req' = [req EXCEPT ![i] =
               [req[i] EXCEPT !.pc = "metrics_exit", !.final = final]]
    BY <1>7, Zenon DEF ProxySilent
  <2>2. final \in FinalStatuses
    BY <1>5 DEF Unanswered
  <2> QED
    BY <1>3, <1>7, <2>1, <2>2, ZenonT(30) DEF ProxySilent, Unanswered
<1> QED
  BY <1>4, <1>6, <1>7

LEMMA EndStep ==
    ASSUME IInv, NEW i \in Requests, AccessLogExit(i) \/ Panic(i) \/ Leave(i)
    PROVE  IInv'
<1>1. req[i] \in Good /\ req[i] \in RequestStates
  BY DEF IInv, Good
<1>2. CASE AccessLogExit(i)
  <2>1. PICK d : d = [req[i] EXCEPT !.pc = "done", !.logged = logStatus(req[i]),
                                    !.wire = First(req[i].wire, 200)]
    BY Zenon
  <2>2. req' = [req EXCEPT ![i] = d] /\ req[i].pc = "access_log"
    BY <1>2, <2>1 DEF AccessLogExit
  <2>3. d \in Good
    BY <1>1, <2>1, <2>2, LogGood, Zenon
  <2>4. d.pc = "done"
    BY <1>1, <2>1 DEF RequestStates
  <2>5. inFlight' = Moved(req[i].pc, d.pc)
    BY <1>2, <2>2, <2>4 DEF AccessLogExit, Moved, InsideMetrics
  <2>6. UNCHANGED draining
    BY <1>2 DEF AccessLogExit
  <2> QED
    BY <2>2, <2>3, <2>5, <2>6, OneMoves, Zenon
<1>3. CASE Panic(i)
  <2>1. PICK d : d = [req[i] EXCEPT !.pc = "done", !.panicked = TRUE,
                                    !.wire = First(req[i].wire, 500)]
    BY Zenon
  <2>2. req' = [req EXCEPT ![i] = d] /\ req[i].pc # "done"
    BY <1>3, <2>1 DEF Panic
  <2>3. d \in Good
    BY <1>1, <2>1, <2>2, PanicGood, ZenonT(30)
  <2>4. d.pc = "done"
    BY <1>1, <2>1 DEF RequestStates
  <2>5. inFlight' = Moved(req[i].pc, d.pc)
    BY <1>3, <2>4 DEF Panic, gaugeAfterPanic, Moved, InsideMetrics
  <2>6. UNCHANGED draining
    BY <1>3 DEF Panic
  <2> QED
    BY <2>2, <2>3, <2>5, <2>6, OneMoves, Zenon
<1>4. CASE Leave(i)
  <2>1. inFlight' = Moved(req[i].pc, Fresh.pc)
    BY <1>4 DEF Leave, Fresh, Moved, InsideMetrics
  <2> QED
    BY <1>4, <2>1, FreshGood, OneMoves, Zenon DEF Leave
<1> QED
  BY <1>2, <1>3, <1>4

LEMMA ArriveStep ==
    ASSUME IInv, NEW i \in Requests, Arrive(i)
    PROVE  IInv'
<1>1. PICK token \in Tokens, body \in Bodies :
          req' = [req EXCEPT ![i] =
             IF draining
             THEN [[Fresh EXCEPT !.token = token, !.body = body]
                      EXCEPT !.pc = "done", !.wire = 503, !.refused = TRUE]
             ELSE [[Fresh EXCEPT !.token = token, !.body = body]
                      EXCEPT !.pc = "auth"]]
  BY Zenon DEF Arrive
<1>2. PICK r : r = [Fresh EXCEPT !.token = token, !.body = body]
  BY Zenon
<1>3. PICK s : s = 503
  OBVIOUS
<1>4. s \in WireStatuses
  BY <1>3 DEF WireStatuses, Statuses
<1>5. PICK d : d = IF draining
                   THEN [r EXCEPT !.pc = "done", !.wire = s, !.refused = TRUE]
                   ELSE [r EXCEPT !.pc = "auth"]
  BY Zenon
<1>6. d \in Good
  <2>1. /\ [r EXCEPT !.pc = "auth"] \in Good
        /\ [r EXCEPT !.pc = "done", !.wire = s, !.refused = TRUE] \in Good
    BY <1>2, <1>4, ArrivalGood, Zenon
  <2> QED
    BY <1>5, <2>1, Zenon
<1>7. d.pc \in {"done", "auth"}
  BY <1>2, <1>5 DEF Fresh
<1>8. req' = [req EXCEPT ![i] = d] /\ req[i].pc = "idle"
  BY <1>1, <1>2, <1>3, <1>5, ZenonT(30) DEF Arrive
<1>9. inFlight' = Moved(req[i].pc, d.pc)
  BY <1>7, <1>8 DEF Arrive, Moved, InsideMetrics
<1> QED
  BY <1>6, <1>8, <1>9, OneMoves, Zenon DEF Arrive

LEMMA Initially == Init => IInv
<1> SUFFICES ASSUME Init PROVE IInv
  OBVIOUS
<1>1. req \in [Requests -> Good]
  BY FreshGood DEF Init
<1>2. {i \in Requests : req[i].pc \in {"proxy", "writing", "metrics_exit"}} = {}
  BY DEF Init, Fresh
<1>3. InFlightExact
  BY <1>2, FS_EmptySet DEF Init, InFlightExact
<1> QED
  BY <1>1, <1>3, Zenon DEF Init, IInv

LEMMA Stepwise == IInv /\ [Next]_vars => IInv'
<1> SUFFICES ASSUME IInv, [Next]_vars PROVE IInv'
  OBVIOUS
<1>1. ASSUME NEW v \in BOOLEAN, SetDraining(v) PROVE IInv'
  BY <1>1 DEF SetDraining, IInv, InFlightExact
<1>2. ASSUME NEW i \in Requests, Step(i) PROVE IInv'
  BY <1>2, StagesStep, MetricsStep, ProxyStep, EndStep DEF Step
<1>3. CASE UNCHANGED vars
  BY <1>3 DEF vars, IInv, InFlightExact
<1> QED
  BY <1>1, <1>2, <1>3, ArriveStep, EndStep DEF Next

LEMMA Invariance == Spec => []IInv
BY Initially, Stepwise, PTL DEF Spec

LEMMA Consequences ==
    IInv => TypeOK /\ InFlightExact /\ LogTellsTruth /\ CountTellsWire
            /\ OnlyAdmitted /\ PanicContained
<1> SUFFICES ASSUME IInv
             PROVE  TypeOK /\ InFlightExact /\ LogTellsTruth /\ CountTellsWire
                    /\ OnlyAdmitted /\ PanicContained
  OBVIOUS
<1>1. \A i \in Requests : /\ req[i] \in RequestStates /\ Admission(req[i])
                          /\ Told(req[i])
  BY DEF IInv, Good
<1>2. TypeOK
  <2>1. req \in [Requests -> RequestStates]
    BY DEF IInv, Good
  <2>2. PICK in : in = {i \in Requests :
                           req[i].pc \in {"proxy", "writing", "metrics_exit"}}
    BY Zenon
  <2>3. /\ IsFiniteSet(in) /\ Cardinality(in) <= Cardinality(Requests)
        /\ Cardinality(Requests) \in Nat
    BY <2>2, RequestsAssumption, FS_Subset, FS_CardinalityType
  <2>4. inFlight = Cardinality(in) /\ Cardinality(in) \in Nat
    BY <2>2, <2>3, FS_CardinalityType DEF IInv, InFlightExact
  <2> QED
    BY <2>1, <2>3, <2>4 DEF IInv, TypeOK
<1>3. LogTellsTruth
  BY <1>1 DEF LogTellsTruth, Told
<1>4. CountTellsWire
  BY <1>1 DEF CountTellsWire, Told
<1>5. OnlyAdmitted
  BY <1>1 DEF OnlyAdmitted, Admission, InsideMetrics
<1>6. PanicContained
  BY <1>1 DEF PanicContained, Told
<1> QED
  BY <1>2, <1>3, <1>4, <1>5, <1>6 DEF IInv

\* Types are kept.
THEOREM TypeCorrect == Spec => []TypeOK
BY Invariance, Consequences, PTL

\* The gauge of MetricsMiddleware is exact for any number of requests, panics
\* included.
THEOREM InFlightAlwaysExact == Spec => []InFlightExact
BY Invariance, Consequences, PTL

\* The entry of AccessLogMiddleware has the status the client was sent, but
\* for the 499 of a client that left before anything was written.
THEOREM LogAlwaysTellsTruth == Spec => []LogTellsTruth
BY Invariance, Consequences, PTL

\* RequestTotal of MetricsMiddleware counts the status the client was sent.
THEOREM CountAlwaysTellsWire == Spec => []CountTellsWire
BY Invariance, Consequences, PTL

\* No order of the stages' answers lets a request to the proxy that one of
\* them had to stop: what the allowlist passes unseen, the router refuses.
THEOREM AlwaysOnlyAdmitted == Spec => []OnlyAdmitted
BY Invariance, Consequences, PTL

\* A panic in any handler is answered by RecoveryMiddleware and not logged.
THEOREM PanicAlwaysContained == Spec => []PanicContained
BY Invariance, Consequences, PTL

=============================================================================
