# strait: TLA+ models and proofs

strait is an OpenAI-compatible gateway: it takes chat requests, authenticates
and limits them, finds the providers that serve the model, tries one after the
other, and translates the answer back. This directory holds TLA+ models of its
moving parts, the TLC configurations that check them, and TLAPS proofs of the
main invariants. Paths below are relative to `src/`.

## The system and its parts

A chat request passes the handlers that `internal/router/router.go` stacks:

    Recovery > draining > RequestMeta > AccessLog > Auth > RateLimit
      > BodyContext > ModelAllowlist > ModelRouter > Metrics > proxy

and the proxy calls an adapter and the circuit-breaker transport. Requests run
concurrently; they share the token registry, the limiter's buckets, the cached
route table, the breakers, the health map, the metrics and the draining flag.
Besides them run the health monitor and whatever replaces
`config.GlobalConfig`. The main package is not in the repository, so the
replacement of the configuration and the shutdown sequence are environment.

| part | code | module | kind of model |
| --- | --- | --- | --- |
| retry and failover loop | `proxy/proxy.go`, `model/gateway.go` | `UpstreamOutcome`, `GatewayProxy` | one request, steps between blocking points |
| circuit breakers | `proxy/transport.go` (gobreaker is external) | `BreakerContract` (abstract), `CircuitBreaker` | concurrent RoundTrips, steps between locks |
| provider health | `proxy/health.go` | `ProviderHealth` | requests, sweeps and refresh, steps between locks |
| breakers, health, routing, retries and readiness together | `proxy/`, `middleware/router.go`, `router/router.go` | `Availability` | composition over `BreakerContract` |
| rate limiter | `middleware/local_limiter.go`, `ratelimit.go` | `KeyedLimiter` | concurrent requests, steps between locks |
| token registry | `middleware/auth.go` | `TokenRegistry` | concurrent requests, steps between locks, racy read |
| model router | `middleware/router.go` | `ModelRouter` | concurrent requests, steps between reads of shared state |
| handler chain | `router/`, `middleware/{recovery,accesslog,metrics,response_observer,request_state,model_allowlist}.go`, `response/` | `RequestPipeline` | concurrent requests, one step per handler |
| body inspection | `middleware/body.go`, `body_scan.go` | `BodyScan` | algorithm against a reference grammar |
| Anthropic streams | `adapter/stream_translator.go` | `AnthropicStream`, `AdapterJSON` | one stream, one step per line, against a reference |
| Anthropic requests and responses | `adapter/anthropic_*.go` | `AnthropicRequest`, `AnthropicResponse`, `AdapterJSON` | fast path against general path |
| configuration | `config/config.go`, `proxy/timeout.go` | `Configuration` | operators on a file and an environment |

Each state machine `M` has an `MCM` module with its instance for TLC; the pure
conversions (the last four rows) share `MCConversions`. Theorems are in the
modules whose name ends in `Proofs`: one per state machine, but for
`ConfigurationProofs`, which also has those of the token registry, and
`AdapterProofs`, which has those of the three Anthropic modules. `PROJECT.json`
maps every definition to the lines it stands for. Operators whose comment
begins with "Faulty variant" are deliberately wrong versions of the definition
that follows them: put in its place they make one property fail, which shows
that the property depends on the code.

## What the models say

**UpstreamOutcome, GatewayProxy.** A result of an attempt is a status or a
kind of error. `classifyUpstreamAttempt` decides on retry, failover, return or
termination. One record `q` holds the local variables of `ServeHTTP` and the
fields of the `GatewayContext` it writes; `q.pc` is the blocking point: before
the call, in `Client.Do`, in the backoff, in `TranslateResponse`, returned. The
client may leave at any moment (`clientGone`). Durations are reduced to the
timeouts they cause. The passive health report of each attempt belongs to
`ProviderHealth`.

**BreakerContract, CircuitBreaker.** The contract says what the rest of the
gateway may rely on: a breaker is in a period (closed, open, half-open), a look
at it may find the period over, only answers to requests of the present period
count, a trial admits a limited number of requests and ends with its first
failure or its last success. `CircuitBreaker` is the code; `period(k)` maps the
state of a key's breaker to the contract, with the requests in flight of the
present generation as the pending ones. In `CircuitBreaker`, `getBreaker` is
the look under the read lock and the creation under the write lock; `RoundTrip`
is `Before` and `After`. gobreaker is a library outside the repository; its
generations and counts are modelled as the transport relies on them. Time is a
flag per breaker, "the interval or timeout is over".

**ProviderHealth.** `updateProviderHealth` writes the map under its lock and
the gauge after it, two steps. A sweep copies the provider list, then takes
the sweep lock, then probes. A reload replaces the configuration and is
followed by `RefreshProviderHealthSnapshot`. A request's report may also be a
cancellation or an open breaker, since the report precedes the classification.

**Availability.** What the parts that judge an upstream do to each other. A
request asks the breaker and the health map about each candidate in turn,
tries the candidates in the resulting order through their breakers, and
reports every result to the health map, also that a breaker turned it away or
that its client left. Probes go past the breakers; one that is answered may be
inconclusive and change nothing. Clients may leave any attempt. The readiness
endpoint copies the health map and then overlays one breaker state after the
other; the history `seen` keeps, per provider, what was true at some moment of
the request: a healthy entry, a breaker that is not open, unhealthy for routing.
The breakers are an instance of `BreakerContract`, which `CircuitBreaker` is
proved to implement; late health results, reloads and attempt traces are left
to `ProviderHealth`, `ModelRouter` and `GatewayProxy`.

**KeyedLimiter.** `Allow` reads the clock, sweeps on every n-th call, finds or
makes its bucket under the limiter's lock and takes a token under the bucket's
lock; these are separate steps, so a bucket meets clock readings out of order
and may have left the map. `KeyBound` has `RefillsInTime` as its premise: a
bucket is evicted without cost only if it is full again by the time it expires,
also when the last user and the request that finds it expired lag behind. The
code's ten minutes give that to every limit whose burst is at most some ten
minutes of its rate. A token is `Cost` units and a second `Cost` ticks,
which makes the refill exact. `grants`, `born`, `granted`, `stray` and `since`
are history. `OpenWindow` restarts a bucket's window at any moment, so the
bound is about every window and not only those that begin with the bucket.

**TokenRegistry.** `ensureTokenRegistry` step by step; `builtFrom` lists the
configurations of all the builds. `registryInited` is read
under `tokenRegistryMu` and written under `registryInitMu`; while some thread
is writing it, the first read returns either value.

**ModelRouter.** A lookup reads the configuration, the cache, perhaps takes the
table lock, and asks the health of each candidate, each a step between which
configuration, cache and health may change. The table's entry of a model is
the ascending list of the providers that offer it, which is what appending in
one pass over the configuration yields; the two groups of candidates and the
flags `sawUnhealthy` and `reordered` are those of the code's loop. The history
`down` keeps the verdicts for the properties.

**RequestPipeline.** One step per handler, on the way in and on the way out,
with the status as seen by the wire, the two observers, the access log and
`RequestTotal`. A model may be listed for the token or not, and have a route or
not, each independently of the other. A panic can happen in any handler and
runs what was deferred.

**BodyScan.** Bodies are sequences of symbols; a string or a number is one
symbol and white space is left out. The state machine enumerates objects and
one deletion, insertion or replacement anywhere in them. The search for
`include_usage` within `stream_options` (`inspectObjectForKey`) has a loop of
its own, as in the code. The module uses recursive operators and is checked by
TLC only.

**AnthropicStream.** The line loop of `TranslateAnthropicStream`, ended by the
upstream after a line, inside one or with an error, or by the client at any
write. The data lines of an event are joined: the constant `Whole` tells which
parts make a document, everything else is not JSON. The reference looks at the
whole list of lines and never at the state of the loop: an event is a run of
lines up to a blank one, its type and its document are those of its own lines,
and the model of its chunk is the one named by the last event up to it that
names any. An event is worth one chunk or none, and the k-th chunk written must
be that of the k-th event worth one.

**AdapterJSON, AnthropicRequest, AnthropicResponse.** A JSON text is what the
decoders tell apart: its kind, its members, and for a string the kinds of its
characters and the rules by which its escapes can be read. `Joined` is the
`strings.Builder`, or the `append`, of the loops that collect pieces; `Depth`
bounds how deep a response nests, for the search of a word anywhere in it.
`encoding/json` finds the field of a key written in another case (`Spelling`,
`ByField`), the hand-written scanner knows one spelling only. The fast paths,
which scan and write by hand, and the general paths through `encoding/json` are
written separately, each with its own early returns, and compared.

**Configuration.** A file gives some numbers, durations, tokens, providers and
addresses; a text is a core with or without blanks around it. Rates and the
failure ratio are floating-point numbers in hundredths, or NaN, with which
every comparison is false. `loaded` is the composition of the passes in the
order of `LoadConfig`: decoding over the defaults, secrets from the
environment, normalisation, defaults again; `Loads` adds the validation and
says whether `LoadConfig` succeeds. `providerTimeout` (`timeout.go`) reads the
result. YAML itself is external.

## Runs

| run | states | shows |
| --- | --- | --- |
| `proxy` | all results of all attempts, up to three candidates | `AttemptChain`, `FailoverChain`: the traces are a run of the two nested loops; `GaveUpAfterAll`; `TimeoutAnswer`: 504 has a timeout behind it; `CountersMatchTrace`: the headers tell the retries and failovers; `LoggedStatusIsSent`; `RequestEnds` |
| `breaker` | three RoundTrips, six generations | `CountsExact`; `TripsInTime`: a failure opens the breaker exactly when it finds the minimum and the ratio reached; `GaugeShowsState`; `ImplementsContract`: every step is a step of the contract, so late answers change nothing, a trial keeps its limit, and no state is skipped; `TrialEnds` |
| `health` | two providers replacing each other, sweeps and a request | `RecoveryNoticed`, `OutageNoticed`: map and gauge follow a lasting change of the upstream |
| `availability` | two candidates, the first of which goes down and comes back while the other is up or down throughout; two requests, or one and a readiness poller | `ReadinessMatchesRouting`: with 503 every provider was unhealthy for routing at some moment of the readiness request, with 200 one had a healthy entry and a breaker that was not open; `ReadyAgain`: it recovers without any request; `RecoveryCompletes`: with requests, breaker and health of an upstream that is back do not keep each other down |
| `limiter` | two requests, one key, two limits, expiry | `WindowBound`, `KeyBound`, `RetryAfterHonest` |
| `token_registry` | three requests, two configurations | `EnabledNotRefused`, `BuiltOnce` |
| `routing` | two requests, two configurations, three providers | `RoutedByOwnConfig`, `UnhealthyLast` |
| `pipeline` | two requests | `InFlightExact`, `LogTellsTruth`, `CountTellsWire`, `OnlyAdmitted`, `PanicContained`; `DrainCompletes` |
| `conversions` | bodies of up to three members and one damage; streams of up to four lines; responses and files with up to two changes to a usual one; requests of up to three messages | `ScannerIsGrammar`, `InjectionSound`; `TranslatesEvents`; `ResponsePathsAgree`: what the general path translates, the fast ones translate to the same; `RequestPathsAgree`: the request sent is the one the general path would have sent; `LoadedIsSound`: what is loaded, without a NaN, suits breakers, limiter, router and registry; `TimeoutHonoured` |

`health`, `routing` and `pipeline` also check the type invariant of their
module. Three runs show a disagreement with the repository's own words:

- `proxy_reset_is_cancel` (`CanceledMeansClientGone`): a connection reset by
  the upstream is taken for a client that left (`proxy.go`,
  `isClientCanceledRequest`); the request ends as 499, with no retry, failover
  or response.
- `health_removed` (`RemovedStayRemoved`): a check under way while its provider
  is removed puts the provider back into map and gauge, which the comment of
  `RefreshProviderHealthSnapshot` excludes.
- `body_scan_strings` (`RefusedIsNotJSON`): strings with an escape are unquoted
  by Go's rules, so JSON with `\/` or an escaped surrogate pair is refused as
  "Invalid JSON payload.".

Further observations, made while modelling and not held by a run of their own:

- A 504 says "All configured upstream providers timed out." also when the last
  provider answered with a failover status: that branch leaves `finalErr` of
  an earlier provider (`proxy.go:200`). `TimeoutAnswer` states what does hold.
- `int(RateLimitQPS)` makes a token rate below one a rate of zero, and such a
  bucket never refills (`ratelimit.go:60`); `RetryAfterHonest` excludes it.
- A bucket whose burst grows is filled to the new burst (`local_limiter.go:55`):
  requests that carry the limits of before and after a reload in turn fill it
  each time. `WindowBound` and `KeyBound` are about the time under one limit.
- `ReadyToTrip` is asked by failures only: admissions and successes can bring a
  closed breaker to its minimum of requests with the ratio already reached, and
  it stays closed until the next failure. `TripsInTime` says what does hold.
- A readiness answer can mix moments: a 200 may rest on a healthy entry of one
  moment and a breaker of a later one. `ReadinessMatchesRouting` says so much.
- A rate or ratio of NaN passes every check of the validation and every default
  (`config.go:285`); `LoadedIsSound` leaves these files out for breakers and
  limiter.
- The health gauge is set after the unlock and may stay on the older of two
  results until the next update (`health.go:269`).
- `RequestTotal` counts only requests that reach the proxy and do not panic,
  though its comment speaks of all requests at the entrance
  (`prometheus.go:9`).
- Text is quoted by `strconv.AppendQuote` in requests, responses and streams;
  its `\a`, `\v`, `\x7f` and `\U` escapes are not JSON
  (`stream_translator.go:131`).
- A user message whose content is null reaches Anthropic as the empty text on
  the fast path and as the text "null" on the general one, and of several
  system messages only the last is sent. `RequestPathsAgree` leaves out the
  first case, and both properties leave out the texts of the point above.
- The fast response path is the more lenient one: it takes a trailing comma,
  data after the document, Go's escapes, and members of a wrong type that it
  does not use. Large integers in tool arguments lose precision on the general
  path only. It skips members whose key is written in another case, which the
  general path reads. `ResponsePathsAgree` is about what the general path
  accepts, with keys spelt as the fields are unless there is a tool call.
- A timeout with blanks around it passes validation, which trims, and is then
  ignored by `parseDuration`, which does not (`timeout.go:42`), against the
  order of precedence in the comment of `providerTimeout`.
- `max_retries: 0` cannot switch retries off, since zero means unset.
- A client that cancels counts as a failure for breaker and health map: clients
  that go on leaving can keep a provider down, which is why `ReadyAgain` and
  `RecoveryCompletes` assume `ClientsStay`.
- A provider without a health path whose probes are answered with a 4xx other
  than 408 and 429 is not judged by them (`health.go:227`), and an unhealthy one
  is then brought back only by requests, which go to it last.
- Recovery appends its error document to a response that has begun
  (`recovery.go:43`); `PanicContained` looks at the status only.
- The scanner accepts trailing commas.
- With a client gone before anything was written, the access log has 499 and
  `RequestTotal` 200 (the exception in `LogTellsTruth`).

### Bounds

- `proxy`: budgets of one and two attempts, lists of zero, two and three
  candidates, and one status per branch of the classification; nothing in the
  loop looks further back than one attempt and one provider. No bound on time.
- `breaker`: `MaxGeneration` 6 and `MaxCount` 4 let a breaker go through
  closed, open, half-open and back twice, with answers three generations late.
  One key, since breakers share only the map, whose creation race is per key.
- `limiter`: `TTL` 3 is longer than the time to refill plus the lag, as the
  code's ten minutes are; `MaxClock` 5 lets a bucket expire and its successor
  serve; `MaxLag` 1 lets two requests change places; three buckets, and
  arrivals stop after three grants. Threads are symmetric.
- `health`: one sweeper and one request. With a second sweeper the liveness
  check takes too long, so the exclusion of sweeps is not checked.
- `availability`: two candidates are the least for which order matters; the
  probes of `Probed`, one of them, are conclusive in the end, those of the
  other may never be. One attempt at each and one request per trial; the counts
  of attempts and of trials are the business of `proxy` and `breaker`. The
  poller and the second request take part in turn, which keeps the liveness
  check feasible.
- `token_registry`, `routing`, `pipeline`: two or three requests are enough for
  one to be overtaken by another at each step, and the code has no
  three-party synchronisation.
- `conversions`: three members allow duplicates, and an option before and after
  the member that matters; four lines are two events, or an event with
  repeated lines and its end; two changes let one hide the other; three
  messages are two with one between them; `Depth` 5 is deeper than any of the
  responses nests. Values are chosen so that every
  branch of the two decoders and of the validation is taken.

`breaker`, `limiter` and `conversions` stop at their bounds or at the end of
their input, so deadlock is not checked there; it is in all the others.

### Fairness

- `GatewayProxy`: weak fairness of the handler. Each attempt has a context
  deadline and the backoff is a timer. The client leaving is not fair.
- `CircuitBreaker`: weak fairness of `After`: the wrapped transport returns by
  the attempt's deadline. No new request and no expiry is assumed.
- `ProviderHealth`: the monitor's loop goes on, probes and attempts have
  deadlines, a reload ends with its refresh (weak); the sweep lock is granted
  to a waiter in the end, as Go mutexes do (strong). Nothing is assumed about
  requests being sent or upstreams changing.
- `Availability`: handlers go on and whoever polls readiness polls again (weak);
  the monitor goes on, and reaches a verdict again and again about the providers
  in `Probed`, those whose probes an upstream that is well does not refuse with
  a 4xx (weak); the timeout of an open breaker ends, so that not every
  look finds it open (strong, since looks come and go). No request is assumed
  to arrive: `RecoveryCompletes` has their arrival as a premise.
- `RequestPipeline`: a request that was let in goes on, since no handler waits
  for another request and attempts are bounded. Arrivals and draining are not
  fair. The other modules have no liveness property.

## Proofs

The theorems hold for every value of the constants that satisfies the named
assumption of the module. It says that the constants have their types, that
the providers of a configuration have different names, as its validation
ensures, and in `Availability` that there are at least two candidates, since
the code does not ask for the health of a single one, and finitely many
requests, so that the places in a breaker can be counted.

- `GatewayProxyProofs`: `TypeCorrect`, `AttemptChainHolds`,
  `FailoverChainHolds`, `GaveUpAfterAllHolds`, `TimeoutAnswerHolds`,
  `CountersMatchTraceHolds`, `LoggedStatusIsSentHolds`. The properties alone
  are not inductive: that the next attempt continues the chain depends on where
  the handler is. `IInv` adds, per blocking point, what is known there: in
  `Client.Do` the next attempt fits the last record, in the backoff the last
  record is a retry with budget left, and no final status is set before the
  end. Lemmas show that recording an attempt, leaving a provider and entering
  one keep the chains; the step proof has one case per action. The last three
  rest on a second invariant, `AnswerInv`, proved on top of `IInv`: in the loops
  nothing has been answered, `totalRetries` is the number of attempts the trace
  shows as retryable, and a timeout left in `finalErr` has its attempt in the
  trace, whichever provider left it there.
- `KeyedLimiterProofs`: `TypeCorrect`, `WindowBoundHolds`, `KeyBoundHolds`,
  `RetryAfterHonestHolds`. The inductive invariant of the first two is a
  balance per bucket: grants plus remaining tokens are at most burst plus rate
  times the time from the window's opening to `last`, plus the lag. It speaks
  of `last`, which moves back with a late request, while the theorem speaks of
  the clock; the bridge is that a request in `Allow` is at most `MaxLag` old.
  `MaxLag` and the other bounds are arbitrary naturals. The last two are about
  limits that stay, and rest on `SteadyInv`: requests and buckets carry the
  limits of their key (`LimitsInv`); a bucket that a late request has set back
  owes no more than the lag will refill (`DebtInv`); and what a key has spent,
  with what its bucket holds, is within burst and refill up to the bucket's
  last use, or, when it has no bucket, leaves room for a full burst (`KeyInv`).
  The last case is where `RefillsInTime` is needed: an eviction turns the first
  balance into the second.
- `CircuitBreakerProofs`: `CountsAlwaysExact`, `TripsAlwaysInTime`,
  `GaugeAlwaysRight`, `KeepsContract`, `TrialsLimited`. `IInv` says that a key
  and its breaker know each other, that a request works on the breaker of its
  key in a generation that has begun, and that each breaker is sound for the
  number of its requests in flight: the counts add up, an open breaker has
  none, a trial has no failures, a closed one whose failures alone are the
  minimum is below its ratio. The first
  two make an answer find the breaker it was counted in; without them the
  counts are not inductive. The same case analysis shows that every step maps
  to a step of the contract or to none. The steps of the contract keep the
  limit of a trial: an admission is checked against it, and a successful answer
  moves a request from those out to those answered. So the limit holds of the
  code (`TrialsLimited`). The bounds `MaxGeneration` and `MaxCount` are
  arbitrary.
- `AvailabilityProofs`: `ReadinessMatchesRoutingHolds`. A readiness request
  looks at the health map once and then at one breaker after the other. The
  invariant says what its copy holds half-way (`Overlaying`): what it says of an
  entry was true at some moment since the copy, for the health map and, once
  overlaid, for the breaker. Steps of requests, probes and upstreams may change
  the present, but not what has been seen.
  `GatewayKeepsContract`: every step of router, retry loop, probes and
  readiness is a step of `BreakerContract` or leaves the breakers alone, so
  that the contract, which `CircuitBreakerProofs` shows of the code, is also
  all the composition asks for. The invariant (`BInv`) says that whoever a
  breaker waits for has passed this breaker and has not come back
  (`SlotsHeld`): so nobody is admitted while an earlier attempt of theirs still
  counts, and an answer is given to the breaker that admitted the request.
  `PlacesHeld` states this and the limit of a trial together: no place of a
  trial is held by a request that has gone on to a retry, another candidate or
  its end. `SlotsHeld` was checked with TLC on the instance of the
  `availability` run, with two attempts, before it was
  proved.
- `RequestPipelineProofs`: `TypeCorrect`, `InFlightAlwaysExact`,
  `LogAlwaysTellsTruth`, `CountAlwaysTellsWire`, `AlwaysOnlyAdmitted`,
  `PanicAlwaysContained`. Requests share only the gauge, so the invariant is
  one about each request, `Good`: what the stages behind it have let through
  (`Admission`), and how the two observers, the wire and the gateway context
  stand to each other at its stage (`Books`). The gauge is the size of a set
  that gains or loses the one request that moves.
- `ModelRouterProofs`: `TypeCorrect`, `RoutedByOwnConfigHolds`,
  `UnhealthyLastHolds`, for configurations and candidate lists of any length.
  Lemmas say what a table holds: its entry is in the order of the configuration
  and has every provider of the model once (`TableFacts`). While the health is
  asked, `Resolving` says that each of the two groups holds, in order, the
  candidates with its verdict, and that the flags describe the verdicts so far;
  one more verdict keeps this (`GroupGrows`), and at the end the configured
  order, or the two groups one after the other, is what the property asks for
  (`KeptArranged`, `MergedArranged`). Requests share only the cache, which
  always holds the table of the configuration it names.
- `ConfigurationProofs`: `ConfigurationSound`, `TimeoutsHonoured`, for every
  file in `Files` and every environment in `Environments`. Lemmas say what
  the passes of `LoadConfig` together make of each part of the file;
  normalising what is normalised changes nothing, so that names and secrets
  are validated as they are used. `TypeCorrect`, `EnabledNotRefusedHolds`,
  `BuiltOnceHolds` are about the token registry, which reads the
  configuration: `IInv` adds that whoever builds holds `registryInitMu`, that
  the flag is set only after the registry is published, and that a request has
  no verdict before its lookup.
- `AdapterProofs`: `StreamTranslated`, `RequestsAgree`, `ResponsesAgree`.
  - *Streams*, of any lines and any length. The loop knows the lines of the
    event it is in, and the reference only the list, so the invariant `Inv`
    says how they meet: `event` is what the lines since the last blank one
    say, `model` is the one last named before them, and `out` is complete up to
    the last blank line. A line in the middle of an event leaves the reference
    of what came before alone; a blank line ends one event, and adds its chunk
    as the last. A failed write leaves a beginning of what was due.
  - *Requests*, of any number of messages over any characters. On the shape the
    fast path accepts, each message is a string with role user, assistant or
    system. The fast path sends what the general one would make of the
    conversation as `AppendQuote` spells it (`SimpleAsRead`), which is the
    conversation itself when that is JSON; lemmas say that the lists the two
    paths join are the same piece by piece, and that the last system message is
    the one both send.
  - *Responses*, of any number of blocks and members, nesting at least the
    three levels at which blocks have their members. What the scanner skips it
    skips because nothing in it is a word it looks for (`NestedHolds`); its
    loop over the blocks has collected, after n of them, the texts of the
    first n (`LoopSteps`, `ParserCollects`), which is what the general path
    concatenates; decoding by field names changes nothing for keys spelt as the
    fields are; and the tool calls written by hand are the decoded ones when
    `AppendQuote` writes JSON.
  - What a recursive function computes is proved by induction over its
    argument with the lemma `Induction`, about sets of naturals with zero and
    closed under successor.

Only model-checked: all liveness properties (fairness is out of the prover's
reach), and with them `ProviderHealth`, which has no other property than its
type invariant; `ScannerIsGrammar` and `InjectionSound` of `BodyScan`, whose
scanner and reference grammar are mutually recursive operators.

## Not modelled

- The OpenAI and SiliconFlow adapters, request URLs and headers: they pass
  their input on; the proxy sees of them what they have written and whether
  they failed.
- The body of the readiness answer, the metrics endpoint, request metadata and
  client addresses: stateless, or a view on state modelled elsewhere.
- YAML decoding, and settings without a rule of their own.
- Time measurements, labels, log texts, headers without a property.
- Numbers, literals and white space within a body, character by character.
- A second health sweeper, and a reload while requests are under way in the
  composition: the liveness checks become too large. `ProviderHealth` and
  `ModelRouter` have reloads.
