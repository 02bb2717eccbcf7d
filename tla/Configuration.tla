---------------------------- MODULE Configuration ----------------------------
(***************************************************************************)
(* LoadConfig (internal/config/config.go) and the timeout of an attempt    *)
(* (internal/proxy/timeout.go).  A configuration file and the environment  *)
(* either make the configuration the gateway runs with, or an error before *)
(* anything is published.                                                  *)
(*                                                                         *)
(* A text is its core and whether blanks surround it.  A duration's core   *)
(* is its length in milliseconds, or one of the two values below zero.  A  *)
(* float64 is in hundredths, or NaN (.nan in YAML).  An address is the     *)
(* kind of URL it is.  The order of models, of status codes and of CIDRs   *)
(* makes no difference, so they are sets.                                  *)
(***************************************************************************)
EXTENDS Integers, Sequences

-----------------------------------------------------------------------------
(* Texts.                                                                  *)

Text(core) == [core |-> core, padded |-> FALSE]

TrimSpace(t) == Text(t.core)

Empty == Text("")

IsBlank(t) == TrimSpace(t) = Empty

uniqueNonEmpty(texts) == {TrimSpace(t) : t \in texts} \ {Empty}

Unset       == -1       \* the empty duration
NotDuration == -2       \* a text that time.ParseDuration refuses

-----------------------------------------------------------------------------
(* Floating point numbers.  Every comparison with NaN is false.            *)

Float(n) == [nan |-> FALSE, hundredths |-> n]
NaN      == [nan |-> TRUE, hundredths |-> 0]

Below(x, n)  == ~x.nan /\ x.hundredths < n
AtMost(x, n) == ~x.nan /\ x.hundredths <= n
Above(x, n)  == ~x.nan /\ x.hundredths > n

-----------------------------------------------------------------------------
(* The file over the defaults.                                             *)

DefaultNumber ==
    [port |-> 8080, rate_limit_burst |-> 20, default_max_retries |-> 1,
     breaker_minimum_requests |-> 5, breaker_half_open_requests |-> 3]

DefaultRate ==
    [rate_limit_qps |-> Float(1000), breaker_failure_ratio |-> Float(50)]

DefaultCodes == {429, 500, 502, 503, 504}

DefaultDuration ==
    [read_timeout |-> 300000, read_header_timeout |-> 10000,
     write_timeout |-> 300000, idle_timeout |-> 120000, shutdown_timeout |-> 300000,
     retry_backoff |-> 200, health_check_interval |-> 15000,
     health_check_timeout |-> 2000, breaker_interval |-> 10000,
     breaker_timeout |-> 15000, default_timeout_non_stream |-> 120000,
     default_timeout_stream |-> 300000]

Numbers   == DOMAIN DefaultNumber
Rates     == DOMAIN DefaultRate
Durations == DOMAIN DefaultDuration

\* The decoder refuses a negative number for a uint32.
decodes(file) ==
    \A f \in {"breaker_minimum_requests", "breaker_half_open_requests"} :
        f \in DOMAIN file.number => file.number[f] >= 0

\* setDefaults, then the decoder: a member of the file replaces the default.
decode(file) ==
    [number    |-> [f \in Numbers |-> IF f \in DOMAIN file.number
                                      THEN file.number[f] ELSE DefaultNumber[f]],
     rate      |-> [f \in Rates |-> IF f \in DOMAIN file.rate
                                    THEN file.rate[f] ELSE DefaultRate[f]],
     retryable |-> IF "retryable_status_codes" \in DOMAIN file.codes
                   THEN file.codes["retryable_status_codes"] ELSE DefaultCodes,
     duration  |-> [f \in Durations |-> IF f \in DOMAIN file.duration
                                        THEN file.duration[f] ELSE Text(DefaultDuration[f])],
     tokens    |-> file.tokens,
     providers |-> file.providers,
     cidrs     |-> file.cidrs,
     bearer    |-> file.bearer]

-----------------------------------------------------------------------------
(* Secrets come from the environment, a function on the names it defines.  *)

Defined(env, name) == name \in DOMAIN env /\ ~IsBlank(env[name])

\* An enabled token: no value in the file, one in the environment.  The name
\* of the variable is taken as it is written.
tokenResolves(t, env) ==
    t.disabled \/ (IsBlank(t.value) /\ t.value_env # Empty /\ Defined(env, t.value_env))

resolveToken(t, env) ==
    IF t.disabled THEN t ELSE [t EXCEPT !.value = TrimSpace(env[t.value_env])]

\* A provider may have no key at all.
keyResolves(p, env) ==
    IsBlank(p.api_key) /\ (IsBlank(p.api_key_env) \/ Defined(env, TrimSpace(p.api_key_env)))

resolveKey(p, env) ==
    IF IsBlank(p.api_key_env) THEN p
    ELSE [p EXCEPT !.api_key = TrimSpace(env[TrimSpace(p.api_key_env)])]

\* Metrics do without a token when the variable is missing.
resolveBearer(b, env) ==
    LET name == TrimSpace(b.token_env)
    IN  IF name # Empty /\ Defined(env, name) THEN [b EXCEPT !.token = TrimSpace(env[name])]
        ELSE b

resolves(cfg, env) ==
    /\ \A i \in DOMAIN cfg.tokens : tokenResolves(cfg.tokens[i], env)
    /\ \A i \in DOMAIN cfg.providers : keyResolves(cfg.providers[i], env)
    /\ IsBlank(cfg.bearer.token)

resolve(cfg, env) ==
    [cfg EXCEPT
        !.tokens = [i \in DOMAIN cfg.tokens |-> resolveToken(cfg.tokens[i], env)],
        !.providers = [i \in DOMAIN cfg.providers |-> resolveKey(cfg.providers[i], env)],
        !.bearer = resolveBearer(cfg.bearer, env)]

-----------------------------------------------------------------------------
(* Normalisation and defaults for what is set to nonsense.                 *)

\* The two default timeouts keep their blanks, like a provider's timeouts.
Trimmed == Durations \ {"default_timeout_non_stream", "default_timeout_stream"}

normalizeToken(t) ==
    [t EXCEPT !.name = TrimSpace(t.name), !.value_env = TrimSpace(t.value_env),
              !.value = TrimSpace(t.value)]

normalizeProvider(p) ==
    [p EXCEPT !.name = TrimSpace(p.name), !.base_url = TrimSpace(p.base_url),
              !.api_key_env = TrimSpace(p.api_key_env),
              !.api_key = TrimSpace(p.api_key), !.models = uniqueNonEmpty(p.models)]

\* Faulty variant: names are left as they are written.
normalizeConfigValuesOnly(cfg) ==
    [cfg EXCEPT
        !.duration = [f \in Durations |-> IF f \in Trimmed THEN TrimSpace(cfg.duration[f])
                                          ELSE cfg.duration[f]],
        !.tokens = [i \in DOMAIN cfg.tokens |->
                       [cfg.tokens[i] EXCEPT !.value = TrimSpace(@)]],
        !.cidrs = uniqueNonEmpty(cfg.cidrs)]

normalizeConfig(cfg) ==
    [cfg EXCEPT
        !.duration = [f \in Durations |-> IF f \in Trimmed THEN TrimSpace(cfg.duration[f])
                                          ELSE cfg.duration[f]],
        !.tokens = [i \in DOMAIN cfg.tokens |-> normalizeToken(cfg.tokens[i])],
        !.providers = [i \in DOMAIN cfg.providers |-> normalizeProvider(cfg.providers[i])],
        !.cidrs = uniqueNonEmpty(cfg.cidrs),
        !.bearer = [token_env |-> TrimSpace(cfg.bearer.token_env),
                    token |-> TrimSpace(cfg.bearer.token)]]

Defaulted == {"retry_backoff", "health_check_interval", "health_check_timeout",
              "breaker_interval", "breaker_timeout"}

UpstreamNumber(f, n) ==
    CASE f = "default_max_retries" -> IF n < 0 THEN 0 ELSE n
      [] f \in {"breaker_minimum_requests", "breaker_half_open_requests"} ->
            IF n = 0 THEN DefaultNumber[f] ELSE n
      [] OTHER -> n

UpstreamRate(f, x) ==
    IF f = "breaker_failure_ratio" /\ (AtMost(x, 0) \/ Above(x, 100))
    THEN DefaultRate[f] ELSE x

applyUpstreamDefaults(cfg) ==
    [cfg EXCEPT
        !.number = [f \in Numbers |-> UpstreamNumber(f, cfg.number[f])],
        !.rate = [f \in Rates |-> UpstreamRate(f, cfg.rate[f])],
        !.retryable = IF @ = {} THEN DefaultCodes ELSE @,
        !.duration = [f \in Durations |->
            IF f \in Defaulted /\ cfg.duration[f].core = Unset
            THEN Text(DefaultDuration[f]) ELSE cfg.duration[f]],
        !.providers = [i \in DOMAIN cfg.providers |->
            [cfg.providers[i] EXCEPT !.max_retries = IF @ < 0 THEN 0 ELSE @]]]

-----------------------------------------------------------------------------
(* Validation.                                                             *)

validatePositiveDuration(t) == t.core > 0

validateProviderBaseURL(url) == url.core \in {"https", "http to a private host"}

validProvider(p) ==
    /\ p.name # Empty
    /\ validateProviderBaseURL(p.base_url)
    /\ p.models # {}
    /\ p.max_retries >= 0
    /\ \A t \in {p.timeout_non_stream, p.timeout_stream} :
          t.core = Unset \/ validatePositiveDuration(t)

EnabledOnes(tokens) == {i \in DOMAIN tokens : ~tokens[i].disabled}

validateTokenCatalog(tokens) ==
    /\ \A i \in EnabledOnes(tokens) :
          /\ tokens[i].name # Empty /\ tokens[i].value # Empty
          /\ ~Below(tokens[i].rate_limit_qps, 0) /\ tokens[i].rate_limit_burst >= 0
    /\ \A i, j \in EnabledOnes(tokens) : i # j =>
          tokens[i].name # tokens[j].name /\ tokens[i].value # tokens[j].value

validPort(n) == n \in 1..65535

validateConfig(cfg) ==
    /\ validPort(cfg.number["port"])
    /\ \A f \in Durations : validatePositiveDuration(cfg.duration[f])
    /\ ~AtMost(cfg.rate["rate_limit_qps"], 0) /\ cfg.number["rate_limit_burst"] > 0
    /\ cfg.tokens # <<>> /\ cfg.providers # <<>>
    /\ \A c \in cfg.cidrs : c.core = "cidr"
    /\ \A i \in DOMAIN cfg.providers : validProvider(cfg.providers[i])
    /\ \A i, j \in DOMAIN cfg.providers : i # j =>
          cfg.providers[i].name # cfg.providers[j].name
    /\ validateTokenCatalog(cfg.tokens)

-----------------------------------------------------------------------------
(* The load, and the timeout of an attempt.                                *)

\* The configuration an error free load publishes.
loaded(file, env) ==
    applyUpstreamDefaults(normalizeConfig(resolve(decode(file), env)))

\* LoadConfig returns without an error.
Loads(file, env) ==
    /\ decodes(file)
    /\ resolves(decode(file), env)
    /\ validateConfig(loaded(file, env))

\* Zero for a text it cannot read; blanks around a duration are an error.
parseDuration(t) == IF t.padded \/ t.core < 0 THEN 0 ELSE t.core

\* Faulty variant: a stream has the timeout of other answers.
providerTimeoutOneForAll(cfg, p, isStream) ==
    LET own    == parseDuration(p.timeout_non_stream)
        shared == parseDuration(cfg.duration["default_timeout_non_stream"])
    IN  CASE own > 0                -> own
          [] own <= 0 /\ shared > 0 -> shared
          [] OTHER                  -> DefaultDuration["default_timeout_non_stream"]

providerTimeout(cfg, p, isStream) ==
    LET own      == parseDuration(IF isStream THEN p.timeout_stream ELSE p.timeout_non_stream)
        upstream == IF isStream THEN "default_timeout_stream" ELSE "default_timeout_non_stream"
        shared   == parseDuration(cfg.duration[upstream])
    IN  CASE own > 0                 -> own
          [] own <= 0 /\ shared > 0  -> shared
          [] OTHER                   -> DefaultDuration[upstream]

-----------------------------------------------------------------------------
(* Files and environments, and properties of one of each.                  *)

Texts == [core : STRING, padded : BOOLEAN]
Times == [core : Int, padded : BOOLEAN]
Floats == [nan : BOOLEAN, hundredths : Int]

TokenEntries ==
    [name : Texts, value : Texts, value_env : Texts, rate_limit_qps : Floats,
     rate_limit_burst : Int, disabled : BOOLEAN]

Providers ==
    [name : Texts, base_url : Texts, api_key : Texts, api_key_env : Texts,
     models : SUBSET Texts, max_retries : Int, timeout_non_stream : Times,
     timeout_stream : Times]

Files ==
    [number    : UNION {[S -> Int] : S \in SUBSET Numbers},
     rate      : UNION {[S -> Floats] : S \in SUBSET Rates},
     codes     : UNION {[S -> SUBSET Nat] : S \in SUBSET {"retryable_status_codes"}},
     duration  : UNION {[S -> Times] : S \in SUBSET Durations},
     tokens    : Seq(TokenEntries),
     providers : Seq(Providers),
     cidrs     : SUBSET Texts,
     bearer    : [token : Texts, token_env : Texts]]

Environments == UNION {[S -> Texts] : S \in SUBSET Texts}

HasNaN(file) ==
    \/ \E f \in DOMAIN file.rate : file.rate[f].nan
    \/ \E i \in DOMAIN file.tokens : file.tokens[i].rate_limit_qps.nan

\* What the other parts of the gateway take for granted of the configuration
\* they find.
ReadyForBreakers(cfg) ==
    /\ Above(cfg.rate["breaker_failure_ratio"], 0)
    /\ AtMost(cfg.rate["breaker_failure_ratio"], 100)
    /\ cfg.number["breaker_minimum_requests"] > 0
    /\ cfg.number["breaker_half_open_requests"] > 0

ReadyForLimiter(cfg) ==
    /\ Above(cfg.rate["rate_limit_qps"], 0) /\ cfg.number["rate_limit_burst"] > 0
    /\ \A i \in EnabledOnes(cfg.tokens) :
          Above(cfg.tokens[i].rate_limit_qps, -1) /\ cfg.tokens[i].rate_limit_burst >= 0

\* Providers are told apart by name, serve some model and allow an attempt;
\* there are status codes to fail over on.
ReadyForRouter(cfg) ==
    /\ cfg.number["default_max_retries"] >= 0 /\ cfg.retryable # {}
    /\ \A i, j \in DOMAIN cfg.providers :
          TrimSpace(cfg.providers[i].name) = TrimSpace(cfg.providers[j].name) => i = j
    /\ \A i \in DOMAIN cfg.providers :
          /\ cfg.providers[i].max_retries >= 0
          /\ \E m \in cfg.providers[i].models : m # Empty /\ ~m.padded

\* Enabled tokens are told apart by value, the one thing a client shows.
ReadyForRegistry(cfg) ==
    \A i, j \in EnabledOnes(cfg.tokens) :
        TrimSpace(cfg.tokens[i].value) = TrimSpace(cfg.tokens[j].value) => i = j

\* No secret that is in use was written in the file.
SecretsFromEnvironment(cfg, env) ==
    LET material == {TrimSpace(env[n]) : n \in DOMAIN env}
    IN  /\ \A i \in EnabledOnes(cfg.tokens) : cfg.tokens[i].value \in material \ {Empty}
        /\ \A i \in DOMAIN cfg.providers : cfg.providers[i].api_key \in material \cup {Empty}
        /\ cfg.bearer.token \in material \cup {Empty}

\* A configuration that is published is one every part of the gateway can
\* run with, although it was decoded over defaults, resolved, normalised,
\* defaulted again and only then validated: names that differ in blanks only
\* do not pass for two, numbers out of range are replaced, and secrets come
\* from the environment alone.  Breakers and limiter need a file without NaN:
\* NaN is out of no range the code tests and is published as it stands.
LoadedIsSound(file, env) ==
    Loads(file, env) =>
        LET cfg == loaded(file, env)
        IN  /\ ~HasNaN(file) => ReadyForBreakers(cfg) /\ ReadyForLimiter(cfg)
            /\ ReadyForRouter(cfg) /\ ReadyForRegistry(cfg)
            /\ SecretsFromEnvironment(cfg, env)

\* An attempt has the provider's timeout, or else the configured default,
\* where these were written without blanks: validation has then seen what
\* providerTimeout reads, and the constants of timeout.go are never needed.
\* (With blanks around it a timeout passes validation and is ignored.)
TimeoutHonoured(file, env) ==
    Loads(file, env) =>
        LET cfg == loaded(file, env)
        IN  \A i \in DOMAIN cfg.providers, isStream \in BOOLEAN :
                LET p      == cfg.providers[i]
                    own    == IF isStream THEN p.timeout_stream ELSE p.timeout_non_stream
                    shared == cfg.duration[IF isStream THEN "default_timeout_stream"
                                           ELSE "default_timeout_non_stream"]
                IN  ~own.padded /\ ~shared.padded =>
                        providerTimeout(cfg, p, isStream) =
                            IF own.core > 0 THEN own.core ELSE shared.core

=============================================================================
