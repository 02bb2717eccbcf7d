------------------------- MODULE ConfigurationProofs -------------------------
(***************************************************************************)
(* What LoadConfig publishes is sound, for every configuration file and    *)
(* every environment; and the token registry built from a configuration    *)
(* is right, for any threads and tokens.                                   *)
(***************************************************************************)
EXTENDS Configuration, TokenRegistry, TLAPS

-----------------------------------------------------------------------------
LEMMA TrimmedTwice == \A t : TrimSpace(TrimSpace(t)) = TrimSpace(t)
BY DEF TrimSpace, Text

-----------------------------------------------------------------------------
(* What the passes of LoadConfig together make of each part of the file.   *)

Parts == {"number", "rate", "retryable", "duration", "tokens", "providers", "cidrs",
          "bearer"}

LEMMA LoadedNumbers ==
    ASSUME NEW file \in Files, NEW env \in Environments
    PROVE  /\ \A f \in Numbers : loaded(file, env).number[f]
                                   = UpstreamNumber(f, decode(file).number[f])
           /\ \A f \in Rates : loaded(file, env).rate[f]
                                 = UpstreamRate(f, decode(file).rate[f])
           /\ loaded(file, env).retryable # {}
<1> DEFINE d == decode(file)
           r == resolve(d, env)
           n == normalizeConfig(r)
<1>1. /\ r.number = d.number /\ r.rate = d.rate
      /\ DOMAIN r = Parts
  BY DEF Parts, resolve, decode
<1>2. /\ n.number = r.number /\ n.rate = r.rate
      /\ DOMAIN n = Parts
  BY <1>1 DEF Parts, normalizeConfig
<1>3. /\ loaded(file, env).number = [f \in Numbers |-> UpstreamNumber(f, n.number[f])]
      /\ loaded(file, env).rate = [f \in Rates |-> UpstreamRate(f, n.rate[f])]
      /\ loaded(file, env).retryable = IF n.retryable = {} THEN DefaultCodes
                                       ELSE n.retryable
  BY <1>2 DEF loaded, applyUpstreamDefaults, Parts
<1>4. DefaultCodes # {}
  BY DEF DefaultCodes
<1> QED
  BY <1>1, <1>2, <1>3, <1>4

LEMMA LoadedTokens ==
    ASSUME NEW file \in Files, NEW env \in Environments
    PROVE  /\ DOMAIN loaded(file, env).tokens = DOMAIN file.tokens
           /\ \A i \in DOMAIN file.tokens : loaded(file, env).tokens[i] =
                  normalizeToken(resolveToken(file.tokens[i], env))
<1> DEFINE r == resolve(decode(file), env)
           n == normalizeConfig(r)
<1>1. /\ r.tokens = [i \in DOMAIN file.tokens |-> resolveToken(file.tokens[i], env)]
      /\ DOMAIN r = Parts
  BY DEF Parts, resolve, decode
<1>2. /\ n.tokens = [i \in DOMAIN r.tokens |-> normalizeToken(r.tokens[i])]
      /\ DOMAIN n = Parts
  BY <1>1 DEF Parts, normalizeConfig
<1>3. loaded(file, env).tokens = n.tokens
  BY <1>2 DEF loaded, applyUpstreamDefaults
<1> QED
  BY <1>1, <1>2, <1>3

LEMMA LoadedProviders ==
    ASSUME NEW file \in Files, NEW env \in Environments
    PROVE  /\ DOMAIN loaded(file, env).providers = DOMAIN file.providers
           /\ \A i \in DOMAIN file.providers :
                 LET p == normalizeProvider(resolveKey(file.providers[i], env))
                 IN  loaded(file, env).providers[i] =
                        [p EXCEPT !.max_retries = IF p.max_retries < 0 THEN 0
                                                  ELSE p.max_retries]
<1> DEFINE r == resolve(decode(file), env)
           n == normalizeConfig(r)
<1>1. /\ r.providers = [i \in DOMAIN file.providers |-> resolveKey(file.providers[i], env)]
      /\ DOMAIN r = Parts
  BY DEF Parts, resolve, decode
<1>2. /\ n.providers = [i \in DOMAIN r.providers |-> normalizeProvider(r.providers[i])]
      /\ DOMAIN n = Parts
  BY <1>1 DEF Parts, normalizeConfig
<1>3. loaded(file, env).providers = [i \in DOMAIN n.providers |->
         [n.providers[i] EXCEPT !.max_retries = IF @ < 0 THEN 0 ELSE @]]
  BY <1>2 DEF loaded, applyUpstreamDefaults
<1> HIDE DEF n, r
<1>4. /\ DOMAIN n.providers = DOMAIN file.providers
      /\ \A i \in DOMAIN file.providers :
            n.providers[i] = normalizeProvider(resolveKey(file.providers[i], env))
  BY <1>1, <1>2
<1> QED
  BY <1>3, <1>4

LEMMA LoadedBearer ==
    ASSUME NEW file \in Files, NEW env \in Environments
    PROVE  loaded(file, env).bearer.token =
              TrimSpace(resolveBearer(file.bearer, env).token)
<1> DEFINE r == resolve(decode(file), env)
           n == normalizeConfig(r)
<1>1. /\ r.bearer = resolveBearer(file.bearer, env)
      /\ DOMAIN r = Parts
  BY DEF Parts, resolve, decode
<1>2. /\ n.bearer.token = TrimSpace(r.bearer.token)
      /\ DOMAIN n = Parts
  BY <1>1 DEF Parts, normalizeConfig
<1>3. loaded(file, env).bearer = n.bearer
  BY <1>2 DEF loaded, applyUpstreamDefaults
<1> QED
  BY <1>1, <1>2, <1>3

-----------------------------------------------------------------------------
(* What the parts of the gateway rely on.                                  *)

LEMMA LoadedToken ==
    ASSUME NEW file \in Files, NEW env \in Environments,
           NEW i \in DOMAIN file.tokens
    PROVE  LET t == file.tokens[i]
               u == loaded(file, env).tokens[i]
           IN  /\ u.disabled = t.disabled
               /\ u.value = TrimSpace(resolveToken(t, env).value)
               /\ u.rate_limit_qps = t.rate_limit_qps
<1> DEFINE t == file.tokens[i]
           r == resolveToken(t, env)
<1>1. t \in TokenEntries
  <2>1. file.tokens \in Seq(TokenEntries)
    BY DEF Files
  <2> QED
    BY <2>1
<1>2. /\ r.disabled = t.disabled /\ r.rate_limit_qps = t.rate_limit_qps
      /\ DOMAIN r = {"name", "value", "value_env", "rate_limit_qps",
                     "rate_limit_burst", "disabled"}
  BY <1>1 DEF resolveToken, TokenEntries
<1> HIDE DEF r
<1>3. /\ normalizeToken(r).disabled = r.disabled
      /\ normalizeToken(r).value = TrimSpace(r.value)
      /\ normalizeToken(r).rate_limit_qps = r.rate_limit_qps
  BY <1>2 DEF normalizeToken
<1>4. loaded(file, env).tokens[i] = normalizeToken(r)
  BY LoadedTokens DEF r
<1> QED
  BY <1>2, <1>3, <1>4 DEF r

LEMMA FloatRates ==
    ASSUME NEW file \in Files, ~HasNaN(file)
    PROVE  \A f \in Rates : decode(file).rate[f] \in Floats /\ ~decode(file).rate[f].nan
<1>1. \A f \in DOMAIN file.rate : file.rate[f] \in Floats /\ ~file.rate[f].nan
  BY DEF Files, HasNaN
<1>2. \A f \in Rates : DefaultRate[f] \in Floats /\ ~DefaultRate[f].nan
  <2>1. Float(1000) \in Floats /\ Float(50) \in Floats /\ ~Float(1000).nan /\ ~Float(50).nan
    BY DEF Float, Floats
  <2> QED
    BY <2>1 DEF Rates, DefaultRate
<1>3. \A f \in Rates : decode(file).rate[f] = IF f \in DOMAIN file.rate
                                              THEN file.rate[f] ELSE DefaultRate[f]
  BY DEF decode
<1> QED
  BY <1>1, <1>2, <1>3, Zenon

LEMMA BreakersReady ==
    ASSUME NEW file \in Files, NEW env \in Environments, Loads(file, env), ~HasNaN(file)
    PROVE  ReadyForBreakers(loaded(file, env))
<1> DEFINE ratio == "breaker_failure_ratio"
           counts == {"breaker_minimum_requests", "breaker_half_open_requests"}
<1>1. ratio \in Rates /\ counts \subseteq Numbers
  BY DEF Numbers, DefaultNumber, Rates, DefaultRate
<1>2. \A f \in counts : decode(file).number[f] \in Int /\ decode(file).number[f] >= 0
  BY DEF Loads, decodes, decode, Files, Numbers, DefaultNumber
<1>3. \A f \in counts : loaded(file, env).number[f] > 0
  BY <1>1, <1>2, LoadedNumbers DEF UpstreamNumber, DefaultNumber
<1> DEFINE x == decode(file).rate[ratio]
<1>4. x \in Floats /\ ~x.nan
  BY <1>1, FloatRates
<1>5. loaded(file, env).rate[ratio] = UpstreamRate(ratio, x)
  BY <1>1, LoadedNumbers
<1> HIDE DEF x
<1>6. Above(UpstreamRate(ratio, x), 0) /\ AtMost(UpstreamRate(ratio, x), 100)
  BY <1>4 DEF UpstreamRate, Above, AtMost, Floats, DefaultRate, Float
<1> QED
  BY <1>3, <1>5, <1>6 DEF ReadyForBreakers

LEMMA LimiterReady ==
    ASSUME NEW file \in Files, NEW env \in Environments, Loads(file, env), ~HasNaN(file)
    PROVE  ReadyForLimiter(loaded(file, env))
<1> DEFINE g == loaded(file, env)
           x == g.rate["rate_limit_qps"]
<1>1. validateConfig(g)
  BY DEF Loads
<1>2. x \in Floats /\ ~x.nan
  <2>1. "rate_limit_qps" \in Rates
    BY DEF Rates, DefaultRate
  <2>2. x = decode(file).rate["rate_limit_qps"]
    BY <2>1, LoadedNumbers DEF UpstreamRate
  <2> QED
    BY <2>1, <2>2, FloatRates
<1>3. \A i \in DOMAIN g.tokens :
         g.tokens[i].rate_limit_qps \in Floats /\ ~g.tokens[i].rate_limit_qps.nan
  <2>1. ASSUME NEW i \in DOMAIN file.tokens
        PROVE  /\ file.tokens[i].rate_limit_qps \in Floats
               /\ ~file.tokens[i].rate_limit_qps.nan
    <3>1. file.tokens \in Seq(TokenEntries)
      BY DEF Files
    <3>2. file.tokens[i] \in TokenEntries
      BY <3>1
    <3> QED
      BY <3>2 DEF TokenEntries, HasNaN
  <2>2. DOMAIN g.tokens = DOMAIN file.tokens
    BY LoadedTokens, Zenon
  <2>3. ASSUME NEW i \in DOMAIN file.tokens
        PROVE  g.tokens[i].rate_limit_qps = file.tokens[i].rate_limit_qps
    BY LoadedToken, Zenon
  <2> HIDE DEF g
  <2> QED
    BY <2>1, <2>2, <2>3, Zenon
<1> HIDE DEF g
<1>4. Above(x, 0) /\ g.number["rate_limit_burst"] > 0
  BY <1>1, <1>2 DEF validateConfig, Above, AtMost, Floats
<1>5. \A i \in EnabledOnes(g.tokens) :
         Above(g.tokens[i].rate_limit_qps, -1) /\ g.tokens[i].rate_limit_burst >= 0
  <2>1. validateTokenCatalog(g.tokens)
    BY <1>1 DEF validateConfig
  <2> QED
    BY <1>3, <2>1 DEF validateTokenCatalog, EnabledOnes, Above, Below, Floats
<1> QED
  BY <1>4, <1>5 DEF ReadyForLimiter, g

\* Names are compared after they are trimmed, so trimming them again shows no
\* new ones to be equal.
LEMMA RouterReady ==
    ASSUME NEW file \in Files, NEW env \in Environments, Loads(file, env)
    PROVE  ReadyForRouter(loaded(file, env))
<1> DEFINE g == loaded(file, env)
<1>1. validateConfig(g)
  BY DEF Loads
<1>2. \A i \in DOMAIN file.providers :
         LET p == file.providers[i]
         IN  /\ p.name \in Texts /\ p.max_retries \in Int
             /\ DOMAIN p = {"name", "base_url", "api_key", "api_key_env", "models",
                            "max_retries", "timeout_non_stream", "timeout_stream"}
  <2>1. file.providers \in Seq(Providers)
    BY DEF Files
  <2>2. \A i \in DOMAIN file.providers : file.providers[i] \in Providers
    BY <2>1
  <2> QED
    BY <2>2 DEF Providers
<1>3. \A i \in DOMAIN file.providers :
         LET p == file.providers[i]
             q == normalizeProvider(resolveKey(p, env))
         IN  /\ q.name = TrimSpace(p.name) /\ q.models = uniqueNonEmpty(p.models)
             /\ q.max_retries = p.max_retries
             /\ DOMAIN q = {"name", "base_url", "api_key", "api_key_env", "models",
                            "max_retries", "timeout_non_stream", "timeout_stream"}
  BY <1>2 DEF normalizeProvider, resolveKey
<1>4. /\ DOMAIN g.providers = DOMAIN file.providers
      /\ \A i \in DOMAIN file.providers :
            /\ g.providers[i].name = TrimSpace(file.providers[i].name)
            /\ g.providers[i].models = uniqueNonEmpty(file.providers[i].models)
            /\ g.providers[i].max_retries >= 0
  <2>1. DOMAIN g.providers = DOMAIN file.providers
    BY LoadedProviders
  <2>2. SUFFICES ASSUME NEW i \in DOMAIN file.providers
                 PROVE  /\ g.providers[i].name = TrimSpace(file.providers[i].name)
                        /\ g.providers[i].models = uniqueNonEmpty(file.providers[i].models)
                        /\ g.providers[i].max_retries >= 0
    BY <2>1
  <2> DEFINE q == normalizeProvider(resolveKey(file.providers[i], env))
  <2>3. g.providers[i] = [q EXCEPT !.max_retries = IF q.max_retries < 0 THEN 0
                                                     ELSE q.max_retries]
    BY LoadedProviders
  <2>4. /\ q.name = TrimSpace(file.providers[i].name)
        /\ q.models = uniqueNonEmpty(file.providers[i].models)
        /\ q.max_retries \in Int
        /\ DOMAIN q = {"name", "base_url", "api_key", "api_key_env", "models",
                       "max_retries", "timeout_non_stream", "timeout_stream"}
    BY <1>2, <1>3
  <2> HIDE DEF q, g
  <2> QED
    BY <2>3, <2>4
<1>5. g.number["default_max_retries"] >= 0
  <2>1. decode(file).number["default_max_retries"] \in Int
    BY DEF decode, Files, Numbers, DefaultNumber
  <2>2. "default_max_retries" \in Numbers
    BY DEF Numbers, DefaultNumber
  <2> QED
    BY <2>1, <2>2, LoadedNumbers DEF UpstreamNumber
<1> HIDE DEF g
<1>6. \A i, j \in DOMAIN g.providers :
         TrimSpace(g.providers[i].name) = TrimSpace(g.providers[j].name) => i = j
  <2>2. \A i \in DOMAIN g.providers :
           TrimSpace(g.providers[i].name) = g.providers[i].name
    BY <1>4, TrimmedTwice
  <2>3. \A i, j \in DOMAIN g.providers : i # j =>
           g.providers[i].name # g.providers[j].name
    BY <1>1 DEF validateConfig
  <2> QED
    BY <2>2, <2>3
<1>7. \A i \in DOMAIN g.providers :
         \E m \in g.providers[i].models : m # Empty /\ ~m.padded
  <2>0. \A i \in DOMAIN g.providers : validProvider(g.providers[i])
    BY <1>1 DEF validateConfig
  <2>1. \A i \in DOMAIN g.providers : g.providers[i].models # {}
    BY <2>0 DEF validProvider
  <2>2. \A S : \A m \in uniqueNonEmpty(S) : m # Empty /\ ~m.padded
    BY DEF uniqueNonEmpty, TrimSpace, Text
  <2> QED
    BY <2>1, <2>2, <1>4
<1> QED
  BY <1>4, <1>5, <1>6, <1>7, LoadedNumbers DEF ReadyForRouter, g

\* Values too are compared after they are trimmed.
LEMMA RegistryReady ==
    ASSUME NEW file \in Files, NEW env \in Environments, Loads(file, env)
    PROVE  ReadyForRegistry(loaded(file, env))
<1> DEFINE g == loaded(file, env)
<1>1. validateConfig(g)
  BY DEF Loads
<1>2. DOMAIN g.tokens = DOMAIN file.tokens
  BY LoadedTokens
<1>3. \A i \in DOMAIN g.tokens : TrimSpace(g.tokens[i].value) = g.tokens[i].value
  <2>1. \A i \in DOMAIN g.tokens :
           g.tokens[i].value = TrimSpace(resolveToken(file.tokens[i], env).value)
    BY <1>2, LoadedToken
  <2> HIDE DEF g
  <2> QED
    BY <2>1, TrimmedTwice
<1> HIDE DEF g
<1>4. validateTokenCatalog(g.tokens)
  BY <1>1 DEF validateConfig
<1>5. \A i, j \in EnabledOnes(g.tokens) : i # j => g.tokens[i].value # g.tokens[j].value
  BY <1>4 DEF validateTokenCatalog
<1>6. ReadyForRegistry(g)
  BY <1>3, <1>5 DEF ReadyForRegistry, EnabledOnes
<1> QED
  BY <1>6 DEF g

LEMMA SecretsResolved ==
    ASSUME NEW file \in Files, NEW env \in Environments, Loads(file, env)
    PROVE  SecretsFromEnvironment(loaded(file, env), env)
<1> DEFINE g == loaded(file, env)
           material == {TrimSpace(env[n]) : n \in DOMAIN env}
<1>1. resolves(decode(file), env)
  BY DEF Loads
<1>2. /\ \A i \in DOMAIN file.tokens : tokenResolves(file.tokens[i], env)
      /\ \A i \in DOMAIN file.providers : keyResolves(file.providers[i], env)
      /\ IsBlank(file.bearer.token)
  BY <1>1 DEF resolves, decode
<1>3. ASSUME NEW i \in EnabledOnes(g.tokens)
      PROVE  g.tokens[i].value \in material \ {Empty}
  <2>1. i \in DOMAIN file.tokens /\ DOMAIN g.tokens = DOMAIN file.tokens
    BY LoadedTokens DEF EnabledOnes
  <2> DEFINE t == file.tokens[i]
  <2>2. /\ g.tokens[i].disabled = t.disabled
        /\ g.tokens[i].value = TrimSpace(resolveToken(t, env).value)
    BY <2>1, LoadedToken
  <2>3. ~t.disabled
    BY <2>2 DEF EnabledOnes
  <2>4. Defined(env, t.value_env)
    BY <1>2, <2>1, <2>3 DEF tokenResolves
  <2>5. DOMAIN t = {"name", "value", "value_env", "rate_limit_qps",
                    "rate_limit_burst", "disabled"}
    <3>1. file.tokens \in Seq(TokenEntries)
      BY DEF Files
    <3>2. t \in TokenEntries
      BY <2>1, <3>1
    <3> QED
      BY <3>2 DEF TokenEntries
  <2> HIDE DEF t
  <2>6. resolveToken(t, env).value = TrimSpace(env[t.value_env])
    BY <2>3, <2>5 DEF resolveToken
  <2>7. g.tokens[i].value = TrimSpace(env[t.value_env])
    BY TrimmedTwice, <2>2, <2>6
  <2>8. t.value_env \in DOMAIN env /\ TrimSpace(env[t.value_env]) # Empty
    BY <2>4 DEF Defined, IsBlank
  <2> HIDE DEF g
  <2> QED
    BY <2>7, <2>8
<1>4. ASSUME NEW i \in DOMAIN g.providers
      PROVE  g.providers[i].api_key \in material \cup {Empty}
  <2>1. i \in DOMAIN file.providers
    BY LoadedProviders
  <2> DEFINE p == file.providers[i]
             r == resolveKey(p, env)
             q == normalizeProvider(r)
  <2>2. g.providers[i] = [q EXCEPT !.max_retries = IF q.max_retries < 0 THEN 0
                                                   ELSE q.max_retries]
    BY <2>1, LoadedProviders
  <2>3. keyResolves(p, env)
    BY <1>2, <2>1
  <2>4. DOMAIN p = {"name", "base_url", "api_key", "api_key_env", "models",
                    "max_retries", "timeout_non_stream", "timeout_stream"}
    <3>1. file.providers \in Seq(Providers)
      BY DEF Files
    <3>2. p \in Providers
      BY <2>1, <3>1
    <3> QED
      BY <3>2 DEF Providers
  <2> HIDE DEF p
  <2>5. /\ DOMAIN r = DOMAIN p
        /\ r.api_key = IF IsBlank(p.api_key_env) THEN p.api_key
                       ELSE TrimSpace(env[TrimSpace(p.api_key_env)])
    BY <2>4 DEF resolveKey
  <2> HIDE DEF r
  <2>6. DOMAIN q = DOMAIN p /\ q.api_key = TrimSpace(r.api_key)
    BY <2>4, <2>5 DEF normalizeProvider
  <2> HIDE DEF q, g
  <2>7. g.providers[i].api_key = TrimSpace(r.api_key)
    BY <2>2, <2>4, <2>6
  <2>8. CASE IsBlank(p.api_key_env)
    BY <2>3, <2>5, <2>7, <2>8 DEF keyResolves, IsBlank
  <2>9. CASE ~IsBlank(p.api_key_env)
    <3>1. TrimSpace(p.api_key_env) \in DOMAIN env
      BY <2>3, <2>9 DEF keyResolves, Defined
    <3>2. g.providers[i].api_key = TrimSpace(env[TrimSpace(p.api_key_env)])
      BY TrimmedTwice, <2>5, <2>7, <2>9
    <3> QED
      BY <3>1, <3>2
  <2> QED
    BY <2>8, <2>9
<1>5. g.bearer.token \in material \cup {Empty}
  <2> DEFINE b == file.bearer
             name == TrimSpace(b.token_env)
  <2>1. g.bearer.token = TrimSpace(resolveBearer(b, env).token)
    BY LoadedBearer
  <2>2. DOMAIN b = {"token", "token_env"} /\ TrimSpace(b.token) = Empty
    BY <1>2 DEF Files, IsBlank
  <2> HIDE DEF b, g
  <2>3. CASE name # Empty /\ Defined(env, name)
    <3>1. resolveBearer(b, env).token = TrimSpace(env[name])
      BY <2>2, <2>3 DEF resolveBearer
    <3> QED
      BY TrimmedTwice, <2>1, <2>3, <3>1 DEF Defined
  <2>4. CASE ~(name # Empty /\ Defined(env, name))
    BY <2>1, <2>2, <2>4 DEF resolveBearer
  <2> QED
    BY <2>3, <2>4
<1> QED
  BY <1>3, <1>4, <1>5 DEF SecretsFromEnvironment

\* Whatever file and environment LoadConfig accepts, the breakers find their
\* ratio, minimum and trials in range and the limiter positive rates, unless
\* the file has a NaN; the router finds providers told apart by name with
\* models to serve, the registry tokens told apart by value, and every secret
\* comes from the environment.
THEOREM ConfigurationSound ==
    \A file \in Files, env \in Environments : LoadedIsSound(file, env)
<1> SUFFICES ASSUME NEW file \in Files, NEW env \in Environments,
                    Loads(file, env)
             PROVE  /\ ~HasNaN(file) => /\ ReadyForBreakers(loaded(file, env))
                                        /\ ReadyForLimiter(loaded(file, env))
                    /\ ReadyForRouter(loaded(file, env))
                    /\ ReadyForRegistry(loaded(file, env))
                    /\ SecretsFromEnvironment(loaded(file, env), env)
  BY DEF LoadedIsSound
<1> QED
  BY BreakersReady, LimiterReady, RouterReady, RegistryReady, SecretsResolved

-----------------------------------------------------------------------------
(* The timeout of an attempt.                                              *)

\* The default timeouts and a provider's reach providerTimeout as they are
\* written, or as the default is.
LEMMA LoadedTimeouts ==
    ASSUME NEW file \in Files, NEW env \in Environments
    PROVE  /\ \A f \in {"default_timeout_non_stream", "default_timeout_stream"} :
                 loaded(file, env).duration[f] \in Times
           /\ \A i \in DOMAIN file.providers :
                 /\ loaded(file, env).providers[i].timeout_non_stream \in Times
                 /\ loaded(file, env).providers[i].timeout_stream \in Times
<1> DEFINE d == decode(file)
           r == resolve(d, env)
           n == normalizeConfig(r)
           own == {"default_timeout_non_stream", "default_timeout_stream"}
<1>0. own \subseteq Durations /\ own \cap Trimmed = {} /\ own \cap Defaulted = {}
  BY DEF Durations, DefaultDuration, Trimmed, Defaulted
<1>1. \A f \in own : d.duration[f] \in Times
  <2>1. \A f \in own : f \in DOMAIN file.duration => file.duration[f] \in Times
    BY DEF Files
  <2>2. \A f \in own : Text(DefaultDuration[f]) \in Times
    BY DEF Text, DefaultDuration, Times
  <2>3. \A f \in own : d.duration[f] = IF f \in DOMAIN file.duration
                          THEN file.duration[f] ELSE Text(DefaultDuration[f])
    BY <1>0 DEF decode
  <2> QED
    BY <2>1, <2>2, <2>3
<1>2. /\ r.duration = d.duration
      /\ DOMAIN r = Parts
  BY DEF Parts, resolve, decode
<1> HIDE DEF r, d
<1>3. /\ \A f \in own : n.duration[f] = r.duration[f]
      /\ DOMAIN n = Parts
  BY <1>0, <1>2 DEF Parts, normalizeConfig
<1> HIDE DEF n
<1>4. \A f \in own : applyUpstreamDefaults(n).duration[f] = n.duration[f]
  BY <1>0, <1>3 DEF applyUpstreamDefaults
<1>5. ASSUME NEW i \in DOMAIN file.providers
      PROVE  /\ loaded(file, env).providers[i].timeout_non_stream \in Times
             /\ loaded(file, env).providers[i].timeout_stream \in Times
  <2> DEFINE p == file.providers[i]
             s == resolveKey(p, env)
             q == normalizeProvider(s)
  <2>1. p \in Providers
    <3>1. file.providers \in Seq(Providers)
      BY DEF Files
    <3> QED
      BY <3>1
  <2>2. /\ DOMAIN p = {"name", "base_url", "api_key", "api_key_env", "models",
                       "max_retries", "timeout_non_stream", "timeout_stream"}
        /\ p.timeout_non_stream \in Times /\ p.timeout_stream \in Times
    BY <2>1 DEF Providers
  <2>3. loaded(file, env).providers[i] =
           [q EXCEPT !.max_retries = IF q.max_retries < 0 THEN 0 ELSE q.max_retries]
    BY LoadedProviders
  <2> HIDE DEF p
  <2>4. /\ DOMAIN s = DOMAIN p
        /\ s.timeout_non_stream = p.timeout_non_stream
        /\ s.timeout_stream = p.timeout_stream
    BY <2>2 DEF resolveKey
  <2> HIDE DEF s
  <2>5. /\ DOMAIN q = DOMAIN p
        /\ q.timeout_non_stream = p.timeout_non_stream
        /\ q.timeout_stream = p.timeout_stream
    BY <2>2, <2>4 DEF normalizeProvider
  <2> HIDE DEF q
  <2> QED
    BY <2>2, <2>3, <2>5
<1> QED
  BY <1>1, <1>2, <1>3, <1>4, <1>5 DEF loaded, n, r, d

\* Whatever LoadConfig accepts, an attempt has the provider's own timeout, or
\* else the configured default of its kind, when both were written without
\* blanks around them.
THEOREM TimeoutsHonoured ==
    \A file \in Files, env \in Environments : TimeoutHonoured(file, env)
<1> SUFFICES ASSUME NEW file \in Files, NEW env \in Environments,
                    Loads(file, env)
             PROVE  TimeoutHonoured(file, env)
  BY DEF TimeoutHonoured
<1> DEFINE g == loaded(file, env)
<1>1. validateConfig(g) /\ DOMAIN g.providers = DOMAIN file.providers
  BY LoadedProviders DEF Loads
<1>2. \A f \in {"default_timeout_non_stream", "default_timeout_stream"} :
         g.duration[f] \in Times /\ g.duration[f].core > 0
  <2>1. \A f \in Durations : validatePositiveDuration(g.duration[f])
    BY <1>1 DEF validateConfig
  <2>2. {"default_timeout_non_stream", "default_timeout_stream"} \subseteq Durations
    BY DEF Durations, DefaultDuration
  <2> QED
    BY <2>1, <2>2, LoadedTimeouts DEF validatePositiveDuration
<1>3. \A i \in DOMAIN g.providers :
         \A t \in {g.providers[i].timeout_non_stream, g.providers[i].timeout_stream} :
            t \in Times /\ (t.core = -1 \/ t.core > 0)
  <2>1. \A i \in DOMAIN g.providers : validProvider(g.providers[i])
    BY <1>1 DEF validateConfig
  <2> QED
    BY <1>1, <2>1, LoadedTimeouts DEF validProvider, validatePositiveDuration, Unset
<1> HIDE DEF g
<1>4. \A t \in Times : ~t.padded /\ t.core > 0 => parseDuration(t) = t.core
  BY DEF Times, parseDuration
<1>5. \A t \in Times : t.core = -1 => parseDuration(t) = 0
  BY DEF Times, parseDuration
<1>6. ASSUME NEW i \in DOMAIN g.providers, NEW isStream \in BOOLEAN
      PROVE  LET p      == g.providers[i]
                 own    == IF isStream THEN p.timeout_stream ELSE p.timeout_non_stream
                 shared == g.duration[IF isStream THEN "default_timeout_stream"
                                      ELSE "default_timeout_non_stream"]
             IN  ~own.padded /\ ~shared.padded =>
                     providerTimeout(g, p, isStream) =
                         IF own.core > 0 THEN own.core ELSE shared.core
  <2> DEFINE p      == g.providers[i]
             own    == IF isStream THEN p.timeout_stream ELSE p.timeout_non_stream
             shared == g.duration[IF isStream THEN "default_timeout_stream"
                                  ELSE "default_timeout_non_stream"]
  <2>1. /\ own \in Times /\ (own.core = -1 \/ own.core > 0)
        /\ shared \in Times /\ shared.core > 0
    BY <1>2, <1>3
  <2>0. own.core \in Int /\ shared.core \in Int
    BY <2>1 DEF Times
  <2>2. SUFFICES ASSUME ~own.padded, ~shared.padded
                 PROVE  providerTimeout(g, p, isStream) =
                           IF own.core > 0 THEN own.core ELSE shared.core
    OBVIOUS
  <2>3. parseDuration(shared) = shared.core
    BY <1>4, <2>1, <2>2
  <2>4. providerTimeout(g, p, isStream) =
           LET mine == parseDuration(own)
               all  == parseDuration(shared)
           IN  CASE mine > 0              -> mine
                 [] mine <= 0 /\ all > 0  -> all
                 [] OTHER -> DefaultDuration[IF isStream THEN "default_timeout_stream"
                                             ELSE "default_timeout_non_stream"]
    BY DEF providerTimeout
  <2>5. CASE own.core > 0
    <3>1. parseDuration(own) = own.core
      BY <1>4, <2>1, <2>2, <2>5
    <3> HIDE DEF own, shared, p
    <3> QED
      BY <2>0, <2>3, <2>4, <2>5, <3>1
  <2>6. CASE own.core = -1
    <3>1. parseDuration(own) = 0
      BY <1>5, <2>1, <2>6
    <3> HIDE DEF own, shared, p
    <3> QED
      BY <2>0, <2>1, <2>3, <2>4, <2>6, <3>1
  <2> QED
    BY <2>1, <2>5, <2>6
<1> QED
  BY <1>6 DEF TimeoutHonoured, g

-----------------------------------------------------------------------------
(* The token registry, for any threads, tokens and configurations.         *)
(* The inductive invariant.                                                *)

\* The registry holds the enabled tokens of one configuration, its only one.
Built == \E c \in Configs : tokenRegistry = Enabled(c) /\ builtFrom = <<c>>

\* registryInitMu is held by the one thread that is between its Lock and its
\* Unlock.
Exclusive ==
    \A t \in Threads :
        pc[t] \in {"recheck", "build", "mark", "unlock"} => registryInitMu = t

\* The registry is built before the flag is set, the flag before the lock is
\* released, and nothing was built while the flag is not set, except by the
\* thread about to set it.
Order ==
    /\ registryInited => Built
    /\ \A t \in Threads :
          /\ pc[t] = "build" => ~registryInited /\ builtFrom = <<>>
          /\ pc[t] = "mark" => ~registryInited /\ Built
          /\ pc[t] \in {"unlock", "lookup"} => registryInited
    /\ ~registryInited => builtFrom = <<>> \/ \E t \in Threads : pc[t] = "mark"

\* There is no verdict before the lookup.
Unjudged == \A t \in Threads : pc[t] # "done" => verdict[t] = "none"

IInv == TypeOK /\ Exclusive /\ Order /\ Unjudged /\ EnabledNotRefused

-----------------------------------------------------------------------------

LEMMA InitIInv == Init => IInv
<1>1. <<>> \in Seq(Configs)
  OBVIOUS
<1>2. QED
  BY <1>1, ConfigAssumption, Zenon
  DEF Init, IInv, TypeOK, Exclusive, Order, Unjudged, EnabledNotRefused, Built,
      Stages

LEMMA TypeStep == TypeOK /\ [Next]_vars => TypeOK'
<1> SUFFICES ASSUME TypeOK, [Next]_vars PROVE TypeOK'
  OBVIOUS
<1> USE ConfigAssumption DEF TypeOK, Stages
<1>1. CASE LoadConfig
  BY <1>1 DEF LoadConfig
<1>2. ASSUME NEW t \in Threads, Arrive(t) \/ Step(t) \/ Leave(t)
      PROVE  TypeOK'
  <2>1. CASE Arrive(t)
    BY <2>1 DEF Arrive
  <2>2. CASE ReadInited(t)
    BY <2>2 DEF ReadInited
  <2>3. CASE LockInit(t)
    BY <2>3 DEF LockInit
  <2>4. CASE Recheck(t)
    BY <2>4 DEF Recheck, mustBuild, initedDuringBuild
  <2>5. CASE Publish(t)
    <3>1. tokenRegistry' \in {Enabled(c) : c \in Configs}
      <4>1. tokenRegistry' = Enabled(config) /\ config \in Configs
        BY <2>5 DEF Publish, registryOf, Enabled
      <4> QED
        BY <4>1, Zenon
    <3>2. builtFrom' \in Seq(Configs)
      BY <2>5 DEF Publish
    <3>3. pc' \in [Threads -> Stages]
      BY <2>5 DEF Publish
    <3>4. UNCHANGED <<config, registryInited, registryInitMu, token, verdict>>
      BY <2>5 DEF Publish
    <3> QED
      BY <3>1, <3>2, <3>3, <3>4, Zenon
  <2>6. CASE MarkInited(t)
    BY <2>6 DEF MarkInited
  <2>7. CASE UnlockInit(t)
    BY <2>7 DEF UnlockInit
  <2>8. CASE Lookup(t)
    BY <2>8 DEF Lookup
  <2>9. CASE Leave(t)
    BY <2>9 DEF Leave
  <2>10. QED
    BY <1>2, <2>1, <2>2, <2>3, <2>4, <2>5, <2>6, <2>7, <2>8, <2>9 DEF Step
<1>3. CASE UNCHANGED vars
  BY <1>3 DEF vars
<1>4. QED
  BY <1>1, <1>2, <1>3 DEF Next

LEMMA ExclusiveStep == IInv /\ [Next]_vars => Exclusive'
<1> SUFFICES ASSUME IInv, [Next]_vars PROVE Exclusive'
  OBVIOUS
<1> USE ConfigAssumption DEF IInv, TypeOK, Exclusive
<1>1. CASE LoadConfig
  BY <1>1 DEF LoadConfig
<1>2. ASSUME NEW t \in Threads, Arrive(t) \/ Step(t) \/ Leave(t)
      PROVE  Exclusive'
  BY <1>2 DEF Step, Arrive, ReadInited, LockInit, Recheck, Publish, MarkInited,
              UnlockInit, Lookup, Leave
<1>3. CASE UNCHANGED vars
  BY <1>3 DEF vars
<1>4. QED
  BY <1>1, <1>2, <1>3 DEF Next

LEMMA OrderStep == IInv /\ [Next]_vars => Order'
<1> SUFFICES ASSUME IInv, [Next]_vars PROVE Order'
  OBVIOUS
<1> USE ConfigAssumption DEF IInv, TypeOK, Exclusive, Order, Built
<1>1. CASE LoadConfig
  BY <1>1 DEF LoadConfig
<1>2. ASSUME NEW t \in Threads, Arrive(t) \/ Step(t) \/ Leave(t)
      PROVE  Order'
  <2>1. CASE Arrive(t)
    BY <2>1 DEF Arrive
  <2>2. CASE ReadInited(t)
    <3>1. /\ UNCHANGED <<tokenRegistry, registryInited, builtFrom>>
          /\ pc[t] = "check"
      BY <2>2 DEF ReadInited
    <3>2. PICK inited \in {FALSE, registryInited} :
             pc' = [pc EXCEPT ![t] = IF inited THEN "lookup" ELSE "lock"]
      BY <2>2, Zenon DEF ReadInited
    <3>3. CASE inited
      <4>1. registryInited
        BY <3>2, <3>3, Zenon
      <4>2. pc' = [pc EXCEPT ![t] = "lookup"]
        BY <3>2, <3>3, Zenon
      <4>3. QED
        BY <3>1, <4>1, <4>2
    <3>4. CASE ~inited
      <4>1. pc' = [pc EXCEPT ![t] = "lock"]
        BY <3>2, <3>4, Zenon
      <4>2. QED
        BY <3>1, <4>1
    <3>5. QED
      BY <3>3, <3>4
  <2>3. CASE LockInit(t)
    BY <2>3 DEF LockInit
  <2>4. CASE Recheck(t)
    BY <2>4 DEF Recheck, mustBuild, initedDuringBuild
  <2>5. CASE Publish(t)
    <3>1. builtFrom = <<>> /\ ~registryInited
      BY <2>5 DEF Publish
    <3>2. builtFrom' = <<config>> /\ tokenRegistry' = Enabled(config)
      BY <2>5, <3>1 DEF Publish, registryOf, Enabled
    <3>3. Built'
      BY <2>5, <3>2 DEF Publish
    <3>4. QED
      BY <2>5, <3>1, <3>3 DEF Publish
  <2>6. CASE MarkInited(t)
    BY <2>6 DEF MarkInited
  <2>7. CASE UnlockInit(t)
    BY <2>7 DEF UnlockInit
  <2>8. CASE Lookup(t)
    BY <2>8 DEF Lookup
  <2>9. CASE Leave(t)
    BY <2>9 DEF Leave
  <2>10. QED
    BY <1>2, <2>1, <2>2, <2>3, <2>4, <2>5, <2>6, <2>7, <2>8, <2>9 DEF Step
<1>3. CASE UNCHANGED vars
  BY <1>3 DEF vars
<1>4. QED
  BY <1>1, <1>2, <1>3 DEF Next

LEMMA UnjudgedStep == IInv /\ [Next]_vars => Unjudged'
<1> SUFFICES ASSUME IInv, [Next]_vars PROVE Unjudged'
  OBVIOUS
<1> USE DEF IInv, TypeOK, Unjudged
<1>1. CASE LoadConfig
  BY <1>1 DEF LoadConfig
<1>2. ASSUME NEW t \in Threads, Arrive(t) \/ Step(t) \/ Leave(t)
      PROVE  Unjudged'
  BY <1>2 DEF Step, Arrive, ReadInited, LockInit, Recheck, Publish, MarkInited,
              UnlockInit, Lookup, Leave
<1>3. CASE UNCHANGED vars
  BY <1>3 DEF vars
<1>4. QED
  BY <1>1, <1>2, <1>3 DEF Next

\* A verdict is given on a registry that was built, so that a refused token is
\* missing from the configuration it was built from.
LEMMA VerdictStep == IInv /\ [Next]_vars => EnabledNotRefused'
<1> SUFFICES ASSUME IInv, [Next]_vars PROVE EnabledNotRefused'
  OBVIOUS
<1> USE DEF IInv, TypeOK, EnabledNotRefused
<1>1. CASE LoadConfig
  BY <1>1 DEF LoadConfig
<1>2. ASSUME NEW t \in Threads, Arrive(t) \/ Step(t) \/ Leave(t)
      PROVE  EnabledNotRefused'
  <2>1. CASE Lookup(t)
    <3>1. registryInited
      BY <2>1 DEF Lookup, Order
    <3>2. PICK c \in Configs : tokenRegistry = Enabled(c)
      BY <3>1 DEF Order, Built
    <3>3. token' = token /\ verdict' = [verdict EXCEPT ![t] =
                 IF token[t] \in tokenRegistry THEN "known" ELSE "unknown"]
      BY <2>1 DEF Lookup
    <3>4. QED
      BY <3>2, <3>3
  <2>2. CASE Leave(t)
    BY <2>2 DEF Leave
  <2>3. CASE Arrive(t)
    <3>1. verdict[t] = "none"
      BY <2>3 DEF Arrive, Unjudged
    <3>2. QED
      BY <2>3, <3>1 DEF Arrive
  <2>4. CASE /\ ~Lookup(t)
             /\ Step(t)
    BY <2>4 DEF Step, ReadInited, LockInit, Recheck, Publish, MarkInited, UnlockInit
  <2>5. QED
    BY <1>2, <2>1, <2>2, <2>3, <2>4
<1>3. CASE UNCHANGED vars
  BY <1>3 DEF vars
<1>4. QED
  BY <1>1, <1>2, <1>3 DEF Next

LEMMA Inductive == Spec => []IInv
<1>1. IInv /\ [Next]_vars => IInv'
  BY TypeStep, ExclusiveStep, OrderStep, UnjudgedStep, VerdictStep DEF IInv
<1>2. QED
  BY InitIInv, <1>1, PTL DEF Spec

\* The registry and the threads keep their types: the registry is empty or the
\* enabled tokens of a configuration.
THEOREM TypeCorrect == Spec => []TypeOK
<1>1. IInv => TypeOK
  BY DEF IInv
<1>2. QED
  BY Inductive, <1>1, PTL

\* A token that every configuration enables is never refused, whatever the
\* interleaving of the requests that build the registry.
THEOREM EnabledNotRefusedHolds == Spec => []EnabledNotRefused
<1>1. IInv => EnabledNotRefused
  BY DEF IInv
<1>2. QED
  BY Inductive, <1>1, PTL

\* The registry is built at most once.
THEOREM BuiltOnceHolds == Spec => []BuiltOnce
<1>1. IInv => BuiltOnce
  BY DEF IInv, Order, Built, BuiltOnce
<1>2. QED
  BY Inductive, <1>1, PTL

=============================================================================
