---------------------------- MODULE TokenRegistry ----------------------------
(***************************************************************************)
(* The token registry of internal/middleware/auth.go: built from the       *)
(* configuration by the first requests that need it, and looked up by all. *)
(*                                                                         *)
(* registryInited is read under tokenRegistryMu but written under          *)
(* registryInitMu: the read races with the write, and may miss it.         *)
(***************************************************************************)
EXTENDS Naturals, Sequences

CONSTANTS
    Tokens,         \* bearer tokens
    Configs,        \* configurations: the tokens listed, and the disabled
    Threads,        \* requests in AuthMiddleware
    Free            \* no thread

ASSUME ConfigAssumption ==
    /\ Configs \subseteq [tokens : SUBSET Tokens, disabled : SUBSET Tokens]
    /\ Free \notin Threads

VARIABLES
    config,             \* config.GlobalConfig
    tokenRegistry,      \* the registry; empty (nil) before it is built
    registryInited,
    registryInitMu,     \* the thread that holds it, or Free
    builtFrom,          \* the configurations of the rebuilds so far, in order
    pc, token, verdict  \* of each thread

vars == <<config, tokenRegistry, registryInited, registryInitMu, builtFrom,
          pc, token, verdict>>

Init ==
    /\ config \in Configs
    /\ tokenRegistry = {}
    /\ registryInited = FALSE
    /\ registryInitMu = Free
    /\ builtFrom = <<>>
    /\ pc = [t \in Threads |-> "idle"]
    /\ token \in [Threads -> Tokens]
    /\ verdict = [t \in Threads |-> "none"]

LoadConfig ==
    /\ config' \in Configs \ {config}
    /\ UNCHANGED <<tokenRegistry, registryInited, registryInitMu, builtFrom,
                   pc, token, verdict>>

\* AuthMiddleware has taken a token from the header.
Arrive(t) ==
    /\ pc[t] = "idle"
    /\ \E k \in Tokens : token' = [token EXCEPT ![t] = k]
    /\ pc' = [pc EXCEPT ![t] = "check"]
    /\ UNCHANGED <<config, tokenRegistry, registryInited, registryInitMu,
                   builtFrom, verdict>>

\* The unsynchronised read: a set flag may still read as not set.
ReadInited(t) ==
    /\ pc[t] = "check"
    /\ \E inited \in {FALSE, registryInited} :
          pc' = [pc EXCEPT ![t] = IF inited THEN "lookup" ELSE "lock"]
    /\ UNCHANGED <<config, tokenRegistry, registryInited, registryInitMu,
                   builtFrom, token, verdict>>

LockInit(t) ==
    /\ pc[t] = "lock"
    /\ registryInitMu = Free
    /\ registryInitMu' = t
    /\ pc' = [pc EXCEPT ![t] = "recheck"]
    /\ UNCHANGED <<config, tokenRegistry, registryInited, builtFrom, token,
                   verdict>>

\* Faulty variant: the flag is not read again under the lock.
mustBuildAlways == TRUE

mustBuild == ~registryInited

\* Faulty variant: the flag is set before the registry is built.
initedDuringBuildEarly == TRUE

initedDuringBuild == registryInited

\* Under the lock: the registry was built meanwhile, or is to be built.
Recheck(t) ==
    /\ pc[t] = "recheck"
    /\ IF mustBuild
       THEN /\ registryInited' = initedDuringBuild
            /\ pc' = [pc EXCEPT ![t] = "build"]
       ELSE /\ pc' = [pc EXCEPT ![t] = "unlock"]
            /\ UNCHANGED registryInited
    /\ UNCHANGED <<config, tokenRegistry, registryInitMu, builtFrom, token,
                   verdict>>

registryOf(cfg) == cfg.tokens \ cfg.disabled

\* rebuildTokenRegistry, from the configuration of this moment.
Publish(t) ==
    /\ pc[t] = "build"
    /\ tokenRegistry' = registryOf(config)
    /\ builtFrom' = Append(builtFrom, config)
    /\ pc' = [pc EXCEPT ![t] = "mark"]
    /\ UNCHANGED <<config, registryInited, registryInitMu, token, verdict>>

MarkInited(t) ==
    /\ pc[t] = "mark"
    /\ registryInited' = TRUE
    /\ pc' = [pc EXCEPT ![t] = "unlock"]
    /\ UNCHANGED <<config, tokenRegistry, registryInitMu, builtFrom, token,
                   verdict>>

UnlockInit(t) ==
    /\ pc[t] = "unlock"
    /\ registryInitMu' = Free
    /\ pc' = [pc EXCEPT ![t] = "lookup"]
    /\ UNCHANGED <<config, tokenRegistry, registryInited, builtFrom, token,
                   verdict>>

\* The lookup under tokenRegistryMu, and the end of the request.
Lookup(t) ==
    /\ pc[t] = "lookup"
    /\ verdict' = [verdict EXCEPT ![t] =
                      IF token[t] \in tokenRegistry THEN "known" ELSE "unknown"]
    /\ pc' = [pc EXCEPT ![t] = "done"]
    /\ UNCHANGED <<config, tokenRegistry, registryInited, registryInitMu,
                   builtFrom, token>>

Leave(t) ==
    /\ pc[t] = "done"
    /\ verdict' = [verdict EXCEPT ![t] = "none"]
    /\ pc' = [pc EXCEPT ![t] = "idle"]
    /\ UNCHANGED <<config, tokenRegistry, registryInited, registryInitMu,
                   builtFrom, token>>

Step(t) ==
    \/ ReadInited(t) \/ LockInit(t) \/ Recheck(t) \/ Publish(t)
    \/ MarkInited(t) \/ UnlockInit(t) \/ Lookup(t)

Next ==
    \/ LoadConfig
    \/ \E t \in Threads : Arrive(t) \/ Step(t) \/ Leave(t)

Spec == Init /\ [][Next]_vars

-----------------------------------------------------------------------------
(* Properties.                                                             *)

Stages == {"idle", "check", "lock", "recheck", "build", "mark", "unlock",
           "lookup", "done"}

Enabled(cfg) == cfg.tokens \ cfg.disabled

TypeOK ==
    /\ config \in Configs
    /\ tokenRegistry \in {Enabled(c) : c \in Configs} \cup {{}}
    /\ registryInited \in BOOLEAN
    /\ registryInitMu \in Threads \cup {Free}
    /\ builtFrom \in Seq(Configs)
    /\ pc \in [Threads -> Stages]
    /\ token \in [Threads -> Tokens]
    /\ verdict \in [Threads -> {"none", "known", "unknown"}]

\* A token that is enabled in every configuration is never refused: nobody
\* looks into the registry before it is built (the double-checked
\* ensureTokenRegistry, its racing read included).
EnabledNotRefused ==
    \A t \in Threads :
        verdict[t] = "unknown" => \E c \in Configs : token[t] \notin Enabled(c)

\* The registry is built once: every request is judged by the tokens of the
\* same configuration, whatever configurations are loaded later and however
\* many requests found it missing (the second check of registryInited under
\* registryInitMu).
BuiltOnce == Len(builtFrom) <= 1

=============================================================================
