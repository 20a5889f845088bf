---------------------------- MODULE ModelsCache ----------------------------
(***************************************************************************)
(* The cache of the model list and the requests that resolve it            *)
(* (resolve_models, which list_models and get_model begin with).           *)
(*                                                                         *)
(* A list is the number of its version at the upstream API; Fallback is    *)
(* the list built into the program.  ModelsCache::invalidate is called by  *)
(* tests only.                                                             *)
(***************************************************************************)
EXTENDS Naturals

CONSTANTS
    Readers,      \* requests for the models
    Fallback,     \* the list of fallback_models
    NoEntry,      \* an empty cache
    Ttl,          \* models_cache_ttl
    MaxFlight,    \* assumption: how long a token and a fetch take together
    MaxVersion,   \* bound: versions of the list
    MaxClock      \* bound: the clock

ASSUME CacheAssumption ==
    /\ Ttl \in Nat /\ MaxFlight \in Nat /\ MaxVersion \in Nat /\ MaxClock \in Nat
    /\ Fallback \notin Nat
    /\ NoEntry \notin [models : Nat, fetchedAt : Nat]

VARIABLES
    static,      \* config.static_models
    now,         \* the clock
    version,     \* the version the upstream API has
    replacedAt,  \* when each earlier version was replaced
    cache,       \* the entry: version and fetched_at
    step,        \* where a reader is
    began,       \* when it missed the cache
    list,        \* the list it is sent by the upstream API, then returns
    failed       \* its token or its fetch failed

cacheVars == <<static, now, version, replacedAt, cache, step, began, list, failed>>

CacheInit ==
    /\ static \in BOOLEAN
    /\ now = 0 /\ version = 0 /\ replacedAt = [v \in {} |-> 0]
    /\ cache = NoEntry
    /\ step \in [Readers -> {"idle", "none"}]
    /\ began = [r \in Readers |-> 0]
    /\ list = [r \in Readers |-> Fallback]
    /\ failed = [r \in Readers |-> FALSE]

Fresh(entry) == entry # NoEntry /\ now - entry.fetchedAt < Ttl

\* Slip: an entry is used as long as there is one.
LookupForever(r) ==
    /\ step[r] = "idle"
    /\ IF static \/ cache # NoEntry
       THEN /\ step' = [step EXCEPT ![r] = "done"]
            /\ list' = [list EXCEPT ![r] =
                           IF static THEN Fallback ELSE cache.models]
            /\ UNCHANGED began
       ELSE /\ step' = [step EXCEPT ![r] = "token"]
            /\ began' = [began EXCEPT ![r] = now]
            /\ UNCHANGED list
    /\ UNCHANGED <<static, now, version, replacedAt, cache, failed>>

\* The static list or the cached one, or a miss.
Lookup(r) ==
    /\ step[r] = "idle"
    /\ IF static \/ Fresh(cache)
       THEN /\ step' = [step EXCEPT ![r] = "done"]
            /\ list' = [list EXCEPT ![r] =
                           IF static THEN Fallback ELSE cache.models]
            /\ UNCHANGED began
       ELSE /\ step' = [step EXCEPT ![r] = "token"]
            /\ began' = [began EXCEPT ![r] = now]
            /\ UNCHANGED list
    /\ UNCHANGED <<static, now, version, replacedAt, cache, failed>>

\* get_valid_token and fetch_models, which the upstream API answers with the
\* list of that moment; the answer is on its way afterwards.
GetToken(r) ==
    /\ step[r] = "token"
    /\ step' = [step EXCEPT ![r] = "fetch"]
    /\ UNCHANGED <<static, now, version, replacedAt, cache, began, list,
                   failed>>

Serve(r) ==
    /\ step[r] = "fetch"
    /\ step' = [step EXCEPT ![r] = "answer"]
    /\ list' = [list EXCEPT ![r] = version]
    /\ UNCHANGED <<static, now, version, replacedAt, cache, began, failed>>

\* No token, or the fetch fails.
FetchFails(r) ==
    /\ step[r] \in {"token", "fetch", "answer"}
    /\ step' = [step EXCEPT ![r] = "done"]
    /\ failed' = [failed EXCEPT ![r] = TRUE]
    /\ list' = [list EXCEPT ![r] = Fallback]
    /\ UNCHANGED <<static, now, version, replacedAt, cache, began>>

\* The answer arrives: it is cached, whatever was cached meanwhile.
Store(r) ==
    /\ step[r] = "answer"
    /\ step' = [step EXCEPT ![r] = "done"]
    /\ cache' = [models |-> list[r], fetchedAt |-> now]
    /\ UNCHANGED <<static, now, version, replacedAt, began, list, failed>>

\* Nothing more needs to happen once no reader is left.
Watched == \E r \in Readers : step[r] \notin {"done", "none"}

\* The upstream API changes its list.
ListChanges ==
    /\ Watched
    /\ version < MaxVersion
    /\ version' = version + 1
    /\ replacedAt' = [v \in 0 .. version |->
                        IF v = version THEN now ELSE replacedAt[v]]
    /\ UNCHANGED <<static, now, cache, step, began, list, failed>>

\* Time passes; no fetch takes longer than assumed.
Tick ==
    /\ Watched
    /\ now < MaxClock
    /\ \A r \in Readers :
          step[r] \in {"token", "fetch", "answer"} => now < began[r] + MaxFlight
    /\ now' = now + 1
    /\ UNCHANGED <<static, version, replacedAt, cache, step, began, list,
                   failed>>

Resolve(r) ==
    Lookup(r) \/ GetToken(r) \/ Serve(r) \/ FetchFails(r) \/ Store(r)
CacheNext == (\E r \in Readers : Resolve(r)) \/ ListChanges \/ Tick
-----------------------------------------------------------------------------
CacheTypeOK ==
    /\ static \in BOOLEAN
    /\ now \in Nat /\ version \in Nat
    /\ replacedAt \in [0 .. version - 1 -> 0 .. now]
    /\ cache = NoEntry \/ cache \in [models : 0 .. version, fetchedAt : 0 .. now]
    /\ step \in [Readers -> {"idle", "none", "token", "fetch", "answer", "done"}]
    /\ began \in [Readers -> 0 .. now]
    /\ list \in [Readers -> 0 .. version \cup {Fallback}]
    /\ failed \in [Readers -> BOOLEAN]

\* When a request is answered from the cache or by a fetch, although slower
\* fetches may have overwritten the entry with an older list, the list was
\* current at most a time to live and a flight ago (resolve_models).
NoStaleList ==
    [][\A r \in Readers :
          step[r] # "done" /\ step'[r] = "done" /\ list'[r] # Fallback =>
              \/ list'[r] = version
              \/ now < replacedAt[list'[r]] + Ttl + MaxFlight
              \/ now <= replacedAt[list'[r]] + MaxFlight]_cacheVars

\* The built-in list is the answer to the request whose own fetch failed, the
\* next request tries again.
FailureStaysOwn ==
    \A r \in Readers :
        step[r] = "done" /\ list[r] = Fallback => static \/ failed[r]
=============================================================================
