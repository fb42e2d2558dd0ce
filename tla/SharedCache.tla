----------------------------- MODULE SharedCache ----------------------------
(***************************************************************************)
(* The cache in Redis: pkg/util/cache/shared.go over the client of         *)
(* pkg/util/redis/redis.go, with the configuration methods of              *)
(* pkg/naming/rpc_client.go as its user.                                   *)
(*                                                                         *)
(* A cache is a Redis client and a prefix.  All caches live in one Redis   *)
(* (external), whose keys are the texts prefix + key; texts are sequences. *)
(* Closing a cache closes its Redis client under every cache that uses it. *)
(* gob is external: an encoded value decodes to itself, nil included.      *)
(***************************************************************************)
EXTENDS Integers, Sequences

CONSTANTS
    Redis,              \* Redis clients
    Prefix,             \* the prefixes in use
    SharedKeyPrefix,    \* the one that an empty prefix stands for
    ConfigPrefix,       \* the one of rpcClient, ConfigCachePrefixKey
    CacheKey, CacheValue,
    Nil,                \* nil, which a user may also store
    Error,
    Gone                \* stands for the value of a key that Redis does not have

ASSUME SharedConstants ==
    /\ {SharedKeyPrefix, ConfigPrefix} \subseteq Prefix
    /\ Gone \notin CacheValue \cup {Nil}

VARIABLES
    db,         \* db[x]: the [val, mortal] under the Redis key x
    cliState,   \* cliState[c]: "none", "open" or "closed"
    made,       \* the caches: pairs of a client and a prefix
    kept,       \* ghost: <<p, k>> last set with no lifetime
    answer      \* what the latest Get answered

sharedVars == <<db, cliState, made, kept, answer>>

fullKey(p, k) == p \o k

\* No two prefixes make the same Redis key.  fullKey is a concatenation and the
\* caller of NewSharedCache chooses the prefix (shared.go:94-96), so that the
\* code does not see to it; it is so for the two prefixes in the repository
\* ("netflux:cache:" and "mb:disco:" differ in their first letter).
ASSUME PrefixesApart ==
    \A p, q \in Prefix, k, l \in CacheKey : fullKey(p, k) = fullKey(q, l) => p = q /\ k = l

RedisKeys == {fullKey(p, k) : p \in Prefix, k \in CacheKey}
Absent == [val |-> Gone, mortal |-> FALSE]

SharedInit ==
    /\ db = [x \in RedisKeys |-> Absent]
    /\ cliState = [c \in Redis |-> "none"]
    /\ made = {} /\ kept = {} /\ answer = Nil

\* The options as newRedisClient tells them apart: the list of the cluster's
\* addresses may be empty or hold nothing but blanks.
Options == [cluster : {"none", "blanks", "some"}, db : {0, 1}, addr : BOOLEAN]
newRedisClient(opt) ==
    IF opt.cluster = "none" THEN opt.addr ELSE opt.db = 0 /\ opt.cluster = "some"

\* redis.New; a client that does not answer the ping is closed again.
New(c, opt) ==
    /\ cliState[c] = "none" /\ newRedisClient(opt)
    /\ cliState' = [cliState EXCEPT ![c] = "open"]
    /\ UNCHANGED <<db, made, kept, answer>>

\* NewSharedCache, which pings first, so that it fails on a closed client.
NewSharedCache(c, prefix) ==
    /\ cliState[c] = "open"
    /\ made' = made \cup {<<c, IF prefix = <<>> THEN SharedKeyPrefix ELSE prefix>>}
    /\ UNCHANGED <<db, cliState, kept, answer>>

\* redisCache.Get's result: goredis.Nil, the error for a missing key, is nil.
Found(p, k) == LET v == db[fullKey(p, k)].val IN IF v = Gone THEN Nil ELSE v

Get(c, p, k) ==
    /\ <<c, p>> \in made /\ cliState[c] = "open"
    /\ answer' = Found(p, k)
    /\ UNCHANGED <<db, cliState, made, kept>>

\* On a closed client, or when Redis does not answer.
GetFails(c, p) ==
    /\ <<c, p>> \in made
    /\ answer' = Error
    /\ UNCHANGED <<db, cliState, made, kept>>

\* A SetWithTTL that passes -1 on, which go-redis takes for "keep the TTL".
SetKeepsTTL(c, p, k, v, ttl) ==
    /\ <<c, p>> \in made /\ cliState[c] = "open"
    /\ db' = [db EXCEPT ![fullKey(p, k)] =
                [val |-> v, mortal |-> ttl > 0 \/ (ttl < 0 /\ @.mortal)]]
    /\ kept' = IF ttl > 0 THEN kept \ {<<p, k>>} ELSE kept \cup {<<p, k>>}
    /\ UNCHANGED <<cliState, made, answer>>

\* SetWithTTL.  A lifetime below 0 becomes 0, which means for ever.  When the
\* call returns an error the value may have been stored all the same.
SetWithTTL(c, p, k, v, ttl) ==
    /\ <<c, p>> \in made /\ cliState[c] = "open"
    /\ db' = [db EXCEPT ![fullKey(p, k)] = [val |-> v, mortal |-> ttl > 0]]
    /\ kept' = IF ttl > 0 THEN kept \ {<<p, k>>} ELSE kept \cup {<<p, k>>}
    /\ UNCHANGED <<cliState, made, answer>>

\* Set gives the lifetime of 600 s.
Set(c, p, k, v) == SetWithTTL(c, p, k, v, 600)

Delete(c, p, k) ==
    /\ <<c, p>> \in made /\ cliState[c] = "open"
    /\ db' = [db EXCEPT ![fullKey(p, k)] = Absent]
    /\ kept' = kept \ {<<p, k>>}
    /\ UNCHANGED <<cliState, made, answer>>

Close(c, p) ==
    /\ <<c, p>> \in made
    /\ cliState' = [cliState EXCEPT ![c] = "closed"]
    /\ UNCHANGED <<db, made, kept, answer>>

\* Redis drops a key whose lifetime has ended.
Expires(x) ==
    /\ db[x].mortal
    /\ db' = [db EXCEPT ![x] = Absent]
    /\ UNCHANGED <<cliState, made, kept, answer>>

----------------------------------------------------------------------------
(* The configuration methods of rpcClient.                                 *)

\* The client's storage is a cache of its own prefix; Close closes it and the
\* Redis client that the caller has passed in, which is the same one.
NewRPCDiscoveryClient(c) == NewSharedCache(c, ConfigPrefix)
CloseStorage(c) == Close(c, ConfigPrefix)

SetConfig(c, k, v) == Set(c, ConfigPrefix, k, v)

\* A nil value is "no config found".
GetConfig(c, k) ==
    /\ <<c, ConfigPrefix>> \in made /\ cliState[c] = "open"
    /\ answer' = IF Found(ConfigPrefix, k) = Nil THEN Error ELSE Found(ConfigPrefix, k)
    /\ UNCHANGED <<db, cliState, made, kept>>

DeleteConfig(c, k) == Delete(c, ConfigPrefix, k)

SharedNext ==
    \/ \E c \in Redis, opt \in Options : New(c, opt)
    \/ \E c \in Redis, p \in Prefix \cup {<<>>} : NewSharedCache(c, p) \/ GetFails(c, p) \/ Close(c, p)
    \/ \E c \in Redis, p \in Prefix, k \in CacheKey : Get(c, p, k) \/ Delete(c, p, k)
    \/ \E c \in Redis, p \in Prefix, k \in CacheKey, v \in CacheValue \cup {Nil} :
        Set(c, p, k, v) \/ (\E ttl \in {-1, 0, 1} : SetWithTTL(c, p, k, v, ttl))
    \/ \E c \in Redis, k \in CacheKey : GetConfig(c, k) \/ DeleteConfig(c, k)
                                   \/ (\E v \in CacheValue : SetConfig(c, k, v))
    \/ \E c \in Redis : NewRPCDiscoveryClient(c) \/ CloseStorage(c)
    \/ \E x \in RedisKeys : Expires(x)

SharedBehaviour == SharedInit /\ [][SharedNext]_sharedVars

----------------------------------------------------------------------------
(* Properties.                                                             *)

\* Types.
SharedCacheTypeOK ==
    /\ db \in [RedisKeys -> [val : CacheValue \cup {Nil, Gone}, mortal : BOOLEAN]]
    /\ cliState \in [Redis -> {"none", "open", "closed"}]
    /\ made \subseteq Redis \X Prefix /\ kept \subseteq Prefix \X CacheKey
    /\ answer \in CacheValue \cup {Nil, Error}

Caches == INSTANCE CacheSpec
    WITH Key <- CacheKey, Value <- CacheValue,
         maps <- [p \in Prefix |-> [k \in CacheKey |-> db[fullKey(p, k)].val]]

\* However many caches share one Redis and one client, whichever is closed
\* and whatever expires: every prefix is a map of its own, and a value set
\* without a lifetime stays (shared.go:51-96).
ImplementsCaches == Caches!Spec

=============================================================================
