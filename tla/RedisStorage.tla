---------------------------- MODULE RedisStorage ----------------------------
(***************************************************************************)
(* PydanticRedisStorage and EncryptedPydanticRedisStorage                  *)
(* (src/safir/redis/_storage.py): several storages in one Redis database,  *)
(* each with its prefix for keys, its data type and perhaps an encryption  *)
(* key, used by tasks that interleave at every call of Redis.              *)
(*                                                                         *)
(* Redis is external.  Names and prefixes are sequences of parts, since    *)
(* what matters is how they are put together and taken apart.  SCAN goes   *)
(* through the keys in batches: it returns each key that was there from    *)
(* its beginning to its end at least once, and any other that was there at *)
(* some time in between, also when it is gone.                             *)
(***************************************************************************)
EXTENDS Naturals, Sequences

CONSTANTS
    Parts,      \* parts that names are made of
    Storages,   \* their key_prefix, and their codec: data type and encryption key
    Keys,       \* keys that the service uses, without the prefix
    Values,     \* objects
    Tasks,      \* tasks that scan or delete all
    NoValue

Prefixes == {s.prefix : s \in Storages}
Codecs == {s.codec : s \in Storages}

\* Storages that share a database have prefixes to tell them apart.
StartsWith(s, p) == Len(p) <= Len(s) /\ \A i \in 1..Len(p) : s[i] = p[i]

ASSUME RedisAssumption ==
    /\ \A s \in Prefixes \union Keys : s \in Seq(Parts)
    /\ \A p, q \in Prefixes : StartsWith(p, q) => p = q
    /\ NoValue \notin Values

VARIABLES
    redis,      \* what each name holds: an object, and how it was serialized
    expires,    \* the names that have a lifetime
    tasks,      \* scans: the prefix, the literal start of the pattern, the
                \* names that SCAN must and may still return, those that are
                \* there since it began, and whether they are deleted
    mine,       \* history: what each prefix's storages stored and have not
                \* deleted, by key
    returned      \* what the last call returned

redis_vars == <<redis, expires, tasks, mine, returned>>

\* The key with the prefix in front.
_prefix_key(prefix, key) == prefix \o key

Names == {_prefix_key(p, k) : p \in Prefixes, k \in Keys}

Nothing == [value |-> NoValue, codec |-> "none"]
Held == [value : Values, codec : Codecs]

NoScan == [active |-> FALSE, prefix |-> <<>>, pattern |-> <<>>, deletes |-> FALSE,
           must |-> {}, may |-> {}, old |-> {}]

Returns(out) == [out |-> out, prefix |-> <<>>, key |-> <<>>, name |-> <<>>]

RedisInit ==
    /\ redis = [n \in Names |-> Nothing]
    /\ expires = {}
    /\ tasks = [t \in Tasks |-> NoScan]
    /\ mine = [p \in Prefixes |-> [k \in Keys |-> Nothing]]
    /\ returned = Returns("none")

\* A name that is gone need not be returned any more, but may be.
Forget(names) ==
    tasks' = [t \in Tasks |->
        [tasks[t] EXCEPT !.must = @ \ names, !.old = @ \ names,
                         !.may = @ \union (tasks[t].must \intersect names)]]

\* A serialized object, encrypted or not, with a lifetime or not.  Redis
\* refuses a lifetime of zero.
store(s, key, value) ==
    LET name == _prefix_key(s.prefix, key)
        data == [value |-> value, codec |-> s.codec]
    IN \/ /\ redis' = [redis EXCEPT ![name] = data]
          /\ mine' = [mine EXCEPT ![s.prefix][key] = data]
          /\ \E lifetime \in {"None", "seconds"} :
               expires' = IF lifetime = "None" THEN expires \ {name}
                          ELSE expires \union {name}
          /\ returned' = Returns("None")
          /\ UNCHANGED tasks
       \/ /\ returned' = Returns("ResponseError")
          /\ UNCHANGED <<redis, expires, tasks, mine>>

\* What cannot be decrypted or is not a model of the type raises.
get(s, key) ==
    LET held == redis[_prefix_key(s.prefix, key)]
    IN /\ returned' = Returns(IF held = Nothing THEN "None"
                           ELSE IF held.codec = s.codec THEN "object"
                           ELSE "DeserializeError")
       /\ UNCHANGED <<redis, expires, tasks, mine>>

\* Mutant: the key is not prefixed.
DeleteUnprefixed(prefix, key) ==
    /\ redis' = [n \in Names |-> IF n = key THEN Nothing ELSE redis[n]]
    /\ mine' = [mine EXCEPT ![prefix][key] = Nothing]
    /\ expires' = expires \ {key}
    /\ Forget({key})
    /\ returned' = Returns("True")

delete(prefix, key) ==
    LET name == _prefix_key(prefix, key)
    IN /\ redis' = [redis EXCEPT ![name] = Nothing]
       /\ mine' = [mine EXCEPT ![prefix][key] = Nothing]
       /\ expires' = expires \ {name}
       /\ Forget({name})
       /\ returned' = Returns(IF redis[name] # Nothing THEN "True" ELSE "False")

\* Redis lets an object expire, and the storage's users expect it.
expire(prefix, key) ==
    LET name == _prefix_key(prefix, key)
    IN /\ name \in expires
       /\ redis' = [redis EXCEPT ![name] = Nothing]
       /\ mine' = [mine EXCEPT ![prefix][key] = Nothing]
       /\ expires' = expires \ {name}
       /\ Forget({name})
       /\ UNCHANGED returned

-----------------------------------------------------------------------------
\* The names that match the pattern that was scanned for: those that start
\* with the prefix and the literal part of the pattern, which ends in "*".
Match(prefix, pattern) ==
    {n \in Names : redis[n] # Nothing /\ StartsWith(n, _prefix_key(prefix, pattern))}

ScanIter(t, prefix, pattern, deletes) ==
    /\ ~tasks[t].active
    /\ tasks' = [tasks EXCEPT ![t] =
         [active |-> TRUE, prefix |-> prefix, pattern |-> pattern, deletes |-> deletes,
          must |-> Match(prefix, pattern), may |-> {}, old |-> Match(prefix, pattern)]]
    /\ UNCHANGED <<redis, expires, mine, returned>>

scan(t, prefix, pattern) == ScanIter(t, prefix, pattern, FALSE)
delete_all(t, prefix, pattern) == ScanIter(t, prefix, pattern, TRUE)

\* What SCAN may return next.
Returned(t) ==
    tasks[t].must \union tasks[t].may \union Match(tasks[t].prefix, tasks[t].pattern)

\* Mutant: the name is taken for a key, and prefixed again.
DeletePrefixedAgain(t) ==
    /\ tasks[t].active /\ tasks[t].deletes
    /\ \E n \in Returned(t) :
         tasks' = [tasks EXCEPT ![t].must = @ \ {n}]
    /\ UNCHANGED <<redis, expires, mine, returned>>

\* delete_all deletes the name as Redis returned it, with its prefix.
delete_next(t) ==
    /\ tasks[t].active /\ tasks[t].deletes
    /\ \E n \in Returned(t) :
         /\ redis' = [redis EXCEPT ![n] = Nothing]
         /\ mine' = [p \in Prefixes |-> [k \in Keys |->
                       IF p = tasks[t].prefix /\ _prefix_key(p, k) = n THEN Nothing
                       ELSE mine[p][k]]]
         /\ expires' = expires \ {n}
         /\ Forget({n})
         /\ UNCHANGED returned

removeprefix(name, prefix) ==
    IF StartsWith(name, prefix) THEN SubSeq(name, Len(prefix) + 1, Len(name)) ELSE name

\* scan yields the key without its prefix, for its user to get or delete.
scan_next(t) ==
    /\ tasks[t].active /\ ~tasks[t].deletes
    /\ \E n \in Returned(t) :
         /\ tasks' = [tasks EXCEPT ![t].must = @ \ {n}]
         /\ returned' = [out |-> "key", prefix |-> tasks[t].prefix, name |-> n,
                       key |-> removeprefix(n, tasks[t].prefix)]
    /\ UNCHANGED <<redis, expires, mine>>

\* SCAN is over when it has returned all it must.
scan_ends(t) ==
    /\ tasks[t].active /\ tasks[t].must = {}
    /\ tasks' = [tasks EXCEPT ![t] = NoScan]
    /\ UNCHANGED <<redis, expires, mine, returned>>

-----------------------------------------------------------------------------
RedisNext ==
    \/ \E s \in Storages, k \in Keys :
         \/ get(s, k)
         \/ \E v \in Values : store(s, k, v)
         \/ delete(s.prefix, k)
         \/ expire(s.prefix, k)
    \/ \E t \in Tasks :
         \/ \E p \in Prefixes, pattern \in Keys \union {<<>>} :
              scan(t, p, pattern) \/ delete_all(t, p, pattern)
         \/ delete_next(t) \/ scan_next(t) \/ scan_ends(t)

RedisSpec == RedisInit /\ [][RedisNext]_redis_vars

-----------------------------------------------------------------------------
\* Properties

RedisTypeOK ==
    /\ redis \in [Names -> Held \union {Nothing}]
    /\ mine \in [Prefixes -> [Keys -> Held \union {Nothing}]]
    /\ expires \subseteq Names
    /\ \A t \in Tasks : tasks[t].must \subseteq Names

\* Storages with prefixes that do not begin with each other are private: under
\* each of its keys a storage finds what was last stored there through its own
\* prefix, and nobody's delete, delete_all or expiry touches another's.  A key
\* that scan yields leads back to the name it was found by.
StoragesArePrivate ==
    /\ \A p \in Prefixes, k \in Keys : redis[_prefix_key(p, k)] = mine[p][k]
    /\ returned.name = _prefix_key(returned.prefix, returned.key)

\* When delete_all returns, nothing that it should have deleted and that was
\* there when it began is still there, whatever was stored, deleted or expired
\* meanwhile.
DeleteAllDeletesAll ==
    [][\A t \in Tasks :
         tasks[t].deletes /\ ~tasks'[t].active => tasks[t].old = {}]_redis_vars
=============================================================================
