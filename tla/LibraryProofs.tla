--------------------------- MODULE LibraryProofs ---------------------------
(***************************************************************************)
(* Theorems about the smaller parts of the library, which share no state:  *)
(* Redis storages, the schema manager, alerts to Slack, the mock of the    *)
(* arq queue, calls on a database that is initialized, stamped and         *)
(* migrated, and the mocks of metrics.  Each has a section with an         *)
(* invariant of its own; the last section puts them together.              *)
(***************************************************************************)
EXTENDS Library, PaginationProofs, DatabaseEnginesProofs, FiniteSetTheorems,
        SequenceTheorems, WellFoundedInduction, TLAPS

-----------------------------------------------------------------------------
(***************************************************************************)
(* Storages that share one Redis database, for any prefixes that do not    *)
(* begin with each other, and any keys, tasks and objects.                 *)
(*                                                                         *)
(* A name is put together in one way only (UniqueNames), and a name that   *)
(* starts with a prefix was put together with it (OwnName).  So what a     *)
(* task scans or deletes are names of its own prefix, which is what the    *)
(* invariant says of the names that SCAN must and may still return.        *)
(***************************************************************************)

Data == Held \union {Nothing}

\* A scan, active or not: all of its names start with its prefix.
IsTask(c) ==
    /\ c = [active |-> c.active, prefix |-> c.prefix, pattern |-> c.pattern,
            deletes |-> c.deletes, must |-> c.must, may |-> c.may, old |-> c.old]
    /\ c.active \in BOOLEAN
    /\ c.active => c.prefix \in Prefixes /\ c.pattern \in Keys \union {<<>>}
    /\ \A n \in c.must \union c.may : n \in Names /\ StartsWith(n, c.prefix)
    /\ ~c.active => ~c.deletes
    /\ c.deletes => c.old \subseteq c.must

TasksInv ==
    /\ tasks = [t \in Tasks |-> tasks[t]]
    /\ \A t \in Tasks : IsTask(tasks[t])

DataInv ==
    /\ redis \in [Names -> Data]
    /\ mine \in [Prefixes -> [Keys -> Data]]
    /\ \A p \in Prefixes, k \in Keys : redis[_prefix_key(p, k)] = mine[p][k]

RedisInv ==
    /\ TasksInv
    /\ DataInv
    /\ returned.name = _prefix_key(returned.prefix, returned.key)

-----------------------------------------------------------------------------
\* Names.

LEMMA Concatenation ==
    ASSUME NEW p \in Seq(Parts), NEW k \in Seq(Parts)
    PROVE  /\ p \o k \in Seq(Parts)
           /\ Len(p) \in Nat /\ Len(k) \in Nat
           /\ Len(p \o k) = Len(p) + Len(k)
           /\ \A i \in 1..Len(p) : (p \o k)[i] = p[i]
           /\ \A i \in 1..Len(k) : (p \o k)[Len(p) + i] = k[i]
<1>1. Len(p) \in Nat /\ Len(k) \in Nat
  BY LenProperties
<1>2. /\ p \o k \in Seq(Parts)
      /\ Len(p \o k) = Len(p) + Len(k)
      /\ \A i \in 1..Len(p) + Len(k) :
           (p \o k)[i] = IF i <= Len(p) THEN p[i] ELSE k[i - Len(p)]
  BY ConcatProperties, Zenon
<1> DEFINE n == p \o k
<1> HIDE DEF n
<1>3. \A i \in 1..Len(p) : n[i] = p[i]
  BY <1>1, <1>2 DEF n
<1>4. ASSUME NEW i \in 1..Len(k)
      PROVE  n[Len(p) + i] = k[i]
  <2>1. Len(p) + i \in 1..Len(p) + Len(k) /\ ~(Len(p) + i <= Len(p)) /\ (Len(p) + i) - Len(p) = i
    BY <1>1
  <2> QED
    BY <1>2, <2>1 DEF n
<1> QED
  BY <1>1, <1>2, <1>3, <1>4 DEF n

\* A sequence that starts with two prefixes starts with one prefix.
LEMMA OnePrefix ==
    ASSUME NEW n, NEW p \in Prefixes, NEW q \in Prefixes, StartsWith(n, p), StartsWith(n, q)
    PROVE  p = q
<1>1. p \in Seq(Parts) /\ q \in Seq(Parts) /\ Len(p) \in Nat /\ Len(q) \in Nat
  BY RedisAssumption, LenProperties
<1>2. CASE Len(p) <= Len(q)
  <2>1. StartsWith(q, p)
    BY <1>1, <1>2 DEF StartsWith
  <2> QED
    BY <2>1, RedisAssumption
<1>3. CASE Len(q) <= Len(p)
  <2>1. StartsWith(p, q)
    BY <1>1, <1>3 DEF StartsWith
  <2> QED
    BY <2>1, RedisAssumption
<1> QED
  BY <1>1, <1>2, <1>3

LEMMA PrefixesAndKeys ==
    Prefixes \subseteq Seq(Parts) /\ Keys \union {<<>>} \subseteq Seq(Parts)
<1>1. <<>> \in Seq(Parts)
  OBVIOUS
<1> QED
  BY <1>1, RedisAssumption

LEMMA PrefixedStarts ==
    ASSUME NEW p \in Prefixes, NEW k \in Keys \union {<<>>}
    PROVE  StartsWith(_prefix_key(p, k), p)
<1>1. p \in Seq(Parts) /\ k \in Seq(Parts)
  BY PrefixesAndKeys
<1> QED
  BY <1>1, Concatenation DEF StartsWith, _prefix_key

\* A name is put together in one way only.
LEMMA UniqueNames ==
    ASSUME NEW p \in Prefixes, NEW q \in Prefixes, NEW k \in Keys, NEW j \in Keys,
           _prefix_key(p, k) = _prefix_key(q, j)
    PROVE  p = q /\ k = j
<1>1. p = q
  BY PrefixedStarts, OnePrefix
<1>2. p \in Seq(Parts) /\ k \in Seq(Parts) /\ j \in Seq(Parts)
  BY RedisAssumption
<1>3. Len(k) = Len(j) /\ \A i \in 1..Len(k) : k[i] = j[i]
  <2> DEFINE n == p \o k
             m == p \o j
  <2>1. /\ Len(p) \in Nat /\ Len(k) \in Nat /\ Len(n) = Len(p) + Len(k)
        /\ \A i \in 1..Len(k) : n[Len(p) + i] = k[i]
    BY <1>2, Concatenation
  <2>2. /\ Len(j) \in Nat /\ Len(m) = Len(p) + Len(j)
        /\ \A i \in 1..Len(j) : m[Len(p) + i] = j[i]
    BY <1>2, Concatenation
  <2>3. n = m
    BY <1>1 DEF _prefix_key
  <2> HIDE DEF n, m
  <2>4. Len(k) = Len(j)
    BY <2>1, <2>2, <2>3
  <2> QED
    BY <2>1, <2>2, <2>3, <2>4
<1> QED
  BY <1>1, <1>2, <1>3, SeqEqual, Zenon

LEMMA PrefixedAreNames ==
    ASSUME NEW p \in Prefixes, NEW k \in Keys
    PROVE  _prefix_key(p, k) \in Names
BY DEF Names

\* What starts with a longer literal starts with the prefix.
LEMMA MatchesAreOwn ==
    ASSUME NEW p \in Prefixes, NEW pattern \in Keys \union {<<>>}, NEW n \in Match(p, pattern)
    PROVE  n \in Names /\ StartsWith(n, p)
<1>1. p \in Seq(Parts) /\ pattern \in Seq(Parts)
  BY PrefixesAndKeys
<1>2. n \in Names /\ StartsWith(n, p \o pattern)
  BY DEF Match, _prefix_key
<1>3. PICK q \in Prefixes, k \in Keys : n = q \o k
  BY <1>2 DEF Names, _prefix_key
<1>4. n \in Seq(Parts) /\ Len(n) \in Nat
  BY <1>3, Concatenation, RedisAssumption, LenProperties
<1> DEFINE long == p \o pattern
<1>5. /\ Len(long) = Len(p) + Len(pattern) /\ Len(p) \in Nat /\ Len(pattern) \in Nat
      /\ \A i \in 1..Len(p) : long[i] = p[i]
  BY <1>1, Concatenation
<1> HIDE DEF long
<1>6. StartsWith(n, long)
  BY <1>2 DEF long
<1>7. StartsWith(n, p)
  BY <1>4, <1>5, <1>6 DEF StartsWith
<1> QED
  BY <1>2, <1>7

\* A name that starts with a prefix is made of it, and removeprefix finds the
\* key that it was made of.
LEMMA OwnName ==
    ASSUME NEW p \in Prefixes, NEW n \in Names, StartsWith(n, p)
    PROVE  \E k \in Keys : n = _prefix_key(p, k) /\ removeprefix(n, p) = k
<1>1. PICK q \in Prefixes, k \in Keys : n = _prefix_key(q, k)
  BY DEF Names
<1>2. q = p
  BY <1>1, PrefixedStarts, OnePrefix
<1>3. p \in Seq(Parts) /\ k \in Seq(Parts)
  BY RedisAssumption
<1>4. /\ n \in Seq(Parts) /\ Len(p) \in Nat /\ Len(k) \in Nat /\ Len(n) = Len(p) + Len(k)
      /\ \A i \in 1..Len(k) : n[Len(p) + i] = k[i]
  BY <1>1, <1>2, <1>3, Concatenation DEF _prefix_key
<1> DEFINE from == Len(p) + 1
           rest == SubSeq(n, from, Len(n))
<1>5. \A i \in from..Len(n) : n[i] \in Parts
  BY <1>4, ElementOfSeq
<1>6. /\ rest \in Seq(Parts)
      /\ Len(rest) = IF from <= Len(n) THEN Len(n) - from + 1 ELSE 0
      /\ \A i \in 1..Len(n) - from + 1 : rest[i] = n[from + i - 1]
  <2>1. from \in Int /\ Len(n) \in Int
    BY <1>4
  <2>2. ASSUME NEW m \in Int, NEW l \in Int, \A i \in m..l : n[i] \in Parts
        PROVE  /\ SubSeq(n, m, l) \in Seq(Parts)
               /\ Len(SubSeq(n, m, l)) = IF m <= l THEN l - m + 1 ELSE 0
               /\ \A i \in 1..l - m + 1 : SubSeq(n, m, l)[i] = n[m + i - 1]
    BY <2>2, SubSeqProperties, SMT
  <2> QED
    BY <1>5, <2>1, <2>2
<1> HIDE DEF rest
<1>7. Len(rest) = Len(k)
  BY <1>4, <1>6
<1>8. ASSUME NEW i \in 1..Len(rest)
      PROVE  rest[i] = k[i]
  <2>1. i \in 1..Len(n) - from + 1 /\ from + i - 1 = Len(p) + i
    BY <1>4, <1>7
  <2> QED
    BY <1>4, <1>6, <1>7, <2>1
<1>9. rest = k
  BY <1>3, <1>6, <1>7, <1>8, SeqEqual, Zenon
<1> QED
  BY <1>1, <1>2, <1>9 DEF removeprefix, rest

-----------------------------------------------------------------------------
\* The invariant.

LEMMA EmptyAnswer == \A out : Returns(out).name = _prefix_key(Returns(out).prefix, Returns(out).key)
<1>1. <<>> \o <<>> = <<>>
  BY ConcatEmptySeq
<1> QED
  BY <1>1 DEF Returns, _prefix_key

LEMMA NothingIsData == Nothing \in Data
BY DEF Data

LEMMA NoScanIsTask == IsTask(NoScan)
BY DEF IsTask, NoScan

LEMMA RedisInitInv == RedisInit => RedisInv
<1> SUFFICES ASSUME RedisInit
             PROVE  RedisInv
  OBVIOUS
<1>1. TasksInv
  BY NoScanIsTask DEF RedisInit, TasksInv
<1>2. DataInv
  BY NothingIsData, PrefixedAreNames DEF RedisInit, DataInv
<1>3. returned.name = _prefix_key(returned.prefix, returned.key)
  BY EmptyAnswer DEF RedisInit
<1> QED
  BY <1>1, <1>2, <1>3 DEF RedisInv

\* What one storage puts under a key concerns that key only.
LEMMA PutInv ==
    ASSUME DataInv, NEW p \in Prefixes, NEW k \in Keys, NEW data \in Data,
           redis' = [redis EXCEPT ![_prefix_key(p, k)] = data],
           mine' = [mine EXCEPT ![p][k] = data]
    PROVE  DataInv'
<1>1. redis' \in [Names -> Data] /\ mine' \in [Prefixes -> [Keys -> Data]]
  BY DEF DataInv
<1>2. ASSUME NEW q \in Prefixes, NEW j \in Keys
      PROVE  redis'[_prefix_key(q, j)] = mine'[q][j]
  <2> DEFINE n == _prefix_key(q, j)
  <2>1. n \in Names /\ _prefix_key(p, k) \in Names
    BY PrefixedAreNames
  <2>2. redis[n] = mine[q][j]
    BY DEF DataInv
  <2>3. CASE q = p /\ j = k
    BY <2>1, <2>3 DEF DataInv
  <2>4. CASE ~(q = p /\ j = k)
    <3>1. n # _prefix_key(p, k)
      BY <2>4, UniqueNames
    <3>2. redis'[n] = redis[n]
      BY <2>1, <3>1 DEF DataInv
    <3>3. mine'[q][j] = mine[q][j]
      BY <2>4 DEF DataInv
    <3> QED
      BY <2>2, <3>2, <3>3
  <2> QED
    BY <2>3, <2>4
<1>3. \A q \in Prefixes, j \in Keys : _prefix_key(q, j)' = _prefix_key(q, j)
  BY DEF _prefix_key
<1> QED
  BY <1>1, <1>2, <1>3 DEF DataInv

LEMMA ForgetInv ==
    ASSUME TasksInv, NEW names, Forget(names)
    PROVE  /\ TasksInv'
           /\ \A t \in Tasks : tasks'[t].active = tasks[t].active
<1>1. ASSUME NEW t \in Tasks
      PROVE  IsTask(tasks'[t]) /\ tasks'[t].active = tasks[t].active
  <2>1. PICK c : c = tasks[t] /\ IsTask(c)
    BY DEF TasksInv
  <2> DEFINE must == c.must \ names
             may == c.may \union (c.must \intersect names)
             old == c.old \ names
  <2>2. tasks'[t] = [c EXCEPT !.must = must, !.old = old, !.may = may]
    BY <2>1 DEF Forget
  <2>3. /\ \A n \in must \union may : n \in Names /\ StartsWith(n, c.prefix)
        /\ c.deletes => old \subseteq must
    BY <2>1 DEF IsTask
  <2> HIDE DEF must, may, old
  <2>4. tasks'[t] = [active |-> c.active, prefix |-> c.prefix, pattern |-> c.pattern,
                     deletes |-> c.deletes, must |-> must, may |-> may, old |-> old]
    BY <2>1, <2>2 DEF IsTask
  <2> QED
    BY <2>1, <2>3, <2>4 DEF IsTask
<1> QED
  BY <1>1 DEF TasksInv, Forget

\* A step of one task.
LEMMA TaskInv ==
    ASSUME TasksInv, NEW t \in Tasks, NEW c, IsTask(c), tasks' = [tasks EXCEPT ![t] = c]
    PROVE  TasksInv'
<1>1. tasks' = [u \in Tasks |-> IF u = t THEN c ELSE tasks[u]]
  BY DEF TasksInv
<1> QED
  BY <1>1 DEF TasksInv

LEMMA storeInv ==
    ASSUME RedisInv, NEW s \in Storages, NEW k \in Keys, NEW v \in Values, store(s, k, v)
    PROVE  RedisInv'
<1> DEFINE data == [value |-> v, codec |-> s.codec]
<1>1. s.prefix \in Prefixes /\ data \in Data
  BY DEF Prefixes, Data, Held, Codecs
<1>2. UNCHANGED tasks /\ \E out : returned' = Returns(out)
  BY DEF store
<1>3. TasksInv' /\ returned'.name = _prefix_key(returned'.prefix, returned'.key)
  BY <1>2, EmptyAnswer DEF RedisInv, TasksInv
<1>4. DataInv'
  <2>1. CASE UNCHANGED <<redis, mine>>
    BY <2>1 DEF RedisInv, DataInv
  <2>2. CASE /\ redis' = [redis EXCEPT ![_prefix_key(s.prefix, k)] = data]
             /\ mine' = [mine EXCEPT ![s.prefix][k] = data]
    <3> HIDE DEF data
    <3> QED
      BY <1>1, <2>2, PutInv DEF RedisInv
  <2> QED
    BY <2>1, <2>2 DEF store
<1>5. _prefix_key(returned.prefix, returned.key)' = _prefix_key(returned'.prefix, returned'.key)
  BY DEF _prefix_key
<1> QED
  BY <1>3, <1>4, <1>5 DEF RedisInv

LEMMA deleteInv ==
    ASSUME RedisInv, NEW p \in Prefixes, NEW k \in Keys, delete(p, k) \/ expire(p, k)
    PROVE  /\ RedisInv'
           /\ \A t \in Tasks : tasks'[t].active = tasks[t].active
<1>1. /\ redis' = [redis EXCEPT ![_prefix_key(p, k)] = Nothing]
      /\ mine' = [mine EXCEPT ![p][k] = Nothing]
      /\ Forget({_prefix_key(p, k)})
      /\ UNCHANGED returned \/ \E out : returned' = Returns(out)
  BY DEF delete, expire
<1>2. DataInv'
  BY <1>1, PutInv, NothingIsData DEF RedisInv
<1>3. TasksInv' /\ \A t \in Tasks : tasks'[t].active = tasks[t].active
  BY <1>1, ForgetInv DEF RedisInv
<1>4. returned'.name = _prefix_key(returned'.prefix, returned'.key)
  BY <1>1, EmptyAnswer DEF RedisInv
<1>5. _prefix_key(returned.prefix, returned.key)' = _prefix_key(returned'.prefix, returned'.key)
  BY DEF _prefix_key
<1> QED
  BY <1>2, <1>3, <1>4, <1>5 DEF RedisInv

LEMMA ScanIterInv ==
    ASSUME RedisInv, NEW t \in Tasks, NEW p \in Prefixes, NEW pattern \in Keys \union {<<>>},
           NEW deletes \in BOOLEAN, ScanIter(t, p, pattern, deletes)
    PROVE  RedisInv'
<1> DEFINE m == Match(p, pattern)
           c == [active |-> TRUE, prefix |-> p, pattern |-> pattern, deletes |-> deletes,
                 must |-> m, may |-> {}, old |-> m]
<1>1. tasks' = [tasks EXCEPT ![t] = c] /\ UNCHANGED <<redis, mine, returned>>
  BY DEF ScanIter
<1>2. \A n \in m : n \in Names /\ StartsWith(n, p)
  BY MatchesAreOwn
<1> HIDE DEF m
<1>3. IsTask(c)
  BY <1>2 DEF IsTask
<1> HIDE DEF c
<1>4. TasksInv'
  BY <1>1, <1>3, TaskInv DEF RedisInv
<1>5. DataInv'
  BY <1>1 DEF RedisInv, DataInv
<1> QED
  BY <1>1, <1>4, <1>5 DEF RedisInv

\* What SCAN returns are names of the task's own prefix.
LEMMA ReturnedAreOwn ==
    ASSUME TasksInv, NEW t \in Tasks, tasks[t].active, NEW n \in Returned(t)
    PROVE  /\ tasks[t].prefix \in Prefixes
           /\ n \in Names /\ StartsWith(n, tasks[t].prefix)
<1>1. IsTask(tasks[t])
  BY DEF TasksInv
<1>2. tasks[t].prefix \in Prefixes /\ tasks[t].pattern \in Keys \union {<<>>}
  BY <1>1 DEF IsTask
<1>3. CASE n \in tasks[t].must \union tasks[t].may
  BY <1>1, <1>2, <1>3 DEF IsTask
<1>4. CASE n \in Match(tasks[t].prefix, tasks[t].pattern)
  BY <1>2, <1>4, MatchesAreOwn
<1> QED
  BY <1>3, <1>4 DEF Returned

LEMMA delete_nextInv ==
    ASSUME RedisInv, NEW t \in Tasks, delete_next(t)
    PROVE  /\ RedisInv'
           /\ \A u \in Tasks : tasks'[u].active = tasks[u].active
<1>1. PICK n \in Returned(t) :
        /\ redis' = [redis EXCEPT ![n] = Nothing]
        /\ mine' = [p \in Prefixes |-> [k \in Keys |->
             IF p = tasks[t].prefix /\ _prefix_key(p, k) = n THEN Nothing ELSE mine[p][k]]]
        /\ Forget({n})
        /\ UNCHANGED returned
  BY DEF delete_next
<1>2. PICK q : /\ q = tasks[t].prefix /\ q \in Prefixes
               /\ n \in Names /\ StartsWith(n, q)
  BY ReturnedAreOwn DEF delete_next, RedisInv
<1>3. PICK j \in Keys : n = _prefix_key(q, j)
  BY <1>2, OwnName
<1>4. mine' = [mine EXCEPT ![q][j] = Nothing]
  <2>1. \A p \in Prefixes, k \in Keys :
          p = q /\ _prefix_key(p, k) = n <=> p = q /\ k = j
    BY <1>2, <1>3, UniqueNames
  <2>2. mine' = [p \in Prefixes |-> [k \in Keys |->
                   IF p = q /\ k = j THEN Nothing ELSE mine[p][k]]]
    BY <1>1, <1>2, <2>1
  <2>3. mine \in [Prefixes -> [Keys -> Data]]
    BY DEF RedisInv, DataInv
  <2> QED
    BY <1>2, <2>2, <2>3
<1>5. DataInv'
  BY <1>1, <1>2, <1>3, <1>4, PutInv, NothingIsData DEF RedisInv
<1>6. TasksInv' /\ \A u \in Tasks : tasks'[u].active = tasks[u].active
  BY <1>1, ForgetInv DEF RedisInv
<1> QED
  BY <1>1, <1>5, <1>6 DEF RedisInv

LEMMA scan_nextInv ==
    ASSUME RedisInv, NEW t \in Tasks, scan_next(t)
    PROVE  RedisInv'
<1>1. PICK n \in Returned(t) :
        /\ tasks' = [tasks EXCEPT ![t].must = @ \ {n}]
        /\ returned' = [out |-> "key", prefix |-> tasks[t].prefix, name |-> n,
                        key |-> removeprefix(n, tasks[t].prefix)]
  BY DEF scan_next
<1>2. UNCHANGED <<redis, mine>> /\ tasks[t].active /\ ~tasks[t].deletes
  BY DEF scan_next
<1>3. PICK c : c = tasks[t] /\ IsTask(c)
  BY DEF RedisInv, TasksInv
<1>4. c.prefix \in Prefixes /\ n \in Names /\ StartsWith(n, c.prefix)
  BY <1>2, <1>3, ReturnedAreOwn DEF RedisInv
<1>5. n = _prefix_key(c.prefix, removeprefix(n, c.prefix))
  BY <1>4, OwnName
<1> DEFINE must == c.must \ {n}
           next == [active |-> c.active, prefix |-> c.prefix, pattern |-> c.pattern,
                    deletes |-> c.deletes, must |-> must, may |-> c.may, old |-> c.old]
<1>6. must \subseteq c.must
  OBVIOUS
<1>7. tasks' = [tasks EXCEPT ![t] = [c EXCEPT !.must = must]]
  BY <1>1, <1>3
<1> HIDE DEF must
<1>8. [c EXCEPT !.must = must] = next
  BY <1>3 DEF IsTask
<1>9. IsTask(next)
  BY <1>2, <1>3, <1>6 DEF IsTask
<1> HIDE DEF next
<1>10. TasksInv'
  BY <1>7, <1>8, <1>9, TaskInv DEF RedisInv
<1>11. DataInv'
  BY <1>2 DEF RedisInv, DataInv
<1>12. returned'.name = n /\ _prefix_key(returned.prefix, returned.key)' = n
  BY <1>1, <1>3, <1>5 DEF _prefix_key
<1> QED
  BY <1>10, <1>11, <1>12 DEF RedisInv

LEMMA scan_endsInv ==
    ASSUME RedisInv, NEW t \in Tasks, scan_ends(t)
    PROVE  RedisInv'
<1>1. TasksInv'
  BY TaskInv, NoScanIsTask DEF RedisInv, scan_ends
<1>2. DataInv'
  BY DEF RedisInv, DataInv, scan_ends
<1> QED
  BY <1>1, <1>2 DEF RedisInv, scan_ends

LEMMA getInv ==
    ASSUME RedisInv, NEW s \in Storages, NEW k \in Keys, get(s, k)
    PROVE  RedisInv'
<1>1. UNCHANGED <<redis, mine, tasks>> /\ \E out : returned' = Returns(out)
  BY DEF get
<1>2. returned'.name = _prefix_key(returned'.prefix, returned'.key)
  BY <1>1, EmptyAnswer
<1>3. _prefix_key(returned.prefix, returned.key)' = _prefix_key(returned'.prefix, returned'.key)
  BY DEF _prefix_key
<1> QED
  BY <1>1, <1>2, <1>3 DEF RedisInv, DataInv, TasksInv

LEMMA RedisInvInvariant == RedisSpec => []RedisInv
<1>1. RedisInv /\ [RedisNext]_redis_vars => RedisInv'
  <2> SUFFICES ASSUME RedisInv, [RedisNext]_redis_vars
               PROVE  RedisInv'
    OBVIOUS
  <2>1. CASE UNCHANGED redis_vars
    BY <2>1 DEF redis_vars, RedisInv, DataInv, TasksInv
  <2>2. ASSUME NEW s \in Storages, NEW k \in Keys,
               \/ get(s, k) \/ (\E v \in Values : store(s, k, v))
               \/ delete(s.prefix, k) \/ expire(s.prefix, k)
        PROVE  RedisInv'
    <3>1. s.prefix \in Prefixes
      BY DEF Prefixes
    <3> QED
      BY <2>2, <3>1, getInv, storeInv, deleteInv
  <2>3. ASSUME NEW t \in Tasks, NEW p \in Prefixes, NEW pattern \in Keys \union {<<>>},
               scan(t, p, pattern) \/ delete_all(t, p, pattern)
        PROVE  RedisInv'
    BY <2>3, ScanIterInv DEF scan, delete_all
  <2>4. ASSUME NEW t \in Tasks, delete_next(t) \/ scan_next(t) \/ scan_ends(t)
        PROVE  RedisInv'
    BY <2>4, delete_nextInv, scan_nextInv, scan_endsInv
  <2> QED
    BY <2>1, <2>2, <2>3, <2>4 DEF RedisNext
<1> QED
  BY <1>1, RedisInitInv, PTL DEF RedisSpec

\* What is stored, scanned and remembered are names of storages and objects or
\* their absence.
THEOREM RedisTypes == RedisSpec => []RedisTypeOK
<1> DEFINE Names_expire == expires \subseteq Names
<1>1. RedisInit => Names_expire
  BY DEF RedisInit
<1>2. ASSUME RedisInv, Names_expire, [RedisNext]_redis_vars
      PROVE  Names_expire'
  <2>1. ASSUME NEW s \in Storages, NEW k \in Keys, NEW v \in Values, store(s, k, v)
        PROVE  Names_expire'
    <3>1. _prefix_key(s.prefix, k) \in Names
      BY DEF Names, Prefixes
    <3> QED
      BY <1>2, <2>1, <3>1 DEF store
  <2>2. ASSUME NEW s \in Storages, NEW k \in Keys,
               delete(s.prefix, k) \/ expire(s.prefix, k)
        PROVE  Names_expire'
    BY <1>2, <2>2 DEF delete, expire
  <2>3. ASSUME NEW t \in Tasks, delete_next(t)
        PROVE  Names_expire'
    BY <1>2, <2>3 DEF delete_next
  <2>4. CASE UNCHANGED expires
    BY <1>2, <2>4
  <2> QED
    BY <1>2, <2>1, <2>2, <2>3, <2>4
    DEF RedisNext, get, scan, delete_all, ScanIter, scan_next, scan_ends, redis_vars
<1>3. RedisInv /\ Names_expire => RedisTypeOK
  BY DEF RedisInv, DataInv, TasksInv, IsTask, Data, RedisTypeOK
<1> QED
  BY <1>1, <1>2, <1>3, RedisInvInvariant, PTL DEF RedisSpec

\* Under each of its keys a storage finds what was last stored there through
\* its own prefix, whatever the storages of other prefixes store, delete and
\* delete all of, and a key that scan yields leads back to its name.
THEOREM StoragesStayPrivate == RedisSpec => []StoragesArePrivate
<1>1. RedisInv => StoragesArePrivate
  BY DEF RedisInv, DataInv, StoragesArePrivate
<1> QED
  BY <1>1, RedisInvInvariant, PTL

\* When delete_all returns, nothing that it should have deleted, and that was
\* there all the time, is still there.
THEOREM DeletesAll == RedisSpec => DeleteAllDeletesAll
<1>1. ASSUME RedisInv, [RedisNext]_redis_vars, NEW t \in Tasks,
             tasks[t].deletes, ~tasks'[t].active
      PROVE  tasks[t].old = {}
  <2>1. IsTask(tasks[t])
    BY <1>1 DEF RedisInv, TasksInv
  <2>2. tasks[t].active /\ tasks[t].old \subseteq tasks[t].must
    BY <1>1, <2>1 DEF IsTask
  <2>3. CASE UNCHANGED tasks
    BY <1>1, <2>2, <2>3
  <2>4. ASSUME NEW s \in Storages, NEW k \in Keys,
               delete(s.prefix, k) \/ expire(s.prefix, k)
        PROVE  FALSE
    <3>1. s.prefix \in Prefixes
      BY DEF Prefixes
    <3> QED
      BY <1>1, <2>2, <2>4, <3>1, deleteInv
  <2>5. ASSUME NEW u \in Tasks, NEW p, NEW pattern, NEW deletes, ScanIter(u, p, pattern, deletes)
        PROVE  FALSE
    <3>1. u # t /\ tasks'[t] = tasks[t]
      BY <2>2, <2>5, <1>1 DEF ScanIter, RedisInv, TasksInv
    <3> QED
      BY <1>1, <2>2, <3>1
  <2>6. ASSUME NEW u \in Tasks, delete_next(u)
        PROVE  FALSE
    BY <1>1, <2>2, <2>6, delete_nextInv
  <2>7. ASSUME NEW u \in Tasks, scan_next(u)
        PROVE  FALSE
    <3>1. u # t /\ tasks'[t] = tasks[t]
      BY <1>1, <2>7 DEF scan_next, RedisInv, TasksInv
    <3> QED
      BY <1>1, <2>2, <3>1
  <2>8. ASSUME NEW u \in Tasks, scan_ends(u)
        PROVE  tasks[t].old = {}
    <3>1. CASE u = t
      BY <2>2, <2>8, <3>1 DEF scan_ends
    <3>2. CASE u # t
      <4>1. tasks'[t] = tasks[t]
        BY <2>8, <3>2 DEF scan_ends, RedisInv, TasksInv
      <4> QED
        BY <1>1, <2>2, <4>1
    <3> QED
      BY <3>1, <3>2
  <2>9. ASSUME NEW s \in Storages, NEW k \in Keys, get(s, k) \/ \E v \in Values : store(s, k, v)
        PROVE  UNCHANGED tasks
    BY <2>9 DEF get, store
  <2> QED
    BY <1>1, <2>3, <2>4, <2>5, <2>6, <2>7, <2>8, <2>9 DEF RedisNext, scan, delete_all, redis_vars
<1>2. RedisInv /\ [RedisNext]_redis_vars =>
        [\A t \in Tasks : tasks[t].deletes /\ ~tasks'[t].active => tasks[t].old = {}]_redis_vars
  BY <1>1
<1> QED
  BY <1>2, RedisInvInvariant, PTL DEF RedisSpec, DeleteAllDeletesAll

-----------------------------------------------------------------------------
(***************************************************************************)
(* Registrations and rollbacks, for any managers, models and levels.       *)
(*                                                                         *)
(* RollbackRefused needs that a call which has come to the registration    *)
(* has seen the schema fit.  SerializedAsRegistered needs that what is     *)
(* remembered for the subject of a model is that model's schema, for which *)
(* the models of a manager must have different subjects.                   *)
(***************************************************************************)

Pcs == {"idle", "updating", "testing", "registering", "ok", "raised"}
Waiting == {"updating", "testing", "registering"}

\* A call of register_model, and what the registry has of a subject.
IsCall(m, c) ==
    /\ c = [pc |-> c.pc, model |-> c.model, level |-> c.level, fits |-> c.fits]
    /\ c.pc \in Pcs /\ c.fits \in BOOLEAN
    /\ c.pc \in Waiting => c.model \in ModelsOf[m]
    /\ c.pc = "updating" => c.level \in Levels
    /\ c.pc \in {"registering", "ok"} => c.fits

IsEntry(e) ==
    /\ e = [versions |-> e.versions, level |-> e.level]
    /\ e.versions \in Seq(Schemas)
    /\ e.level \in Levels

CallsInv ==
    /\ registering = [m \in Managers |-> registering[m]]
    /\ \A m \in Managers : IsCall(m, registering[m])

RegistryInv ==
    /\ registry = [s \in Subjects |-> registry[s]]
    /\ \A s \in Subjects : IsEntry(registry[s])

\* What is remembered is registered, and belongs to the model.
IdsInv ==
    /\ _subjects_to_ids \in [Managers -> [Subjects -> Schemas \union {"none"}]]
    /\ \A m \in Managers, s \in Subjects :
         _subjects_to_ids[m][s] # "none" => _subjects_to_ids[m][s] \in Versions(s)
    /\ \A m \in Managers : \A model \in ModelsOf[m] :
         _subjects_to_ids[m][_get_subject(m, model)] \in {model.schema, "none"}

KafkaInv ==
    CallsInv /\ RegistryInv /\ IdsInv /\ serialized.schema = serialized.model.schema

LEMMA SubjectsAreSubjects ==
    ASSUME NEW m \in Managers, NEW model \in ModelsOf[m]
    PROVE  _get_subject(m, model) \in Subjects /\ model.schema \in Schemas
BY DEF Subjects, Schemas

LEMMA KafkaInitInv == KafkaInit => KafkaInv
<1> SUFFICES ASSUME KafkaInit
             PROVE  KafkaInv
  OBVIOUS
<1>1. CallsInv
  BY DEF KafkaInit, CallsInv, IsCall, Pcs, Waiting
<1>2. RegistryInv
  <2>1. <<>> \in Seq(Schemas)
    OBVIOUS
  <2>2. IsEntry([versions |-> <<>>, level |-> DefaultLevel])
    BY <2>1, KafkaAssumption DEF IsEntry
  <2> QED
    BY <2>2 DEF KafkaInit, RegistryInv
<1>3. IdsInv
  BY SubjectsAreSubjects DEF KafkaInit, IdsInv
<1> QED
  BY <1>1, <1>2, <1>3 DEF KafkaInit, KafkaInv, NoModel

\* A step of one call, in which every call that waits looks whether its schema
\* fits now.
LEMMA GoInv ==
    ASSUME CallsInv, NEW m \in Managers, registering[m].pc \in Waiting, NEW pc \in Pcs, Go(m, pc),
           pc # "updating", pc \in {"registering", "ok"} => Fitted(m)
    PROVE  CallsInv'
<1>1. ASSUME NEW k \in Managers
      PROVE  IsCall(k, registering'[k])
  <2> DEFINE old == registering[k]
             fitted == Fitted(k)
  <2>1. IsCall(k, old) /\ fitted \in BOOLEAN
    BY DEF CallsInv, Fitted, Fits
  <2>2. CASE old.pc \in {"idle", "ok", "raised"}
    BY <2>1, <2>2 DEF Go
  <2>3. CASE old.pc \notin {"idle", "ok", "raised"}
    <3> DEFINE next == IF k = m THEN pc ELSE old.pc
    <3>1. registering'[k] = [old EXCEPT !.fits = fitted, !.pc = next]
      BY <2>3 DEF Go
    <3>2. old = [pc |-> old.pc, model |-> old.model, level |-> old.level, fits |-> old.fits]
      BY <2>1 DEF IsCall
    <3>3. registering'[k] =
            [pc |-> next, model |-> old.model, level |-> old.level, fits |-> fitted]
      <4> HIDE DEF fitted, next
      <4> QED
        BY <3>1, <3>2
    <3>4. /\ next \in Pcs /\ old.pc \in Waiting
          /\ next \in {"registering", "ok"} => fitted
      BY <2>1, <2>3 DEF IsCall, Pcs, Waiting, Fitted
    <3>5. old.model \in ModelsOf[k]
      BY <2>1, <3>4 DEF IsCall
    <3>6. next = "updating" => old.level \in Levels
      BY <2>1 DEF IsCall
    <3> HIDE DEF old, fitted, next
    <3> QED
      BY <2>1, <3>3, <3>4, <3>5, <3>6 DEF IsCall
  <2> QED
    BY <2>2, <2>3
<1>2. registering' = [k \in Managers |-> registering'[k]]
  BY DEF Go
<1> QED
  BY <1>1, <1>2 DEF CallsInv

LEMMA register_modelInv ==
    ASSUME KafkaInv, NEW m \in Managers, NEW model \in ModelsOf[m],
           NEW level \in Levels \union {"none"}, register_model(m, model, level)
    PROVE  KafkaInv'
<1> DEFINE pc == IF ~_validate_avro_name(_get_subject(m, model)) THEN "raised"
                 ELSE IF level # "none" THEN "updating" ELSE "testing"
           new == [pc |-> pc, model |-> model, level |-> level, fits |-> FALSE]
<1>1. registering' = [registering EXCEPT ![m] = new]
      /\ UNCHANGED <<registry, _subjects_to_ids, serialized>>
  BY DEF register_model
<1>2. IsCall(m, new)
  BY DEF IsCall, Pcs, Waiting
<1>3. CallsInv'
  <2> HIDE DEF new
  <2>1. registering' = [k \in Managers |-> IF k = m THEN new ELSE registering[k]]
    BY <1>1 DEF KafkaInv, CallsInv
  <2> QED
    BY <1>2, <2>1 DEF KafkaInv, CallsInv
<1>4. RegistryInv' /\ IdsInv' /\ (serialized.schema = serialized.model.schema)'
  BY <1>1 DEF KafkaInv, RegistryInv, IdsInv, Versions
<1> QED
  BY <1>3, <1>4 DEF KafkaInv

LEMMA update_compatibilityInv ==
    ASSUME KafkaInv, NEW m \in Managers, update_compatibility(m)
    PROVE  KafkaInv'
<1> DEFINE s == Subject(m)
           entry == [versions |-> registry[s].versions, level |-> registering[m].level]
<1>1. CallsInv'
  BY GoInv DEF KafkaInv, update_compatibility, At, Pcs, Waiting
<1>2. s \in Subjects
  BY SubjectsAreSubjects DEF KafkaInv, CallsInv, IsCall, update_compatibility, At, Waiting, Subject
<1>3. IsEntry(registry[s])
  BY <1>2 DEF KafkaInv, RegistryInv
<1>4. registry' = [registry EXCEPT ![s].level = registering[m].level]
      /\ UNCHANGED <<_subjects_to_ids, serialized>>
  BY DEF update_compatibility
<1> HIDE DEF s
<1>5. [registry[s] EXCEPT !.level = registering[m].level] = entry
  BY <1>3 DEF IsEntry
<1>6. registry' = [x \in Subjects |-> IF x = s THEN entry ELSE registry[x]]
  BY <1>2, <1>4, <1>5 DEF KafkaInv, RegistryInv
<1>7. IsEntry(entry)
  <2>1. registering[m].level \in Levels
    BY DEF KafkaInv, CallsInv, IsCall, update_compatibility, At
  <2> QED
    BY <1>3, <2>1 DEF IsEntry
<1>8. RegistryInv' /\ \A x \in Subjects : registry'[x].versions = registry[x].versions
  <2>1. entry.versions = registry[s].versions
    OBVIOUS
  <2> HIDE DEF entry
  <2> QED
    BY <1>6, <1>7, <2>1 DEF KafkaInv, RegistryInv
<1>9. IdsInv'
  <2>1. \A x \in Subjects : Versions(x)' = Versions(x)
    BY <1>8 DEF Versions
  <2> QED
    BY <1>4, <2>1 DEF KafkaInv, IdsInv
<1> QED
  BY <1>1, <1>4, <1>8, <1>9 DEF KafkaInv

\* A step that changes neither the registry nor what is remembered.
LEMMA CallsOnly ==
    ASSUME KafkaInv, CallsInv', UNCHANGED <<registry, _subjects_to_ids, serialized>>
    PROVE  KafkaInv'
<1>1. \A x \in Subjects : Versions(x)' = Versions(x)
  BY DEF Versions
<1>2. IdsInv' /\ RegistryInv'
  BY <1>1 DEF KafkaInv, IdsInv, RegistryInv
<1> QED
  BY <1>2 DEF KafkaInv

LEMMA test_compatibilityInv ==
    ASSUME KafkaInv, NEW m \in Managers, test_compatibility(m)
    PROVE  KafkaInv'
<1> DEFINE pc == IF Fits(Subject(m), Schema(m)) THEN "registering" ELSE "raised"
<1>1. pc \in Pcs /\ pc # "updating" /\ (pc \in {"registering", "ok"} => Fitted(m))
  BY DEF Pcs, Fitted
<1>2. Go(m, pc) /\ registering[m].pc \in Waiting /\ CallsInv
  BY DEF test_compatibility, At, Waiting, KafkaInv
<1> HIDE DEF pc
<1>3. CallsInv'
  BY <1>1, <1>2, GoInv
<1> QED
  BY <1>3, CallsOnly DEF test_compatibility

LEMMA client_errorInv ==
    ASSUME KafkaInv, NEW m \in Managers, client_error(m)
    PROVE  KafkaInv'
<1>1. CallsInv'
  BY GoInv DEF KafkaInv, client_error, Pcs, Waiting
<1> QED
  BY <1>1, CallsOnly DEF client_error

\* What register adds to the versions is the schema, and nothing goes.
LEMMA VersionsGrow ==
    ASSUME RegistryInv, NEW s \in Subjects, NEW schema \in Schemas,
           registry' = [registry EXCEPT ![s].versions = Append(@, schema)]
    PROVE  /\ RegistryInv'
           /\ schema \in Versions(s)'
           /\ \A x \in Subjects : Versions(x) \subseteq Versions(x)'
<1> DEFINE old == registry[s].versions
           new == Append(old, schema)
           entry == [versions |-> new, level |-> registry[s].level]
<1>1. IsEntry(registry[s])
  BY DEF RegistryInv
<1>2. old \in Seq(Schemas) /\ [registry[s] EXCEPT !.versions = new] = entry
  <2>1. registry[s] = [versions |-> old, level |-> registry[s].level] /\ old \in Seq(Schemas)
    BY <1>1 DEF IsEntry
  <2> HIDE DEF old, new
  <2> QED
    BY <2>1
<1>3. /\ new \in Seq(Schemas) /\ Len(new) = Len(old) + 1 /\ Len(old) \in Nat
      /\ new[Len(old) + 1] = schema
      /\ \A i \in 1..Len(old) : new[i] = old[i]
  <2> HIDE DEF old
  <2> QED
    BY <1>2, AppendProperties
<1> HIDE DEF new
<1>4. entry.versions = new
  OBVIOUS
<1>5. IsEntry(entry)
  BY <1>1, <1>3 DEF IsEntry
<1> HIDE DEF entry
<1>6. registry' = [x \in Subjects |-> IF x = s THEN entry ELSE registry[x]]
  BY <1>2 DEF RegistryInv, new, old
<1>7. RegistryInv'
  BY <1>5, <1>6 DEF RegistryInv
<1>8. Versions(s)' = {new[i] : i \in 1..Len(new)} /\ Versions(s) = {old[i] : i \in 1..Len(old)}
  BY <1>4, <1>6 DEF Versions
<1>9. schema \in Versions(s)' /\ Versions(s) \subseteq Versions(s)'
  <2> HIDE DEF old
  <2> QED
    BY <1>3, <1>8
<1>10. ASSUME NEW x \in Subjects, x # s
       PROVE  Versions(x)' = Versions(x)
  BY <1>6, <1>10 DEF Versions
<1> QED
  BY <1>7, <1>9, <1>10

LEMMA registerInv ==
    ASSUME KafkaInv, NEW m \in Managers, register(m)
    PROVE  KafkaInv'
<1>0. PICK model, schema, s : model = registering[m].model /\ schema = model.schema /\ s = Subject(m)
  OBVIOUS
<1>1. IsCall(m, registering[m]) /\ registering[m].pc = "registering"
  BY DEF KafkaInv, CallsInv, register, At
<1>2. model \in ModelsOf[m] /\ registering[m].fits
  BY <1>0, <1>1 DEF IsCall, Waiting
<1>3. s \in Subjects /\ schema \in Schemas
  BY <1>0, <1>2, SubjectsAreSubjects DEF Subject
<1>4. CallsInv'
  BY <1>1, <1>2, GoInv DEF KafkaInv, register, Pcs, Waiting, Fitted
<1>5. /\ _subjects_to_ids' = [_subjects_to_ids EXCEPT ![m][s] = schema]
      /\ UNCHANGED serialized
  BY <1>0 DEF register, Schema
<1>6. /\ RegistryInv' /\ schema \in Versions(s)'
      /\ \A x \in Subjects : Versions(x) \subseteq Versions(x)'
  <2>1. CASE schema \in Versions(s)
    <3>1. registry' = registry
      BY <1>0, <2>1 DEF register, Schema
    <3>2. \A x : Versions(x)' = Versions(x)
      BY <3>1 DEF Versions
    <3>3. RegistryInv'
      BY <3>1 DEF KafkaInv, RegistryInv
    <3> QED
      BY <2>1, <3>2, <3>3
  <2>2. CASE schema \notin Versions(s)
    <3>1. registry' = [registry EXCEPT ![s].versions = Append(@, schema)]
      BY <1>0, <2>2 DEF register, Schema
    <3> QED
      <4>1. RegistryInv
        BY DEF KafkaInv
      <4> QED
        BY <1>3, <3>1, <4>1, VersionsGrow
  <2> QED
    BY <2>1, <2>2
<1>7. \A other \in ModelsOf[m] : _get_subject(m, other) = s => other = model
  BY <1>0, <1>2, KafkaAssumption DEF _get_subject, Subject
<1>8. IdsInv'
  <2>1. /\ _subjects_to_ids \in [Managers -> [Subjects -> Schemas \union {"none"}]]
        /\ \A k \in Managers, x \in Subjects :
             _subjects_to_ids[k][x] # "none" => _subjects_to_ids[k][x] \in Versions(x)
        /\ \A k \in Managers : \A a \in ModelsOf[k] :
             _subjects_to_ids[k][_get_subject(k, a)] \in {a.schema, "none"}
    BY DEF KafkaInv, IdsInv
  <2>2. _subjects_to_ids' \in [Managers -> [Subjects -> Schemas \union {"none"}]]
    BY <1>3, <1>5, <2>1
  <2>3. \A k \in Managers, x \in Subjects : _subjects_to_ids'[k][x] =
          IF k = m /\ x = s THEN schema ELSE _subjects_to_ids[k][x]
    BY <1>3, <1>5, <2>1
  <2>4. ASSUME NEW k \in Managers, NEW x \in Subjects, _subjects_to_ids'[k][x] # "none"
        PROVE  _subjects_to_ids'[k][x] \in Versions(x)'
    <3>1. CASE k = m /\ x = s
      BY <1>6, <2>3, <3>1
    <3>2. CASE ~(k = m /\ x = s)
      <4>1. _subjects_to_ids[k][x] \in Versions(x)
        BY <2>1, <2>3, <2>4, <3>2
      <4>2. Versions(x) \subseteq Versions(x)'
        BY <1>6
      <4> QED
        BY <2>3, <3>2, <4>1, <4>2
    <3> QED
      BY <3>1, <3>2
  <2>5. ASSUME NEW k \in Managers, NEW a \in ModelsOf[k]
        PROVE  _subjects_to_ids'[k][_get_subject(k, a)] \in {a.schema, "none"}
    <3>1. _get_subject(k, a) \in Subjects
      BY SubjectsAreSubjects
    <3>2. CASE k = m /\ _get_subject(k, a) = s
      BY <1>0, <1>7, <2>3, <3>1, <3>2
    <3>3. CASE ~(k = m /\ _get_subject(k, a) = s)
      BY <2>1, <2>3, <3>1, <3>3
    <3> QED
      BY <3>2, <3>3
  <2>6. \A k \in Managers : \A a \in ModelsOf[k] : _get_subject(k, a)' = _get_subject(k, a)
    BY DEF _get_subject
  <2> QED
    BY <2>2, <2>4, <2>5, <2>6 DEF IdsInv
<1> QED
  BY <1>4, <1>5, <1>6, <1>8 DEF KafkaInv

LEMMA serializeInv ==
    ASSUME KafkaInv, NEW m \in Managers, NEW model \in ModelsOf[m], serialize(m, model)
    PROVE  KafkaInv'
<1>1. _subjects_to_ids[m][_get_subject(m, model)] = model.schema
  BY DEF KafkaInv, IdsInv, serialize
<1>2. serialized'.schema = model.schema /\ serialized'.model = model
  BY <1>1 DEF serialize
<1>3. UNCHANGED <<registry, registering, _subjects_to_ids>>
  BY DEF serialize
<1>4. \A x : Versions(x)' = Versions(x)
  BY <1>3 DEF Versions
<1>5. CallsInv' /\ RegistryInv' /\ IdsInv'
  BY <1>3, <1>4 DEF KafkaInv, CallsInv, RegistryInv, IdsInv
<1> QED
  BY <1>2, <1>5 DEF KafkaInv

LEMMA KafkaInvInvariant == KafkaSpec => []KafkaInv
<1>1. KafkaInv /\ [KafkaNext]_kafka_vars => KafkaInv'
  <2> SUFFICES ASSUME KafkaInv, [KafkaNext]_kafka_vars
               PROVE  KafkaInv'
    OBVIOUS
  <2>1. CASE UNCHANGED kafka_vars
    BY <2>1, CallsOnly DEF kafka_vars, KafkaInv, CallsInv
  <2>2. ASSUME NEW m \in Managers, NEW model \in ModelsOf[m],
               NEW level \in Levels \union {"none"}, register_model(m, model, level)
        PROVE  KafkaInv'
    BY <2>2, register_modelInv
  <2>3. ASSUME NEW m \in Managers, NEW model \in ModelsOf[m], serialize(m, model)
        PROVE  KafkaInv'
    BY <2>3, serializeInv
  <2>4. ASSUME NEW m \in Managers,
               update_compatibility(m) \/ test_compatibility(m) \/ register(m) \/ client_error(m)
        PROVE  KafkaInv'
    BY <2>4, update_compatibilityInv, test_compatibilityInv, registerInv, client_errorInv
  <2> QED
    BY <2>1, <2>2, <2>3, <2>4 DEF KafkaNext
<1> QED
  BY <1>1, KafkaInitInv, PTL DEF KafkaSpec

\* What the registry has are versions and levels, and what is remembered of a
\* registration is the identifier of a schema.
THEOREM KafkaTypes == KafkaSpec => []KafkaTypeOK
<1>1. KafkaInv => KafkaTypeOK
  BY DEF KafkaInv, RegistryInv, IsEntry, Versions, CallsInv, IsCall, Pcs, IdsInv, KafkaTypeOK
<1> QED
  BY <1>1, KafkaInvInvariant, PTL

\* Whatever other processes register or set meanwhile, register_model returns
\* only if at some time of the call its schema could follow the latest.
THEOREM RollbacksAreRefused == KafkaSpec => []RollbackRefused
<1>1. KafkaInv => RollbackRefused
  BY DEF KafkaInv, CallsInv, IsCall, RollbackRefused, At
<1> QED
  BY <1>1, KafkaInvInvariant, PTL

\* What a manager serializes with is the schema of that model, and a version
\* that the registry has under the model's subject.
THEOREM SerializesAsRegistered == KafkaSpec => []SerializedAsRegistered
<1>1. KafkaInv => SerializedAsRegistered
  BY DEF KafkaInv, IdsInv, SerializedAsRegistered
<1> QED
  BY <1>1, KafkaInvInvariant, PTL

-----------------------------------------------------------------------------
(***************************************************************************)
(* Alerts fit, for texts of any length with newlines and escaped           *)
(* characters anywhere, and any headings that leave place for the code.    *)
(*                                                                         *)
(* First come facts about positions in a text, then that a truncated text  *)
(* keeps to its limit, then that every message is made of blocks with a    *)
(* short heading, and from these what is posted.                           *)
(***************************************************************************)

\* The least of a finite set of numbers, if it is wanted.
LEMMA Least ==
    ASSUME NEW S \in SUBSET Nat, IsFiniteSet(S), S # {}
    PROVE  \E m \in S : \A q \in S : m <= q
<1> DEFINE Under(p) == {q \in S : q < p}
           U == {Under(p) : p \in S}
<1>1. U \subseteq FiniteSubsetsOf(S)
  BY FS_Subset DEF FiniteSubsetsOf
<1>2. PICK P \in U : \A Q \in U : ~(<<Q, P>> \in StrictSubsetOrdering(S))
  <2>1. U # {}
    OBVIOUS
  <2> HIDE DEF U
  <2> QED
    BY <1>1, <2>1, FS_StrictSubsetOrderingWellFounded, WFMin, Zenon
<1>3. PICK m \in S : P = Under(m)
  OBVIOUS
<1>4. ASSUME NEW q \in S, ~(m <= q)
      PROVE  FALSE
  <2>1. /\ Under(q) \subseteq P
        /\ q \in P /\ q \notin Under(q)
    <3>1. q \in Nat /\ m \in Nat /\ q < m
      BY <1>4
    <3>2. Under(q) \subseteq Under(m)
      <4>1. \A x \in S : x < q => x < m
        <5> SUFFICES ASSUME NEW x \in S, x < q
                     PROVE  x < m
          OBVIOUS
        <5>1. x \in Nat
          OBVIOUS
        <5> QED
          BY <3>1, <5>1
      <4> QED
        BY <4>1, Zenon
    <3>3. q \in Under(m) /\ q \notin Under(q)
      BY <1>4, <3>1
    <3> HIDE DEF U, Under
    <3> QED
      BY <1>3, <3>2, <3>3
  <2>2. <<Under(q), P>> \in StrictSubsetOrdering(S)
    BY <1>1, <2>1, <1>3 DEF StrictSubsetOrdering, FiniteSubsetsOf
  <2> QED
    BY <1>2, <2>2
<1> QED
  BY <1>4

LEMMA IntervalsAreFinite == \A i, j \in Int : IsFiniteSet(i..j)
  BY FS_Interval

\* The greatest, by the distance from a bound.
LEMMA Greatest ==
    ASSUME NEW S \in SUBSET Nat, NEW bound \in Nat, \A p \in S : p <= bound, S # {}
    PROVE  \E m \in S : \A q \in S : q <= m
<1> DEFINE D == {d \in 0..bound : bound - d \in S}
<1>1. IsFiniteSet(D)
  <2>1. IsFiniteSet(0..bound) /\ D \in SUBSET (0..bound)
    BY FS_Interval
  <2> QED
    BY <2>1, FS_Subset
<1>2. D # {}
  <2>1. PICK p \in S : TRUE
    OBVIOUS
  <2>2. bound - p \in D
    BY <2>1
  <2> QED
    BY <2>2
<1>3. PICK d \in D : \A q \in D : d <= q
  BY <1>1, <1>2, Least
<1>4. ASSUME NEW q \in S
      PROVE  q <= bound - d
  <2>1. q \in 0..bound /\ bound - (bound - q) = q
    BY <1>4
  <2>2. bound - q \in D
    BY <1>4, <2>1
  <2>3. d \in Nat /\ d <= bound - q
    BY <1>3, <2>2
  <2> QED
    BY <2>1, <2>3
<1> QED
  BY <1>3, <1>4

\* Positions stay numbers when characters before them are escaped.
LEMMA ShiftedIsPosition ==
    ASSUME NEW t \in Text, NEW p \in Nat
    PROVE  /\ Shifted(t, p) \in Nat
           /\ Cardinality(t.special) \in Nat
           /\ Shifted(t, p) <= p + 4 * Cardinality(t.special)
<1> DEFINE Q == {q \in t.special : q < p}
<1>1. IsFiniteSet(t.special)
  <2>1. t.len \in Nat /\ t.special \in SUBSET (0..(t.len - 1))
    BY DEF Text
  <2>2. IsFiniteSet(0..(t.len - 1))
    BY <2>1, FS_Interval
  <2> QED
    BY <2>1, <2>2, FS_Subset
<1>2. /\ Cardinality(Q) \in Nat /\ Cardinality(t.special) \in Nat
      /\ Cardinality(Q) <= Cardinality(t.special)
  <2>1. Q \in SUBSET t.special
    OBVIOUS
  <2> HIDE DEF Q
  <2> QED
    BY <1>1, <2>1, FS_Subset, FS_CardinalityType
<1> QED
  BY <1>2 DEF Shifted

LEMMA EscapedIsText ==
    ASSUME NEW t \in Text
    PROVE  /\ Escaped(t).len \in Nat
           /\ Escaped(t).newlines \in SUBSET Nat
           /\ IsFiniteSet(Escaped(t).newlines)
<1>1. t.newlines \subseteq Nat /\ IsFiniteSet(t.newlines)
  <2>1. t.len \in Nat /\ t.newlines \in SUBSET (0..(t.len - 1))
    BY DEF Text
  <2>2. IsFiniteSet(0..(t.len - 1))
    <3>1. 0 \in Int /\ t.len - 1 \in Int
      BY <2>1
    <3>2. \A i, j \in Int : IsFiniteSet(i..j)
      BY FS_Interval
    <3> QED
      BY <3>1, <3>2
  <2> QED
    BY <2>1, <2>2, FS_Subset
<1>2. Escaped(t).len \in Nat
  BY ShiftedIsPosition DEF Escaped, Text
<1>3. Escaped(t).newlines \in SUBSET Nat
  BY <1>1, ShiftedIsPosition DEF Escaped
<1>4. IsFiniteSet(Escaped(t).newlines)
  <2> DEFINE bound == t.len + 4 * Cardinality(t.special)
  <2>1. t.len \in Nat /\ t.newlines \subseteq 0..(t.len - 1)
    BY DEF Text
  <2>2. bound \in Nat /\ IsFiniteSet(0..bound)
    <3>1. Shifted(t, 0) \in Nat /\ Cardinality(t.special) \in Nat
      BY ShiftedIsPosition
    <3>2. bound \in Nat
      BY <2>1, <3>1
    <3> HIDE DEF bound
    <3> QED
      BY <3>2, FS_Interval
  <2>3. \A p \in t.newlines : Shifted(t, p) \in 0..bound
    <3> SUFFICES ASSUME NEW p \in t.newlines
                 PROVE  Shifted(t, p) \in 0..bound
      OBVIOUS
    <3>1. p \in Nat /\ p <= t.len
      BY <2>1
    <3>2. /\ Shifted(t, p) \in Nat /\ Cardinality(t.special) \in Nat
          /\ Shifted(t, p) <= p + 4 * Cardinality(t.special)
      BY <3>1, ShiftedIsPosition
    <3> QED
      BY <2>1, <2>2, <3>1, <3>2
  <2>4. Escaped(t).newlines \in SUBSET (0..bound)
    BY <2>3 DEF Escaped
  <2> HIDE DEF bound
  <2> QED
    BY <2>2, <2>4, FS_Subset
<1> QED
  BY <1>2, <1>3, <1>4

-----------------------------------------------------------------------------
\* What is shown of a text keeps to a limit that has place for the mark, and is
\* cut if and only if the whole text does not.
TextFits(t, shown, max_length) ==
    /\ Length(shown) <= max_length
    /\ Length(shown) \in Int
    /\ shown.mark > 0 <=> Escaped(t).len > max_length

LEMMA EndFits ==
    ASSUME NEW t \in Text, NEW max_length \in Nat, Mark <= max_length
    PROVE  TextFits(t, _format_and_truncate_at_end(t, max_length), max_length)
<1> DEFINE s == Escaped(t)
           end == max_length - Mark
           before == {p \in s.newlines : p < end}
           last_newline == CHOOSE p \in before : \A q \in before : q <= p
           shown == _format_and_truncate_at_end(t, max_length)
<1>1. s.len \in Nat /\ s.newlines \in SUBSET Nat
  BY EscapedIsText
<1>2. end \in Nat
  BY DEF Mark
<1>3. CASE s.len <= max_length
  <2>1. shown = Shown(0, s.len, 0)
    BY <1>3 DEF _format_and_truncate_at_end, Whole
  <2> QED
    BY <1>1, <1>3, <2>1 DEF TextFits, Shown, Length
<1>4. CASE s.len > max_length /\ before = {}
  <2>1. shown = Shown(0, end, Mark)
    BY <1>1, <1>4 DEF _format_and_truncate_at_end
  <2> QED
    BY <1>1, <1>2, <1>4, <2>1 DEF TextFits, Shown, Length, Mark
<1>5. CASE s.len > max_length /\ before # {}
  <2>1. shown = Shown(0, last_newline, Mark)
    BY <1>1, <1>5 DEF _format_and_truncate_at_end
  <2>2. \E m \in before : \A q \in before : q <= m
    <3>1. before \in SUBSET Nat /\ \A p \in before : p <= end
      BY <1>1, <1>2
    <3> HIDE DEF before, end
    <3> QED
      BY <1>2, <1>5, <3>1, Greatest
  <2>3. last_newline \in before
    BY <2>2
  <2>4. last_newline \in Nat /\ last_newline < end
    BY <1>1, <2>3
  <2> HIDE DEF last_newline
  <2> QED
    BY <1>1, <1>5, <2>1, <2>4 DEF TextFits, Shown, Length, Mark
<1> QED
  BY <1>1, <1>3, <1>4, <1>5

LEMMA StartFits ==
    ASSUME NEW t \in Text, NEW max_length \in Nat, Mark <= max_length
    PROVE  TextFits(t, _format_and_truncate_at_start(t, max_length), max_length)
<1> DEFINE s == Escaped(t)
           fit == {p \in s.newlines : s.len - (p + 1) <= max_length - Mark}
           first == CHOOSE p \in fit : \A q \in fit : p <= q
           shown == _format_and_truncate_at_start(t, max_length)
<1>1. s.len \in Nat /\ s.newlines \in SUBSET Nat /\ IsFiniteSet(s.newlines)
  BY EscapedIsText
<1>2. CASE s.len <= max_length
  <2>1. shown = Shown(0, s.len, 0)
    BY <1>2 DEF _format_and_truncate_at_start, Whole
  <2> QED
    BY <1>1, <1>2, <2>1 DEF TextFits, Shown, Length
<1>3. CASE s.len > max_length /\ s.newlines = {}
  <2>1. shown = Shown(s.len - max_length + Mark, s.len, Mark)
    BY <1>1, <1>3 DEF _format_and_truncate_at_start
  <2> QED
    BY <1>1, <1>3, <2>1 DEF TextFits, Shown, Length, Mark
<1>4. CASE s.len > max_length /\ s.newlines # {} /\ fit = {}
  <2>1. shown = Shown(s.len, s.len, Mark)
    BY <1>1, <1>4 DEF _format_and_truncate_at_start
  <2> QED
    BY <1>1, <1>4, <2>1 DEF TextFits, Shown, Length, Mark
<1>5. CASE s.len > max_length /\ s.newlines # {} /\ fit # {}
  <2>1. shown = Shown(first + 1, s.len, Mark)
    BY <1>1, <1>5 DEF _format_and_truncate_at_start
  <2>2. \E m \in fit : \A q \in fit : m <= q
    BY <1>1, <1>5, FS_Subset, Least
  <2>3. first \in fit
    BY <2>2
  <2>4. first \in Nat /\ s.len - (first + 1) <= max_length - Mark
    BY <1>1, <2>3
  <2> HIDE DEF first
  <2> QED
    BY <1>1, <1>5, <2>1, <2>4 DEF TextFits, Shown, Length, Mark
<1> QED
  BY <1>1, <1>2, <1>3, <1>4, <1>5

-----------------------------------------------------------------------------
\* A block in a place fits there, and is cut only if it has to be.
BlockFits(f, limit) ==
    /\ f.len <= limit
    /\ f.cut <=> f.needs > limit

LEMMA FormattedFits ==
    ASSUME NEW b \in Blocks, NEW limit \in {Limit, FieldLimit}
    PROVE  BlockFits(Formatted(b, limit), limit)
<1> DEFINE room == limit - Frame(b)
           body == Body(b, limit)
<1>1. /\ Frame(b) \in Nat /\ room \in Nat /\ Mark <= room
      /\ b.text \in Text
  BY DEF Blocks, Frame, Mark, Limit, FieldLimit
<1>2. TextFits(b.text, body, room)
  BY <1>1, EndFits, StartFits DEF Body
<1>3. Escaped(b.text).len \in Nat
  BY <1>1, EscapedIsText
<1>4. /\ Formatted(b, limit).len = Frame(b) + Length(body)
      /\ Formatted(b, limit).cut <=> body.mark > 0
      /\ Formatted(b, limit).needs = Frame(b) + Escaped(b.text).len
  BY DEF Formatted
<1>5. limit \in Nat
  BY DEF Limit, FieldLimit
<1> HIDE DEF body
<1> QED
  BY <1>1, <1>2, <1>3, <1>4, <1>5 DEF TextFits, BlockFits

LEMMA AllFit ==
    ASSUME NEW blocks \in Seq(Blocks), NEW limit \in {Limit, FieldLimit},
           NEW f \in FormattedAll(blocks, limit)
    PROVE  BlockFits(f, limit)
<1>1. PICK i \in DOMAIN blocks : f = Formatted(blocks[i], limit)
  BY DEF FormattedAll
<1>2. blocks[i] \in Blocks
  OBVIOUS
<1> QED
  BY <1>1, <1>2, FormattedFits

\* Messages that Slack takes.
Message ==
    {m \in [message : Text, fields : Seq(Blocks), blocks : Seq(Blocks),
            attachments : Seq(Blocks)] : Len(m.fields) <= MaxFields}

BodyFits(body) ==
    /\ Accepts(body)
    /\ \A f \in body.fields : f.cut <=> f.needs > FieldLimit
    /\ \A s \in body.sections : s.cut <=> s.needs > Limit

LEMMA MessagesFit ==
    ASSUME NEW m \in Message
    PROVE  BodyFits(to_slack(m))
<1> DEFINE text == _format_and_truncate_at_end(m.message, Limit)
           section == [len |-> Length(text), cut |-> text.mark > 0,
                       needs |-> Escaped(m.message).len]
<1>1. /\ m.message \in Text /\ m.fields \in Seq(Blocks) /\ m.blocks \in Seq(Blocks)
      /\ m.attachments \in Seq(Blocks) /\ Len(m.fields) <= MaxFields
  BY DEF Message
<1>2. BlockFits(section, Limit)
  <2>1. TextFits(m.message, text, Limit)
    BY <1>1, EndFits DEF Limit, Mark
  <2> QED
    BY <2>1 DEF TextFits, BlockFits
<1>3. \A f \in to_slack(m).fields : BlockFits(f, FieldLimit)
  BY <1>1, AllFit DEF to_slack
<1>4. \A s \in to_slack(m).sections : BlockFits(s, Limit)
  BY <1>1, <1>2, AllFit DEF to_slack
<1>5. to_slack(m).columns <= MaxFields
  BY <1>1 DEF to_slack
<1> QED
  BY <1>3, <1>4, <1>5 DEF BodyFits, Accepts, BlockFits

-----------------------------------------------------------------------------
\* Exceptions as the program has them, before and after their job is noted.
IsException(e) ==
    /\ e \in [class : Classes, name : Text, message : Text, attrs : {e.attrs},
              slack_ignore : BOOLEAN]
    /\ e.attrs \in [DOMAIN e.attrs -> Text]

LEMMA WordsAreText ==
    ASSUME NEW n \in Nat
    PROVE  Words(n) \in Text
BY DEF Words, Text

LEMMA JoinedIsText ==
    ASSUME NEW a \in Text, NEW b \in Text
    PROVE  Joined(a, b) \in Text
<1>1. a.len \in Nat /\ b.len \in Nat
  BY DEF Text
<1>2. {a.len + p : p \in b.newlines} \subseteq a.len..(a.len + b.len - 1)
  BY <1>1 DEF Text
<1>3. {a.len + p : p \in b.special} \subseteq a.len..(a.len + b.len - 1)
  BY <1>1 DEF Text
<1>4. a.newlines \union a.special \subseteq 0..(a.len - 1)
  BY DEF Text
<1> QED
  BY <1>1, <1>2, <1>3, <1>4 DEF Joined, Text

LEMMA AttrIsText ==
    ASSUME NEW e, IsException(e), NEW name
    PROVE  Attr(e, name) \in Text
BY WordsAreText DEF IsException, Attr, Empty

LEMMA AnnotatedIsException ==
    ASSUME NEW e, IsException(e)
    PROVE  IsException(Annotated(e))
<1>1. ASSUME NEW x, IsException(x), NEW name, NEW value \in Text
      PROVE  IsException(With(x, name, value))
  BY <1>1 DEF IsException, With
<1>2. Owner \in Text /\ JobId \in Text /\ Date \in Text
  BY SlackAssumption, WordsAreText DEF Date
<1> QED
  BY <1>1, <1>2 DEF Annotated

LEMMA BlocksAreBlocks ==
    ASSUME NEW h \in 0..1000, NEW t \in Text
    PROVE  SlackTextBlock(h, t) \in Blocks /\ SlackCodeBlock(h, t) \in Blocks
BY DEF SlackTextBlock, SlackCodeBlock, Block, Blocks, FieldLimit, Mark

LEMMA OptionalBlocks ==
    ASSUME NEW t, NEW b \in Blocks
    PROVE  Optional(t, b) \in Seq(Blocks) /\ Len(Optional(t, b)) \in 0..1
BY DEF Optional

\* Whatever is raised, the message about it is one that Slack takes.
LEMMA BaseMessage ==
    ASSUME NEW e, IsException(e)
    PROVE  /\ SlackException(e) \in Message
           /\ Len(SlackException(e).fields) \in 2..3
<1> DEFINE two == <<SlackTextBlock(14, e.name), SlackTextBlock(9, Date)>>
           user == Optional(Attr(e, "user"), SlackTextBlock(4, Attr(e, "user")))
<1>1. e.name \in Text /\ e.message \in Text /\ Attr(e, "user") \in Text /\ Date \in Text
  BY AttrIsText, WordsAreText DEF IsException, Date
<1>2. two \in Seq(Blocks) /\ Len(two) = 2
  BY <1>1, BlocksAreBlocks
<1>3. user \in Seq(Blocks) /\ Len(user) \in 0..1
  <2>1. SlackTextBlock(4, Attr(e, "user")) \in Blocks
    BY <1>1, BlocksAreBlocks
  <2> QED
    BY <2>1, OptionalBlocks
<1> HIDE DEF two, user
<1>4. two \o user \in Seq(Blocks) /\ Len(two \o user) \in 2..3
  BY SMTT(30), <1>2, <1>3, ConcatProperties
<1>5. SlackException(e) = [message |-> e.message, blocks |-> <<>>, attachments |-> <<>>,
                           fields |-> two \o user]
  BY DEF SlackException, two, user
<1> QED
  BY <1>1, <1>4, <1>5 DEF Message, MaxFields

LEMMA WebMessage ==
    ASSUME NEW e, IsException(e)
    PROVE  SlackWebException(e) \in Message
<1> DEFINE url == Attr(e, "url")
           method == Attr(e, "method")
           text == IF method.len = 0 THEN url ELSE Joined(Joined(method, Words(1)), url)
           body == Attr(e, "body")
<1>1. url \in Text /\ text \in Text /\ body \in Text
  BY AttrIsText, JoinedIsText, WordsAreText
<1>2. /\ Optional(url, SlackTextBlock(3, text)) \in Seq(Blocks)
      /\ Optional(body, SlackCodeBlock(8, body)) \in Seq(Blocks)
  <2> HIDE DEF url, text, body
  <2>1. SlackTextBlock(3, text) \in Blocks /\ SlackCodeBlock(8, body) \in Blocks
    BY <1>1, BlocksAreBlocks
  <2> QED
    BY <2>1, OptionalBlocks
<1> QED
  BY <1>2, BaseMessage DEF SlackWebException, Message

LEMMA TaskMessage ==
    ASSUME NEW e, IsException(e)
    PROVE  TaskError(e) \in Message
<1> DEFINE message == SlackException(e)
           Part(name, heading) ==
               Optional(Attr(e, name), SlackTextBlock(heading, Attr(e, name)))
           traceback == Attr(e, "traceback")
           fields == <<message.fields[1]>> \o Part("job_id", 10) \o Part("started_at", 10)
                       \o Tail(message.fields)
           blocks == Part("cause_type", 18) \o Part("detail", 6)
           attachments == Optional(traceback, SlackCodeBlock(9, traceback))
<1>1. ASSUME NEW name, NEW heading \in {6, 10, 18}
      PROVE  Part(name, heading) \in Seq(Blocks) /\ Len(Part(name, heading)) \in 0..1
  <2>1. SlackTextBlock(heading, Attr(e, name)) \in Blocks
    BY AttrIsText, BlocksAreBlocks
  <2> QED
    BY <2>1, OptionalBlocks
<1>2. attachments \in Seq(Blocks)
  <2>1. SlackCodeBlock(9, traceback) \in Blocks
    BY AttrIsText, BlocksAreBlocks
  <2> QED
    BY <2>1, OptionalBlocks
<1>3. /\ message \in Message
      /\ message.fields \in Seq(Blocks) /\ Len(message.fields) \in 2..3
  BY BaseMessage DEF Message
<1>4. /\ <<message.fields[1]>> \in Seq(Blocks) /\ Tail(message.fields) \in Seq(Blocks)
      /\ Len(Tail(message.fields)) \in 1..2
  <2>1. message.fields # <<>> /\ message.fields[1] \in Blocks
    BY <1>3
  <2> QED
    BY <1>3, <2>1, HeadTailProperties
<1>5. TaskError(e) = [message EXCEPT !.fields = fields, !.blocks = blocks,
                                     !.attachments = attachments]
  BY DEF TaskError
<1> HIDE DEF message, Part, attachments
<1>6. blocks \in Seq(Blocks)
  BY <1>1, ConcatProperties
<1>7. fields \in Seq(Blocks) /\ Len(fields) <= MaxFields
  <2> DEFINE first == <<message.fields[1]>>
             id == Part("job_id", 10)
             start == Part("started_at", 10)
             rest == Tail(message.fields)
  <2>1. /\ first \in Seq(Blocks) /\ id \in Seq(Blocks) /\ start \in Seq(Blocks)
        /\ rest \in Seq(Blocks)
        /\ Len(first) = 1 /\ Len(id) \in 0..1 /\ Len(start) \in 0..1 /\ Len(rest) \in 1..2
    BY <1>1, <1>4
  <2>2. fields = ((first \o id) \o start) \o rest
    OBVIOUS
  <2> HIDE DEF first, id, start, rest, fields
  <2>3. first \o id \in Seq(Blocks) /\ Len(first \o id) = Len(first) + Len(id)
    BY <2>1, ConcatProperties, Zenon
  <2>4. /\ (first \o id) \o start \in Seq(Blocks)
        /\ Len((first \o id) \o start) = Len(first \o id) + Len(start)
    BY <2>1, <2>3, ConcatProperties, Zenon
  <2>5. /\ fields \in Seq(Blocks)
        /\ Len(fields) = Len((first \o id) \o start) + Len(rest)
    BY <2>1, <2>2, <2>4, ConcatProperties, Zenon
  <2> DEFINE a == Len(first)
             b == Len(id)
             c == Len(start)
             d == Len(rest)
  <2>6. a = 1 /\ b \in 0..1 /\ c \in 0..1 /\ d \in 1..2
    BY <2>1
  <2>7. Len(fields) = ((a + b) + c) + d
    BY <2>3, <2>4, <2>5, Zenon
  <2> HIDE DEF a, b, c, d
  <2> QED
    BY <2>5, <2>6, <2>7 DEF MaxFields
<1> HIDE DEF fields, blocks
<1> QED
  BY <1>2, <1>3, <1>5, <1>6, <1>7 DEF Message

LEMMA DeserializeMessage ==
    ASSUME NEW e, IsException(e)
    PROVE  DeserializeError(e) \in Message
<1> DEFINE key == SlackTextBlock(3, Attr(e, "key"))
           error == SlackCodeBlock(5, Attr(e, "error"))
<1>1. key \in Blocks /\ error \in Blocks
  BY AttrIsText, BlocksAreBlocks
<1> HIDE DEF key, error
<1>2. DeserializeError(e) =
        [SlackException(e) EXCEPT !.fields = Append(@, key), !.blocks = <<error>>]
  BY DEF DeserializeError, key, error
<1>3. /\ SlackException(e) \in Message
      /\ SlackException(e).fields \in Seq(Blocks)
      /\ Len(SlackException(e).fields) \in 2..3
  BY BaseMessage DEF Message
<1>4. /\ Append(SlackException(e).fields, key) \in Seq(Blocks)
      /\ Len(Append(SlackException(e).fields, key)) \in 3..4
  <2>1. /\ Append(SlackException(e).fields, key) \in Seq(Blocks)
        /\ Len(Append(SlackException(e).fields, key)) = Len(SlackException(e).fields) + 1
    BY <1>1, <1>3, AppendProperties, ZenonT(40)
  <2> DEFINE n == Len(SlackException(e).fields)
  <2>2. n \in 2..3
    BY <1>3
  <2>3. n + 1 \in 3..4
    <3> HIDE DEF n
    <3> QED
      BY <2>2
  <2> QED
    BY <2>1, <2>3, Zenon
<1>5. <<error>> \in Seq(Blocks)
  BY <1>1
<1> DEFINE base == SlackException(e)
           fields == Append(base.fields, key)
<1>6. DeserializeError(e) =
        [message |-> base.message, fields |-> fields, blocks |-> <<error>>,
         attachments |-> base.attachments]
  BY <1>2, <1>3 DEF Message
<1>7. base.message \in Text /\ base.attachments \in Seq(Blocks)
  BY <1>3 DEF Message
<1>8. fields \in Seq(Blocks) /\ Len(fields) <= MaxFields
  BY <1>4 DEF MaxFields
<1> HIDE DEF base, fields
<1> QED
  BY <1>5, <1>6, <1>7, <1>8 DEF Message

LEMMA ExceptionsFit ==
    ASSUME NEW e, IsException(e)
    PROVE  post_exception(e) \in Message
<1> DEFINE Reported(m) == [m EXCEPT !.message = Joined(Joined(Error_in, Words(2)), @)]
<1>1. Error_in \in Text
  BY SlackAssumption, WordsAreText DEF Error_in
<1>2. ASSUME NEW m \in Message
      PROVE  Reported(m) \in Message
  <2>1. Joined(Joined(Error_in, Words(2)), m.message) \in Text
    BY <1>1, JoinedIsText, WordsAreText DEF Message
  <2> QED
    BY <2>1 DEF Message
<1>3. CASE e.class \in {"SlackException", "SlackWebException", "TaskError", "DeserializeError"}
  BY <1>2, <1>3, BaseMessage, WebMessage, TaskMessage, DeserializeMessage DEF post_exception
<1>4. CASE e.class \notin {"SlackException", "SlackWebException", "TaskError",
                           "DeserializeError"}
  <2> DEFINE error == Joined(Joined(e.name, Words(2)), e.message)
             fields == <<SlackTextBlock(14, e.name), SlackTextBlock(9, Date)>>
  <2>1. e.name \in Text /\ Date \in Text /\ error \in Text
    BY JoinedIsText, WordsAreText DEF IsException, Date
  <2>2. fields \in Seq(Blocks) /\ Len(fields) = 2 /\ <<SlackCodeBlock(9, error)>> \in Seq(Blocks)
    BY <2>1, BlocksAreBlocks
  <2>3. post_exception(e) = [message |-> Error_in, attachments |-> <<>>, fields |-> fields,
                             blocks |-> <<SlackCodeBlock(9, error)>>]
    BY <1>4 DEF post_exception
  <2> HIDE DEF fields, error
  <2> QED
    <3> DEFINE empty == <<>>
               blocks == <<SlackCodeBlock(9, error)>>
    <3>1. empty \in Seq(Blocks) /\ Len(fields) <= MaxFields
      BY <2>2 DEF MaxFields
    <3>2. blocks \in Seq(Blocks)
      BY <2>2
    <3>3. post_exception(e) = [message |-> Error_in, attachments |-> empty,
                               fields |-> fields, blocks |-> blocks]
      BY <2>3
    <3>4. fields \in Seq(Blocks)
      BY <2>2
    <3> HIDE DEF empty, blocks
    <3> QED
      BY <1>1, <3>1, <3>2, <3>3, <3>4 DEF Message
<1> QED
  BY <1>3, <1>4

-----------------------------------------------------------------------------
\* What is being posted fits.  Only tasks that post matter, and a task begins to
\* post only a message of the service or one about an exception.
Posting == {"idle", "posting", "raised", "done", "logged"}

SlackInv ==
    /\ alerts \in [Handlers -> [pc : Posting, body : {alerts[t].body : t \in Handlers},
                                raises : BOOLEAN]]
    /\ \A t \in Handlers : alerts[t].pc = "posting" => BodyFits(alerts[t].body)

LEMMA SlackInitInv == SlackInit => SlackInv
BY DEF SlackInit, SlackInv, Quiet, Posting

LEMMA PostInv ==
    ASSUME SlackInv, NEW t \in Handlers, NEW m \in Message, NEW raises \in BOOLEAN,
           post(t, m, raises)
    PROVE  SlackInv'
<1>1. BodyFits(to_slack(m))
  BY MessagesFit
<1>2. alerts' = [alerts EXCEPT ![t] =
                   [pc |-> "posting", body |-> to_slack(m), raises |-> raises]]
  BY DEF post
<1>3. \A h \in Handlers : alerts'[h] =
        IF h = t THEN [pc |-> "posting", body |-> to_slack(m), raises |-> raises] ELSE alerts[h]
  BY <1>2 DEF SlackInv
<1> QED
  BY <1>1, <1>2, <1>3 DEF SlackInv, Posting

LEMMA ConcludesInv ==
    ASSUME SlackInv, NEW t \in Handlers, NEW pc \in Posting \ {"posting"}, Concludes(t, pc)
    PROVE  SlackInv'
<1>1. alerts' = [alerts EXCEPT ![t] = [pc |-> pc, body |-> NoBody, raises |-> FALSE]]
  BY DEF Concludes, Quiet
<1>2. \A h \in Handlers : alerts'[h] =
        IF h = t THEN [pc |-> pc, body |-> NoBody, raises |-> FALSE] ELSE alerts[h]
  BY <1>1 DEF SlackInv
<1> QED
  BY <1>1, <1>2 DEF SlackInv, Posting

LEMMA SlackStepInv == SlackInv /\ [SlackNext]_slack_vars => SlackInv'
<1> SUFFICES ASSUME SlackInv, [SlackNext]_slack_vars
             PROVE  SlackInv'
  OBVIOUS
<1>1. CASE UNCHANGED alerts
  BY <1>1 DEF SlackInv
<1>2. CASE initialize_alerts
  BY <1>1, <1>2 DEF initialize_alerts
<1>3. ASSUME NEW t \in Handlers, NEW e \in Exceptions, wrapped_route_handler(t, e)
      PROVE  SlackInv'
  <2>1. post_exception(e) \in Message
    BY SlackAssumption, ExceptionsFit DEF IsException
  <2> QED
    BY <1>3, <2>1, PostInv, ConcludesInv DEF wrapped_route_handler, Posting
<1>4. ASSUME NEW t \in Handlers, NEW e \in Exceptions, NEW slack \in BOOLEAN,
             _annotate_worker_error(t, slack, e) \/ uws_job_raises(t, slack, e)
      PROVE  SlackInv'
  <2>1. post_exception(e) \in Message /\ post_exception(Annotated(e)) \in Message
    BY SlackAssumption, AnnotatedIsException, ExceptionsFit DEF IsException
  <2> QED
    BY <1>4, <2>1, PostInv, ConcludesInv DEF _annotate_worker_error, uws_job_raises, Posting
<1>5. ASSUME NEW t \in Handlers, NEW m \in Messages, post_message(t, m)
      PROVE  SlackInv'
  <2>1. m \in Message
    BY <1>5, SlackAssumption DEF post_message, _validate_fields, Message
  <2> QED
    BY <1>5, <2>1, PostInv DEF post_message
<1>6. ASSUME NEW t \in Handlers, posted(t)
      PROVE  SlackInv'
  BY <1>6, ConcludesInv DEF posted, Posting
<1> QED
  BY <1>1, <1>2, <1>3, <1>4, <1>5, <1>6 DEF SlackNext, slack_vars

\* Slack takes every alert: whatever the exception, the texts in it and its job,
\* no message is too long or has too many fields, and none is cut needlessly.
THEOREM EveryAlertFits == SlackSpec => []AlertsFit
<1>1. SlackInv => AlertsFit
  BY DEF SlackInv, AlertsFit, BodyFits
<1> QED
  BY SlackInitInv, SlackStepInv, <1>1, PTL DEF SlackSpec

-----------------------------------------------------------------------------
(***************************************************************************)
(* The mock of the arq queue, for any job identifiers.  A result that is   *)
(* there is one of a job which was started, and no job is queued again, so *)
(* that the status which a step meets says whether there is a result.      *)
(***************************************************************************)

MockInv == MockTypeOK /\ CompleteHaveResults

LEMMA MockInitInv == MockInit => MockInv
  BY DEF MockInit, MockInv, MockTypeOK, CompleteHaveResults, Statuses

LEMMA MockStepInv == MockInv /\ [MockNext]_mock_vars => MockInv'
<1> SUFFICES ASSUME MockInv, [MockNext]_mock_vars
             PROVE  MockInv'
  OBVIOUS
<1> USE DEF MockInv, MockTypeOK, CompleteHaveResults, Statuses, Results, Known, Answer
<1>1. ASSUME NEW id \in Ids, enqueue(id)
      PROVE  MockInv'
  BY <1>1 DEF enqueue
<1>2. ASSUME NEW id \in Ids, abort_job(id)
      PROVE  MockInv'
  BY <1>2 DEF abort_job
<1>3. ASSUME NEW id \in Ids, get_job_result(id)
      PROVE  MockInv'
  BY <1>3 DEF get_job_result
<1>4. ASSUME NEW id \in Ids, set_in_progress(id)
      PROVE  MockInv'
  BY <1>4 DEF set_in_progress
<1>5. ASSUME NEW id \in Ids, set_complete(id)
      PROVE  MockInv'
  BY <1>5 DEF set_complete
<1>6. CASE UNCHANGED mock_vars
  BY <1>6 DEF mock_vars
<1> QED
  BY <1>1, <1>2, <1>3, <1>4, <1>5, <1>6 DEF MockNext

\* The calls of a service and of its tests keep to the types (_queue.py,
\* MockArqQueue).
THEOREM MockTypes == MockSpec => []MockTypeOK
<1>1. MockInv => MockTypeOK
  BY DEF MockInv
<1> QED
  BY <1>1, MockInitInv, MockStepInv, PTL DEF MockSpec

\* In whatever order jobs are aborted, started and completed, those that are
\* complete have results, and those that are queued or deleted have none; jobs in
\* progress may have one (_queue.py, abort_job, set_in_progress, set_complete).
THEOREM CompleteJobsHaveResults == MockSpec => []CompleteHaveResults
<1>1. MockInv => CompleteHaveResults
  BY DEF MockInv
<1> QED
  BY <1>1, MockInitInv, MockStepInv, PTL DEF MockSpec

-----------------------------------------------------------------------------
(***************************************************************************)
(* Calls on one database, for any number of processes, revisions and       *)
(* tries.                                                                  *)
(*                                                                         *)
(* A call is what its step says (CallOK), and what it answers is the case  *)
(* (Truthful).  Of the calls that change tables or stamp there is one at a *)
(* time, and a stamp under which no tables were changed is that of the     *)
(* tables (TablesInv).                                                     *)
(***************************************************************************)

\* Steps of calls that change the tables or the stamp, of which there is one.
Changing == {"initializing", "dropping", "unstamping", "stamping", "migrating"}

\* What a call may be at each of its steps.
CallOK(c) ==
    /\ c = [op |-> c.op, step |-> c.step, try |-> c.try, reset |-> c.reset,
            told |-> c.told, answer |-> c.answer]
    /\ c.step \in Changing \union {"idle", "connecting", "retrying"}
    /\ c.told \in 0..2
    /\ c.try \in 1..6 \union 1..MaxTries
    /\ c.step # "idle" => c.answer = "none"
    /\ c.step = "initializing" => c.op = "initialize" /\ c.told = 0 /\ c.try \in 1..5
    /\ c.step = "dropping" => c.op = "drop" /\ c.told = 0
    /\ c.step = "unstamping" => \/ c.op = "drop" /\ c.told = 1
                                \/ c.op \in {"unstamp", "stamp"} /\ c.told = 0
    /\ c.step = "stamping" => c.op = "stamp" /\ c.told \in {0, 1}
    /\ c.step = "migrating" => c.op = "migrate" /\ c.told = 0
    /\ c.step = "connecting" => c.op = "session" /\ c.told = 0 /\ c.try \in 1..6
    /\ c.step = "retrying" => c.op = "retry" /\ c.told = 0 /\ c.try \in 1..MaxTries

\* What the answers of calls say, which is AnswersTellCommits for one call.
Truthful(c) ==
    /\ c.answer = "ok" => c.told \in IF c.op = "drop" THEN {2}
                                      ELSE IF c.op = "stamp" THEN {1, 2} ELSE {1}
    /\ c.answer \in Errors \union {"DatabaseInitializationError"} =>
         c.told < 2 /\ (c.op \notin {"stamp", "drop"} => c.told = 0)
    /\ c.answer = "DatabaseInitializationError" => c.try = 5
    /\ c.answer \in NotReady => c.op # "initialize"
    /\ c.answer \in NotReady /\ c.op = "session" => c.try = 6
    /\ c.answer \in Retried /\ c.op = "retry" => c.try = MaxTries

DbCallsInv ==
    /\ calls = [p \in Procs |-> calls[p]]
    /\ \A p \in Procs : CallOK(calls[p]) /\ Truthful(calls[p])

\* One process at a time changes tables or the stamp, and what is to be stamped is
\* there.  A stamp under which no tables were changed is true.
TablesInv ==
    /\ db \in [tables : Nat, version : Nat, outdated : BOOLEAN]
    /\ \A p, q \in Procs :
         calls[p].step \in Changing /\ calls[q].step \in Changing => p = q
    /\ \A p \in Procs :
         calls[p].step \in {"unstamping", "stamping"} /\ calls[p].op = "stamp" =>
              db.tables = Rev[p]
    /\ ~db.outdated /\ db.version # 0 => db.tables = db.version

SchemaInv == DbCallsInv /\ TablesInv

LEMMA SchemaInitInv == SchemaInit => SchemaInv
<1> SUFFICES ASSUME SchemaInit
             PROVE  SchemaInv
  OBVIOUS
<1>1. CallOK(NewCall("none", "idle")) /\ Truthful(NewCall("none", "idle"))
  BY DEF CallOK, Truthful, NewCall, Changing, Errors, NotReady, Retried
<1>2. DbCallsInv
  BY <1>1 DEF SchemaInit, DbCallsInv
<1>3. TablesInv
  BY DEF SchemaInit, TablesInv, NewCall, Changing
<1> QED
  BY <1>2, <1>3 DEF SchemaInv

\* A step of one call.
LEMMA CallIs ==
    ASSUME DbCallsInv, NEW p \in Procs, NEW c, CallOK(c), Truthful(c),
           calls' = [calls EXCEPT ![p] = c]
    PROVE  /\ DbCallsInv'
           /\ calls'[p] = c
           /\ \A q \in Procs : q # p => calls'[q] = calls[q]
<1>1. \A q \in Procs : calls'[q] = IF q = p THEN c ELSE calls[q]
  BY DEF DbCallsInv
<1>2. \A q \in Procs : CallOK(calls'[q]) /\ Truthful(calls'[q])
  BY <1>1 DEF DbCallsInv
<1>3. calls' = [q \in Procs |-> calls'[q]]
  BY DEF DbCallsInv
<1>4. DbCallsInv'
  BY <1>2, <1>3 DEF DbCallsInv, CallOK, Truthful
<1> QED
  BY <1>1, <1>4

\* What becomes of a call with a transaction.
Call(op, step, try, reset, told, reply) ==
    [op |-> op, step |-> step, try |-> try, reset |-> reset, told |-> told,
     answer |-> reply]

LEMMA CallFields ==
    ASSUME NEW o, NEW s, NEW y, NEW r, NEW d, NEW a, NEW x
    PROVE  /\ [Call(o, s, y, r, d, a) EXCEPT !.step = x] = Call(o, x, y, r, d, a)
           /\ [Call(o, s, y, r, d, a) EXCEPT !.try = x] = Call(o, s, x, r, d, a)
           /\ [Call(o, s, y, r, d, a) EXCEPT !.told = x] = Call(o, s, y, r, x, a)
           /\ [Call(o, s, y, r, d, a) EXCEPT !.answer = x] = Call(o, s, y, r, d, x)
           /\ [Call(o, s, y, r, d, a) EXCEPT !.reset = x] = Call(o, s, y, x, d, a)
           /\ Call(o, s, y, r, d, a).told = d
           /\ Call(o, s, y, r, d, a).try = y
  BY DEF Call

\* A call c that ends, goes on or tries again.
LEMMA CallsAfter ==
    ASSUME NEW c, c = Call(c.op, c.step, c.try, c.reset, c.told, c.answer)
    PROVE  /\ \A a : Ends(c, a) = Call(c.op, "idle", c.try, c.reset, c.told, a)
           /\ \A s : [c EXCEPT !.step = s] =
                        Call(c.op, s, c.try, c.reset, c.told, c.answer)
           /\ [c EXCEPT !.try = @ + 1] =
                 Call(c.op, c.step, c.try + 1, c.reset, c.told, c.answer)
<1>1. PICK o, s, y, r, d, a :
        /\ o = c.op /\ s = c.step /\ y = c.try /\ r = c.reset /\ d = c.told /\ a = c.answer
        /\ c = Call(o, s, y, r, d, a)
  OBVIOUS
<1>2. \A x : [c EXCEPT !.step = x] = Call(o, x, y, r, d, a)
  BY <1>1, CallFields
<1>3. [c EXCEPT !.try = @ + 1] = Call(o, s, y + 1, r, d, a)
  BY <1>1, CallFields
<1>4. ASSUME NEW x
      PROVE  Ends(c, x) = Call(o, "idle", y, r, d, x)
  <2> DEFINE e == [c EXCEPT !.step = "idle"]
  <2>1. Ends(c, x) = [e EXCEPT !.answer = x]
    BY DEF Ends
  <2>2. e = Call(o, "idle", y, r, d, a)
    BY <1>2
  <2> HIDE DEF e
  <2>3. [Call(o, "idle", y, r, d, a) EXCEPT !.answer = x] = Call(o, "idle", y, r, d, x)
    BY DEF Call
  <2> HIDE DEF Ends
  <2> QED
    BY <2>1, <2>2, <2>3
<1> QED
  BY <1>1, <1>2, <1>3, <1>4

LEMMA TransactIs ==
    ASSUME NEW p, NEW t, NEW new, NEW call, Transact(p, t, new, call),
           NEW op, NEW step, NEW try, NEW reset, NEW told, NEW reply,
           call = Call(op, step, try, reset, told, reply)
    PROVE  /\ db' = IF t.commits THEN new ELSE db
           /\ calls' = [calls EXCEPT ![p] =
                Call(op, step, try, reset, IF t.error = "none" THEN told + 1 ELSE told,
                     reply)]
<1>1. [call EXCEPT !.told = IF t.error = "none" THEN @ + 1 ELSE @] =
        Call(op, step, try, reset, IF t.error = "none" THEN told + 1 ELSE told, reply)
  BY CallFields
<1> QED
  BY <1>1 DEF Transact

\* What a step does, whose call was of a kind that CallOK allows, and becomes one.
LEMMA CallStep ==
    ASSUME DbCallsInv, NEW p \in Procs, NEW op, NEW step, NEW try, NEW reset, NEW told,
           NEW reply, calls' = [calls EXCEPT ![p] = Call(op, step, try, reset, told, reply)],
           CallOK(Call(op, step, try, reset, told, reply)),
           Truthful(Call(op, step, try, reset, told, reply))
    PROVE  /\ DbCallsInv'
           /\ calls'[p].op = op /\ calls'[p].step = step
           /\ \A q \in Procs : q # p => calls'[q] = calls[q]
<1>1. /\ Call(op, step, try, reset, told, reply).op = op
      /\ Call(op, step, try, reset, told, reply).step = step
  BY DEF Call
<1> QED
  BY <1>1, CallIs

\* Calls that do not change tables or stamp.
LEMMA QuietStep ==
    ASSUME SchemaInv, NEW p \in Procs, calls'[p].step \notin Changing,
           \A q \in Procs : q # p => calls'[q] = calls[q],
           UNCHANGED db
    PROVE  TablesInv'
  BY DEF SchemaInv, TablesInv, Changing

\* What becomes of a call that is at a step of its own.
LEMMA CallAt ==
    ASSUME DbCallsInv, NEW p \in Procs, calls[p].step # "idle"
    PROVE  LET c == calls[p]
               After(step, try, reply) == Call(c.op, step, try, c.reset, c.told, reply)
           IN /\ CallOK(c) /\ c = After(c.step, c.try, "none")
              /\ \A a : Ends(c, a) = After("idle", c.try, a)
              /\ \A t : EndsOrRaises(c, t) =
                   After("idle", c.try, IF t.error = "none" THEN "ok" ELSE t.error)
              /\ \A t, s : GoesOn(c, t, s) =
                   IF t.error = "none" THEN After(s, c.try, "none")
                                       ELSE After("idle", c.try, t.error)
              /\ [c EXCEPT !.try = @ + 1] = After(c.step, c.try + 1, "none")
<1> DEFINE c == calls[p]
           After(step, try, reply) == Call(c.op, step, try, c.reset, c.told, reply)
<1>1. /\ CallOK(c) /\ c = Call(c.op, c.step, c.try, c.reset, c.told, c.answer)
      /\ c.answer = "none"
  BY DEF DbCallsInv, CallOK, Call
<1> HIDE DEF c
<1>2. /\ \A a : Ends(c, a) = After("idle", c.try, a)
      /\ \A s : [c EXCEPT !.step = s] = After(s, c.try, "none")
      /\ [c EXCEPT !.try = @ + 1] = After(c.step, c.try + 1, "none")
      /\ c = After(c.step, c.try, "none")
  BY <1>1, CallsAfter
<1> HIDE DEF After
<1>3. /\ \A t : EndsOrRaises(c, t) =
           After("idle", c.try, IF t.error = "none" THEN "ok" ELSE t.error)
      /\ \A t, s : GoesOn(c, t, s) =
           IF t.error = "none" THEN After(s, c.try, "none")
                               ELSE After("idle", c.try, t.error)
  BY <1>2 DEF EndsOrRaises, GoesOn
<1> QED
  BY <1>1, <1>2, <1>3 DEF c, After

LEMMA EndsAt ==
    ASSUME DbCallsInv, NEW p \in Procs, calls[p].step # "idle", NEW t
    PROVE  EndsOrRaises(calls[p], t) =
             Call(calls[p].op, "idle", calls[p].try, calls[p].reset, calls[p].told,
                  IF t.error = "none" THEN "ok" ELSE t.error)
  BY CallAt

\* Transactions that a call is at.
LEMMA initializeInv ==
    ASSUME SchemaInv, NEW p \in Procs, _initialize_with_engine(p)
    PROVE  SchemaInv'
<1> DEFINE c == calls[p]
<1>1. /\ DbCallsInv /\ TablesInv /\ c.step = "initializing"
      /\ CallOK(c) /\ c.op = "initialize" /\ c.told = 0 /\ c.try \in 1..5
  BY DEF SchemaInv, DbCallsInv, TablesInv, CallOK, _initialize_with_engine
<1>2. PICK t \in Outcomes :
        Transact(p, t, Created(p),
             IF t.error \in NotReady /\ c.try < 5 THEN [c EXCEPT !.try = @ + 1]
             ELSE IF t.error \in NotReady THEN Ends(c, "DatabaseInitializationError")
             ELSE EndsOrRaises(c, t))
  BY DEF _initialize_with_engine
<1>3. t.error \in Errors \union {"none"}
  BY DEF Outcomes, Errors, _initialize_with_engine
<1> DEFINE again == t.error \in NotReady /\ c.try < 5
           step == IF again THEN "initializing" ELSE "idle"
           try == IF again THEN c.try + 1 ELSE c.try
           reply == IF again THEN "none"
                     ELSE IF t.error \in NotReady THEN "DatabaseInitializationError"
                     ELSE IF t.error = "none" THEN "ok" ELSE t.error
           told == IF t.error = "none" THEN 0 + 1 ELSE 0
<1>4. /\ db' = IF t.commits THEN Created(p) ELSE db
      /\ calls' = [calls EXCEPT ![p] = Call("initialize", step, try, c.reset, told, reply)]
  <2> DEFINE call == IF again THEN [c EXCEPT !.try = @ + 1]
                     ELSE IF t.error \in NotReady THEN Ends(c, "DatabaseInitializationError")
                     ELSE EndsOrRaises(c, t)
  <2>1. call = Call("initialize", step, try, c.reset, 0, reply)
    BY <1>1, CallAt
  <2>2. Transact(p, t, Created(p), call)
    BY <1>2
  <2> HIDE DEF call, step, try, reply
  <2> QED
    BY <2>1, <2>2, TransactIs
<1>5. /\ CallOK(Call("initialize", step, try, c.reset, told, reply))
      /\ Truthful(Call("initialize", step, try, c.reset, told, reply))
  BY <1>1, <1>3 DEF CallOK, Truthful, Call, Changing, Errors, NotReady, Retried
<1> HIDE DEF step, try, reply, told
<1>6. /\ DbCallsInv' /\ calls'[p].step = step /\ calls'[p].op = "initialize"
      /\ \A q \in Procs : q # p => calls'[q] = calls[q]
  <2>1. PICK new : new = Call("initialize", step, try, c.reset, told, reply)
    OBVIOUS
  <2>2. new.op = "initialize" /\ new.step = step
    BY <2>1 DEF Call
  <2>3. CallOK(new) /\ Truthful(new) /\ calls' = [calls EXCEPT ![p] = new]
    BY <1>4, <1>5, <2>1
  <2> QED
    BY <1>1, <2>2, <2>3, CallIs
<1>7. TablesInv'
  <2>1. db' \in [tables : Nat, version : Nat, outdated : BOOLEAN]
    BY <1>1, <1>4, SchemaAssumption DEF TablesInv, Created, DbCallsInv, CallOK
  <2>2. \/ db'.outdated
        \/ /\ db'.version = db.version /\ db'.outdated = db.outdated
           /\ db'.tables = db.tables \/ db.tables = 0
    BY <1>1, <1>4, SchemaAssumption DEF TablesInv, Created, DbCallsInv, CallOK
  <2>3. ~db'.outdated /\ db'.version # 0 => db'.tables = db'.version
    BY <1>1, <2>2 DEF TablesInv
  <2>4. step \in {"initializing", "idle"}
    BY DEF step
  <2>5. \A q \in Procs : q # p => calls'[q].step \notin Changing
    BY <1>1, <1>6 DEF TablesInv, Changing
  <2>6. \A q \in Procs : calls'[q].step \notin {"unstamping", "stamping"}
    BY <1>6, <2>4, <2>5 DEF Changing
  <2> QED
    BY <1>6, <2>1, <2>3, <2>5, <2>6 DEF TablesInv
<1> QED
  BY <1>6, <1>7 DEF SchemaInv

LEMMA drop_allInv ==
    ASSUME SchemaInv, NEW p \in Procs, drop_all(p)
    PROVE  SchemaInv'
<1> DEFINE c == calls[p]
<1>1. /\ DbCallsInv /\ TablesInv /\ c.step = "dropping"
      /\ CallOK(c) /\ c.op = "drop" /\ c.told = 0
  BY DEF SchemaInv, DbCallsInv, TablesInv, CallOK, drop_all
<1>2. PICK t \in Outcomes :
        Transact(p, t, [db EXCEPT !.tables = 0, !.outdated = TRUE], GoesOn(c, t, "unstamping"))
  BY DEF drop_all
<1>3. t.error \in Errors \union {"none"}
  BY DEF Outcomes, Errors, drop_all
<1> DEFINE step == IF t.error = "none" THEN "unstamping" ELSE "idle"
           reply == t.error
           told == IF t.error = "none" THEN 0 + 1 ELSE 0
<1>4. /\ db' = IF t.commits THEN [db EXCEPT !.tables = 0, !.outdated = TRUE] ELSE db
      /\ calls' = [calls EXCEPT ![p] = Call("drop", step, c.try, c.reset, told, reply)]
  <2>1. GoesOn(c, t, "unstamping") = Call("drop", step, c.try, c.reset, 0, reply)
    <3>1. GoesOn(c, t, "unstamping") =
            IF t.error = "none"
              THEN Call(c.op, "unstamping", c.try, c.reset, c.told, "none")
              ELSE Call(c.op, "idle", c.try, c.reset, c.told, t.error)
      BY <1>1, CallAt
    <3> HIDE DEF c
    <3> QED
      BY <1>1, <3>1
  <2> HIDE DEF step, reply
  <2> QED
    BY <1>2, <2>1, TransactIs
<1>5. /\ CallOK(Call("drop", step, c.try, c.reset, told, reply))
      /\ Truthful(Call("drop", step, c.try, c.reset, told, reply))
  BY <1>1, <1>3 DEF CallOK, Truthful, Call, Changing, Errors, NotReady, Retried
<1> HIDE DEF step, reply, told
<1>6. /\ DbCallsInv' /\ calls'[p].step = step /\ calls'[p].op = "drop"
      /\ \A q \in Procs : q # p => calls'[q] = calls[q]
  <2>1. PICK new : new = Call("drop", step, c.try, c.reset, told, reply)
    OBVIOUS
  <2>2. new.op = "drop" /\ new.step = step
    BY <2>1 DEF Call
  <2>3. CallOK(new) /\ Truthful(new) /\ calls' = [calls EXCEPT ![p] = new]
    BY <1>4, <1>5, <2>1
  <2> QED
    BY <1>1, <2>2, <2>3, CallIs
<1>7. TablesInv'
  <2>1. /\ db' \in [tables : Nat, version : Nat, outdated : BOOLEAN]
        /\ db' = db \/ db'.outdated
    BY <1>1, <1>4 DEF TablesInv
  <2>2. ~db'.outdated /\ db'.version # 0 => db'.tables = db'.version
    BY <1>1, <2>1 DEF TablesInv
  <2>3. \A q \in Procs : q # p => calls'[q].step \notin Changing
    BY <1>1, <1>6 DEF TablesInv, Changing
  <2>4. \A q \in Procs : calls'[q].op = "stamp" =>
          calls'[q].step \notin {"unstamping", "stamping"}
    BY <1>6, <2>3 DEF Changing
  <2> QED
    BY <1>6, <2>1, <2>2, <2>3, <2>4 DEF TablesInv
<1> QED
  BY <1>6, <1>7 DEF SchemaInv

LEMMA DROP_TABLEInv ==
    ASSUME SchemaInv, NEW p \in Procs, DROP_TABLE(p)
    PROVE  SchemaInv'
<1> DEFINE c == calls[p]
<1>1. /\ DbCallsInv /\ TablesInv /\ c.step = "unstamping" /\ CallOK(c)
      /\ \/ c.op = "drop" /\ c.told = 1
         \/ c.op \in {"unstamp", "stamp"} /\ c.told = 0
  BY DEF SchemaInv, DbCallsInv, TablesInv, CallOK, DROP_TABLE
<1>2. PICK t \in Outcomes :
        /\ Transact(p, t, [db EXCEPT !.version = 0, !.outdated = FALSE],
                 IF c.op = "stamp" THEN GoesOn(c, t, "stamping") ELSE EndsOrRaises(c, t))
  BY DEF DROP_TABLE
<1>3. /\ t.error \in Errors \union {"none"} /\ t.commits \in BOOLEAN
      /\ t.error = "none" => t.commits
  BY DEF Outcomes, Errors
<1> DEFINE goes == c.op = "stamp" /\ t.error = "none"
           step == IF goes THEN "stamping" ELSE "idle"
           reply == IF goes THEN "none" ELSE IF t.error = "none" THEN "ok" ELSE t.error
           told == IF t.error = "none" THEN c.told + 1 ELSE c.told
<1>4. /\ db' = IF t.commits THEN [db EXCEPT !.version = 0, !.outdated = FALSE] ELSE db
      /\ calls' = [calls EXCEPT ![p] = Call(c.op, step, c.try, c.reset, told, reply)]
  <2> DEFINE call == IF c.op = "stamp" THEN GoesOn(c, t, "stamping") ELSE EndsOrRaises(c, t)
  <2>1. call = Call(c.op, step, c.try, c.reset, c.told, reply)
    BY <1>1, CallAt
  <2>2. Transact(p, t, [db EXCEPT !.version = 0, !.outdated = FALSE], call)
    BY <1>2
  <2> HIDE DEF call, step, reply
  <2> QED
    BY <2>1, <2>2, TransactIs
<1>5. /\ CallOK(Call(c.op, step, c.try, c.reset, told, reply))
      /\ Truthful(Call(c.op, step, c.try, c.reset, told, reply))
  BY <1>1, <1>3 DEF CallOK, Truthful, Call, Changing, Errors, NotReady, Retried
<1> HIDE DEF step, reply, told
<1>6. /\ DbCallsInv' /\ calls'[p].step = step /\ calls'[p].op = c.op
      /\ \A q \in Procs : q # p => calls'[q] = calls[q]
  <2> HIDE DEF c
  <2> QED
    BY ZenonT(40), <1>1, <1>4, <1>5, CallStep
<1>7. TablesInv'
  <2>1. /\ db' \in [tables : Nat, version : Nat, outdated : BOOLEAN]
        /\ db'.tables = db.tables
        /\ db' = db \/ db'.version = 0
    BY <1>1, <1>4 DEF TablesInv
  <2>2. ~db'.outdated /\ db'.version # 0 => db'.tables = db'.version
    BY <1>1, <2>1 DEF TablesInv
  <2>3. \A q \in Procs : q # p => calls'[q].step \notin Changing
    BY <1>1, <1>6 DEF TablesInv, Changing
  <2>4. c.op = "stamp" => db'.tables = Rev[p]
    BY <1>1, <2>1 DEF TablesInv
  <2> QED
    BY <1>6, <2>1, <2>2, <2>3, <2>4 DEF TablesInv, Changing
<1> QED
  BY <1>6, <1>7 DEF SchemaInv

LEMMA set_versionInv ==
    ASSUME SchemaInv, NEW p \in Procs, set_version(p)
    PROVE  SchemaInv'
<1> DEFINE c == calls[p]
<1>1. /\ DbCallsInv /\ TablesInv /\ c.step = "stamping" /\ CallOK(c)
      /\ c.op = "stamp" /\ c.told \in {0, 1} /\ db.tables = Rev[p]
  BY DEF SchemaInv, DbCallsInv, TablesInv, CallOK, set_version
<1>2. PICK t \in Outcomes :
        /\ Transact(p, t, [db EXCEPT !.version = Rev[p], !.outdated = FALSE], EndsOrRaises(c, t))
  BY DEF set_version
<1>3. t.error \in Errors \union {"none"} /\ t.commits \in BOOLEAN
  BY DEF Outcomes, Errors
<1> DEFINE reply == IF t.error = "none" THEN "ok" ELSE t.error
           told == IF t.error = "none" THEN c.told + 1 ELSE c.told
<1>4. /\ db' = IF t.commits THEN [db EXCEPT !.version = Rev[p], !.outdated = FALSE] ELSE db
      /\ calls' = [calls EXCEPT ![p] = Call("stamp", "idle", c.try, c.reset, told, reply)]
  <2>1. EndsOrRaises(c, t) = Call("stamp", "idle", c.try, c.reset, c.told, reply)
    BY <1>1, CallAt
  <2> HIDE DEF reply
  <2> QED
    BY <1>2, <2>1, TransactIs
<1>5. /\ CallOK(Call("stamp", "idle", c.try, c.reset, told, reply))
      /\ Truthful(Call("stamp", "idle", c.try, c.reset, told, reply))
  BY <1>1, <1>3 DEF CallOK, Truthful, Call, Changing, Errors, NotReady, Retried
<1> HIDE DEF reply, told
<1>6. /\ DbCallsInv' /\ calls'[p].step = "idle" /\ calls'[p].op = "stamp"
      /\ \A q \in Procs : q # p => calls'[q] = calls[q]
  <2> HIDE DEF c
  <2> QED
    BY ZenonT(40), <1>1, <1>4, <1>5, CallStep
<1>7. TablesInv'
  BY <1>1, <1>2, <1>3, <1>4, <1>6, SchemaAssumption DEF TablesInv, Changing
<1> QED
  BY <1>6, <1>7 DEF SchemaInv

LEMMA do_migrationsInv ==
    ASSUME SchemaInv, NEW p \in Procs, do_migrations(p)
    PROVE  SchemaInv'
<1> DEFINE c == calls[p]
           new_db == IF db.version = Rev[p] THEN db
                     ELSE [tables |-> Rev[p], version |-> Rev[p], outdated |-> FALSE]
<1>1. /\ DbCallsInv /\ TablesInv /\ c.step = "migrating" /\ CallOK(c)
      /\ c.op = "migrate" /\ c.told = 0
  BY DEF SchemaInv, DbCallsInv, CallOK, do_migrations
<1>2. PICK t \in Outcomes : Transact(p, t, new_db, EndsOrRaises(c, t))
  BY DEF do_migrations
<1>3. t.error \in Errors \union {"none"}
  BY DEF Outcomes, Errors, do_migrations
<1> DEFINE reply == IF t.error = "none" THEN "ok" ELSE t.error
           told == IF t.error = "none" THEN 0 + 1 ELSE 0
<1>4. /\ db' = IF t.commits THEN new_db ELSE db
      /\ calls' = [calls EXCEPT ![p] = Call("migrate", "idle", c.try, c.reset, told, reply)]
  <2>1. EndsOrRaises(c, t) = Call("migrate", "idle", c.try, c.reset, 0, reply)
    BY <1>1, EndsAt
  <2> HIDE DEF reply, new_db
  <2> QED
    BY <1>2, <2>1, TransactIs
<1>5. /\ CallOK(Call("migrate", "idle", c.try, c.reset, told, reply))
      /\ Truthful(Call("migrate", "idle", c.try, c.reset, told, reply))
  BY <1>1, <1>3 DEF CallOK, Truthful, Call, Changing, Errors, NotReady, Retried
<1> HIDE DEF reply, told
<1>6. /\ DbCallsInv' /\ calls'[p].step = "idle" /\ calls'[p].op = "migrate"
      /\ \A q \in Procs : q # p => calls'[q] = calls[q]
  <2>1. PICK new : new = Call("migrate", "idle", c.try, c.reset, told, reply)
    OBVIOUS
  <2>2. new.op = "migrate" /\ new.step = "idle"
    BY <2>1 DEF Call
  <2>3. CallOK(new) /\ Truthful(new) /\ calls' = [calls EXCEPT ![p] = new]
    BY <1>4, <1>5, <2>1
  <2> QED
    BY <1>1, <2>2, <2>3, CallIs
<1>7. TablesInv'
  BY <1>1, <1>3, <1>4, <1>6, SchemaAssumption DEF TablesInv, Changing
<1> QED
  BY <1>6, <1>7 DEF SchemaInv

LEMMA check_statementInv ==
    ASSUME SchemaInv, NEW p \in Procs, check_statement(p)
    PROVE  SchemaInv'
<1> DEFINE c == calls[p]
<1>1. /\ DbCallsInv /\ TablesInv /\ c.step = "connecting" /\ CallOK(c)
      /\ c.op = "session" /\ c.told = 0 /\ c.try \in 1..6
  BY DEF SchemaInv, DbCallsInv, CallOK, check_statement
<1>2. PICK t \in Outcomes :
        Transact(p, t, db, IF t.error \in NotReady /\ c.try <= 5 THEN [c EXCEPT !.try = @ + 1]
                           ELSE EndsOrRaises(c, t))
  BY DEF check_statement
<1>3. t.error \in Errors \union {"none"}
  BY DEF Outcomes, Errors, check_statement
<1> DEFINE again == t.error \in NotReady /\ c.try <= 5
           step == IF again THEN "connecting" ELSE "idle"
           try == IF again THEN c.try + 1 ELSE c.try
           reply == IF again THEN "none" ELSE IF t.error = "none" THEN "ok" ELSE t.error
           told == IF t.error = "none" THEN 0 + 1 ELSE 0
<1>4. /\ db' = db
      /\ calls' = [calls EXCEPT ![p] = Call("session", step, try, c.reset, told, reply)]
  <2> DEFINE call == IF again THEN [c EXCEPT !.try = @ + 1] ELSE EndsOrRaises(c, t)
  <2>1. call = Call("session", step, try, c.reset, 0, reply)
    <3>1. EndsOrRaises(c, t) = Call("session", "idle", c.try, c.reset, 0,
                                    IF t.error = "none" THEN "ok" ELSE t.error)
      BY <1>1, EndsAt
    <3>2. [c EXCEPT !.try = @ + 1] = Call("session", "connecting", c.try + 1, c.reset, 0, "none")
      BY <1>1, CallAt
    <3> HIDE DEF c
    <3> QED
      BY <3>1, <3>2
  <2>2. Transact(p, t, db, call)
    BY <1>2
  <2> HIDE DEF call, step, try, reply
  <2> QED
    BY <2>1, <2>2, TransactIs
<1>5. /\ CallOK(Call("session", step, try, c.reset, told, reply))
      /\ Truthful(Call("session", step, try, c.reset, told, reply))
  BY <1>1, <1>3 DEF CallOK, Truthful, Call, Changing, Errors, NotReady, Retried
<1>6. step \notin Changing
  BY DEF Changing
<1> HIDE DEF step, try, reply, told
<1>7. /\ DbCallsInv' /\ calls'[p].step = step /\ calls'[p].op = "session"
      /\ \A q \in Procs : q # p => calls'[q] = calls[q]
  <2>1. PICK new : new = Call("session", step, try, c.reset, told, reply)
    OBVIOUS
  <2>2. new.op = "session" /\ new.step = step
    BY <2>1 DEF Call
  <2>3. CallOK(new) /\ Truthful(new) /\ calls' = [calls EXCEPT ![p] = new]
    BY <1>4, <1>5, <2>1
  <2> QED
    BY <1>1, <2>2, <2>3, CallIs
<1> QED
  BY <1>3, <1>4, <1>6, <1>7, QuietStep DEF SchemaInv

LEMMA wrapperInv ==
    ASSUME SchemaInv, NEW p \in Procs, wrapper(p)
    PROVE  SchemaInv'
<1> DEFINE c == calls[p]
<1>1. /\ DbCallsInv /\ TablesInv /\ c.step = "retrying" /\ CallOK(c)
      /\ c.op = "retry" /\ c.told = 0 /\ c.try \in 1..MaxTries
  BY DEF SchemaInv, DbCallsInv, CallOK, wrapper
<1>2. PICK t \in Outcomes :
        Transact(p, t, db, IF t.error \in Retried /\ c.try < MaxTries THEN [c EXCEPT !.try = @ + 1]
                           ELSE EndsOrRaises(c, t))
  BY DEF wrapper
<1>3. t.error \in Errors \union {"none"}
  BY DEF Outcomes, Errors, wrapper
<1> DEFINE again == t.error \in Retried /\ c.try < MaxTries
           step == IF again THEN "retrying" ELSE "idle"
           try == IF again THEN c.try + 1 ELSE c.try
           reply == IF again THEN "none" ELSE IF t.error = "none" THEN "ok" ELSE t.error
           told == IF t.error = "none" THEN 0 + 1 ELSE 0
<1>4. /\ db' = db
      /\ calls' = [calls EXCEPT ![p] = Call("retry", step, try, c.reset, told, reply)]
  <2> DEFINE call == IF again THEN [c EXCEPT !.try = @ + 1] ELSE EndsOrRaises(c, t)
  <2>1. call = Call("retry", step, try, c.reset, 0, reply)
    BY <1>1, CallAt
  <2>2. Transact(p, t, db, call)
    BY <1>2
  <2> HIDE DEF call, step, try, reply
  <2> QED
    BY <2>1, <2>2, TransactIs
<1>5. /\ CallOK(Call("retry", step, try, c.reset, told, reply))
      /\ Truthful(Call("retry", step, try, c.reset, told, reply))
  BY <1>1, <1>3, SchemaAssumption DEF CallOK, Truthful, Call, Changing, Errors, NotReady, Retried
<1>6. step \notin Changing
  BY DEF Changing
<1> HIDE DEF step, try, reply, told
<1>7. /\ DbCallsInv' /\ calls'[p].step = step /\ calls'[p].op = "retry"
      /\ \A q \in Procs : q # p => calls'[q] = calls[q]
  <2>1. PICK new : new = Call("retry", step, try, c.reset, told, reply)
    OBVIOUS
  <2>2. new.op = "retry" /\ new.step = step
    BY <2>1 DEF Call
  <2>3. CallOK(new) /\ Truthful(new) /\ calls' = [calls EXCEPT ![p] = new]
    BY <1>4, <1>5, <2>1
  <2> QED
    BY <1>1, <2>2, <2>3, CallIs
<1> QED
  BY <1>3, <1>4, <1>6, <1>7, QuietStep DEF SchemaInv

\* Calls that begin, and those that are over at once.
LEMMA BeginInv ==
    ASSUME SchemaInv, NEW p \in Procs, NEW c, calls' = [calls EXCEPT ![p] = c],
           UNCHANGED db, CallOK(c), Truthful(c),
           \/ c.step \notin Changing
           \/ /\ Alone(p) /\ c.step \in {"unstamping", "stamping", "migrating"}
              /\ c.op # "drop"
              /\ c.op = "stamp" => db.tables = Rev[p]
    PROVE  SchemaInv'
<1>1. /\ DbCallsInv /\ DbCallsInv' /\ TablesInv /\ calls'[p] = c
      /\ \A q \in Procs : q # p => calls'[q] = calls[q]
  BY CallIs DEF SchemaInv
<1>2. CASE c.step \notin Changing
  BY <1>1, <1>2, QuietStep DEF SchemaInv
<1>3. CASE /\ Alone(p) /\ c.step \in {"unstamping", "stamping", "migrating"}
           /\ c.op # "drop"
           /\ c.op = "stamp" => db.tables = Rev[p]
  <2>1. \A q \in Procs : q # p => calls'[q].step \notin Changing
    BY <1>1, <1>3 DEF Alone, Changing
  <2> HIDE DEF Changing
  <2>2. TablesInv'
    BY <1>1, <1>3, <2>1 DEF TablesInv, Changing
  <2> QED
    BY <1>1, <2>2 DEF SchemaInv
<1> QED
  BY <1>2, <1>3

LEMMA OverOK ==
    ASSUME NEW op, NEW reply, reply \notin Errors \union {"ok", "DatabaseInitializationError"}
    PROVE  LET c == Ends(NewCall(op, "idle"), reply)
           IN /\ CallOK(c) /\ Truthful(c)
              /\ c.step = "idle" /\ c.op = op /\ c.answer = reply
<1> DEFINE c == Call(op, "idle", 1, FALSE, 0, reply)
<1>1. Ends(NewCall(op, "idle"), reply) = c
  <2>1. PICK n : n = NewCall(op, "idle")
    OBVIOUS
  <2>2. /\ n = Call(n.op, n.step, n.try, n.reset, n.told, n.answer)
        /\ n.op = op /\ n.try = 1 /\ n.reset = FALSE /\ n.told = 0
    BY <2>1 DEF NewCall, Call
  <2>3. Ends(n, reply) = Call(n.op, "idle", n.try, n.reset, n.told, reply)
    BY <2>2, CallsAfter
  <2> QED
    BY <2>1, <2>2, <2>3
<1>2. /\ CallOK(c) /\ Truthful(c)
      /\ c.step = "idle" /\ c.op = op /\ c.answer = reply
  BY DEF Call, CallOK, Truthful, Changing, Errors, NotReady, Retried
<1> QED
  BY <1>1, <1>2

LEMMA SchemaStepInv == SchemaInv /\ [SchemaNext]_schema_vars => SchemaInv'
<1> SUFFICES ASSUME SchemaInv, [SchemaNext]_schema_vars
             PROVE  SchemaInv'
  OBVIOUS
<1>1. ASSUME NEW p \in Procs, NEW c \in {[NewCall("initialize", "initializing") EXCEPT !.reset = TRUE],
                                         [NewCall("initialize", "initializing") EXCEPT !.reset = FALSE],
                                         NewCall("drop", "dropping")},
             calls' = [calls EXCEPT ![p] = c], Alone(p), db' = db
      PROVE  SchemaInv'
  <2>1. CallOK(c) /\ Truthful(c) /\ c.step \in {"initializing", "dropping"}
    BY DEF CallOK, Truthful, NewCall, Changing, Errors, NotReady, Retried
  <2>2. /\ DbCallsInv /\ DbCallsInv' /\ TablesInv /\ calls'[p] = c
        /\ \A q \in Procs : q # p => calls'[q] = calls[q]
    BY <1>1, <2>1, CallIs DEF SchemaInv
  <2>3. \A q \in Procs : q # p => calls'[q].step \notin Changing
    BY <1>1, <2>2 DEF Alone, Changing
  <2>4. TablesInv'
    BY <1>1, <2>1, <2>2, <2>3 DEF TablesInv, Changing
  <2> QED
    BY <2>2, <2>4 DEF SchemaInv
<1>2. ASSUME NEW p \in Procs, NEW op, NEW step,
             <<op, step>> \in {<<"unstamp", "unstamping">>, <<"stamp", "unstamping">>,
                               <<"stamp", "stamping">>, <<"migrate", "migrating">>},
             op = "stamp" => MayStamp(p),
             Alone(p), Begin(p, NewCall(op, step)), UNCHANGED db
      PROVE  SchemaInv'
  <2>1. CallOK(NewCall(op, step)) /\ Truthful(NewCall(op, step))
    BY <1>2 DEF CallOK, Truthful, NewCall, Changing, Errors, NotReady, Retried
  <2>2. NewCall(op, step).op = op /\ NewCall(op, step).step = step
    BY DEF NewCall
  <2> QED
    BY <1>2, <2>1, <2>2, BeginInv DEF Begin, MayStamp
<1>3. ASSUME NEW p \in Procs, NEW c, calls' = [calls EXCEPT ![p] = c],
             c \in {NewCall("session", "connecting"), NewCall("retry", "retrying"),
                    NewCall("none", "idle")},
             UNCHANGED db
      PROVE  SchemaInv'
  <2>1. CallOK(c) /\ Truthful(c) /\ c.step \notin Changing
    BY <1>3, SchemaAssumption DEF CallOK, Truthful, NewCall, Changing, Errors, NotReady, Retried
  <2> QED
    BY <1>3, <2>1, BeginInv
<1>4. ASSUME NEW p \in Procs, NEW op, NEW reply,
             reply \notin Errors \union {"ok", "DatabaseInitializationError"},
             calls' = [calls EXCEPT ![p] = Ends(NewCall(op, "idle"), reply)],
             UNCHANGED db
      PROVE  SchemaInv'
  <2>1. PICK c : c = Ends(NewCall(op, "idle"), reply)
    OBVIOUS
  <2>2. /\ CallOK(c) /\ Truthful(c) /\ c.step = "idle"
        /\ calls' = [calls EXCEPT ![p] = c]
    BY <1>4, <2>1, OverOK
  <2>3. c.step \notin Changing
    BY <2>2 DEF Changing
  <2> QED
    BY <1>4, <2>2, <2>3, BeginInv
<1>5. ASSUME NEW p \in Procs, NEW reset \in BOOLEAN, initialize_database(p, reset)
      PROVE  SchemaInv'
  BY <1>1, <1>5 DEF initialize_database, Begin
<1>6. ASSUME NEW p \in Procs, drop_database(p)
      PROVE  SchemaInv'
  BY <1>1, <1>6 DEF drop_database, Begin
<1>7. ASSUME NEW p \in Procs, unstamp_database(p)
      PROVE  SchemaInv'
  BY <1>2, <1>7 DEF unstamp_database
<1>8. ASSUME NEW p \in Procs, stamp_database_async(p)
      PROVE  SchemaInv'
  BY <1>2, <1>4, <1>8 DEF stamp_database_async, Begin, Errors
<1>9. ASSUME NEW p \in Procs, stamp_database(p)
      PROVE  SchemaInv'
  BY <1>2, <1>9 DEF stamp_database
<1>10. ASSUME NEW p \in Procs, run_migrations_online(p)
       PROVE  SchemaInv'
  BY <1>2, <1>10 DEF run_migrations_online
<1>11. ASSUME NEW p \in Procs, is_database_current(p)
       PROVE  SchemaInv'
  BY <1>4, <1>11 DEF is_database_current, Check, Errors
<1>12. ASSUME NEW p \in Procs, create_async_session(p)
       PROVE  SchemaInv'
  BY <1>3, <1>4, <1>12 DEF create_async_session, Begin, Errors
<1>13. ASSUME NEW p \in Procs, retry_async_transaction(p)
       PROVE  SchemaInv'
  BY <1>3, <1>13 DEF retry_async_transaction, Begin
<1>14. ASSUME NEW p \in Procs, crash(p)
       PROVE  SchemaInv'
  BY <1>3, <1>14 DEF crash
<1>15. CASE UNCHANGED schema_vars
  BY <1>15 DEF schema_vars, SchemaInv, DbCallsInv, TablesInv
<1> QED
  BY <1>5, <1>6, <1>7, <1>8, <1>9, <1>10, <1>11, <1>12, <1>13, <1>14, <1>15,
     initializeInv, drop_allInv, DROP_TABLEInv, set_versionInv, do_migrationsInv,
     check_statementInv, wrapperInv DEF SchemaNext

LEMMA SchemaInvInvariant == SchemaSpec => []SchemaInv
  BY SchemaInitInv, SchemaStepInv, PTL DEF SchemaSpec

\* Revisions are numbers, and a call tries no more often than it may.
THEOREM SchemaTypes == SchemaSpec => []SchemaTypeOK
<1>1. SchemaInv => SchemaTypeOK
  BY DEF SchemaInv, DbCallsInv, CallOK, Changing, TablesInv, SchemaTypeOK
<1> QED
  BY <1>1, SchemaInvInvariant, PTL

\* What database calls answer is what the transactions of _initialize.py,
\* _alembic.py, _retry.py and _connection.py were told by the database, with as
\* many attempts as they may take, whatever the number of processes.
THEOREM AnswersAreTrue == SchemaSpec => []AnswersTellCommits
<1>1. SchemaInv => AnswersTellCommits
  BY DEF SchemaInv, DbCallsInv, Truthful, AnswersTellCommits
<1> QED
  BY <1>1, SchemaInvInvariant, PTL

\* A transaction does not tell anybody that the database is current.
LEMMA TransactsTell ==
    ASSUME SchemaInv, NEW p \in Procs, NEW t \in Outcomes, NEW new, NEW call,
           calls[p].step # "idle", Transact(p, t, new, call),
           \/ call = [calls[p] EXCEPT !.try = @ + 1]
           \/ call = Ends(calls[p], "DatabaseInitializationError")
           \/ call = EndsOrRaises(calls[p], t)
           \/ \E step : call = GoesOn(calls[p], t, step)
    PROVE  \A q \in Procs : calls'[q] = calls[q] \/ calls'[q].answer # "true"
<1>1. DbCallsInv /\ t.error # "true"
  BY DEF SchemaInv, Outcomes, Errors
<1>2. PICK op, step, try, reset, told, reply :
        call = Call(op, step, try, reset, told, reply) /\ reply # "true"
  <2> DEFINE c == calls[p]
             After(a) == Call(c.op, "idle", c.try, c.reset, c.told, a)
  <2>1. /\ [c EXCEPT !.try = @ + 1] = Call(c.op, c.step, c.try + 1, c.reset, c.told, "none")
        /\ \A a : Ends(c, a) = After(a)
        /\ EndsOrRaises(c, t) = After(IF t.error = "none" THEN "ok" ELSE t.error)
        /\ \A s : GoesOn(c, t, s) = IF t.error = "none"
                                   THEN Call(c.op, s, c.try, c.reset, c.told, "none")
                                   ELSE After(t.error)
    BY <1>1, CallAt
  <2>2. PICK again : again = [c EXCEPT !.try = @ + 1]
    OBVIOUS
  <2>3. \/ call = again \/ call = Ends(c, "DatabaseInitializationError")
        \/ call = EndsOrRaises(c, t) \/ \E s : call = GoesOn(c, t, s)
    BY <2>2
  <2>4. again = Call(c.op, c.step, c.try + 1, c.reset, c.told, "none")
    BY <2>1, <2>2
  <2> HIDE DEF c
  <2>5. CASE call = again
    BY <2>4, <2>5
  <2>6. CASE call = Ends(c, "DatabaseInitializationError")
    BY <2>1, <2>6
  <2>7. CASE call = EndsOrRaises(c, t)
    BY <1>1, <2>1, <2>7
  <2>8. CASE \E s : call = GoesOn(c, t, s)
    BY <1>1, <2>1, <2>8
  <2> QED
    BY <2>3, <2>5, <2>6, <2>7, <2>8
<1> DEFINE sum == IF t.error = "none" THEN told + 1 ELSE told
<1>3. calls' = [calls EXCEPT ![p] = Call(op, step, try, reset, sum, reply)]
  BY <1>2, TransactIs
<1>4. Call(op, step, try, reset, sum, reply).answer = reply
  BY DEF Call
<1> HIDE DEF sum
<1> QED
  BY <1>1, <1>2, <1>3, <1>4 DEF DbCallsInv

\* Only is_database_current asks for the stamp.
LEMMA OnlyChecksTell ==
    ASSUME SchemaInv, SchemaNext, NEW p \in Procs, calls'[p] # calls[p],
           calls'[p].answer = "true"
    PROVE  is_database_current(p)
<1>1. DbCallsInv
  BY DEF SchemaInv
<1>2. ASSUME NEW q \in Procs, NEW c, calls' = [calls EXCEPT ![q] = c],
             c.answer # "true"
      PROVE  FALSE
  BY <1>1, <1>2 DEF DbCallsInv
<1>3. ASSUME NEW q \in Procs,
             \/ \E reset \in BOOLEAN : initialize_database(q, reset)
             \/ drop_database(q) \/ unstamp_database(q) \/ stamp_database(q)
             \/ run_migrations_online(q) \/ retry_async_transaction(q) \/ crash(q)
      PROVE  FALSE
  <2>1. PICK c : /\ calls' = [calls EXCEPT ![q] = c]
                 /\ \/ \E op, step : c = NewCall(op, step)
                    \/ \E op, step, reset : c = [NewCall(op, step) EXCEPT !.reset = reset]
    BY <1>3 DEF initialize_database, drop_database, unstamp_database, stamp_database,
                run_migrations_online, retry_async_transaction, crash, Begin
  <2>2. \A op, step : NewCall(op, step).answer = "none"
    BY DEF NewCall
  <2>3. \A op, step, reset : [NewCall(op, step) EXCEPT !.reset = reset].answer = "none"
    BY DEF NewCall
  <2>4. c.answer # "true"
    BY <2>1, <2>2, <2>3
  <2> QED
    BY <1>2, <2>1, <2>4
<1>4. ASSUME NEW q \in Procs, stamp_database_async(q) \/ create_async_session(q)
      PROVE  FALSE
  <2>1. PICK c : /\ calls' = [calls EXCEPT ![q] = c]
                 /\ \/ c = Ends(NewCall("stamp", "idle"), "AlembicConfigError")
                    \/ c = Ends(NewCall("session", "idle"), "unchecked")
                    \/ c = NewCall("stamp", "unstamping")
                    \/ c = NewCall("session", "connecting")
    BY <1>4 DEF stamp_database_async, create_async_session, Begin
  <2>2. c.answer # "true"
    BY <2>1, OverOK DEF NewCall, Errors
  <2> QED
    BY <1>2, <2>1, <2>2
<1>5. ASSUME NEW q \in Procs,
             \/ _initialize_with_engine(q) \/ drop_all(q) \/ DROP_TABLE(q)
             \/ set_version(q) \/ do_migrations(q) \/ check_statement(q) \/ wrapper(q)
      PROVE  FALSE
  <2>1. PICK t, new, call :
          /\ t \in Outcomes /\ Transact(q, t, new, call)
          /\ \/ call = [calls[q] EXCEPT !.try = @ + 1]
             \/ call = Ends(calls[q], "DatabaseInitializationError")
             \/ call = EndsOrRaises(calls[q], t)
             \/ \E step : call = GoesOn(calls[q], t, step)
    <3>1. CASE _initialize_with_engine(q)
      BY <3>1 DEF _initialize_with_engine
    <3>2. CASE drop_all(q)
      BY <3>2 DEF drop_all
    <3>3. CASE DROP_TABLE(q)
      BY <3>3 DEF DROP_TABLE
    <3>4. CASE set_version(q)
      BY <3>4 DEF set_version
    <3>5. CASE do_migrations(q)
      BY <3>5 DEF do_migrations
    <3>6. CASE check_statement(q)
      BY <3>6 DEF check_statement
    <3>7. CASE wrapper(q)
      BY <3>7 DEF wrapper
    <3> QED
      BY <1>5, <3>1, <3>2, <3>3, <3>4, <3>5, <3>6, <3>7
  <2>2. calls[q].step # "idle"
    BY <1>5 DEF _initialize_with_engine, drop_all, DROP_TABLE, set_version, do_migrations,
                check_statement, wrapper
  <2> QED
    BY <2>1, <2>2, TransactsTell
<1>6. ASSUME NEW q \in Procs, is_database_current(q)
      PROVE  q = p
  BY <1>1, <1>6 DEF is_database_current, DbCallsInv
<1> QED
  BY <1>3, <1>4, <1>5, <1>6 DEF SchemaNext

\* A process that is_database_current tells that the database is current finds
\* the tables of its own revision there, whatever failed or crashed before, if it
\* has migrations and drop_database or a reset did not change the tables under the
\* stamp.  Without migrations it is told so exactly when there is no stamp.
THEOREM CurrentIsInstalled == SchemaSpec => CurrentMeansTables
<1>1. ASSUME SchemaInv, SchemaNext, NEW p \in Procs, calls'[p] # calls[p],
             calls'[p].answer = "true"
      PROVE  /\ calls'[p].op = "current" => db.tables = Rev[p] \/ db.outdated
             /\ calls'[p].op # "current" => calls'[p].op = "no_heads" /\ db.version = 0
  <2>1. is_database_current(p)
    BY <1>1, OnlyChecksTell
  <2>2. PICK heads, reply :
          /\ heads \in HeadsOf(p)
          /\ reply \in {IF (IF db.version = 0 THEN {} ELSE {db.version}) = heads
                          THEN "true" ELSE "false", "raised"}
          /\ calls' = [calls EXCEPT ![p] = Ends(Check(heads), reply)]
    BY <2>1 DEF is_database_current
  <2>3. calls'[p] = Ends(Check(heads), reply)
    BY <1>1, <2>2 DEF SchemaInv, DbCallsInv
  <2>4. /\ calls'[p].answer = reply
        /\ calls'[p].op = IF heads = {} THEN "no_heads" ELSE "current"
    BY <2>2, <2>3, OverOK DEF Check, Errors
  <2>5. IF db.version = 0 THEN heads = {} ELSE heads = {db.version}
    BY <1>1, <2>2, <2>4
  <2>6. heads # {} => db.version = Rev[p] /\ db.version # 0
    BY <2>2, <2>5, SchemaAssumption DEF HeadsOf
  <2>7. ~db.outdated /\ db.version # 0 => db.tables = db.version
    BY <1>1 DEF SchemaInv, TablesInv
  <2> QED
    BY <2>4, <2>5, <2>6, <2>7
<1>2. SchemaInv /\ [SchemaNext]_schema_vars =>
        [\A p \in Procs :
           calls'[p] # calls[p] /\ calls'[p].answer = "true" =>
             /\ calls'[p].op = "current" => db.tables = Rev[p] \/ db.outdated
             /\ calls'[p].op # "current" =>
                  calls'[p].op = "no_heads" /\ db.version = 0]_schema_vars
  BY <1>1 DEF schema_vars
<1> QED
  BY <1>2, SchemaInvInvariant, PTL DEF SchemaSpec, CurrentMeansTables

-----------------------------------------------------------------------------
(***************************************************************************)
(* What a test may conclude from an assertion on the metrics mocks, for    *)
(* any payloads, patterns and makers of events, and lists of any length.   *)
(*                                                                         *)
(* The check that ignores the order takes one event for each pattern, the  *)
(* first that is left and matches.  It is a recursive function over the    *)
(* patterns: that it exists, that what it takes never comes back and that  *)
(* no event is taken twice follow by looking at a least item that would be *)
(* an exception.  So there are as many different matching events as there  *)
(* are patterns.  For the converse, if narrow patterns come first, the      *)
(* events that are gone when an item finds none were taken for patterns    *)
(* within its own, and there are too few of those for them.                *)
(***************************************************************************)

\* Taking events away begins with all of them.
AllLeft(published) == [left |-> DOMAIN published, found |-> TRUE]

\* What is left and found before the first item and after each of them.
Removal(published, expected, after, k) ==
    after = [n \in 0..k |-> IF n = 0 THEN AllLeft(published)
                            ELSE remove(published, expected[n], after[n - 1])]

\* The recursive function of _check_unordered exists: it is extended by one
\* item at a time.
LEMMA RemovalExists ==
    ASSUME NEW published, NEW expected, NEW k \in Nat
    PROVE  \E after : Removal(published, expected, after, k)
<1> DEFINE Bad == {n \in 0..k : ~\E after : Removal(published, expected, after, n)}
<1>1. SUFFICES ASSUME Bad # {}
               PROVE  FALSE
  <2>1. k \in 0..k
    OBVIOUS
  <2> QED
    BY <2>1
<1>2. Bad \in SUBSET Nat /\ IsFiniteSet(Bad)
  <2>1. IsFiniteSet(0..k) /\ Bad \in SUBSET (0..k)
    BY FS_Interval
  <2> QED
    BY <2>1, FS_Subset
<1>3. PICK m \in Bad : \A n \in Bad : m <= n
  <2> HIDE DEF Bad
  <2> QED
    BY <1>1, <1>2, Least
<1>4. m \in 0..k /\ ~\E after : Removal(published, expected, after, m)
  OBVIOUS
<1>5. CASE m = 0
  <2> DEFINE after == [n \in 0..0 |-> AllLeft(published)]
  <2>1. Removal(published, expected, after, 0)
    BY DEF Removal
  <2> QED
    BY <1>4, <1>5, <2>1
<1>6. CASE m # 0
  <2>1. m - 1 \in 0..k /\ m - 1 \notin Bad
    BY <1>3, <1>4, <1>6
  <2>2. PICK before : Removal(published, expected, before, m - 1)
    BY <2>1
  <2> DEFINE Next(f, n) == IF n = 0 THEN AllLeft(published)
                           ELSE remove(published, expected[n], f[n - 1])
             after == [n \in 0..m |-> Next(before, n)]
  <2>3. before = [n \in 0..(m - 1) |-> Next(before, n)]
    BY <2>2 DEF Removal
  <2>4. \A n \in 0..(m - 1) : before[n] = Next(before, n)
    <3> HIDE DEF Next
    <3> QED
      BY <2>3
  <2>5. \A n \in 0..m : after[n] = Next(before, n)
    <3> HIDE DEF Next
    <3> QED
      OBVIOUS
  <2>6. \A n \in 0..m : n # 0 => n - 1 \in 0..(m - 1) /\ n - 1 \in 0..m
    BY <1>4
  <2>7. \A n \in 0..m : n # 0 => after[n - 1] = before[n - 1]
    <3> HIDE DEF Next, after
    <3> QED
      BY <2>4, <2>5, <2>6
  <2>8. \A n \in 0..m : Next(before, n) = Next(after, n)
    <3> HIDE DEF after
    <3> QED
      BY <2>7
  <2>9. after = [n \in 0..m |-> Next(after, n)]
    <3> HIDE DEF Next
    <3> QED
      BY <2>8
  <2>10. Removal(published, expected, after, m)
    BY <2>9 DEF Removal
  <2> QED
    BY <1>4, <2>10
<1> QED
  BY <1>5, <1>6

LEMMA CheckIsRemoval ==
    ASSUME NEW published, NEW expected, Len(expected) \in Nat
    PROVE  \E after : /\ Removal(published, expected, after, Len(expected))
                      /\ _check_unordered(published, expected)
                           = after[Len(expected)].found
<1> DEFINE after == CHOOSE after : Removal(published, expected, after, Len(expected))
<1>1. Removal(published, expected, after, Len(expected))
  BY RemovalExists
<1>2. _check_unordered(published, expected) = after[Len(expected)].found
  BY DEF _check_unordered, Removal, AllLeft
<1> QED
  BY <1>1, <1>2

\* How an event is taken away: the first of those that fit, if there is one.
Hits(published, pattern, left) == {i \in left : published[i] \in pattern}

TakesOne(published, pattern, s, t) ==
    \/ /\ Hits(published, pattern, s.left) = {}
       /\ t.left = s.left /\ t.found = FALSE
    \/ \E i \in Hits(published, pattern, s.left) :
         /\ \A j \in Hits(published, pattern, s.left) : i <= j
         /\ t.left = s.left \ {i} /\ t.found = s.found

Lists(published, expected) ==
    /\ Len(published) \in Nat /\ DOMAIN published = 1..Len(published)
    /\ Len(expected) \in Nat /\ DOMAIN expected = 1..Len(expected)

LEMMA RemoveTakesOne ==
    ASSUME NEW published, NEW pattern, NEW s,
           Len(published) \in Nat, s.left \subseteq 1..Len(published)
    PROVE  TakesOne(published, pattern, s, remove(published, pattern, s))
<1> DEFINE hits == Hits(published, pattern, s.left)
<1>1. CASE hits = {}
  BY <1>1 DEF remove, TakesOne, Hits
<1>2. CASE hits # {}
  <2>1. hits \in SUBSET Nat /\ IsFiniteSet(hits)
    <3>1. IsFiniteSet(1..Len(published))
      BY FS_Interval
    <3>2. hits \in SUBSET (1..Len(published))
      BY DEF Hits
    <3> QED
      BY <3>1, <3>2, FS_Subset
  <2> DEFINE first == CHOOSE i \in hits : \A j \in hits : i <= j
  <2>2. first \in hits /\ \A j \in hits : first <= j
    <3>1. \E i \in hits : \A j \in hits : i <= j
      <4> HIDE DEF hits
      <4> QED
        BY <1>2, <2>1, Least
    <3> QED
      BY <3>1
  <2>3. remove(published, pattern, s)
          = [left |-> s.left \ {first}, found |-> s.found]
    BY <1>2 DEF remove, Hits
  <2> HIDE DEF first
  <2> QED
    BY <2>2, <2>3 DEF TakesOne
<1> QED
  BY <1>1, <1>2

\* What the steps of a removal are.
Takes(published, expected, after) ==
    /\ \A n \in 0..Len(expected) :
         after[n].left \subseteq 1..Len(published) /\ after[n].found \in BOOLEAN
    /\ after[0].left = 1..Len(published) /\ after[0].found = TRUE
    /\ \A n \in 1..Len(expected) :
         TakesOne(published, expected[n], after[n - 1], after[n])

LEMMA RemovalTakes ==
    ASSUME NEW published, NEW expected, Lists(published, expected), NEW after,
           Removal(published, expected, after, Len(expected))
    PROVE  Takes(published, expected, after)
<1> DEFINE k == Len(expected)
           Good(n) == after[n].left \subseteq 1..Len(published) /\ after[n].found \in BOOLEAN
           Bad == {n \in 0..k : ~Good(n)}
<1>1. \A n \in 0..k : after[n] = IF n = 0 THEN AllLeft(published)
                                 ELSE remove(published, expected[n], after[n - 1])
  BY DEF Removal
<1>2. after[0].left = 1..Len(published) /\ after[0].found = TRUE
  <2>1. after[0] = AllLeft(published)
    BY <1>1 DEF Lists
  <2> QED
    BY <2>1 DEF AllLeft, Lists
<1>3. ASSUME NEW n \in 1..k, after[n - 1].left \subseteq 1..Len(published)
      PROVE  TakesOne(published, expected[n], after[n - 1], after[n])
  <2>1. after[n] = remove(published, expected[n], after[n - 1])
    BY <1>1 DEF Lists
  <2> QED
    BY <1>3, <2>1, RemoveTakesOne DEF Lists
<1>4. Bad = {}
  <2>1. SUFFICES ASSUME Bad # {}
                 PROVE  FALSE
    OBVIOUS
  <2>2. Bad \in SUBSET Nat /\ IsFiniteSet(Bad)
    <3>1. IsFiniteSet(0..k) /\ Bad \in SUBSET (0..k)
      BY IntervalsAreFinite DEF Lists
    <3> QED
      BY <3>1, FS_Subset
  <2>3. PICK m \in Bad : \A n \in Bad : m <= n
    <3> HIDE DEF Bad
    <3> QED
      BY <2>1, <2>2, Least
  <2>4. m \in 1..k /\ m - 1 \in 0..k /\ m - 1 \notin Bad
    <3>1. m # 0
      BY <1>2, <2>3
    <3> QED
      BY <2>3, <3>1 DEF Lists
  <2>5. Good(m - 1)
    BY <2>4
  <2>6. TakesOne(published, expected[m], after[m - 1], after[m])
    BY <1>3, <2>4, <2>5
  <2>7. after[m].left \subseteq after[m - 1].left
    BY <2>6 DEF TakesOne
  <2>8. after[m].found = FALSE \/ after[m].found = after[m - 1].found
    BY <2>6 DEF TakesOne
  <2>9. after[m].found \in BOOLEAN
    BY <2>5, <2>8
  <2> QED
    BY <2>3, <2>5, <2>7, <2>9
<1> QED
  <2>1. \A n \in 0..k : Good(n)
    BY <1>4
  <2>2. \A n \in 1..k : n - 1 \in 0..k
    BY DEF Lists
  <2>3. \A n \in 1..k : TakesOne(published, expected[n], after[n - 1], after[n])
    BY <1>3, <2>1, <2>2
  <2> QED
    BY <1>2, <2>1, <2>3 DEF Takes

\* What holds before the first item, and after an item if it did before it, holds
\* at the end: to each such fact the least item for which it fails.
LEMMA NothingComesBack ==
    ASSUME NEW published, NEW expected, Lists(published, expected), NEW after,
           Takes(published, expected, after),
           NEW m \in 0..Len(expected), NEW n \in 0..Len(expected), m <= n
    PROVE  /\ after[n].left \subseteq after[m].left
           /\ after[n].found = TRUE => after[m].found = TRUE
<1> DEFINE k == Len(expected)
           Good(i) == /\ after[i].left \subseteq after[m].left
                      /\ after[i].found = TRUE => after[m].found = TRUE
           Bad == {i \in m..k : ~Good(i)}
<1>1. SUFFICES ASSUME Bad # {}
               PROVE  FALSE
  <2>1. n \in m..k
    BY DEF Lists
  <2> QED
    BY <2>1
<1>2. Bad \in SUBSET Nat /\ IsFiniteSet(Bad)
  <2>1. IsFiniteSet(m..k) /\ Bad \in SUBSET (m..k)
    BY FS_Interval DEF Lists
  <2> QED
    BY <2>1, FS_Subset DEF Lists
<1>3. PICK i \in Bad : \A j \in Bad : i <= j
  <2> HIDE DEF Bad
  <2> QED
    BY <1>1, <1>2, Least
<1>4. i # m
  BY <1>3
<1>5. i \in 1..k /\ i - 1 \in m..k /\ i - 1 \notin Bad
  BY <1>3, <1>4 DEF Lists
<1>6. Good(i - 1)
  BY <1>5
<1>7. TakesOne(published, expected[i], after[i - 1], after[i])
  BY <1>5 DEF Takes
<1>8. after[i].left \subseteq after[i - 1].left
  BY <1>7 DEF TakesOne
<1>9. after[i].found = TRUE => after[i - 1].found = TRUE
  BY <1>7 DEF TakesOne
<1> QED
  BY <1>3, <1>6, <1>8, <1>9


\* pick[i] is the event that was taken for the item i.
Picked(published, expected, after, n, pick) ==
    /\ pick \in [1..n -> 1..Len(published)]
    /\ \A i, j \in 1..n : pick[i] = pick[j] => i = j
    /\ \A i \in 1..n : published[pick[i]] \in expected[i]
    /\ \A p \in 1..Len(published) :
         p \in after[n].left \/ \E i \in 1..n : pick[i] = p

\* As long as every item was found, the events taken are different, fit their
\* items, and are what is not left.
LEMMA TakenAreDifferent ==
    ASSUME NEW published, NEW expected, Lists(published, expected), NEW after,
           Takes(published, expected, after),
           NEW n \in 0..Len(expected), after[n].found = TRUE
    PROVE  \E pick : Picked(published, expected, after, n, pick)
<1> DEFINE k == Len(expected)
           Taken(i) == CHOOSE p \in 1..Len(published) :
                         /\ p \in after[i - 1].left
                         /\ published[p] \in expected[i]
                         /\ after[i].left = after[i - 1].left \ {p}
           pick == [i \in 1..n |-> Taken(i)]
<1>1. \A i \in 1..n : i \in 1..k /\ i \in 0..k /\ i - 1 \in 0..k /\ i \in Nat /\ i <= n
  BY DEF Lists
<1>2. ASSUME NEW i \in 1..n
      PROVE  /\ Taken(i) \in 1..Len(published)
             /\ Taken(i) \in after[i - 1].left
             /\ published[Taken(i)] \in expected[i]
             /\ after[i].left = after[i - 1].left \ {Taken(i)}
  <2>1. TakesOne(published, expected[i], after[i - 1], after[i])
    BY <1>1 DEF Takes
  <2>2. after[i].found = TRUE
    BY <1>1, NothingComesBack
  <2>3. \E p \in 1..Len(published) :
          /\ p \in after[i - 1].left
          /\ published[p] \in expected[i]
          /\ after[i].left = after[i - 1].left \ {p}
    <3>1. after[i - 1].left \subseteq 1..Len(published)
      BY <1>1 DEF Takes
    <3> QED
      BY <2>1, <2>2, <3>1 DEF TakesOne, Hits
  <2> QED
    BY <2>3
<1> HIDE DEF Taken
<1>3. pick \in [1..n -> 1..Len(published)]
  BY <1>2
<1>4. \A i \in 1..n : published[pick[i]] \in expected[i]
  BY <1>2
<1>5. ASSUME NEW i \in 1..n, NEW j \in 1..n, i < j
      PROVE  Taken(i) # Taken(j)
  <2>1. i <= j - 1
    BY <1>1, <1>5
  <2>2. after[j - 1].left \subseteq after[i].left
    BY <1>1, <2>1, NothingComesBack
  <2>3. Taken(i) \notin after[i].left /\ Taken(j) \in after[j - 1].left
    BY <1>2
  <2> QED
    BY <2>2, <2>3
<1>6. \A i, j \in 1..n : pick[i] = pick[j] => i = j
  <2> SUFFICES ASSUME NEW i \in 1..n, NEW j \in 1..n, i # j
               PROVE  pick[i] # pick[j]
    OBVIOUS
  <2>1. i < j \/ j < i
    OBVIOUS
  <2> QED
    BY <1>5, <2>1
<1>7. \A p \in 1..Len(published) :
        p \in after[n].left \/ \E i \in 1..n : pick[i] = p
  <2> DEFINE Good(m) == after[m].left
                          = 1..Len(published) \ {Taken(i) : i \in 1..m}
             Bad == {m \in 0..n : ~Good(m)}
  <2>1. SUFFICES ASSUME Bad # {}
                 PROVE  FALSE
    <3>1. n \in 0..n /\ n \notin Bad
      BY <2>1
    <3>2. Good(n)
      BY <3>1
    <3>3. \A i \in 1..n : pick[i] = Taken(i)
      OBVIOUS
    <3> QED
      BY <3>2, <3>3
  <2>2. Bad \in SUBSET Nat /\ IsFiniteSet(Bad)
    <3>1. IsFiniteSet(0..n)
      BY FS_Interval
    <3>2. Bad \in SUBSET (0..n)
      OBVIOUS
    <3> QED
      BY <3>1, <3>2, FS_Subset
  <2>3. PICK m \in Bad : \A i \in Bad : m <= i
    <3> HIDE DEF Bad
    <3> QED
      BY <2>1, <2>2, Least
  <2>4. m # 0
    <3>1. Good(0)
      BY DEF Takes
    <3> QED
      BY <2>3, <3>1
  <2>5. m \in 1..n /\ m - 1 \in 0..n /\ m - 1 \notin Bad
    BY <2>3, <2>4
  <2>6. Good(m - 1) /\ after[m].left = after[m - 1].left \ {Taken(m)}
    BY <1>2, <2>5
  <2>7. {Taken(i) : i \in 1..m} = {Taken(i) : i \in 1..(m - 1)} \union {Taken(m)}
    <3>1. 1..m = (1..(m - 1)) \union {m}
      BY <2>5
    <3> QED
      BY <3>1
  <2>8. Good(m)
    BY <2>6, <2>7
  <2> QED
    BY <2>3, <2>8
<1> HIDE DEF pick
<1>8. Picked(published, expected, after, n, pick)
  BY <1>3, <1>4, <1>6, <1>7 DEF Picked
<1> QED
  BY <1>8

\* Whatever the patterns are: where the expected events are side by side, every
\* item takes the event in its place or one before it.
LEMMA ConsecutiveAreFound ==
    ASSUME NEW published, NEW expected, Lists(published, expected), NEW after,
           Takes(published, expected, after),
           NEW i \in 0..(Len(published) - Len(expected)),
           \A n \in 1..Len(expected) : published[i + n] \in expected[n]
    PROVE  after[Len(expected)].found = TRUE
<1> DEFINE k == Len(expected)
           Good(m) == /\ after[m].found = TRUE
                      /\ \A p \in 1..Len(published) : p > i + m => p \in after[m].left
           Bad == {m \in 0..k : ~Good(m)}
<1>1. SUFFICES ASSUME Bad # {}
               PROVE  FALSE
  <2>1. k \in 0..k
    BY DEF Lists
  <2> QED
    BY <2>1
<1>2. Bad \in SUBSET Nat /\ IsFiniteSet(Bad)
  <2>1. IsFiniteSet(0..k)
    <3>1. k \in Int
      BY DEF Lists
    <3>2. 0 \in Int
      OBVIOUS
    <3> HIDE DEF k
    <3> QED
      BY <3>1, <3>2, IntervalsAreFinite, ZenonT(40)
  <2>2. Bad \in SUBSET (0..k)
    OBVIOUS
  <2> QED
    BY <2>1, <2>2, FS_Subset
<1>3. PICK m \in Bad : \A n \in Bad : m <= n
  <2> HIDE DEF Bad
  <2> QED
    BY <1>1, <1>2, Least
<1>4. m # 0
  <2>1. Good(0)
    BY DEF Takes
  <2> QED
    BY <1>3, <2>1
<1>5. m \in 1..k /\ m - 1 \in 0..k /\ m - 1 \notin Bad
  BY <1>3, <1>4 DEF Lists
<1>6. Good(m - 1)
  BY <1>5
<1>7. i + m \in 1..Len(published) /\ i + m > i + (m - 1)
  BY <1>5 DEF Lists
<1>8. i + m \in Hits(published, expected[m], after[m - 1].left)
  BY <1>5, <1>6, <1>7 DEF Hits
<1>9. PICK h \in Hits(published, expected[m], after[m - 1].left) :
        /\ h <= i + m
        /\ after[m].left = after[m - 1].left \ {h}
        /\ after[m].found = after[m - 1].found
  <2>1. TakesOne(published, expected[m], after[m - 1], after[m])
    BY <1>5 DEF Takes
  <2> QED
    BY <1>8, <2>1 DEF TakesOne
<1>10. h \in Nat
  <2>1. after[m - 1].left \subseteq 1..Len(published)
    BY <1>5 DEF Takes
  <2> QED
    BY <2>1 DEF Hits
<1>11. ASSUME NEW p \in 1..Len(published), p > i + m
       PROVE  p \in after[m].left
  <2>1. p > i + (m - 1) /\ p # h
    BY <1>5, <1>9, <1>10, <1>11 DEF Lists
  <2> QED
    BY <1>6, <1>9, <2>1
<1> QED
  BY <1>3, <1>6, <1>9, <1>11


\* If narrow patterns come first: were no event left for an item, the events that
\* fit it would all have gone to items before it whose patterns are within its own,
\* which are fewer than those items together with it, and all can be told apart.
LEMMA NarrowAreFound ==
    ASSUME NEW published, NEW expected, Lists(published, expected), NEW after,
           Takes(published, expected, after),
           NarrowFirst(expected),
           NEW f \in [1..Len(expected) -> 1..Len(published)],
           \A i, j \in 1..Len(expected) : f[i] = f[j] => i = j,
           \A i \in 1..Len(expected) : published[f[i]] \in expected[i]
    PROVE  after[Len(expected)].found = TRUE
<1> DEFINE k == Len(expected)
           Bad == {m \in 0..k : ~(after[m].found = TRUE)}
<1>1. SUFFICES ASSUME Bad # {}
               PROVE  FALSE
  <2>1. k \in 0..k
    BY DEF Lists
  <2> QED
    BY <2>1
<1>2. Bad \in SUBSET Nat /\ IsFiniteSet(Bad)
  <2>1. IsFiniteSet(0..k)
    <3>1. k \in Int
      BY DEF Lists
    <3>2. 0 \in Int
      OBVIOUS
    <3> HIDE DEF k
    <3> QED
      BY <3>1, <3>2, IntervalsAreFinite, ZenonT(40)
  <2>2. Bad \in SUBSET (0..k)
    OBVIOUS
  <2> QED
    BY <2>1, <2>2, FS_Subset
<1>3. PICK m \in Bad : \A n \in Bad : m <= n
  <2> HIDE DEF Bad
  <2> QED
    BY <1>1, <1>2, Least
<1>4. m # 0
  BY <1>3 DEF Takes
<1>5. m \in 1..k /\ m - 1 \in 0..k /\ m - 1 \notin Bad /\ m \in Nat /\ k \in Nat
  BY <1>3, <1>4 DEF Lists
<1>6. after[m - 1].found = TRUE
  BY <1>5
<1>7. Hits(published, expected[m], after[m - 1].left) = {}
  <2>1. TakesOne(published, expected[m], after[m - 1], after[m])
    BY <1>5 DEF Takes
  <2> QED
    BY <1>3, <1>6, <2>1 DEF TakesOne
<1>8. PICK pick : Picked(published, expected, after, m - 1, pick)
  BY <1>5, <1>6, TakenAreDifferent
<1> DEFINE A == {i \in 1..m : expected[i] \subseteq expected[m]}
           B == {i \in 1..(m - 1) : expected[i] \subseteq expected[m]}
<1>9. \A i \in 1..m : i \in 1..k
  BY <1>5
<1>10. ASSUME NEW i \in A
       PROVE  \E b \in B : pick[b] = f[i]
  <2>1. i \in 1..k /\ f[i] \in 1..Len(published) /\ published[f[i]] \in expected[m]
    BY <1>9
  <2>2. f[i] \notin after[m - 1].left
    BY <1>7, <2>1 DEF Hits
  <2>3. PICK b \in 1..(m - 1) : pick[b] = f[i]
    BY <1>8, <2>1, <2>2 DEF Picked
  <2>4. published[f[i]] \in expected[b] /\ b \in 1..k
    BY <1>5, <1>8, <2>3 DEF Picked
  <2>5. expected[b] \subseteq expected[m]
    <3>1. expected[b] \intersect expected[m] # {}
      BY <2>1, <2>4
    <3>2. b \in DOMAIN expected /\ m \in DOMAIN expected
      BY <1>5, <2>4 DEF Lists
    <3>3. b < m
      BY <1>5, <2>3
    <3> QED
      BY <3>1, <3>2, <3>3 DEF NarrowFirst
  <2> QED
    BY <2>3, <2>5
<1> DEFINE g == [i \in A |-> CHOOSE b \in B : pick[b] = f[i]]
<1>11. g \in [A -> B] /\ \A i \in A : pick[g[i]] = f[i]
  BY <1>10
<1>12. IsFiniteSet(A) /\ IsFiniteSet(B) /\ Cardinality(B) < Cardinality(A)
  <2>1. IsFiniteSet(1..m)
    BY <1>5, FS_Interval
  <2>2. A \in SUBSET (1..m)
    OBVIOUS
  <2>3. IsFiniteSet(A)
    BY <2>1, <2>2, FS_Subset
  <2>4. m \in A /\ B = A \ {m}
    BY <1>5
  <2>5. IsFiniteSet(B) /\ Cardinality(B) = Cardinality(A) - 1
    <3> HIDE DEF A, B
    <3> QED
      BY <2>3, <2>4, FS_RemoveElement
  <2>6. Cardinality(A) \in Nat
    <3> HIDE DEF A
    <3> QED
      BY <2>3, FS_CardinalityType
  <2> QED
    BY <2>3, <2>5, <2>6
<1>13. PICK x, y \in A : x # y /\ g[x] = g[y]
  <2> HIDE DEF A, B, g
  <2> QED
    BY <1>11, <1>12, FS_PigeonHole
<1>14. f[x] = f[y]
  <2> HIDE DEF g
  <2> QED
    BY <1>11, <1>13
<1> QED
  BY <1>9, <1>13, <1>14

\* More items than events cannot be told to be different events.
LEMMA NotMoreThanPublished ==
    ASSUME NEW n \in Nat, NEW k \in Nat, NEW f \in [1..k -> 1..n],
           \A i, j \in 1..k : f[i] = f[j] => i = j
    PROVE  k <= n
<1>1. SUFFICES ASSUME n < k
               PROVE  FALSE
  OBVIOUS
<1>2. /\ IsFiniteSet(1..k) /\ Cardinality(1..k) = k
      /\ IsFiniteSet(1..n) /\ Cardinality(1..n) = n
  <2>1. \A i \in Nat : IsFiniteSet(1..i) /\ Cardinality(1..i) = i
    <3> TAKE i \in Nat
    <3>1. IsFiniteSet(1..i) /\ Cardinality(1..i) = IF 1 > i THEN 0 ELSE i - 1 + 1
      BY FS_Interval
    <3> QED
      BY <3>1
  <2> QED
    BY <2>1
<1>3. \E x, y \in 1..k : x # y /\ f[x] = f[y]
  BY <1>1, <1>2, FS_PigeonHole
<1> QED
  BY <1>3

\* What the check without order says, between being side by side and being
\* different events.
LEMMA UncheckedMeans ==
    ASSUME NEW published, NEW expected, Lists(published, expected)
    PROVE  LET k == Len(expected)
               n == Len(published)
               passes == _check_unordered(published, expected) = TRUE
               assigned == \E f \in [1..k -> 1..n] : Assigns(f, published, expected)
           IN /\ _check_unordered(published, expected) \in BOOLEAN
              /\ passes => assigned
              /\ _check_ordered(published, expected) => passes
              /\ NarrowFirst(expected) /\ assigned => passes
<1> DEFINE k == Len(expected)
           n == Len(published)
<1>1. PICK after : /\ Removal(published, expected, after, k)
                   /\ _check_unordered(published, expected) = after[k].found
  BY CheckIsRemoval DEF Lists
<1>2. Takes(published, expected, after)
  BY <1>1, RemovalTakes
<1>3. k \in 0..k
  BY DEF Lists
<1>4. after[k].found \in BOOLEAN
  BY <1>2, <1>3 DEF Takes
<1>5. ASSUME after[k].found = TRUE
      PROVE  \E f \in [1..k -> 1..n] : Assigns(f, published, expected)
  <2>1. PICK f : Picked(published, expected, after, k, f)
    BY <1>2, <1>3, <1>5, TakenAreDifferent
  <2>2. f \in [1..k -> 1..n] /\ Assigns(f, published, expected)
    BY <2>1 DEF Assigns, Picked
  <2> QED
    BY <2>2
<1>6. ASSUME _check_ordered(published, expected)
      PROVE  after[k].found = TRUE
  BY <1>2, <1>6, ConsecutiveAreFound DEF _check_ordered, Lists
<1>7. ASSUME NarrowFirst(expected),
             NEW f \in [1..k -> 1..n], Assigns(f, published, expected)
      PROVE  after[k].found = TRUE
  <2>1. /\ \A i, j \in 1..k : f[i] = f[j] => i = j
        /\ \A i \in 1..k : published[f[i]] \in expected[i]
    BY <1>7 DEF Assigns
  <2> QED
    BY <1>2, <1>7, <2>1, NarrowAreFound
<1> QED
  BY <1>1, <1>4, <1>5, <1>6, <1>7


\* Assertions about any list of payloads and any expectations mean what
\* AssertionsMean says of them.
LEMMA AssertionsMeanOf ==
    ASSUME NEW published \in Seq(Payloads), NEW k \in Nat,
           NEW expected \in [1..k -> Patterns]
    PROVE  LET n == Len(published)
               assigned == \E f \in [1..k -> 1..n] : Assigns(f, published, expected)
               consecutive == \E i \in 0..(n - k) :
                                  Assigns([j \in 1..k |-> i + j], published, expected)
               in_order == assert_published(published, expected, FALSE)
               unordered == assert_published(published, expected, TRUE)
           IN /\ in_order = "passed" <=> consecutive
              /\ unordered = "passed" => assigned
              /\ NarrowFirst(expected) /\ assigned => unordered = "passed"
              /\ in_order = "NotPublishedConsecutivelyError" => assigned /\ ~consecutive
              /\ assert_published_all(published, expected, FALSE) = "passed"
                   <=> consecutive /\ k = n
              /\ assert_published_all(published, expected, TRUE) = "passed"
                   <=> unordered = "passed" /\ k = n
<1> DEFINE n == Len(published)
           assigned == \E f \in [1..k -> 1..n] : Assigns(f, published, expected)
           consecutive == \E i \in 0..(n - k) :
                              Assigns([j \in 1..k |-> i + j], published, expected)
           unchecked == _check_unordered(published, expected)
           checked == _check_ordered(published, expected)
<1>1. Len(expected) = k /\ Lists(published, expected) /\ n \in Nat
  <2>1. expected \in Seq(Patterns) /\ DOMAIN expected = 1..k
    OBVIOUS
  <2>2. Len(expected) = k
    BY <2>1
  <2> QED
    BY <2>1, <2>2 DEF Lists
<1>2. /\ unchecked \in BOOLEAN
      /\ unchecked = TRUE => assigned
      /\ checked => unchecked = TRUE
      /\ NarrowFirst(expected) /\ assigned => unchecked = TRUE
  BY <1>1, UncheckedMeans
<1>3. consecutive => k <= n
  BY <1>1
<1>4. k <= n => (checked <=> consecutive)
  <2> SUFFICES ASSUME k <= n
               PROVE  checked <=> consecutive
    OBVIOUS
  <2>1. ASSUME NEW i \in 0..(n - k)
        PROVE  Assigns([j \in 1..k |-> i + j], published, expected)
                 <=> \A j \in 1..k : published[i + j] \in expected[j]
    BY <1>1, <2>1 DEF Assigns
  <2>2. checked <=> \E i \in 0..(n - k) : \A j \in 1..k : published[i + j] \in expected[j]
    BY <1>1 DEF _check_ordered, Lists
  <2> QED
    BY <2>1, <2>2
<1>5. assigned => k <= n
  BY <1>1, NotMoreThanPublished DEF Assigns
<1> DEFINE in_order == assert_published(published, expected, FALSE)
           unordered == assert_published(published, expected, TRUE)
<1>6. /\ in_order = IF k > n THEN "PublishedTooFewError"
                    ELSE IF ~unchecked THEN "NotPublishedError"
                    ELSE IF ~checked THEN "NotPublishedConsecutivelyError" ELSE "passed"
      /\ unordered = IF k > n THEN "PublishedTooFewError"
                     ELSE IF ~unchecked THEN "NotPublishedError" ELSE "passed"
  BY <1>1 DEF assert_published
<1>7. /\ assert_published_all(published, expected, FALSE)
           = IF k # n THEN "PublishedCountError" ELSE in_order
      /\ assert_published_all(published, expected, TRUE)
           = IF k # n THEN "PublishedCountError" ELSE unordered
  BY <1>1 DEF assert_published_all
<1> HIDE DEF n, assigned, consecutive, unchecked, checked, in_order, unordered
<1> QED
  <2>1. k > n <=> ~(k <= n)
    BY <1>1
  <2> SUFFICES /\ in_order = "passed" <=> consecutive
               /\ unordered = "passed" => assigned
               /\ NarrowFirst(expected) /\ assigned => unordered = "passed"
               /\ in_order = "NotPublishedConsecutivelyError" => assigned /\ ~consecutive
               /\ (IF k # n THEN "PublishedCountError" ELSE in_order) = "passed"
                    <=> consecutive /\ k = n
               /\ (IF k # n THEN "PublishedCountError" ELSE unordered) = "passed"
                    <=> unordered = "passed" /\ k = n
    BY <1>7 DEF n, assigned, consecutive, unchecked, checked, in_order, unordered
  <2>2. /\ in_order = "passed" <=> consecutive
        /\ unordered = "passed" => assigned
        /\ NarrowFirst(expected) /\ assigned => unordered = "passed"
        /\ in_order = "NotPublishedConsecutivelyError" => assigned /\ ~consecutive
    BY <1>2, <1>3, <1>4, <1>5, <1>6, <2>1
  <2> QED
    BY <2>2

-----------------------------------------------------------------------------
PublisherType == [there : BOOLEAN, kind : {"none", "mock", "noop"},
                  published : Seq(Payloads)]

MetricsInv ==
    /\ MetricsTypeOK
    /\ events = [initialized |-> events.initialized, publishers |-> events.publishers]
    /\ events.publishers \in [EventNames -> PublisherType]

LEMMA MetricsInitInv == MetricsInit => MetricsInv
<1> SUFFICES ASSUME MetricsInit
             PROVE  MetricsInv
  OBVIOUS
<1>1. Absent \in PublisherType /\ (Absent.there <=> Absent.kind # "none")
      /\ Absent.published = <<>> /\ Absent.kind = "none"
  BY DEF Absent, PublisherType
<1>2. /\ manager = [kind |-> "none", initialized |-> FALSE, publishers |-> {}]
      /\ events = [initialized |-> FALSE, publishers |-> events.publishers]
      /\ events.publishers = [n \in EventNames |-> Absent]
      /\ events.initialized = FALSE
  BY DEF MetricsInit
<1>3. <<>> \in Seq(Payloads)
  OBVIOUS
<1> QED
  BY <1>1, <1>2, <1>3 DEF MetricsInv, MetricsTypeOK

LEMMA FactoryType ==
    ASSUME NEW enabled, NEW mock
    PROVE  metrics_configuration_factory(enabled, mock) \in {"mock", "noop", "kafka"}
  BY DEF metrics_configuration_factory

\* What a maker creates are events that it has.
LEMMA CreatedAreNames ==
    ASSUME NEW maker \in Makers
    PROVE  {maker[i] : i \in 1..Created_by(maker)} \subseteq EventNames
<1> DEFINE Fresh(i) == maker[i] \notin manager.publishers
                         /\ \A j \in 1..(i - 1) : maker[j] # maker[i]
           counts == {k \in 0..Len(maker) : \A i \in 1..k : Fresh(i)}
<1>1. Len(maker) \in Nat /\ DOMAIN maker = 1..Len(maker)
  BY MetricsAssumption
<1>2. Created_by(maker) \in 0..Len(maker)
  <2>1. CASE ~manager.initialized
    BY <1>1, <2>1 DEF Created_by
  <2>2. CASE manager.initialized
    <3>1. counts \in SUBSET Nat /\ counts # {} /\ \A k \in counts : k <= Len(maker)
      <4>1. 0 \in counts
        BY <1>1
      <4> QED
        BY <1>1, <4>1
    <3>2. \E k \in counts : \A l \in counts : l <= k
      <4> HIDE DEF counts
      <4> QED
        BY <1>1, <3>1, Greatest
    <3>3. Created_by(maker) = CHOOSE k \in counts : \A l \in counts : l <= k
      BY <2>2 DEF Created_by
    <3>4. Created_by(maker) \in counts
      <4> HIDE DEF counts
      <4> QED
        BY <3>2, <3>3
    <3> QED
      BY <3>4
  <2> QED
    BY <2>1, <2>2
<1>3. \A i \in 1..Created_by(maker) : i \in DOMAIN maker
  BY <1>1, <1>2
<1> QED
  BY <1>3 DEF EventNames

LEMMA MetricsStepInv == MetricsInv /\ [MetricsNext]_metrics_vars => MetricsInv'
<1> SUFFICES ASSUME MetricsInv, [MetricsNext]_metrics_vars
             PROVE  MetricsInv'
  OBVIOUS
<1> USE DEF MetricsInv
<1>1. CASE make_manager
  BY <1>1, FactoryType DEF make_manager, MetricsTypeOK
<1>2. CASE initialize_manager
  BY <1>2 DEF initialize_manager, MetricsTypeOK
<1>3. CASE close_manager
  BY <1>3 DEF close_manager, MetricsTypeOK
<1>4. ASSUME NEW maker \in Makers, initialize_events(maker)
      PROVE  MetricsInv'
  <2> DEFINE names == {maker[i] : i \in 1..Created_by(maker)}
  <2>1. names \subseteq EventNames
    BY CreatedAreNames
  <2>2. /\ manager.kind \in {"mock", "noop"}
        /\ manager' = [manager EXCEPT !.publishers = @ \union names]
        /\ events'.initialized \in BOOLEAN
        /\ events' = [initialized |-> events'.initialized,
                      publishers |-> events'.publishers]
        /\ events'.publishers =
             [n \in EventNames |->
                IF n \in names
                  THEN [there |-> TRUE, kind |-> manager.kind, published |-> <<>>]
                ELSE events.publishers[n]]
    BY <1>4 DEF initialize_events, Sends, MetricsTypeOK
  <2> HIDE DEF names
  <2>3. manager' \in [kind : {"none", "mock", "noop", "kafka"}, initialized : BOOLEAN,
                      publishers : SUBSET EventNames]
    BY <2>1, <2>2 DEF MetricsTypeOK
  <2>4. <<>> \in Seq(Payloads)
    OBVIOUS
  <2>5. events'.publishers \in [EventNames -> PublisherType]
    BY <2>2, <2>4 DEF PublisherType
  <2>6. ASSUME NEW name \in EventNames
        PROVE  LET publisher == events'.publishers[name]
               IN /\ publisher.kind \in {"none", "mock", "noop"}
                  /\ publisher.there <=> publisher.kind # "none"
                  /\ publisher.published \in Seq(Payloads)
                  /\ publisher.kind # "mock" => publisher.published = <<>>
    <3>1. CASE name \in names
      <4>1. events'.publishers[name]
              = [there |-> TRUE, kind |-> manager.kind, published |-> <<>>]
        BY <2>2, <3>1
      <4>2. /\ events'.publishers[name].kind = manager.kind
            /\ events'.publishers[name].there
            /\ events'.publishers[name].published = <<>>
        BY <4>1
      <4> QED
        BY <2>2, <2>4, <4>2
    <3>2. CASE name \notin names
      BY <2>2, <3>2 DEF MetricsTypeOK
    <3> QED
      BY <3>1, <3>2
  <2> QED
    BY <2>2, <2>3, <2>5, <2>6 DEF MetricsTypeOK
<1>5. ASSUME NEW name \in EventNames, NEW payload \in Payloads,
             publish_event(name, payload)
      PROVE  MetricsInv'
  <2> DEFINE old == events.publishers[name]
             published == IF old.kind = "mock" THEN Append(old.published, payload)
                          ELSE old.published
  <2>1. /\ old \in PublisherType /\ (old.there <=> old.kind # "none")
        /\ old.kind # "mock" => old.published = <<>>
    BY DEF MetricsTypeOK
  <2>2. published \in Seq(Payloads) /\ (old.kind # "mock" => published = <<>>)
    BY <2>1 DEF PublisherType
  <2>3. /\ events' = [initialized |-> events.initialized,
                      publishers |-> events'.publishers]
        /\ events'.publishers = [events.publishers EXCEPT ![name] =
                [there |-> old.there, kind |-> old.kind, published |-> published]]
        /\ manager' = manager
    <3>1. events' = [events EXCEPT !.publishers[name].published = published]
          /\ manager' = manager
      BY <1>5 DEF publish_event
    <3>2. events' = [events EXCEPT !.publishers =
                       [events.publishers EXCEPT ![name] = [old EXCEPT !.published = published]]]
      <4> HIDE DEF published
      <4> QED
        BY <3>1
    <3>3. [old EXCEPT !.published = published]
            = [there |-> old.there, kind |-> old.kind, published |-> published]
      <4> HIDE DEF published, old
      <4> QED
        BY <2>1 DEF PublisherType
    <3> DEFINE new == [events.publishers EXCEPT ![name] = [old EXCEPT !.published = published]]
    <3>4. events = [initialized |-> events.initialized, publishers |-> events.publishers]
      OBVIOUS
    <3>5. events' = [events EXCEPT !.publishers = new]
      BY <3>2
    <3>6. events' = [initialized |-> events.initialized, publishers |-> new]
      <4> HIDE DEF new
      <4> QED
        BY <3>4, <3>5
    <3> QED
      BY <3>1, <3>3, <3>6
  <2> HIDE DEF old, published
  <2>4. /\ events'.publishers \in [EventNames -> PublisherType]
        /\ events'.initialized \in BOOLEAN
        /\ events' = [initialized |-> events'.initialized,
                      publishers |-> events'.publishers]
    BY <2>1, <2>2, <2>3 DEF PublisherType, MetricsTypeOK
  <2>5. ASSUME NEW other \in EventNames
        PROVE  LET publisher == events'.publishers[other]
               IN /\ publisher.kind \in {"none", "mock", "noop"}
                  /\ publisher.there <=> publisher.kind # "none"
                  /\ publisher.published \in Seq(Payloads)
                  /\ publisher.kind # "mock" => publisher.published = <<>>
    <3>1. CASE other = name
      BY <2>1, <2>2, <2>3, <3>1 DEF PublisherType
    <3>2. CASE other # name
      BY <2>3, <3>2 DEF MetricsTypeOK
    <3> QED
      BY <3>1, <3>2
  <2> QED
    BY <2>3, <2>4, <2>5 DEF MetricsTypeOK
<1>6. CASE UNCHANGED metrics_vars
  BY <1>6 DEF metrics_vars, MetricsTypeOK
<1> QED
  BY <1>1, <1>2, <1>3, <1>4, <1>5, <1>6 DEF MetricsNext

\* What a manager and its publishers are, for any makers and payloads.
THEOREM MetricsTypes == MetricsSpec => []MetricsTypeOK
<1>1. MetricsInv => MetricsTypeOK
  BY DEF MetricsInv
<1> QED
  BY <1>1, MetricsInitInv, MetricsStepInv, PTL DEF MetricsSpec

\* For whatever a mock publisher recorded and whatever is expected: an assertion in
\* order passes exactly if the events are there side by side, one without order only
\* if different events match, and whenever they do if narrow patterns come first.
THEOREM AssertionsMeanWhatTheySay == MetricsSpec => []AssertionsMean
<1>1. MetricsInv => AssertionsMean
  <2>1. ASSUME MetricsInv, NEW name \in EventNames
        PROVE  events.publishers[name].published \in Seq(Payloads)
    BY <2>1 DEF MetricsInv, MetricsTypeOK
  <2>2. \A k \in 0..MaxExpected : k \in Nat
    BY MetricsAssumption
  <2> QED
    BY <2>1, <2>2, AssertionsMeanOf DEF AssertionsMean
<1> QED
  BY <1>1, MetricsInitInv, MetricsStepInv, PTL DEF MetricsSpec

-----------------------------------------------------------------------------
(***************************************************************************)
(* The parts together.                                                     *)
(***************************************************************************)

\* In the composition each part behaves as it does alone: its steps are those of
\* its own specification, and the steps of another part leave its state as it is.
\* So what is proved of a part, of which the library run checks a small instance
\* within the composition, holds there too.
THEOREM PartsRunAlone ==
    LibrarySpec => /\ PaginationSpec /\ MockSpec /\ EnginesSpec /\ SchemaSpec
                   /\ RedisSpec /\ KafkaSpec /\ SlackSpec /\ MetricsSpec
<1>1. LibraryInit => /\ PaginationInit /\ MockInit /\ EnginesInit /\ SchemaInit
                     /\ RedisInit /\ KafkaInit /\ SlackInit /\ MetricsInit
  BY DEF LibraryInit
<1>2. [LibraryNext]_library_vars =>
        /\ [PaginationNext]_pagination_vars /\ [MockNext]_mock_vars
        /\ [EnginesNext]_engines_vars /\ [SchemaNext]_schema_vars
        /\ [RedisNext]_redis_vars /\ [KafkaNext]_kafka_vars
        /\ [SlackNext]_slack_vars /\ [MetricsNext]_metrics_vars
  BY DEF LibraryNext, library_vars
<1> QED
  BY <1>1, <1>2, PTL DEF LibrarySpec, PaginationSpec, MockSpec, EnginesSpec, SchemaSpec,
                         RedisSpec, KafkaSpec, SlackSpec, MetricsSpec

\* The type invariants of all parts hold in the composition.
THEOREM LibraryTypes == LibrarySpec => []LibraryTypeOK
<1>1. PaginationTypeOK /\ MockTypeOK /\ EnginesTypeOK /\ SchemaTypeOK /\ RedisTypeOK
      /\ KafkaTypeOK /\ MetricsTypeOK => LibraryTypeOK
  BY DEF LibraryTypeOK
<1> QED
  BY <1>1, PartsRunAlone, TypeCorrect, MockTypes, EnginesTypes, SchemaTypes, RedisTypes,
     KafkaTypes, MetricsTypes, PTL
=============================================================================
