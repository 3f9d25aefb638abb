---------------------------- MODULE UWSApiProofs ----------------------------
(***************************************************************************)
(* The limits of jobs, for any number of requests at the same time, any    *)
(* limits in the configuration and any times and durations asked for.      *)
(*                                                                         *)
(* A request writes back, or hands to arq, what it computed from a job as  *)
(* it read it.  That stays within the limits whatever became of the job,   *)
(* because it was within them when it was computed (Limited, Timeouts).    *)
(* The last sections prove the type invariant.                             *)
(***************************************************************************)
EXTENDS UWSApi, FiniteSetTheorems, TLAPS

Timeouts == 1..execution_duration \union {lifetime}

\* The values of a job or of an update.
Limited(c) ==
    /\ {"destruction_time", "execution_duration"} \subseteq DOMAIN c
    /\ c.execution_duration \in Nat /\ c.execution_duration <= execution_duration
    /\ c.destruction_time \in Nat
    /\ "destruction" \notin validators => c.destruction_time <= lifetime

\* An update differs from what its request read in the value it is about.
ChangesOne(c) ==
    /\ c.route # "post_execution_duration" =>
         c.metadata.execution_duration = c.read.execution_duration
    /\ c.route # "post_destruction" =>
         c.metadata.destruction_time = c.read.destruction_time

ReqFields == {"route", "id", "value", "wait", "pc", "until_not", "waited", "timeout",
              "metadata", "read"}

\* What a request carries over an await.
IsReq(c) ==
    /\ DOMAIN c = ReqFields /\ c = [f \in ReqFields |-> c[f]]
    /\ c.pc \notin {"idle", "create", "list"} => c.id \in Ids
    /\ c.route = "post_destruction" => c.value \in Times
    /\ c.route = "post_execution_duration" => c.value \in Durations /\ c.value >= 0
    /\ c.pc = "enqueue" => c.timeout \in Timeouts
    /\ c.pc = "update" => Limited(c.metadata) /\ ChangesOne(c)

Creating == {r \in Requests : req[r].pc = "create"}

JobsInv ==
    /\ jobs = [id \in Ids |-> jobs[id]]
    /\ \A id \in Ids : jobs[id] # NoJob => Limited(jobs[id])

ReqsInv ==
    /\ req = [r \in Requests |-> req[r]]
    /\ \A r \in Requests : IsReq(req[r])

\* There is room for the jobs that are being created.
RoomInv ==
    /\ created \in Nat
    /\ created + Cardinality(Creating) <= MaxJobs

SentInv == \A info \in sent : info.timeout \in Timeouts

LimitsInv == JobsInv /\ ReqsInv /\ RoomInv /\ SentInv

-----------------------------------------------------------------------------
\* Creating

LEMMA CreatingFinite == IsFiniteSet(Creating) /\ Cardinality(Creating) \in Nat
<1>1. IsFiniteSet(Creating)
  BY BoundAssumption, FS_Subset DEF Creating
<1> QED
  BY <1>1, FS_CardinalityType

LEMMA RoomSame ==
    ASSUME RoomInv, created' = created, Creating' \subseteq Creating
    PROVE  RoomInv'
<1>1. PICK new : new = Creating'
  OBVIOUS
<1>2. Cardinality(new) <= Cardinality(Creating) /\ IsFiniteSet(new)
  BY <1>1, CreatingFinite, FS_Subset
<1>3. Cardinality(new) \in Nat
  BY <1>2, FS_CardinalityType
<1> QED
  BY <1>1, <1>2, <1>3, CreatingFinite, BoundAssumption DEF RoomInv

\* A step of one request that changes no job.
LEMMA ReqStep ==
    ASSUME LimitsInv, UNCHANGED <<jobs, created, sent, validators>>,
           NEW r \in Requests, NEW c, req' = [req EXCEPT ![r] = c], IsReq(c), c.pc # "create"
    PROVE  LimitsInv'
<1>1. \A k \in Requests : req'[k] = IF k = r THEN c ELSE req[k]
  BY DEF LimitsInv, ReqsInv
<1>2. ReqsInv'
  BY <1>1 DEF LimitsInv, ReqsInv, IsReq, Limited
<1>3. Creating' \subseteq Creating
  BY <1>1 DEF Creating
<1>4. RoomInv'
  BY <1>3, RoomSame DEF LimitsInv
<1>5. JobsInv' /\ SentInv'
  BY DEF LimitsInv, JobsInv, SentInv, Limited
<1> QED
  BY <1>2, <1>4, <1>5 DEF LimitsInv

LEMMA IdleIsReq == IsReq(Idle) /\ Idle.pc = "idle"
BY DEF IsReq, Idle, ReqFields

LEMMA RespondInv ==
    ASSUME LimitsInv, UNCHANGED <<jobs, created, sent, validators>>,
           NEW r \in Requests, NEW a, Respond(r, a)
    PROVE  LimitsInv'
BY IdleIsReq, ReqStep DEF Respond

\* A request goes on with what it has.
LEMMA GotoReq ==
    ASSUME LimitsInv, NEW r \in Requests, req[r].pc \notin {"idle", "create", "list"},
           NEW pc \in {"abort_job", "mark_aborted", "mark_queued", "delete", "wait", "last"},
           Goto(r, pc)
    PROVE  \E c : req' = [req EXCEPT ![r] = c] /\ IsReq(c) /\ c.pc # "create"
<1> DEFINE c == [req[r] EXCEPT !.pc = pc]
<1>1. IsReq(req[r])
  BY DEF LimitsInv, ReqsInv
<1>2. /\ DOMAIN c = ReqFields /\ c = [f \in ReqFields |-> c[f]]
      /\ c.pc = pc /\ \A f \in ReqFields \ {"pc"} : c[f] = req[r][f]
  BY <1>1 DEF IsReq, ReqFields
<1>3. c.id = req[r].id /\ c.route = req[r].route /\ c.value = req[r].value
  BY <1>2 DEF ReqFields
<1>4. req' = [req EXCEPT ![r] = c]
  BY DEF Goto
<1> HIDE DEF c
<1>5. IsReq(c) /\ c.pc # "create"
  BY <1>1, <1>2, <1>3 DEF IsReq
<1> QED
  BY <1>4, <1>5

LEMMA GotoInv ==
    ASSUME LimitsInv, UNCHANGED <<jobs, created, sent, validators>>,
           NEW r \in Requests, req[r].pc \notin {"idle", "create", "list"},
           NEW pc \in {"abort_job", "mark_aborted", "mark_queued", "delete", "wait", "last"},
           Goto(r, pc)
    PROVE  LimitsInv'
BY GotoReq, ReqStep

-----------------------------------------------------------------------------
\* Requests come in.

LEMMA AskFields ==
    ASSUME NEW route, NEW id, NEW value, NEW wait
    PROVE  LET a == Ask(route, id, value, wait)
           IN /\ DOMAIN a = ReqFields /\ a = [f \in ReqFields |-> a[f]]
              /\ a.route = route /\ a.id = id /\ a.value = value
BY DEF Ask, Idle, ReqFields

LEMMA AsksFields ==
    ASSUME NEW ask \in Asks
    PROVE  /\ DOMAIN ask = ReqFields /\ ask = [f \in ReqFields |-> ask[f]]
           /\ ask.id \in Ids \/ ask.route \in {"availability", "sync", "create", "list"}
           /\ ask.route = "post_destruction" => ask.value \in Times
           /\ ask.route = "post_execution_duration" => ask.value \in Durations
<1>1. PICK route, id, value, wait :
        /\ ask = Ask(route, id, value, wait)
        /\ id \in Ids \/ route \in {"availability", "sync", "create", "list"}
        /\ route = "post_destruction" => value \in Times
        /\ route = "post_execution_duration" => value \in Durations
  <2>1. CASE ask \in {Ask("availability", 0, 0, 0), Ask("sync", 0, "RUN", 0)}
    BY <2>1
  <2>2. CASE ask \in {Ask("create", 0, phase, 0) : phase \in {"RUN", "none"}}
    BY <2>2
  <2>3. CASE ask \in {Ask("list", 0, [phases |-> p, after |-> a, count |-> c], 0) :
                        p \in {{}, {"PENDING", "HELD"}}, a \in {0, 1}, c \in {0, 1}}
    BY <2>3
  <2>4. CASE ask \in {Ask(route, id, 0, 0) :
                route \in TextRoutes \union {"delete", "delete_via_post"}, id \in Ids}
    BY <2>4 DEF TextRoutes
  <2>5. CASE ask \in {Ask("get", id, "none", 0) : id \in Ids}
    BY <2>5
  <2>6. CASE ask \in {Ask("get", id, phase, wait) :
                phase \in ACTIVE_PHASES \union {"none"}, id \in Ids, wait \in Waits}
    BY <2>6
  <2>7. CASE ask \in {Ask("post_phase", id, phase, 0) :
                phase \in {"RUN", "ABORT", "none"}, id \in Ids}
    BY <2>7
  <2>8. CASE ask \in {Ask("post_destruction", id, t, 0) : t \in Times, id \in Ids}
    BY <2>8
  <2>9. CASE ask \in {Ask("post_execution_duration", id, d, 0) : d \in Durations, id \in Ids}
    BY <2>9
  <2> QED
    BY <2>1, <2>2, <2>3, <2>4, <2>5, <2>6, <2>7, <2>8, <2>9 DEF Asks
<1> QED
  BY <1>1, AskFields

LEMMA requestInv ==
    ASSUME LimitsInv, NEW r \in Requests, request(r)
    PROVE  LimitsInv'
<1>1. req[r].pc = "idle" /\ UNCHANGED <<jobs, created, sent, validators>>
  BY DEF request
<1>2. CASE \E a : Respond(r, a)
  BY <1>1, <1>2, RespondInv
<1>3. CASE \E ask \in Asks :
             /\ MayAsk(ask) /\ ask.route # "availability"
             /\ ~(ask.route = "post_execution_duration" /\ ask.value < 0)
             /\ req' = [req EXCEPT ![r] = [ask EXCEPT !.pc = First(ask)]]
  <2>1. PICK ask \in Asks :
             /\ MayAsk(ask) /\ ask.route # "availability"
             /\ ~(ask.route = "post_execution_duration" /\ ask.value < 0)
             /\ req' = [req EXCEPT ![r] = [ask EXCEPT !.pc = First(ask)]]
    BY <1>3
  <2> DEFINE pc == First(ask)
             c == [ask EXCEPT !.pc = pc]
  <2>2. /\ pc \in {"create", "list", "wait", "get"}
        /\ pc = "create" => ask.route \in {"create", "sync"}
        /\ ask.route \in {"create", "sync"} => pc = "create"
        /\ ask.route = "list" => pc = "list"
    BY DEF First
  <2> HIDE DEF pc
  <2>3. /\ DOMAIN c = ReqFields /\ c = [f \in ReqFields |-> c[f]] /\ c.pc = pc
        /\ c.id = ask.id /\ c.route = ask.route /\ c.value = ask.value
    BY AsksFields DEF ReqFields
  <2>4. req' = [req EXCEPT ![r] = c]
    BY <2>1 DEF pc
  <2> HIDE DEF c
  <2>5. ask.route = "post_execution_duration" => ask.value >= 0
    BY <2>1, AsksFields, InputAssumption
  <2>6. IsReq(c)
    BY <2>1, <2>2, <2>3, <2>5, AsksFields DEF IsReq
  <2>7. CASE pc # "create"
    BY <1>1, <2>3, <2>4, <2>6, <2>7, ReqStep
  <2>8. CASE pc = "create"
    <3>1. created + Cardinality(Creating) < MaxJobs
      <4>1. Creating = {k \in {q \in Requests : req[q].pc # "idle"} : req[k].pc = "create"}
        BY DEF Creating
      <4> QED
        BY <2>1, <2>2, <2>8, <4>1 DEF MayAsk
    <3>2. \A k \in Requests : req'[k] = IF k = r THEN c ELSE req[k]
      BY <2>4 DEF LimitsInv, ReqsInv
    <3>3. Creating' = Creating \union {r} /\ r \notin Creating
      BY <1>1, <2>3, <2>8, <3>2 DEF Creating
    <3>4. PICK new : new = Creating'
      OBVIOUS
    <3>5. Cardinality(new) = Cardinality(Creating) + 1
      BY <3>3, <3>4, CreatingFinite, FS_AddElement
    <3>6. RoomInv'
      BY <1>1, <3>1, <3>4, <3>5, CreatingFinite, BoundAssumption DEF LimitsInv, RoomInv
    <3>7. ReqsInv'
      BY <1>1, <2>6, <2>4, <3>2 DEF LimitsInv, ReqsInv, IsReq, Limited
    <3>8. JobsInv' /\ SentInv'
      BY <1>1 DEF LimitsInv, JobsInv, SentInv, Limited
    <3> QED
      BY <3>6, <3>7, <3>8 DEF LimitsInv
  <2> QED
    BY <2>7, <2>8
<1> QED
  BY <1>2, <1>3 DEF request

LEMMA createInv ==
    ASSUME LimitsInv, NEW r \in Requests, create(r)
    PROVE  LimitsInv'
<1>1. PICK parameters \in Parameters, quote \in Quotes :
        /\ jobs' = [jobs EXCEPT ![created'] = JobCreate(parameters, quote)]
        /\ \/ \E a : Respond(r, a)
           \/ req' = [req EXCEPT ![r].id = created', ![r].pc = "get"]
  BY DEF create
<1>2. req[r].pc = "create" /\ created' = created + 1 /\ UNCHANGED <<sent, validators>>
  BY DEF create
<1>3. r \in Creating
  BY <1>2 DEF Creating
<1>4. PICK new : new = Creating'
  OBVIOUS
<1>5. PICK n : n = created + 1
  OBVIOUS
<1>6. Cardinality(Creating) >= 1
  <2>1. Cardinality(Creating) # 0
    BY <1>3, CreatingFinite, FS_EmptySet
  <2> QED
    BY <2>1, CreatingFinite
<1>7. n \in Ids /\ created' = n
  BY <1>2, <1>5, <1>6, CreatingFinite, BoundAssumption DEF LimitsInv, RoomInv, Ids
<1>8. PICK c : req' = [req EXCEPT ![r] = c] /\ IsReq(c) /\ c.pc # "create"
  <2>1. CASE \E a : Respond(r, a)
    BY <2>1, IdleIsReq DEF Respond
  <2>2. CASE req' = [req EXCEPT ![r].id = created', ![r].pc = "get"]
    <3> DEFINE c == [req[r] EXCEPT !.id = n, !.pc = "get"]
    <3>1. IsReq(req[r])
      BY DEF LimitsInv, ReqsInv
    <3>2. /\ DOMAIN c = ReqFields /\ c = [f \in ReqFields |-> c[f]]
          /\ c.pc = "get" /\ c.id = n /\ c.route = req[r].route /\ c.value = req[r].value
      BY <3>1 DEF IsReq, ReqFields
    <3>3. req' = [req EXCEPT ![r] = c]
      BY <1>7, <2>2
    <3> HIDE DEF c
    <3>4. IsReq(c) /\ c.pc # "create"
      BY <1>7, <3>1, <3>2 DEF IsReq
    <3> QED
      BY <3>3, <3>4
  <2> QED
    BY <1>1, <2>1, <2>2
<1>9. \A k \in Requests : req'[k] = IF k = r THEN c ELSE req[k]
  BY <1>8 DEF LimitsInv, ReqsInv
<1>10. new = Creating \ {r}
  BY <1>4, <1>8, <1>9 DEF Creating
<1>11. Cardinality(new) = Cardinality(Creating) - 1
  BY <1>3, <1>10, CreatingFinite, FS_RemoveElement
<1>12. RoomInv'
  BY <1>4, <1>5, <1>7, <1>11, CreatingFinite, BoundAssumption DEF LimitsInv, RoomInv
<1>13. ReqsInv'
  BY <1>2, <1>8, <1>9 DEF LimitsInv, ReqsInv, IsReq, Limited
<1>14. JobsInv'
  <2> DEFINE job == JobCreate(parameters, quote)
  <2>1. Limited(job)
    BY ConfigAssumption DEF JobCreate, Limited
  <2>2. jobs' = [jobs EXCEPT ![n] = job]
    BY <1>1, <1>7
  <2> HIDE DEF job
  <2>3. jobs' = [id \in Ids |-> IF id = n THEN job ELSE jobs[id]]
    BY <1>7, <2>2 DEF LimitsInv, JobsInv
  <2> QED
    BY <1>2, <2>1, <2>3 DEF LimitsInv, JobsInv, Limited
<1>15. SentInv'
  BY <1>2 DEF LimitsInv, SentInv
<1> QED
  BY <1>12, <1>13, <1>14, <1>15 DEF LimitsInv

-----------------------------------------------------------------------------
\* Jobs change.

LEMMA JobsStep ==
    ASSUME JobsInv, UNCHANGED validators, NEW id \in Ids, NEW job,
           jobs' = [jobs EXCEPT ![id] = job], job = NoJob \/ Limited(job)
    PROVE  JobsInv'
<1>1. \A i \in Ids : jobs'[i] = IF i = id THEN job ELSE jobs[i]
  BY DEF JobsInv
<1>2. jobs' = [i \in Ids |-> jobs'[i]]
  BY DEF JobsInv
<1> QED
  BY <1>1, <1>2 DEF JobsInv, Limited

\* A step of one request that changes one job.
LEMMA JobStep ==
    ASSUME LimitsInv, UNCHANGED <<created, sent, validators>>,
           NEW id \in Ids, NEW job,
           jobs' = [jobs EXCEPT ![id] = job], job = NoJob \/ Limited(job),
           NEW r \in Requests, NEW c, req' = [req EXCEPT ![r] = c], IsReq(c), c.pc # "create"
    PROVE  LimitsInv'
<1>1. \A k \in Requests : req'[k] = IF k = r THEN c ELSE req[k]
  BY DEF LimitsInv, ReqsInv
<1>2. ReqsInv'
  BY SMTT(30), <1>1 DEF LimitsInv, ReqsInv, IsReq, Limited
<1>3. Creating' \subseteq Creating
  BY <1>1 DEF Creating
<1>4. RoomInv'
  BY <1>3, RoomSame DEF LimitsInv
<1>5. JobsInv' /\ SentInv'
  BY JobsStep DEF LimitsInv, SentInv
<1> QED
  BY <1>2, <1>4, <1>5 DEF LimitsInv

\* What happens to a job elsewhere.
LEMMA ElsewhereStep ==
    ASSUME LimitsInv, UNCHANGED <<created, sent, req, validators>>,
           NEW id \in Ids, NEW job,
           jobs' = [jobs EXCEPT ![id] = job], job = NoJob \/ Limited(job)
    PROVE  LimitsInv'
<1>1. ReqsInv' /\ RoomInv'
  BY DEF LimitsInv, ReqsInv, IsReq, Limited, RoomInv, Creating
<1>2. JobsInv' /\ SentInv'
  BY JobsStep DEF LimitsInv, SentInv
<1> QED
  BY <1>1, <1>2 DEF LimitsInv

LEMMA IdOfRequest ==
    ASSUME LimitsInv, NEW r \in Requests, req[r].pc \notin {"idle", "create", "list"}
    PROVE  /\ req[r].id \in Ids
           /\ jobs[req[r].id] # NoJob => Limited(jobs[req[r].id])
BY DEF LimitsInv, ReqsInv, JobsInv, IsReq

LEMMA mark_queuedInv ==
    ASSUME LimitsInv, NEW r \in Requests, mark_queued(r)
    PROVE  LimitsInv'
<1>1. PICK id : id = req[r].id
  OBVIOUS
<1>2. PICK old : old = jobs[id]
  OBVIOUS
<1>3. id \in Ids /\ Limited(old)
  BY <1>1, <1>2, IdOfRequest DEF mark_queued, TheJob
<1> DEFINE job == [old EXCEPT !.phase = "QUEUED", !.message_id = TRUE]
<1>4. jobs' = [jobs EXCEPT ![id] = job]
  BY <1>1, <1>2, <1>3 DEF mark_queued, LimitsInv, JobsInv
<1>5. Limited(job)
  BY <1>3 DEF Limited
<1>6. PICK c : req' = [req EXCEPT ![r] = c] /\ IsReq(c) /\ c.pc # "create"
  <2>1. CASE Goto(r, "wait")
    BY <2>1, GotoReq DEF mark_queued
  <2>2. CASE \E a : Respond(r, a)
    BY <2>2, IdleIsReq DEF Respond
  <2> QED
    BY <2>1, <2>2 DEF mark_queued
<1> HIDE DEF job
<1> QED
  BY <1>3, <1>4, <1>5, <1>6, JobStep DEF mark_queued

LEMMA mark_abortedInv ==
    ASSUME LimitsInv, NEW r \in Requests, mark_aborted(r)
    PROVE  LimitsInv'
<1>1. PICK id : id = req[r].id
  OBVIOUS
<1>2. PICK old : old = jobs[id]
  OBVIOUS
<1>3. id \in Ids /\ Limited(old)
  BY <1>1, <1>2, IdOfRequest DEF mark_aborted, TheJob
<1> DEFINE job == [old EXCEPT !.phase = "ABORTED"]
<1>4. jobs' = [jobs EXCEPT ![id] = job]
  BY <1>1, <1>2, <1>3 DEF mark_aborted, LimitsInv, JobsInv
<1>5. Limited(job)
  BY <1>3 DEF Limited
<1> HIDE DEF job
<1> QED
  BY <1>3, <1>4, <1>5, IdleIsReq, JobStep DEF mark_aborted, Respond

LEMMA delete_jobInv ==
    ASSUME LimitsInv, NEW r \in Requests, delete_job(r)
    PROVE  LimitsInv'
<1>1. req[r].id \in Ids
  BY IdOfRequest DEF delete_job
<1> QED
  BY <1>1, IdleIsReq, JobStep DEF delete_job, Respond

\* The job gets the values of the update and keeps the rest.
LEMMA update_metadataInv ==
    ASSUME LimitsInv, NEW r \in Requests, update_metadata(r)
    PROVE  LimitsInv'
<1>1. PICK id : id = req[r].id
  OBVIOUS
<1>2. PICK old : old = jobs[id]
  OBVIOUS
<1>3. PICK m : m = req[r].metadata
  OBVIOUS
<1>4. id \in Ids /\ Limited(old)
  BY <1>1, <1>2, IdOfRequest DEF update_metadata, TheJob
<1>5. Limited(m)
  BY <1>3 DEF update_metadata, LimitsInv, ReqsInv, IsReq
<1> DEFINE job == [old EXCEPT !.destruction_time = m.destruction_time,
                              !.execution_duration = m.execution_duration]
<1>6. jobs' = [jobs EXCEPT ![id] = job]
  BY <1>1, <1>2, <1>3, <1>4 DEF update_metadata, LimitsInv, JobsInv
<1>7. Limited(job)
  BY <1>4, <1>5 DEF Limited
<1> HIDE DEF job
<1> QED
  BY <1>4, <1>6, <1>7, IdleIsReq, JobStep DEF update_metadata, Respond

LEMMA MessageInv ==
    ASSUME LimitsInv, NEW id \in Ids, NEW fields, Message(id, fields),
           {"destruction_time", "execution_duration"} \intersect DOMAIN fields = {}
    PROVE  LimitsInv'
<1>1. PICK old : old = jobs[id]
  OBVIOUS
<1>2. Limited(old)
  BY <1>1 DEF Message, LimitsInv, JobsInv
<1> DEFINE job == [f \in DOMAIN old |-> IF f \in DOMAIN fields THEN fields[f] ELSE old[f]]
<1>3. jobs' = [jobs EXCEPT ![id] = job]
  BY <1>1 DEF Message, LimitsInv, JobsInv
<1>4. Limited(job)
  BY <1>2 DEF Limited
<1> HIDE DEF job
<1> QED
  BY <1>3, <1>4, ElsewhereStep DEF Message

LEMMA ElsewhereInv ==
    ASSUME LimitsInv, NEW id \in Ids, Elsewhere(id)
    PROVE  LimitsInv'
<1>1. CASE JobUpdateExecuting(id)
  BY <1>1, MessageInv DEF JobUpdateExecuting
<1>2. CASE JobUpdateCompleted(id)
  <2>1. PICK results : Message(id, [phase |-> "COMPLETED", results |-> results])
    BY <1>2 DEF JobUpdateCompleted
  <2> QED
    BY <2>1, MessageInv
<1>3. CASE JobUpdateError(id)
  <2>1. PICK e : Message(id, [phase |-> "ERROR", errors |-> <<from_worker_error(e)>>])
    BY <1>3 DEF JobUpdateError
  <2> QED
    BY <2>1, MessageInv
<1>4. CASE Destroy(id)
  BY <1>4, ElsewhereStep DEF Destroy
<1> QED
  BY <1>1, <1>2, <1>3, <1>4 DEF Elsewhere

-----------------------------------------------------------------------------
\* What a request computes from the job it reads.

LEMMA HasJob ==
    ASSUME LimitsInv, NEW r \in Requests, NEW pc, Has(r, pc),
           pc \notin {"idle", "create", "list"}
    PROVE  req[r].id \in Ids /\ Limited(TheJob(r))
BY IdOfRequest DEF Has, TheJob

LEMMA startInv ==
    ASSUME LimitsInv, NEW r \in Requests, start(r)
    PROVE  LimitsInv'
<1>1. PICK t : t = WorkerTimeout(TheJob(r))
  OBVIOUS
<1>2. t \in Timeouts
  BY <1>1, HasJob, ConfigAssumption DEF start, WorkerTimeout, Timeouts, Limited
<1>3. CASE req' = [req EXCEPT ![r].pc = "enqueue", ![r].timeout = t]
  <2> DEFINE c == [req[r] EXCEPT !.pc = "enqueue", !.timeout = t]
  <2>1. IsReq(req[r]) /\ req[r].id \in Ids
    BY HasJob DEF LimitsInv, ReqsInv, start
  <2>2. /\ DOMAIN c = ReqFields /\ c = [f \in ReqFields |-> c[f]]
        /\ c.pc = "enqueue" /\ c.timeout = t /\ c.id = req[r].id
        /\ c.route = req[r].route /\ c.value = req[r].value
    BY <2>1 DEF IsReq, ReqFields
  <2>3. req' = [req EXCEPT ![r] = c]
    BY <1>3
  <2> HIDE DEF c
  <2>4. IsReq(c) /\ c.pc # "create"
    BY <1>2, <2>1, <2>2 DEF IsReq
  <2> QED
    BY <2>3, <2>4, ReqStep DEF start
<1>4. CASE \E a : Respond(r, a)
  BY <1>4, RespondInv DEF start
<1> QED
  BY <1>1, <1>3, <1>4 DEF start

LEMMA enqueueInv ==
    ASSUME LimitsInv, NEW r \in Requests, enqueue(r)
    PROVE  LimitsInv'
<1>1. PICK c : req' = [req EXCEPT ![r] = c] /\ IsReq(c) /\ c.pc # "create"
  BY GotoReq DEF enqueue
<1>2. \A k \in Requests : req'[k] = IF k = r THEN c ELSE req[k]
  BY <1>1 DEF LimitsInv, ReqsInv
<1>3. ReqsInv'
  BY <1>1, <1>2 DEF LimitsInv, ReqsInv, IsReq, Limited, enqueue
<1>4. Creating' \subseteq Creating
  BY <1>1, <1>2 DEF Creating
<1>5. RoomInv'
  BY <1>4, RoomSame DEF LimitsInv, enqueue
<1>6. JobsInv'
  BY DEF LimitsInv, JobsInv, Limited, enqueue
<1>7. SentInv'
  <2>1. req[r].timeout \in Timeouts
    BY DEF enqueue, LimitsInv, ReqsInv, IsReq
  <2> QED
    BY <2>1 DEF enqueue, LimitsInv, SentInv
<1> QED
  BY <1>3, <1>5, <1>6, <1>7 DEF LimitsInv

LEMMA ChangeInv ==
    ASSUME LimitsInv, UNCHANGED <<jobs, created, sent, validators>>,
           NEW r \in Requests, Has(r, "get"), NEW m, Limited(m), Change(r, m),
           req[r].route # "post_execution_duration" =>
             m.execution_duration = TheJob(r).execution_duration,
           req[r].route # "post_destruction" =>
             m.destruction_time = TheJob(r).destruction_time
    PROVE  LimitsInv'
<1>1. PICK old : old = Settings(TheJob(r))
  OBVIOUS
<1>2. CASE \E a : Respond(r, a)
  BY <1>2, RespondInv
<1>3. CASE req' = [req EXCEPT ![r].pc = "update", ![r].metadata = m, ![r].read = old]
  <2> DEFINE c == [req[r] EXCEPT !.pc = "update", !.metadata = m, !.read = old]
  <2>1. IsReq(req[r]) /\ req[r].id \in Ids
    BY HasJob DEF LimitsInv, ReqsInv
  <2>2. /\ DOMAIN c = ReqFields /\ c = [f \in ReqFields |-> c[f]]
        /\ c.pc = "update" /\ c.metadata = m /\ c.read = old /\ c.id = req[r].id
        /\ c.route = req[r].route /\ c.value = req[r].value
    BY <2>1 DEF IsReq, ReqFields
  <2>3. req' = [req EXCEPT ![r] = c]
    BY <1>3
  <2> HIDE DEF c
  <2>4. ChangesOne(c)
    BY <1>1, <2>2 DEF ChangesOne, Settings
  <2>5. IsReq(c) /\ c.pc # "create"
    BY <2>1, <2>2, <2>4 DEF IsReq
  <2> QED
    BY <2>3, <2>5, ReqStep
<1> QED
  BY <1>1, <1>2, <1>3 DEF Change

\* Without a validator, the destruction time can only be brought forward.
LEMMA update_destructionInv ==
    ASSUME LimitsInv, NEW r \in Requests, update_destruction(r)
    PROVE  LimitsInv'
<1>1. PICK t \in IF "destruction" \in validators THEN Times
                 ELSE {Least(req[r].value, TheJob(r).destruction_time)} :
        Change(r, [destruction_time |-> t,
                   execution_duration |-> TheJob(r).execution_duration])
  BY DEF update_destruction
<1>2. Limited(TheJob(r)) /\ req[r].value \in Nat
  BY HasJob, InputAssumption DEF update_destruction, LimitsInv, ReqsInv, IsReq
<1>3. t \in Nat /\ ("destruction" \notin validators => t <= lifetime)
  <2>1. CASE "destruction" \in validators
    BY <1>1, <2>1, InputAssumption
  <2>2. CASE "destruction" \notin validators
    BY <1>1, <1>2, <2>2, ConfigAssumption DEF Limited, Least
  <2> QED
    BY <2>1, <2>2
<1>4. Limited([destruction_time |-> t,
               execution_duration |-> TheJob(r).execution_duration])
  BY <1>2, <1>3 DEF Limited
<1> QED
  BY <1>1, <1>4, ChangeInv DEF update_destruction

LEMMA update_execution_durationInv ==
    ASSUME LimitsInv, NEW r \in Requests, update_execution_duration(r)
    PROVE  LimitsInv'
<1>1. PICK d \in IF "execution_duration" \in validators
                    THEN Durations \intersect Nat ELSE {req[r].value} :
        Change(r, [destruction_time |-> TheJob(r).destruction_time,
                   execution_duration |-> Least(d, execution_duration)])
  BY DEF update_execution_duration
<1>2. Limited(TheJob(r)) /\ req[r].value \in Nat
  BY HasJob, InputAssumption DEF update_execution_duration, LimitsInv, ReqsInv, IsReq
<1>3. Limited([destruction_time |-> TheJob(r).destruction_time,
               execution_duration |-> Least(d, execution_duration)])
  BY <1>1, <1>2, ConfigAssumption DEF Limited, Least
<1> QED
  BY <1>1, <1>3, ChangeInv DEF update_execution_duration

-----------------------------------------------------------------------------
\* The other steps

LEMMA getInv ==
    ASSUME LimitsInv, NEW r \in Requests, get(r)
    PROVE  LimitsInv'
<1>1. PICK u, pc :
        \/ pc \in {"poll", "last"} /\ req' = [req EXCEPT ![r].until_not = u, ![r].pc = pc]
        \/ \E a : Respond(r, a)
  <2>1. PICK u, pc : u = UntilNot(r) /\ pc = IF TheJob(r).phase \in u THEN "poll" ELSE "last"
    OBVIOUS
  <2> QED
    BY <2>1 DEF get, GiveJob
<1>2. CASE pc \in {"poll", "last"} /\ req' = [req EXCEPT ![r].until_not = u, ![r].pc = pc]
  <2> DEFINE c == [req[r] EXCEPT !.until_not = u, !.pc = pc]
  <2>1. IsReq(req[r]) /\ req[r].id \in Ids
    BY HasJob DEF LimitsInv, ReqsInv, get
  <2>2. /\ DOMAIN c = ReqFields /\ c = [f \in ReqFields |-> c[f]]
        /\ c.pc = pc /\ c.id = req[r].id
        /\ c.route = req[r].route /\ c.value = req[r].value
    BY <2>1 DEF IsReq, ReqFields
  <2>3. req' = [req EXCEPT ![r] = c]
    BY <1>2
  <2> HIDE DEF c
  <2>4. IsReq(c) /\ c.pc # "create"
    BY <1>2, <2>1, <2>2 DEF IsReq
  <2> QED
    BY <2>3, <2>4, ReqStep DEF get
<1>3. CASE \E a : Respond(r, a)
  BY <1>3, RespondInv DEF get
<1> QED
  BY <1>1, <1>2, <1>3

LEMMA timeoutInv ==
    ASSUME LimitsInv, NEW r \in Requests, timeout(r)
    PROVE  LimitsInv'
<1>1. PICK w : w = WaitTime(r)
  OBVIOUS
<1> DEFINE c == [req[r] EXCEPT !.pc = "last", !.waited = w]
<1>2. IsReq(req[r]) /\ req[r].id \in Ids
  BY IdOfRequest DEF LimitsInv, ReqsInv, timeout
<1>3. /\ DOMAIN c = ReqFields /\ c = [f \in ReqFields |-> c[f]]
      /\ c.pc = "last" /\ c.id = req[r].id
      /\ c.route = req[r].route /\ c.value = req[r].value
  BY <1>2 DEF IsReq, ReqFields
<1>4. req' = [req EXCEPT ![r] = c]
  BY <1>1 DEF timeout
<1> HIDE DEF c
<1>5. IsReq(c) /\ c.pc # "create"
  BY <1>2, <1>3 DEF IsReq
<1> QED
  BY <1>4, <1>5, ReqStep DEF timeout

\* What update_metadata puts back is what was read.
LEMMA update_metadataKeeps ==
    ASSUME LimitsInv, NEW r \in Requests, update_metadata(r)
    PROVE  LET old == TheJob(r)  new == jobs'[req[r].id]  read == req[r].read IN
           /\ req[r].route # "post_execution_duration"
                /\ new.execution_duration # old.execution_duration
                => /\ old.execution_duration # read.execution_duration
                   /\ new.execution_duration = read.execution_duration
           /\ req[r].route # "post_destruction"
                /\ new.destruction_time # old.destruction_time
                => /\ old.destruction_time # read.destruction_time
                   /\ new.destruction_time = read.destruction_time
<1> DEFINE id == req[r].id
           m == req[r].metadata
           new == jobs'[id]
<1>1. id \in Ids /\ Limited(jobs[id])
  BY IdOfRequest DEF update_metadata, TheJob
<1>2. ChangesOne(req[r])
  BY DEF update_metadata, LimitsInv, ReqsInv, IsReq
<1>3. new = [jobs[id] EXCEPT !.destruction_time = m.destruction_time,
                             !.execution_duration = m.execution_duration]
  BY <1>1 DEF update_metadata, LimitsInv, JobsInv
<1>4. /\ new.destruction_time = m.destruction_time
      /\ new.execution_duration = m.execution_duration
  BY <1>1, <1>3 DEF Limited
<1> QED
  BY <1>2, <1>4 DEF ChangesOne, TheJob

LEMMA StepInv ==
    ASSUME LimitsInv, NEW r \in Requests, Step(r)
    PROVE  LimitsInv'
<1>1. CASE \/ get_jobs(r) \/ request_fails(r) \/ not_found(r)
           \/ from_serialized_job(r) \/ get_text(r) \/ last_get(r)
  BY <1>1, RespondInv
     DEF get_jobs, request_fails, not_found, from_serialized_job, get_text, last_get, GiveJob
<1>2. CASE abort(r)
  BY <1>2, RespondInv, GotoInv DEF abort, Has
<1>3. CASE delete(r) \/ poll(r)
  BY <1>3, GotoInv DEF delete, poll, Has
<1>4. CASE abort_job(r) \/ arq_fails(r)
  BY <1>4, RespondInv, GotoInv DEF abort_job, arq_fails
<1>5. CASE create(r)
  BY <1>5, createInv
<1>6. CASE start(r) \/ enqueue(r) \/ mark_queued(r)
  BY <1>6, startInv, enqueueInv, mark_queuedInv
<1>7. CASE mark_aborted(r) \/ delete_job(r)
  BY <1>7, mark_abortedInv, delete_jobInv
<1>8. CASE update_destruction(r) \/ update_execution_duration(r) \/ update_metadata(r)
  BY <1>8, update_destructionInv, update_execution_durationInv, update_metadataInv
<1>9. CASE get(r)
  BY <1>9, getInv
<1> QED
  BY <1>1, <1>2, <1>3, <1>4, <1>5, <1>6, <1>7, <1>8, <1>9 DEF Step

LEMMA InitInv ==
    ASSUME Init
    PROVE  LimitsInv
<1>1. JobsInv /\ SentInv
  BY DEF Init, JobsInv, SentInv
<1>2. \A r \in Requests : req[r] = Idle
  BY DEF Init
<1>3. ReqsInv
  BY <1>2, IdleIsReq DEF Init, ReqsInv
<1>4. Creating = {}
  BY <1>2, IdleIsReq DEF Creating
<1>5. RoomInv
  BY <1>4, FS_EmptySet, BoundAssumption DEF Init, RoomInv
<1> QED
  BY <1>1, <1>3, <1>5 DEF LimitsInv

LEMMA Inductive ==
    ASSUME LimitsInv, [Next]_vars
    PROVE  LimitsInv'
<1>1. CASE UNCHANGED vars
  BY <1>1 DEF vars, LimitsInv, JobsInv, ReqsInv, IsReq, RoomInv, Creating, SentInv, Limited
<1>2. CASE \E r \in Requests : request(r) \/ Step(r) \/ timeout(r)
  BY <1>2, requestInv, StepInv, timeoutInv
<1>3. CASE \E id \in Ids : Elsewhere(id)
  BY <1>3, ElsewhereInv
<1> QED
  BY <1>1, <1>2, <1>3 DEF Next

\* No request, however many there are and however they are interleaved, gives a
\* job more than the limits or hands a worker a longer timeout.
THEOREM LimitsAlwaysHold == Spec => []LimitsHold
<1>1. Init => LimitsInv
  BY InitInv
<1>2. LimitsInv /\ [Next]_vars => LimitsInv'
  BY Inductive
<1>3. LimitsInv => LimitsHold
  BY DEF LimitsInv, JobsInv, SentInv, Limited, LimitsHold, Timeouts
<1> QED
  BY <1>1, <1>2, <1>3, PTL DEF Spec

\* Whatever changed the job since a request read it, the request puts back what
\* it read and nothing else.
THEOREM UpdatesPutBackWhatWasRead == Spec => UpdateKeepsOther
<1>1. Init => LimitsInv
  BY InitInv
<1>2. LimitsInv /\ [Next]_vars => LimitsInv'
  BY Inductive
<1>3. LimitsInv /\ [Next]_vars =>
        [\A r \in Requests : update_metadata(r) =>
           LET old == TheJob(r)  new == jobs'[req[r].id]  read == req[r].read IN
           /\ req[r].route # "post_execution_duration"
                /\ new.execution_duration # old.execution_duration
                => /\ old.execution_duration # read.execution_duration
                   /\ new.execution_duration = read.execution_duration
           /\ req[r].route # "post_destruction"
                /\ new.destruction_time # old.destruction_time
                => /\ old.destruction_time # read.destruction_time
                   /\ new.destruction_time = read.destruction_time]_vars
  BY update_metadataKeeps
<1> QED
  BY <1>1, <1>2, <1>3, PTL DEF Spec, UpdateKeepsOther

-----------------------------------------------------------------------------
\* Types

Statuses == {0, 200, 303, 404, 422, 500}

\* What a request carries is of these types.  That what a get waits for is a phase of
\* active jobs follows from what it may ask for, and from which requests wait.
Carried(c) ==
    /\ c.route \in Routes \union {"none"}
    /\ c.id \in 0..MaxJobs
    /\ c.pc \in Pcs
    /\ c.until_not \subseteq ACTIVE_PHASES
    /\ c.wait \in Int
    /\ c.waited \in Nat
    /\ c.timeout \in Nat
    /\ c.metadata \in JobUpdateMetadata
    /\ c.read \in JobUpdateMetadata
    /\ c.route = "get" => c.value \in ACTIVE_PHASES \union {"none"}
    /\ c.pc = "wait" => c.route \in {"get", "sync"}

JobsTyped == \A id \in Ids : jobs[id] \in SerializedJob \union {NoJob}
ReqsTyped == \A r \in Requests : Carried(req[r])
AnswerTyped == answer.status \in Statuses
SentTyped == \A info \in sent : info \in [job_id: Ids, timeout: Nat]
FaultsTyped == faults \in 0..MaxFaults /\ validators \in SUBSET Validated

TypesInv == JobsTyped /\ ReqsTyped /\ AnswerTyped /\ SentTyped /\ FaultsTyped

\* Requests and answers

LEMMA IdleIsCarried == Carried(Idle)
BY BoundAssumption DEF Carried, Idle, Pcs, JobUpdateMetadata

LEMMA CarriedStep ==
    ASSUME LimitsInv, ReqsTyped, NEW r \in Requests, NEW c, Carried(c),
           req' = [req EXCEPT ![r] = c]
    PROVE  ReqsTyped'
<1>1. \A k \in Requests : req'[k] = IF k = r THEN c ELSE req[k]
  BY DEF LimitsInv, ReqsInv
<1> QED
  BY <1>1 DEF ReqsTyped

LEMMA RespondTypes ==
    ASSUME LimitsInv, ReqsTyped, NEW r \in Requests, NEW a, Respond(r, a),
           a.status \in Statuses
    PROVE  ReqsTyped' /\ AnswerTyped'
BY IdleIsCarried, CarriedStep DEF Respond, AnswerTyped

LEMMA NoAnswer == answer' = None => AnswerTyped'
BY DEF AnswerTyped, None, Statuses

LEMMA GotoTypes ==
    ASSUME LimitsInv, ReqsTyped, NEW r \in Requests, NEW pc \in Pcs, Goto(r, pc),
           pc = "wait" => req[r].route \in {"get", "sync"}
    PROVE  ReqsTyped' /\ AnswerTyped'
<1> DEFINE c == [req[r] EXCEPT !.pc = pc]
<1>1. IsReq(req[r]) /\ Carried(req[r])
  BY DEF LimitsInv, ReqsInv, ReqsTyped
<1>2. c.pc = pc /\ \A f \in ReqFields \ {"pc"} : c[f] = req[r][f]
  BY <1>1 DEF IsReq, ReqFields
<1>3. req' = [req EXCEPT ![r] = c]
  BY DEF Goto
<1> HIDE DEF c
<1>4. Carried(c)
  BY <1>1, <1>2 DEF Carried, ReqFields
<1> QED
  BY <1>3, <1>4, CarriedStep, NoAnswer DEF Goto

LEMMA ErrorStatus ==
    /\ \A e \in {"UnknownJobError", "DataMissingError", "InvalidPhaseError",
                 "RequestValidationError", "SyncJobTimeoutError", "SyncJobNoResultsError",
                 "WobblyError", "RedisError", "ValidationError", "ValueError"} :
         Error(e).status \in Statuses
    /\ \A body : Ok(body).status \in Statuses
    /\ \A id : SeeOther(id).status \in Statuses
BY DEF Error, status_code, Ok, SeeOther, Statuses

LEMMA SummaryStatus ==
    ASSUME NEW job
    PROVE  get_summary(job).status \in Statuses
BY ErrorStatus DEF get_summary

LEMMA TextStatus ==
    ASSUME NEW job, NEW route \in TextRoutes
    PROVE  Text(route, job).status \in Statuses
<1>1. get_job_results(job).status \in Statuses
  BY SummaryStatus, ErrorStatus DEF get_job_results
<1>2. /\ get_job_destruction(job).status \in Statuses
      /\ get_job_error(job).status \in Statuses
      /\ get_job_execution_duration(job).status \in Statuses
      /\ get_job_owner(job).status \in Statuses
      /\ get_job_parameters(job).status \in Statuses
      /\ get_job_phase(job).status \in Statuses
      /\ get_job_quote(job).status \in Statuses
  BY ErrorStatus
     DEF get_job_destruction, get_job_error, get_job_execution_duration, get_job_owner,
         get_job_parameters, get_job_phase, get_job_quote
<1> QED
  BY <1>1, <1>2 DEF Text, TextRoutes

LEMMA SyncStatus ==
    ASSUME NEW job
    PROVE  SyncAnswer(job).status \in Statuses
BY ErrorStatus DEF SyncAnswer, SyncJobFailedError, Statuses

LEMMA GiveJobTypes ==
    ASSUME LimitsInv, ReqsTyped, NEW r \in Requests, GiveJob(r)
    PROVE  ReqsTyped' /\ AnswerTyped'
<1>1. PICK a : Respond(r, a) /\ a.status \in Statuses
  BY SyncStatus, SummaryStatus DEF GiveJob
<1> QED
  BY <1>1, RespondTypes

-----------------------------------------------------------------------------
\* Jobs

LEMMA JobsTypes ==
    ASSUME LimitsInv, JobsTyped, NEW id \in Ids, NEW job \in SerializedJob \union {NoJob},
           jobs' = [jobs EXCEPT ![id] = job]
    PROVE  JobsTyped'
<1>1. \A i \in Ids : jobs'[i] = IF i = id THEN job ELSE jobs[i]
  BY DEF LimitsInv, JobsInv
<1> QED
  BY <1>1 DEF JobsTyped

LEMMA TheJobIs ==
    ASSUME LimitsInv, JobsTyped, NEW r \in Requests, req[r].pc \notin {"idle", "create", "list"}
    PROVE  req[r].id \in Ids /\ TheJob(r) \in SerializedJob \union {NoJob}
BY IdOfRequest DEF JobsTyped, TheJob

\* A job is the record of its fields.
LEMMA JobFields ==
    ASSUME NEW job
    PROVE  job \in SerializedJob <=>
             /\ job = [phase |-> job.phase, message_id |-> job.message_id,
                       parameters |-> job.parameters,
                       destruction_time |-> job.destruction_time,
                       execution_duration |-> job.execution_duration,
                       quote |-> job.quote, errors |-> job.errors, results |-> job.results]
             /\ job.phase \in Phases /\ job.message_id \in BOOLEAN
             /\ job.parameters \in {"given", "empty"}
             /\ job.destruction_time \in Nat /\ job.execution_duration \in Nat
             /\ job.quote \in Quotes
             /\ job.errors \in {<<>>} \union {<<e>> : e \in JobError}
             /\ job.results \in {<<>>} \union {<<u>> : u \in ResultUrls}
<1> DEFINE Es == {<<>>} \union {<<e>> : e \in JobError}
           Us == {<<>>} \union {<<u>> : u \in ResultUrls}
<1>1. SerializedJob =
        [phase: Phases, message_id: BOOLEAN, parameters: {"given", "empty"},
         destruction_time: Nat, execution_duration: Nat, quote: Quotes,
         errors: Es, results: Us]
  BY DEF SerializedJob
<1> HIDE DEF Es, Us
<1>2. job \in SerializedJob <=>
             /\ job = [phase |-> job.phase, message_id |-> job.message_id,
                       parameters |-> job.parameters,
                       destruction_time |-> job.destruction_time,
                       execution_duration |-> job.execution_duration,
                       quote |-> job.quote, errors |-> job.errors, results |-> job.results]
             /\ job.phase \in Phases /\ job.message_id \in BOOLEAN
             /\ job.parameters \in {"given", "empty"}
             /\ job.destruction_time \in Nat /\ job.execution_duration \in Nat
             /\ job.quote \in Quotes /\ job.errors \in Es /\ job.results \in Us
  BY <1>1
<1> QED
  BY <1>2 DEF Es, Us

LEMMA JobCreateIs ==
    ASSUME NEW parameters \in Parameters, NEW quote \in Quotes
    PROVE  JobCreate(parameters, quote) \in SerializedJob
<1> DEFINE job == JobCreate(parameters, quote)
<1>1. /\ job.phase = "PENDING" /\ job.message_id = FALSE /\ job.parameters = parameters
      /\ job.destruction_time = lifetime /\ job.execution_duration = execution_duration
      /\ job.quote = quote /\ job.errors = <<>> /\ job.results = <<>>
      /\ job = [phase |-> job.phase, message_id |-> job.message_id,
                parameters |-> job.parameters,
                destruction_time |-> job.destruction_time,
                execution_duration |-> job.execution_duration,
                quote |-> job.quote, errors |-> job.errors, results |-> job.results]
  BY DEF JobCreate
<1> HIDE DEF job
<1>2. job.phase \in Phases
  BY <1>1 DEF Phases, ACTIVE_PHASES
<1>3. job \in SerializedJob
  BY <1>1, <1>2, JobFields, ConfigAssumption, InputAssumption
<1> QED
  BY <1>3 DEF job

LEMMA JobChanges ==
    ASSUME NEW job \in SerializedJob
    PROVE  /\ [job EXCEPT !.phase = "QUEUED", !.message_id = TRUE] \in SerializedJob
           /\ [job EXCEPT !.phase = "ABORTED"] \in SerializedJob
           /\ \A t, d \in Nat : [job EXCEPT !.destruction_time = t,
                                            !.execution_duration = d] \in SerializedJob
<1>1. {"QUEUED", "ABORTED"} \subseteq Phases
  BY DEF Phases, ACTIVE_PHASES
<1> QED
  BY <1>1 DEF SerializedJob

\* A message changes the fields it has.
LEMMA MessageTypes ==
    ASSUME LimitsInv, JobsTyped, NEW id \in Ids, NEW fields, Message(id, fields),
           DOMAIN fields \subseteq {"phase", "errors", "results"},
           "phase" \in DOMAIN fields => fields.phase \in Phases,
           "errors" \in DOMAIN fields =>
             fields.errors \in {<<>>} \union {<<e>> : e \in JobError},
           "results" \in DOMAIN fields =>
             fields.results \in {<<>>} \union {<<u>> : u \in ResultUrls}
    PROVE  JobsTyped'
<1>1. PICK old : old = jobs[id]
  OBVIOUS
<1>2. old \in SerializedJob
  BY <1>1 DEF Message, JobsTyped
<1> DEFINE job == [f \in DOMAIN old |-> IF f \in DOMAIN fields THEN fields[f] ELSE old[f]]
<1>3. jobs' = [jobs EXCEPT ![id] = job]
  BY <1>1 DEF Message, LimitsInv, JobsInv
<1>4. DOMAIN old = {"phase", "message_id", "parameters", "destruction_time",
                    "execution_duration", "quote", "errors", "results"}
  BY <1>2 DEF SerializedJob
<1>5. job = [phase |-> job.phase, message_id |-> job.message_id,
             parameters |-> job.parameters, destruction_time |-> job.destruction_time,
             execution_duration |-> job.execution_duration,
             quote |-> job.quote, errors |-> job.errors, results |-> job.results]
  BY <1>4
<1>6. /\ job.message_id = old.message_id /\ job.parameters = old.parameters
      /\ job.destruction_time = old.destruction_time
      /\ job.execution_duration = old.execution_duration /\ job.quote = old.quote
  BY <1>4
<1>7. /\ job.phase = IF "phase" \in DOMAIN fields THEN fields.phase ELSE old.phase
      /\ job.errors = IF "errors" \in DOMAIN fields THEN fields.errors ELSE old.errors
      /\ job.results = IF "results" \in DOMAIN fields THEN fields.results ELSE old.results
  BY <1>4
<1> HIDE DEF job
<1>8. job \in SerializedJob
  BY <1>2, <1>5, <1>6, <1>7, JobFields
<1> QED
  BY <1>3, <1>8, JobsTypes

LEMMA ElsewhereTypes ==
    ASSUME LimitsInv, TypesInv, NEW id \in Ids, Elsewhere(id)
    PROVE  TypesInv'
<1>1. JobsTyped'
  <2>1. CASE JobUpdateExecuting(id)
    <3>1. "EXECUTING" \in Phases
      BY DEF Phases, ACTIVE_PHASES
    <3> QED
      BY <2>1, <3>1, MessageTypes DEF JobUpdateExecuting, TypesInv
  <2>2. CASE JobUpdateCompleted(id)
    <3>1. PICK results \in {<<>>} \union {<<u>> : u \in ResultUrls} :
            Message(id, [phase |-> "COMPLETED", results |-> results])
      BY <2>2 DEF JobUpdateCompleted
    <3>2. "COMPLETED" \in Phases
      BY DEF Phases
    <3> QED
      BY <3>1, <3>2, MessageTypes DEF TypesInv
  <2>3. CASE JobUpdateError(id)
    <3>1. PICK e \in ErrorTypes :
            Message(id, [phase |-> "ERROR", errors |-> <<from_worker_error(e)>>])
      BY <2>3 DEF JobUpdateError
    <3>2. from_worker_error(e) \in JobError
      BY InputAssumption DEF from_worker_error, JobError
    <3>3. "ERROR" \in Phases
      BY DEF Phases
    <3> QED
      BY <3>1, <3>2, <3>3, MessageTypes DEF TypesInv
  <2>4. CASE Destroy(id)
    BY <2>4, JobsTypes DEF Destroy, TypesInv
  <2> QED
    BY <2>1, <2>2, <2>3, <2>4 DEF Elsewhere
<1>2. answer' = None /\ UNCHANGED <<created, sent, req, validators, faults>>
  BY DEF Elsewhere, JobUpdateExecuting, JobUpdateCompleted, JobUpdateError, Destroy, Message
<1> QED
  BY <1>1, <1>2, NoAnswer DEF TypesInv, ReqsTyped, SentTyped, FaultsTyped

-----------------------------------------------------------------------------
\* Steps of requests

LEMMA AskIsCarried ==
    ASSUME NEW route, NEW id \in 0..MaxJobs, NEW value, NEW wait \in Int,
           route = "get" => value \in ACTIVE_PHASES \union {"none"},
           route \in Routes, NEW pc \in Pcs, pc = "wait" => route = "get"
    PROVE  Carried([Ask(route, id, value, wait) EXCEPT !.pc = pc])
BY DEF Ask, Idle, Carried, JobUpdateMetadata

LEMMA AsksCarried ==
    ASSUME NEW ask \in Asks, ask.route \in Routes
    PROVE  Carried([ask EXCEPT !.pc = First(ask)])
<1>1. PICK route, id, value, wait :
        /\ ask = Ask(route, id, value, wait)
        /\ id \in 0..MaxJobs /\ wait \in Int
        /\ route = "get" => value \in ACTIVE_PHASES \union {"none"}
  <2>1. Ids \subseteq 0..MaxJobs /\ 0 \in 0..MaxJobs /\ 0 \in Int
    BY BoundAssumption DEF Ids
  <2>2. CASE ask \in {Ask("availability", 0, 0, 0), Ask("sync", 0, "RUN", 0)}
    BY <2>1, <2>2
  <2>3. CASE ask \in {Ask("create", 0, phase, 0) : phase \in {"RUN", "none"}}
    BY <2>1, <2>3
  <2>4. CASE ask \in {Ask("list", 0, [phases |-> p, after |-> a, count |-> c], 0) :
                        p \in {{}, {"PENDING", "HELD"}}, a \in {0, 1}, c \in {0, 1}}
    BY <2>1, <2>4
  <2>5. CASE ask \in {Ask(route, id, 0, 0) :
                route \in TextRoutes \union {"delete", "delete_via_post"}, id \in Ids}
    BY <2>1, <2>5 DEF TextRoutes
  <2>6. CASE ask \in {Ask("get", id, "none", 0) : id \in Ids}
    BY <2>1, <2>6
  <2>7. CASE ask \in {Ask("get", id, phase, wait) :
                phase \in ACTIVE_PHASES \union {"none"}, id \in Ids, wait \in Waits}
    BY <2>1, <2>7, InputAssumption
  <2>8. CASE ask \in {Ask("post_phase", id, phase, 0) :
                phase \in {"RUN", "ABORT", "none"}, id \in Ids}
    BY <2>1, <2>8
  <2>9. CASE ask \in {Ask("post_destruction", id, t, 0) : t \in Times, id \in Ids}
    BY <2>1, <2>9
  <2>10. CASE ask \in {Ask("post_execution_duration", id, d, 0) : d \in Durations, id \in Ids}
    BY <2>1, <2>10
  <2> QED
    BY <2>2, <2>3, <2>4, <2>5, <2>6, <2>7, <2>8, <2>9, <2>10 DEF Asks
<1>2. ask.route = route
  BY <1>1, AskFields
<1>3. First(ask) \in Pcs /\ (First(ask) = "wait" => route = "get")
  BY <1>2 DEF First, Pcs, StoreCalls
<1> QED
  BY <1>1, <1>2, <1>3, AskIsCarried

LEMMA requestTypes ==
    ASSUME LimitsInv, TypesInv, NEW r \in Requests, request(r)
    PROVE  TypesInv'
<1>1. ReqsTyped' /\ AnswerTyped'
  <2>1. CASE \E a : a.status \in Statuses /\ Respond(r, a)
    BY <2>1, RespondTypes DEF TypesInv
  <2>2. CASE \E ask \in Asks : /\ ask.route \in Routes
                               /\ req' = [req EXCEPT ![r] = [ask EXCEPT !.pc = First(ask)]]
                               /\ answer' = None
    <3>1. PICK ask \in Asks : /\ ask.route \in Routes
                              /\ req' = [req EXCEPT ![r] = [ask EXCEPT !.pc = First(ask)]]
                              /\ answer' = None
      BY <2>2
    <3> QED
      BY <3>1, AsksCarried, CarriedStep, NoAnswer DEF TypesInv
  <2> QED
    BY <2>1, <2>2, ErrorStatus DEF request
<1> QED
  BY <1>1 DEF request, TypesInv, JobsTyped, SentTyped, FaultsTyped

LEMMA createTypes ==
    ASSUME LimitsInv, TypesInv, NEW r \in Requests, create(r)
    PROVE  TypesInv'
<1>1. PICK parameters \in Parameters, quote \in Quotes :
        /\ jobs' = [jobs EXCEPT ![created'] = JobCreate(parameters, quote)]
        /\ \/ Respond(r, Error("ValidationError")) \/ Respond(r, SeeOther(created'))
           \/ /\ req' = [req EXCEPT ![r].id = created', ![r].pc = "get"]
              /\ answer' = None
  BY DEF create
<1>2. req[r].pc = "create" /\ created' = created + 1 /\ UNCHANGED <<sent, validators, faults>>
  BY DEF create
<1>3. PICK n : n = created + 1
  OBVIOUS
<1>4. Cardinality(Creating) # 0
  BY <1>2, CreatingFinite, FS_EmptySet DEF Creating
<1>5. n \in Ids /\ created' = n
  BY <1>2, <1>3, <1>4, CreatingFinite, BoundAssumption DEF LimitsInv, RoomInv, Ids
<1>6. JobsTyped'
  BY <1>1, <1>5, JobCreateIs, JobsTypes DEF TypesInv
<1>7. ReqsTyped' /\ AnswerTyped'
  <2>1. CASE Respond(r, Error("ValidationError")) \/ Respond(r, SeeOther(created'))
    BY <2>1, ErrorStatus, RespondTypes DEF TypesInv
  <2>2. CASE /\ req' = [req EXCEPT ![r].id = created', ![r].pc = "get"]
             /\ answer' = None
    <3> DEFINE c == [req[r] EXCEPT !.id = n, !.pc = "get"]
    <3>1. IsReq(req[r]) /\ Carried(req[r])
      BY DEF LimitsInv, ReqsInv, TypesInv, ReqsTyped
    <3>2. c.pc = "get" /\ c.id = n /\ \A f \in ReqFields \ {"pc", "id"} : c[f] = req[r][f]
      BY <3>1 DEF IsReq, ReqFields
    <3>3. req' = [req EXCEPT ![r] = c]
      BY <1>5, <2>2
    <3> HIDE DEF c
    <3>4. n \in 0..MaxJobs /\ "get" \in Pcs
      BY <1>5 DEF Ids, Pcs, StoreCalls
    <3>5. Carried(c)
      BY <3>1, <3>2, <3>4 DEF Carried, ReqFields
    <3> QED
      BY <2>2, <3>3, <3>5, CarriedStep, NoAnswer DEF TypesInv
  <2> QED
    BY <1>1, <2>1, <2>2
<1> QED
  BY <1>2, <1>6, <1>7 DEF TypesInv, SentTyped, FaultsTyped

\* A step that only goes on with its request.
LEMMA OnlyReq ==
    ASSUME TypesInv, ReqsTyped', AnswerTyped', UNCHANGED <<jobs, sent, validators>>,
           faults' = faults \/ (faults < MaxFaults /\ faults' = faults + 1)
    PROVE  TypesInv'
BY BoundAssumption DEF TypesInv, JobsTyped, SentTyped, FaultsTyped

LEMMA startTypes ==
    ASSUME LimitsInv, TypesInv, NEW r \in Requests, start(r)
    PROVE  TypesInv'
<1>1. PICK t : t = WorkerTimeout(TheJob(r))
  OBVIOUS
<1>2. t \in Nat
  BY <1>1, HasJob, ConfigAssumption DEF start, WorkerTimeout, Limited
<1>3. CASE req' = [req EXCEPT ![r].pc = "enqueue", ![r].timeout = t] /\ answer' = None
  <2> DEFINE c == [req[r] EXCEPT !.pc = "enqueue", !.timeout = t]
  <2>1. IsReq(req[r]) /\ Carried(req[r])
    BY DEF LimitsInv, ReqsInv, TypesInv, ReqsTyped
  <2>2. /\ c.pc = "enqueue" /\ c.timeout = t
        /\ \A f \in ReqFields \ {"pc", "timeout"} : c[f] = req[r][f]
    BY <2>1 DEF IsReq, ReqFields
  <2>3. req' = [req EXCEPT ![r] = c]
    BY <1>3
  <2> HIDE DEF c
  <2>4. Carried(c)
    BY <1>2, <2>1, <2>2 DEF Carried, ReqFields, Pcs
  <2> QED
    BY <1>3, <2>3, <2>4, CarriedStep, NoAnswer, OnlyReq DEF TypesInv, start
<1>4. CASE Respond(r, Error("InvalidPhaseError"))
  BY <1>4, ErrorStatus, RespondTypes, OnlyReq DEF TypesInv, start
<1> QED
  BY <1>1, <1>3, <1>4 DEF start

LEMMA enqueueTypes ==
    ASSUME LimitsInv, TypesInv, NEW r \in Requests, enqueue(r)
    PROVE  TypesInv'
<1>1. ReqsTyped' /\ AnswerTyped'
  BY GotoTypes DEF TypesInv, enqueue, Pcs, StoreCalls
<1>2. SentTyped'
  <2>1. req[r].id \in Ids /\ req[r].timeout \in Nat
    BY IdOfRequest DEF enqueue, TypesInv, ReqsTyped, Carried
  <2> QED
    BY <2>1 DEF enqueue, TypesInv, SentTyped
<1> QED
  BY <1>1, <1>2 DEF enqueue, TypesInv, JobsTyped, FaultsTyped

\* A job changes, and the request goes on.
LEMMA mark_queuedTypes ==
    ASSUME LimitsInv, TypesInv, NEW r \in Requests, mark_queued(r)
    PROVE  TypesInv'
<1>1. PICK id : id = req[r].id
  OBVIOUS
<1>2. PICK old : old = jobs[id]
  OBVIOUS
<1>3. id \in Ids /\ old \in SerializedJob
  BY <1>1, <1>2, TheJobIs DEF mark_queued, TheJob, TypesInv
<1>4. jobs' = [jobs EXCEPT ![id] = [old EXCEPT !.phase = "QUEUED", !.message_id = TRUE]]
  BY <1>1, <1>2, <1>3 DEF mark_queued, LimitsInv, JobsInv
<1>5. JobsTyped'
  BY <1>3, <1>4, JobChanges, JobsTypes DEF TypesInv
<1>6. ReqsTyped' /\ AnswerTyped'
  BY ErrorStatus, RespondTypes, GotoTypes DEF mark_queued, TypesInv, Pcs, StoreCalls
<1> QED
  BY <1>5, <1>6 DEF mark_queued, TypesInv, SentTyped, FaultsTyped

LEMMA mark_abortedTypes ==
    ASSUME LimitsInv, TypesInv, NEW r \in Requests, mark_aborted(r)
    PROVE  TypesInv'
<1>1. PICK id : id = req[r].id
  OBVIOUS
<1>2. PICK old : old = jobs[id]
  OBVIOUS
<1>3. id \in Ids /\ old \in SerializedJob
  BY <1>1, <1>2, TheJobIs DEF mark_aborted, TheJob, TypesInv
<1>4. jobs' = [jobs EXCEPT ![id] = [old EXCEPT !.phase = "ABORTED"]]
  BY <1>1, <1>2, <1>3 DEF mark_aborted, LimitsInv, JobsInv
<1>5. JobsTyped'
  BY <1>3, <1>4, JobChanges, JobsTypes DEF TypesInv
<1>6. ReqsTyped' /\ AnswerTyped'
  BY ErrorStatus, RespondTypes DEF mark_aborted, TypesInv
<1> QED
  BY <1>5, <1>6 DEF mark_aborted, TypesInv, SentTyped, FaultsTyped

LEMMA update_metadataTypes ==
    ASSUME LimitsInv, TypesInv, NEW r \in Requests, update_metadata(r)
    PROVE  TypesInv'
<1>1. PICK id : id = req[r].id
  OBVIOUS
<1>2. PICK old : old = jobs[id]
  OBVIOUS
<1>3. PICK t, d : t = req[r].metadata.destruction_time /\ d = req[r].metadata.execution_duration
  OBVIOUS
<1>4. id \in Ids /\ old \in SerializedJob
  BY <1>1, <1>2, TheJobIs DEF update_metadata, TheJob, TypesInv
<1>5. t \in Nat /\ d \in Nat
  BY <1>3 DEF TypesInv, ReqsTyped, Carried, JobUpdateMetadata
<1>6. jobs' = [jobs EXCEPT ![id] = [old EXCEPT !.destruction_time = t,
                                               !.execution_duration = d]]
  BY <1>1, <1>2, <1>3, <1>4 DEF update_metadata, LimitsInv, JobsInv
<1>7. JobsTyped'
  BY <1>4, <1>5, <1>6, JobChanges, JobsTypes DEF TypesInv
<1>8. ReqsTyped' /\ AnswerTyped'
  BY ErrorStatus, RespondTypes DEF update_metadata, TypesInv
<1> QED
  BY <1>7, <1>8 DEF update_metadata, TypesInv, SentTyped, FaultsTyped

LEMMA delete_jobTypes ==
    ASSUME LimitsInv, TypesInv, NEW r \in Requests, delete_job(r)
    PROVE  TypesInv'
<1>1. req[r].id \in Ids
  BY IdOfRequest DEF delete_job
<1>2. JobsTyped'
  BY <1>1, JobsTypes DEF delete_job, TypesInv
<1>3. ReqsTyped' /\ AnswerTyped'
  BY ErrorStatus, RespondTypes DEF delete_job, TypesInv
<1> QED
  BY <1>2, <1>3 DEF delete_job, TypesInv, SentTyped, FaultsTyped

LEMMA ChangeTypes ==
    ASSUME LimitsInv, TypesInv, UNCHANGED <<jobs, sent, validators, faults>>,
           NEW r \in Requests, Has(r, "get"), NEW m \in JobUpdateMetadata, Change(r, m)
    PROVE  TypesInv'
<1>1. PICK old : old = Settings(TheJob(r))
  OBVIOUS
<1>2. old \in JobUpdateMetadata
  BY <1>1, HasJob DEF Settings, JobUpdateMetadata, Limited
<1>3. CASE Respond(r, SeeOther(req[r].id))
  BY <1>3, ErrorStatus, RespondTypes, OnlyReq DEF TypesInv
<1>4. CASE /\ req' = [req EXCEPT ![r].pc = "update", ![r].metadata = m, ![r].read = old]
           /\ answer' = None
  <2> DEFINE c == [req[r] EXCEPT !.pc = "update", !.metadata = m, !.read = old]
  <2>1. IsReq(req[r]) /\ Carried(req[r])
    BY DEF LimitsInv, ReqsInv, TypesInv, ReqsTyped
  <2>2. /\ c.pc = "update" /\ c.metadata = m /\ c.read = old
        /\ \A f \in ReqFields \ {"pc", "metadata", "read"} : c[f] = req[r][f]
    BY <2>1 DEF IsReq, ReqFields
  <2>3. req' = [req EXCEPT ![r] = c]
    BY <1>4
  <2> HIDE DEF c
  <2>4. Carried(c)
    BY <1>2, <2>1, <2>2 DEF Carried, ReqFields, Pcs, StoreCalls
  <2> QED
    BY <1>4, <2>3, <2>4, CarriedStep, NoAnswer, OnlyReq DEF TypesInv
<1> QED
  BY <1>1, <1>3, <1>4 DEF Change

LEMMA update_destructionTypes ==
    ASSUME LimitsInv, TypesInv, NEW r \in Requests, update_destruction(r)
    PROVE  TypesInv'
<1>1. PICK t \in IF "destruction" \in validators THEN Times
                 ELSE {Least(req[r].value, TheJob(r).destruction_time)} :
        Change(r, [destruction_time |-> t,
                   execution_duration |-> TheJob(r).execution_duration])
  BY DEF update_destruction
<1>2. Limited(TheJob(r)) /\ req[r].value \in Nat
  BY HasJob, InputAssumption DEF update_destruction, LimitsInv, ReqsInv, IsReq
<1>3. t \in Nat
  BY <1>1, <1>2, InputAssumption DEF Limited, Least
<1>4. [destruction_time |-> t, execution_duration |-> TheJob(r).execution_duration]
        \in JobUpdateMetadata
  BY <1>2, <1>3 DEF Limited, JobUpdateMetadata
<1> QED
  BY <1>1, <1>4, ChangeTypes DEF update_destruction

LEMMA update_execution_durationTypes ==
    ASSUME LimitsInv, TypesInv, NEW r \in Requests, update_execution_duration(r)
    PROVE  TypesInv'
<1>1. PICK d \in IF "execution_duration" \in validators
                    THEN Durations \intersect Nat ELSE {req[r].value} :
        Change(r, [destruction_time |-> TheJob(r).destruction_time,
                   execution_duration |-> Least(d, execution_duration)])
  BY DEF update_execution_duration
<1>2. Limited(TheJob(r)) /\ req[r].value \in Nat
  BY HasJob, InputAssumption DEF update_execution_duration, LimitsInv, ReqsInv, IsReq
<1>3. [destruction_time |-> TheJob(r).destruction_time,
       execution_duration |-> Least(d, execution_duration)] \in JobUpdateMetadata
  BY <1>1, <1>2, ConfigAssumption DEF Limited, Least, JobUpdateMetadata
<1> QED
  BY <1>1, <1>3, ChangeTypes DEF update_execution_duration

\* What a get waits for is a phase of active jobs.
LEMMA getTypes ==
    ASSUME LimitsInv, TypesInv, NEW r \in Requests, get(r)
    PROVE  TypesInv'
<1>1. PICK u, pc : u = UntilNot(r) /\ pc = IF TheJob(r).phase \in u THEN "poll" ELSE "last"
  OBVIOUS
<1>2. CASE GiveJob(r)
  BY <1>2, GiveJobTypes, OnlyReq DEF TypesInv, get
<1>3. CASE /\ TheJob(r).phase \in ACTIVE_PHASES
           /\ req' = [req EXCEPT ![r].until_not = u, ![r].pc = pc]
           /\ answer' = None
  <2> DEFINE c == [req[r] EXCEPT !.until_not = u, !.pc = pc]
  <2>1. IsReq(req[r]) /\ Carried(req[r])
    BY DEF LimitsInv, ReqsInv, TypesInv, ReqsTyped
  <2>2. u \subseteq ACTIVE_PHASES
    BY <1>1, <1>3, <2>1 DEF UntilNot, Carried, get, Has
  <2>3. pc \in Pcs /\ pc # "wait"
    BY <1>1 DEF Pcs, StoreCalls
  <2>4. /\ c.pc = pc /\ c.until_not = u
        /\ \A f \in ReqFields \ {"pc", "until_not"} : c[f] = req[r][f]
    BY <2>1 DEF IsReq, ReqFields
  <2>5. req' = [req EXCEPT ![r] = c]
    BY <1>3
  <2> HIDE DEF c
  <2>6. Carried(c)
    BY <2>1, <2>2, <2>3, <2>4 DEF Carried, ReqFields
  <2> QED
    BY <1>3, <2>5, <2>6, CarriedStep, NoAnswer, OnlyReq DEF TypesInv, get
<1> QED
  BY <1>1, <1>2, <1>3 DEF get

LEMMA timeoutTypes ==
    ASSUME LimitsInv, TypesInv, NEW r \in Requests, timeout(r)
    PROVE  TypesInv'
<1>1. PICK w : w = WaitTime(r)
  OBVIOUS
<1> DEFINE c == [req[r] EXCEPT !.pc = "last", !.waited = w]
<1>2. IsReq(req[r]) /\ Carried(req[r])
  BY DEF LimitsInv, ReqsInv, TypesInv, ReqsTyped
<1>3. w \in Nat
  <2>1. WaitSeconds(r) \in Int
    BY <1>2, ConfigAssumption DEF WaitSeconds, Carried
  <2> QED
    BY <1>1, <2>1, ConfigAssumption DEF WaitTime, Least
<1>4. /\ c.pc = "last" /\ c.waited = w
      /\ \A f \in ReqFields \ {"pc", "waited"} : c[f] = req[r][f]
  BY <1>2 DEF IsReq, ReqFields
<1>5. req' = [req EXCEPT ![r] = c]
  BY <1>1 DEF timeout
<1> HIDE DEF c
<1>6. Carried(c)
  BY <1>2, <1>3, <1>4 DEF Carried, ReqFields, Pcs, StoreCalls
<1> QED
  BY <1>5, <1>6, CarriedStep, NoAnswer, OnlyReq DEF TypesInv, timeout

LEMMA StepTypes ==
    ASSUME LimitsInv, TypesInv, NEW r \in Requests, Step(r)
    PROVE  TypesInv'
<1>1. CASE \/ get_jobs(r) \/ request_fails(r) \/ not_found(r) \/ from_serialized_job(r)
  BY <1>1, ErrorStatus, RespondTypes, OnlyReq
     DEF TypesInv, get_jobs, request_fails, not_found, from_serialized_job
<1>2. CASE get_text(r)
  BY <1>2, TextStatus, RespondTypes, OnlyReq DEF TypesInv, get_text
<1>3. CASE last_get(r)
  BY <1>3, GiveJobTypes, OnlyReq DEF TypesInv, last_get
<1>4. CASE abort(r) \/ delete(r) \/ poll(r)
  BY <1>4, ErrorStatus, RespondTypes, GotoTypes, OnlyReq
     DEF TypesInv, abort, delete, poll, Pcs, StoreCalls
<1>5. CASE abort_job(r) \/ arq_fails(r)
  BY <1>5, ErrorStatus, RespondTypes, GotoTypes, OnlyReq
     DEF TypesInv, abort_job, arq_fails, Pcs, StoreCalls
<1> QED
  BY <1>1, <1>2, <1>3, <1>4, <1>5, createTypes, startTypes, enqueueTypes, mark_queuedTypes,
     mark_abortedTypes, delete_jobTypes, update_destructionTypes,
     update_execution_durationTypes, update_metadataTypes, getTypes DEF Step

LEMMA TypesStep ==
    ASSUME LimitsInv, TypesInv, [Next]_vars
    PROVE  TypesInv'
<1>1. CASE UNCHANGED vars
  BY <1>1 DEF vars, TypesInv, JobsTyped, ReqsTyped, AnswerTyped, SentTyped, FaultsTyped
<1>2. CASE \E r \in Requests : request(r) \/ Step(r) \/ timeout(r)
  BY <1>2, requestTypes, StepTypes, timeoutTypes
<1>3. CASE \E id \in Ids : Elsewhere(id)
  BY <1>3, ElsewhereTypes
<1> QED
  BY <1>1, <1>2, <1>3 DEF Next

\* The variables have their types: whatever requests and workers do to it at the same
\* time, a job in Wobbly is one that it can hold, and every answer has a status of the
\* service (_storage.py, _handlers.py, _exceptions.py).
THEOREM ApiTypes == Spec => []TypeOK
<1>1. Init => TypesInv
  <2> SUFFICES ASSUME Init
               PROVE  TypesInv
    OBVIOUS
  <2>1. JobsTyped /\ SentTyped /\ FaultsTyped
    BY BoundAssumption DEF Init, JobsTyped, SentTyped, FaultsTyped
  <2>2. ReqsTyped
    BY IdleIsCarried DEF Init, ReqsTyped
  <2>3. AnswerTyped
    BY DEF Init, AnswerTyped, None, Statuses
  <2> QED
    BY <2>1, <2>2, <2>3 DEF TypesInv
<1>2. LimitsInv /\ [Next]_vars => LimitsInv'
  BY Inductive
<1>3. LimitsInv /\ TypesInv /\ [Next]_vars => TypesInv'
  BY TypesStep
<1>4. LimitsInv /\ TypesInv => TypeOK
  <2> SUFFICES ASSUME LimitsInv, TypesInv
               PROVE  TypeOK
    OBVIOUS
  <2>1. jobs \in [Ids -> SerializedJob \union {NoJob}]
    BY DEF LimitsInv, JobsInv, TypesInv, JobsTyped
  <2>2. created \in 0..MaxJobs
    BY CreatingFinite, BoundAssumption DEF LimitsInv, RoomInv
  <2>3. sent \in SUBSET [job_id: Ids, timeout: Nat]
    BY DEF TypesInv, SentTyped
  <2> QED
    BY <2>1, <2>2, <2>3
       DEF TypeOK, TypesInv, ReqsTyped, Carried, AnswerTyped, Statuses, FaultsTyped
<1>5. Init => LimitsInv
  BY InitInv
<1> QED
  BY <1>1, <1>2, <1>3, <1>4, <1>5, PTL DEF Spec

=============================================================================
