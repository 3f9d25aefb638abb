---------------------------- MODULE UWSJobsProofs ----------------------------
(***************************************************************************)
(* Where the records of UWS jobs come from, for any number of jobs,        *)
(* requests, workers and messages, and with no timing assumed.             *)
(*                                                                         *)
(* Requests and messages carry identifiers that they read before an await. *)
(* They stay true because arq never forgets or changes what it was given:  *)
(* an arq job is for one UWS job (Known), its result once there is kept,   *)
(* and one worker at a time runs it (Grows).  The invariant says of each   *)
(* actor what it knows at each await.                                      *)
(***************************************************************************)
EXTENDS UWSJobs, TLAPS

Job == [phase : Phases \union {"NONE", "DELETED"},
        message_id : ArqIds \union {None},
        results : ArqIds \union {None},
        errors : ArqIds \union {None, "unavailable"}]
ArqJob == [status : {"none", "queued", "running", "complete"},
           job : Jobs \union {None},
           result : {None, "ok", "empty", "error", "cancelled"},
           abort : BOOLEAN,
           runs : 0..MaxRuns]
Worker == [pc : {"idle", "begin", "executing", "finally", "return"},
           arq : ArqIds \union {None},
           outcome : {None, "ok", "empty", "error", "cancelled", "again"}]
Task == [pc : {"none", "queued", "polling", "record", "done"},
         msg : ArqIds \union {None},
         res : {None, "ok", "empty", "error", "cancelled", "unavailable"}]
Request == [op : AllOps \union {None},
            job : Jobs \union {None},
            pc : {"idle", "start", "enqueue", "mark_queued", "abort", "delete",
                  "stop", "stopping", "mark_aborted", "remove", "get", "poll",
                  "last_get", "done"},
            msg : ArqIds \union {None},
            out : {None, "ok", "refused", "unknown", "error", "wobbly",
                   "result", "timeout", "failed", "no_results"}]

Typed ==
    /\ store \in [Jobs -> Job]
    /\ arq \in [ArqIds -> ArqJob]
    /\ worker \in [Workers -> Worker]
    /\ task \in [Tasks -> Task]
    /\ req \in [Requests -> Request]
    /\ faults \in 0..MaxFaults

\* The arq job was enqueued for the UWS job.
Known(id, j) == id \in ArqIds /\ arq[id].status # "none" /\ arq[id].job = j

Sent(id, n, kind) == task[<<id, n, kind>>].pc # "none"

\* The record has the identifier of an arq job, or is gone.
Marked(j) == store[j].message_id # None \/ store[j].phase = "DELETED"

JobInv(j) ==
    /\ store[j].message_id # None => Known(store[j].message_id, j)
    /\ store[j].results # None =>
         Known(store[j].results, j) /\ arq[store[j].results].result = "ok"
    /\ store[j].errors \in ArqIds =>
         Known(store[j].errors, j) /\ arq[store[j].errors].result = "error"
    /\ store[j].phase \in {"QUEUED", "COMPLETED", "ERROR"} => store[j].message_id # None

ArqInv(a) ==
    /\ arq[a].status # "none" => arq[a].job \in Jobs
    /\ arq[a].status \in {"none", "queued"} => arq[a].runs < MaxRuns
    /\ arq[a].status = "running" => arq[a].runs \in 1..MaxRuns
    /\ arq[a].result # None => arq[a].status = "complete"
    /\ arq[a].result \in {"ok", "empty", "error"} => arq[a].runs \in 1..MaxRuns
    /\ arq[a].result \in {"ok", "empty"} =>
         /\ Sent(a, arq[a].runs, "started") /\ Sent(a, arq[a].runs, "completed")

WorkerInv(w) ==
    worker[w].pc # "idle" =>
        /\ worker[w].arq \in ArqIds
        /\ arq[worker[w].arq].status = "running"
        /\ worker[w].outcome = "again" => arq[worker[w].arq].runs < MaxRuns
        /\ \/ worker[w].pc \in {"executing", "finally"}
           \/ worker[w].pc = "return" /\ worker[w].outcome \in {"ok", "empty"}
           => Sent(worker[w].arq, arq[worker[w].arq].runs, "started")
        /\ worker[w].pc = "return" /\ worker[w].outcome \in {"ok", "empty"}
           => Sent(worker[w].arq, arq[worker[w].arq].runs, "completed")

\* One worker runs an arq job.
Exclusive ==
    \A w, v \in Workers :
        /\ worker[w].pc # "idle" /\ worker[v].pc # "idle"
        /\ worker[w].arq = worker[v].arq
        => w = v

TaskInv(t) ==
    /\ task[t].pc # "none" => arq[t[1]].status # "none"
    /\ task[t].pc \in {"polling", "record"} =>
         Known(task[t].msg, arq[t[1]].job) /\ Marked(arq[t[1]].job)
    /\ task[t].pc = "record" /\ task[t].res # "unavailable" =>
         arq[task[t].msg].status = "complete" /\ arq[task[t].msg].result = task[t].res

RequestInv(r) ==
    /\ req[r].pc # "idle" => req[r].job \in Jobs
    /\ req[r].pc = "mark_queued" => Known(req[r].msg, req[r].job)
    /\ req[r].pc = "stop" => req[r].msg \in ArqIds
    /\ req[r].out = "result" =>
         /\ req[r].pc = "done"
         /\ Known(req[r].msg, req[r].job) /\ arq[req[r].msg].result = "ok"

UWSInv ==
    /\ Typed
    /\ \A j \in Jobs : JobInv(j)
    /\ \A a \in ArqIds : ArqInv(a)
    /\ \A w \in Workers : WorkerInv(w)
    /\ Exclusive
    /\ \A t \in Tasks : TaskInv(t)
    /\ \A r \in Requests : RequestInv(r)

-----------------------------------------------------------------------------
\* What every step keeps.

Grows ==
    /\ \A a \in ArqIds : arq[a].status # "none" =>
         arq'[a].status # "none" /\ arq'[a].job = arq[a].job
    /\ \A a \in ArqIds : arq[a].status = "complete" =>
         /\ arq'[a].status = "complete"
         /\ arq'[a].result = arq[a].result /\ arq'[a].runs = arq[a].runs
    /\ \A t \in Tasks : task[t].pc # "none" => task'[t].pc # "none"

Marks == \A j \in Jobs : Marked(j) => Marked(j)'

LEMMA KnownKept ==
    ASSUME Grows, NEW id, NEW j, Known(id, j)
    PROVE  Known(id, j)'
BY DEF Grows, Known

LEMMA ResultKept ==
    ASSUME Grows, NEW id \in ArqIds, ArqInv(id), arq[id].result # None
    PROVE  arq'[id].result = arq[id].result
BY DEF Grows, ArqInv

\* What a record says stays true.
LEMMA RecordKept ==
    ASSUME UWSInv, Grows, NEW j \in Jobs, NEW old, old = store[j]
    PROVE  /\ old.message_id # None => Known(old.message_id, j)'
           /\ old.results # None => Known(old.results, j)' /\ arq'[old.results].result = "ok"
           /\ old.errors \in ArqIds =>
                Known(old.errors, j)' /\ arq'[old.errors].result = "error"
<1>1. JobInv(j)
  BY DEF UWSInv
<1>2. old.message_id # None => Known(old.message_id, j)'
  BY <1>1, KnownKept DEF JobInv
<1>3. old.results # None => Known(old.results, j)' /\ arq'[old.results].result = "ok"
  BY <1>1, KnownKept, ResultKept, NoneAssumption DEF JobInv, Known, UWSInv
<1>4. old.errors \in ArqIds => Known(old.errors, j)' /\ arq'[old.errors].result = "error"
  BY <1>1, KnownKept, ResultKept, NoneAssumption DEF JobInv, Known, UWSInv
<1> QED
  BY <1>2, <1>3, <1>4

LEMMA JobKept ==
    ASSUME UWSInv, Grows, NEW j \in Jobs, store'[j] = store[j]
    PROVE  JobInv(j)'
<1>1. PICK old : old = store[j] /\ old = store'[j]
  OBVIOUS
<1>2. JobInv(j)
  BY DEF UWSInv
<1> QED
  BY <1>1, <1>2, RecordKept DEF JobInv, Known

LEMMA RequestKept ==
    ASSUME UWSInv, Grows, NEW r \in Requests, req'[r] = req[r]
    PROVE  RequestInv(r)'
<1>1. RequestInv(r)
  BY DEF UWSInv
<1>2. req[r].pc = "mark_queued" => Known(req[r].msg, req[r].job)'
  BY <1>1, KnownKept DEF RequestInv
<1>3. req[r].out = "result" =>
        Known(req[r].msg, req[r].job)' /\ arq'[req[r].msg].result = "ok"
  BY <1>1, KnownKept, ResultKept, NoneAssumption DEF RequestInv, Known, UWSInv
<1> QED
  BY <1>1, <1>2, <1>3 DEF RequestInv, Known

LEMMA TaskKept ==
    ASSUME UWSInv, Grows, Marks, NEW t \in Tasks, task'[t] = task[t]
    PROVE  TaskInv(t)'
<1>1. TaskInv(t) /\ t[1] \in ArqIds
  BY DEF UWSInv, Tasks
<1>2. task[t].pc # "none" => arq'[t[1]].status # "none" /\ arq'[t[1]].job = arq[t[1]].job
  BY <1>1 DEF TaskInv, Grows
<1>3. task[t].pc \in {"polling", "record"} => Known(task[t].msg, arq[t[1]].job)'
  BY <1>1, <1>2, KnownKept DEF TaskInv, Known, Grows
<1>4. task[t].pc = "record" /\ task[t].res # "unavailable" =>
        arq'[task[t].msg].status = "complete" /\ arq'[task[t].msg].result = task[t].res
  BY <1>1 DEF TaskInv, Grows, Known
<1>5. PICK j : j = arq[t[1]].job
  OBVIOUS
<1>6. task[t].pc \in {"polling", "record"} => j \in Jobs /\ Marked(j)'
  BY <1>1, <1>5 DEF TaskInv, Marks, UWSInv, ArqInv
<1> QED
  BY <1>1, <1>2, <1>3, <1>4, <1>5, <1>6 DEF TaskInv, Known, Marked

LEMMA SentKept ==
    ASSUME Grows, NEW id \in ArqIds, NEW n \in 1..MaxRuns, NEW kind \in {"started", "completed"},
           Sent(id, n, kind)
    PROVE  Sent(id, n, kind)'
<1>1. <<id, n, kind>> \in Tasks
  BY DEF Tasks
<1> QED
  BY <1>1 DEF Grows, Sent

\* A job of arq on which nothing but an abort is asked for.
LEMMA ArqKept ==
    ASSUME UWSInv, Grows, NEW a \in ArqIds,
           arq'[a].status = arq[a].status, arq'[a].job = arq[a].job,
           arq'[a].result = arq[a].result, arq'[a].runs = arq[a].runs
    PROVE  ArqInv(a)'
<1>1. ArqInv(a)
  BY DEF UWSInv
<1>2. arq[a].result \in {"ok", "empty"} =>
        Sent(a, arq[a].runs, "started")' /\ Sent(a, arq[a].runs, "completed")'
  BY <1>1, SentKept DEF ArqInv
<1> QED
  BY <1>1, <1>2 DEF ArqInv, Sent

LEMMA WorkerKept ==
    ASSUME UWSInv, Grows, NEW w \in Workers, worker'[w] = worker[w],
           worker[w].pc # "idle" =>
             /\ arq'[worker[w].arq].status = arq[worker[w].arq].status
             /\ arq'[worker[w].arq].runs = arq[worker[w].arq].runs
    PROVE  WorkerInv(w)'
<1> SUFFICES ASSUME worker[w].pc # "idle"
             PROVE  WorkerInv(w)'
  BY DEF WorkerInv
<1> DEFINE id == worker[w].arq
           n == arq[id].runs
<1>1. WorkerInv(w) /\ id \in ArqIds
  BY DEF UWSInv, WorkerInv
<1>2. n \in 1..MaxRuns
  BY <1>1 DEF UWSInv, WorkerInv, ArqInv
<1>3. \A kind \in {"started", "completed"} : Sent(id, n, kind) => task'[<<id, n, kind>>].pc # "none"
  BY <1>1, <1>2, SentKept DEF Sent
<1> QED
  BY <1>1, <1>2, <1>3 DEF WorkerInv, Sent

\* A step that changes nothing but the request.
LEMMA RequestOnly ==
    ASSUME UWSInv, UNCHANGED <<store, arq, worker, task>>, faults' \in 0..MaxFaults,
           NEW r \in Requests, NEW c \in Request, req' = [req EXCEPT ![r] = c], RequestInv(r)'
    PROVE  UWSInv'
<1>1. Grows /\ Marks
  BY DEF Grows, Marks, Marked
<1>2. Typed'
  BY DEF UWSInv, Typed
<1>3. \A k \in Requests : RequestInv(k)'
  BY <1>1, RequestKept DEF UWSInv, Typed
<1>4. /\ \A j \in Jobs : JobInv(j)'
      /\ \A a \in ArqIds : ArqInv(a)'
      /\ \A w \in Workers : WorkerInv(w)'
      /\ \A t \in Tasks : TaskInv(t)'
  BY <1>1, JobKept, ArqKept, WorkerKept, TaskKept
<1>5. Exclusive'
  BY DEF UWSInv, Exclusive
<1> QED
  BY <1>2, <1>3, <1>4, <1>5 DEF UWSInv

LEMMA RequestTyped ==
    ASSUME UWSInv, NEW r \in Requests
    PROVE  req[r] \in Request /\ RequestInv(r)
BY DEF UWSInv, Typed

\* A request that is under way goes on, or is answered without a result.
LEMMA GotoRequest ==
    ASSUME UWSInv, NEW r \in Requests, req[r].pc \notin {"idle", "done"},
           NEW pc \in {"enqueue", "stopping", "mark_aborted", "remove", "get", "poll",
                       "last_get", "done"},
           NEW out \in {"ok", "refused", "unknown", "error", "wobbly", "timeout", "failed",
                        "no_results"},
           Goto(r, pc) \/ Return(r, out)
    PROVE  /\ \E c \in Request : req' = [req EXCEPT ![r] = c]
           /\ RequestInv(r)'
<1>1. req \in [Requests -> Request] /\ req[r].job \in Jobs /\ req[r].out # "result"
  BY DEF UWSInv, Typed, RequestInv
<1>2. CASE Goto(r, pc)
  <2> DEFINE c == [req[r] EXCEPT !.pc = pc]
  <2>1. c \in Request /\ c.job = req[r].job /\ c.out = req[r].out /\ c.pc = pc
    BY <1>1 DEF Request
  <2>2. req' = [req EXCEPT ![r] = c] /\ req'[r] = c
    BY <1>1, <1>2 DEF Goto
  <2> HIDE DEF c
  <2> QED
    BY <1>1, <2>1, <2>2 DEF RequestInv
<1>3. CASE Return(r, out)
  <2> DEFINE c == [req[r] EXCEPT !.pc = "done", !.out = out]
  <2>1. c \in Request /\ c.job = req[r].job /\ c.out = out /\ c.pc = "done"
    BY <1>1 DEF Request
  <2>2. req' = [req EXCEPT ![r] = c] /\ req'[r] = c
    BY <1>1, <1>3 DEF Return
  <2> HIDE DEF c
  <2> QED
    BY <1>1, <2>1, <2>2 DEF RequestInv
<1> QED
  BY <1>2, <1>3

LEMMA GotoInv ==
    ASSUME UWSInv, NEW r \in Requests, req[r].pc \notin {"idle", "done"},
           NEW pc \in {"enqueue", "stopping", "mark_aborted", "remove", "get", "poll",
                       "last_get", "done"},
           NEW out \in {"ok", "refused", "unknown", "error", "wobbly", "timeout", "failed",
                        "no_results"},
           Goto(r, pc) \/ Return(r, out),
           UNCHANGED <<store, arq, worker, task>>, faults' \in 0..MaxFaults
    PROVE  UWSInv'
BY GotoRequest, RequestOnly

LEMMA FaultsInv == ASSUME UWSInv PROVE faults \in 0..MaxFaults
BY DEF UWSInv, Typed

LEMMA RequestForInv ==
    ASSUME UWSInv, NEW r \in Requests, RequestFor(r)
    PROVE  UWSInv'
<1>1. PICK op \in Ops \intersect {"start", "abort", "delete"}, j \in Jobs :
        req' = [req EXCEPT ![r] = [op |-> op, job |-> j, pc |-> op, msg |-> None, out |-> None]]
  BY DEF RequestFor
<1> DEFINE c == [op |-> op, job |-> j, pc |-> op, msg |-> None, out |-> None]
<1>2. /\ c \in Request /\ c.job \in Jobs /\ c.out # "result"
      /\ c.pc \notin {"idle", "mark_queued", "stop"}
  BY NoneAssumption DEF Request, AllOps
<1> HIDE DEF c
<1>3. req' = [req EXCEPT ![r] = c] /\ req'[r] = c
  BY <1>1 DEF c, UWSInv, Typed
<1>4. RequestInv(r)'
  BY <1>2, <1>3 DEF RequestInv
<1> QED
  BY <1>2, <1>3, <1>4, RequestOnly, FaultsInv DEF RequestFor

LEMMA start_checkInv ==
    ASSUME UWSInv, NEW r \in Requests, start_check(r)
    PROVE  UWSInv'
BY GotoInv, FaultsInv DEF start_check

\* abort and delete read the job's message_id.
LEMMA StopInv ==
    ASSUME UWSInv, NEW r \in Requests, req[r].pc \notin {"idle", "done"},
           NEW pc \in {"stop", "mark_aborted", "remove"},
           pc = "stop" => store[req[r].job].message_id # None,
           req' = [req EXCEPT ![r].msg = store[req[r].job].message_id, ![r].pc = pc],
           UNCHANGED <<store, arq, worker, task, faults>>
    PROVE  UWSInv'
<1> DEFINE id == store[req[r].job].message_id
           c == [req[r] EXCEPT !.msg = id, !.pc = pc]
<1>1. req[r] \in Request /\ req[r].job \in Jobs /\ req[r].out # "result"
  BY RequestTyped DEF RequestInv
<1>2. id \in ArqIds \union {None}
  BY <1>1 DEF UWSInv, Typed, Job
<1> HIDE DEF id
<1>3. c \in Request /\ c.job = req[r].job /\ c.out = req[r].out /\ c.pc = pc /\ c.msg = id
  BY <1>1, <1>2 DEF Request
<1>4. req' = [req EXCEPT ![r] = c] /\ req'[r] = c /\ (pc = "stop" => id # None)
  BY DEF UWSInv, Typed, id
<1> HIDE DEF c
<1>5. RequestInv(r)'
  BY <1>1, <1>2, <1>3, <1>4 DEF RequestInv
<1> QED
  BY <1>3, <1>4, <1>5, RequestOnly, FaultsInv

LEMMA abort_checkInv ==
    ASSUME UWSInv, NEW r \in Requests, abort_check(r)
    PROVE  UWSInv'
<1>1. req[r].pc \notin {"idle", "done"} /\ UNCHANGED <<store, arq, worker, task, faults>>
  BY DEF abort_check
<1>2. CASE Return(r, "refused")
  BY <1>1, <1>2, GotoInv, FaultsInv
<1>3. ASSUME NEW pc \in {"stop", "mark_aborted", "remove"},
             pc = "stop" => store[req[r].job].message_id # None,
             req' = [req EXCEPT ![r].msg = store[req[r].job].message_id, ![r].pc = pc]
      PROVE  UWSInv'
  BY <1>1, <1>3, StopInv
<1> QED
  BY <1>2, <1>3 DEF abort_check

LEMMA delete_checkInv ==
    ASSUME UWSInv, NEW r \in Requests, delete_check(r)
    PROVE  UWSInv'
<1>1. req[r].pc \notin {"idle", "done"} /\ UNCHANGED <<store, arq, worker, task, faults>>
  BY DEF delete_check
<1>2. CASE Return(r, "unknown")
  BY <1>1, <1>2, GotoInv, FaultsInv
<1>3. ASSUME NEW pc \in {"stop", "mark_aborted", "remove"},
             pc = "stop" => store[req[r].job].message_id # None,
             req' = [req EXCEPT ![r].msg = store[req[r].job].message_id, ![r].pc = pc]
      PROVE  UWSInv'
  BY <1>1, <1>3, StopInv
<1> QED
  BY <1>2, <1>3 DEF delete_check

LEMMA StoppedInv ==
    ASSUME UWSInv, NEW r \in Requests, abort_job_returns(r) \/ abort_job_times_out(r)
    PROVE  UWSInv'
<1>1. AfterStop(r) \in {"mark_aborted", "remove"}
  BY DEF AfterStop
<1> QED
  BY <1>1, GotoInv, FaultsInv DEF abort_job_returns, abort_job_times_out

LEMMA request_failsInv ==
    ASSUME UWSInv, NEW r \in Requests, request_fails(r)
    PROVE  UWSInv'
<1>1. faults' \in 0..MaxFaults
  BY FaultsInv, BoundAssumption DEF request_fails
<1> QED
  BY <1>1, GotoInv DEF request_fails

\* What run_sync returns as a result is what the record has as one.
LEMMA SyncAnswerInv ==
    ASSUME UWSInv, NEW r \in Requests, req[r].pc \notin {"idle", "done"}, SyncAnswer(r),
           UNCHANGED <<store, arq, worker, task, faults>>
    PROVE  UWSInv'
<1> DEFINE j == req[r].job
           id == store[j].results
<1>1. req[r] \in Request /\ j \in Jobs
  BY RequestTyped DEF RequestInv
<1>2. CASE \E out \in {"unknown", "timeout", "failed", "no_results"} : Return(r, out)
  BY <1>2, GotoInv, FaultsInv
<1>3. CASE /\ id # None
           /\ req' = [req EXCEPT ![r].pc = "done", ![r].out = "result", ![r].msg = id]
  <2>1. Known(id, j) /\ arq[id].result = "ok" /\ id \in ArqIds
    BY <1>1, <1>3 DEF UWSInv, JobInv, Known
  <2> DEFINE c == [req[r] EXCEPT !.pc = "done", !.out = "result", !.msg = id]
  <2>2. req' = [req EXCEPT ![r] = c] /\ req'[r] = c
    BY <1>3 DEF UWSInv, Typed
  <2> HIDE DEF id
  <2>3. c \in Request /\ c.job = j /\ c.out = "result" /\ c.pc = "done" /\ c.msg = id
    BY <1>1, <2>1 DEF Request
  <2> HIDE DEF c
  <2>4. RequestInv(r)'
    BY <1>1, <2>1, <2>2, <2>3 DEF RequestInv, Known
  <2> QED
    BY <2>2, <2>3, <2>4, RequestOnly, FaultsInv
<1> QED
  BY <1>2, <1>3 DEF SyncAnswer

LEMMA SyncInv ==
    ASSUME UWSInv, NEW r \in Requests,
           sync_get(r) \/ sync_poll(r) \/ sync_wait_over(r) \/ sync_last_get(r)
    PROVE  UWSInv'
<1>1. /\ req[r].pc \notin {"idle", "done"}
      /\ UNCHANGED <<store, arq, worker, task, faults>>
      /\ \/ SyncAnswer(r)
         \/ \E pc \in {"poll", "last_get"} : Goto(r, pc)
         \/ Return(r, "unknown")
  BY DEF sync_get, sync_poll, sync_wait_over, sync_last_get
<1>2. CASE SyncAnswer(r)
  BY <1>1, <1>2, SyncAnswerInv
<1>3. CASE \E pc \in {"poll", "last_get"} : Goto(r, pc)
  BY <1>1, <1>3, GotoInv, FaultsInv
<1>4. CASE Return(r, "unknown")
  BY <1>1, <1>4, GotoInv, FaultsInv
<1> QED
  BY <1>1, <1>2, <1>3, <1>4

-----------------------------------------------------------------------------
\* Steps that change job records.

Fields == {"phase", "message_id", "results", "errors"}

\* An update of the phase and one more field.
LEMMA UpdateJob ==
    ASSUME UWSInv, NEW j \in Jobs, NEW phase \in Phases, NEW fields,
           NEW field \in Fields \ {"phase"}, NEW value \in ArqIds \union {None, "unavailable"},
           DOMAIN fields = {"phase", field},
           fields["phase"] = phase, fields[field] = value,
           value = "unavailable" => field = "errors",
           update_job(j, fields)
    PROVE  /\ store' \in [Jobs -> Job]
           /\ \A k \in Jobs : k # j => store'[k] = store[k]
           /\ \/ store'[j] = store[j]
              \/ /\ Exists(j) /\ store'[j].phase = phase
                 /\ \A f \in Fields \ {"phase", field} : store'[j][f] = store[j][f]
                 /\ store'[j][field] = value
<1>1. CASE UNCHANGED store
  BY <1>1 DEF UWSInv, Typed
<1>2. CASE Exists(j) /\ ~UNCHANGED store
  <2> DEFINE c == store[j]
             d == [f \in DOMAIN c |-> IF f \in DOMAIN fields THEN fields[f] ELSE c[f]]
  <2>1. c \in Job
    BY DEF UWSInv, Typed
  <2>2. store' = [store EXCEPT ![j] = d]
    BY <1>2 DEF update_job
  <2>3. DOMAIN c = Fields
    BY <2>1 DEF Job, Fields
  <2>6. /\ d = [f \in Fields |-> IF f \in DOMAIN fields THEN fields[f] ELSE c[f]]
        /\ d["phase"] = phase
        /\ \A f \in Fields \ {"phase", field} : d[f] = c[f]
        /\ d[field] = value
    BY <2>3 DEF Fields
  <2>7. d \in Job
    <3>1. /\ c["phase"] \in Phases \union {"NONE", "DELETED"}
          /\ c["message_id"] \in ArqIds \union {None}
          /\ c["results"] \in ArqIds \union {None}
          /\ c["errors"] \in ArqIds \union {None, "unavailable"}
      BY <2>1 DEF Job
    <3>2. /\ d["phase"] \in Phases \union {"NONE", "DELETED"}
          /\ d["message_id"] \in ArqIds \union {None}
          /\ d["results"] \in ArqIds \union {None}
          /\ d["errors"] \in ArqIds \union {None, "unavailable"}
      BY <2>6, <3>1, NoneAssumption DEF Fields
    <3> HIDE DEF d
    <3>3. d = [phase |-> d["phase"], message_id |-> d["message_id"],
               results |-> d["results"], errors |-> d["errors"]]
      BY <2>6 DEF Fields
    <3> QED
      BY <3>2, <3>3 DEF Job
  <2> HIDE DEF d
  <2>8. store'[j] = d
    BY <2>2 DEF UWSInv, Typed
  <2> QED
    BY <1>2, <2>2, <2>6, <2>7, <2>8 DEF UWSInv, Typed
<1> QED
  BY <1>1, <1>2 DEF update_job

\* What becomes of the record and of what is known of it.
StoreInv ==
    /\ store \in [Jobs -> Job]
    /\ \A j \in Jobs : JobInv(j)

LEMMA mark_queuedInv ==
    ASSUME UWSInv, Grows, NEW j \in Jobs, NEW id \in ArqIds, Known(id, j), mark_queued(j, id)
    PROVE  StoreInv' /\ Marks
<1> DEFINE fields == [phase |-> "QUEUED", message_id |-> id]
<1>1. /\ DOMAIN fields = {"phase", "message_id"}
      /\ fields["phase"] = "QUEUED" /\ fields["message_id"] = id
  OBVIOUS
<1>2. update_job(j, fields) /\ "QUEUED" \in Phases /\ "message_id" \in Fields \ {"phase"}
      /\ id # "unavailable"
  BY NoneAssumption DEF mark_queued, Phases, ACTIVE_PHASES, Fields
<1> HIDE DEF fields
<1>3. /\ store' \in [Jobs -> Job]
      /\ \A k \in Jobs : k # j => store'[k] = store[k]
      /\ \/ store'[j] = store[j]
         \/ /\ Exists(j) /\ store'[j].phase = "QUEUED" /\ store'[j].message_id = id
            /\ \A f \in Fields \ {"phase", "message_id"} : store'[j][f] = store[j][f]
  BY <1>1, <1>2, UpdateJob
<1>4. ASSUME store'[j] # store[j]
      PROVE  JobInv(j)'
  <2>0. PICK old : old = store[j]
    OBVIOUS
  <2>1. /\ store'[j].phase = "QUEUED" /\ store'[j].message_id = id
        /\ store'[j].results = store[j].results /\ store'[j].errors = store[j].errors
    BY <1>3, <1>4 DEF Fields
  <2>2. Known(id, j)'
    BY KnownKept
  <2>3. /\ old.results # None =>
             Known(old.results, j)' /\ arq'[old.results].result = "ok"
        /\ old.errors \in ArqIds =>
             Known(old.errors, j)' /\ arq'[old.errors].result = "error"
    BY <2>0, RecordKept
  <2> QED
    BY <2>0, <2>1, <2>2, <2>3, NoneAssumption DEF JobInv, Known
<1>5. Marks
  BY NoneAssumption, <1>3, <1>4 DEF Marks, Marked, Exists, Phases, ACTIVE_PHASES, Fields
<1> QED
  BY <1>3, <1>4, <1>5, JobKept DEF StoreInv

\* mark_executing and mark_aborted.
LEMMA PhaseInv ==
    ASSUME UWSInv, Grows, NEW j \in Jobs, NEW phase \in {"EXECUTING", "ABORTED"},
           update_job(j, [phase |-> phase])
    PROVE  StoreInv' /\ Marks
<1> DEFINE c == store[j]
           d == [f \in DOMAIN c |-> IF f \in DOMAIN [phase |-> phase] THEN [phase |-> phase][f]
                                    ELSE c[f]]
<1>1. c \in Job /\ phase \in Phases
  BY DEF UWSInv, Typed, Phases, ACTIVE_PHASES
<1>2. d = [c EXCEPT !.phase = phase]
  <2>1. DOMAIN [phase |-> phase] = {"phase"} /\ [phase |-> phase]["phase"] = phase
    OBVIOUS
  <2>2. DOMAIN c = Fields
    BY <1>1 DEF Job, Fields
  <2> QED
    BY <1>1, <2>1, <2>2 DEF Fields, Job
<1>3. UNCHANGED store \/ (Exists(j) /\ store' = [store EXCEPT ![j] = d])
  BY DEF update_job
<1>4. /\ store' \in [Jobs -> Job]
      /\ \A k \in Jobs : k # j => store'[k] = store[k]
      /\ \/ store'[j] = store[j]
         \/ /\ Exists(j)
            /\ store'[j].phase = phase /\ store'[j].message_id = store[j].message_id
            /\ store'[j].results = store[j].results /\ store'[j].errors = store[j].errors
  <2>1. /\ d \in Job /\ d.phase = phase /\ d.message_id = c.message_id
        /\ d.results = c.results /\ d.errors = c.errors
    BY <1>1, <1>2 DEF Job
  <2> HIDE DEF d
  <2> QED
    BY <1>3, <2>1 DEF UWSInv, Typed
<1>5. ASSUME store'[j] # store[j]
      PROVE  JobInv(j)'
  <2>0. PICK old : old = store[j]
    OBVIOUS
  <2>1. /\ store'[j].phase = phase /\ store'[j].message_id = store[j].message_id
        /\ store'[j].results = store[j].results /\ store'[j].errors = store[j].errors
    BY <1>4, <1>5
  <2>2. old.message_id # None => Known(old.message_id, j)'
    BY <2>0, RecordKept
  <2>3. /\ old.results # None =>
             Known(old.results, j)' /\ arq'[old.results].result = "ok"
        /\ old.errors \in ArqIds =>
             Known(old.errors, j)' /\ arq'[old.errors].result = "error"
    BY <2>0, RecordKept
  <2> QED
    BY <2>0, <2>1, <2>2, <2>3 DEF JobInv, Known
<1>6. Marks
  BY <1>4 DEF Marks, Marked, Exists, Phases, ACTIVE_PHASES
<1> QED
  BY <1>4, <1>5, <1>6, JobKept DEF StoreInv

LEMMA mark_failedInv ==
    ASSUME UWSInv, Grows, NEW j \in Jobs, NEW why \in ArqIds \union {"unavailable"},
           why \in ArqIds => Known(why, j) /\ arq[why].result = "error",
           Exists(j) => store[j].message_id # None,
           mark_failed(j, why)
    PROVE  StoreInv' /\ Marks
<1> DEFINE fields == [phase |-> "ERROR", errors |-> why]
<1>1. /\ DOMAIN fields = {"phase", "errors"}
      /\ fields["phase"] = "ERROR" /\ fields["errors"] = why
  OBVIOUS
<1>2. update_job(j, fields) /\ "ERROR" \in Phases /\ "errors" \in Fields \ {"phase"}
  BY DEF mark_failed, Phases, Fields
<1> HIDE DEF fields
<1>3. /\ store' \in [Jobs -> Job]
      /\ \A k \in Jobs : k # j => store'[k] = store[k]
      /\ \/ store'[j] = store[j]
         \/ /\ Exists(j) /\ store'[j].phase = "ERROR" /\ store'[j].errors = why
            /\ \A f \in Fields \ {"phase", "errors"} : store'[j][f] = store[j][f]
  BY <1>1, <1>2, UpdateJob
<1>4. ASSUME store'[j] # store[j]
      PROVE  JobInv(j)'
  <2>0. PICK old : old = store[j]
    OBVIOUS
  <2>1. /\ store'[j].message_id # None /\ store'[j].message_id = store[j].message_id
        /\ store'[j].results = store[j].results /\ store'[j].errors = why
    BY <1>3, <1>4 DEF Fields
  <2>2. /\ Known(old.message_id, j)'
        /\ why \in ArqIds => Known(why, j)' /\ arq'[why].result = "error"
    BY <2>0, <2>1, RecordKept, KnownKept, ResultKept, NoneAssumption DEF UWSInv
  <2>3. old.results # None =>
          Known(old.results, j)' /\ arq'[old.results].result = "ok"
    BY <2>0, RecordKept
  <2> QED
    BY <2>0, <2>1, <2>2, <2>3 DEF JobInv, Known
<1>5. Marks
  BY <1>3, <1>4 DEF Marks, Marked, Exists, Phases, ACTIVE_PHASES, Fields
<1> QED
  BY <1>3, <1>4, <1>5, JobKept DEF StoreInv

LEMMA CompletedInv ==
    ASSUME UWSInv, Grows, NEW j \in Jobs, NEW id \in ArqIds \union {None},
           id # None => Known(id, j) /\ arq[id].result = "ok",
           Exists(j) => store[j].message_id # None,
           update_job(j, [phase |-> "COMPLETED", results |-> id])
    PROVE  StoreInv' /\ Marks
<1> DEFINE fields == [phase |-> "COMPLETED", results |-> id]
<1>1. /\ DOMAIN fields = {"phase", "results"}
      /\ fields["phase"] = "COMPLETED" /\ fields["results"] = id
  OBVIOUS
<1>2. update_job(j, fields) /\ "COMPLETED" \in Phases /\ "results" \in Fields \ {"phase"}
      /\ id # "unavailable"
  BY NoneAssumption DEF Phases, Fields
<1> HIDE DEF fields
<1>3. /\ store' \in [Jobs -> Job]
      /\ \A k \in Jobs : k # j => store'[k] = store[k]
      /\ \/ store'[j] = store[j]
         \/ /\ Exists(j) /\ store'[j].phase = "COMPLETED" /\ store'[j].results = id
            /\ \A f \in Fields \ {"phase", "results"} : store'[j][f] = store[j][f]
  BY <1>1, <1>2, UpdateJob
<1>4. ASSUME store'[j] # store[j]
      PROVE  JobInv(j)'
  <2>0. PICK old : old = store[j]
    OBVIOUS
  <2>1. /\ store'[j].message_id # None /\ store'[j].message_id = store[j].message_id
        /\ store'[j].results = id /\ store'[j].errors = store[j].errors
    BY <1>3, <1>4 DEF Fields
  <2>2. /\ Known(old.message_id, j)'
        /\ id # None => Known(id, j)' /\ arq'[id].result = "ok"
    BY <2>0, <2>1, RecordKept, KnownKept, ResultKept, NoneAssumption DEF UWSInv, Known
  <2>3. old.errors \in ArqIds =>
          Known(old.errors, j)' /\ arq'[old.errors].result = "error"
    BY <2>0, RecordKept
  <2> QED
    BY <2>0, <2>1, <2>2, <2>3 DEF JobInv, Known
<1>5. Marks
  BY <1>3, <1>4 DEF Marks, Marked, Exists, Phases, ACTIVE_PHASES, Fields
<1> QED
  BY <1>3, <1>4, <1>5, JobKept DEF StoreInv

\* A step of a request that changes job records.
LEMMA StoreStep ==
    ASSUME UWSInv, StoreInv', Marks, UNCHANGED <<arq, worker, task, faults>>,
           NEW r \in Requests, NEW c \in Request, req' = [req EXCEPT ![r] = c], RequestInv(r)'
    PROVE  UWSInv'
<1>1. Grows
  BY DEF Grows
<1>2. Typed'
  BY DEF UWSInv, Typed, StoreInv
<1>3. \A k \in Requests : RequestInv(k)'
  BY <1>1, RequestKept DEF UWSInv, Typed
<1>4. /\ \A a \in ArqIds : ArqInv(a)'
      /\ \A w \in Workers : WorkerInv(w)'
      /\ \A t \in Tasks : TaskInv(t)'
  BY <1>1, ArqKept, WorkerKept, TaskKept
<1>5. Exclusive'
  BY DEF UWSInv, Exclusive
<1> QED
  BY <1>2, <1>3, <1>4, <1>5 DEF UWSInv, StoreInv

LEMMA createInv ==
    ASSUME UWSInv, NEW r \in Requests, create(r)
    PROVE  UWSInv'
<1>1. PICK op \in Ops \intersect {"create", "create_run", "sync"}, j \in Jobs :
        /\ store[j].phase = "NONE"
        /\ store' = [store EXCEPT ![j].phase = "PENDING"]
        /\ req' = [req EXCEPT ![r] =
             [op |-> op, job |-> j, msg |-> None, out |-> None,
              pc |-> IF op = "create" THEN "done" ELSE "start"]]
  BY DEF create
<1> DEFINE c == [op |-> op, job |-> j, msg |-> None, out |-> None,
                 pc |-> IF op = "create" THEN "done" ELSE "start"]
           d == [store[j] EXCEPT !.phase = "PENDING"]
<1>2. /\ c \in Request /\ c.job = j /\ c.out # "result"
      /\ c.pc \notin {"idle", "mark_queued", "stop"}
  BY NoneAssumption DEF Request, AllOps
<1>3. /\ d \in Job /\ d.phase = "PENDING" /\ d.message_id = store[j].message_id
      /\ d.results = store[j].results /\ d.errors = store[j].errors
  BY DEF UWSInv, Typed, Job, Phases, ACTIVE_PHASES
<1>4. Grows
  BY DEF Grows, create
<1>5. StoreInv' /\ Marks
  <2>1. store' = [store EXCEPT ![j] = d]
    BY <1>1
  <2> HIDE DEF d
  <2>2. store' \in [Jobs -> Job] /\ store'[j] = d /\ \A k \in Jobs : k # j => store'[k] = store[k]
    BY <1>3, <2>1 DEF UWSInv, Typed
  <2>3. PICK old : old = store[j]
    OBVIOUS
  <2>4. JobInv(j)'
    BY <1>3, <1>4, <2>2, <2>3, RecordKept DEF JobInv, Known
  <2>5. Marks
    BY <1>1, <1>3, <2>2 DEF Marks, Marked
  <2> QED
    BY <1>4, <2>2, <2>4, <2>5, JobKept DEF StoreInv
<1>6. req' = [req EXCEPT ![r] = c]
  BY <1>1
<1> HIDE DEF c
<1>7. RequestInv(r)'
  BY <1>2, <1>6 DEF RequestInv, UWSInv, Typed
<1> QED
  BY <1>2, <1>5, <1>6, <1>7, StoreStep DEF create

LEMMA start_markInv ==
    ASSUME UWSInv, NEW r \in Requests, start_mark(r)
    PROVE  UWSInv'
<1>1. /\ req[r].job \in Jobs /\ Known(req[r].msg, req[r].job) /\ req[r].msg \in ArqIds
      /\ req[r].pc \notin {"idle", "done"}
  BY DEF UWSInv, RequestInv, start_mark, Known
<1>2. Grows
  BY DEF Grows, start_mark
<1>3. StoreInv' /\ Marks
  BY <1>1, <1>2, mark_queuedInv DEF start_mark
<1>4. Goto(r, "get") \/ \E out \in {"ok", "unknown"} : Return(r, out)
  BY DEF start_mark
<1>5. /\ \E c \in Request : req' = [req EXCEPT ![r] = c]
      /\ RequestInv(r)'
  BY <1>1, <1>4, GotoRequest
<1> QED
  BY <1>3, <1>5, StoreStep DEF start_mark

LEMMA abort_markInv ==
    ASSUME UWSInv, NEW r \in Requests, abort_mark(r)
    PROVE  UWSInv'
<1>1. req[r].job \in Jobs /\ req[r].pc \notin {"idle", "done"}
  BY DEF UWSInv, RequestInv, abort_mark
<1>2. Grows
  BY DEF Grows, abort_mark
<1>3. StoreInv' /\ Marks
  BY <1>1, <1>2, PhaseInv DEF abort_mark, mark_aborted
<1>4. \E out \in {"ok", "unknown"} : Return(r, out)
  BY DEF abort_mark
<1>5. /\ \E c \in Request : req' = [req EXCEPT ![r] = c]
      /\ RequestInv(r)'
  BY <1>1, <1>4, GotoRequest
<1> QED
  BY <1>3, <1>5, StoreStep DEF abort_mark

LEMMA delete_jobInv ==
    ASSUME UWSInv, NEW r \in Requests, delete_job(r)
    PROVE  UWSInv'
<1> DEFINE d == [phase |-> "DELETED", message_id |-> None, results |-> None, errors |-> None]
<1>0. PICK j : j = req[r].job
  OBVIOUS
<1>1. j \in Jobs /\ req[r].pc \notin {"idle", "done"}
  BY <1>0 DEF UWSInv, RequestInv, delete_job
<1>2. Grows
  BY DEF Grows, delete_job
<1>3. UNCHANGED store \/ store' = [store EXCEPT ![j] = d]
  BY <1>0 DEF delete_job
<1>4. d \in Job
  BY DEF Job
<1>5. StoreInv' /\ Marks
  <2>1. store' \in [Jobs -> Job] /\ \A k \in Jobs : store'[k] = store[k] \/ store'[k] = d
    BY <1>1, <1>3, <1>4 DEF UWSInv, Typed
  <2>2. ASSUME NEW k \in Jobs, store'[k] = d
        PROVE  JobInv(k)'
    BY <2>2, NoneAssumption DEF JobInv
  <2>3. Marks
    BY <2>1 DEF Marks, Marked
  <2> QED
    BY <1>2, <2>1, <2>2, <2>3, JobKept DEF StoreInv
<1>6. \E out \in {"ok", "unknown"} : Return(r, out)
  BY DEF delete_job
<1>7. /\ \E c \in Request : req' = [req EXCEPT ![r] = c]
      /\ RequestInv(r)'
  BY <1>1, <1>6, GotoRequest
<1> QED
  BY <1>5, <1>7, StoreStep DEF delete_job

-----------------------------------------------------------------------------
\* Steps that change what arq has.

\* Everything but a request and an arq job stays.
LEMMA ArqAndRequest ==
    ASSUME UWSInv, Grows, UNCHANGED <<store, worker, task>>, faults' \in 0..MaxFaults,
           NEW id \in ArqIds, NEW a \in ArqJob, arq' = [arq EXCEPT ![id] = a], ArqInv(id)',
           arq[id].status = "running" => a.status = "running" /\ a.runs = arq[id].runs,
           NEW r \in Requests, NEW c \in Request, req' = [req EXCEPT ![r] = c], RequestInv(r)'
    PROVE  UWSInv'
<1>1. Typed' /\ \A k \in ArqIds : k # id => arq'[k] = arq[k]
  BY DEF UWSInv, Typed
<1>2. \A k \in Requests : RequestInv(k)'
  BY RequestKept DEF UWSInv, Typed
<1>3. \A k \in ArqIds : ArqInv(k)'
  BY <1>1, ArqKept
<1>4. \A w \in Workers : WorkerInv(w)'
  <2> SUFFICES ASSUME NEW w \in Workers
               PROVE  WorkerInv(w)'
    OBVIOUS
  <2>1. worker[w].pc # "idle" =>
          worker[w].arq \in ArqIds /\ arq[worker[w].arq].status = "running"
    BY DEF UWSInv, WorkerInv
  <2>2. worker[w].pc # "idle" =>
          /\ arq'[worker[w].arq].status = arq[worker[w].arq].status
          /\ arq'[worker[w].arq].runs = arq[worker[w].arq].runs
    BY <1>1, <2>1 DEF UWSInv, Typed
  <2> QED
    BY <2>2, WorkerKept
<1>5. Marks
  BY DEF Marks, Marked
<1>6. /\ \A j \in Jobs : JobInv(j)'
      /\ \A t \in Tasks : TaskInv(t)'
      /\ Exclusive'
  BY <1>5, JobKept, TaskKept DEF UWSInv, Exclusive
<1> QED
  BY <1>1, <1>2, <1>3, <1>4, <1>6 DEF UWSInv

LEMMA start_enqueueInv ==
    ASSUME UWSInv, NEW r \in Requests, start_enqueue(r)
    PROVE  UWSInv'
<1>1. PICK id \in ArqIds :
        /\ arq[id].status = "none"
        /\ arq' = [arq EXCEPT ![id].status = "queued", ![id].job = req[r].job]
        /\ req' = [req EXCEPT ![r].pc = "mark_queued", ![r].msg = id]
  BY DEF start_enqueue
<1> DEFINE j == req[r].job
           a == [arq[id] EXCEPT !.status = "queued", !.job = j]
           c == [req[r] EXCEPT !.pc = "mark_queued", !.msg = id]
<1>2. req[r] \in Request /\ j \in Jobs /\ req[r].out # "result"
  BY RequestTyped DEF RequestInv, start_enqueue
<1>3. /\ c \in Request /\ c.job = j /\ c.msg = id /\ c.pc = "mark_queued" /\ c.out # "result"
  BY <1>2 DEF Request
<1>4. arq[id] \in ArqJob /\ ArqInv(id)
  BY DEF UWSInv, Typed
<1>5. /\ a \in ArqJob /\ a.status = "queued" /\ a.job = j /\ a.runs = arq[id].runs
      /\ a.result = arq[id].result
  BY <1>2, <1>4 DEF ArqJob
<1>6. arq' = [arq EXCEPT ![id] = a] /\ req' = [req EXCEPT ![r] = c]
  BY <1>1
<1> HIDE DEF a, c
<1>7. arq'[id] = a /\ req'[r] = c /\ \A k \in ArqIds : k # id => arq'[k] = arq[k]
  BY <1>6 DEF UWSInv, Typed
<1>8. Grows
  BY <1>1, <1>7 DEF Grows, start_enqueue
<1>9. arq[id].result = None /\ arq[id].runs < MaxRuns
  BY <1>1, <1>4 DEF ArqInv
<1>10. ArqInv(id)'
  BY <1>2, <1>5, <1>7, <1>9, NoneAssumption DEF ArqInv
<1>11. RequestInv(r)'
  BY <1>2, <1>3, <1>5, <1>7 DEF RequestInv, Known
<1> QED
  BY <1>1, <1>3, <1>5, <1>6, <1>8, <1>10, <1>11, ArqAndRequest, FaultsInv DEF start_enqueue

\* An abort is asked for, and the request goes on or is answered.
LEMMA AbortAskedInv ==
    ASSUME UWSInv, NEW r \in Requests, req[r].pc = "stop",
           arq' = [arq EXCEPT ![req[r].msg].abort = TRUE],
           NEW pc \in {"stopping", "remove"}, Goto(r, pc) \/ Return(r, "error"),
           UNCHANGED <<store, worker, task>>, faults' \in 0..MaxFaults
    PROVE  UWSInv'
<1>1. PICK id : id = req[r].msg
  OBVIOUS
<1>2. req[r].pc \notin {"idle", "done"} /\ id \in ArqIds
  BY <1>1 DEF UWSInv, RequestInv
<1> DEFINE a == [arq[id] EXCEPT !.abort = TRUE]
<1>3. arq[id] \in ArqJob
  BY <1>2 DEF UWSInv, Typed
<1>4. /\ a \in ArqJob /\ a.status = arq[id].status /\ a.job = arq[id].job
      /\ a.runs = arq[id].runs /\ a.result = arq[id].result
  BY <1>3 DEF ArqJob
<1>5. arq' = [arq EXCEPT ![id] = a]
  BY <1>1
<1> HIDE DEF a
<1>6. arq'[id] = a /\ \A k \in ArqIds : k # id => arq'[k] = arq[k]
  BY <1>2, <1>5 DEF UWSInv, Typed
<1>7. Grows
  BY <1>4, <1>6 DEF Grows
<1>8. ArqInv(id)'
  BY <1>2, <1>4, <1>6, <1>7, ArqKept
<1>9. /\ \E c \in Request : req' = [req EXCEPT ![r] = c]
      /\ RequestInv(r)'
  BY <1>2, GotoRequest
<1> QED
  BY <1>2, <1>4, <1>5, <1>7, <1>8, <1>9, ArqAndRequest

LEMMA abort_jobInv ==
    ASSUME UWSInv, NEW r \in Requests, abort_job(r)
    PROVE  UWSInv'
BY AbortAskedInv, FaultsInv DEF abort_job

\* The request to enqueue fails, and yet the job is enqueued.
LEMMA LostEnqueueInv ==
    ASSUME UWSInv, NEW r \in Requests, req[r].pc = "enqueue", NEW id \in ArqIds,
           arq[id].status = "none",
           arq' = [arq EXCEPT ![id].status = "queued", ![id].job = req[r].job],
           NEW pc \in {"stopping", "remove"}, Goto(r, pc) \/ Return(r, "error"),
           UNCHANGED <<store, worker, task>>, faults' \in 0..MaxFaults
    PROVE  UWSInv'
<1> DEFINE j == req[r].job
           a == [arq[id] EXCEPT !.status = "queued", !.job = j]
<1>1. req[r].pc \notin {"idle", "done"} /\ j \in Jobs
  BY DEF UWSInv, RequestInv
<1>2. arq[id] \in ArqJob /\ ArqInv(id)
  BY DEF UWSInv, Typed
<1>3. /\ a \in ArqJob /\ a.status = "queued" /\ a.job = j /\ a.runs = arq[id].runs
      /\ a.result = arq[id].result
  BY <1>1, <1>2 DEF ArqJob
<1>4. arq' = [arq EXCEPT ![id] = a]
  OBVIOUS
<1> HIDE DEF a
<1>5. arq'[id] = a /\ \A k \in ArqIds : k # id => arq'[k] = arq[k]
  BY <1>4 DEF UWSInv, Typed
<1>6. Grows
  BY <1>5 DEF Grows
<1>7. arq[id].result = None /\ arq[id].runs < MaxRuns
  BY <1>2 DEF ArqInv
<1>8. ArqInv(id)'
  BY <1>1, <1>3, <1>5, <1>7, NoneAssumption DEF ArqInv
<1>9. /\ \E c \in Request : req' = [req EXCEPT ![r] = c]
      /\ RequestInv(r)'
  BY <1>1, GotoRequest
<1> QED
  BY <1>3, <1>4, <1>6, <1>8, <1>9, ArqAndRequest

LEMMA arq_failsInv ==
    ASSUME UWSInv, NEW r \in Requests, arq_fails(r)
    PROVE  UWSInv'
<1>1. /\ req[r].pc \in {"enqueue", "stop", "stopping"} /\ UNCHANGED <<store, worker, task>>
      /\ Goto(r, "remove") \/ Return(r, "error")
  BY DEF arq_fails
<1>2. faults' \in 0..MaxFaults
  BY FaultsInv, BoundAssumption DEF arq_fails
<1>3. CASE UNCHANGED arq
  BY <1>1, <1>2, <1>3, GotoInv
<1>4. CASE \E id \in ArqIds :
             /\ req[r].pc = "enqueue" /\ arq[id].status = "none"
             /\ arq' = [arq EXCEPT ![id].status = "queued", ![id].job = req[r].job]
  BY <1>1, <1>2, <1>4, LostEnqueueInv
<1>5. CASE req[r].pc = "stop" /\ arq' = [arq EXCEPT ![req[r].msg].abort = TRUE]
  BY <1>1, <1>2, <1>5, AbortAskedInv
<1> QED
  BY <1>3, <1>4, <1>5 DEF arq_fails

\* arq and one worker, which may send a message.
LEMMA ArqAndWorker ==
    ASSUME UWSInv, Grows, UNCHANGED <<store, req>>, Typed',
           NEW w \in Workers, \A v \in Workers : v # w => worker'[v] = worker[v],
           NEW id, \A k \in ArqIds : k # id => arq'[k] = arq[k],
           id \in ArqIds => ArqInv(id)',
           \A v \in Workers : v # w /\ worker[v].pc # "idle" => worker[v].arq # id,
           WorkerInv(w)',
           worker'[w].pc = "idle" \/ worker'[w].arq = id,
           \A t \in Tasks : task'[t] = task[t] \/ TaskInv(t)'
    PROVE  UWSInv'
<1>1. \A r \in Requests : RequestInv(r)'
  BY RequestKept
<1>2. \A j \in Jobs : JobInv(j)'
  BY JobKept
<1>3. \A t \in Tasks : TaskInv(t)'
  <2>1. Marks
    BY DEF Marks, Marked
  <2> QED
    BY <2>1, TaskKept
<1>4. \A k \in ArqIds : ArqInv(k)'
  BY ArqKept
<1>5. \A v \in Workers : WorkerInv(v)'
  <2> SUFFICES ASSUME NEW v \in Workers, v # w
               PROVE  WorkerInv(v)'
    OBVIOUS
  <2>1. worker[v].pc # "idle" => worker[v].arq \in ArqIds
    BY DEF UWSInv, WorkerInv
  <2> QED
    BY <2>1, WorkerKept
<1>6. Exclusive'
  BY DEF UWSInv, Exclusive
<1> QED
  BY <1>1, <1>2, <1>3, <1>4, <1>5, <1>6 DEF UWSInv

\* A busy worker knows its arq job and the number of its run.
LEMMA RunningJob ==
    ASSUME UWSInv, NEW w \in Workers, worker[w].pc # "idle"
    PROVE  /\ worker[w] \in Worker
           /\ \E id \in ArqIds, n \in 1..MaxRuns :
                /\ id = Running(w) /\ n = ThisRun(w)
                /\ arq[id].status = "running"
                /\ <<id, n, "started">> \in Tasks /\ <<id, n, "completed">> \in Tasks
                /\ \A v \in Workers : v # w /\ worker[v].pc # "idle" => worker[v].arq # id
<1> DEFINE id == worker[w].arq
           n == arq[id].runs
<1>1. id \in ArqIds /\ arq[id].status = "running"
  BY DEF UWSInv, WorkerInv
<1>2. n \in 1..MaxRuns
  BY <1>1 DEF UWSInv, ArqInv
<1>3. \A v \in Workers : v # w /\ worker[v].pc # "idle" => worker[v].arq # id
  BY DEF UWSInv, Exclusive
<1>4. <<id, n, "started">> \in Tasks /\ <<id, n, "completed">> \in Tasks
  BY <1>1, <1>2 DEF Tasks
<1> QED
  BY <1>1, <1>2, <1>3, <1>4 DEF UWSInv, Typed, Running, ThisRun

LEMMA SendInv ==
    ASSUME UWSInv, NEW w \in Workers, worker[w].pc # "idle",
           NEW kind \in {"started", "completed"}, Send(w, kind), UNCHANGED arq
    PROVE  /\ task' \in [Tasks -> Task]
           /\ \A t \in Tasks : task'[t] = task[t] \/ TaskInv(t)'
           /\ \A t \in Tasks : task[t].pc # "none" => task'[t].pc # "none"
           /\ task'[<<Running(w), ThisRun(w), kind>>].pc = "queued"
<1>1. PICK id \in ArqIds, n \in 1..MaxRuns :
        /\ id = Running(w) /\ n = ThisRun(w) /\ arq[id].status = "running"
        /\ <<id, n, kind>> \in Tasks
  BY RunningJob
<1>2. PICK t \in Tasks : t = <<id, n, kind>> /\ t[1] = id
  BY <1>1
<1> DEFINE c == [task[t] EXCEPT !.pc = "queued"]
<1>3. c \in Task /\ c.pc = "queued"
  BY DEF UWSInv, Typed, Task
<1>4. task' = [task EXCEPT ![t] = c]
  BY <1>1, <1>2 DEF Send
<1> HIDE DEF c
<1>5. task' \in [Tasks -> Task] /\ task'[t] = c /\ \A u \in Tasks : u # t => task'[u] = task[u]
  BY <1>3, <1>4 DEF UWSInv, Typed
<1>6. TaskInv(t)'
  BY <1>1, <1>2, <1>3, <1>5 DEF TaskInv
<1> QED
  BY <1>1, <1>2, <1>3, <1>5, <1>6

LEMMA WorkerStepInv ==
    ASSUME UWSInv, NEW w \in Workers, worker[w].pc # "idle",
           UNCHANGED <<store, arq, req>>, faults' \in 0..MaxFaults,
           NEW c \in Worker, worker' = [worker EXCEPT ![w] = c], c.arq = worker[w].arq,
           UNCHANGED task \/ \E kind \in {"started", "completed"} : Send(w, kind),
           WorkerInv(w)'
    PROVE  UWSInv'
<1>1. /\ task' \in [Tasks -> Task]
      /\ \A t \in Tasks : task'[t] = task[t] \/ TaskInv(t)'
      /\ \A t \in Tasks : task[t].pc # "none" => task'[t].pc # "none"
  <2>1. CASE UNCHANGED task
    BY <2>1 DEF UWSInv, Typed
  <2>2. CASE \E kind \in {"started", "completed"} : Send(w, kind)
    BY <2>2, SendInv
  <2> QED
    BY <2>1, <2>2
<1>2. Grows
  BY <1>1 DEF Grows
<1>3. PICK id \in ArqIds :
        /\ id = worker[w].arq
        /\ \A v \in Workers : v # w /\ worker[v].pc # "idle" => worker[v].arq # id
  BY RunningJob DEF Running
<1>4. Typed' /\ worker'[w] = c /\ \A v \in Workers : v # w => worker'[v] = worker[v]
  BY <1>1 DEF UWSInv, Typed
<1>5. ArqInv(id)'
  BY <1>2, ArqKept
<1> QED
  BY <1>1, <1>2, <1>3, <1>4, <1>5, ArqAndWorker

LEMMA notify_startedInv ==
    ASSUME UWSInv, NEW w \in Workers, notify_started(w)
    PROVE  UWSInv'
<1> DEFINE c == [worker[w] EXCEPT !.pc = "executing"]
<1>1. worker[w].pc # "idle" /\ worker[w].pc = "begin" /\ WorkerInv(w)
  BY DEF notify_started, UWSInv
<1>2. c \in Worker /\ c.arq = worker[w].arq /\ c.pc = "executing" /\ c.outcome = worker[w].outcome
  BY <1>1, RunningJob DEF Worker
<1>3. worker' = [worker EXCEPT ![w] = c] /\ worker'[w] = c
  BY DEF notify_started, UWSInv, Typed
<1> HIDE DEF c
<1>4. task'[<<worker[w].arq, arq[worker[w].arq].runs, "started">>].pc # "none"
  BY <1>1, SendInv DEF notify_started, Running, ThisRun
<1>5. WorkerInv(w)'
  BY <1>1, <1>2, <1>3, <1>4 DEF WorkerInv, Sent, notify_started
<1> QED
  BY <1>1, <1>2, <1>3, <1>5, WorkerStepInv, FaultsInv DEF notify_started

\* The job comes to an end by itself, by its timeout or by a cancellation, and
\* the finally clause is next.
LEMMA EndInv ==
    ASSUME UWSInv, NEW w \in Workers, worker[w].pc = "executing",
           NEW outcome \in {"ok", "empty", "error", "cancelled", "again"},
           outcome = "again" => ThisRun(w) < MaxRuns,
           worker' = [worker EXCEPT ![w].pc = "finally", ![w].outcome = outcome],
           UNCHANGED <<store, arq, task, req, faults>>
    PROVE  UWSInv'
<1> DEFINE c == [worker[w] EXCEPT !.pc = "finally", !.outcome = outcome]
<1>1. worker[w].pc # "idle" /\ WorkerInv(w)
  BY DEF UWSInv
<1>2. c \in Worker /\ c.arq = worker[w].arq /\ c.pc = "finally" /\ c.outcome = outcome
  BY <1>1, RunningJob DEF Worker
<1>3. worker' = [worker EXCEPT ![w] = c] /\ worker'[w] = c
  BY DEF UWSInv, Typed
<1> HIDE DEF c
<1>4. WorkerInv(w)'
  BY <1>1, <1>2, <1>3 DEF WorkerInv, Sent, ThisRun, Running
<1> QED
  BY <1>1, <1>2, <1>3, <1>4, WorkerStepInv, FaultsInv

LEMMA executeInv ==
    ASSUME UWSInv, NEW w \in Workers, execute(w) \/ time_out(w)
    PROVE  UWSInv'
BY EndInv DEF execute, time_out

\* A run ends while it sends a message, which may or may not have been sent.
LEMMA CutShortInv ==
    ASSUME UWSInv, NEW w \in Workers, worker[w].pc \in {"begin", "finally"},
           NEW outcome \in {"error", "cancelled", "again"},
           outcome = "again" => ThisRun(w) < MaxRuns,
           worker' = [worker EXCEPT ![w].pc = "return", ![w].outcome = outcome],
           Send(w, Message(w)) \/ UNCHANGED task,
           UNCHANGED <<store, arq, req>>, faults' \in 0..MaxFaults
    PROVE  UWSInv'
<1> DEFINE c == [worker[w] EXCEPT !.pc = "return", !.outcome = outcome]
<1>1. /\ worker[w].pc # "idle" /\ WorkerInv(w)
      /\ UNCHANGED task \/ \E kind \in {"started", "completed"} : Send(w, kind)
  BY DEF UWSInv, Message
<1>2. c \in Worker /\ c.arq = worker[w].arq /\ c.pc = "return" /\ c.outcome = outcome
  BY <1>1, RunningJob DEF Worker
<1>3. worker' = [worker EXCEPT ![w] = c] /\ worker'[w] = c
  BY DEF UWSInv, Typed
<1> HIDE DEF c
<1>4. WorkerInv(w)'
  BY <1>1, <1>2, <1>3 DEF WorkerInv, ThisRun, Running
<1> QED
  BY <1>1, <1>2, <1>3, <1>4, WorkerStepInv

LEMMA run_raisesInv ==
    ASSUME UWSInv, NEW w \in Workers, run_raises(w)
    PROVE  UWSInv'
<1>1. faults' \in 0..MaxFaults
  BY FaultsInv, BoundAssumption DEF run_raises
<1> QED
  BY <1>1, CutShortInv DEF run_raises

LEMMA cancelInv ==
    ASSUME UWSInv, NEW w \in Workers,
           cancel_for_abort(w) \/ cancel_for_timeout(w) \/ cancel_for_shutdown(w)
    PROVE  UWSInv'
<1>1. PICK outcome \in {"error", "cancelled", "again"} :
        /\ cancel(w, outcome)
        /\ outcome = "again" => ThisRun(w) < MaxRuns
        /\ UNCHANGED <<store, arq, req, faults>>
  BY DEF cancel_for_abort, cancel_for_timeout, cancel_for_shutdown
<1>2. CASE worker[w].pc = "executing"
  BY <1>1, <1>2, EndInv DEF cancel
<1>3. CASE worker[w].pc # "executing"
  BY <1>1, <1>3, CutShortInv, FaultsInv DEF cancel
<1> QED
  BY <1>2, <1>3

LEMMA notify_completedInv ==
    ASSUME UWSInv, NEW w \in Workers, notify_completed(w)
    PROVE  UWSInv'
<1> DEFINE c == [worker[w] EXCEPT !.pc = "return"]
<1>1. worker[w].pc # "idle" /\ worker[w].pc = "finally" /\ WorkerInv(w)
  BY DEF notify_completed, UWSInv
<1>2. c \in Worker /\ c.arq = worker[w].arq /\ c.pc = "return" /\ c.outcome = worker[w].outcome
  BY <1>1, RunningJob DEF Worker
<1>3. worker' = [worker EXCEPT ![w] = c] /\ worker'[w] = c
  BY DEF notify_completed, UWSInv, Typed
<1> HIDE DEF c
<1>4. PICK id \in ArqIds, n \in 1..MaxRuns :
        /\ id = worker[w].arq /\ n = arq[id].runs
        /\ <<id, n, "started">> \in Tasks /\ Sent(id, n, "started")
  BY <1>1, RunningJob DEF Running, ThisRun, WorkerInv
<1>5. /\ task'[<<id, n, "completed">>].pc # "none"
      /\ task'[<<id, n, "started">>].pc # "none"
  BY <1>1, <1>4, SendInv DEF notify_completed, Running, ThisRun, Sent
<1>6. WorkerInv(w)'
  BY <1>1, <1>2, <1>3, <1>4, <1>5 DEF WorkerInv, Sent, notify_completed
<1> QED
  BY <1>1, <1>2, <1>3, <1>6, WorkerStepInv, FaultsInv DEF notify_completed

LEMMA pick_upInv ==
    ASSUME UWSInv, NEW w \in Workers, pick_up(w)
    PROVE  UWSInv'
<1>1. PICK id \in ArqIds :
        /\ arq[id].status = "queued"
        /\ \/ /\ arq' = [arq EXCEPT ![id].status = "complete", ![id].result = "cancelled"]
              /\ UNCHANGED worker
           \/ /\ arq' = [arq EXCEPT ![id].status = "running", ![id].runs = @ + 1]
              /\ worker' = [worker EXCEPT ![w] =
                              [pc |-> "begin", arq |-> id, outcome |-> None]]
  BY DEF pick_up
<1>2. worker[w].pc = "idle" /\ UNCHANGED <<store, task, req, faults>>
  BY DEF pick_up
<1>3. arq[id] \in ArqJob /\ ArqInv(id)
  BY DEF UWSInv, Typed
<1>4. arq[id].job \in Jobs /\ arq[id].result = None /\ arq[id].runs \in Nat /\ arq[id].runs < MaxRuns
  BY <1>1, <1>3, BoundAssumption DEF ArqInv, ArqJob
<1>5. \A v \in Workers : v # w /\ worker[v].pc # "idle" => worker[v].arq # id
  BY <1>1 DEF UWSInv, WorkerInv
<1>6. CASE /\ arq' = [arq EXCEPT ![id].status = "complete", ![id].result = "cancelled"]
           /\ UNCHANGED worker
  <2> DEFINE a == [arq[id] EXCEPT !.status = "complete", !.result = "cancelled"]
  <2>1. /\ a \in ArqJob /\ a.status = "complete" /\ a.result = "cancelled"
        /\ a.job = arq[id].job /\ a.runs = arq[id].runs
    BY <1>3 DEF ArqJob
  <2>2. arq' = [arq EXCEPT ![id] = a]
    BY <1>6
  <2> HIDE DEF a
  <2>3. arq'[id] = a /\ Typed' /\ \A k \in ArqIds : k # id => arq'[k] = arq[k]
    BY <1>2, <1>6, <2>1, <2>2 DEF UWSInv, Typed
  <2>4. Grows
    BY <1>1, <1>2, <2>1, <2>3 DEF Grows
  <2>5. ArqInv(id)' /\ WorkerInv(w)'
    BY <1>2, <1>4, <1>6, <2>1, <2>3 DEF ArqInv, WorkerInv
  <2> QED
    BY <1>2, <1>5, <1>6, <2>3, <2>4, <2>5, ArqAndWorker
<1>7. CASE /\ arq' = [arq EXCEPT ![id].status = "running", ![id].runs = @ + 1]
           /\ worker' = [worker EXCEPT ![w] = [pc |-> "begin", arq |-> id, outcome |-> None]]
  <2> DEFINE n == arq[id].runs + 1
             a == [arq[id] EXCEPT !.status = "running", !.runs = n]
             c == [pc |-> "begin", arq |-> id, outcome |-> None]
  <2>1. n \in 1..MaxRuns
    BY <1>4, BoundAssumption
  <2>2. arq' = [arq EXCEPT ![id] = a]
    BY <1>7
  <2> HIDE DEF n
  <2>10. n \in 0..MaxRuns
    BY <2>1
  <2>3. /\ a \in ArqJob /\ a.status = "running" /\ a.result = None
        /\ a.job = arq[id].job /\ a.runs = n
    BY <1>3, <1>4, <2>10 DEF ArqJob
  <2>4. c \in Worker /\ c.pc = "begin" /\ c.arq = id /\ c.outcome = None
    BY DEF Worker
  <2>5. worker' = [worker EXCEPT ![w] = c]
    BY <1>7
  <2> HIDE DEF a, c
  <2>6. /\ arq'[id] = a /\ \A k \in ArqIds : k # id => arq'[k] = arq[k]
        /\ worker'[w] = c /\ \A v \in Workers : v # w => worker'[v] = worker[v]
        /\ Typed'
    BY <1>2, <2>2, <2>3, <2>4, <2>5 DEF UWSInv, Typed
  <2>7. Grows
    BY <1>1, <1>2, <2>3, <2>6 DEF Grows
  <2>8. ArqInv(id)'
    BY <1>4, <2>1, <2>3, <2>6, NoneAssumption DEF ArqInv
  <2>9. WorkerInv(w)'
    <3>1. None # "again" \/ n < MaxRuns
      BY NoneAssumption
    <3> QED
      BY <2>3, <2>4, <2>6, <3>1, NoneAssumption DEF WorkerInv
  <2> QED
    BY <1>2, <1>5, <2>4, <2>6, <2>7, <2>8, <2>9, ArqAndWorker
<1> QED
  BY <1>1, <1>6, <1>7

LEMMA store_resultInv ==
    ASSUME UWSInv, NEW w \in Workers, store_result(w)
    PROVE  UWSInv'
<1> DEFINE c == [pc |-> "idle", arq |-> None, outcome |-> None]
           outcome == worker[w].outcome
<1>1. /\ worker[w].pc = "return" /\ worker[w].pc # "idle" /\ WorkerInv(w)
      /\ worker' = [worker EXCEPT ![w] = c]
      /\ UNCHANGED <<store, task, req, faults>>
  BY DEF store_result, UWSInv
<1>2. PICK id \in ArqIds, n \in 1..MaxRuns :
        /\ id = worker[w].arq /\ n = arq[id].runs
        /\ arq[id].status = "running"
        /\ \A v \in Workers : v # w /\ worker[v].pc # "idle" => worker[v].arq # id
  BY <1>1, RunningJob DEF Running, ThisRun
<1>3. arq[id] \in ArqJob /\ ArqInv(id) /\ worker[w] \in Worker /\ arq[id].job \in Jobs
  BY <1>2 DEF UWSInv, Typed, ArqInv
<1>4. PICK a \in ArqJob :
        /\ arq' = [arq EXCEPT ![id] = a]
        /\ a.job = arq[id].job /\ a.runs = n
        /\ \/ outcome = "again" /\ a.status = "queued" /\ a.result = None
           \/ outcome # "again" /\ a.status = "complete" /\ a.result = outcome
  <2>1. CASE outcome = "again"
    <3> DEFINE a == [arq[id] EXCEPT !.status = "queued"]
    <3>1. arq' = [arq EXCEPT ![id] = a]
      BY <1>2, <2>1 DEF store_result, Running
    <3>2. /\ a \in ArqJob /\ a.job = arq[id].job /\ a.runs = n
          /\ a.status = "queued" /\ a.result = arq[id].result
      BY <1>2, <1>3 DEF ArqJob
    <3>3. arq[id].result = None
      BY <1>2, <1>3 DEF ArqInv
    <3> HIDE DEF a
    <3> QED
      BY <2>1, <3>1, <3>2, <3>3
  <2>2. CASE outcome # "again"
    <3> DEFINE a == [arq[id] EXCEPT !.status = "complete", !.result = outcome]
    <3>1. arq' = [arq EXCEPT ![id] = a]
      BY <1>2, <2>2 DEF store_result, Running
    <3>2. outcome \in {None, "ok", "empty", "error", "cancelled"}
      BY <1>3, <2>2 DEF Worker
    <3> HIDE DEF outcome
    <3>3. /\ a \in ArqJob /\ a.job = arq[id].job /\ a.runs = n
          /\ a.status = "complete" /\ a.result = outcome
      BY <1>2, <1>3, <3>2 DEF ArqJob
    <3> HIDE DEF a
    <3> QED
      BY <2>2, <3>1, <3>3 DEF outcome
  <2> QED
    BY <2>1, <2>2
<1>5. c \in Worker /\ c.pc = "idle"
  BY DEF Worker
<1> HIDE DEF c
<1>6. /\ arq'[id] = a /\ \A k \in ArqIds : k # id => arq'[k] = arq[k]
      /\ worker'[w] = c /\ \A v \in Workers : v # w => worker'[v] = worker[v]
      /\ Typed'
  BY <1>1, <1>4, <1>5 DEF UWSInv, Typed
<1>7. Grows
  BY <1>1, <1>2, <1>4, <1>6 DEF Grows
<1>8. ArqInv(id)'
  <2>1. CASE outcome = "again"
    <3>1. n < MaxRuns
      BY <1>1, <1>2, <2>1 DEF WorkerInv
    <3> QED
      BY <1>3, <1>4, <1>6, <2>1, <3>1, NoneAssumption DEF ArqInv
  <2>2. CASE outcome # "again"
    <3>1. outcome \in {"ok", "empty"} =>
            Sent(id, n, "started") /\ Sent(id, n, "completed")
      BY <1>1, <1>2 DEF WorkerInv
    <3> QED
      BY <1>1, <1>3, <1>4, <1>6, <2>2, <3>1 DEF ArqInv, Sent
  <2> QED
    BY <2>1, <2>2
<1>9. WorkerInv(w)'
  BY <1>5, <1>6 DEF WorkerInv
<1> QED
  BY <1>1, <1>2, <1>5, <1>6, <1>7, <1>8, <1>9, ArqAndWorker

-----------------------------------------------------------------------------
\* The database worker.

\* A step on one message, which may change a job record.
LEMMA TaskStepInv ==
    ASSUME UWSInv, StoreInv', Marks, UNCHANGED <<arq, worker, req>>, faults' \in 0..MaxFaults,
           NEW t \in Tasks, NEW c \in Task, task' = [task EXCEPT ![t] = c],
           c.pc # "none", TaskInv(t)'
    PROVE  UWSInv'
<1>1. task' \in [Tasks -> Task] /\ task'[t] = c /\ \A u \in Tasks : u # t => task'[u] = task[u]
  BY DEF UWSInv, Typed
<1>2. Grows
  BY <1>1 DEF Grows
<1>3. Typed'
  BY <1>1 DEF UWSInv, Typed, StoreInv
<1>4. /\ \A a \in ArqIds : ArqInv(a)'
      /\ \A w \in Workers : WorkerInv(w)'
      /\ \A u \in Tasks : TaskInv(u)'
      /\ \A r \in Requests : RequestInv(r)'
      /\ Exclusive'
  BY <1>1, <1>2, ArqKept, WorkerKept, TaskKept, RequestKept DEF UWSInv, Exclusive
<1> QED
  BY <1>3, <1>4 DEF UWSInv, StoreInv

\* The job of a message that is there is a job.
LEMMA JobOfTask ==
    ASSUME UWSInv, NEW t \in Tasks, task[t].pc # "none"
    PROVE  /\ JobOf(t) \in Jobs /\ t[1] \in ArqIds /\ arq[t[1]].status # "none"
           /\ task[t] \in Task /\ TaskInv(t)
<1>1. t[1] \in ArqIds
  BY DEF Tasks
<1> QED
  BY <1>1 DEF UWSInv, Typed, TaskInv, ArqInv, JobOf

LEMMA FinishInv ==
    ASSUME UWSInv, StoreInv', Marks, UNCHANGED <<arq, worker, req>>, faults' \in 0..MaxFaults,
           NEW t \in Tasks, task[t].pc # "none", Finish(t)
    PROVE  UWSInv'
<1> DEFINE c == [task[t] EXCEPT !.pc = "done"]
<1>1. c \in Task /\ c.pc = "done"
  BY JobOfTask DEF Task
<1>2. task' = [task EXCEPT ![t] = c] /\ task'[t] = c
  BY DEF Finish, UWSInv, Typed
<1> HIDE DEF c
<1>3. TaskInv(t)'
  BY <1>1, <1>2, JobOfTask DEF TaskInv
<1> QED
  BY <1>1, <1>2, <1>3, TaskStepInv

LEMMA StoreSame ==
    ASSUME UWSInv, UNCHANGED <<store, arq>>
    PROVE  StoreInv' /\ Marks
BY DEF UWSInv, Typed, StoreInv, JobInv, Known, Marks, Marked

LEMMA uws_job_startedInv ==
    ASSUME UWSInv, NEW t \in Tasks, uws_job_started(t)
    PROVE  UWSInv'
<1>1. task[t].pc # "none" /\ UNCHANGED <<arq, worker, req, faults>> /\ Finish(t)
  BY DEF uws_job_started
<1>2. JobOf(t) \in Jobs
  BY <1>1, JobOfTask
<1>3. Grows
  BY <1>1, JobOfTask DEF Grows, Finish, UWSInv, Typed, Task
<1>4. StoreInv' /\ Marks
  BY <1>2, <1>3, PhaseInv DEF uws_job_started, mark_executing
<1> QED
  BY <1>1, <1>4, FinishInv, FaultsInv

LEMMA completed_getInv ==
    ASSUME UWSInv, NEW t \in Tasks, completed_get(t)
    PROVE  UWSInv'
<1> DEFINE j == JobOf(t)
           id == store[j].message_id
           c == [task[t] EXCEPT !.pc = "polling", !.msg = id]
<1>1. task[t].pc = "queued" /\ task[t].pc # "none" /\ UNCHANGED <<store, arq, worker, req, faults>>
  BY DEF completed_get
<1>2. j \in Jobs /\ task[t] \in Task /\ TaskInv(t)
  BY <1>1, JobOfTask
<1>3. CASE Finish(t)
  BY <1>1, <1>3, FinishInv, FaultsInv, StoreSame
<1>4. CASE ~Finish(t)
  <2>1. id # None /\ task' = [task EXCEPT ![t] = c] /\ task'[t] = c
    BY <1>4 DEF completed_get, UWSInv, Typed
  <2>2. Known(id, j) /\ id \in ArqIds
    BY <1>2, <2>1 DEF UWSInv, JobInv, Known
  <2> HIDE DEF id
  <2>3. c \in Task /\ c.pc = "polling" /\ c.msg = id
    BY <1>2, <2>2 DEF Task
  <2> HIDE DEF c
  <2>4. Marked(j)
    BY <2>1 DEF Marked, id
  <2>5. TaskInv(t)'
    BY <1>1, <1>2, <2>1, <2>2, <2>3, <2>4 DEF TaskInv, Known, JobOf, Marked
  <2> QED
    BY <1>1, <2>1, <2>3, <2>5, TaskStepInv, StoreSame, FaultsInv
<1> QED
  BY <1>3, <1>4

LEMMA ResultReadInv ==
    ASSUME UWSInv, NEW t \in Tasks, completed_result(t) \/ completed_no_result(t)
    PROVE  UWSInv'
<1> DEFINE id == task[t].msg
<1>1. /\ task[t].pc = "polling" /\ task[t].pc # "none"
      /\ UNCHANGED <<store, arq, worker, req, faults>>
  BY DEF completed_result, completed_no_result
<1>2. task[t] \in Task /\ TaskInv(t)
  BY <1>1, JobOfTask
<1>3. Known(id, arq[t[1]].job) /\ id \in ArqIds /\ arq[id] \in ArqJob
  BY <1>1, <1>2 DEF TaskInv, Known, UWSInv, Typed
<1>4. PICK res : /\ task' = [task EXCEPT ![t].pc = "record", ![t].res = res]
                 /\ res \in {None, "ok", "empty", "error", "cancelled", "unavailable"}
                 /\ res # "unavailable" => arq[id].status = "complete" /\ arq[id].result = res
  BY <1>3 DEF completed_result, completed_no_result, ArqJob
<1> DEFINE c == [task[t] EXCEPT !.pc = "record", !.res = res]
<1>5. c \in Task /\ c.pc = "record" /\ c.msg = id /\ c.res = res
  BY <1>2, <1>4 DEF Task
<1>6. task' = [task EXCEPT ![t] = c] /\ task'[t] = c
  BY <1>4 DEF UWSInv, Typed
<1> HIDE DEF c
<1>7. TaskInv(t)'
  BY <1>1, <1>2, <1>3, <1>4, <1>5, <1>6 DEF TaskInv, Known, Marked
<1> QED
  BY <1>1, <1>5, <1>6, <1>7, TaskStepInv, StoreSame, FaultsInv

LEMMA completed_recordInv ==
    ASSUME UWSInv, NEW t \in Tasks, completed_record(t)
    PROVE  UWSInv'
<1> DEFINE j == JobOf(t)
           id == task[t].msg
           res == task[t].res
<1>1. /\ task[t].pc = "record" /\ task[t].pc # "none" /\ Finish(t)
      /\ UNCHANGED <<arq, worker, req, faults>>
  BY DEF completed_record
<1>2. j \in Jobs /\ TaskInv(t) /\ task[t] \in Task
  BY <1>1, JobOfTask
<1>3. Known(id, j) /\ id \in ArqIds
  BY <1>1, <1>2 DEF TaskInv, JobOf, Known
<1>4. res # "unavailable" => arq[id].status = "complete" /\ arq[id].result = res
  BY <1>1, <1>2 DEF TaskInv
<1>5. Grows
  BY <1>1, <1>2 DEF Grows, Finish, UWSInv, Typed, Task
<1>6. Exists(j) => store[j].message_id # None
  BY <1>1, <1>2 DEF TaskInv, Marked, JobOf, Exists, Phases, ACTIVE_PHASES
<1>7. StoreInv' /\ Marks
  <2>1. CASE mark_failed(j, "unavailable")
    BY <1>2, <1>5, <1>6, <2>1, NoneAssumption, mark_failedInv
  <2>2. CASE res = "error" /\ mark_failed(j, id)
    BY <1>2, <1>3, <1>4, <1>5, <1>6, <2>2, mark_failedInv
  <2>3. CASE /\ res \in {"ok", "empty"}
             /\ update_job(j, [phase |-> "COMPLETED",
                               results |-> IF res = "ok" THEN id ELSE None])
    BY <1>2, <1>3, <1>4, <1>5, <1>6, <2>3, CompletedInv
  <2>4. CASE UNCHANGED store
    BY <1>1, <2>4, StoreSame
  <2> QED
    BY <1>1, <2>1, <2>2, <2>3, <2>4 DEF completed_record, mark_completed
<1> QED
  BY <1>1, <1>7, FinishInv, FaultsInv

LEMMA task_failsInv ==
    ASSUME UWSInv, NEW t \in Tasks, task_fails(t)
    PROVE  UWSInv'
<1>1. faults' \in 0..MaxFaults
  BY FaultsInv, BoundAssumption DEF task_fails
<1> QED
  BY <1>1, FinishInv, StoreSame DEF task_fails

LEMMA task_againInv ==
    ASSUME UWSInv, NEW t \in Tasks, task_again(t)
    PROVE  UWSInv'
<1> DEFINE c == [pc |-> "queued", msg |-> None, res |-> None]
<1>1. faults' \in 0..MaxFaults
  BY FaultsInv, BoundAssumption DEF task_again
<1>2. task[t].pc # "none" /\ UNCHANGED <<store, arq, worker, req>>
  BY DEF task_again
<1>3. c \in Task /\ c.pc = "queued"
  BY DEF Task
<1>4. task' = [task EXCEPT ![t] = c] /\ task'[t] = c
  BY DEF task_again, UWSInv, Typed
<1> HIDE DEF c
<1>5. TaskInv(t)'
  BY <1>2, <1>3, <1>4, JobOfTask DEF TaskInv
<1> QED
  BY <1>1, <1>2, <1>3, <1>4, <1>5, TaskStepInv, StoreSame

-----------------------------------------------------------------------------
\* The specification.

LEMMA InitInv == Init => UWSInv
<1> SUFFICES ASSUME Init
             PROVE  UWSInv
  OBVIOUS
<1>1. Typed
  BY BoundAssumption DEF Init, Typed, Job, ArqJob, Worker, Task, Request
<1>2. \A j \in Jobs : JobInv(j)
  BY NoneAssumption DEF Init, JobInv
<1>3. \A a \in ArqIds : ArqInv(a)
  BY NoneAssumption, BoundAssumption DEF Init, ArqInv
<1>4. (\A w \in Workers : WorkerInv(w)) /\ Exclusive
  BY DEF Init, WorkerInv, Exclusive
<1>5. \A t \in Tasks : TaskInv(t)
  BY DEF Init, TaskInv
<1>6. \A r \in Requests : RequestInv(r)
  BY NoneAssumption DEF Init, RequestInv
<1> QED
  BY <1>1, <1>2, <1>3, <1>4, <1>5, <1>6 DEF UWSInv

LEMMA NextInv == UWSInv /\ [Next]_vars => UWSInv'
<1> SUFFICES ASSUME UWSInv, [Next]_vars
             PROVE  UWSInv'
  OBVIOUS
<1>1. CASE UNCHANGED vars
  <2>1. Typed'
    BY <1>1 DEF vars, UWSInv, Typed
  <2>2. (\A j \in Jobs : JobInv(j)') /\ (\A a \in ArqIds : ArqInv(a)')
    BY <1>1 DEF vars, UWSInv, JobInv, ArqInv, Known, Sent
  <2>3. (\A w \in Workers : WorkerInv(w)') /\ Exclusive'
    BY <1>1 DEF vars, UWSInv, WorkerInv, Exclusive, Sent
  <2>4. \A t \in Tasks : TaskInv(t)'
    BY <1>1 DEF vars, UWSInv, TaskInv, Known, Marked
  <2>5. \A r \in Requests : RequestInv(r)'
    BY <1>1 DEF vars, UWSInv, RequestInv, Known
  <2> QED
    BY <2>1, <2>2, <2>3, <2>4, <2>5 DEF UWSInv
<1>2. ASSUME NEW r \in Requests,
             \/ create(r) \/ RequestFor(r) \/ RequestStep(r)
             \/ abort_job_times_out(r) \/ request_fails(r) \/ arq_fails(r)
      PROVE  UWSInv'
  <2>1. CASE \/ create(r) \/ RequestFor(r) \/ abort_job_times_out(r) \/ request_fails(r)
             \/ arq_fails(r)
    BY <2>1, createInv, RequestForInv, StoppedInv, request_failsInv, arq_failsInv
  <2>2. CASE start_check(r) \/ start_enqueue(r) \/ start_mark(r)
    BY <2>2, start_checkInv, start_enqueueInv, start_markInv
  <2>3. CASE abort_check(r) \/ delete_check(r) \/ abort_job(r) \/ abort_job_returns(r)
    BY <2>3, abort_checkInv, delete_checkInv, abort_jobInv, StoppedInv
  <2>4. CASE abort_mark(r) \/ delete_job(r)
    BY <2>4, abort_markInv, delete_jobInv
  <2>5. CASE sync_get(r) \/ sync_poll(r) \/ sync_wait_over(r) \/ sync_last_get(r)
    BY <2>5, SyncInv
  <2> QED
    BY <1>2, <2>1, <2>2, <2>3, <2>4, <2>5 DEF RequestStep
<1>3. ASSUME NEW w \in Workers, \/ WorkerStep(w) \/ time_out(w) \/ cancel_for_timeout(w)
                                \/ cancel_for_shutdown(w) \/ run_raises(w)
      PROVE  UWSInv'
  BY <1>3, pick_upInv, notify_startedInv, executeInv, cancelInv, notify_completedInv,
     store_resultInv, run_raisesInv DEF WorkerStep
<1>4. ASSUME NEW t \in Tasks, TaskStep(t) \/ task_fails(t) \/ task_again(t)
      PROVE  UWSInv'
  BY <1>4, uws_job_startedInv, completed_getInv, ResultReadInv, completed_recordInv,
     task_failsInv, task_againInv DEF TaskStep
<1> QED
  BY <1>1, <1>2, <1>3, <1>4 DEF Next

LEMMA UWSInvInvariant == Spec => []UWSInv
BY InitInv, NextInv, PTL DEF Spec

\* Every record has its type.
THEOREM TypeCorrect == Spec => []TypeOK
<1>1. UWSInv => TypeOK
  BY DEF UWSInv, Typed, TypeOK, Job, ArqJob, Worker, Task, Request
<1> QED
  BY <1>1, UWSInvInvariant, PTL

\* What a job record says comes from an arq job that was enqueued for that very
\* job, with whatever delays, restarts, repeated messages and failures.
THEOREM RecordsHaveProvenance == Spec => []Provenance
<1>1. UWSInv => Provenance
  BY DEF UWSInv, JobInv, Known, Provenance
<1> QED
  BY <1>1, UWSInvInvariant, PTL

\* A result that run_sync returns was produced by a successful run for the job
\* that this request created.
THEOREM SyncResultsAreOwn == Spec => []SyncResultIsOwn
<1>1. UWSInv => SyncResultIsOwn
  BY DEF UWSInv, RequestInv, Known, SyncResultIsOwn
<1> QED
  BY <1>1, UWSInvInvariant, PTL

\* A run that arq takes for a success has told the database worker of its start
\* and of its end, whichever message could not be sent and whenever the run was
\* cancelled.
THEOREM SuccessesReported == Spec => []SuccessesAreReported
<1>1. UWSInv => SuccessesAreReported
  BY DEF UWSInv, ArqInv, Sent, SuccessesAreReported
<1> QED
  BY <1>1, UWSInvInvariant, PTL

\* A deleted job stays deleted, whatever is still under way.
THEOREM DeletedStaysDeleted == Spec => NoResurrection
<1>1. ASSUME UWSInv, [Next]_vars, NEW j \in Jobs, store[j].phase = "DELETED"
      PROVE  store'[j] = store[j]
  <2>1. ~Exists(j)
    BY <1>1 DEF Exists, Phases, ACTIVE_PHASES
  <2>2. store \in [Jobs -> Job]
    BY <1>1 DEF UWSInv, Typed
  <2>3. ASSUME NEW k, NEW fields, update_job(k, fields)
        PROVE  store'[j] = store[j]
    BY <2>1, <2>2, <2>3 DEF update_job
  <2>4. ASSUME NEW r \in Requests, create(r)
        PROVE  store'[j] = store[j]
    BY <1>1, <2>2, <2>4 DEF create
  <2>5. ASSUME NEW r \in Requests, delete_job(r)
        PROVE  store'[j] = store[j]
    BY <2>1, <2>2, <2>5 DEF delete_job
  <2>6. ASSUME NEW r \in Requests, start_mark(r) \/ abort_mark(r)
        PROVE  store'[j] = store[j]
    BY <2>3, <2>6 DEF start_mark, abort_mark, mark_queued, mark_aborted
  <2>7. ASSUME NEW t \in Tasks, uws_job_started(t)
        PROVE  store'[j] = store[j]
    BY <2>3, <2>7 DEF uws_job_started, mark_executing
  <2>8. ASSUME NEW t \in Tasks, completed_record(t)
        PROVE  store'[j] = store[j]
    BY <2>3, <2>8 DEF completed_record, mark_completed, mark_failed
  <2>9. \/ UNCHANGED store
        \/ \E r \in Requests : create(r) \/ delete_job(r) \/ start_mark(r) \/ abort_mark(r)
        \/ \E t \in Tasks : uws_job_started(t) \/ completed_record(t)
    <3>1. ASSUME NEW r \in Requests,
                 \/ RequestFor(r) \/ abort_job_times_out(r) \/ request_fails(r)
                 \/ arq_fails(r) \/ start_check(r) \/ start_enqueue(r) \/ abort_check(r) \/ delete_check(r)
                 \/ abort_job(r) \/ abort_job_returns(r) \/ sync_get(r) \/ sync_poll(r)
                 \/ sync_wait_over(r) \/ sync_last_get(r)
          PROVE  UNCHANGED store
      BY <3>1 DEF RequestFor, abort_job_times_out, request_fails, arq_fails, start_check, start_enqueue,
                  abort_check, delete_check, abort_job, abort_job_returns, sync_get,
                  sync_poll, sync_wait_over, sync_last_get
    <3>2. ASSUME NEW w \in Workers, \/ WorkerStep(w) \/ time_out(w) \/ cancel_for_timeout(w)
                                    \/ cancel_for_shutdown(w) \/ run_raises(w)
          PROVE  UNCHANGED store
      BY <3>2 DEF WorkerStep, pick_up, notify_started, execute, cancel_for_abort,
                  notify_completed, store_result, time_out, cancel_for_timeout,
                  cancel_for_shutdown, run_raises
    <3>3. ASSUME NEW t \in Tasks, \/ completed_get(t) \/ completed_result(t)
                                  \/ completed_no_result(t) \/ task_fails(t) \/ task_again(t)
          PROVE  UNCHANGED store
      BY <3>3 DEF completed_get, completed_result, completed_no_result, task_fails, task_again
    <3>4. CASE UNCHANGED vars
      BY <3>4 DEF vars
    <3> QED
      BY <1>1, <3>1, <3>2, <3>3, <3>4 DEF Next, RequestStep, TaskStep
  <2> QED
    BY <2>4, <2>5, <2>6, <2>7, <2>8, <2>9
<1>2. UWSInv /\ [Next]_vars =>
        [\A j \in Jobs : store[j].phase = "DELETED" => store'[j] = store[j]]_vars
  BY <1>1
<1> QED
  BY <1>2, UWSInvInvariant, PTL DEF Spec, NoResurrection

-----------------------------------------------------------------------------
(***************************************************************************)
(* Outcomes, with the timing that the design counts on: the message about  *)
(* the end of a run is handled when those about beginnings are done with   *)
(* and the API request that enqueued the arq job has recorded it (Timely), *)
(* no store request fails and no message is repeated.  The start route is  *)
(* left out: two starts at once give a job two arq jobs, and then it has   *)
(* no outcome of its own.                                                  *)
(*                                                                         *)
(* The danger is a message about a beginning that comes late and takes a   *)
(* finished job back to EXECUTING, or the record of a job being enqueued,  *)
(* which takes it back to QUEUED.  Neither happens, for these reasons, in  *)
(* the order the invariant states them: one request creates, starts and    *)
(* enqueues a job (OneCreator, OneEnqueued); no message is handled before  *)
(* that request has recorded the arq job (Handled); and when the message   *)
(* about the end of the last run is being handled, no message about a      *)
(* beginning is left and none will be sent (LastRun).                      *)
(***************************************************************************)

Settled == Timely /\ MaxFaults = 0 /\ "start" \notin Ops

CreateOps == {"create", "create_run", "sync"}
Starting == {"start", "enqueue", "mark_queued"}

\* The request that enqueued the arq job has not recorded it yet.
Pending(a) == \E r \in Requests : req[r].pc = "mark_queued" /\ req[r].msg = a

\* Only the request that created a job starts it, and before it has enqueued
\* the job nobody has.
Creator(r) ==
    /\ req[r].op \in CreateOps => req[r].job \in Jobs /\ store[req[r].job].phase # "NONE"
    /\ req[r].pc \in Starting => req[r].op \in CreateOps
    /\ req[r].pc \in {"start", "enqueue"} => \A a \in ArqIds : ~Known(a, req[r].job)

OneCreator ==
    \A r, s \in Requests :
        req[r].op \in CreateOps /\ req[s].op \in CreateOps /\ req[r].job = req[s].job
        => r = s

\* So a job has one arq job, which its record has from when it is recorded on.
Enqueued(a) ==
    arq[a].status # "none" =>
        /\ store[arq[a].job].phase # "NONE"
        /\ Pending(a) \/ Marked(arq[a].job)

OneEnqueued ==
    \A a, b \in ArqIds :
        arq[a].status # "none" /\ arq[b].status # "none" /\ arq[a].job = arq[b].job
        => a = b

\* No message is handled before that, and one about the end of a run is done
\* with only when arq has the outcome, or the job is deleted.
Handled(t) ==
    /\ Pending(t[1]) => task[t].pc \in {"none", "queued"}
    /\ task[t].pc # "none" => t[2] <= arq[t[1]].runs
    /\ task[t].pc \in {"polling", "record"} => t[3] = "completed"
    /\ task[t].pc = "record" => task[t].res # "unavailable"
    /\ t[3] = "completed" /\ task[t].pc = "done" =>
         store[arq[t[1]].job].phase = "DELETED" \/ arq[t[1]].status = "complete"

\* When the message about the end of the last run is being handled, no message
\* about a beginning is left, and none will be sent.
LastRun(a) ==
    LET end == task[<<a, arq[a].runs, "completed">>].pc
    IN arq[a].runs # 0 /\ end # "none" =>
         /\ \A w \in Workers : worker[w].arq = a =>
              worker[w].pc \notin {"begin", "executing", "finally"}
         /\ end # "queued" =>
              \A n \in 1..arq[a].runs : task[<<a, n, "started">>].pc \in {"none", "done"}

Outcomes == {"ok", "empty", "error"}

\* The record has the outcome of the arq job, except that an abort may have come
\* in between and that the job may be deleted.
HasOutcome(a) ==
    LET job == store[arq[a].job]
    IN \/ job.phase = "DELETED"
       \/ /\ job.phase \in {IF arq[a].result = "error" THEN "ERROR" ELSE "COMPLETED", "ABORTED"}
          /\ arq[a].result = "ok" => job.results = a
          /\ arq[a].result = "error" => job.errors = a

Over(a) ==
    arq[a].result \in Outcomes /\ task[<<a, arq[a].runs, "completed">>].pc = "done"

OutcomesAreFinal == \A a \in ArqIds : Over(a) => HasOutcome(a)

RequestsInv == OneCreator /\ OneEnqueued /\ (\A r \in Requests : Creator(r))
                 /\ (\A a \in ArqIds : Enqueued(a))
MessagesInv == (\A t \in Tasks : Handled(t)) /\ (\A a \in ArqIds : LastRun(a))

SettledInv == UWSInv /\ RequestsInv /\ MessagesInv /\ OutcomesAreFinal

-----------------------------------------------------------------------------
\* What a step may do to a job that is there.
Lives ==
    /\ \A j \in Jobs : store[j].phase # "NONE" => store'[j].phase # "NONE"
    /\ \A j \in Jobs : store[j].phase = "DELETED" => store'[j].phase = "DELETED"
    /\ Marks

\* No request starts a job, enqueues or records one.
NoStart ==
    \A r \in Requests :
        /\ req'[r].op \in CreateOps => req[r].op \in CreateOps /\ req'[r].job = req[r].job
        /\ req'[r].pc \in {"start", "enqueue"} => req[r].pc \in {"start", "enqueue"}
        /\ req'[r].pc = "mark_queued" <=> req[r].pc = "mark_queued"
        /\ req'[r].pc \in Starting => req'[r].op = req[r].op
        /\ req'[r].pc = "mark_queued" => req'[r].msg = req[r].msg

NoEnqueue ==
    \A a \in ArqIds : /\ arq'[a].status = "none" <=> arq[a].status = "none"
                      /\ arq[a].status # "none" => arq'[a].job = arq[a].job

LEMMA JobsOfRequests ==
    ASSUME UWSInv, NEW r \in Requests, req[r].pc # "idle"
    PROVE  req[r].job \in Jobs
BY DEF UWSInv, RequestInv

LEMMA JobOfArq ==
    ASSUME UWSInv, NEW a \in ArqIds, arq[a].status # "none"
    PROVE  arq[a].job \in Jobs
BY DEF UWSInv, ArqInv

LEMMA RequestsInvKept ==
    ASSUME UWSInv, RequestsInv, Lives, NoStart, NoEnqueue
    PROVE  RequestsInv' /\ \A a : Pending(a)' <=> Pending(a)
<1>1. \A a : Pending(a)' <=> Pending(a)
  BY DEF NoStart, Pending
<1>2. OneCreator'
  BY DEF RequestsInv, OneCreator, NoStart
<1>3. OneEnqueued'
  BY DEF RequestsInv, OneEnqueued, NoEnqueue
<1>4. ASSUME NEW r \in Requests
      PROVE  Creator(r)'
  BY DEF RequestsInv, Creator, NoStart, NoEnqueue, Lives, Known, Starting
<1>5. ASSUME NEW a \in ArqIds, arq'[a].status # "none"
      PROVE  Enqueued(a)'
  <2>1. arq[a].status # "none" /\ arq'[a].job = arq[a].job /\ Enqueued(a)
    BY <1>5 DEF NoEnqueue, RequestsInv
  <2>2. PICK j \in Jobs : j = arq[a].job
    BY <2>1, JobOfArq
  <2>3. store'[j].phase # "NONE" /\ (Pending(a)' \/ Marked(j)')
    BY <1>1, <2>1, <2>2 DEF Enqueued, Lives, Marks
  <2> QED
    BY <2>1, <2>2, <2>3 DEF Enqueued, Marked
<1>6. \A a \in ArqIds : Enqueued(a)'
  BY <1>5 DEF Enqueued
<1> QED
  BY <1>1, <1>2, <1>3, <1>4, <1>6 DEF RequestsInv

\* A step that leaves messages and workers alone.
LEMMA MessagesInvKept ==
    ASSUME UWSInv, RequestsInv, MessagesInv, Lives, Grows, UNCHANGED <<task, worker>>,
           \A a \in ArqIds : arq'[a].runs = arq[a].runs,
           \A a \in ArqIds : arq[a].status # "none" /\ Pending(a)' => Pending(a)
    PROVE  MessagesInv'
<1>1. ASSUME NEW t \in Tasks
      PROVE  Handled(t)'
  <2>1. Handled(t) /\ TaskInv(t) /\ t[1] \in ArqIds
    BY DEF MessagesInv, UWSInv, Tasks
  <2>2. CASE task[t].pc = "none"
    BY <2>2 DEF Handled
  <2>3. CASE task[t].pc # "none"
    <3>1. PICK a \in ArqIds : a = t[1] /\ arq[a].status # "none"
      BY <2>1, <2>3 DEF TaskInv
    <3>2. PICK j \in Jobs : j = arq[a].job /\ j = arq'[a].job
      BY <3>1, JobOfArq DEF Grows
    <3>3. /\ store[j].phase = "DELETED" => store'[j].phase = "DELETED"
          /\ arq[a].status = "complete" => arq'[a].status = "complete"
          /\ arq'[a].runs = arq[a].runs /\ (Pending(a)' => Pending(a))
      BY <3>1 DEF Lives, Grows
    <3> QED
      BY <2>1, <3>1, <3>2, <3>3 DEF Handled
  <2> QED
    BY <2>2, <2>3
<1>2. ASSUME NEW a \in ArqIds
      PROVE  LastRun(a)'
  BY DEF MessagesInv, LastRun
<1> QED
  BY <1>1, <1>2 DEF MessagesInv

\* A step that ends no run and writes nothing about an arq job that is over.
LEMMA FinalKept ==
    ASSUME UWSInv, UWSInv', OutcomesAreFinal, Grows, NEW a \in ArqIds, Over(a)', Over(a),
           \A j \in Jobs : j = arq[a].job =>
             \/ store'[j] = store[j]
             \/ store'[j].phase = "DELETED"
             \/ /\ store'[j].phase = "ABORTED"
                /\ store'[j].results = store[j].results /\ store'[j].errors = store[j].errors
                /\ store[j].phase # "DELETED"
    PROVE  HasOutcome(a)'
<1>1. arq[a].result # None /\ arq[a].status = "complete"
  BY NoneAssumption DEF Over, Outcomes, UWSInv, ArqInv
<1>2. PICK j \in Jobs : j = arq[a].job /\ j = arq'[a].job
  BY <1>1, JobOfArq DEF Grows
<1>3. arq'[a].result = arq[a].result
  BY <1>1 DEF Grows
<1>4. HasOutcome(a)
  BY DEF OutcomesAreFinal
<1> QED
  BY <1>2, <1>3, <1>4 DEF HasOutcome

-----------------------------------------------------------------------------
\* What is written to a job record.

LEMMA WriteIs ==
    ASSUME UWSInv, NEW j \in Jobs, NEW fields, DOMAIN fields \subseteq Fields,
           update_job(j, fields)
    PROVE  /\ \A k \in Jobs : k # j => store'[k] = store[k]
           /\ ~Exists(j) => store'[j] = store[j]
           /\ Exists(j) => \A f \in Fields :
                store'[j][f] = IF f \in DOMAIN fields THEN fields[f] ELSE store[j][f]
<1>1. store \in [Jobs -> Job] /\ DOMAIN store[j] = Fields
  BY DEF UWSInv, Typed, Job, Fields
<1>2. CASE ~Exists(j)
  BY <1>2 DEF update_job
<1>3. CASE Exists(j)
  <2> DEFINE d == [f \in DOMAIN store[j] |-> IF f \in DOMAIN fields THEN fields[f] ELSE store[j][f]]
  <2>1. store' = [store EXCEPT ![j] = d]
    BY <1>3 DEF update_job
  <2>2. \A f \in Fields : d[f] = IF f \in DOMAIN fields THEN fields[f] ELSE store[j][f]
    BY <1>1
  <2> HIDE DEF d
  <2> QED
    BY <1>1, <1>3, <2>1, <2>2
<1> QED
  BY <1>2, <1>3

\* Only the phase changes, of a job that exists.
LEMMA PhaseIs ==
    ASSUME UWSInv, NEW j \in Jobs, NEW phase \in Phases, update_job(j, [phase |-> phase])
    PROVE  /\ \A k \in Jobs : k # j => store'[k] = store[k]
           /\ ~Exists(j) => store'[j] = store[j]
           /\ Exists(j) =>
                /\ store'[j].phase = phase /\ store'[j].message_id = store[j].message_id
                /\ store'[j].results = store[j].results /\ store'[j].errors = store[j].errors
<1> DEFINE fields == [phase |-> phase]
<1>1. DOMAIN fields = {"phase"} /\ fields["phase"] = phase
  OBVIOUS
<1> HIDE DEF fields
<1>2. DOMAIN fields \subseteq Fields /\ update_job(j, fields)
  BY <1>1 DEF Fields, fields
<1> QED
  BY <1>1, <1>2, WriteIs DEF Fields

\* The phase and one more field change, of a job that exists.
LEMMA PhaseAndIs ==
    ASSUME UWSInv, NEW j \in Jobs, NEW phase \in Phases, NEW value,
           NEW field \in {"message_id", "results", "errors"}, NEW fields,
           DOMAIN fields = {"phase", field}, fields["phase"] = phase, fields[field] = value,
           update_job(j, fields)
    PROVE  /\ \A k \in Jobs : k # j => store'[k] = store[k]
           /\ ~Exists(j) => store'[j] = store[j]
           /\ Exists(j) =>
                /\ store'[j].phase = phase
                /\ store'[j].message_id = IF field = "message_id" THEN value ELSE store[j].message_id
                /\ store'[j].results = IF field = "results" THEN value ELSE store[j].results
                /\ store'[j].errors = IF field = "errors" THEN value ELSE store[j].errors
<1>1. DOMAIN fields \subseteq Fields
  BY DEF Fields
<1> QED
  BY <1>1, WriteIs DEF Fields

LEMMA Live == ASSUME NEW j, Exists(j) PROVE store[j].phase \notin {"NONE", "DELETED"}
BY DEF Exists, Phases, ACTIVE_PHASES

LEMMA LivesIf ==
    ASSUME NEW j \in Jobs, \A k \in Jobs : k # j => store'[k] = store[k],
           store[j].phase = "DELETED" => store'[j] = store[j],
           store'[j] = store[j] \/ store'[j].phase # "NONE",
           \/ store'[j].phase = "DELETED" \/ store'[j] = store[j]
           \/ store[j].message_id # None => store'[j].message_id # None
    PROVE  Lives
BY DEF Lives, Marks, Marked

LEMMA SameLives == UNCHANGED store => Lives
BY DEF Lives, Marks, Marked

-----------------------------------------------------------------------------
\* Requests that start nothing.

\* The request goes to one of the steps, for the same job.
Moves(r, pcs) ==
    /\ \A k \in Requests : k # r => req'[k] = req[k]
    /\ req'[r].op = req[r].op /\ req'[r].job = req[r].job
    /\ req'[r].pc \in pcs

LEMMA GotoMoves ==
    ASSUME UWSInv, NEW r \in Requests, NEW pc, NEW out, Goto(r, pc) \/ Return(r, out)
    PROVE  Moves(r, {pc, "done"})
<1>1. /\ req \in [Requests -> Request]
      /\ req[r] = [op |-> req[r].op, job |-> req[r].job, pc |-> req[r].pc,
                   msg |-> req[r].msg, out |-> req[r].out]
  BY DEF UWSInv, Typed, Request
<1>2. CASE Goto(r, pc)
  BY <1>1, <1>2 DEF Goto, Moves
<1>3. CASE Return(r, out)
  BY <1>1, <1>3 DEF Return, Moves
<1> QED
  BY <1>2, <1>3

LEMMA StopMoves ==
    ASSUME UWSInv, NEW r \in Requests, NEW pc, NEW id,
           req' = [req EXCEPT ![r].msg = id, ![r].pc = pc]
    PROVE  Moves(r, {pc})
<1>1. /\ req \in [Requests -> Request]
      /\ req[r] = [op |-> req[r].op, job |-> req[r].job, pc |-> req[r].pc,
                   msg |-> req[r].msg, out |-> req[r].out]
  BY DEF UWSInv, Typed, Request
<1> QED
  BY <1>1 DEF Moves

LEMMA SyncMoves ==
    ASSUME UWSInv, NEW r \in Requests, SyncAnswer(r)
    PROVE  Moves(r, {"done"})
<1>1. CASE \E out : Return(r, out)
  BY <1>1, GotoMoves DEF Moves
<1>2. CASE req' = [req EXCEPT ![r].pc = "done", ![r].out = "result",
                              ![r].msg = store[req[r].job].results]
  <2>1. /\ req \in [Requests -> Request]
        /\ req[r] = [op |-> req[r].op, job |-> req[r].job, pc |-> req[r].pc,
                     msg |-> req[r].msg, out |-> req[r].out]
    BY DEF UWSInv, Typed, Request
  <2> HIDE DEF UWSInv
  <2>2. PICK id : id = store[req[r].job].results
    OBVIOUS
  <2> QED
    BY <1>2, <2>1, <2>2 DEF Moves
<1> QED
  BY <1>1, <1>2 DEF SyncAnswer

Quiet == {"stop", "stopping", "mark_aborted", "remove", "get", "poll", "last_get", "done"}

LEMMA QuietMoves ==
    ASSUME NEW r \in Requests, Moves(r, Quiet), req[r].pc # "mark_queued"
    PROVE  NoStart
BY DEF Moves, Quiet, NoStart, Starting

\* Every step of a request but create, start_check, start_enqueue and start_mark.
LEMMA OtherSteps ==
    ASSUME UWSInv, Settled, NEW r \in Requests,
           \/ RequestFor(r) \/ abort_job_times_out(r)
           \/ abort_check(r) \/ delete_check(r) \/ abort_job(r) \/ abort_job_returns(r)
           \/ abort_mark(r) \/ delete_job(r)
           \/ sync_get(r) \/ sync_poll(r) \/ sync_wait_over(r) \/ sync_last_get(r)
    PROVE  NoStart /\ NoEnqueue /\ UNCHANGED <<task, worker>>
           /\ \A a \in ArqIds : arq'[a].runs = arq[a].runs /\ arq'[a].result = arq[a].result
<1>1. CASE RequestFor(r)
  <2>1. PICK op \in Ops \intersect {"start", "abort", "delete"}, j \in Jobs :
          req' = [req EXCEPT ![r] = [op |-> op, job |-> j, pc |-> op, msg |-> None, out |-> None]]
    BY <1>1 DEF RequestFor
  <2>2. op \in {"abort", "delete"}
    BY DEF Settled
  <2>3. /\ \A k \in Requests : k # r => req'[k] = req[k]
        /\ req'[r].op = op /\ req'[r].pc = op
    BY <2>1 DEF UWSInv, Typed
  <2>4. NoStart
    BY <1>1, <2>2, <2>3 DEF NoStart, Starting, CreateOps, RequestFor
  <2> QED
    BY <1>1, <2>4 DEF RequestFor, NoEnqueue
<1>2. CASE \/ abort_job_times_out(r) \/ abort_job_returns(r) \/ abort_mark(r) \/ delete_job(r)
           \/ sync_poll(r) \/ sync_wait_over(r)
  <2>1. /\ req[r].pc # "mark_queued" /\ UNCHANGED <<task, worker, arq>>
        /\ \/ \E out : Return(r, out)
           \/ \E pc \in Quiet : Goto(r, pc)
    BY <1>2 DEF abort_job_times_out, abort_job_returns, abort_mark, delete_job, sync_poll,
                sync_wait_over, AfterStop, Quiet
  <2>2. Moves(r, Quiet)
    BY <2>1, GotoMoves DEF Moves, Quiet
  <2> QED
    BY <2>1, <2>2, QuietMoves DEF NoEnqueue
<1>3. CASE abort_check(r) \/ delete_check(r)
  <2>1. /\ req[r].pc # "mark_queued" /\ UNCHANGED <<task, worker, arq>>
        /\ \/ \E out : Return(r, out)
           \/ \E pc \in Quiet : \E id : req' = [req EXCEPT ![r].msg = id, ![r].pc = pc]
    BY <1>3 DEF abort_check, delete_check, Quiet
  <2>2. Moves(r, Quiet)
    <3>1. CASE \E out : Return(r, out)
      BY <3>1, GotoMoves DEF Moves, Quiet
    <3>2. CASE ~\E out : Return(r, out)
      <4>1. PICK pc \in Quiet : \E id : req' = [req EXCEPT ![r].msg = id, ![r].pc = pc]
        BY <2>1, <3>2
      <4>2. Moves(r, {pc})
        BY <4>1, StopMoves
      <4> QED
        BY <4>2 DEF Moves
    <3> QED
      BY <3>1, <3>2
  <2> QED
    BY <2>1, <2>2, QuietMoves DEF NoEnqueue
<1>4. CASE sync_get(r) \/ sync_last_get(r)
  <2>1. /\ req[r].pc # "mark_queued" /\ UNCHANGED <<task, worker, arq>>
        /\ Goto(r, "poll") \/ SyncAnswer(r)
    BY <1>4 DEF sync_get, sync_last_get
  <2>2. Moves(r, Quiet)
    BY <2>1, GotoMoves, SyncMoves DEF Moves, Quiet
  <2> QED
    BY <2>1, <2>2, QuietMoves DEF NoEnqueue
<1>5. CASE abort_job(r)
  <2>1. PICK id : id = req[r].msg
    OBVIOUS
  <2>2. /\ req[r].pc # "mark_queued" /\ UNCHANGED <<task, worker>>
        /\ Goto(r, "stopping") /\ arq' = [arq EXCEPT ![id].abort = TRUE]
    BY <1>5, <2>1 DEF abort_job
  <2>3. Moves(r, Quiet)
    BY <2>2, GotoMoves DEF Moves, Quiet
  <2>4. \A a \in ArqIds : /\ arq'[a].runs = arq[a].runs /\ arq'[a].result = arq[a].result
                          /\ arq'[a].status = arq[a].status /\ arq'[a].job = arq[a].job
    <3>1. arq \in [ArqIds -> ArqJob]
      BY DEF UWSInv, Typed
    <3>2. \A a \in ArqIds : arq[a] = [status |-> arq[a].status, job |-> arq[a].job,
              result |-> arq[a].result, abort |-> arq[a].abort, runs |-> arq[a].runs]
      BY <3>1 DEF ArqJob
    <3> QED
      BY <2>2, <3>1, <3>2
  <2> QED
    BY <2>2, <2>3, <2>4, QuietMoves DEF NoEnqueue
<1> QED
  BY <1>1, <1>2, <1>3, <1>4, <1>5

\* A step that starts nothing, ends no run and tells the database worker
\* nothing: what it may write is an abort or a deletion.
LEMMA OtherKeeps ==
    ASSUME SettledInv, UWSInv', Grows, NoStart, NoEnqueue, UNCHANGED <<task, worker>>,
           \A a \in ArqIds : arq'[a].runs = arq[a].runs /\ arq'[a].result = arq[a].result,
           \A j \in Jobs :
             \/ store'[j] = store[j]
             \/ store[j].phase # "NONE" /\ store'[j].phase = "DELETED"
             \/ /\ store'[j].phase = "ABORTED" /\ store[j].phase # "DELETED"
                /\ store'[j].message_id = store[j].message_id
                /\ store'[j].results = store[j].results /\ store'[j].errors = store[j].errors
    PROVE  SettledInv'
<1>1. UWSInv /\ RequestsInv /\ MessagesInv /\ OutcomesAreFinal
  BY DEF SettledInv
<1>2. Lives
  BY DEF Lives, Marks, Marked
<1>3. RequestsInv' /\ \A a : Pending(a)' <=> Pending(a)
  BY <1>1, <1>2, RequestsInvKept
<1>4. MessagesInv'
  BY <1>1, <1>2, <1>3, MessagesInvKept
<1>5. ASSUME NEW a \in ArqIds, Over(a)'
      PROVE  HasOutcome(a)'
  <2>1. Over(a)
    BY <1>5 DEF Over
  <2> QED
    BY <1>1, <1>5, <2>1, FinalKept
<1> QED
  BY <1>3, <1>4, <1>5 DEF SettledInv, OutcomesAreFinal

LEMMA OtherStepsSettled ==
    ASSUME SettledInv, UWSInv', Settled, NEW r \in Requests,
           \/ RequestFor(r) \/ abort_job_times_out(r)
           \/ abort_check(r) \/ delete_check(r) \/ abort_job(r) \/ abort_job_returns(r)
           \/ abort_mark(r) \/ delete_job(r)
           \/ sync_get(r) \/ sync_poll(r) \/ sync_wait_over(r) \/ sync_last_get(r)
    PROVE  SettledInv'
<1>1. UWSInv
  BY DEF SettledInv
<1>2. /\ NoStart /\ NoEnqueue /\ UNCHANGED <<task, worker>>
      /\ \A a \in ArqIds : arq'[a].runs = arq[a].runs /\ arq'[a].result = arq[a].result
  BY <1>1, OtherSteps
<1>3. UNCHANGED arq \/ abort_job(r)
  BY DEF RequestFor, abort_job_times_out, abort_check, delete_check, abort_job_returns,
         abort_mark, delete_job, sync_get, sync_poll, sync_wait_over, sync_last_get
<1>4. \A a \in ArqIds : arq'[a].status = arq[a].status /\ arq'[a].job = arq[a].job
  <2>1. \A a \in ArqIds : arq[a] \in ArqJob
    BY <1>1 DEF UWSInv, Typed
  <2>2. \A a \in ArqIds : arq[a] = [status |-> arq[a].status, job |-> arq[a].job,
            result |-> arq[a].result, abort |-> arq[a].abort, runs |-> arq[a].runs]
    BY <2>1 DEF ArqJob
  <2>3. arq = [a \in ArqIds |-> arq[a]]
    BY <1>1 DEF UWSInv, Typed
  <2>4. PICK id : id = req[r].msg
    OBVIOUS
  <2>5. UNCHANGED arq \/ arq' = [arq EXCEPT ![id].abort = TRUE]
    BY <1>3, <2>4 DEF abort_job
  <2> QED
    BY <2>2, <2>3, <2>5
<1>5. Grows
  BY <1>2, <1>4 DEF Grows
<1>6. UNCHANGED store \/ abort_mark(r) \/ delete_job(r)
  BY DEF RequestFor, abort_job_times_out, abort_check, delete_check, abort_job_returns,
         abort_job, sync_get, sync_poll, sync_wait_over, sync_last_get
<1>7. ASSUME NEW j \in Jobs
      PROVE  \/ store'[j] = store[j]
             \/ store[j].phase # "NONE" /\ store'[j].phase = "DELETED"
             \/ /\ store'[j].phase = "ABORTED" /\ store[j].phase # "DELETED"
                /\ store'[j].message_id = store[j].message_id
                /\ store'[j].results = store[j].results /\ store'[j].errors = store[j].errors
  <2>1. CASE abort_mark(r)
    <3>1. PICK k \in Jobs : k = req[r].job
      BY <1>1, <2>1, JobsOfRequests DEF abort_mark
    <3>2. update_job(k, [phase |-> "ABORTED"]) /\ "ABORTED" \in Phases
      BY <2>1, <3>1 DEF abort_mark, mark_aborted, Phases
    <3> QED
      BY <1>1, <3>2, PhaseIs, Live
  <2>2. CASE delete_job(r)
    <3>1. PICK k \in Jobs : k = req[r].job
      BY <1>1, <2>2, JobsOfRequests DEF delete_job
    <3>2. \/ UNCHANGED store
          \/ Exists(k) /\ store' = [store EXCEPT ![k] =
               [phase |-> "DELETED", message_id |-> None, results |-> None, errors |-> None]]
      BY <2>2, <3>1 DEF delete_job
    <3>3. Exists(k) => store[k].phase # "NONE"
      BY Live
    <3> QED
      BY <1>1, <3>2, <3>3 DEF UWSInv, Typed
  <2> QED
    BY <1>6, <2>1, <2>2
<1> QED
  BY <1>2, <1>5, <1>7, OtherKeeps

-----------------------------------------------------------------------------
\* Requests that start a job.

\* An outcome stays where nothing is written to the record of the job.
LEMMA FinalSame ==
    ASSUME UWSInv, UWSInv', OutcomesAreFinal, Grows,
           \A a \in ArqIds : Over(a)' => Over(a) /\ store'[arq[a].job] = store[arq[a].job]
    PROVE  OutcomesAreFinal'
<1>1. ASSUME NEW a \in ArqIds, Over(a)'
      PROVE  HasOutcome(a)'
  BY <1>1, FinalKept
<1> QED
  BY <1>1 DEF OutcomesAreFinal

\* What arq has an outcome of was enqueued, and is over.
LEMMA OverIs ==
    ASSUME UWSInv, NEW a \in ArqIds, Over(a)
    PROVE  /\ arq[a].status = "complete" /\ arq[a].job \in Jobs
           /\ arq[a].runs \in 1..MaxRuns
           /\ <<a, arq[a].runs, "completed">> \in Tasks
<1>1. arq[a].result # None /\ ArqInv(a)
  BY NoneAssumption DEF Over, Outcomes, UWSInv
<1> QED
  BY <1>1 DEF ArqInv, Over, Outcomes, Tasks

LEMMA createSettled ==
    ASSUME SettledInv, UWSInv', NEW r \in Requests, create(r)
    PROVE  SettledInv'
<1>1. UWSInv /\ RequestsInv /\ MessagesInv /\ OutcomesAreFinal
  BY DEF SettledInv
<1>2. PICK op \in Ops \intersect CreateOps, j \in Jobs, pc \in {"done", "start"} :
        /\ store[j].phase = "NONE"
        /\ store' = [store EXCEPT ![j].phase = "PENDING"]
        /\ req' = [req EXCEPT ![r] = [op |-> op, job |-> j, msg |-> None, out |-> None, pc |-> pc]]
  BY DEF create, CreateOps
<1>3. req[r].pc = "idle" /\ UNCHANGED <<arq, worker, task, faults>>
  BY DEF create
<1>4. /\ \A k \in Requests : k # r => req'[k] = req[k]
      /\ req'[r].op = op /\ req'[r].job = j /\ req'[r].pc = pc
  BY <1>1, <1>2 DEF UWSInv, Typed
<1>5. /\ \A k \in Jobs : k # j => store'[k] = store[k]
      /\ store'[j].phase = "PENDING" /\ store'[j].message_id = store[j].message_id
  BY <1>1, <1>2 DEF UWSInv, Typed, Job
<1>6. Lives /\ Grows
  BY <1>2, <1>3, <1>5 DEF Lives, Marks, Marked, Grows
<1>7. \A a : Pending(a)' <=> Pending(a)
  BY <1>3, <1>4 DEF Pending
<1>8. ASSUME NEW a \in ArqIds, arq[a].status # "none"
      PROVE  arq[a].job \in Jobs /\ arq[a].job # j
  BY <1>1, <1>2, <1>8, JobOfArq DEF RequestsInv, Enqueued
<1>9. RequestsInv'
  <2>1. OneCreator'
    BY <1>1, <1>2, <1>4 DEF RequestsInv, OneCreator, Creator
  <2>2. OneEnqueued'
    BY <1>1, <1>3 DEF RequestsInv, OneEnqueued
  <2>3. Creator(r)'
    BY <1>3, <1>4, <1>5, <1>8 DEF Creator, Known, Starting
  <2>4. ASSUME NEW s \in Requests, s # r
        PROVE  Creator(s)'
    BY <1>1, <1>3, <1>4, <1>6, <2>4 DEF RequestsInv, Creator, Lives, Known
  <2>5. ASSUME NEW a \in ArqIds
        PROVE  Enqueued(a)'
    BY <1>1, <1>3, <1>5, <1>7, <1>8 DEF RequestsInv, Enqueued, Marked
  <2> QED
    BY <2>1, <2>2, <2>3, <2>4, <2>5 DEF RequestsInv
<1>10. MessagesInv'
  BY <1>1, <1>3, <1>6, <1>7, MessagesInvKept
<1>11. OutcomesAreFinal'
  <2>1. ASSUME NEW a \in ArqIds, Over(a)'
        PROVE  Over(a) /\ store'[arq[a].job] = store[arq[a].job]
    <3>1. Over(a)
      BY <1>3, <2>1 DEF Over
    <3> QED
      BY <1>1, <1>5, <1>8, <3>1, OverIs
  <2> QED
    BY <1>1, <1>6, <2>1, FinalSame
<1> QED
  BY <1>9, <1>10, <1>11 DEF SettledInv

LEMMA start_checkSettled ==
    ASSUME SettledInv, UWSInv', NEW r \in Requests, start_check(r)
    PROVE  SettledInv'
<1>1. UWSInv /\ req[r].pc = "start" /\ UNCHANGED <<store, arq, worker, task>>
      /\ \E out : Goto(r, "enqueue") \/ Return(r, out)
  BY DEF SettledInv, start_check
<1>2. Moves(r, {"enqueue", "done"})
  BY <1>1, GotoMoves
<1>3. NoStart
  BY <1>1, <1>2 DEF Moves, NoStart, Starting
<1>4. NoEnqueue /\ Grows
  BY <1>1 DEF NoEnqueue, Grows
<1> QED
  BY <1>1, <1>3, <1>4, OtherKeeps

LEMMA start_enqueueSettled ==
    ASSUME SettledInv, UWSInv', NEW r \in Requests, start_enqueue(r)
    PROVE  SettledInv'
<1>1. UWSInv /\ RequestsInv /\ MessagesInv /\ OutcomesAreFinal
  BY DEF SettledInv
<1>0. PICK j : j = req[r].job
  OBVIOUS
<1>2. PICK id \in ArqIds :
        /\ arq[id].status = "none"
        /\ arq' = [arq EXCEPT ![id].status = "queued", ![id].job = j]
        /\ req' = [req EXCEPT ![r].pc = "mark_queued", ![r].msg = id]
  BY <1>0 DEF start_enqueue
<1>3. req[r].pc = "enqueue" /\ UNCHANGED <<store, worker, task, faults>>
  BY DEF start_enqueue
<1>4. /\ \A k \in Requests : k # r => req'[k] = req[k]
      /\ req'[r].op = req[r].op /\ req'[r].job = j
      /\ req'[r].pc = "mark_queued" /\ req'[r].msg = id
  <2>1. /\ req \in [Requests -> Request]
        /\ req[r] = [op |-> req[r].op, job |-> req[r].job, pc |-> req[r].pc,
                     msg |-> req[r].msg, out |-> req[r].out]
    BY <1>1 DEF UWSInv, Typed, Request
  <2> QED
    BY <1>0, <1>2, <2>1
<1>5. /\ \A a \in ArqIds : a # id => arq'[a] = arq[a]
      /\ arq'[id].status = "queued" /\ arq'[id].job = j
      /\ arq'[id].runs = arq[id].runs /\ arq'[id].result = arq[id].result
  <2>1. /\ arq \in [ArqIds -> ArqJob]
        /\ arq[id] = [status |-> arq[id].status, job |-> arq[id].job,
              result |-> arq[id].result, abort |-> arq[id].abort, runs |-> arq[id].runs]
    BY <1>1 DEF UWSInv, Typed, ArqJob
  <2> DEFINE c == [arq[id] EXCEPT !.status = "queued", !.job = j]
  <2>2. /\ c.status = "queued" /\ c.job = j
        /\ c.runs = arq[id].runs /\ c.result = arq[id].result
    BY <2>1
  <2>3. arq' = [arq EXCEPT ![id] = c]
    BY <1>2
  <2> HIDE DEF c
  <2> QED
    BY <2>1, <2>2, <2>3
<1>6. Lives /\ Grows
  BY <1>2, <1>3, <1>5, SameLives DEF Grows
<1>7. Pending(id)' /\ \A a : a # id => (Pending(a)' <=> Pending(a))
  BY <1>3, <1>4 DEF Pending
<1>8. /\ req[r].op \in CreateOps /\ j \in Jobs /\ store[j].phase # "NONE"
      /\ \A a \in ArqIds : ~Known(a, j)
  BY <1>0, <1>1, <1>3 DEF RequestsInv, Creator, Starting
<1>9. RequestsInv'
  <2>1. OneCreator'
    <3>1. \A s \in Requests : req'[s].op = req[s].op /\ req'[s].job = req[s].job
      <4>1. j = req[r].job
        BY <1>0
      <4> QED
        BY <1>4, <4>1
    <3> QED
      BY <1>1, <3>1 DEF RequestsInv, OneCreator
  <2>2. OneEnqueued'
    BY <1>1, <1>5, <1>8 DEF RequestsInv, OneEnqueued, Known
  <2>3. Creator(r)'
    BY <1>3, <1>4, <1>8 DEF Creator
  <2>4. ASSUME NEW s \in Requests, s # r
        PROVE  Creator(s)'
    <3>1. Creator(s) /\ req'[s] = req[s] /\ store' = store
      BY <1>1, <1>3, <1>4, <2>4 DEF RequestsInv
    <3>2. req[s].pc \in Starting => req[s].job # j
      BY <1>0, <1>1, <1>8, <2>4, <3>1 DEF RequestsInv, OneCreator, Creator
    <3> QED
      BY <1>5, <3>1, <3>2 DEF Creator, Known, Starting
  <2>5. ASSUME NEW a \in ArqIds
        PROVE  Enqueued(a)'
    BY <1>1, <1>3, <1>5, <1>7, <1>8 DEF RequestsInv, Enqueued, Marked
  <2> QED
    BY <2>1, <2>2, <2>3, <2>4, <2>5 DEF RequestsInv
<1>10. MessagesInv'
  BY <1>1, <1>2, <1>3, <1>5, <1>6, <1>7, MessagesInvKept
<1>11. OutcomesAreFinal'
  <2>1. ASSUME NEW a \in ArqIds, Over(a)'
        PROVE  Over(a) /\ store'[arq[a].job] = store[arq[a].job]
    BY <1>3, <1>5, <2>1 DEF Over
  <2> QED
    BY <1>1, <1>6, <2>1, FinalSame
<1> QED
  BY <1>9, <1>10, <1>11 DEF SettledInv

LEMMA start_markSettled ==
    ASSUME SettledInv, UWSInv', NEW r \in Requests, start_mark(r)
    PROVE  SettledInv'
<1>1. UWSInv /\ RequestsInv /\ MessagesInv /\ OutcomesAreFinal
  BY DEF SettledInv
<1>2. PICK id, j : id = req[r].msg /\ j = req[r].job
  OBVIOUS
<1>3. /\ req[r].pc = "mark_queued" /\ UNCHANGED <<arq, worker, task, faults>>
      /\ mark_queued(j, id) /\ \E out : Goto(r, "get") \/ Return(r, out)
  BY <1>2 DEF start_mark
<1>4. j \in Jobs /\ id \in ArqIds /\ Known(id, j)
  BY <1>1, <1>2, <1>3 DEF UWSInv, RequestInv, Known
<1>5. /\ \A k \in Jobs : k # j => store'[k] = store[k]
      /\ ~Exists(j) => store'[j] = store[j]
      /\ Exists(j) => store'[j].phase = "QUEUED" /\ store'[j].message_id = id
  <2> DEFINE fields == [phase |-> "QUEUED", message_id |-> id]
  <2>1. /\ DOMAIN fields = {"phase", "message_id"}
        /\ fields["phase"] = "QUEUED" /\ fields["message_id"] = id
    OBVIOUS
  <2>2. update_job(j, fields) /\ "QUEUED" \in Phases
    BY <1>3 DEF mark_queued, Phases, ACTIVE_PHASES
  <2> HIDE DEF fields
  <2> QED
    BY <1>1, <1>4, <2>1, <2>2, PhaseAndIs
<1>6. Lives /\ Grows
  <2>1. id # None
    BY <1>4, NoneAssumption
  <2> QED
    BY <1>3, <1>4, <1>5, <2>1, Live, LivesIf DEF Grows
<1>7. /\ \A k \in Requests : k # r => req'[k] = req[k]
      /\ req'[r].op = req[r].op /\ req'[r].job = req[r].job /\ req'[r].pc \in {"get", "done"}
  BY <1>1, <1>3, GotoMoves DEF Moves
<1>8. \A a : /\ Pending(a)' => Pending(a)
             /\ a # id /\ Pending(a) => Pending(a)'
  BY <1>2, <1>7 DEF Pending
<1>9. Marked(j)'
  <2>1. store[j].phase # "NONE" /\ store[j].phase \in Phases \union {"NONE", "DELETED"}
    BY <1>1, <1>4 DEF RequestsInv, Enqueued, Known, UWSInv, Typed, Job
  <2> QED
    BY <1>4, <1>5, <2>1, NoneAssumption DEF Marked, Exists
<1>10. RequestsInv'
  <2>1. OneCreator'
    BY <1>1, <1>7 DEF RequestsInv, OneCreator
  <2>2. OneEnqueued'
    BY <1>1, <1>3 DEF RequestsInv, OneEnqueued
  <2>3. ASSUME NEW s \in Requests
        PROVE  Creator(s)'
    BY <1>1, <1>3, <1>6, <1>7 DEF RequestsInv, Creator, Lives, Known, Starting
  <2>4. ASSUME NEW a \in ArqIds, arq[a].status # "none"
        PROVE  Enqueued(a)'
    <3>1. PICK k \in Jobs : k = arq[a].job /\ k = arq'[a].job
      BY <1>1, <1>3, <2>4, JobOfArq
    <3>2. store'[k].phase # "NONE" /\ (Marked(k) => Marked(k)')
      BY <1>1, <1>6, <2>4, <3>1 DEF RequestsInv, Enqueued, Lives, Marks
    <3>3. Pending(a) \/ Marked(k)
      BY <1>1, <2>4, <3>1 DEF RequestsInv, Enqueued
    <3>4. a = id => Marked(k)'
      BY <1>4, <1>9, <3>1 DEF Known
    <3> QED
      BY <1>8, <3>1, <3>2, <3>3, <3>4 DEF Enqueued, Marked
  <2>5. \A a \in ArqIds : Enqueued(a)'
    BY <1>3, <2>4 DEF Enqueued
  <2> QED
    BY <2>1, <2>2, <2>3, <2>5 DEF RequestsInv
<1>11. MessagesInv'
  BY <1>1, <1>3, <1>6, <1>8, MessagesInvKept
<1>12. OutcomesAreFinal'
  <2>1. ASSUME NEW a \in ArqIds, Over(a)'
        PROVE  Over(a) /\ store'[arq[a].job] = store[arq[a].job]
    <3>1. Over(a)
      BY <1>3, <2>1 DEF Over
    <3>2. <<a, arq[a].runs, "completed">> \in Tasks /\ arq[a].status = "complete" /\ arq[a].job \in Jobs
      BY <1>1, <3>1, OverIs
    <3>3. ~Pending(a)
      BY <1>1, <3>1, <3>2 DEF MessagesInv, Handled, Over
    <3>4. a # id
      BY <1>2, <1>3, <3>3 DEF Pending
    <3>5. arq[a].job # j
      BY <1>1, <1>4, <3>2, <3>4 DEF RequestsInv, OneEnqueued, Known
    <3> QED
      BY <1>5, <3>1, <3>2, <3>5
  <2> QED
    BY <1>1, <1>6, <2>1, FinalSame
<1> QED
  BY <1>10, <1>11, <1>12 DEF SettledInv

-----------------------------------------------------------------------------
\* The backend worker.

\* Requests and records do not change.
LEMMA WorkerKeeps ==
    ASSUME SettledInv, UWSInv', Grows, UNCHANGED <<store, req>>, NoEnqueue
    PROVE  /\ RequestsInv' /\ \A a : Pending(a)' <=> Pending(a)
           /\ (\A a \in ArqIds : Over(a)' => Over(a)) => OutcomesAreFinal'
<1>1. UWSInv /\ RequestsInv /\ OutcomesAreFinal /\ Lives
  BY SameLives DEF SettledInv
<1>2. NoStart
  BY DEF NoStart
<1>3. RequestsInv' /\ \A a : Pending(a)' <=> Pending(a)
  BY <1>1, <1>2, RequestsInvKept
<1>4. ASSUME \A a \in ArqIds : Over(a)' => Over(a)
      PROVE  OutcomesAreFinal'
  BY <1>1, <1>4, FinalSame
<1> QED
  BY <1>3, <1>4

\* A message that is sent is one of the last run.
LEMMA HandledSent ==
    ASSUME UWSInv, UWSInv', MessagesInv, Grows, UNCHANGED store,
           \A a \in ArqIds : arq[a].status # "none" /\ Pending(a)' => Pending(a),
           \A a \in ArqIds : arq[a].runs <= arq'[a].runs,
           NEW t \in Tasks,
           task'[t] = task[t] \/ (task'[t].pc = "queued" /\ t[2] <= arq'[t[1]].runs)
    PROVE  Handled(t)'
<1>1. Handled(t) /\ TaskInv(t) /\ t[1] \in ArqIds /\ t[2] \in Nat
  BY BoundAssumption DEF MessagesInv, UWSInv, Tasks
<1>2. arq[t[1]].runs \in Nat /\ arq'[t[1]].runs \in Nat /\ arq[t[1]].runs <= arq'[t[1]].runs
  BY <1>1, BoundAssumption DEF UWSInv, Typed, ArqJob
<1>3. task'[t].pc # "none" => t[2] <= arq'[t[1]].runs
  BY <1>1, <1>2 DEF Handled
<1>4. CASE task'[t].pc \in {"none", "queued"}
  BY <1>3, <1>4 DEF Handled
<1>5. CASE task'[t].pc \notin {"none", "queued"}
  <2>1. task'[t] = task[t]
    BY <1>5
  <2>2. PICK a \in ArqIds : a = t[1] /\ arq[a].status # "none"
    BY <1>1, <1>5, <2>1 DEF TaskInv
  <2>3. PICK j : j = arq[a].job /\ j = arq'[a].job
    BY <2>2 DEF Grows
  <2>4. (arq[a].status = "complete" => arq'[a].status = "complete") /\ (Pending(a)' => Pending(a))
    BY <2>2 DEF Grows
  <2> QED
    BY <1>1, <1>3, <1>5, <2>1, <2>2, <2>3, <2>4 DEF Handled
<1> QED
  BY <1>4, <1>5

\* A busy worker goes on with its job, and may send a message about it.  It
\* reports the end when nothing but storing the result is left to do.
LEMMA BusySettled ==
    ASSUME SettledInv, UWSInv', NEW w \in Workers, worker[w].pc # "idle",
           UNCHANGED <<store, arq, req>>,
           \A v \in Workers : v # w => worker'[v] = worker[v],
           worker'[w].arq = worker[w].arq,
           \/ UNCHANGED task /\ worker[w].pc \in {"begin", "executing", "finally"}
           \/ Send(w, "started") /\ worker[w].pc = "begin"
           \/ Send(w, "completed") /\ worker'[w].pc = "return"
    PROVE  SettledInv'
<1>1. UWSInv /\ RequestsInv /\ MessagesInv /\ OutcomesAreFinal
  BY DEF SettledInv
<1>2. PICK id \in ArqIds, n \in 1..MaxRuns :
        /\ id = worker[w].arq /\ n = arq[id].runs /\ arq[id].status = "running"
        /\ <<id, n, "started">> \in Tasks /\ <<id, n, "completed">> \in Tasks
        /\ \A v \in Workers : v # w /\ worker[v].pc # "idle" => worker[v].arq # id
  BY <1>1, RunningJob DEF Running, ThisRun
<1>3. PICK kind \in {"started", "completed"} :
        /\ \A t \in Tasks : task'[t] = task[t] \/ (t = <<id, n, kind>> /\ task'[t].pc = "queued")
        /\ kind = "started" => worker[w].pc \in {"begin", "executing", "finally"}
        /\ kind = "completed" => worker'[w].pc = "return"
  <2>1. task \in [Tasks -> Task]
    BY <1>1 DEF UWSInv, Typed
  <2>2. ASSUME NEW kind \in {"started", "completed"}, Send(w, kind)
        PROVE  \A t \in Tasks : task'[t] = task[t] \/ (t = <<id, n, kind>> /\ task'[t].pc = "queued")
    <3>1. PICK u \in Tasks : u = <<id, n, kind>>
      BY <1>2
    <3> DEFINE c == [task[u] EXCEPT !.pc = "queued"]
    <3>2. task' = [task EXCEPT ![u] = c]
      BY <1>2, <2>2, <3>1 DEF Send, Running, ThisRun
    <3>3. c.pc = "queued"
      BY <2>1 DEF Task
    <3> HIDE DEF c
    <3>4. \A t \in Tasks : task'[t] = IF t = u THEN c ELSE task[t]
      BY <2>1, <3>2
    <3>5. \A t \in Tasks : task'[t] = task[t] \/ (t = u /\ task'[t].pc = "queued")
      BY <3>3, <3>4
    <3> QED
      BY <3>1, <3>5
  <2>3. CASE UNCHANGED task /\ worker[w].pc \in {"begin", "executing", "finally"}
    <3>1. PICK kind \in {"started", "completed"} : kind = "started"
      OBVIOUS
    <3>2. kind # "completed" /\ \A t \in Tasks : task'[t] = task[t]
      BY <2>3, <3>1
    <3> QED
      BY <2>3, <3>2
  <2>4. CASE Send(w, "started") /\ worker[w].pc = "begin"
    BY <2>2, <2>4
  <2>5. CASE Send(w, "completed") /\ worker'[w].pc = "return"
    BY <2>2, <2>5
  <2> QED
    BY <2>3, <2>4, <2>5
<1>4. Grows /\ NoEnqueue
  <2>1. \A t \in Tasks : task[t].pc # "none" => task'[t].pc # "none"
    BY <1>3
  <2> QED
    BY <2>1 DEF Grows, NoEnqueue
<1>5. RequestsInv' /\ \A a : Pending(a)' <=> Pending(a)
  BY <1>4, WorkerKeeps
<1>6. ASSUME NEW t \in Tasks
      PROVE  Handled(t)'
  <2>1. \A a \in ArqIds : arq[a].runs <= arq'[a].runs
    BY <1>1, BoundAssumption DEF UWSInv, Typed, ArqJob
  <2>2. task'[t] = task[t] \/ (task'[t].pc = "queued" /\ t[2] <= arq'[t[1]].runs)
    <3>1. CASE t = <<id, n, kind>>
      <4>1. t[1] = id /\ t[2] = n /\ n <= n /\ arq'[id].runs = n
        BY <1>2, <3>1, BoundAssumption
      <4> QED
        BY <1>3, <4>1
    <3>2. CASE t # <<id, n, kind>>
      BY <1>3, <3>2
    <3> QED
      BY <3>1, <3>2
  <2> QED
    BY <1>1, <1>4, <1>5, <2>1, <2>2, HandledSent
<1>7. ASSUME NEW a \in ArqIds
      PROVE  LastRun(a)'
  <2>1. LastRun(a) /\ arq'[a].runs = arq[a].runs /\ arq[a].runs \in 0..MaxRuns
    BY <1>1 DEF MessagesInv, UWSInv, Typed, ArqJob
  <2>2. CASE a # id
    <3>1. \A m \in 1..MaxRuns, k \in {"started", "completed"} :
            <<a, m, k>> \in Tasks /\ task'[<<a, m, k>>] = task[<<a, m, k>>]
      <4>1. \A m \in 1..MaxRuns, k \in {"started", "completed"} :
              <<a, m, k>> \in Tasks /\ <<a, m, k>> # <<id, n, kind>>
        BY <2>2 DEF Tasks
      <4> QED
        BY <1>3, <4>1
    <3>2. \A v \in Workers : worker'[v].arq = a => worker'[v] = worker[v]
      BY <1>2, <2>2
    <3>3. arq[a].runs # 0 =>
            arq[a].runs \in 1..MaxRuns /\ 1..arq[a].runs \subseteq 1..MaxRuns
      BY <2>1, BoundAssumption
    <3> QED
      BY <2>1, <3>1, <3>2, <3>3 DEF LastRun
  <2>3. CASE a = id /\ kind = "completed"
    <3>1. \A v \in Workers : worker'[v].arq = id =>
            worker'[v].pc \notin {"begin", "executing", "finally"}
      BY <1>2, <1>3, <2>3
    <3>2. ASSUME NEW m \in 1..n
          PROVE  task'[<<id, m, "started">>] = task[<<id, m, "started">>]
      <4>1. <<id, m, "started">> \in Tasks /\ <<id, m, "started">> # <<id, n, kind>>
        BY <2>3, BoundAssumption DEF Tasks
      <4> QED
        BY <1>3, <4>1
    <3>3. \/ task'[<<id, n, "completed">>].pc = "queued"
          \/ task'[<<id, n, "completed">>] = task[<<id, n, "completed">>]
      BY <1>2, <1>3
    <3> QED
      BY <1>2, <2>1, <2>3, <3>1, <3>2, <3>3 DEF LastRun
  <2>4. CASE a = id /\ kind = "started"
    <3>1. task[<<id, n, "completed">>].pc = "none"
      BY <1>2, <1>3, <2>1, <2>4 DEF LastRun
    <3>2. task'[<<id, n, "completed">>].pc = "none"
      <4>1. <<id, n, "completed">> # <<id, n, kind>>
        BY <2>4
      <4> QED
        BY <1>2, <1>3, <3>1, <4>1
    <3> QED
      BY <1>2, <2>4, <3>2 DEF LastRun
  <2> QED
    BY <2>2, <2>3, <2>4
<1>8. ASSUME NEW a \in ArqIds, Over(a)'
      PROVE  Over(a)
  <2>1. arq[a].result \in Outcomes /\ arq[a].runs \in 1..MaxRuns
    <3>1. arq[a].result # None /\ ArqInv(a)
      BY <1>1, <1>8, NoneAssumption DEF Over, Outcomes, UWSInv
    <3> QED
      BY <1>8, <3>1 DEF Over, Outcomes, ArqInv
  <2>2. <<a, arq[a].runs, "completed">> \in Tasks
    BY <2>1 DEF Tasks
  <2> QED
    BY <1>3, <1>8, <2>1, <2>2 DEF Over
<1>9. OutcomesAreFinal'
  BY <1>4, <1>8, WorkerKeeps
<1> QED
  BY <1>5, <1>6, <1>7, <1>9 DEF SettledInv, MessagesInv

LEMMA BusyStepsSettled ==
    ASSUME SettledInv, UWSInv', NEW w \in Workers,
           \/ notify_started(w) \/ execute(w) \/ time_out(w) \/ cancel_for_abort(w)
           \/ cancel_for_timeout(w) \/ cancel_for_shutdown(w) \/ notify_completed(w)
    PROVE  SettledInv'
<1>1. \/ notify_started(w) \/ execute(w) \/ time_out(w) \/ notify_completed(w)
      \/ \E outcome : cancel(w, outcome)
  BY DEF cancel_for_abort, cancel_for_timeout, cancel_for_shutdown
<1>2. \/ \E pc : worker' = [worker EXCEPT ![w].pc = pc]
      \/ \E pc, outcome : worker' = [worker EXCEPT ![w].pc = pc, ![w].outcome = outcome]
  BY <1>1 DEF notify_started, execute, time_out, cancel, notify_completed
<1>3. /\ worker \in [Workers -> Worker]
      /\ worker[w] = [pc |-> worker[w].pc, arq |-> worker[w].arq, outcome |-> worker[w].outcome]
  BY DEF SettledInv, UWSInv, Typed, Worker
<1>4. /\ \A v \in Workers : v # w => worker'[v] = worker[v]
      /\ worker'[w].arq = worker[w].arq
  BY <1>2, <1>3
<1>5. /\ worker[w].pc # "idle" /\ UNCHANGED <<store, arq, req>>
      /\ \/ UNCHANGED task /\ worker[w].pc \in {"begin", "executing", "finally"}
         \/ Send(w, "started") /\ worker[w].pc = "begin"
         \/ Send(w, "completed") /\ worker'[w].pc = "return"
  BY <1>1, <1>3 DEF notify_started, execute, time_out, cancel_for_abort, cancel_for_timeout,
         cancel_for_shutdown, cancel, Message, notify_completed
<1> QED
  BY <1>4, <1>5, BusySettled

\* What happens to the arq job of a step of arq itself.
LEMMA RunsGrow ==
    ASSUME SettledInv, UWSInv', NEW id \in ArqIds, UNCHANGED <<store, task, req>>,
           arq[id].status \in {"queued", "running"}, arq'[id].status # "none",
           arq'[id].job = arq[id].job, arq[id].runs <= arq'[id].runs,
           \A a \in ArqIds : a # id => arq'[a] = arq[a]
    PROVE  /\ Grows /\ NoEnqueue /\ RequestsInv' /\ \A t \in Tasks : Handled(t)'
           /\ \A a : Pending(a)' <=> Pending(a)
<1>1. UWSInv /\ RequestsInv /\ MessagesInv
  BY DEF SettledInv
<1>2. Grows /\ NoEnqueue
  BY DEF Grows, NoEnqueue
<1>3. RequestsInv' /\ \A a : Pending(a)' <=> Pending(a)
  BY <1>2, WorkerKeeps
<1>4. \A a \in ArqIds : arq[a].runs <= arq'[a].runs
  <2>1. \A a \in ArqIds : arq[a].runs \in Nat
    BY <1>1, BoundAssumption DEF UWSInv, Typed, ArqJob
  <2> QED
    BY <2>1
<1>5. ASSUME NEW t \in Tasks
      PROVE  Handled(t)'
  BY <1>1, <1>2, <1>3, <1>4, HandledSent
<1> QED
  BY <1>2, <1>3, <1>5

LEMMA pick_upSettled ==
    ASSUME SettledInv, UWSInv', NEW w \in Workers, pick_up(w)
    PROVE  SettledInv'
<1>1. UWSInv /\ RequestsInv /\ MessagesInv /\ OutcomesAreFinal
  BY DEF SettledInv
<1>2. PICK id \in ArqIds :
        /\ arq[id].status = "queued"
        /\ \/ /\ arq' = [arq EXCEPT ![id].status = "complete", ![id].result = "cancelled"]
              /\ UNCHANGED worker
           \/ /\ arq' = [arq EXCEPT ![id].status = "running", ![id].runs = @ + 1]
              /\ worker' = [worker EXCEPT ![w] =
                              [pc |-> "begin", arq |-> id, outcome |-> None]]
  BY DEF pick_up
<1>3. worker[w].pc = "idle" /\ UNCHANGED <<store, task, req, faults>>
  BY DEF pick_up
<1>4. /\ arq[id] \in ArqJob /\ ArqInv(id) /\ arq[id].result = None
      /\ arq[id].runs \in Nat /\ arq[id].runs < MaxRuns
  BY <1>1, <1>2, BoundAssumption DEF UWSInv, Typed, ArqJob, ArqInv
<1>5. PICK c : /\ arq' = [arq EXCEPT ![id] = c]
               /\ c.job = arq[id].job /\ c.result \in {None, "cancelled"}
               /\ \/ c.status = "complete" /\ c.runs = arq[id].runs /\ UNCHANGED worker
                  \/ /\ c.status = "running" /\ c.runs = arq[id].runs + 1
                     /\ worker' = [worker EXCEPT ![w] =
                                     [pc |-> "begin", arq |-> id, outcome |-> None]]
  <2>1. CASE /\ arq' = [arq EXCEPT ![id].status = "complete", ![id].result = "cancelled"]
             /\ UNCHANGED worker
    <3> DEFINE c == [arq[id] EXCEPT !.status = "complete", !.result = "cancelled"]
    <3>1. arq' = [arq EXCEPT ![id] = c]
      BY <2>1
    <3>2. /\ c.job = arq[id].job /\ c.result = "cancelled" /\ c.status = "complete"
          /\ c.runs = arq[id].runs
      BY <1>4 DEF ArqJob
    <3> HIDE DEF c
    <3> QED
      BY <2>1, <3>1, <3>2
  <2>2. CASE /\ arq' = [arq EXCEPT ![id].status = "running", ![id].runs = @ + 1]
             /\ worker' = [worker EXCEPT ![w] = [pc |-> "begin", arq |-> id, outcome |-> None]]
    <3> DEFINE n == arq[id].runs + 1
               c == [arq[id] EXCEPT !.status = "running", !.runs = n]
    <3>1. arq' = [arq EXCEPT ![id] = c]
      BY <2>2
    <3> HIDE DEF n
    <3>2. c.job = arq[id].job /\ c.result = None /\ c.status = "running" /\ c.runs = n
      BY <1>4 DEF ArqJob
    <3> HIDE DEF c
    <3> QED
      BY <2>2, <3>1, <3>2 DEF n
  <2> QED
    BY <1>2, <2>1, <2>2
<1>6. arq'[id] = c /\ \A a \in ArqIds : a # id => arq'[a] = arq[a]
  BY <1>1, <1>5 DEF UWSInv, Typed
<1>7. /\ Grows /\ NoEnqueue /\ RequestsInv' /\ \A t \in Tasks : Handled(t)'
      /\ \A a : Pending(a)' <=> Pending(a)
  <2>1. arq[id].runs <= arq'[id].runs
    BY <1>4, <1>5, <1>6
  <2>2. arq'[id].status # "none" /\ arq'[id].job = arq[id].job
    BY <1>5, <1>6
  <2> QED
    BY <1>2, <1>3, <1>6, <2>1, <2>2, RunsGrow
<1>8. ASSUME NEW a \in ArqIds
      PROVE  LastRun(a)'
  <2>1. LastRun(a)
    BY <1>1 DEF MessagesInv
  <2>2. CASE a # id
    <3>1. \A v \in Workers : worker'[v].arq = a => worker'[v] = worker[v]
      BY <1>1, <1>5, <2>2 DEF UWSInv, Typed
    <3> QED
      BY <1>3, <1>6, <2>1, <2>2, <3>1 DEF LastRun
  <2>3. CASE a = id /\ UNCHANGED worker /\ c.runs = arq[id].runs
    BY <1>3, <1>6, <2>1, <2>3 DEF LastRun
  <2>4. CASE a = id /\ c.runs = arq[id].runs + 1
    <3>3. PICK n \in 1..MaxRuns : n = c.runs
      BY <1>4, <2>4, BoundAssumption
    <3>4. <<id, n, "completed">> \in Tasks
      BY DEF Tasks
    <3>1. PICK t \in Tasks : t = <<id, c.runs, "completed">> /\ t[1] = id /\ t[2] = c.runs
      BY <3>3, <3>4
    <3>2. task[t].pc = "none"
      BY <1>1, <1>4, <2>4, <3>1 DEF MessagesInv, Handled
    <3> QED
      BY <1>3, <1>6, <2>4, <3>1, <3>2 DEF LastRun
  <2> QED
    BY <1>5, <2>2, <2>3, <2>4
<1>9. ASSUME NEW a \in ArqIds, Over(a)'
      PROVE  Over(a)
  <2>1. a # id
    BY <1>5, <1>6, <1>9, NoneAssumption DEF Over, Outcomes
  <2> QED
    BY <1>3, <1>6, <1>9, <2>1 DEF Over
<1>10. OutcomesAreFinal'
  BY <1>3, <1>7, <1>9, WorkerKeeps
<1> QED
  BY <1>7, <1>8, <1>10 DEF SettledInv, MessagesInv

\* If the message about the end was done with before arq has the outcome, the
\* job is deleted.
LEMMA store_resultSettled ==
    ASSUME SettledInv, UWSInv', NEW w \in Workers, store_result(w)
    PROVE  SettledInv'
<1>1. UWSInv /\ RequestsInv /\ MessagesInv /\ OutcomesAreFinal
  BY DEF SettledInv
<1>2. PICK id \in ArqIds, n \in 1..MaxRuns :
        /\ id = worker[w].arq /\ n = arq[id].runs /\ arq[id].status = "running"
        /\ <<id, n, "completed">> \in Tasks
  BY <1>1, RunningJob DEF store_result, Running, ThisRun
<1>3. UNCHANGED <<store, task, req, faults>>
  BY DEF store_result
<1>4. arq[id] \in ArqJob
  BY <1>1 DEF UWSInv, Typed
<1>5. PICK c : /\ arq' = [arq EXCEPT ![id] = c]
               /\ c.job = arq[id].job /\ c.runs = n /\ c.status # "none"
  <2> DEFINE outcome == worker[w].outcome
  <2>1. CASE outcome = "again"
    <3> DEFINE c == [arq[id] EXCEPT !.status = "queued"]
    <3>1. arq' = [arq EXCEPT ![id] = c]
      BY <1>2, <2>1 DEF store_result, Running
    <3>2. c.job = arq[id].job /\ c.runs = n /\ c.status = "queued"
      BY <1>2, <1>4 DEF ArqJob
    <3> HIDE DEF c
    <3> QED
      BY <3>1, <3>2
  <2>2. CASE outcome # "again"
    <3> DEFINE c == [arq[id] EXCEPT !.status = "complete", !.result = outcome]
    <3>1. arq' = [arq EXCEPT ![id] = c]
      BY <1>2, <2>2 DEF store_result, Running
    <3> HIDE DEF outcome
    <3>2. c.job = arq[id].job /\ c.runs = n /\ c.status = "complete"
      BY <1>2, <1>4 DEF ArqJob
    <3> HIDE DEF c
    <3> QED
      BY <3>1, <3>2
  <2> QED
    BY <2>1, <2>2
<1>6. arq'[id] = c /\ \A a \in ArqIds : a # id => arq'[a] = arq[a]
  BY <1>1, <1>5 DEF UWSInv, Typed
<1>7. /\ Grows /\ NoEnqueue /\ RequestsInv' /\ \A t \in Tasks : Handled(t)'
      /\ \A a : Pending(a)' <=> Pending(a)
  <2>1. arq[id].runs <= arq'[id].runs
    BY <1>2, <1>5, <1>6, BoundAssumption
  <2>2. arq'[id].status # "none" /\ arq'[id].job = arq[id].job
    BY <1>5, <1>6
  <2> QED
    BY <1>2, <1>3, <1>6, <2>1, <2>2, RunsGrow
<1>8. ASSUME NEW a \in ArqIds
      PROVE  LastRun(a)'
  <2>1. LastRun(a) /\ arq'[a].runs = arq[a].runs
    BY <1>1, <1>2, <1>5, <1>6 DEF MessagesInv
  <2>2. \A v \in Workers : worker'[v] = worker[v] \/ worker'[v].pc = "idle"
    BY <1>1 DEF store_result, UWSInv, Typed
  <2> QED
    BY <1>3, <2>1, <2>2 DEF LastRun
<1>9. ASSUME NEW a \in ArqIds, Over(a)'
      PROVE  HasOutcome(a)'
  <2>1. CASE a = id
    <3>1. PICK t \in Tasks : t = <<id, n, "completed">> /\ t[1] = id /\ t[3] = "completed"
      BY <1>2
    <3>2. task[t].pc = "done"
      BY <1>3, <1>5, <1>6, <1>9, <2>1, <3>1 DEF Over
    <3>3. store[arq[id].job].phase = "DELETED"
      BY <1>1, <1>2, <3>1, <3>2 DEF MessagesInv, Handled
    <3> QED
      BY <1>3, <1>5, <1>6, <2>1, <3>3 DEF HasOutcome
  <2>2. CASE a # id
    <3>1. Over(a)
      BY <1>3, <1>6, <1>9, <2>2 DEF Over
    <3> QED
      BY <1>1, <1>3, <1>7, <1>9, <3>1, FinalKept
  <2> QED
    BY <2>1, <2>2
<1> QED
  BY <1>7, <1>8, <1>9 DEF SettledInv, MessagesInv, OutcomesAreFinal

-----------------------------------------------------------------------------
\* The database worker.

\* A message is handled one step further.
LEMMA MessageSettled ==
    ASSUME SettledInv, UWSInv', Lives, UNCHANGED <<arq, worker, req>>,
           NEW t \in Tasks, task[t].pc # "none", ~Pending(t[1]),
           \A u \in Tasks : u # t => task'[u] = task[u],
           task'[t].pc \in {"polling", "record", "done"},
           task'[t].pc \in {"polling", "record"} => t[3] = "completed",
           task'[t].pc = "record" => task'[t].res # "unavailable",
           t[3] = "completed" /\ task'[t].pc = "done" =>
             store'[arq[t[1]].job].phase = "DELETED" \/ arq[t[1]].status = "complete",
           t[3] = "completed" /\ t[2] = arq[t[1]].runs =>
             \A n \in 1..t[2] : task[<<t[1], n, "started">>].pc \in {"none", "done"}
    PROVE  Grows /\ RequestsInv' /\ MessagesInv'
<1>1. UWSInv /\ RequestsInv /\ MessagesInv
  BY DEF SettledInv
<1>2. Grows /\ NoEnqueue /\ NoStart
  BY DEF Grows, NoEnqueue, NoStart
<1>3. RequestsInv' /\ \A a : Pending(a)' <=> Pending(a)
  BY <1>1, <1>2, RequestsInvKept
<1>4. ASSUME NEW u \in Tasks
      PROVE  Handled(u)'
  <2>1. Handled(u) /\ TaskInv(u) /\ u[1] \in ArqIds
    BY <1>1 DEF MessagesInv, UWSInv, Tasks
  <2>2. CASE u = t
    BY <1>3, <2>1, <2>2 DEF Handled
  <2>3. CASE u # t /\ task[u].pc # "none"
    <3>1. PICK a, j : a = u[1] /\ j = arq[a].job
      OBVIOUS
    <3>2. j \in Jobs
      BY <1>1, <2>1, <2>3, <3>1, JobOfArq DEF TaskInv
    <3>3. store[j].phase = "DELETED" => store'[j].phase = "DELETED"
      BY <3>2 DEF Lives
    <3> QED
      BY <1>3, <2>1, <2>3, <3>1, <3>3 DEF Handled
  <2>4. CASE u # t /\ task[u].pc = "none"
    BY <2>4 DEF Handled
  <2> QED
    BY <2>2, <2>3, <2>4
<1>5. ASSUME NEW a \in ArqIds, arq[a].runs # 0
      PROVE  LastRun(a)'
  <2>1. LastRun(a) /\ arq[a].runs \in 1..MaxRuns
    BY <1>1, <1>5, BoundAssumption DEF MessagesInv, UWSInv, Typed, ArqJob
  <2>2. PICK end \in Tasks : end = <<a, arq[a].runs, "completed">>
    BY <2>1 DEF Tasks
  <2>3. ASSUME NEW n \in 1..arq[a].runs
        PROVE  /\ <<a, n, "started">> \in Tasks /\ <<a, n, "started">> # end
               /\ \/ task'[<<a, n, "started">>] = task[<<a, n, "started">>]
                  \/ task'[<<a, n, "started">>].pc = "done"
    <3>1. <<a, n, "started">> \in Tasks
      <4>1. n \in 1..MaxRuns
        BY <2>1, BoundAssumption
      <4> QED
        BY <4>1 DEF Tasks
    <3>2. <<a, n, "started">>[3] = "started" /\ end[3] = "completed"
      BY <2>2
    <3>3. <<a, n, "started">> = t => task'[t].pc = "done"
      BY <3>2
    <3> QED
      BY <3>1, <3>2, <3>3
  <2>4. CASE end # t
    <3>1. task'[end] = task[end]
      BY <2>4
    <3> QED
      BY <2>1, <2>2, <2>3, <3>1 DEF LastRun
  <2>5. CASE end = t
    <3>1. a = t[1] /\ t[2] = arq[a].runs /\ t[3] = "completed"
      BY <2>2, <2>5
    <3>2. \A n \in 1..arq[a].runs : task'[<<a, n, "started">>].pc \in {"none", "done"}
      <4>1. \A n \in 1..arq[a].runs : task[<<a, n, "started">>].pc \in {"none", "done"}
        BY <3>1
      <4> QED
        BY <2>3, <4>1
    <3> QED
      BY <2>1, <2>2, <2>5, <3>2 DEF LastRun
  <2> QED
    BY <2>4, <2>5
<1>6. \A a \in ArqIds : LastRun(a)'
  BY <1>5 DEF LastRun
<1> QED
  BY <1>2, <1>3, <1>4, <1>6 DEF MessagesInv

LEMMA FinishIs ==
    ASSUME UWSInv, NEW t \in Tasks, Finish(t)
    PROVE  task'[t].pc = "done" /\ \A u \in Tasks : u # t => task'[u] = task[u]
<1> DEFINE c == [task[t] EXCEPT !.pc = "done"]
<1>1. task \in [Tasks -> Task] /\ c.pc = "done"
  BY DEF UWSInv, Typed, Task
<1>2. task' = [task EXCEPT ![t] = c]
  BY DEF Finish
<1> HIDE DEF c
<1> QED
  BY <1>1, <1>2

\* A job is of one arq job only.
LEMMA OtherJob ==
    ASSUME SettledInv, NEW t \in Tasks, task[t].pc # "none", NEW a \in ArqIds, a # t[1],
           arq[a].status # "none"
    PROVE  arq[a].job # JobOf(t)
<1>1. UWSInv /\ RequestsInv
  BY DEF SettledInv
<1> QED
  BY <1>1, JobOfTask DEF RequestsInv, OneEnqueued, JobOf

\* A record is written to or kept, never made or brought back.
LEMMA WrittenLives ==
    ASSUME UWSInv, NEW j \in Jobs, NEW phase \in Phases,
           \A k \in Jobs : k # j => store'[k] = store[k],
           ~Exists(j) => store'[j] = store[j],
           Exists(j) => store'[j].phase = phase /\ store'[j].message_id = store[j].message_id
    PROVE  Lives
<1>1. "NONE" \notin Phases
  BY DEF Phases, ACTIVE_PHASES
<1> QED
  BY <1>1, Live, LivesIf

LEMMA uws_job_startedSettled ==
    ASSUME SettledInv, UWSInv', Settled, NEW t \in Tasks, uws_job_started(t)
    PROVE  SettledInv'
<1>1. UWSInv /\ RequestsInv /\ MessagesInv /\ OutcomesAreFinal
  BY DEF SettledInv
<1>2. /\ t[3] = "started" /\ task[t].pc = "queued" /\ task[t].pc # "none"
      /\ ~Pending(t[1]) /\ mark_executing(JobOf(t)) /\ Finish(t)
      /\ UNCHANGED <<arq, worker, req, faults>>
  BY DEF uws_job_started, Unhurried, Pending, Settled
<1>3. PICK j \in Jobs : j = JobOf(t) /\ t[1] \in ArqIds
  BY <1>1, <1>2, JobOfTask
<1>4. /\ \A k \in Jobs : k # j => store'[k] = store[k]
      /\ ~Exists(j) => store'[j] = store[j]
      /\ Exists(j) => store'[j].phase = "EXECUTING" /\ store'[j].message_id = store[j].message_id
      /\ "EXECUTING" \in Phases
  <2>1. "EXECUTING" \in Phases
    BY DEF Phases, ACTIVE_PHASES
  <2>2. update_job(j, [phase |-> "EXECUTING"])
    BY <1>2, <1>3 DEF mark_executing
  <2> QED
    BY <1>1, <2>1, <2>2, PhaseIs
<1>5. Lives
  BY <1>1, <1>4, WrittenLives
<1>6. task'[t].pc = "done" /\ \A u \in Tasks : u # t => task'[u] = task[u]
  BY <1>1, <1>2, FinishIs
<1>7. Grows /\ RequestsInv' /\ MessagesInv'
  BY <1>2, <1>5, <1>6, MessageSettled
<1>8. ASSUME NEW a \in ArqIds, Over(a)'
      PROVE  Over(a) /\ store'[arq[a].job] = store[arq[a].job]
  <2>1. arq[a].result \in Outcomes /\ arq[a].result # None /\ ArqInv(a)
    BY <1>1, <1>2, <1>8, NoneAssumption DEF Over, Outcomes, UWSInv
  <2>2. /\ arq[a].runs \in 1..MaxRuns /\ arq[a].job \in Jobs /\ arq[a].status = "complete"
        /\ <<a, arq[a].runs, "completed">> \in Tasks
    BY <2>1 DEF ArqInv, Outcomes, Tasks
  <2>3. <<a, arq[a].runs, "completed">> # t
    BY <1>2
  <2>4. Over(a)
    BY <1>2, <1>6, <1>8, <2>2, <2>3 DEF Over
  <2>5. a # t[1]
    <3> SUFFICES ASSUME a = t[1]
                 PROVE  FALSE
      OBVIOUS
    <3>1. t[2] \in 1..arq[a].runs /\ t = <<a, t[2], "started">>
      BY <1>1, <1>2, <2>2, BoundAssumption DEF MessagesInv, Handled, Tasks
    <3>2. task[t].pc \in {"none", "done"}
      BY <1>1, <2>2, <2>4, <3>1 DEF MessagesInv, LastRun, Over
    <3> QED
      BY <1>2, <3>2
  <2>6. arq[a].job # j
    BY <1>2, <1>3, <2>2, <2>5, OtherJob
  <2> QED
    BY <1>4, <2>2, <2>4, <2>6
<1>9. OutcomesAreFinal'
  BY <1>1, <1>7, <1>8, FinalSame
<1> QED
  BY <1>7, <1>9 DEF SettledInv

\* A message about the end of a run whose job is gone is done with.
LEMMA completed_getSettled ==
    ASSUME SettledInv, UWSInv', Settled, NEW t \in Tasks, completed_get(t)
    PROVE  SettledInv'
<1>1. UWSInv /\ RequestsInv /\ MessagesInv /\ OutcomesAreFinal
  BY DEF SettledInv
<1>2. /\ t[3] = "completed" /\ task[t].pc = "queued" /\ task[t].pc # "none"
      /\ ~Pending(t[1])
      /\ \A n \in 1..t[2] : task[<<t[1], n, "started">>].pc \in {"none", "done"}
      /\ UNCHANGED <<store, arq, worker, req, faults>>
  BY DEF completed_get, Unhurried, InOrderTasks, Pending, Settled
<1>3. PICK j \in Jobs : j = JobOf(t) /\ t[1] \in ArqIds /\ arq[t[1]].status # "none"
  BY <1>1, <1>2, JobOfTask
<1>4. Lives
  BY <1>2, SameLives
<1>5. \/ Finish(t) /\ store[j].phase = "DELETED"
      \/ \E id : task' = [task EXCEPT ![t].pc = "polling", ![t].msg = id]
  <2>1. Marked(j) /\ store[j].phase # "NONE" /\ store[j] \in Job
    BY <1>1, <1>2, <1>3 DEF RequestsInv, Enqueued, JobOf, UWSInv, Typed
  <2>2. ~Exists(j) \/ store[j].message_id = None => store[j].phase = "DELETED"
    BY <2>1 DEF Exists, Marked, Job
  <2> QED
    BY <1>3, <2>2 DEF completed_get
<1>6. /\ \A u \in Tasks : u # t => task'[u] = task[u]
      /\ \/ task'[t].pc = "done" /\ store[j].phase = "DELETED"
         \/ task'[t].pc = "polling"
  <2>1. CASE Finish(t) /\ store[j].phase = "DELETED"
    BY <1>1, <2>1, FinishIs
  <2>2. CASE \E id : task' = [task EXCEPT ![t].pc = "polling", ![t].msg = id]
    <3>1. PICK id : task' = [task EXCEPT ![t].pc = "polling", ![t].msg = id]
      BY <2>2
    <3> DEFINE c == [task[t] EXCEPT !.pc = "polling", !.msg = id]
    <3>2. task \in [Tasks -> Task] /\ c.pc = "polling"
      BY <1>1 DEF UWSInv, Typed, Task
    <3>3. task' = [task EXCEPT ![t] = c]
      BY <3>1
    <3> HIDE DEF c
    <3> QED
      BY <3>2, <3>3
  <2> QED
    BY <1>5, <2>1, <2>2
<1>7. Grows /\ RequestsInv' /\ MessagesInv'
  <2>1. task'[t].pc = "done" => store'[arq[t[1]].job].phase = "DELETED"
    BY <1>2, <1>3, <1>6 DEF JobOf
  <2> QED
    BY <1>2, <1>4, <1>6, <2>1, MessageSettled
<1>8. ASSUME NEW a \in ArqIds, Over(a)'
      PROVE  HasOutcome(a)'
  <2>1. CASE Over(a)
    BY <1>1, <1>2, <1>7, <1>8, <2>1, FinalKept
  <2>2. CASE ~Over(a)
    <3>1. arq[a].result # None /\ ArqInv(a) /\ arq[a].result \in Outcomes
      BY <1>1, <1>2, <1>8, NoneAssumption DEF Over, Outcomes, UWSInv
    <3>2. PICK end \in Tasks : end = <<a, arq[a].runs, "completed">>
      BY <3>1 DEF ArqInv, Outcomes, Tasks
    <3>3. end = t /\ task'[t].pc = "done"
      BY <1>2, <1>6, <1>8, <2>2, <3>1, <3>2 DEF Over
    <3>4. store[arq[a].job].phase = "DELETED"
      BY <1>3, <1>6, <3>2, <3>3 DEF JobOf
    <3> QED
      BY <1>2, <3>4 DEF HasOutcome
  <2> QED
    BY <2>1, <2>2
<1> QED
  BY <1>7, <1>8 DEF SettledInv, OutcomesAreFinal

LEMMA completed_resultSettled ==
    ASSUME SettledInv, UWSInv', NEW t \in Tasks, completed_result(t)
    PROVE  SettledInv'
<1>1. UWSInv /\ RequestsInv /\ MessagesInv /\ OutcomesAreFinal
  BY DEF SettledInv
<1>2. PICK res : /\ task' = [task EXCEPT ![t].pc = "record", ![t].res = res]
                 /\ res = arq[task[t].msg].result
  BY DEF completed_result
<1>3. /\ task[t].pc = "polling" /\ task[t].pc # "none"
      /\ UNCHANGED <<store, arq, worker, req, faults>>
  BY DEF completed_result
<1>4. Handled(t) /\ TaskInv(t) /\ task[t] \in Task /\ task[t].msg \in ArqIds
  BY <1>1, <1>3, JobOfTask DEF MessagesInv, TaskInv, Known
<1>5. res # "unavailable"
  BY <1>1, <1>2, <1>4, NoneAssumption DEF UWSInv, Typed, ArqJob
<1>6. /\ \A u \in Tasks : u # t => task'[u] = task[u]
      /\ task'[t].pc = "record" /\ task'[t].res = res
  <2> DEFINE c == [task[t] EXCEPT !.pc = "record", !.res = res]
  <2>1. task \in [Tasks -> Task] /\ c.pc = "record" /\ c.res = res
    BY <1>1 DEF UWSInv, Typed, Task
  <2>2. task' = [task EXCEPT ![t] = c]
    BY <1>2
  <2> HIDE DEF c
  <2> QED
    BY <2>1, <2>2
<1>7. ~Pending(t[1]) /\ t[3] = "completed"
  BY <1>3, <1>4 DEF Handled
<1>8. t[2] = arq[t[1]].runs =>
        \A n \in 1..t[2] : task[<<t[1], n, "started">>].pc \in {"none", "done"}
  <2> SUFFICES ASSUME t[2] = arq[t[1]].runs
               PROVE  \A n \in 1..t[2] : task[<<t[1], n, "started">>].pc \in {"none", "done"}
    OBVIOUS
  <2>1. t[1] \in ArqIds /\ t[2] # 0 /\ t = <<t[1], t[2], "completed">>
    BY <1>7, BoundAssumption DEF Tasks
  <2> QED
    BY <1>1, <1>3, <2>1 DEF MessagesInv, LastRun
<1>9. Lives
  BY <1>3, SameLives
<1>10. Grows /\ RequestsInv' /\ MessagesInv'
  BY <1>3, <1>5, <1>6, <1>7, <1>8, <1>9, MessageSettled
<1>11. ASSUME NEW a \in ArqIds, Over(a)'
       PROVE  Over(a) /\ store'[arq[a].job] = store[arq[a].job]
  <2>1. arq[a].result # None /\ ArqInv(a) /\ arq[a].result \in Outcomes
    BY <1>1, <1>3, <1>11, NoneAssumption DEF Over, Outcomes, UWSInv
  <2>2. PICK end \in Tasks : end = <<a, arq[a].runs, "completed">>
    BY <2>1 DEF ArqInv, Outcomes, Tasks
  <2> QED
    BY <1>3, <1>6, <1>11, <2>1, <2>2 DEF Over
<1>12. OutcomesAreFinal'
  BY <1>1, <1>10, <1>11, FinalSame
<1> QED
  BY <1>10, <1>12 DEF SettledInv

\* What is written is the outcome.
LEMMA RecordIs ==
    ASSUME SettledInv, NEW t \in Tasks, completed_record(t)
    PROVE  /\ t[1] \in ArqIds /\ JobOf(t) \in Jobs /\ arq[t[1]].status = "complete"
           /\ \E res : /\ res = arq[t[1]].result
                       /\ mark_completed(JobOf(t), t[1], res)
<1>1. UWSInv /\ RequestsInv /\ MessagesInv
  BY DEF SettledInv
<1>2. task[t].pc = "record" /\ task[t].pc # "none"
  BY DEF completed_record
<1>3. TaskInv(t) /\ Handled(t) /\ t[1] \in ArqIds /\ JobOf(t) \in Jobs /\ arq[t[1]].status # "none"
  BY <1>1, <1>2, JobOfTask DEF MessagesInv
<1>4. task[t].res # "unavailable" /\ Known(task[t].msg, arq[t[1]].job)
  BY <1>2, <1>3 DEF Handled, TaskInv
<1>5. task[t].msg = t[1]
  BY <1>1, <1>3, <1>4 DEF RequestsInv, OneEnqueued, Known
<1>6. arq[t[1]].status = "complete" /\ arq[t[1]].result = task[t].res
  BY <1>2, <1>3, <1>4, <1>5 DEF TaskInv
<1>7. mark_completed(JobOf(t), task[t].msg, task[t].res)
  BY <1>4 DEF completed_record
<1>8. PICK res : res = task[t].res
  OBVIOUS
<1> QED
  BY <1>3, <1>5, <1>6, <1>7, <1>8

LEMMA completed_recordSettled ==
    ASSUME SettledInv, UWSInv', NEW t \in Tasks, completed_record(t)
    PROVE  SettledInv'
<1>1. UWSInv /\ RequestsInv /\ MessagesInv /\ OutcomesAreFinal
  BY DEF SettledInv
<1>2. /\ task[t].pc = "record" /\ task[t].pc # "none" /\ Finish(t)
      /\ UNCHANGED <<arq, worker, req, faults>>
  BY DEF completed_record
<1>0. PICK id \in ArqIds, j \in Jobs :
        /\ id = t[1] /\ j = JobOf(t) /\ arq[id].status = "complete"
        /\ \E res : res = arq[id].result /\ mark_completed(j, id, res)
  BY RecordIs
<1>3. PICK res :
        /\ id = t[1] /\ j = JobOf(t) /\ res = arq[id].result /\ arq[id].status = "complete"
        /\ mark_completed(j, id, res)
  BY <1>0
<1>4. Marked(j) /\ store[j].phase # "NONE"
  BY <1>1, <1>2, <1>3, JobOfTask DEF RequestsInv, Enqueued, JobOf, TaskInv
<1>5. \/ res = "cancelled" /\ UNCHANGED store
      \/ /\ res \in Outcomes
         /\ \A k \in Jobs : k # j => store'[k] = store[k]
         /\ ~Exists(j) => store'[j] = store[j]
         /\ Exists(j) =>
              /\ store'[j].phase = IF res = "error" THEN "ERROR" ELSE "COMPLETED"
              /\ store'[j].message_id = store[j].message_id
              /\ res = "ok" => store'[j].results = id
              /\ res = "error" => store'[j].errors = id
  <2>1. CASE res = "error" /\ mark_failed(j, id)
    <3> DEFINE fields == [phase |-> "ERROR", errors |-> id]
    <3>1. /\ DOMAIN fields = {"phase", "errors"}
          /\ fields["phase"] = "ERROR" /\ fields["errors"] = id
      OBVIOUS
    <3>2. update_job(j, fields) /\ "ERROR" \in Phases
      BY <2>1 DEF mark_failed, Phases
    <3> HIDE DEF fields
    <3>3. /\ \A k \in Jobs : k # j => store'[k] = store[k]
          /\ ~Exists(j) => store'[j] = store[j]
          /\ Exists(j) => /\ store'[j].phase = "ERROR" /\ store'[j].errors = id
                          /\ store'[j].message_id = store[j].message_id
      BY <1>1, <3>1, <3>2, PhaseAndIs
    <3> QED
      BY <2>1, <3>3 DEF Outcomes
  <2>2. CASE /\ res \in {"ok", "empty"}
             /\ update_job(j, [phase |-> "COMPLETED",
                               results |-> IF res = "ok" THEN id ELSE None])
    <3>0. PICK results : results = IF res = "ok" THEN id ELSE None
      OBVIOUS
    <3> DEFINE fields == [phase |-> "COMPLETED", results |-> results]
    <3>1. /\ DOMAIN fields = {"phase", "results"}
          /\ fields["phase"] = "COMPLETED" /\ fields["results"] = results
      OBVIOUS
    <3>2. update_job(j, fields) /\ "COMPLETED" \in Phases
      BY <2>2, <3>0 DEF Phases
    <3> HIDE DEF fields
    <3>3. /\ \A k \in Jobs : k # j => store'[k] = store[k]
          /\ ~Exists(j) => store'[j] = store[j]
          /\ Exists(j) => /\ store'[j].phase = "COMPLETED" /\ store'[j].results = results
                          /\ store'[j].message_id = store[j].message_id
      BY <1>1, <3>1, <3>2, PhaseAndIs
    <3> QED
      BY <2>2, <3>0, <3>3 DEF Outcomes
  <2>3. CASE res = "cancelled" /\ UNCHANGED store
    BY <2>3
  <2> QED
    BY <1>3, <2>1, <2>2, <2>3 DEF mark_completed
<1>6. Lives
  <2>1. CASE UNCHANGED store
    BY <2>1, SameLives
  <2>2. CASE ~UNCHANGED store
    <3>1. PICK phase \in Phases : phase = IF res = "error" THEN "ERROR" ELSE "COMPLETED"
      BY DEF Phases
    <3> QED
      BY <1>1, <1>5, <2>2, <3>1, WrittenLives
  <2> QED
    BY <2>1, <2>2
<1>7. task'[t].pc = "done" /\ \A u \in Tasks : u # t => task'[u] = task[u]
  BY <1>1, <1>2, FinishIs
<1>8. ~Pending(t[1]) /\ t[3] = "completed"
  BY <1>1, <1>2 DEF MessagesInv, Handled
<1>9. t[2] = arq[t[1]].runs =>
        \A n \in 1..t[2] : task[<<t[1], n, "started">>].pc \in {"none", "done"}
  <2> SUFFICES ASSUME t[2] = arq[t[1]].runs
               PROVE  \A n \in 1..t[2] : task[<<t[1], n, "started">>].pc \in {"none", "done"}
    OBVIOUS
  <2>1. t[1] \in ArqIds /\ t[2] # 0 /\ t = <<t[1], t[2], "completed">>
    BY <1>8, BoundAssumption DEF Tasks
  <2> QED
    BY <1>1, <1>2, <2>1 DEF MessagesInv, LastRun
<1>10. Grows /\ RequestsInv' /\ MessagesInv'
  BY <1>2, <1>3, <1>6, <1>7, <1>8, <1>9, MessageSettled
<1>11. ASSUME NEW a \in ArqIds, Over(a)'
       PROVE  HasOutcome(a)'
  <2>1. arq[a].result # None /\ ArqInv(a) /\ arq[a].result \in Outcomes /\ arq'[a] = arq[a]
    BY <1>1, <1>2, <1>11, NoneAssumption DEF Over, Outcomes, UWSInv
  <2>2. arq[a].job \in Jobs /\ arq[a].status = "complete"
    BY <2>1 DEF ArqInv
  <2>3. CASE a = id
    <3>1. res \in Outcomes /\ arq[a].job = j
      BY <1>3, <2>1, <2>3 DEF JobOf
    <3>2. CASE Exists(j)
      BY <1>3, <1>5, <2>1, <2>3, <3>1, <3>2 DEF HasOutcome, Outcomes
    <3>3. CASE ~Exists(j)
      <4>1. store[j].phase = "DELETED" /\ store'[j] = store[j]
        BY <1>1, <1>4, <1>5, <3>1, <3>3 DEF Exists, UWSInv, Typed, Job, Outcomes
      <4> QED
        BY <2>1, <3>1, <4>1 DEF HasOutcome
    <3> QED
      BY <3>2, <3>3
  <2>4. CASE a # id
    <3>1. arq[a].job # j
      BY <1>2, <1>3, <2>2, <2>4, OtherJob
    <3>2. PICK end \in Tasks : end = <<a, arq[a].runs, "completed">>
      BY <2>1 DEF ArqInv, Outcomes, Tasks
    <3>3. end # t
      BY <1>3, <2>4, <3>2
    <3>4. Over(a)
      BY <1>7, <1>11, <2>1, <3>2, <3>3 DEF Over
    <3>5. store'[arq[a].job] = store[arq[a].job]
      BY <1>5, <2>2, <3>1
    <3> QED
      BY <1>1, <1>10, <1>11, <3>4, <3>5, FinalKept
  <2> QED
    BY <2>3, <2>4
<1> QED
  BY <1>10, <1>11 DEF SettledInv, OutcomesAreFinal

LEMMA InitSettled == Init => SettledInv
<1> SUFFICES ASSUME Init
             PROVE  SettledInv
  OBVIOUS
<1>1. UWSInv
  BY InitInv
<1>2. RequestsInv
  <2>1. OneCreator /\ OneEnqueued /\ \A a \in ArqIds : Enqueued(a)
    BY NoneAssumption DEF Init, OneCreator, OneEnqueued, Enqueued, CreateOps, AllOps
  <2>2. \A r \in Requests : Creator(r)
    BY NoneAssumption DEF Init, Creator, CreateOps, Starting, AllOps
  <2> QED
    BY <2>1, <2>2 DEF RequestsInv
<1>3. MessagesInv
  BY DEF Init, MessagesInv, Handled, LastRun
<1>4. OutcomesAreFinal
  BY NoneAssumption DEF Init, OutcomesAreFinal, Over, Outcomes
<1> QED
  BY <1>1, <1>2, <1>3, <1>4 DEF SettledInv

LEMMA NextSettled ==
    ASSUME Settled, SettledInv, [Next]_vars
    PROVE  SettledInv'
<1>1. UWSInv /\ UWSInv'
  BY NextInv DEF SettledInv
<1>2. ~(faults < MaxFaults)
  BY <1>1, BoundAssumption DEF UWSInv, Typed, Settled
<1>3. CASE UNCHANGED vars
  BY <1>1, <1>3, OtherKeeps DEF vars, Grows, NoStart, NoEnqueue
<1>4. ASSUME NEW r \in Requests,
             \/ create(r) \/ RequestFor(r) \/ RequestStep(r)
             \/ abort_job_times_out(r) \/ request_fails(r) \/ arq_fails(r)
      PROVE  SettledInv'
  <2>1. ~request_fails(r) /\ ~arq_fails(r)
    BY <1>2 DEF request_fails, arq_fails
  <2>2. CASE create(r) \/ start_check(r) \/ start_enqueue(r) \/ start_mark(r)
    BY <1>1, <2>2, createSettled, start_checkSettled, start_enqueueSettled, start_markSettled
  <2> QED
    BY <1>1, <1>4, <2>1, <2>2, OtherStepsSettled DEF RequestStep
<1>5. ASSUME NEW w \in Workers, \/ WorkerStep(w) \/ time_out(w) \/ cancel_for_timeout(w)
                                \/ cancel_for_shutdown(w) \/ run_raises(w)
      PROVE  SettledInv'
  <2>1. ~run_raises(w)
    BY <1>2 DEF run_raises
  <2> QED
    BY <1>1, <1>5, <2>1, pick_upSettled, store_resultSettled, BusyStepsSettled DEF WorkerStep
<1>6. ASSUME NEW t \in Tasks, TaskStep(t) \/ task_fails(t) \/ task_again(t)
      PROVE  SettledInv'
  <2>1. ~task_fails(t) /\ ~task_again(t) /\ ~completed_no_result(t)
    BY <1>2 DEF task_fails, task_again, completed_no_result, ResultInTime, Settled
  <2> QED
    BY <1>1, <1>6, <2>1, uws_job_startedSettled, completed_getSettled, completed_resultSettled,
       completed_recordSettled DEF TaskStep
<1> QED
  BY <1>3, <1>4, <1>5, <1>6 DEF Next

\* The timing that the design counts on and nothing else, whatever is aborted,
\* deleted, restarted or timed out: once the message about the end of an arq
\* job's last run is dealt with, the record of its job has the outcome, and no
\* later message takes the job back.  Only an abort or a deletion may still
\* follow.
THEOREM OutcomesStayRecorded ==
    ASSUME Settled
    PROVE  Spec => []OutcomesAreFinal
<1>1. SettledInv /\ [Next]_vars => SettledInv'
  BY NextSettled
<1>2. SettledInv => OutcomesAreFinal
  BY DEF SettledInv
<1> QED
  BY <1>1, <1>2, InitSettled, PTL DEF Spec

\* A finished job: its message about the end of a run that succeeded is done with.
Finished(a, j) == Over(a) /\ arq[a].result = "ok" /\ arq[a].job = j

\* arq does not change a job that is complete.
LEMMA CompleteKept ==
    ASSUME UWSInv, [Next]_vars, NEW a \in ArqIds, arq[a].status = "complete"
    PROVE  /\ arq'[a].result = arq[a].result /\ arq'[a].job = arq[a].job
           /\ arq'[a].runs = arq[a].runs
<1>1. arq \in [ArqIds -> ArqJob] /\ arq[a] \in ArqJob
  BY DEF UWSInv, Typed
<1>2. ASSUME NEW r \in Requests, NEW id \in ArqIds, arq[id].status = "none",
             arq' = [arq EXCEPT ![id].status = "queued", ![id].job = req[r].job]
      PROVE  arq'[a] = arq[a]
  <2>1. PICK j : j = req[r].job
    OBVIOUS
  <2> QED
    BY <1>1, <1>2, <2>1
<1>3. ASSUME NEW r \in Requests, arq' = [arq EXCEPT ![req[r].msg].abort = TRUE]
      PROVE  /\ arq'[a].result = arq[a].result /\ arq'[a].job = arq[a].job
             /\ arq'[a].runs = arq[a].runs
  <2>1. PICK id : id = req[r].msg
    OBVIOUS
  <2>2. arq' = [arq EXCEPT ![id].abort = TRUE]
    BY <1>3, <2>1
  <2>3. arq[a] = [status |-> arq[a].status, job |-> arq[a].job,
            result |-> arq[a].result, abort |-> arq[a].abort, runs |-> arq[a].runs]
    BY <1>1 DEF ArqJob
  <2> QED
    BY <1>1, <2>2, <2>3
<1>4. ASSUME NEW w \in Workers, pick_up(w)
      PROVE  arq'[a] = arq[a]
  <2>1. PICK id \in ArqIds :
          /\ arq[id].status = "queued"
          /\ \/ arq' = [arq EXCEPT ![id].status = "complete", ![id].result = "cancelled"]
             \/ arq' = [arq EXCEPT ![id].status = "running", ![id].runs = @ + 1]
    BY <1>4 DEF pick_up
  <2> QED
    BY <1>1, <2>1
<1>5. ASSUME NEW w \in Workers, store_result(w)
      PROVE  arq'[a] = arq[a]
  <2>1. PICK id \in ArqIds : id = Running(w) /\ arq[id].status = "running"
    BY <1>5, RunningJob DEF store_result
  <2>2. \/ arq' = [arq EXCEPT ![id].status = "queued"]
        \/ \E outcome : arq' = [arq EXCEPT ![id].status = "complete", ![id].result = outcome]
    BY <1>5, <2>1 DEF store_result
  <2> QED
    BY <1>1, <2>1, <2>2
<1>6. \/ UNCHANGED arq
      \/ \E r \in Requests, id \in ArqIds :
           /\ arq[id].status = "none"
           /\ arq' = [arq EXCEPT ![id].status = "queued", ![id].job = req[r].job]
      \/ \E r \in Requests : arq' = [arq EXCEPT ![req[r].msg].abort = TRUE]
      \/ \E w \in Workers : pick_up(w) \/ store_result(w)
  <2>1. ASSUME NEW r \in Requests,
               \/ create(r) \/ RequestFor(r) \/ abort_job_times_out(r) \/ request_fails(r)
               \/ start_check(r) \/ start_mark(r) \/ abort_check(r) \/ delete_check(r)
               \/ abort_job_returns(r) \/ abort_mark(r) \/ delete_job(r) \/ sync_get(r)
               \/ sync_poll(r) \/ sync_wait_over(r) \/ sync_last_get(r)
        PROVE  UNCHANGED arq
    BY <2>1 DEF create, RequestFor, abort_job_times_out, request_fails, start_check, start_mark,
                abort_check, delete_check, abort_job_returns, abort_mark, delete_job, sync_get,
                sync_poll, sync_wait_over, sync_last_get
  <2>2. ASSUME NEW w \in Workers,
               \/ notify_started(w) \/ execute(w) \/ time_out(w) \/ cancel_for_abort(w)
               \/ cancel_for_timeout(w) \/ cancel_for_shutdown(w) \/ notify_completed(w)
               \/ run_raises(w)
        PROVE  UNCHANGED arq
    BY <2>2 DEF notify_started, execute, time_out, cancel_for_abort, cancel_for_timeout,
                cancel_for_shutdown, notify_completed, run_raises
  <2>3. ASSUME NEW t \in Tasks, TaskStep(t) \/ task_fails(t) \/ task_again(t)
        PROVE  UNCHANGED arq
    BY <2>3 DEF TaskStep, uws_job_started, completed_get, completed_result,
                completed_no_result, completed_record, task_fails, task_again
  <2>4. CASE UNCHANGED vars
    BY <2>4 DEF vars
  <2>5. ASSUME NEW r \in Requests, start_enqueue(r) \/ abort_job(r) \/ arq_fails(r)
        PROVE  \/ UNCHANGED arq
               \/ \E id \in ArqIds :
                    /\ arq[id].status = "none"
                    /\ arq' = [arq EXCEPT ![id].status = "queued", ![id].job = req[r].job]
               \/ arq' = [arq EXCEPT ![req[r].msg].abort = TRUE]
    BY <2>5 DEF start_enqueue, abort_job, arq_fails
  <2> QED
    BY <2>1, <2>2, <2>3, <2>4, <2>5 DEF Next, RequestStep, WorkerStep
<1> QED
  BY <1>2, <1>3, <1>4, <1>5, <1>6

\* A message that is done with stays so, unless its run is still going on.
LEMMA DoneKept ==
    ASSUME UWSInv, Settled, [Next]_vars, NEW t \in Tasks, task[t].pc = "done",
           arq[t[1]].status # "running"
    PROVE  task'[t].pc = "done"
<1>1. task \in [Tasks -> Task] /\ ~(faults < MaxFaults)
  BY BoundAssumption DEF UWSInv, Typed, Settled
<1>2. ASSUME NEW w \in Workers, worker[w].pc # "idle", NEW kind \in {"started", "completed"},
             Send(w, kind)
      PROVE  task'[t] = task[t]
  <2>1. PICK id \in ArqIds, n \in 1..MaxRuns :
          /\ id = Running(w) /\ n = ThisRun(w) /\ arq[id].status = "running"
    BY <1>2, RunningJob
  <2>2. PICK u \in Tasks : u = <<id, n, kind>> /\ u[1] = id
    <3>1. <<id, n, kind>> \in Tasks /\ <<id, n, kind>>[1] = id
      BY DEF Tasks
    <3> QED
      BY <3>1
  <2>3. task' = [task EXCEPT ![u].pc = "queued"]
    BY <1>2, <2>1, <2>2 DEF Send
  <2> QED
    BY <1>1, <2>1, <2>2, <2>3
<1>3. ASSUME NEW w \in Workers, \/ WorkerStep(w) \/ time_out(w) \/ cancel_for_timeout(w)
                                \/ cancel_for_shutdown(w) \/ run_raises(w)
      PROVE  task'[t] = task[t]
  <2>1. \/ UNCHANGED task
        \/ worker[w].pc # "idle" /\ \E kind \in {"started", "completed"} : Send(w, kind)
    BY <1>3 DEF WorkerStep, pick_up, notify_started, execute, cancel_for_abort, cancel, Message,
                notify_completed, store_result, time_out, cancel_for_timeout,
                cancel_for_shutdown, run_raises
  <2> QED
    BY <1>2, <2>1
<1>4. ASSUME NEW u \in Tasks, TaskStep(u) \/ task_fails(u) \/ task_again(u)
      PROVE  task'[t].pc = "done"
  <2>1. CASE Finish(u)
    BY <2>1, FinishIs
  <2>2. CASE u # t /\ \E pc, msg : task' = [task EXCEPT ![u].pc = pc, ![u].msg = msg]
    BY <1>1, <2>2
  <2>3. CASE u # t /\ \E pc, res : task' = [task EXCEPT ![u].pc = pc, ![u].res = res]
    BY <1>1, <2>3
  <2>4. \/ Finish(u)
        \/ u # t /\ \E pc, msg : task' = [task EXCEPT ![u].pc = pc, ![u].msg = msg]
        \/ u # t /\ \E pc, res : task' = [task EXCEPT ![u].pc = pc, ![u].res = res]
    <3>1. ~task_fails(u) /\ ~task_again(u)
      BY <1>1 DEF task_fails, task_again
    <3>2. CASE uws_job_started(u) \/ completed_record(u)
      BY <3>2 DEF uws_job_started, completed_record
    <3>3. CASE completed_get(u)
      <4>1. u # t
        BY <3>3 DEF completed_get
      <4>2. \/ Finish(u)
            \/ task' = [task EXCEPT ![u].pc = "polling", ![u].msg = store[JobOf(u)].message_id]
        BY <3>3 DEF completed_get
      <4> QED
        BY <4>1, <4>2
    <3>4. CASE completed_result(u) \/ completed_no_result(u)
      <4>1. u # t
        BY <3>4 DEF completed_result, completed_no_result
      <4>2. \/ task' = [task EXCEPT ![u].pc = "record", ![u].res = arq[task[u].msg].result]
            \/ task' = [task EXCEPT ![u].pc = "record", ![u].res = "unavailable"]
        BY <3>4 DEF completed_result, completed_no_result
      <4> QED
        BY <4>1, <4>2
    <3> QED
      BY <1>4, <3>1, <3>2, <3>3, <3>4 DEF TaskStep
  <2> QED
    BY <2>1, <2>2, <2>3, <2>4
<1>5. ASSUME NEW r \in Requests,
             \/ create(r) \/ RequestFor(r) \/ RequestStep(r)
             \/ abort_job_times_out(r) \/ request_fails(r) \/ arq_fails(r)
      PROVE  UNCHANGED task
  BY <1>5 DEF RequestStep, create, RequestFor, abort_job_times_out, request_fails, arq_fails,
     start_check, start_enqueue, start_mark, abort_check, delete_check, abort_job,
     abort_job_returns, abort_mark, delete_job, sync_get, sync_poll, sync_wait_over,
     sync_last_get
<1>6. CASE UNCHANGED vars
  BY <1>6 DEF vars
<1> QED
  BY <1>3, <1>4, <1>5, <1>6 DEF Next

\* The safety half of FinishedJobsStayFinished: from when the database worker
\* has dealt with the end of a run that succeeded, the job is completed (or
\* aborted by a request that raced with its end, or deleted) for ever.
THEOREM FinishedStay ==
    ASSUME Settled, NEW a \in ArqIds, NEW j \in Jobs
    PROVE  Spec => [](Finished(a, j) =>
                        [](store[j].phase \in {"COMPLETED", "ABORTED", "DELETED"}))
<1>1. SettledInv /\ [Next]_vars => SettledInv'
  BY NextSettled
<1>2. SettledInv /\ Finished(a, j) => store[j].phase \in {"COMPLETED", "ABORTED", "DELETED"}
  BY DEF SettledInv, Finished, OutcomesAreFinal, HasOutcome
<1>3. SettledInv /\ Finished(a, j) /\ [Next]_vars => Finished(a, j)'
  <2> SUFFICES ASSUME SettledInv, Finished(a, j), [Next]_vars
               PROVE  Finished(a, j)'
    OBVIOUS
  <2>1. UWSInv
    BY DEF SettledInv
  <2>2. /\ arq[a].status = "complete"
        /\ <<a, arq[a].runs, "completed">> \in Tasks
    BY <2>1, OverIs DEF Finished
  <2>3. /\ arq'[a].result = arq[a].result /\ arq'[a].job = arq[a].job
        /\ arq'[a].runs = arq[a].runs
    BY <2>1, <2>2, CompleteKept
  <2>4. PICK t \in Tasks : t = <<a, arq[a].runs, "completed">> /\ t[1] = a
    BY <2>2
  <2>5. task'[t].pc = "done"
    BY <2>1, <2>2, <2>4, DoneKept DEF Finished, Over
  <2> QED
    BY <2>3, <2>4, <2>5 DEF Finished, Over
<1> QED
  BY <1>1, <1>2, <1>3, InitSettled, PTL DEF Spec
=============================================================================
