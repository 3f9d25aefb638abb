------------------------------- MODULE UWSJobs -------------------------------
(***************************************************************************)
(* The life of UWS jobs (src/safir/uws, src/safir-arq arq/uws.py).         *)
(*                                                                         *)
(* Five kinds of actors share the job records and the arq queues:          *)
(*   - API requests (JobService): create, start, abort, delete, run_sync;  *)
(*   - the backend worker (build_worker's run), one arq job at a time;     *)
(*   - the database worker (uws_job_started, uws_job_completed), which     *)
(*     takes up to ten messages of the UWS queue concurrently;             *)
(*   - Wobbly, the job store, whose requests are atomic (MockWobbly);      *)
(*   - arq itself: queued, running and completed jobs, aborts, timeouts.   *)
(*                                                                         *)
(* An action is what one actor does up to its next await, so whatever was  *)
(* read before an await may be stale after it.                             *)
(***************************************************************************)
EXTENDS Naturals, FiniteSets

CONSTANTS
    Jobs,       \* UWS job identifiers
    Requests,   \* API requests, each made once
    ArqIds,     \* arq job identifiers
    Workers,    \* backend worker pods
    None,       \* Python's None
    Ops,        \* which operations the requests are for
    MaxRuns,    \* bound: how often arq runs one job (restarts included)
    MaxFaults,  \* bound: failed requests to the store and to arq, runs that
                \* raise outside of their try block, and repeated messages
    Timely      \* whether the timing the design counts on is assumed:
                \* see Unhurried, InOrderTasks and ResultInTime

AllOps == {"create", "create_run", "sync", "start", "abort", "delete"}

ASSUME NoneAssumption ==
    /\ None \notin ArqIds \union Jobs \union AllOps
    /\ None \notin {"ok", "empty", "error", "cancelled", "again", "result",
                      "unavailable"}
    /\ "unavailable" \notin ArqIds
ASSUME BoundAssumption ==
    MaxRuns \in Nat \ {0} /\ MaxFaults \in Nat /\ Timely \in BOOLEAN

VARIABLES
    store,      \* the job records: phase, message_id, results, errors
    arq,        \* the jobs of the default arq queue
    worker,     \* what each backend worker is doing
    task,       \* the messages of the UWS queue
    req,        \* the API requests
    faults      \* faults that have happened

vars == <<store, arq, worker, task, req, faults>>

ACTIVE_PHASES == {"PENDING", "QUEUED", "EXECUTING"}
Phases == ACTIVE_PHASES \union {"HELD", "COMPLETED", "ERROR", "ABORTED"}

\* Two messages for every run of an arq job.
Tasks == ArqIds \X (1..MaxRuns) \X {"started", "completed"}

Exists(j) == store[j].phase \in Phases

Init ==
    /\ store = [j \in Jobs |-> [phase |-> "NONE", message_id |-> None,
                                results |-> None, errors |-> None]]
    /\ arq = [a \in ArqIds |-> [status |-> "none", job |-> None,
                                result |-> None, abort |-> FALSE, runs |-> 0]]
    /\ worker = [w \in Workers |-> [pc |-> "idle", arq |-> None,
                                    outcome |-> None]]
    /\ task = [t \in Tasks |-> [pc |-> "none", msg |-> None, res |-> None]]
    /\ req = [r \in Requests |-> [op |-> None, job |-> None, pc |-> "idle",
                                  msg |-> None, out |-> None]]
    /\ faults = 0

-----------------------------------------------------------------------------
\* Wobbly (MockWobbly): a PATCH applies to any phase, or answers 404.

\* Mutant: a PATCH of a job that is not there makes one.
UpsertJob(j, fields) ==
    store' = [store EXCEPT ![j] = [f \in DOMAIN @ |->
                IF f \in DOMAIN fields THEN fields[f] ELSE @[f]]]

update_job(j, fields) ==
    IF Exists(j)
      THEN store' = [store EXCEPT ![j] = [f \in DOMAIN @ |->
                       IF f \in DOMAIN fields THEN fields[f] ELSE @[f]]]
      ELSE UNCHANGED store

mark_queued(j, id) == update_job(j, [phase |-> "QUEUED", message_id |-> id])
mark_executing(j) == update_job(j, [phase |-> "EXECUTING"])
mark_aborted(j) == update_job(j, [phase |-> "ABORTED"])
mark_failed(j, why) == update_job(j, [phase |-> "ERROR", errors |-> why])

\* Mutant: a cancelled job's result is recorded like any other.
RecordAnything(j, id, res) ==
    IF res = "error" THEN mark_failed(j, id)
    ELSE update_job(j, [phase |-> "COMPLETED", results |-> id])

\* mark_completed of the result of arq job id.  CancelledError is not an
\* Exception: iterating over it as a result list raises TypeError before any
\* request is made.
mark_completed(j, id, res) ==
    \/ /\ res = "error"
       /\ mark_failed(j, id)
    \/ /\ res \in {"ok", "empty"}
       /\ update_job(j, [phase |-> "COMPLETED",
                         results |-> IF res = "ok" THEN id ELSE None])
    \/ /\ res = "cancelled"
       /\ UNCHANGED store

-----------------------------------------------------------------------------
\* API requests.  A record's pc names the next thing the request does.

Goto(r, pc) == req' = [req EXCEPT ![r].pc = pc]
Return(r, out) == req' = [req EXCEPT ![r].pc = "done", ![r].out = out]

\* JobService.create, alone, followed by start, or as part of run_sync.
create(r) ==
    /\ req[r].pc = "idle"
    /\ \E op \in Ops \intersect {"create", "create_run", "sync"}, j \in Jobs :
         /\ store[j].phase = "NONE"
         /\ store' = [store EXCEPT ![j].phase = "PENDING"]
         /\ req' = [req EXCEPT ![r] =
                      [op |-> op, job |-> j, msg |-> None, out |-> None,
                       pc |-> IF op = "create" THEN "done" ELSE "start"]]
    /\ UNCHANGED <<arq, worker, task, faults>>

\* A request for a job that exists or has existed.
RequestFor(r) ==
    /\ req[r].pc = "idle"
    /\ \E op \in Ops \intersect {"start", "abort", "delete"}, j \in Jobs :
         /\ store[j].phase # "NONE"
         /\ req' = [req EXCEPT ![r] = [op |-> op, job |-> j, pc |-> op,
                                       msg |-> None, out |-> None]]
    /\ UNCHANGED <<store, arq, worker, task, faults>>

\* start: get, and refuse a job that is not there (UnknownJobError) or is not
\* waiting to be started (InvalidPhaseError).
start_check(r) ==
    /\ req[r].pc = "start"
    /\ IF store[req[r].job].phase \in {"PENDING", "HELD"}
         THEN Goto(r, "enqueue")
         ELSE Return(r, "refused")
    /\ UNCHANGED <<store, arq, worker, task, faults>>

\* start: hand the job to arq.
start_enqueue(r) ==
    /\ req[r].pc = "enqueue"
    /\ \E id \in ArqIds :
         /\ arq[id].status = "none"
         /\ arq' = [arq EXCEPT ![id].status = "queued", ![id].job = req[r].job]
         /\ req' = [req EXCEPT ![r].pc = "mark_queued", ![r].msg = id]
    /\ UNCHANGED <<store, worker, task, faults>>

\* start: record the arq job in the job record.
start_mark(r) ==
    LET j == req[r].job IN
    /\ req[r].pc = "mark_queued"
    /\ mark_queued(j, req[r].msg)
    /\ IF ~Exists(j) THEN Return(r, "unknown")
       ELSE IF req[r].op = "sync" THEN Goto(r, "get")
       ELSE Return(r, "ok")
    /\ UNCHANGED <<arq, worker, task, faults>>

\* abort: get, and nothing more unless the job is there and active.
abort_check(r) ==
    LET job == store[req[r].job] IN
    /\ req[r].pc = "abort"
    /\ \/ /\ job.phase \notin ACTIVE_PHASES
          /\ Return(r, "refused")
       \/ /\ job.phase \in ACTIVE_PHASES
          /\ req' = [req EXCEPT ![r].msg = job.message_id,
                       ![r].pc = IF job.message_id = None THEN "mark_aborted"
                                 ELSE "stop"]
    /\ UNCHANGED <<store, arq, worker, task, faults>>

\* delete: get, and abort the arq job of an active job.
delete_check(r) ==
    LET job == store[req[r].job] IN
    /\ req[r].pc = "delete"
    /\ \/ /\ ~Exists(req[r].job)
          /\ Return(r, "unknown")
       \/ /\ Exists(req[r].job)
          /\ req' = [req EXCEPT ![r].msg = job.message_id,
                       ![r].pc = IF /\ job.phase \in ACTIVE_PHASES
                                    /\ job.message_id # None
                                 THEN "stop" ELSE "remove"]
    /\ UNCHANGED <<store, arq, worker, task, faults>>

\* What abort and delete do once arq has answered.
AfterStop(r) == IF req[r].op = "abort" THEN "mark_aborted" ELSE "remove"

\* arq's abort asks for the job to be stopped ...
abort_job(r) ==
    /\ req[r].pc = "stop"
    /\ arq' = [arq EXCEPT ![req[r].msg].abort = TRUE]
    /\ Goto(r, "stopping")
    /\ UNCHANGED <<store, worker, task, faults>>

\* Mutant: only a cancelled job is taken for a stopped one.
AbortJobOnlyCancelled(r) ==
    /\ req[r].pc = "stopping"
    /\ arq[req[r].msg].result = "cancelled"
    /\ Goto(r, AfterStop(r))
    /\ UNCHANGED <<store, arq, worker, task, faults>>

\* ... and then waits for the job's result, which it does not look at, except
\* that the exception of a failed job is raised again.  delete suppresses it.
abort_job_returns(r) ==
    /\ req[r].pc = "stopping"
    /\ arq[req[r].msg].status = "complete"
    /\ IF arq[req[r].msg].result = "error" /\ req[r].op = "abort"
         THEN Return(r, "error")
         ELSE Goto(r, AfterStop(r))
    /\ UNCHANGED <<store, arq, worker, task, faults>>

\* JOB_STOP_TIMEOUT passes.  Only abort gives a timeout.
abort_job_times_out(r) ==
    /\ req[r].pc = "stopping"
    /\ req[r].op = "abort"
    /\ arq[req[r].msg].status # "complete"
    /\ Return(r, "error")
    /\ UNCHANGED <<store, arq, worker, task, faults>>

\* A request to arq fails, although it may have got there.  delete goes on.
arq_fails(r) ==
    /\ req[r].pc \in {"enqueue", "stop", "stopping"}
    /\ faults < MaxFaults
    /\ faults' = faults + 1
    /\ IF req[r].op = "delete" THEN Goto(r, "remove") ELSE Return(r, "error")
    /\ \/ UNCHANGED arq
       \/ /\ req[r].pc = "enqueue"
          /\ \E id \in ArqIds :
               /\ arq[id].status = "none"
               /\ arq' = [arq EXCEPT ![id].status = "queued", ![id].job = req[r].job]
       \/ /\ req[r].pc = "stop"
          /\ arq' = [arq EXCEPT ![req[r].msg].abort = TRUE]
    /\ UNCHANGED <<store, worker, task>>

abort_mark(r) ==
    LET j == req[r].job IN
    /\ req[r].pc = "mark_aborted"
    /\ mark_aborted(j)
    /\ Return(r, IF Exists(j) THEN "ok" ELSE "unknown")
    /\ UNCHANGED <<arq, worker, task, faults>>

delete_job(r) ==
    LET j == req[r].job IN
    /\ req[r].pc = "remove"
    /\ IF Exists(j)
         THEN /\ store' = [store EXCEPT ![j] =
                             [phase |-> "DELETED", message_id |-> None,
                              results |-> None, errors |-> None]]
              /\ Return(r, "ok")
         ELSE UNCHANGED store /\ Return(r, "unknown")
    /\ UNCHANGED <<arq, worker, task, faults>>

\* How run_sync reads the job it got back; out is what it raises or, when it
\* returns a result, "result" with the result in msg.
SyncAnswer(r) ==
    LET job == store[req[r].job] IN
    IF ~Exists(req[r].job) THEN Return(r, "unknown")
    ELSE IF job.phase \notin {"COMPLETED", "ERROR"} THEN Return(r, "timeout")
    ELSE IF job.errors # None THEN Return(r, "failed")
    ELSE IF job.results = None THEN Return(r, "no_results")
    ELSE req' = [req EXCEPT ![r].pc = "done", ![r].out = "result",
                            ![r].msg = job.results]

\* run_sync: the first get, which starts waiting if the job is still active.
sync_get(r) ==
    /\ req[r].pc = "get"
    /\ IF store[req[r].job].phase \in ACTIVE_PHASES
         THEN Goto(r, "poll")
         ELSE SyncAnswer(r)
    /\ UNCHANGED <<store, arq, worker, task, faults>>

\* run_sync: _wait_for_job sees that the job is not active any more (a poll
\* that sees an active job changes nothing).
sync_poll(r) ==
    /\ req[r].pc = "poll"
    /\ store[req[r].job].phase \notin ACTIVE_PHASES
    /\ IF Exists(req[r].job) THEN Goto(r, "last_get") ELSE Return(r, "unknown")
    /\ UNCHANGED <<store, arq, worker, task, faults>>

\* run_sync: the time to wait is over.
sync_wait_over(r) ==
    /\ req[r].pc = "poll"
    /\ Goto(r, "last_get")
    /\ UNCHANGED <<store, arq, worker, task, faults>>

\* Mutant: what the wait saw is an answer, whatever the phase is now.
SyncLastGetUnchecked(r) ==
    /\ req[r].pc = "last_get"
    /\ req' = [req EXCEPT ![r].pc = "done", ![r].out = "result",
                          ![r].msg = store[req[r].job].message_id]
    /\ UNCHANGED <<store, arq, worker, task, faults>>

\* run_sync: the get with which _wait_for_job ends, and the answer.
sync_last_get(r) ==
    /\ req[r].pc = "last_get"
    /\ SyncAnswer(r)
    /\ UNCHANGED <<store, arq, worker, task, faults>>

\* A request to Wobbly fails (WobblyError), which ends the API request.
request_fails(r) ==
    /\ req[r].pc \in {"start", "mark_queued", "abort", "delete",
                      "mark_aborted", "remove", "get", "poll", "last_get"}
    /\ faults < MaxFaults
    /\ faults' = faults + 1
    /\ Return(r, "wobbly")
    /\ UNCHANGED <<store, arq, worker, task>>

-----------------------------------------------------------------------------
\* The backend worker (run) and the part of arq that drives it.

Running(w) == worker[w].arq
ThisRun(w) == arq[Running(w)].runs

\* arq starts a queued job, unless an abort was asked for: then it stores the
\* cancellation as the result without running anything.
pick_up(w) ==
    /\ worker[w].pc = "idle"
    /\ \E id \in ArqIds :
         /\ arq[id].status = "queued"
         /\ \/ /\ arq[id].abort
               /\ arq' = [arq EXCEPT ![id].status = "complete",
                                     ![id].result = "cancelled"]
               /\ UNCHANGED worker
            \/ /\ ~arq[id].abort
               /\ arq' = [arq EXCEPT ![id].status = "running", ![id].runs = @ + 1]
               /\ worker' = [worker EXCEPT ![w] =
                               [pc |-> "begin", arq |-> id, outcome |-> None]]
    /\ UNCHANGED <<store, task, req, faults>>

Send(w, kind) ==
    task' = [task EXCEPT ![<<Running(w), ThisRun(w), kind>>].pc = "queued"]

\* run: tell the database worker that the job started, then hand the job to
\* the process pool.
notify_started(w) ==
    /\ worker[w].pc = "begin"
    /\ Send(w, "started")
    /\ worker' = [worker EXCEPT ![w].pc = "executing"]
    /\ UNCHANGED <<store, arq, req, faults>>

\* run: the backend function returns or raises.
execute(w) ==
    /\ worker[w].pc = "executing"
    /\ \E outcome \in {"ok", "empty", "error"} :
         worker' = [worker EXCEPT ![w].pc = "finally", ![w].outcome = outcome]
    /\ UNCHANGED <<store, arq, task, req, faults>>

\* Mutant: a completion message that cannot be sent is given up, and the run
\* ends as it would have.
CompletionGivenUp(w) ==
    /\ worker[w].pc = "finally"
    /\ faults < MaxFaults
    /\ faults' = faults + 1
    /\ worker' = [worker EXCEPT ![w].pc = "return"]
    /\ UNCHANGED <<store, arq, task, req>>

\* What run sends before its try block, and in the finally clause.
Message(w) == IF worker[w].pc = "begin" THEN "started" ELSE "completed"

\* run raises outside of its try block: its parameters are not what the worker
\* takes, or a message cannot be sent, although it may have got there.  This is
\* then the outcome, whatever it was to be.
run_raises(w) ==
    /\ worker[w].pc \in {"begin", "finally"}
    /\ faults < MaxFaults
    /\ faults' = faults + 1
    /\ worker' = [worker EXCEPT ![w].pc = "return", ![w].outcome = "error"]
    /\ Send(w, Message(w)) \/ UNCHANGED task
    /\ UNCHANGED <<store, arq, req>>

\* run: info.timeout passes; the pool is killed and replaced, and
\* WorkerTimeoutError raised.
time_out(w) ==
    /\ worker[w].pc = "executing"
    /\ worker' = [worker EXCEPT ![w].pc = "finally", ![w].outcome = "error"]
    /\ UNCHANGED <<store, arq, task, req, faults>>

\* run is cancelled.  While it sends a message, which may or may not have been
\* sent by then, this ends it; while it waits for the backend function, the
\* pool is killed and replaced, and the finally clause is still to come.
cancel(w, outcome) ==
    \/ /\ worker[w].pc \in {"begin", "finally"}
       /\ worker' = [worker EXCEPT ![w].pc = "return", ![w].outcome = outcome]
       /\ Send(w, Message(w)) \/ UNCHANGED task
    \/ /\ worker[w].pc = "executing"
       /\ worker' = [worker EXCEPT ![w].pc = "finally", ![w].outcome = outcome]
       /\ UNCHANGED task

\* arq cancels a running job because of an abort ...
cancel_for_abort(w) ==
    /\ worker[w].pc \in {"begin", "executing", "finally"}
    /\ arq[Running(w)].abort
    /\ cancel(w, "cancelled")
    /\ UNCHANGED <<store, arq, req, faults>>

\* ... or because job_timeout has passed ...
cancel_for_timeout(w) ==
    /\ cancel(w, "error")
    /\ UNCHANGED <<store, arq, req, faults>>

\* ... or because the worker shuts down and its grace period is over; then it
\* will run the job again.
cancel_for_shutdown(w) ==
    /\ worker[w].pc \in {"begin", "executing", "finally"}
    /\ ~arq[Running(w)].abort
    /\ ThisRun(w) < MaxRuns
    /\ cancel(w, "again")
    /\ UNCHANGED <<store, arq, req, faults>>

\* Mutant: only a run that failed is reported.
NotifyOnlyFailures(w) ==
    /\ worker[w].pc = "finally"
    /\ IF worker[w].outcome = "error" THEN Send(w, "completed") ELSE UNCHANGED task
    /\ worker' = [worker EXCEPT ![w].pc = "return"]
    /\ UNCHANGED <<store, arq, req, faults>>

\* run: the finally clause.
notify_completed(w) ==
    /\ worker[w].pc = "finally"
    /\ Send(w, "completed")
    /\ worker' = [worker EXCEPT ![w].pc = "return"]
    /\ UNCHANGED <<store, arq, req, faults>>

\* arq stores the outcome as the job's result, or puts the job back.
store_result(w) ==
    /\ worker[w].pc = "return"
    /\ arq' = IF worker[w].outcome = "again"
                THEN [arq EXCEPT ![Running(w)].status = "queued"]
                ELSE [arq EXCEPT ![Running(w)].status = "complete",
                                 ![Running(w)].result = worker[w].outcome]
    /\ worker' = [worker EXCEPT ![w] =
                    [pc |-> "idle", arq |-> None, outcome |-> None]]
    /\ UNCHANGED <<store, task, req, faults>>

-----------------------------------------------------------------------------
\* The database worker.  The job a message is about is that of its arq job.

JobOf(t) == arq[t[1]].job

\* Timing assumptions, in force if Timely.

\* The API request that enqueued the arq job has recorded it before a message
\* of the job's run is handled.
Unhurried(t) ==
    Timely => ~\E r \in Requests : /\ req[r].pc = "mark_queued"
                                   /\ req[r].msg = t[1]

\* The first messages of this run and of those before it have been dealt with
\* before its second is handled.
InOrderTasks(t) ==
    Timely => \A n \in 1..t[2] :
                task[<<t[1], n, "started">>].pc \in {"none", "done"}

\* The result is there before JOB_RESULT_TIMEOUT passes.
ResultInTime == Timely

Finish(t) == task' = [task EXCEPT ![t].pc = "done"]

uws_job_started(t) ==
    /\ t[3] = "started"
    /\ task[t].pc = "queued"
    /\ Unhurried(t)
    /\ mark_executing(JobOf(t))
    /\ Finish(t)
    /\ UNCHANGED <<arq, worker, req, faults>>

\* Mutant: the message is ignored unless the job is still queued.
CompletedGetQueued(t) ==
    LET job == store[JobOf(t)] IN
    /\ t[3] = "completed"
    /\ task[t].pc = "queued"
    /\ Unhurried(t)
    /\ InOrderTasks(t)
    /\ IF job.phase # "QUEUED"
         THEN Finish(t)
         ELSE task' = [task EXCEPT ![t].pc = "polling", ![t].msg = job.message_id]
    /\ UNCHANGED <<store, arq, worker, req, faults>>

\* uws_job_completed: get.  Without a message_id it logs an error and gives up.
completed_get(t) ==
    LET job == store[JobOf(t)] IN
    /\ t[3] = "completed"
    /\ task[t].pc = "queued"
    /\ Unhurried(t)
    /\ InOrderTasks(t)
    /\ IF ~Exists(JobOf(t)) \/ job.message_id = None
         THEN Finish(t)
         ELSE task' = [task EXCEPT ![t].pc = "polling", ![t].msg = job.message_id]
    /\ UNCHANGED <<store, arq, worker, req, faults>>

\* _get_job_result: the result is there ...
completed_result(t) ==
    /\ task[t].pc = "polling"
    /\ arq[task[t].msg].status = "complete"
    /\ task' = [task EXCEPT ![t].pc = "record", ![t].res = arq[task[t].msg].result]
    /\ UNCHANGED <<store, arq, worker, req, faults>>

\* ... or is not there in time.
completed_no_result(t) ==
    /\ task[t].pc = "polling"
    /\ arq[task[t].msg].status # "complete"
    /\ ~ResultInTime
    /\ task' = [task EXCEPT ![t].pc = "record", ![t].res = "unavailable"]
    /\ UNCHANGED <<store, arq, worker, req, faults>>

\* uws_job_completed: write the result down.
completed_record(t) ==
    /\ task[t].pc = "record"
    /\ IF task[t].res = "unavailable"
         THEN mark_failed(JobOf(t), "unavailable")
         ELSE mark_completed(JobOf(t), task[t].msg, task[t].res)
    /\ Finish(t)
    /\ UNCHANGED <<arq, worker, req, faults>>

\* A store request fails or the task's time is up: it is not tried again.
task_fails(t) ==
    /\ task[t].pc \in {"queued", "polling", "record"}
    /\ faults < MaxFaults
    /\ faults' = faults + 1
    /\ Finish(t)
    /\ UNCHANGED <<store, arq, worker, req>>

\* The database worker is shut down before arq has recorded that a message was
\* handled: arq runs it again.
task_again(t) ==
    /\ task[t].pc = "done"
    /\ faults < MaxFaults
    /\ faults' = faults + 1
    /\ task' = [task EXCEPT ![t] = [pc |-> "queued", msg |-> None, res |-> None]]
    /\ UNCHANGED <<store, arq, worker, req>>

-----------------------------------------------------------------------------
\* What a request does by itself, once it was made.
RequestStep(r) ==
    \/ start_check(r) \/ start_enqueue(r) \/ start_mark(r)
    \/ abort_check(r) \/ delete_check(r) \/ abort_job(r) \/ abort_job_returns(r)
    \/ abort_mark(r) \/ delete_job(r)
    \/ sync_get(r) \/ sync_poll(r) \/ sync_wait_over(r) \/ sync_last_get(r)

WorkerStep(w) ==
    \/ pick_up(w) \/ notify_started(w) \/ execute(w) \/ cancel_for_abort(w)
    \/ notify_completed(w) \/ store_result(w)

TaskStep(t) ==
    \/ uws_job_started(t) \/ completed_get(t) \/ completed_result(t)
    \/ completed_no_result(t) \/ completed_record(t)

Next ==
    \/ \E r \in Requests :
         \/ create(r) \/ RequestFor(r) \/ RequestStep(r)
         \/ abort_job_times_out(r) \/ request_fails(r) \/ arq_fails(r)
    \/ \E w \in Workers :
         \/ WorkerStep(w) \/ time_out(w) \/ cancel_for_timeout(w)
         \/ cancel_for_shutdown(w) \/ run_raises(w)
    \/ \E t \in Tasks : TaskStep(t) \/ task_fails(t) \/ task_again(t)

Spec == Init /\ [][Next]_vars

\* Requests, workers and the database worker keep going.  Nobody has to make a
\* request, and no timeout, restart or fault has to happen, except that a wait
\* for a job's completion does not last for ever (_wait_for_job's timeout).
FairSpec ==
    /\ Spec
    /\ \A r \in Requests : WF_vars(RequestStep(r))
    /\ \A w \in Workers : WF_vars(WorkerStep(w))
    /\ \A t \in Tasks : WF_vars(TaskStep(t))

-----------------------------------------------------------------------------
\* Properties

TypeOK ==
    /\ store \in [Jobs -> [phase : Phases \union {"NONE", "DELETED"},
                           message_id : ArqIds \union {None},
                           results : ArqIds \union {None},
                           errors : ArqIds \union {None, "unavailable"}]]
    /\ arq \in [ArqIds -> [status : {"none", "queued", "running", "complete"},
                           job : Jobs \union {None},
                           result : {None, "ok", "empty", "error", "cancelled"},
                           abort : BOOLEAN,
                           runs : 0..MaxRuns]]
    /\ worker \in [Workers ->
                      [pc : {"idle", "begin", "executing", "finally", "return"},
                       arq : ArqIds \union {None},
                       outcome : {None, "ok", "empty", "error", "cancelled",
                                  "again"}]]
    /\ task \in [Tasks -> [pc : {"none", "queued", "polling", "record", "done"},
                           msg : ArqIds \union {None},
                           res : {None, "ok", "empty", "error", "cancelled",
                                  "unavailable"}]]
    /\ \A r \in Requests :
          /\ req[r].op \in AllOps \union {None}
          /\ req[r].job \in Jobs \union {None}
          /\ req[r].msg \in ArqIds \union {None}
    /\ faults \in 0..MaxFaults

\* What a job record says comes from an arq job that was enqueued for that very
\* job: its message_id, its results (only ever those of a run that succeeded)
\* and its errors (only ever those of a run that failed).  A job is recorded
\* as queued, completed or failed only with the arq job known.
Provenance ==
    \A j \in Jobs :
        LET job == store[j] IN
        /\ job.message_id # None => arq[job.message_id].job = j
        /\ job.results # None =>
              arq[job.results].job = j /\ arq[job.results].result = "ok"
        /\ job.errors \in ArqIds =>
              arq[job.errors].job = j /\ arq[job.errors].result = "error"
        /\ job.phase \in {"QUEUED", "COMPLETED", "ERROR"} => job.message_id # None

\* A deleted job stays deleted, whatever messages and requests about it are
\* still under way.
NoResurrection ==
    [][\A j \in Jobs : store[j].phase = "DELETED" => store'[j] = store[j]]_vars

\* A result that run_sync returns was produced by a successful run for the job
\* that this request created.
SyncResultIsOwn ==
    \A r \in Requests : req[r].out = "result" =>
        /\ req[r].msg \in ArqIds
        /\ arq[req[r].msg].job = req[r].job
        /\ arq[req[r].msg].result = "ok"

\* A run that arq takes for a success has told the database worker of its start
\* and of its end, whichever message could not be sent and whenever the run was
\* cancelled.  (Of a failure it may never have been told: what run raises outside
\* of its try block arq alone knows of, and the job stays as it is.)
SuccessesAreReported ==
    \A a \in ArqIds : arq[a].result \in {"ok", "empty"} =>
        \A kind \in {"started", "completed"} :
            task[<<a, arq[a].runs, kind>>].pc # "none"

\* Every request is answered, also a delete or an abort that waits for arq.
RequestsFinish ==
    \A r \in Requests : req[r].pc # "idle" ~> req[r].pc = "done"

\* "Those results are recovered and stored in the database (via Wobbly) by a
\* separate arq worker": the results of every successful run get into the
\* record of its job, unless the job is deleted.
ResultsAreStored ==
    \A a \in ArqIds, j \in Jobs :
        (arq[a].result = "ok" /\ arq[a].job = j)
          ~> (store[j].results = a \/ store[j].phase = "DELETED")

\* A job whose run succeeded ends up, and stays, completed (or aborted by a
\* request that raced with its end, or deleted): it does not go back to an
\* active phase.
FinishedJobsStayFinished ==
    \A a \in ArqIds, j \in Jobs :
        (arq[a].result = "ok" /\ arq[a].job = j)
          ~> [](store[j].phase \in {"COMPLETED", "ABORTED", "DELETED"})

\* "If the job is already in a completed state, this operation does nothing."
AbortLeavesCompleted ==
    [][\A j \in Jobs :
         store[j].phase = "COMPLETED" => store'[j].phase # "ABORTED"]_vars
=============================================================================
