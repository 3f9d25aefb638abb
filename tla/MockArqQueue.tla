---------------------------- MODULE MockArqQueue ----------------------------
(***************************************************************************)
(* safir.arq.MockArqQueue (safir-arq/src/safir/arq/_queue.py), the queue   *)
(* that services use in their tests in place of arq.  The service enqueues *)
(* and aborts jobs and asks for their results; the test plays the worker   *)
(* with set_in_progress and set_complete, in whatever order it likes.      *)
(*                                                                         *)
(* No method suspends, so each is one action.  Only the default queue is   *)
(* ever there; a job of another queue is a job that is not found.          *)
(***************************************************************************)
EXTENDS Naturals

CONSTANT Ids        \* job identifiers

VARIABLES
    metadata,   \* _job_metadata of the queue: the status of its jobs
    results,    \* _job_results of the queue
    answer      \* the last call and what came of it

mock_vars == <<metadata, results, answer>>

Statuses == {"queued", "in_progress", "complete"}
Results == {"value", "exception", "cancelled"}

\* The queue knows the job.
Known(id) == metadata[id] \in Statuses

MockInit ==
    /\ metadata = [id \in Ids |-> "none"]
    /\ results = [id \in Ids |-> "none"]
    /\ answer = [op |-> "none", id |-> "none", out |-> "none"]

Answer(op, id, out) == answer' = [op |-> op, id |-> id, out |-> out]

\* Identifiers are made up at random and not used twice.
enqueue(id) ==
    /\ metadata[id] = "none"
    /\ metadata' = [metadata EXCEPT ![id] = "queued"]
    /\ Answer("enqueue", id, "ok")
    /\ UNCHANGED results

\* Mutant: a started job is cancelled without a result.
AbortWithoutResult(id) ==
    /\ Known(id)
    /\ metadata' = [metadata EXCEPT ![id] =
                      IF @ = "in_progress" THEN "complete" ELSE @]
    /\ Answer("abort", id, "true")
    /\ UNCHANGED results

\* A job that was started gets a cancellation for its result, one that was not
\* is forgotten, and for one that is complete or unknown nothing is done.
abort_job(id) ==
    \/ /\ metadata[id] = "in_progress"
       /\ metadata' = [metadata EXCEPT ![id] = "complete"]
       /\ results' = [results EXCEPT ![id] = "cancelled"]
       /\ Answer("abort", id, "true")
    \/ /\ metadata[id] = "queued"
       /\ metadata' = [metadata EXCEPT ![id] = "deleted"]
       /\ Answer("abort", id, "true")
       /\ UNCHANGED results
    \/ /\ metadata[id] = "complete" \/ ~Known(id)
       /\ Answer("abort", id, "false")
       /\ UNCHANGED <<metadata, results>>

\* The result that is there, whatever the job's status is.
get_job_result(id) ==
    /\ Answer("result", id, IF results[id] = "none" THEN "JobResultUnavailable"
                            ELSE results[id])
    /\ UNCHANGED <<metadata, results>>

\* The result of an earlier completion stays: _job_results is looked up by
\* job identifier, but its keys are queue names.
set_in_progress(id) ==
    /\ IF Known(id)
         THEN /\ metadata' = [metadata EXCEPT ![id] = "in_progress"]
              /\ Answer("in_progress", id, "ok")
         ELSE /\ Answer("in_progress", id, "JobNotFound")
              /\ UNCHANGED metadata
    /\ UNCHANGED results

\* Mutant: the status is stored where the result belongs.
CompleteWithNothing(id) ==
    /\ Known(id)
    /\ metadata' = [metadata EXCEPT ![id] = "complete"]
    /\ results' = [results EXCEPT ![id] = "complete"]
    /\ Answer("complete", id, "ok")

set_complete(id) ==
    IF Known(id)
      THEN /\ metadata' = [metadata EXCEPT ![id] = "complete"]
           /\ \E result \in {"value", "exception"} :
                results' = [results EXCEPT ![id] = result]
           /\ Answer("complete", id, "ok")
      ELSE /\ Answer("complete", id, "JobNotFound")
           /\ UNCHANGED <<metadata, results>>

MockNext ==
    \E id \in Ids :
        \/ enqueue(id) \/ abort_job(id) \/ get_job_result(id)
        \/ set_in_progress(id) \/ set_complete(id)

MockSpec == MockInit /\ [][MockNext]_mock_vars

-----------------------------------------------------------------------------
\* Properties

MockTypeOK ==
    /\ metadata \in [Ids -> Statuses \union {"none", "deleted"}]
    /\ results \in [Ids -> Results \union {"none"}]
    /\ answer \in [op : {"none", "enqueue", "abort", "result", "in_progress",
                         "complete"},
                   id : Ids \union {"none"},
                   out : {"none", "ok", "true", "false", "JobNotFound",
                          "JobResultUnavailable"} \union Results]

\* Whatever order the service and the test act in, a job that is complete has a
\* result, and one that is still queued, or that abort_job deleted, has none: no
\* job goes back to being queued once it had one.  Nothing is said of jobs in
\* progress.  "An in-progress job cannot have a result" says _queue.py:359, but a
\* job that is set in progress again keeps the one it had, as the code is.
CompleteHaveResults ==
    \A id \in Ids :
        /\ metadata[id] = "complete" => results[id] # "none"
        /\ metadata[id] \in {"none", "queued", "deleted"} => results[id] = "none"

=============================================================================
