----------------------------- MODULE MCServices -----------------------------
(* What must happen in the end: the metrics of a service come back, and its  *)
(* UWS jobs end.  The two share no state, so one of them is chosen and runs  *)
(* alone.                                                                    *)
EXTENDS MCEventManager

CONSTANTS Jobs, Requests, ArqIds, Workers, None, MaxRuns, MaxFaults, Timely
VARIABLES part, store, arq, worker, task, req, faults

\* Jobs are created and started in one request, so that each has one arq job.
JobOps == {"create_run", "sync", "abort", "delete"}
J == INSTANCE UWSJobs WITH Ops <- JobOps

jobs_vars == <<store, arq, worker, task, req, faults>>
services_vars == <<vars, jobs_vars, part>>

\* The configuration of the metrics matters only where they run.
ServicesInit ==
    /\ part \in {"jobs", "metrics"}
    /\ Init /\ J!Init
    /\ part = "jobs" => config.raise_on_error /\ config.manage_kafka_broker /\ up /\ topic

ServicesNext ==
    /\ UNCHANGED part
    /\ \/ /\ part = "jobs" /\ J!Next
          /\ UNCHANGED vars
       \/ /\ part = "metrics" /\ Next
          /\ UNCHANGED jobs_vars

\* The fairness of UWSJobs and of EventManager.
ServicesFairSpec ==
    /\ ServicesInit /\ [][ServicesNext]_services_vars
    /\ \A r \in Requests : WF_jobs_vars(part = "jobs" /\ J!RequestStep(r))
    /\ \A w \in Workers : WF_jobs_vars(part = "jobs" /\ J!WorkerStep(w))
    /\ \A t \in J!Tasks : WF_jobs_vars(part = "jobs" /\ J!TaskStep(t))
    /\ WF_vars(part = "metrics" /\ tick)
    /\ \A c \in Calls : WF_vars(part = "metrics" /\ Step(c))
    /\ \A name \in Names : WF_vars(part = "metrics" /\ \E c \in Calls : publish(c, name))

\* The results of a successful run get into the record of its job.
ResultsAreStored == J!ResultsAreStored

\* A finished job stays finished.
FinishedJobsStayFinished == J!FinishedJobsStayFinished

\* Every request is answered.
RequestsFinish == J!RequestsFinish
=============================================================================
