------------------------------- MODULE UWSApi -------------------------------
(***************************************************************************)
(* The HTTP API of a UWS service (src/safir/uws: _handlers, _service,      *)
(* _storage, _models, _exceptions).                                        *)
(*                                                                         *)
(* Every route is here, with the requests to Wobbly and to arq that it     *)
(* makes, one action per await.  UWSJobs has what arq and the workers do   *)
(* with a job that was started; here their messages change a job in any    *)
(* order.  None is written 0 where numbers are expected, as the API writes *)
(* an unlimited execution duration.                                        *)
(***************************************************************************)
EXTENDS Integers, Sequences, FiniteSets

CONSTANTS
    Requests,             \* API requests that may be under way at once
    Routes,               \* routes they are made to
    Alone,                \* bound: those that are answered before another comes
    MaxJobs,              \* bound: jobs ever created
    Times,                \* destruction times that clients ask for
    Durations,            \* execution durations that clients ask for
    Waits,                \* seconds that clients ask to wait for
    Parameters,           \* what the json_parameters of jobs are
    Quotes,               \* what Wobbly gives for a quote
    ResultUrls,           \* schemes of the URLs of results
    ErrorTypes,           \* WorkerErrorType of the errors of workers
    MaxFaults,            \* bound: failing requests to Wobbly and arq
    execution_duration,   \* UWSConfig
    lifetime,
    sync_timeout,
    wait_timeout

ASSUME ConfigAssumption ==
    /\ execution_duration \in Nat \ {0}
    /\ lifetime \in Nat \ {0}
    /\ sync_timeout \in Nat
    /\ wait_timeout \in Nat
ASSUME InputAssumption ==
    /\ Times \subseteq Nat
    /\ Durations \subseteq Int
    /\ Waits \subseteq Int
    /\ Parameters \subseteq {"given", "empty"}
    /\ Quotes \subseteq Nat
    /\ ResultUrls \subseteq {"http", "s3", "file"}
    /\ ErrorTypes \subseteq {"FATAL", "TRANSIENT", "USAGE"}
ASSUME BoundAssumption ==
    MaxJobs \in Nat \ {0} /\ MaxFaults \in Nat /\ IsFiniteSet(Requests)

VARIABLES
    jobs,        \* the jobs in Wobbly
    created,     \* how many there ever were; identifiers are in their order
    sent,        \* WorkerJobInfo of the arq jobs
    req,         \* the requests under way
    answer,      \* the answer that the last step gave, if any
    validators,  \* the settings that the application validates (UWSConfig)
    faults       \* requests that failed

vars == <<jobs, created, sent, req, answer, validators, faults>>

None == [status |-> 0, body |-> 0]
Ids == 1..MaxJobs
\* validate_destruction and validate_execution_duration.
Validated == {"destruction", "execution_duration"}
ACTIVE_PHASES == {"PENDING", "QUEUED", "EXECUTING"}
Phases == ACTIVE_PHASES \union {"HELD", "COMPLETED", "ERROR", "ABORTED"}

\* DALI error codes of a job's error, and whether it is worth trying again.
JobError == [code: {"Error", "ServiceUnavailable", "UsageError"},
             type: {"fatal", "transient"}]

JobUpdateMetadata == [destruction_time: Nat, execution_duration: Nat]
SerializedJob ==
    [phase: Phases, message_id: BOOLEAN, parameters: {"given", "empty"},
     destruction_time: Nat, execution_duration: Nat, quote: Quotes,
     errors: {<<>>} \union {<<e>> : e \in JobError},
     results: {<<>>} \union {<<u>> : u \in ResultUrls}]
NoJob == [phase |-> "none"]

TextRoutes == {"get_destruction", "get_error", "get_execution_duration",
               "get_owner", "get_parameters", "get_phase", "get_quote",
               "get_results"}
AllRoutes == TextRoutes \union
    {"list", "get", "delete", "delete_via_post", "post_destruction",
     "post_execution_duration", "post_phase", "availability", "create", "sync"}

ASSUME RouteAssumption == Routes \subseteq AllRoutes /\ Alone \subseteq Routes

Least(a, b) == IF a < b THEN a ELSE b

Idle == [route |-> "none", id |-> 0, value |-> 0, wait |-> 0, pc |-> "idle",
         until_not |-> {}, waited |-> 0, timeout |-> 0,
         metadata |-> [destruction_time |-> 0, execution_duration |-> 0],
         read |-> [destruction_time |-> 0, execution_duration |-> 0]]

Init ==
    /\ jobs = [id \in Ids |-> NoJob]
    /\ created = 0
    /\ sent = {}
    /\ req = [r \in Requests |-> Idle]
    /\ answer = None
    /\ validators \in SUBSET Validated
    /\ faults = 0

-----------------------------------------------------------------------------
\* Errors.

\* TaskError.from_worker_error: what a worker's exception says of the job.
from_worker_error(error_type) ==
    [code |-> CASE error_type = "FATAL" -> "Error"
                [] error_type = "TRANSIENT" -> "ServiceUnavailable"
                [] error_type = "USAGE" -> "UsageError",
     type |-> IF error_type = "TRANSIENT" THEN "transient" ELSE "fatal"]

\* The status of a sync request whose job failed.
SyncJobFailedError(error) == IF error.code = "UsageError" THEN 422 ELSE 500

\* The status_code of the other exceptions.  Those that are not a UWSError
\* make FastAPI answer 500.
status_code(e) ==
    CASE e \in {"UnknownJobError", "DataMissingError"} -> 404
      [] e \in {"InvalidPhaseError", "RequestValidationError"} -> 422
      [] e \in {"SyncJobTimeoutError", "SyncJobNoResultsError"} -> 500
      [] e \in {"WobblyError", "RedisError", "ValidationError", "ValueError"} -> 500

Ok(body) == [status |-> 200, body |-> body]
SeeOther(id) == [status |-> 303, body |-> id]
Error(e) == [status |-> status_code(e), body |-> e]

Respond(r, a) ==
    /\ answer' = a
    /\ req' = [req EXCEPT ![r] = Idle]
Goto(r, pc) ==
    /\ req' = [req EXCEPT ![r].pc = pc]
    /\ answer' = None

-----------------------------------------------------------------------------
\* What a job looks like in answers.

\* ResultStore.sign_url: a URL that can be used as it is, or one that is signed.
\* SignedURLService.signed_url raises ValueError for what is not in a bucket.
sign_url(url) == IF url = "http" THEN url ELSE "signed"
Signable(job) == \A i \in DOMAIN job.results : job.results[i] # "file"

to_xml_model(job, results) ==
    [phase |-> job.phase, quote |-> job.quote, destruction |-> job.destruction_time,
     execution_duration |-> job.execution_duration,
     parameters |-> job.parameters, results |-> results,
     error_summary |-> job.errors]

get_summary(job) ==
    IF Signable(job)
      THEN Ok(to_xml_model(job, [i \in DOMAIN job.results |-> sign_url(job.results[i])]))
      ELSE Error("ValueError")

get_job_destruction(job) == Ok(job.destruction_time)
get_job_error(job) ==
    IF job.errors = <<>> THEN Error("DataMissingError") ELSE Ok(job.errors[1].code)
get_job_execution_duration(job) == Ok(job.execution_duration)
get_job_owner(job) == Ok("owner")
get_job_parameters(job) == Ok(to_xml_model(job, <<>>).parameters)
get_job_phase(job) == Ok(job.phase)
get_job_quote(job) == Ok(IF job.quote # 0 THEN job.quote ELSE "")
get_job_results(job) ==
    LET summary == get_summary(job) IN
    CASE summary.status # 200 -> summary
      [] summary.status = 200 /\ summary.body.results = <<>> -> Error("DataMissingError")
      [] OTHER -> Ok(summary.body.results)

Text(route, job) ==
    CASE route = "get_destruction" -> get_job_destruction(job)
      [] route = "get_error" -> get_job_error(job)
      [] route = "get_execution_duration" -> get_job_execution_duration(job)
      [] route = "get_owner" -> get_job_owner(job)
      [] route = "get_parameters" -> get_job_parameters(job)
      [] route = "get_phase" -> get_job_phase(job)
      [] route = "get_quote" -> get_job_quote(job)
      [] route = "get_results" -> get_job_results(job)

\* The most recent jobs first.  A count of 0 is not passed on to Wobbly.
list_jobs(phases, after, count) ==
    LET listed == {id \in Ids : /\ jobs[id] # NoJob
                                /\ phases = {} \/ jobs[id].phase \in phases
                                /\ id > after} IN
    IF count = 0 THEN listed
    ELSE {id \in listed : Cardinality({i \in listed : i > id}) < count}

-----------------------------------------------------------------------------
\* Requests come in.

Ask(route, id, value, wait) ==
    [Idle EXCEPT !.route = route, !.id = id, !.value = value, !.wait = wait]

Asks ==
    {Ask("availability", 0, 0, 0), Ask("sync", 0, "RUN", 0)}
    \union {Ask("create", 0, phase, 0) : phase \in {"RUN", "none"}}
    \union {Ask("list", 0, [phases |-> p, after |-> a, count |-> c], 0) :
              p \in {{}, {"PENDING", "HELD"}}, a \in {0, 1}, c \in {0, 1}}
    \union {Ask(route, id, 0, 0) :
              route \in TextRoutes \union {"delete", "delete_via_post"}, id \in Ids}
    \union {Ask("get", id, "none", 0) : id \in Ids}
    \union {Ask("get", id, phase, wait) :
              phase \in ACTIVE_PHASES \union {"none"}, id \in Ids, wait \in Waits}
    \union {Ask("post_phase", id, phase, 0) :
              phase \in {"RUN", "ABORT", "none"}, id \in Ids}
    \union {Ask("post_destruction", id, t, 0) : t \in Times, id \in Ids}
    \union {Ask("post_execution_duration", id, d, 0) : d \in Durations, id \in Ids}

First(ask) ==
    CASE ask.route \in {"create", "sync"} -> "create"
      [] ask.route = "list" -> "list"
      [] ask.route = "get" -> "wait"
      [] OTHER -> "get"

\* Bounds: no more jobs than MaxJobs are asked for, and the requests of Alone,
\* which one step answers, are not mixed with others.
MayAsk(ask) ==
    LET busy == {r \in Requests : req[r].pc # "idle"} IN
    /\ ask.route \in {"create", "sync"} =>
         created + Cardinality({r \in busy : req[r].pc = "create"}) < MaxJobs
    /\ ask.route \in Alone => busy = {}
    /\ \A r \in busy : req[r].route \notin Alone

\* A handler runs up to its first request to Wobbly.
request(r) ==
    /\ req[r].pc = "idle"
    /\ \E ask \in {a \in Asks : a.route \in Routes /\ MayAsk(a)} :
         IF ask.route = "availability" THEN Respond(r, Ok(0))
         ELSE IF ask.route = "post_phase" /\ ask.value = "none"
           THEN Respond(r, SeeOther(ask.id))
         ELSE IF ask.route = "post_execution_duration" /\ ask.value < 0
           THEN Respond(r, Error("RequestValidationError"))
         ELSE /\ req' = [req EXCEPT ![r] = [ask EXCEPT !.pc = First(ask)]]
              /\ answer' = None
    /\ UNCHANGED <<jobs, created, sent, validators, faults>>

get_jobs(r) ==
    /\ req[r].pc = "list"
    /\ LET v == req[r].value IN
       Respond(r, Ok(list_jobs(v.phases, v.after, v.count)))
    /\ UNCHANGED <<jobs, created, sent, validators, faults>>

-----------------------------------------------------------------------------
\* Requests to Wobbly.

StoreCalls == {"create", "list", "get", "wait", "poll", "last", "mark_queued",
               "mark_aborted", "update", "delete"}

\* _request: Wobbly cannot be reached or reports a failure.
request_fails(r) ==
    /\ req[r].pc \in StoreCalls
    /\ faults < MaxFaults
    /\ faults' = faults + 1
    /\ Respond(r, Error("WobblyError"))
    /\ UNCHANGED <<jobs, created, sent, validators>>

\* _request: there is no such job.
not_found(r) ==
    /\ req[r].pc \in StoreCalls \ {"create", "list"}
    /\ jobs[req[r].id] = NoJob
    /\ Respond(r, Error("UnknownJobError"))
    /\ UNCHANGED <<jobs, created, sent, validators, faults>>

\* from_serialized_job: json_parameters that are empty are not validated, and
\* a Job without parameters is not valid.
from_serialized_job(r) ==
    /\ req[r].pc \in {"get", "wait", "poll", "last"}
    /\ jobs[req[r].id] # NoJob
    /\ jobs[req[r].id].parameters = "empty"
    /\ Respond(r, Error("ValidationError"))
    /\ UNCHANGED <<jobs, created, sent, validators, faults>>

\* The request r is at pc and JobStore.get returns a job.
Has(r, pc) ==
    /\ req[r].pc = pc
    /\ jobs[req[r].id] # NoJob
    /\ jobs[req[r].id].parameters = "given"
TheJob(r) == jobs[req[r].id]

JobCreate(parameters, quote) ==
    [phase |-> "PENDING", message_id |-> FALSE, parameters |-> parameters,
     destruction_time |-> lifetime, execution_duration |-> execution_duration,
     quote |-> quote, errors |-> <<>>, results |-> <<>>]

\* Routes "jobs" and "sync".  The new job is there even if it cannot be read.
create(r) ==
    /\ req[r].pc = "create"
    /\ created' = created + 1
    /\ \E parameters \in Parameters, quote \in Quotes :
         /\ jobs' = [jobs EXCEPT ![created'] = JobCreate(parameters, quote)]
         /\ IF parameters = "empty" THEN Respond(r, Error("ValidationError"))
            ELSE IF req[r].value = "RUN"
              THEN /\ req' = [req EXCEPT ![r].id = created', ![r].pc = "get"]
                   /\ answer' = None
              ELSE Respond(r, SeeOther(created'))
    /\ UNCHANGED <<sent, validators, faults>>

get_text(r) ==
    /\ Has(r, "get")
    /\ req[r].route \in TextRoutes
    /\ Respond(r, Text(req[r].route, TheJob(r)))
    /\ UNCHANGED <<jobs, created, sent, validators, faults>>

-----------------------------------------------------------------------------
\* start, abort and delete.

Starts(r) == req[r].route \in {"create", "sync", "post_phase"} /\ req[r].value = "RUN"
Aborts(r) == req[r].route = "post_phase" /\ req[r].value = "ABORT"
Deletes(r) == req[r].route \in {"delete", "delete_via_post"}

\* WorkerJobInfo.timeout: how long a worker lets the job run.
WorkerTimeout(job) ==
    IF job.execution_duration # 0 THEN job.execution_duration ELSE lifetime

start(r) ==
    /\ Has(r, "get")
    /\ Starts(r)
    /\ IF TheJob(r).phase \in {"PENDING", "HELD"}
         THEN /\ req' = [req EXCEPT ![r].pc = "enqueue",
                                    ![r].timeout = WorkerTimeout(TheJob(r))]
              /\ answer' = None
         ELSE Respond(r, Error("InvalidPhaseError"))
    /\ UNCHANGED <<jobs, created, sent, validators, faults>>

enqueue(r) ==
    /\ req[r].pc = "enqueue"
    /\ sent' = sent \union {[job_id |-> req[r].id, timeout |-> req[r].timeout]}
    /\ Goto(r, "mark_queued")
    /\ UNCHANGED <<jobs, created, validators, faults>>

mark_queued(r) ==
    /\ req[r].pc = "mark_queued"
    /\ TheJob(r) # NoJob
    /\ jobs' = [jobs EXCEPT ![req[r].id].phase = "QUEUED",
                            ![req[r].id].message_id = TRUE]
    /\ IF req[r].route = "sync" THEN Goto(r, "wait")
       ELSE Respond(r, SeeOther(req[r].id))
    /\ UNCHANGED <<created, sent, validators, faults>>

abort(r) ==
    /\ Has(r, "get")
    /\ Aborts(r)
    /\ IF TheJob(r).phase \notin ACTIVE_PHASES
         THEN Respond(r, SeeOther(req[r].id))
         ELSE Goto(r, IF TheJob(r).message_id THEN "abort_job" ELSE "mark_aborted")
    /\ UNCHANGED <<jobs, created, sent, validators, faults>>

mark_aborted(r) ==
    /\ req[r].pc = "mark_aborted"
    /\ TheJob(r) # NoJob
    /\ jobs' = [jobs EXCEPT ![req[r].id].phase = "ABORTED"]
    /\ Respond(r, SeeOther(req[r].id))
    /\ UNCHANGED <<created, sent, validators, faults>>

delete(r) ==
    /\ Has(r, "get")
    /\ Deletes(r)
    /\ Goto(r, IF TheJob(r).phase \in ACTIVE_PHASES /\ TheJob(r).message_id
                 THEN "abort_job" ELSE "delete")
    /\ UNCHANGED <<jobs, created, sent, validators, faults>>

\* arq has stopped the job or has found that it is over; see UWSJobs.
abort_job(r) ==
    /\ req[r].pc = "abort_job"
    /\ Goto(r, IF Deletes(r) THEN "delete" ELSE "mark_aborted")
    /\ UNCHANGED <<jobs, created, sent, validators, faults>>

\* Redis cannot be reached, arq does not stop the job in time, or the job
\* failed: delete goes on all the same.
arq_fails(r) ==
    /\ req[r].pc \in {"enqueue", "abort_job"}
    /\ faults < MaxFaults
    /\ faults' = faults + 1
    /\ IF req[r].pc = "abort_job" /\ Deletes(r) THEN Goto(r, "delete")
       ELSE Respond(r, Error("RedisError"))
    /\ UNCHANGED <<jobs, created, sent, validators>>

delete_job(r) ==
    /\ req[r].pc = "delete"
    /\ TheJob(r) # NoJob
    /\ jobs' = [jobs EXCEPT ![req[r].id] = NoJob]
    /\ Respond(r, SeeOther(0))
    /\ UNCHANGED <<created, sent, validators, faults>>

-----------------------------------------------------------------------------
\* Changing the destruction time and the execution duration.

Settings(job) == [destruction_time |-> job.destruction_time,
                  execution_duration |-> job.execution_duration]

\* Nothing is written if nothing would change.  (read is history: what the job
\* had when it was read.)
Change(r, metadata) ==
    IF metadata = Settings(TheJob(r))
      THEN Respond(r, SeeOther(req[r].id))
      ELSE /\ req' = [req EXCEPT ![r].pc = "update", ![r].metadata = metadata,
                                 ![r].read = Settings(TheJob(r))]
           /\ answer' = None

\* Mutant: a later time than the job has is taken as it is.
DestructionUnbounded(r) ==
    /\ Has(r, "get")
    /\ req[r].route = "post_destruction"
    /\ Change(r, [destruction_time |-> req[r].value,
                  execution_duration |-> TheJob(r).execution_duration])
    /\ UNCHANGED <<jobs, created, sent, validators, faults>>

update_destruction(r) ==
    /\ Has(r, "get")
    /\ req[r].route = "post_destruction"
    /\ \E t \in IF "destruction" \in validators THEN Times
                ELSE {Least(req[r].value, TheJob(r).destruction_time)} :
         Change(r, [destruction_time |-> t,
                    execution_duration |-> TheJob(r).execution_duration])
    /\ UNCHANGED <<jobs, created, sent, validators, faults>>

\* Mutant: the destruction time is reset to that of a new job.
DurationResetsDestruction(r) ==
    /\ Has(r, "get")
    /\ req[r].route = "post_execution_duration"
    /\ Change(r, [destruction_time |-> lifetime, execution_duration |->
                    Least(req[r].value, execution_duration)])
    /\ UNCHANGED <<jobs, created, sent, validators, faults>>

update_execution_duration(r) ==
    /\ Has(r, "get")
    /\ req[r].route = "post_execution_duration"
    /\ \E d \in IF "execution_duration" \in validators
                 THEN Durations \intersect Nat ELSE {req[r].value} :
         Change(r, [destruction_time |-> TheJob(r).destruction_time,
                    execution_duration |-> Least(d, execution_duration)])
    /\ UNCHANGED <<jobs, created, sent, validators, faults>>

update_metadata(r) ==
    /\ req[r].pc = "update"
    /\ TheJob(r) # NoJob
    /\ jobs' = [jobs EXCEPT
                  ![req[r].id].destruction_time = req[r].metadata.destruction_time,
                  ![req[r].id].execution_duration = req[r].metadata.execution_duration]
    /\ Respond(r, SeeOther(req[r].id))
    /\ UNCHANGED <<created, sent, validators, faults>>

-----------------------------------------------------------------------------
\* Waiting for a job, and the answers of get_job and of a sync request.

\* run_sync: the first result of the job, or why there is none.
SyncAnswer(job) ==
    IF job.phase \notin {"COMPLETED", "ERROR"} THEN Error("SyncJobTimeoutError")
    ELSE IF job.errors # <<>>
      THEN [status |-> SyncJobFailedError(job.errors[1]), body |-> job.errors[1].code]
    ELSE IF job.results = <<>> THEN Error("SyncJobNoResultsError")
    ELSE IF ~Signable(job) THEN Error("ValueError")
    ELSE SeeOther(sign_url(job.results[1]))

GiveJob(r) ==
    Respond(r, IF req[r].route = "sync" THEN SyncAnswer(TheJob(r))
               ELSE get_summary(TheJob(r)))

\* The wait that is asked for: get_job passes that of the client on.
WaitSeconds(r) == IF req[r].route = "sync" THEN sync_timeout ELSE req[r].wait

WaitTime(r) ==
    IF WaitSeconds(r) < 0 THEN wait_timeout ELSE Least(WaitSeconds(r), wait_timeout)

UntilNot(r) ==
    CASE req[r].route = "sync" -> ACTIVE_PHASES
      [] req[r].route # "sync" /\ req[r].value # "none" -> {req[r].value}
      [] OTHER -> {TheJob(r).phase}

get(r) ==
    /\ Has(r, "wait")
    /\ IF WaitSeconds(r) # 0 /\ TheJob(r).phase \in ACTIVE_PHASES
         THEN /\ req' = [req EXCEPT
                   ![r].until_not = UntilNot(r),
                   ![r].pc = IF TheJob(r).phase \in UntilNot(r) THEN "poll" ELSE "last"]
              /\ answer' = None
         ELSE GiveJob(r)
    /\ UNCHANGED <<jobs, created, sent, validators, faults>>

\* _wait_for_job, as long as there is time: a read that shows a change.  (One
\* that does not changes nothing here.)
poll(r) ==
    /\ Has(r, "poll")
    /\ TheJob(r).phase \notin req[r].until_not
    /\ Goto(r, "last")
    /\ UNCHANGED <<jobs, created, sent, validators, faults>>

\* asyncio.timeout.
timeout(r) ==
    /\ req[r].pc = "poll"
    /\ req' = [req EXCEPT ![r].pc = "last", ![r].waited = WaitTime(r)]
    /\ answer' = None
    /\ UNCHANGED <<jobs, created, sent, validators, faults>>

last_get(r) ==
    /\ Has(r, "last")
    /\ GiveJob(r)
    /\ UNCHANGED <<jobs, created, sent, validators, faults>>

-----------------------------------------------------------------------------
\* What happens to jobs elsewhere.

\* The database worker records what a worker reported of an arq job; bound:
\* how the job ended is reported once.
Message(id, fields) ==
    /\ jobs[id] # NoJob
    /\ \E info \in sent : info.job_id = id
    /\ jobs' = [jobs EXCEPT ![id] = [f \in DOMAIN @ |->
                  IF f \in DOMAIN fields THEN fields[f] ELSE @[f]]]
    /\ answer' = None
    /\ UNCHANGED <<created, sent, req, validators, faults>>

Unreported(id) == jobs[id] # NoJob => jobs[id].results = <<>> /\ jobs[id].errors = <<>>

JobUpdateExecuting(id) == Message(id, [phase |-> "EXECUTING"])
JobUpdateCompleted(id) ==
    \E results \in {<<>>} \union {<<u>> : u \in ResultUrls} :
      /\ Unreported(id)
      /\ Message(id, [phase |-> "COMPLETED", results |-> results])
JobUpdateError(id) ==
    \E error_type \in ErrorTypes :
      /\ Unreported(id)
      /\ Message(id, [phase |-> "ERROR", errors |-> <<from_worker_error(error_type)>>])

\* Wobbly deletes a job when its destruction time has come.
Destroy(id) ==
    /\ jobs[id] # NoJob
    /\ jobs' = [jobs EXCEPT ![id] = NoJob]
    /\ answer' = None
    /\ UNCHANGED <<created, sent, req, validators, faults>>

Step(r) ==
    \/ get_jobs(r) \/ request_fails(r) \/ not_found(r) \/ from_serialized_job(r)
    \/ create(r) \/ get_text(r)
    \/ start(r) \/ enqueue(r) \/ mark_queued(r)
    \/ abort(r) \/ mark_aborted(r) \/ delete(r) \/ abort_job(r) \/ arq_fails(r)
    \/ delete_job(r)
    \/ update_destruction(r) \/ update_execution_duration(r) \/ update_metadata(r)
    \/ get(r) \/ poll(r) \/ last_get(r)

Elsewhere(id) ==
    \/ JobUpdateExecuting(id) \/ JobUpdateCompleted(id) \/ JobUpdateError(id)
    \/ Destroy(id)

Next ==
    \/ \E r \in Requests : request(r) \/ Step(r) \/ timeout(r)
    \/ \E id \in Ids : Elsewhere(id)

Spec == Init /\ [][Next]_vars

-----------------------------------------------------------------------------
\* Properties.

Pcs == {"idle", "enqueue", "abort_job"} \union StoreCalls

TypeOK ==
    /\ jobs \in [Ids -> SerializedJob \union {NoJob}]
    /\ created \in 0..MaxJobs
    /\ sent \in SUBSET [job_id: Ids, timeout: Nat]
    /\ \A r \in Requests :
         /\ req[r].route \in Routes \union {"none"}
         /\ req[r].id \in 0..MaxJobs
         /\ req[r].pc \in Pcs
         /\ req[r].until_not \subseteq ACTIVE_PHASES
         /\ req[r].waited \in Nat
         /\ req[r].timeout \in Nat
         /\ req[r].metadata \in JobUpdateMetadata
         /\ req[r].read \in JobUpdateMetadata
    /\ answer.status \in {0, 200, 303, 404, 422, 500}
    /\ validators \in SUBSET Validated
    /\ faults \in 0..MaxFaults

\* Whatever clients ask for, at the same time and by what they read before:
\* the duration of a job is at most the configured one or 0, which is no limit;
\* a worker is given at most the configured duration, or the lifetime if the
\* job had no limit; and no job outlives the configured lifetime unless the
\* application validates destruction times.  (update_destruction,
\* update_execution_duration, start.  What UWSConfig documents is stricter: see
\* DurationAsConfigured.)
LimitsHold ==
    /\ \A id \in Ids : jobs[id] # NoJob =>
         /\ jobs[id].execution_duration <= execution_duration
         /\ "destruction" \notin validators => jobs[id].destruction_time <= lifetime
    /\ \A info \in sent : info.timeout \in 1..execution_duration \union {lifetime}

\* The lost update of a job's settings goes no further than this.  Both values
\* are written back when one is changed.  A value that a request is
\* not about changes with it only if somebody changed that value after the
\* request read the job, and then it is put back.
UpdateKeepsOther ==
    [][\A r \in Requests : update_metadata(r) =>
         LET old == TheJob(r)  new == jobs'[req[r].id]  read == req[r].read IN
         /\ req[r].route # "post_execution_duration"
              /\ new.execution_duration # old.execution_duration
              => /\ old.execution_duration # read.execution_duration
                 /\ new.execution_duration = read.execution_duration
         /\ req[r].route # "post_destruction"
              /\ new.destruction_time # old.destruction_time
              => /\ old.destruction_time # read.destruction_time
                 /\ new.destruction_time = read.destruction_time]_vars

\* "Jobs that run longer than this length of time will be automatically aborted",
\* says UWSConfig of execution_duration, and of validate_execution_duration:
\* "Otherwise, the execution duration may not be changed."  So every job is
\* started with the configured duration where it is not validated.
DurationAsConfigured ==
    "execution_duration" \notin validators =>
      \A info \in sent : info.timeout = execution_duration

\* "Job did not complete in {timeout}s", says SyncJobTimeoutError of sync_timeout
\* when a sync request gives up on a job that is still active.
SyncWaitsItsTimeout ==
    [][\A r \in Requests :
         (/\ last_get(r)
          /\ req[r].route = "sync"
          /\ answer'.body = "SyncJobTimeoutError"
          /\ TheJob(r).phase \in ACTIVE_PHASES)
           => req[r].waited >= sync_timeout]_vars

=============================================================================
