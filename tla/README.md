# Formal model of Safir

Safir (`src/src/safir`, with the separate distributions `src/safir-arq` and
`src/safir-logging`) is the library that Rubin Observatory's FastAPI services
are built on. This directory holds TLA+ models of the parts of it whose
correctness depends on the order in which things happen, TLC configurations
that check them on small instances, and proofs that hold for every instance.

A step of every model is what one asyncio task (or one process) does between
two suspension points: everything up to the next `await` that can suspend is one
action, and whatever was read before it may be stale after it.

## Inventory

| Part | State | Operations | What is hard about it |
|---|---|---|---|
| `asyncio.AsyncMultiQueue` | list of items, one event per reader | `put`, `close`, `clear`, `aiter_from`, `qsize`, `finished` | readers that suspend in `yield` while items arrive; `clear` under live readers; timeouts |
| `uws` HTTP API (`_handlers`, `_service`, `_storage`) | none of its own; the job records are in Wobbly | every route: create, sync, phase, destruction, execution duration, list, get with wait, delete | check-then-act across requests; updates that write back what was read; answers from stale reads |
| `uws` database worker (`_workers`) | messages of the UWS arq queue | `uws_job_started`, `uws_job_completed` | up to ten messages at once, in any order, possibly twice |
| `arq.uws` backend worker | process pool in the worker context | `run`: two messages, timeout, cancellation | cancellation at any point, restarts, messages before results |
| `testing.uws` Wobbly mock | job records by service and owner | create, get, list, update, delete | PATCH that applies whatever the phase is |
| `arq._queue` clients | arq jobs (in Redis, or in memory in the mock) | enqueue, abort, metadata, result, and the mock's worker part | results and statuses that disagree |
| `metrics._event_manager` | error state, time of the last failure, publishers, clients | initialize, create_publisher, publish, aclose | the error state is shared by operations that overlap |
| `metrics` mocks, `dependencies.metrics` | names taken, publishers, lists of payloads | the same operations, `EventDependency`, assertions about what was published | makers that fail halfway; greedy matching in any order |
| `testing.kubernetes` mock | objects by namespace and kind, one event stream for each | create, read, list, patch, replace, delete, watch | resource versions and watches that start in the past |
| `database._pagination` | the table; a cursor in the client's hands | first, next and previous page | rows that come and go between pages; going back |
| `database` engines, `dependencies.db_session` | engines, connectors, a session maker | initialize, take over, session, aclose | who closes what when a step raises; sessions of an engine that was replaced |
| `database` schema (`_initialize`, `_alembic`, `_retry`) | tables and `alembic_version` in the database | initialize, stamp, migrate, check, retried transactions | several processes of different versions; commits that are reported as failures |
| `kafka._manager` | cache of schema identifiers; the registry | register, serialize | two versions of a service, a registry that changes between two requests |
| `redis._storage` | keys in Redis | store, get, delete, scan, delete_all | what is stored during a scan; storages that share a database; undecryptable values |
| `slack` alerts, `sentry` `report_exception` | who is the alert client | messages, truncation, posting | texts at the limit, with escapes and newlines around it |
| `uws._models`, `_config` | none | XML, OpenAPI models, wiring | input handling |
| `gcs`, `github`, `middleware`, `fastapi`, `kafka._kafka_config`, `pydantic`, `datetime`, `click`, `metadata`, `logging`, Sentry configuration, other `dependencies`, other `testing` | none shared between operations | conversions, validation, single requests | input handling, well covered by unit tests |

How they interact: the HTTP handlers call the job service, which talks to Wobbly
and hands work to arq; the backend worker takes it from arq's default queue and
sends two messages to the UWS queue, which the database worker answers by
writing to Wobbly; run_sync polls Wobbly. The Kubernetes mock keeps one
AsyncMultiQueue per event stream. Services publish metrics through the event
manager from their handlers, so its operations overlap as the requests do; the
event manager registers the schemas of its events through the schema manager. The
lifespan of a service makes and closes its database engine, and its requests get
sessions of it; Redis storages, the schema registry and the tables of a database
are shared between the processes of a service, also during a rollout. Exceptions
of handlers and workers end as alerts.

`PROJECT.json` lists every component with its status, and under `hazards` each
place where the code could go wrong in a way that is hard to test, with the
properties that watch it.

## Modules

| Module | Models | Correspondence |
|---|---|---|
| `BroadcastLog` | what AsyncMultiQueue promises | a sequence of logs; readers attach to the last one, receive from a position on, finish when it is sealed |
| `AsyncMultiQueue` | `asyncio/_multiqueue.py` | `contents[gen]` is `_contents` (a list per `clear`), `triggers` is `_triggers`; a reader's `pc` is where its generator is suspended; `NextInSlice` is the `for` loop, `LoopTop` the `while` body from `trigger.clear()` |
| `UWSJobs` | `uws/_service.py`, `_storage.py`, `_workers.py`, `arq/uws.py`, Wobbly | `store` are the job records, `arq` the default queue, `worker` the backend workers, `task` the messages of the UWS queue, `req` the API requests, whose `pc` is the next await |
| `UWSApi` | `uws/_handlers.py`, `_service.py`, `_storage.py`, the data of `_models.py` and `_exceptions.py` | `jobs` are the records; `req` a request: its route, the job, what it asks for, its next await, and what it read or computed before that (`read`, `metadata`, `timeout`, `until_not`, `waited`); `sent` what arq was given; `answer` the last response |
| `EventManager` | `metrics/_event_manager.py` | `state` and `since` are `_state` and the age of `_failed_at`; `call` are the tasks inside an abandonable operation; `broker` and `admin` the clients; `config` the two settings that matter |
| `MetricsMocks` | `metrics/_config.py`, `_testing.py`, the mock and no-op managers, `dependencies/metrics.py` | `manager` is which manager the configuration gave and the names it has; `events` what `EventDependency` holds, with the list of each `MockEventPublisher` |
| `MockArqQueue` | the mock of `arq/_queue.py` | `metadata` and `results` are `_job_metadata` and `_job_results` of the default queue, `answer` is what the last call returned |
| `KubernetesMock` | `testing/kubernetes/_mock.py` | `objects` are `_objects` and `_cluster_objects`, by the resource version of each; `streams` the event streams; `spaces` the keys of `_objects`; one operator per API method; `maker` are tasks inside `create_namespaced_job` or `_pod`, `client` those that read and watch |
| `Pagination` | `database/_pagination.py` | `rows` is what the statement matches, `page` the `PaginatedList` a client holds; `_paginated_query` and the cursor methods keep their names |
| `DatabaseEngines` | `database/_config.py`, `_connection.py`, `_manager.py`, `dependencies/db_session.py` | `dep` is `DatabaseSessionDependency` (`_engine`, whether it created it, `_sessionmaker`), `mgr` an `EngineManager`, `task` what the lifespan waits for, `engines` and `connectors` what exists, `sessions` what requests were given |
| `DatabaseSchema` | `database/_initialize.py`, `_alembic.py`, `_retry.py`, `create_async_session` | `db` are the revisions of the tables and of `alembic_version`, and whether the tables were changed under the stamp; `calls` what each process does and how often it tried |
| `RedisStorage` | `redis/_storage.py` | `redis` and `expires` are the database, `tasks` the scans under way, `mine` (history) what each storage stored last |
| `SchemaManager` | `kafka/_manager.py` | `registry` are the versions and compatibility of each subject, `registering` the calls of `register_model`, `_subjects_to_ids` keeps its name |
| `SlackAlerts` | `slack/blockkit.py`, `slack/webhook.py`, `sentry/_helpers.py`, the exceptions that become messages | a text is its length, where its newlines are and where a character is that is escaped; `_alert_client` is who posts |

`AsyncMultiQueueProofs`, `PaginationProofs`, `UWSJobsProofs`, `UWSApiProofs`,
`EventManagerProofs`, `KubernetesMockProofs` and `DatabaseEnginesProofs` hold the
theorems about the modules they are named after, `LibraryProofs` those about
`RedisStorage`, `SchemaManager`, `SlackAlerts`, `MockArqQueue`, `DatabaseSchema` and
`MetricsMocks`, in a section for each, and last about `Library`.

Each `MC...` module extends what it checks with the definitions the `.cfg` files
need; a `.cfg` file is named after the module and what its run shows.
`Library` extends `MetricsMocks`, `MockArqQueue` and the modules from `Pagination` on,
which share no state: its variable `part` chooses one, which runs alone, so that its
behaviours are those of each and not their interleavings (`PartsRunAlone` proves that
each part does only what its own specification allows).
Operators preceded by "Mutant:" are not part of the specification: each is a
plausible bug in the definition after it, kept to show that a property can fail.

### The queue

A reader's generator registers its trigger when `aiter_from` is called, before it
runs; it may be closed before it ever runs, and then its `finally` clause
does not run either. A timeout may cancel a wait whose trigger is already set.
`ImplementsLog` is the refinement: a log is the list without end markers, sealed
when the list ends in one; suspensions and triggers are hidden. It is checked with
fairness (`FairSpec` of both). `qsize` and `finished` are reads that change nothing
and are left out.

### UWS jobs

Requests are made once each. `Wobbly` is modelled by its mock: PATCH applies to
any job that exists and is atomic. arq is external: it runs a queued job, stores
its result after `run` has returned, may cancel it (abort, or shutdown, after
which it runs it again) and asks nothing of the caller of abort but to wait for
a result. The messages of the UWS queue are handled up to ten at a time, so in the
model any of them at any time.

A request to Wobbly or to arq may fail, and one to arq may have got there all the same.
`run` raises outside of its `try` block when its parameters do not validate or a message
cannot be enqueued, before it or in the `finally` clause, and it may be cancelled while
it sends either. arq then stores that as the outcome (or, after a shutdown, runs the job
again), and the message may never have been sent: the job record stays as it is, QUEUED or EXECUTING. `SuccessesAreReported`
says what is left: a run that arq takes for a success has sent both messages. The process
pool that a timeout kills and `_restart_pool` replaces is left out: what a killed pool does to
the next run is an outcome like another.

The other properties: a job record only ever says what the arq jobs enqueued for that
very job did (`Provenance`), a deleted job stays deleted (`NoResurrection`), what
run_sync returns is this job's (`SyncResultIsOwn`), every request is answered, and results
are stored. The run has one job, where "that very job" cannot go wrong between two jobs;
that no job gets what another's run did is left to the proofs. `Provenance` permits
what the records may well say: that a job is still EXECUTING, or in error, because a
message came late or was lost.

The last one, `ResultsAreStored`, and `FinishedJobsStayFinished` need timing the
code counts on and does not enforce, named `Timely`: the request that enqueued a
job records it before a message about the run is handled (`Unhurried`), the messages
of a run are handled in order, and after those of earlier runs (`InOrderTasks`), and
the result is stored before `JOB_RESULT_TIMEOUT` (`ResultInTime`). `uws_lost` shows
that without them results can be lost for good.

### The UWS API

`UWSJobs` has the five operations that meet arq and the workers, and their
timing; `UWSApi` has every route, with the values that clients can change, and
lets the messages about an arq job come in any order at all. Every request to
Wobbly or arq is an action of its own, may find the job gone, and may fail.
`validators` is which of `validate_destruction` and `validate_execution_duration` the
application sets, any combination of the two.

`LimitsHold`: a client's destruction time and execution duration are cut to the
limits of the configuration as they are when the job was read, and are written back
later, both of them, although the client asked to change one. Without a validator of
the application no request can get past them, and no worker is given a timeout past
them. `UpdateKeepsOther` says what writing both back may do: put the other setting
back to what the request read, when another request changed it meanwhile. The code
does not prevent this lost update, and the property only says that it does nothing worse.

An execution duration of 0 means without limit, as the IVOA standard has it, and is
accepted whatever the maximum is; a worker then gets the whole of the configured
lifetime. `LimitsHold` says what the code does; `UWSConfig` documents a stricter rule, by which
no job runs longer than the configured duration and none is changed without a
validator. The run `uws_duration` shows that the code does not keep it
(`DurationAsConfigured`). Waiting for a job is a count of seconds, and the two timeouts that meet in
run_sync are both there, as `uws_sync` shows.

### The event manager

Times are ages that stop at `Backoff + 1`, since the code only ever compares them
with the backoff interval. `MayOverlap` says which operations the application lets
overlap: publishes always do; creating and closing normally happen at startup
and shutdown. `fail` is the `except` branch of abandonable with the state and the
failure's date as the code computes them. Log messages are left out.

Nothing is said of a manager that was closed, nor of two creations of one name: with
publishes still under way when it closes, or with creations that overlap, the code
does what nobody wants (see below, under what was noticed while modelling), and
without them there is nothing that could go wrong. `Recovers` says that the manager
comes back, not when.

### The mock queue

Any order of calls by the service and by the test that plays the worker. As in the
code, a job that is set in progress again keeps the result of its last completion:
`set_in_progress` looks for the job among the names of queues. `CompleteHaveResults`
therefore says nothing of jobs in progress.

### The Kubernetes mock

The mock's methods do not suspend, except at a hook after a create; what follows the
hook (a job's pod, a pod's start event) is therefore a step of its own, by which
time the job or its namespace may be gone. Every change goes through `Write`,
`Replace` or `Delete`, the models of `_store_object` and `_delete_object`, which put
one event on one stream. `error_callback` runs before a method acts, so raising in it
is no step; only in the nested calls does it cut a method short: the pods of a job, the
read of a namespace that is deleted, and the reads of `list_namespace`, where it hides a
namespace that is there from the list (`missed`).

What the mock promises is what a service relies on: to read or list, to watch from
the version it knows, to begin anew when the watch ends, and to end up knowing
what is there (`ClientsConverge`). This rests on the streams telling everything
(`StreamsTellAll`). Objects that go with their namespace are excepted (`dropped`):
the mock tells nobody. So are the namespaces that an error hid from a client's list, until an
event tells it of them. Custom objects have labels here; without them a
watch raises KeyError, and a list AttributeError in any case.

### Pagination

Rows are inserted and deleted between the requests of one client, who follows the
links of its page with any limits. `fromStart` and `fromEnd` are history: the rows
that were there when the client was last at the first or the last page and have
not been deleted, and those it has been shown since. A page is a set, always shown
newest first. The cursor in a URL is the cursor: its text gives back the
same time and identifier.

### Metrics without Kafka

The configuration chooses a manager from the two settings in the environment. What is
checked is what a test suite relies on: `AssertionsMean` compares every assertion
of `PublishedList`, for all that may be published and expected within the bounds,
with whether the expected events are there, side by side or in any order. That is what
the code and the tests mean; the docstrings say of `any_order` the opposite.
`assert_published(..., any_order=True)` takes for each pattern the first event that is
equal, so that with `ANY` or `NOT_NONE` it may fail although a matching exists. The property
asks completeness of it when narrow patterns come before the wider ones that they overlap
(`NarrowFirst`), where the greedy choice is right. The ordered assertion, which runs that check
first, is unaffected whatever the patterns are.

### Database engines and sessions

One task, the lifespan, initializes and closes, and requests come at any of its
awaits. Each of them may raise or be cancelled, the close of a connector in the
`except` branch of `create_engine` included. The engine manager and the dependency may hold the same
engine: the dependency then does not own it. `EnginesHeld` is what makes the
shutdown complete and single: an engine or a connector that is open is held by the
one that will close it, and by nobody else. The one exception is in the code: a connector
whose close raises in that `except` branch stays open and nobody has it
(`unwinding_fails`). `SessionsAreCurrent` says that the sessions which requests get are of the
engine that the dependency has at the time, never of one it gave up or replaced, and that
this engine is open unless a manager made it: the dependency is not told that the manager closed
it, and gives sessions of it all the same. While an engine is being disposed of it counts as
open, and the code does give sessions of it then. Two lifecycle calls at the
same time are not modelled: a service has one lifespan. `connect_args` are handed
on unread.

### Schemas and migrations

Processes of two versions of a service initialize, stamp, migrate, check and use
one database, and may crash at any await. The database is PostgreSQL, where the definition
of tables is part of the transaction. A commit may be reported as a failure, and then it
is retried. One administrator at a time installs, removes or migrates
(`Alone`), and a database is stamped by those whose tables it has (`MayStamp`), as the
documentation asks. `CurrentMeansTables`: who is told that the schema is current finds the
tables of its revision. The code does not keep this where tables are changed under a
stamp (`outdated`): `drop_database` drops them in one transaction and the stamp in the next,
between which it may crash, and a reset leaves the stamp it finds; until somebody stamps or
unstamps, the old stamp is taken for true. And a configuration without migrations is
current exactly when there is no stamp, whatever the tables are. Migrations that only write
a script and `_datetime` are left out. A migration that is given a URL disposes of its
engine only if it succeeds.

### Redis storages

SCAN is modelled by what Redis promises: it returns every key that was there all
the time, perhaps twice, and perhaps others. The prefixes of storages in one
database must not begin with each other (`RedisAssumption`); with `a` and `ab` they
are not private, and nothing in the code checks. Names are sequences of parts, so
that a key that looks like a prefix, and a prefix that the pattern could match in the middle, are
distinguished; characters that are special in patterns are left out. A value that
was written with another key or type stays where it is, and reading it raises.

### Schema registry

Two managers stand for two versions of a service. What a model's registration reads
may be old when it registers; the registry's own check is what refuses, and
`RollbackRefused` says that `register_model` returns only if the schema could follow the
latest at some time of the call. It need not be able to when the call returns: what the test
said may be out of date, and the registry, which looks again only at a schema that it does
not have, then takes the older schema although a newer one was registered in between. The models of one manager are assumed to have
different subjects (`KafkaAssumption`): with two of one name and namespace the second would be
serialized with the identifier of the first. And only the levels that compare with the latest
version are modelled.

### Alerts

Slack refuses a message if any part of it is over its limit, and truncation works on
the escaped text. `AlertsFit` asks both that every part fits and that nothing is
cut which would have fitted. Headings are assumed to leave room for the frame and
the mark, as all of this code do: with one that does not the message is over the
limit, or raises IndexError, although the documentation of the blocks promises truncation
of any. The routes ignore what FastAPI raises for clients besides `SlackIgnoredException`,
the annotation of worker errors only the latter, and the database worker posts any exception
(`uws_job_raises`). An escape may be cut in the middle, and a
traceback whose last line alone is too long shows nothing but the mark; both
fit. `<` and `>` are left out, being like `&`.

## Runs

| Run | Bounds | Shows |
|---|---|---|
| `queue` | 2 readers, 1 item, lists up to 2, 1 clear, start up to 1 | order, wakeups, ends, triggers, delivery, refinement of `BroadcastLog` |
| `uws_safety` | 1 job, 2 requests of any kind, 2 arq jobs, 2 runs (`RestartsOrRequests`), 1 fault | provenance, no resurrection, run_sync's answer, reports of successes |
| `services_live` | UWS: 2 requests, 1 arq job, 2 runs, `Timely`; metrics: 2 tasks, 2 event names, Backoff 2, publishes overlap | results are stored and stay, every request is answered; error states, recovery |
| `uws_lost` | 1 request, 1 run, not `Timely` | results are lost (finding) |
| `uws_abort` | 2 requests, 1 run, `Timely` | a completed job is marked aborted (finding) |
| `uws_api` | 2 requests to any route, 1 job, 1 fault; maximum duration 2, lifetime 3, `wait_timeout` 1, `sync_timeout` 2 | limits, updates |
| `uws_sync` | 1 sync request, the same configuration | it gives up at `wait_timeout` (finding) |
| `uws_duration` | 1 request, a posted duration of 0, no validators among others | a worker gets the whole lifetime (finding) |
| `metrics_forgiven` | 2 tasks, 2 event names, Backoff 1, creates overlap too | a late failure overwrites the final error state (finding) |
| `k8s_objects` | 2 namespaces, 2 names, 3 objects stored, 1 client, 1 task that creates jobs and pods | streams, clients |
| `k8s_alias` | 1 namespace, no such task, custom objects only | events changed after the fact (finding) |
| `library` | eight parts, below | the properties of each |

The parts of `library` and their bounds: pagination, 4 rows at 2 times, limits up to
2 or none; the mock of arq, 3 jobs; engines, 3 engines, 2 connectors, 2 requests and
four configurations; schemas, 2 processes of revisions 1 and 2, 2 tries; Redis, 3
storages with two prefixes, 2 keys, 1 value, 1 task; schema registry, 2 managers with
two models each; Slack, one handler, texts of five lengths about the
limits, each with newlines and escapes in several places; metrics mocks, 2 makers of
publishers, 3 payloads, at most 4 published and 3 expected. `services_live` is put together in
the same way (`MCServices`): jobs and metrics share nothing, and one of them runs.

Why these bounds are enough:

* two readers and one clear give a reader on the old list and one on the new, and
  lists of two a slice behind which an item or an end arrives; order among items is
  also proved for any number of them;
* a UWS job interferes only with itself (all data is per job), and two requests
  give every pair of overlapping operations; two runs give the messages of an old run
  after those of a new one. Where arq runs a job again the requests are those that
  wait for it or delete it, since the others do not look at runs;
* in `uws_api` the routes that answer in one step run while no other request is
  under way: they read or write once, so that an interleaving puts them
  between two steps of another, where the state is one they also meet alone or is
  another request's. The times asked for are below and above each limit. Nothing reads the
  last answer, so that states which differ in it alone are one (the view `StepState`);
* two tasks of the event manager give every pair of overlapping operations, and the
  ages distinguish now, within and past the interval;
* in the Kubernetes mock a kind shares nothing with another but the namespace,
  except for jobs, pods and events, so that one group of kinds is in use at a time,
  and two namespaces share nothing but the list of them, so that the second is there only
  while no other list is in use (the constraint `InFocus`; `MCSpec` leaves out the operations it
  would cut off at once); three objects stored, with any deletes, give an object
  that comes back after it was deleted while another is stored between, and a job,
  its pod and the pod's event;
* four rows of two times give a page of two with a row on either side of it, or two
  on one, and rows of one time across the borders;
* three engines give one that was replaced, one that is open and one more; two
  processes and two tries a commit that is reported as a failure and the retry after
  it, with the other version of the service between;
* two storages of one prefix and one of another give what is shared and what must not
  be; the task that scans meets any number of stores and deletes;
* four payloads of three values and three expectations give a greedy choice that is
  wrong and one that is right by chance.

Every invariant and every action property of the passing runs is also proved, and
does not depend on these bounds at all. Only the liveness properties rest on them:
`EndIsSeen`, `ItemsAreDelivered` and the fairness in `ImplementsLog`, `ResultsAreStored`,
`FinishedJobsStayFinished` and `RequestsFinish`, and `Recovers`.

Deadlock is not checked where the bounded environment may stop (a queue at its
length, requests all made, objects all stored, identifiers used up).

Every module has one type invariant, except `SlackAlerts` and the abstract `BroadcastLog`,
which have none, and all of them are theorems (that of `EventManager` under `OneAtATime`).
Those of the library's parts are checked together as `LibraryTypeOK`; the others are
there to be added to a `.cfg` and are not among the properties of the runs.

### Fairness

* The queue: weak fairness of a reader's next step. The event loop runs every ready
  task and the consumers are `async for` loops. Nobody has to put or close.
* UWS: weak fairness of every request, worker and message that is under way, and
  of `sync_wait_over`, because `_wait_for_job` is under a timeout. No request, abort
  timeout, restart or fault has to happen.
* Event manager: time passes, calls in progress go on or fail, and the
  application goes on publishing; only a call brings the manager back.

The other modules have safety properties only.

### Where the code and its documentation disagree

Six runs are there to be violated; `findings` in `PROJECT.json` quotes the lines:

* `uws_lost`: a run that is over before `start` has recorded the arq job's identifier
  loses its results;
* `uws_abort`: an abort marks a job aborted that has completed since it was read;
* `uws_sync`: `run_sync` gives up after `wait_timeout`, however long `sync_timeout` is;
* `uws_duration`: a client that posts an execution duration of 0 gets the whole lifetime of
  jobs, where the documentation allows no change and no longer run;
* `metrics_forgiven`: a publish that fails late makes the unrecoverable state of
  the event manager recoverable;
* `k8s_alias`: the mock puts the custom object it stores on the event stream, and a
  later change of it in place changes the event.

Noticed while modelling, and not the subject of a run:

* a second `close` makes `AsyncMultiQueue.qsize` one too large;
* run_sync raises an error other than the documented one when the job has failed or the
  wait is over; 0 is an execution duration without limit;
* the backoff interval of the event manager is dated to the start of the call that failed,
  and in its unrecoverable state every call past the interval logs an error;
* a publish that is under way at `aclose` and fails after it makes the closed manager
  recoverable again, and a later call initializes it (`_event_manager.py:147-149`);
* two creations of one event name that overlap both succeed, as the name is looked for
  before an await and stored after it, although `create_publisher` documents
  `DuplicateEventError`;
* the documentation of `raise_on_error` has the opposite sense;
* `MockArqQueue` keeps the result of a job set in progress, although "An in-progress job
  cannot have a result" (`arq/_queue.py:359`), and raises `JobResultUnavailable` for a job it
  does not know;
* `list_namespaced_custom_object` raises AttributeError if there is anything to list, and
  `create_namespaced_job` raises TypeError, with the job stored, if the template has no
  labels;
* an `error_callback` that raises for reads of a namespace hides it from `list_namespace`;
* a page may have a link to a page before it that is empty, if the rows that were there
  have been deleted;
* a session maker of an external engine stays in the dependency after `aclose`, and a
  connector whose close raises when an engine could not be made stays open
  (`_manager.py:130`);
* a `drop_database` that crashes between its transactions leaves a stamp that makes
  `is_database_current` true of a database without tables, and a configuration without heads
  is current when there is no stamp;
* the docstrings of `any_order` (`metrics/_testing.py:142-144`, 184-187) say the opposite of
  the code, and with `ANY` before a value the check in any order may raise
  `NotPublishedError` for events that were published;
* headings of Slack blocks are not truncated, against `slack/blockkit.py:54-55` and 87-88.

## Proofs

The proofs are about the specifications that TLC runs, for every value of the
constants that the named assumptions allow.

`AsyncMultiQueueProofs` proves the safety properties of the run `queue`, the type invariant
and two facts about ends for every number of readers, items and bounds, from
`EndAssumption` (the end marker is not an item) and `BoundAssumption` (the bounds are
natural numbers). The inductive invariant `IInv` adds to them:

* `NotFromTheFuture`: readers hold a list that exists, so that `clear` does not hand a
  reader a new one;
* `NothingYet`: a reader that was not called has received nothing;
* `SliceOK`: a reader suspended in `yield` stands inside its slice, and if its trigger is
  not set then the slice is all its list holds. This is what makes `NoLostWakeup`
  inductive: the trigger is cleared before the slice is taken, so an item that
  arrives later sets it.

`AppendKeeps` is what `put`, `close` and `clear` share, `ReaderStepKeeps` what the steps of a
reader share; there is one lemma per action, and `NextKeeps` puts them together.

`QueueIsALog` is the refinement without its liveness: every step of `AsyncMultiQueue` is one
that `BroadcastLog` allows, or hidden. It needs, besides `IInv`, that the items of a list come
before its end markers (`ItemsFirst`), so that `LogOf` means the same before and after a
step: `put` extends the log, `close` and `clear` seal it, and a reader that meets an
item in its list is where the log has that item (`LogAt`).

`PaginationProofs` proves the properties of `Pagination` and its type invariant for any set of
integer times, any number of rows and any limits; it assumes only `TimeAssumption`,
`BoundAssumption` and `CursorAssumption` (`None` is no cursor). The properties are not
inductive: that a walk is complete when its last page is reached says nothing of a walk
half done. The inductive invariant `IInv` adds to `TypeOK`

* `ToCome`: a row that was there all the time and has not been shown is selected by the
  cursor ahead;
* `Apart`: no row is selected by both cursors of a page, and what they select comes
  after and before the page's rows. Without it, turning round could lose a row: the page
  after keeps as its previous cursor the inverse of the one it was got with, and what
  was behind must lie on that side of it;
* `Directed`: next cursors go forward and previous ones back;
* `Staying`: there are finitely many rows, and those of a walk are still there. Without
  finiteness `LIMIT` need not leave a last row to make a cursor of.

The argument has four layers: the order of rows is strict and total, and a cursor selects
an end of it (`Strict` to `EntryFacts`); of a finite set of rows, `ORDER BY` and `LIMIT`
leave an initial part, and the row asked for beyond the limit comes right after it (`Foremost`
to `Cut`); hence a query goes on where its cursor was made, in either direction (`Forward`,
`Backward`, `ForwardSound`, `BackwardSound`: `Sound` says what every page returned
satisfies); hence each step keeps the invariant (`Shown` is what the three links share).
`Foremost` is proved from the well-foundedness of inclusion between finite sets, as
induction is out of the prover's reach.

`UWSJobsProofs` proves the type invariant and all safety properties of the run
`uws_safety` from `NoneAssumption` (`None` is no identifier) and `BoundAssumption`, without
`Timely`: no timing is assumed. Requests and messages carry identifiers they read before
an await, and what they know then must still hold after it. The invariant `UWSInv`
is therefore in terms of facts that last: the arq job is for this UWS job (`Known`), and
what arq has of a job only grows (`Grows`: a result once stored is kept, a status
does not go back). It has a conjunct for each kind of actor, with what it knows at each
`pc` (`JobInv`, `ArqInv`, `WorkerInv`, `TaskInv`, `RequestInv`), `Exclusive` (one worker
runs an arq job). A message that has read its record must write its results to one that
still has the identifier of an arq job or is gone (`Marked`), which no step undoes.

Its last section proves what can be proved of `FinishedJobsStayFinished`. The
hypothesis `Settled` is what the run `services_live` chooses: the timing `Timely`, no fault, and no
request to start a job a second time, which could give it two arq jobs. Then, for any
jobs, requests, workers and restarts, whatever is aborted, deleted or timed out, and in
whatever order messages about different runs come: once the message about the end of
the last run is dealt with the record has the outcome (`OutcomesStayRecorded`), and
a job whose run succeeded is completed, aborted or deleted for ever (`FinishedStay`).
What stays with TLC is that the message is dealt with in the end. The danger
is a message or a request that comes late and takes a finished job back to EXECUTING or
QUEUED, and `SettledInv` says why none does: one request creates, starts and
enqueues a job, so that a job has one arq job (`RequestsInv`); no message is
handled before that request has recorded it, and one about an end is done with only
when arq has the outcome or the job is deleted (`Handled`); and when the message about the
end of the last run is being handled, no message about a beginning is left, and none will
be sent (`LastRun`). Each conjunct needs what `UWSInv` says of the others. One clause was found
on the way: the message about an end may be dealt with before arq has the outcome only
if the job was deleted, because the database worker otherwise waits for the result.

`UWSApiProofs` proves `LimitsHold` and `UpdateKeepsOther` for any number of requests and any
limits, from `ConfigAssumption`, `InputAssumption` and `BoundAssumption`. The invariant
`LimitsInv` says that jobs are within the limits (`JobsInv`); that what a request
carries over an await to be written or handed to arq is too, because it was computed from
a job that was, and that it differs from what the request read in one value (`ReqsInv`);
that there is an identifier left for every request that is about to create a job (`RoomInv`),
which is why `Requests` must be finite; and that the workers' timeouts are (`SentInv`).
The type invariant (`ApiTypes`) rests on it: only because there is an identifier left is a new job
within `jobs`. What a `get` waits for is a phase of active jobs, which follows from what
it may ask for and from which requests wait (`Carried`).

`DatabaseEnginesProofs` proves `EnginesHeld`, `EnginesAsConfigured` and `SessionsAreCurrent` for any
engines, connectors and configurations (`EnginesAssumption`: `None` and the error are no
engines). `EnginesInv` adds to `EnginesHeld` that the dependency's session maker is of its
engine and that the two never own the same one (`DepInv`, `MgrInv`), what the step that the
lifespan waits for was begun with (`LifespanInv`), and what an engine was made with (`MadeInv`).

`EventManagerProofs` proves the safety properties of the event manager and its type
invariant for any tasks, event names and backoff interval. Its theorems assume
`OneAtATime`, that only publishes overlap (`MayOverlap \subseteq {"publish"}`): without it
`UnrecoverableIsFinal` is false, as `metrics_forgiven` shows. The invariant `ManagerInv` says
what a task may wait for (`CallInv`), that nothing but publishes is under way while the
application initializes, creates or closes (`Alone`), and what states the manager can be in
while an operation is under way (`StateInv`).

`KubernetesMockProofs` proves `StreamsTellAll` and `ClientsConverge` for any namespaces,
names, makers and clients and any number of objects. `KubernetesInv` says that a stream
tells the story of each of its objects (`StreamsInv`, `Tells`), that a version is the place
of an event in the stream (`VersionsInv`), and that a client which does not know what is
there has an event to come (`ClientsInv`, `Fresh`); `MakersInv`, which rests on none of
these, says what is left to tasks that create jobs and pods. Every
method writes through a few operators, so that the proof is about what those do (an object
changes together with an event at the end of its stream, or is dropped with its namespace)
and has a short lemma for each method. The type invariant (`KubernetesTypes`) needs that every
event is about an object which its stream is for (`SaidInv`), and that a job's pods are finite
in number, or the events of their deletion would not be a sequence.

In `LibraryProofs`, `MockArqQueue` has its type invariant and `CompleteHaveResults`, which are
inductive together. `AnswersTellCommits` and `CurrentMeansTables` of `DatabaseSchema` hold for any
number of processes, revisions and tries (`SchemaAssumption`). `SchemaInv` says what a call
is at each of its steps (`CallOK`), that of those which change tables or stamp there is
one, that what it is to stamp is there, and that a stamp under which no tables were changed is
that of the tables (`TablesInv`).

`LibraryProofs` also proves `StoragesArePrivate` and `DeleteAllDeletesAll` from
`RedisAssumption`. A name is put together in one way only (`UniqueNames`) and one that
starts with a prefix was put together with it (`OwnName`): this is where prefixes that do not
begin with each other are needed. The invariant says that what a scan must or may still return
starts with its prefix, and, for a deletion, that all it must still delete is ahead.

There too are `RollbackRefused` and `SerializedAsRegistered` from `KafkaAssumption`, with
an invariant that a call at its last request has seen the schema fit (`CallsInv`), and that what
is remembered for a subject is a version in the registry and the model's own schema (`IdsInv`).

Last, `AlertsFit` is proved for texts of any length with newlines and escapes
anywhere (`SlackAssumption`). Facts about positions come first: a finite set of
numbers has a least and a greatest (`Least`, `Greatest`, from the well-foundedness of inclusion),
and escaping moves positions apart. Then each truncation keeps its limit, then every
message is made of blocks with a short heading, and from these what is posted.

`AssertionsMean` is proved for payloads and lists of any length, from `MetricsAssumption` (a
pattern is a set of payloads, a maker a sequence of names). The check that
ignores the order takes for each pattern the first event that is left and matches, in a
recursive function over the patterns. That the function exists (`RemovalExists`), that what it
takes never comes back (`NothingComesBack`) and that no event is taken twice
(`TakenAreDifferent`) are shown by looking at a least exception, because induction is out of
the prover's reach; so there are as many different matching events as patterns. For the
converse, suppose that a matching exists and that narrow patterns come first, and look at the
first pattern for which nothing is left: every event that matches it was taken by an
earlier pattern, which is no wider, and so the patterns that need these events are
more than the events (`NarrowAreFound`).

The type invariants of Redis storages, the schema registry, calls on a database, engines and
metrics mocks follow from the invariants above, to which they added what a step that is cut
short leaves behind. `PartsRunAlone` takes a behaviour of `Library` apart: each part's
specification holds of it, and so does everything proved about the part. `LibraryTypes` follows.

Only model-checked: liveness (of the queue, the UWS and the event manager), and with it what
`BroadcastLog` says of fairness, which are out of the prover's reach.

## Plan

Done: all modules of the table above, their runs, and the proofs just named.

Left: a composition of `UWSApi` with `UWSJobs`, so that updates meet restarts; the state space
of both at once is beyond a run of some minutes.

## Not modelled

The last row of the inventory: code without state shared between operations, whose
behaviour is a function of its input. Of the partly modelled components, `components` in
`PROJECT.json` says what is left out: the XML and OpenAPI layouts of the UWS, the
dates that Wobbly records, that arq's client reads Redis several times for one answer,
scripts of offline migrations, and the payload models of metrics. Wire formats, logging, and the contents of
messages and results are left out everywhere. arq, Redis, Wobbly, Kafka, PostgreSQL and
the schema registry appear only as far as the code uses them.
