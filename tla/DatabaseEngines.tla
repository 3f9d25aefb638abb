-------------------------- MODULE DatabaseEngines --------------------------
(***************************************************************************)
(* Who owns database engines: the configuration models and URLs            *)
(* (src/safir/database/_config.py, _connection.py), the engine managers    *)
(* (_manager.py) and DatabaseSessionDependency                             *)
(* (src/safir/dependencies/db_session.py).                                 *)
(*                                                                         *)
(* One task of the service, its lifespan, initializes and closes; requests *)
(* come at any time and may see it between two awaits.  An engine and a    *)
(* Cloud SQL connector are external: they are open until somebody disposes *)
(* of them, which may raise and then leaves them open.                     *)
(*                                                                         *)
(* A configuration is a function from the names of the settings that are   *)
(* written in it to their values.  "cloud" stands for the five settings    *)
(* that only Cloud SQL has, which are all required strings.                *)
(***************************************************************************)
EXTENDS Naturals

CONSTANTS
    Engines,        \* identities of engines; a bound on how many are created
    Connectors,     \* the same of Cloud SQL connectors
    Requests,
    Configs,        \* configurations that a service is given
    None

ASSUME EnginesAssumption ==
    None \notin Engines \union Connectors /\ "RuntimeError" \notin Engines

VARIABLES
    engines,     \* state of each engine and what it was made with
    connectors,  \* state of each; one that is "leaked" is open and nobody's
    dep,         \* DatabaseSessionDependency: _engine, _engine_created, and
                 \* the engine that _sessionmaker makes sessions for
    mgr,         \* EngineManager: its configuration, _engine and _connector
    task,        \* what the lifespan waits for
    sessions     \* what a request was last given: an engine, or an error

engines_vars == <<engines, connectors, dep, mgr, task, sessions>>

-----------------------------------------------------------------------------
\* Configuration

OptionNames == {"isolation_level", "max_overflow", "pool_pre_ping",
                "pool_recycle", "pool_size", "pool_timeout"}

\* Of a setting that is None nothing is known, as if it were not written.
_remove_none(data) == [f \in {g \in DOMAIN data : data[g] # None} |-> data[f]]

\* Both models forbid settings that they do not know.
CloudSqlConfig(data) ==
    /\ DOMAIN data \subseteq {"type", "cloud"} \union OptionNames
    /\ {"type", "cloud"} \subseteq DOMAIN data
    /\ data["type"] = "cloudsql"

PostgresSchemes == {"postgresql", "postgresql+asyncpg"}
MySQLSchemes == {"mysql", "mysql+aiomysql", "mysql+asyncmy", "mysql+cymysql",
    "mysql+mysqlconnector", "mysql+mysqldb", "mysql+pymysql", "mysql+pyodbc"}

_validate_url(url) == url.username

DatabaseConfig(data) ==
    /\ DOMAIN data \subseteq {"type", "url", "password"} \union OptionNames
    /\ {"url", "password"} \subseteq DOMAIN data
    /\ "type" \in DOMAIN data => data["type"] = "external"
    /\ data["url"].scheme \in PostgresSchemes \union MySQLSchemes
    /\ _validate_url(data["url"])

\* Mutant: 0 is as good as nothing.
KwargsThatAreTrue(data) ==
    {<<o, data[o]>> : o \in {p \in DOMAIN data \intersect OptionNames :
                               IF p = "isolation_level" THEN data[p] # "" ELSE data[p] # 0}}

\* isolation_level is passed on when it is not empty, the rest when not None:
\* 0 is a setting.
engine_kwargs(data) ==
    {<<o, data[o]>> : o \in {p \in DOMAIN data \intersect OptionNames :
                               p = "isolation_level" => data[p] # ""}}

AsyncDriver(scheme) ==
    CASE scheme = "postgresql" -> "postgresql+asyncpg"
      [] scheme = "mysql" -> "mysql+asyncmy"
      [] OTHER -> scheme

\* DatabaseConfig.build_url: the URL has a username and there is a password.
build_url(data) == [scheme |-> AsyncDriver(data["url"].scheme),
                    password |-> data["password"]]

\* The password is left out when there is none, or an empty one.
build_database_url(url, password) ==
    [scheme |-> AsyncDriver(url.scheme),
     password |-> IF password = None THEN "" ELSE password]

\* ... and there must be a username to go with it.
NoUsername(url, password) == password \notin {None, ""} /\ ~url.username

mock_url(data) == [scheme |-> IF "cloud" \in DOMAIN data THEN "postgresql+asyncpg"
                              ELSE data["url"].scheme, password |-> ""]

\* What SQLAlchemy's create_async_engine accepts.
IsAsync(scheme) ==
    scheme \in {"postgresql+asyncpg", "mysql+aiomysql", "mysql+asyncmy"}

-----------------------------------------------------------------------------
NoData == [f \in {} |-> None]
Unused == [state |-> "unused", url |-> None, kwargs |-> {},
           data |-> NoData, by |-> None]
Idle == [pc |-> "idle", data |-> NoData, connector |-> None]
NoDep == [engine |-> None, created |-> FALSE, maker |-> None]

EnginesInit ==
    /\ engines = [e \in Engines |-> Unused]
    /\ connectors = [c \in Connectors |-> "unused"]
    /\ dep = NoDep
    /\ mgr = [config |-> NoData, engine |-> None, connector |-> None]
    /\ task = Idle
    /\ sessions = [r \in Requests |-> None]

Made(url, data, by) == [state |-> "open", url |-> url, data |-> data, by |-> by,
                        kwargs |-> engine_kwargs(_remove_none(data))]

Disposed(e) == [engines EXCEPT ![e].state = "disposed"]

-----------------------------------------------------------------------------
\* DatabaseSessionDependency

OwnsEngine == dep.engine # None /\ dep.created

\* What initialize does once no engine of its own is left: a new engine, or an
\* exception that changes nothing more.  The states of the engines and of the
\* dependency are those after the disposal.
Initialize(from, closed, data) ==
    LET url == build_database_url(data["url"], data["password"])
    IN IF ~NoUsername(data["url"], data["password"]) /\ IsAsync(url.scheme)
         THEN \E e \in Engines :
                /\ from[e].state = "unused"
                /\ engines' = [from EXCEPT ![e] = Made(url, data, "dep")]
                /\ dep' = [engine |-> e, created |-> TRUE, maker |-> e]
         ELSE engines' = from /\ dep' = closed

WithEngine(closed) == dep' = [closed EXCEPT !.engine = mgr.engine, !.maker = mgr.engine]

\* All three methods begin with the disposal of the engine that the dependency
\* created; without one they run to their end.
AwaitDisposal(then, data) ==
    /\ task' = [Idle EXCEPT !.pc = then, !.data = data]
    /\ UNCHANGED <<engines, dep>>

\* Mutant: the engine that is there is replaced without a look.
ReplaceEngine ==
    /\ task.pc = "idle" /\ mgr.engine # None
    /\ WithEngine(dep)
    /\ UNCHANGED <<engines, connectors, mgr, task, sessions>>

initialize(data) ==
    /\ task.pc = "idle"
    /\ IF OwnsEngine THEN AwaitDisposal("initializing", data)
       ELSE Initialize(engines, dep, data) /\ UNCHANGED task
    /\ UNCHANGED <<connectors, mgr, sessions>>

initialize_with_engine ==
    /\ task.pc = "idle" /\ mgr.engine # None
    /\ IF OwnsEngine THEN AwaitDisposal("taking", NoData)
       ELSE WithEngine(dep) /\ UNCHANGED <<engines, task>>
    /\ UNCHANGED <<connectors, mgr, sessions>>

dep_aclose ==
    /\ task.pc = "idle" /\ OwnsEngine
    /\ AwaitDisposal("closing", NoData)
    /\ UNCHANGED <<connectors, mgr, sessions>>

\* Mutant: the factory of sessions stays.
ForgetEngineOnly ==
    /\ task.pc = "closing"
    /\ engines' = Disposed(dep.engine)
    /\ dep' = [dep EXCEPT !.engine = None, !.created = FALSE]
    /\ task' = Idle
    /\ UNCHANGED <<connectors, mgr, sessions>>

\* The engine is disposed of: the dependency forgets it, and the method that
\* waited goes on.
dep_disposed ==
    /\ \/ /\ task.pc = "initializing"
          /\ Initialize(Disposed(dep.engine), NoDep, task.data)
       \/ /\ task.pc = "taking"
          /\ engines' = Disposed(dep.engine) /\ WithEngine(NoDep)
       \/ /\ task.pc = "closing"
          /\ engines' = Disposed(dep.engine) /\ dep' = NoDep
    /\ task' = Idle
    /\ UNCHANGED <<connectors, mgr, sessions>>

\* Disposal raises: the dependency keeps the engine, as if it had not begun.
dep_dispose_fails ==
    /\ task.pc \in {"initializing", "taking", "closing"}
    /\ task' = Idle
    /\ UNCHANGED <<engines, connectors, dep, mgr, sessions>>

\* A request gets a session from whatever factory is there, also while the
\* lifespan waits, and gives it back.
__call__(r) ==
    /\ sessions[r] \in {None, "RuntimeError"}
    /\ sessions' = [sessions EXCEPT ![r] = IF dep.maker = None THEN "RuntimeError"
                                           ELSE dep.maker]
    /\ UNCHANGED <<engines, connectors, dep, mgr, task>>

session_ends(r) ==
    /\ sessions[r] \in Engines
    /\ sessions' = [sessions EXCEPT ![r] = None]
    /\ UNCHANGED <<engines, connectors, dep, mgr, task>>

-----------------------------------------------------------------------------
\* EngineManager

HasCloud == "cloud" \in DOMAIN mgr.config

\* The service reads its configuration, once, and makes a manager for it, or
\* refuses to start.
engine_manager(data) ==
    LET config == _remove_none(data)
    IN /\ task.pc = "idle" /\ mgr.config = NoData
       /\ CloudSqlConfig(config) \/ DatabaseConfig(config)
       /\ mgr' = [mgr EXCEPT !.config = config]
       /\ UNCHANGED <<engines, connectors, dep, task, sessions>>

\* DatabaseEngineManager.create_engine; it raises when there is an engine.
database_create_engine ==
    /\ task.pc = "idle" /\ mgr.config # NoData /\ ~HasCloud /\ mgr.engine = None
    /\ IsAsync(build_url(mgr.config).scheme)
    /\ \E e \in Engines :
         /\ engines[e].state = "unused"
         /\ engines' = [engines EXCEPT ![e] = Made(build_url(mgr.config), mgr.config, "mgr")]
         /\ mgr' = [mgr EXCEPT !.engine = e]
    /\ UNCHANGED <<connectors, dep, task, sessions>>

\* CloudSqlEngineManager.create_engine waits for the connector.
cloudsql_create_engine ==
    /\ task.pc = "idle" /\ HasCloud /\ mgr.engine = None
    /\ task' = [Idle EXCEPT !.pc = "connecting"]
    /\ UNCHANGED <<engines, connectors, dep, mgr, sessions>>

connector_fails ==
    /\ task.pc = "connecting"
    /\ task' = Idle
    /\ UNCHANGED <<engines, connectors, dep, mgr, sessions>>

\* With the connector there is an engine at once, or SQLAlchemy raises and the
\* connector is closed again.
connector_created ==
    /\ task.pc = "connecting"
    /\ \E c \in Connectors :
         /\ connectors[c] = "unused"
         /\ connectors' = [connectors EXCEPT ![c] = "open"]
         /\ \/ \E e \in Engines :
                 /\ engines[e].state = "unused"
                 /\ engines' =
                      [engines EXCEPT ![e] = Made(mock_url(mgr.config), mgr.config, "mgr")]
                 /\ mgr' = [mgr EXCEPT !.engine = e, !.connector = c]
                 /\ task' = Idle
            \/ /\ task' = [Idle EXCEPT !.pc = "unwinding", !.connector = c]
               /\ UNCHANGED <<engines, mgr>>
    /\ UNCHANGED <<dep, sessions>>

unwound ==
    /\ task.pc = "unwinding"
    /\ connectors' = [connectors EXCEPT ![task.connector] = "closed"]
    /\ task' = Idle
    /\ UNCHANGED <<engines, dep, mgr, sessions>>

\* The connector cannot be closed, or the task is cancelled: nobody has kept it.
unwinding_fails ==
    /\ task.pc = "unwinding"
    /\ connectors' = [connectors EXCEPT ![task.connector] = "leaked"]
    /\ task' = Idle
    /\ UNCHANGED <<engines, dep, mgr, sessions>>

\* Mutant: the engine is forgotten before it is disposed of.
ForgetBeforeDisposal ==
    /\ task.pc = "mgr_closing"
    /\ connectors' = [connectors EXCEPT ![mgr.connector] = "closed"]
    /\ mgr' = [mgr EXCEPT !.connector = None, !.engine = None]
    /\ task' = Idle
    /\ UNCHANGED <<engines, dep, sessions>>

\* aclose closes the connector, if there is one, and then the engine.
mgr_aclose ==
    /\ task.pc = "idle" /\ mgr.engine # None
    /\ task' = [Idle EXCEPT !.pc = IF mgr.connector # None THEN "mgr_closing"
                                   ELSE "mgr_disposing"]
    /\ UNCHANGED <<engines, connectors, dep, mgr, sessions>>

connector_closed ==
    /\ task.pc = "mgr_closing"
    /\ connectors' = [connectors EXCEPT ![mgr.connector] = "closed"]
    /\ mgr' = [mgr EXCEPT !.connector = None]
    /\ task' = [Idle EXCEPT !.pc = "mgr_disposing"]
    /\ UNCHANGED <<engines, dep, sessions>>

mgr_disposed ==
    /\ task.pc = "mgr_disposing"
    /\ engines' = Disposed(mgr.engine)
    /\ mgr' = [mgr EXCEPT !.engine = None]
    /\ task' = Idle
    /\ UNCHANGED <<connectors, dep, sessions>>

\* Either close raises: what is not closed stays with the manager.
mgr_aclose_fails ==
    /\ task.pc \in {"mgr_closing", "mgr_disposing"}
    /\ task' = Idle
    /\ UNCHANGED <<engines, connectors, dep, mgr, sessions>>

-----------------------------------------------------------------------------
EnginesNext ==
    \/ \E data \in Configs :
         \/ "url" \in DOMAIN data /\ data["url"] # None /\ initialize(data)
         \/ engine_manager(data)
    \/ initialize_with_engine \/ dep_aclose \/ dep_disposed \/ dep_dispose_fails
    \/ \E r \in Requests : __call__(r) \/ session_ends(r)
    \/ database_create_engine \/ cloudsql_create_engine
    \/ connector_fails \/ connector_created \/ unwound \/ unwinding_fails
    \/ mgr_aclose \/ connector_closed \/ mgr_disposed \/ mgr_aclose_fails

EnginesSpec == EnginesInit /\ [][EnginesNext]_engines_vars

-----------------------------------------------------------------------------
\* Properties

EnginesTypeOK ==
    /\ \A e \in Engines : engines[e].state \in {"unused", "open", "disposed"}
    /\ connectors \in [Connectors -> {"unused", "open", "closed", "leaked"}]
    /\ dep \in [engine : Engines \union {None}, created : BOOLEAN,
                maker : Engines \union {None}]
    /\ mgr.engine \in Engines \union {None}
    /\ mgr.connector \in Connectors \union {None}
    /\ task.pc \in {"idle", "initializing", "taking", "closing", "connecting",
                    "unwinding", "mgr_closing", "mgr_disposing"}
    /\ sessions \in [Requests -> Engines \union {None, "RuntimeError"}]

\* However the service initializes, takes over and closes, and whichever of
\* these steps raises: an engine or a connector that is open is held by the one
\* that will close it, and nobody else closes it.  One connector is excepted,
\* which does stay open for good: that of an engine which could not be made, if
\* closing it raises too or is cancelled (_manager.py:130, unwinding_fails).
EnginesHeld ==
    /\ \A e \in Engines : engines[e].state = "open" <=>
         (OwnsEngine /\ e = dep.engine) \/ e = mgr.engine
    /\ \A c \in Connectors : connectors[c] = "open" <=>
         c = mgr.connector \/ (task.pc = "unwinding" /\ c = task.connector)

\* A request gets sessions of the engine that the dependency has, never of one
\* that it gave up or replaced, whoever made that.  And that engine is open, with
\* one exception: if it was passed to the dependency, its manager may dispose of it
\* without a word, and sessions of it are given all the same.  (While it is being
\* disposed of it counts as open: the code gives sessions of it then.)
SessionsAreCurrent ==
    [][\A r \in Requests :
         sessions'[r] # sessions[r] /\ sessions'[r] \in Engines =>
           /\ sessions'[r] = dep.engine
           /\ \/ engines[sessions'[r]].state = "open"
              \/ engines[sessions'[r]].by = "mgr"]_engines_vars

\* An engine was made with an async driver and with all the settings that the
\* configuration has a value for, zero included, and no others.
EnginesAsConfigured ==
    \A e \in Engines : engines[e].state = "open" =>
        /\ IsAsync(engines[e].url.scheme)
        /\ \A o \in OptionNames :
             LET data == engines[e].data
                 set == /\ o \in DOMAIN data /\ data[o] # None
                        /\ o = "isolation_level" => data[o] # ""
             IN {pair \in engines[e].kwargs : pair[1] = o} =
                  IF set THEN {<<o, data[o]>>} ELSE {}
=============================================================================
