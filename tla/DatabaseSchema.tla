--------------------------- MODULE DatabaseSchema ---------------------------
(***************************************************************************)
(* Initialization, stamping, migration and use of one database by several  *)
(* processes (src/safir/database/_initialize.py, _alembic.py, _retry.py    *)
(* and create_async_session in _connection.py), which may be of different  *)
(* versions of the service and may crash.                                  *)
(*                                                                         *)
(* The database is external: a transaction commits, or fails and changes   *)
(* nothing, or commits and the client is told that it failed, because the  *)
(* connection went away with the answer.  Definitions of tables are inside *)
(* transactions, as they are in PostgreSQL.                                *)
(*                                                                         *)
(* Revisions of the schema are numbers.  A process has the tables of one   *)
(* in its metadata.  The Alembic configuration that a call is told to use  *)
(* has migrations up to that revision, or has none.                        *)
(***************************************************************************)
EXTENDS Naturals

CONSTANTS
    Procs,
    Rev,        \* revision of each process's metadata
    MaxTries    \* max_tries of its retry_async_transaction

ASSUME SchemaAssumption == Rev \in [Procs -> Nat \ {0}] /\ MaxTries \in Nat \ {0}

\* Heads of the migrations that the configuration points to.
HeadsOf(p) == {{}, {Rev[p]}}

VARIABLES
    db,         \* revision of the tables, and the one in alembic_version; 0: none
                \* (outdated: the tables were dropped or reset under that stamp)
    calls       \* the call that each process makes, or made last: its step,
                \* its attempt, how many commits it was told of, its answer

schema_vars == <<db, calls>>

\* Exceptions: OperationalError, which is a DBAPIError; ConnectionRefusedError
\* and other OSErrors of the driver; other DBAPIErrors; all the rest.
Errors == {"operational", "oserror", "dbapi", "other"}
NotReady == {"operational", "oserror"}
Retried == {"operational", "dbapi"}

Outcomes == [commits : {TRUE}, error : {"none"}]
                \union [commits : {FALSE}, error : Errors]
                \union [commits : {TRUE}, error : {"operational", "dbapi"}]

NewCall(op, step) ==
    [op |-> op, step |-> step, try |-> 1, reset |-> FALSE,
     told |-> 0, answer |-> "none"]

SchemaInit ==
    /\ db = [tables |-> 0, version |-> 0, outdated |-> FALSE]
    /\ calls = [p \in Procs |-> NewCall("none", "idle")]

Free(p) == calls[p].step = "idle"

Begin(p, call) == Free(p) /\ calls' = [calls EXCEPT ![p] = call]

\* Those who administer the database do so one at a time.
Alone(p) ==
    \A q \in Procs \ {p} : calls[q].step \in {"idle", "connecting", "retrying"}

\* The call c of p is over.
Ends(c, answer) == [c EXCEPT !.step = "idle", !.answer = answer]

\* A transaction that turns the database into new, and what its outcome makes
\* of the call.
Transact(p, t, new, call) ==
    /\ db' = IF t.commits THEN new ELSE db
    /\ calls' = [calls EXCEPT ![p] =
         [call EXCEPT !.told = IF t.error = "none" THEN @ + 1 ELSE @]]

\* Ends the call, or goes on to the next step of it.
EndsOrRaises(c, t) == Ends(c, IF t.error = "none" THEN "ok" ELSE t.error)
GoesOn(c, t, step) == IF t.error = "none" THEN [c EXCEPT !.step = step]
                      ELSE Ends(c, t.error)

-----------------------------------------------------------------------------
\* Initialization

\* A service initializes a database that is empty, or resets it.
initialize_database(p, reset) ==
    /\ reset \/ db.tables = 0
    /\ Alone(p)
    /\ Begin(p, [NewCall("initialize", "initializing") EXCEPT !.reset = reset])
    /\ UNCHANGED db

\* drop_all and create_all: tables that are there are not created.
Created(p) ==
    [db EXCEPT !.tables = IF calls[p].reset \/ @ = 0 THEN Rev[p] ELSE @,
               !.outdated = @ \/ calls[p].reset]

\* Mutant: the fifth attempt is not looked at.
InitializedAnyhow(p) ==
    /\ calls[p].step = "initializing"
    /\ \E t \in Outcomes :
         Transact(p, t, Created(p),
             IF t.error \in NotReady /\ calls[p].try < 5
               THEN [calls[p] EXCEPT !.try = @ + 1]
             ELSE Ends(calls[p], "ok"))

_initialize_with_engine(p) ==
    /\ calls[p].step = "initializing"
    /\ \E t \in Outcomes :
         Transact(p, t, Created(p),
             IF t.error \in NotReady /\ calls[p].try < 5
               THEN [calls[p] EXCEPT !.try = @ + 1]
             ELSE IF t.error \in NotReady
               THEN Ends(calls[p], "DatabaseInitializationError")
             ELSE EndsOrRaises(calls[p], t))

\* All tables go in one transaction and the stamp in another.
drop_database(p) ==
    /\ Alone(p)
    /\ Begin(p, NewCall("drop", "dropping"))
    /\ UNCHANGED db

drop_all(p) ==
    /\ calls[p].step = "dropping"
    /\ \E t \in Outcomes :
         Transact(p, t, [db EXCEPT !.tables = 0, !.outdated = TRUE],
                  GoesOn(calls[p], t, "unstamping"))

-----------------------------------------------------------------------------
\* Stamps and migrations

\* The table may not be there, which is as good.
unstamp_database(p) ==
    /\ Alone(p)
    /\ Begin(p, NewCall("unstamp", "unstamping"))
    /\ UNCHANGED db

DROP_TABLE(p) ==
    /\ calls[p].step = "unstamping"
    /\ \E t \in Outcomes :
         Transact(p, t, [db EXCEPT !.version = 0, !.outdated = FALSE],
             IF calls[p].op = "stamp" THEN GoesOn(calls[p], t, "stamping")
             ELSE EndsOrRaises(calls[p], t))

\* A database is stamped by those whose tables it has.
MayStamp(p) == db.tables = Rev[p]

\* Nothing is done without a head to stamp with.
stamp_database_async(p) ==
    /\ Alone(p) /\ MayStamp(p)
    /\ \E heads \in HeadsOf(p) :
         Begin(p, IF heads = {} THEN Ends(NewCall("stamp", "idle"), "AlembicConfigError")
                  ELSE NewCall("stamp", "unstamping"))
    /\ UNCHANGED db

\* alembic.command.stamp leaves the work to Alembic, in one transaction.
stamp_database(p) ==
    /\ Alone(p) /\ MayStamp(p)
    /\ Begin(p, NewCall("stamp", "stamping"))
    /\ UNCHANGED db

set_version(p) ==
    /\ calls[p].step = "stamping"
    /\ \E t \in Outcomes :
         Transact(p, t, [db EXCEPT !.version = Rev[p], !.outdated = FALSE],
                  EndsOrRaises(calls[p], t))

\* Alembic goes from the revision that is stamped to its head, and fails if it
\* does not know that revision or the tables are not as it says.
run_migrations_online(p) ==
    /\ Alone(p)
    /\ Begin(p, NewCall("migrate", "migrating"))
    /\ UNCHANGED db

do_migrations(p) ==
    /\ calls[p].step = "migrating"
    /\ \E t \in Outcomes :
         /\ t.commits => db.version = Rev[p] \/ (db.version < Rev[p] /\ db.tables = db.version)
         /\ Transact(p, t, IF db.version = Rev[p] THEN db
                           ELSE [tables |-> Rev[p], version |-> Rev[p], outdated |-> FALSE],
                     EndsOrRaises(calls[p], t))

Check(heads) == NewCall(IF heads = {} THEN "no_heads" ELSE "current", "idle")

\* Mutant: a database without a stamp is as good as one with the right one.
CurrentIfNotOld(p) ==
    /\ Free(p)
    /\ \E heads \in HeadsOf(p) :
         calls' = [calls EXCEPT ![p] = Ends(Check(heads),
           IF db.version \in heads \union {0} THEN "true" ELSE "false")]
    /\ UNCHANGED db

\* One transaction reads what the database is stamped with, to be compared with
\* the heads of the configuration.
is_database_current(p) ==
    LET current == IF db.version = 0 THEN {} ELSE {db.version}
    IN /\ Free(p)
       /\ \E heads \in HeadsOf(p) :
            \E answer \in {IF current = heads THEN "true" ELSE "false", "raised"} :
              calls' = [calls EXCEPT ![p] = Ends(Check(heads), answer)]
       /\ UNCHANGED db

-----------------------------------------------------------------------------
\* Use

\* Without a statement the database is not asked.
create_async_session(p) ==
    /\ \/ Begin(p, NewCall("session", "connecting"))
       \/ Begin(p, Ends(NewCall("session", "idle"), "unchecked"))
    /\ UNCHANGED db

\* Five attempts while the database is not ready, and one that may raise.
check_statement(p) ==
    /\ calls[p].step = "connecting"
    /\ \E t \in Outcomes :
         /\ t.commits => db.tables # 0
         /\ Transact(p, t, db,
                IF t.error \in NotReady /\ calls[p].try <= 5
                  THEN [calls[p] EXCEPT !.try = @ + 1]
                ELSE EndsOrRaises(calls[p], t))

retry_async_transaction(p) ==
    Begin(p, NewCall("retry", "retrying")) /\ UNCHANGED db

\* max_tries - 1 attempts whose DBAPIErrors are suppressed, and one that may
\* raise.
wrapper(p) ==
    /\ calls[p].step = "retrying"
    /\ \E t \in Outcomes :
         /\ t.commits => db.tables # 0
         /\ Transact(p, t, db,
                IF t.error \in Retried /\ calls[p].try < MaxTries
                  THEN [calls[p] EXCEPT !.try = @ + 1]
                ELSE EndsOrRaises(calls[p], t))

\* The process dies with its call, and another begins anew.
crash(p) ==
    /\ ~Free(p)
    /\ calls' = [calls EXCEPT ![p] = NewCall("none", "idle")]
    /\ UNCHANGED db

-----------------------------------------------------------------------------
SchemaNext ==
    \E p \in Procs :
        \/ \E reset \in BOOLEAN : initialize_database(p, reset)
        \/ _initialize_with_engine(p)
        \/ drop_database(p) \/ drop_all(p)
        \/ unstamp_database(p) \/ DROP_TABLE(p)
        \/ stamp_database_async(p) \/ stamp_database(p) \/ set_version(p)
        \/ run_migrations_online(p) \/ do_migrations(p)
        \/ is_database_current(p)
        \/ create_async_session(p) \/ check_statement(p)
        \/ retry_async_transaction(p) \/ wrapper(p)
        \/ crash(p)

SchemaSpec == SchemaInit /\ [][SchemaNext]_schema_vars

-----------------------------------------------------------------------------
\* Properties

SchemaTypeOK ==
    /\ db \in [tables : Nat, version : Nat, outdated : BOOLEAN]
    /\ \A p \in Procs :
         /\ calls[p].try \in 1..6 \union 1..MaxTries
         /\ calls[p].step \in {"idle", "initializing", "dropping", "unstamping",
              "stamping", "migrating", "connecting", "retrying"}

\* A process that is told that the database is current finds the tables of its
\* own revision there, whatever failed or crashed before, unless the tables were
\* changed under the stamp: drop_database drops them in one transaction and the
\* stamp in the next, and a reset leaves the stamp that it finds.  Until somebody
\* stamps or unstamps, which a crash at _initialize.py:44 may put off for good,
\* that stamp is taken for true.  With a configuration that has no migrations,
\* "current" says only that there is no stamp, whatever tables there are.
CurrentMeansTables ==
    [][\A p \in Procs :
         calls'[p] # calls[p] /\ calls'[p].answer = "true" =>
           /\ calls'[p].op = "current" => db.tables = Rev[p] \/ db.outdated
           /\ calls'[p].op # "current" =>
                calls'[p].op = "no_heads" /\ db.version = 0]_schema_vars

\* A call that answers well was told by the database that its work is committed,
\* once for each of its transactions; a call that raises was not, and it tried
\* as often as it could unless its exception was one not to try again after.
AnswersTellCommits ==
    \A p \in Procs :
        LET c == calls[p]
            all == IF c.op = "drop" THEN {2} ELSE IF c.op = "stamp" THEN {1, 2} ELSE {1}
        IN /\ c.answer = "ok" => c.told \in all
           /\ c.answer \in Errors \union {"DatabaseInitializationError"} =>
                c.told < 2 /\ (c.op \notin {"stamp", "drop"} => c.told = 0)
           /\ c.answer = "DatabaseInitializationError" => c.try = 5
           /\ c.answer \in NotReady => c.op # "initialize"
           /\ c.answer \in NotReady /\ c.op = "session" => c.try = 6
           /\ c.answer \in Retried /\ c.op = "retry" => c.try = MaxTries
=============================================================================
