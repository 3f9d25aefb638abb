---------------------------- MODULE EventManager ----------------------------
(***************************************************************************)
(* safir.metrics.KafkaEventManager (src/safir/metrics/_event_manager.py).  *)
(*                                                                         *)
(* The application initializes the manager, creates a publisher for every  *)
(* event name, publishes, and closes the manager.  initialize, the building*)
(* of a publisher and publish are "abandonable": a failure of Kafka or of  *)
(* the schema registry puts the manager in an error state instead of being *)
(* raised, and calls made in an error state return None at once.  A call   *)
(* is a task: it suspends at every request to the infrastructure, and      *)
(* other calls run meanwhile.                                              *)
(*                                                                         *)
(* Times are kept as ages, of which only whether they exceed the backoff   *)
(* interval matters, so they stop growing at Backoff + 1.                  *)
(***************************************************************************)
EXTENDS Naturals

CONSTANTS
    Calls,          \* tasks that call the manager
    Names,          \* event names
    Backoff,        \* backoff_interval
    MayOverlap      \* the operations calls of which may be under way together

ASSUME BackoffAssumption == Backoff \in Nat \ {0}

VARIABLES
    config,     \* raise_on_error and manage_kafka_broker, set once
    state,      \* _state
    since,      \* age of _failed_at
    publishers, \* names in _publishers
    given,      \* the publisher the application was given for a name
    call,       \* what every task is doing
    broker,     \* whether the Kafka broker connection is started
    admin,      \* whether the admin client is started
    up,         \* whether Kafka and the schema registry work
    topic       \* whether the topic exists

vars == <<config, state, since, publishers, given, call, broker, admin, up, topic>>
infra == <<config, up, topic>>
clients == <<broker, admin>>

Ops == {"initialize", "create", "publish", "close"}
States == {"uninitialized", "ready_to_publish", "error_recoverable",
           "error_unrecoverable"}
ERROR_STATES == {"error_recoverable", "error_unrecoverable"}
Ages == 0..(Backoff + 1)
Idle == [op |-> "none", name |-> "none", pc |-> "idle", age |-> 0]

Init ==
    /\ config \in [raise_on_error : BOOLEAN, manage_kafka_broker : BOOLEAN]
    /\ state = "uninitialized"
    /\ since = Backoff + 1
    /\ publishers = {}
    /\ given = [n \in Names |-> "none"]
    /\ call = [c \in Calls |-> Idle]
    /\ broker = ~config.manage_kafka_broker
    /\ admin = FALSE
    /\ up \in BOOLEAN
    /\ topic \in BOOLEAN

-----------------------------------------------------------------------------
\* The wrapper that abandonable puts around an operation.

Busy(c) == call[c].pc # "idle"

\* The application's calls of this operation may be under way along with what
\* already is.
MayBegin(c, op) ==
    /\ ~Busy(c)
    /\ \A d \in Calls : Busy(d) => {op, call[d].op} \subseteq MayOverlap

Suspended == state \in ERROR_STATES /\ since <= Backoff

\* Calls return None at once inside the backoff interval, and also after it if
\* there is no way back.
TurnedAway == Suspended \/ state = "error_unrecoverable"

\* Mutant: a call that is turned away begins the backoff interval anew.
EnterExtending(c, op, name, first) ==
    \/ /\ Suspended
       /\ since' = 0
       /\ UNCHANGED <<state, call>>
    \/ /\ ~TurnedAway
       /\ state' = IF state = "error_recoverable" THEN "ready_to_publish"
                                                  ELSE state
       /\ call' = [call EXCEPT ![c] = [op |-> op, name |-> name,
                                       pc |-> first, age |-> 0]]
       /\ UNCHANGED since

\* Mutant: after the backoff interval any error is forgiven.
EnterForgiving(c, op, name, first) ==
    /\ ~Suspended
    /\ state' = IF state \in ERROR_STATES THEN "ready_to_publish" ELSE state
    /\ call' = [call EXCEPT ![c] = [op |-> op, name |-> name,
                                    pc |-> first, age |-> 0]]
    /\ UNCHANGED since

\* The operation goes ahead, and is taken to work again until it fails.
Enter(c, op, name, first) ==
    /\ ~TurnedAway
    /\ state' = IF state = "error_recoverable" THEN "ready_to_publish" ELSE state
    /\ call' = [call EXCEPT ![c] = [op |-> op, name |-> name,
                                    pc |-> first, age |-> 0]]
    /\ UNCHANGED since

Goto(c, pc) == call' = [call EXCEPT ![c].pc = pc]
Return(c) == call' = [call EXCEPT ![c] = Idle]

\* create_publisher stores whichever publisher it got.
Provide(name, kind) ==
    /\ publishers' = publishers \union {name}
    /\ given' = [given EXCEPT ![name] = kind]

\* A request to the infrastructure fails.  The failure is dated to the time
\* the operation began.  A publisher that could not be built is replaced by a
\* FailedEventPublisher.
fail(c) ==
    /\ call[c].pc \in {"broker", "admin", "topic", "register", "serialize", "send"}
    /\ ~up \/ (call[c].pc = "send" /\ ~broker)
    /\ Return(c)
    /\ \/ /\ config.raise_on_error
          /\ UNCHANGED <<state, since, publishers, given>>
       \/ /\ ~config.raise_on_error
          /\ state' = IF call[c].op = "publish" THEN "error_recoverable"
                                                ELSE "error_unrecoverable"
          /\ since' = call[c].age
          /\ IF call[c].op = "create" THEN Provide(call[c].name, "failed")
             ELSE UNCHANGED <<publishers, given>>
    /\ UNCHANGED <<clients, infra>>

-----------------------------------------------------------------------------
\* The operations.

\* An application initializes a new manager, or one that it has closed.
initialize(c) ==
    /\ MayBegin(c, "initialize")
    /\ state = "uninitialized"
    /\ Enter(c, "initialize", "none",
             IF config.manage_kafka_broker THEN "broker" ELSE "admin")
    /\ UNCHANGED <<publishers, given, clients, infra>>

broker_start(c) ==
    /\ call[c].pc = "broker"
    /\ up
    /\ broker' = TRUE
    /\ Goto(c, "admin")
    /\ UNCHANGED <<state, since, publishers, given, admin, infra>>

admin_start(c) ==
    /\ call[c].pc = "admin"
    /\ up
    /\ admin' = TRUE
    /\ state' = "ready_to_publish"
    /\ Return(c)
    /\ UNCHANGED <<since, publishers, given, broker, infra>>

\* create_publisher raises, and changes nothing, on an uninitialized manager
\* and for a name that is taken.
create_publisher(c, name) ==
    /\ MayBegin(c, "create")
    /\ state # "uninitialized"
    /\ name \notin publishers
    /\ \/ /\ Enter(c, "create", name, "topic")
          /\ UNCHANGED <<publishers, given>>
       \/ /\ TurnedAway
          /\ Provide(name, "failed")
          /\ UNCHANGED <<state, since, call>>
    /\ UNCHANGED <<clients, infra>>

\* A topic that is not there is the application's error, which is raised.
check_topic(c) ==
    /\ call[c].pc = "topic"
    /\ up
    /\ IF topic THEN Goto(c, "register") ELSE Return(c)
    /\ UNCHANGED <<state, since, publishers, given, clients, infra>>

register_model(c) ==
    /\ call[c].pc = "register"
    /\ up
    /\ Provide(call[c].name, "kafka")
    /\ Return(c)
    /\ UNCHANGED <<state, since, clients, infra>>

\* KafkaEventPublisher.publish.  On an uninitialized manager it raises.  (A
\* publish that is turned away, and any publish of a FailedEventPublisher, does
\* nothing but log.)
publish(c, name) ==
    /\ MayBegin(c, "publish")
    /\ given[name] = "kafka"
    /\ state # "uninitialized"
    /\ Enter(c, "publish", name, "serialize")
    /\ UNCHANGED <<publishers, given, clients, infra>>

serialize(c) ==
    /\ call[c].pc = "serialize"
    /\ up
    /\ Goto(c, "send")
    /\ UNCHANGED <<state, since, publishers, given, clients, infra>>

send(c) ==
    /\ call[c].pc = "send"
    /\ up
    /\ broker
    /\ Return(c)
    /\ UNCHANGED <<state, since, publishers, given, clients, infra>>

aclose(c) ==
    /\ MayBegin(c, "close")
    /\ state # "uninitialized"
    /\ call' = [call EXCEPT ![c] = [op |-> "close", name |-> "none", age |-> 0,
                      pc |-> IF config.manage_kafka_broker THEN "stop" ELSE "close"]]
    /\ UNCHANGED <<state, since, publishers, given, clients, infra>>

broker_stop(c) ==
    /\ call[c].pc = "stop"
    /\ up
    /\ broker' = FALSE
    /\ Goto(c, "close")
    /\ UNCHANGED <<state, since, publishers, given, admin, infra>>

\* Mutant: the clients are closed and the manager left as it is.
AdminCloseOnly(c) ==
    /\ call[c].pc = "close"
    /\ up
    /\ admin' = FALSE
    /\ Return(c)
    /\ UNCHANGED <<state, since, publishers, given, broker, infra>>

\* The admin client is closed; EventManager.aclose resets the manager.
admin_close(c) ==
    /\ call[c].pc = "close"
    /\ up
    /\ admin' = FALSE
    /\ publishers' = {}
    /\ state' = "uninitialized"
    /\ Return(c)
    /\ UNCHANGED <<since, given, broker, infra>>

\* Any failure is logged, and what is left to do is not done.
close_fails(c) ==
    /\ call[c].pc \in {"stop", "close"}
    /\ ~up
    /\ Return(c)
    /\ UNCHANGED <<state, since, publishers, given, clients, infra>>

-----------------------------------------------------------------------------
\* The rest of the world.

flip ==
    /\ up' = ~up
    /\ UNCHANGED <<config, state, since, publishers, given, call, clients, topic>>

Older(age) == IF age <= Backoff THEN age + 1 ELSE age

\* Time passes.
tick ==
    /\ since' = Older(since)
    /\ call' = [c \in Calls |->
                  IF Busy(c) THEN [call[c] EXCEPT !.age = Older(@)] ELSE call[c]]
    /\ UNCHANGED <<state, publishers, given, clients, infra>>

Step(c) ==
    \/ broker_start(c) \/ admin_start(c) \/ check_topic(c) \/ register_model(c)
    \/ serialize(c) \/ send(c) \/ broker_stop(c) \/ admin_close(c)
    \/ close_fails(c) \/ fail(c)

Next ==
    \/ flip
    \/ tick
    \/ \E c \in Calls :
         \/ Step(c) \/ initialize(c) \/ aclose(c)
         \/ \E name \in Names :
              create_publisher(c, name) \/ publish(c, name)

Spec == Init /\ [][Next]_vars

\* Time passes, calls go on when the infrastructure answers or fails, and the
\* application keeps publishing through every publisher it was given.
FairSpec ==
    /\ Spec
    /\ WF_vars(tick)
    /\ \A c \in Calls : WF_vars(Step(c))
    /\ \A name \in Names : WF_vars(\E c \in Calls : publish(c, name))

-----------------------------------------------------------------------------
\* Properties

TypeOK ==
    /\ state \in States
    /\ since \in Ages
    /\ publishers \in SUBSET Names
    /\ given \in [Names -> {"none", "kafka", "failed"}]
    /\ call \in [Calls ->
                   [op : Ops \union {"none"}, name : Names \union {"none"},
                    pc : {"idle", "broker", "admin", "topic", "register",
                          "serialize", "send", "stop", "close"},
                    age : Ages]]
    /\ config \in [raise_on_error : BOOLEAN, manage_kafka_broker : BOOLEAN]
    /\ broker \in BOOLEAN /\ admin \in BOOLEAN /\ up \in BOOLEAN /\ topic \in BOOLEAN

\* "No attempt to recover will be made.  Apps will have to restart to publish
\* further metrics": only closing the manager gets it out of the state
\* error_unrecoverable.  (This holds when only publishes overlap; with a publisher
\* being built meanwhile it does not.)
UnrecoverableIsFinal ==
    [][state = "error_unrecoverable" =>
         state' \in {"error_unrecoverable", "uninitialized"}]_vars

\* A manager that publishes, or will again after the backoff interval, holds a
\* started admin client, whatever failed on the way and however often it was
\* initialized and closed.
ReadyMeansStarted == state \in {"ready_to_publish", "error_recoverable"} => admin

\* Metrics come back: when the infrastructure and the connection to it work for
\* good and the application has a publisher to use, the manager does not stay in,
\* or keep returning to, error_recoverable.
Recovers ==
    <>[](up /\ broker /\ \E name \in Names : given[name] = "kafka")
      => <>[](state # "error_recoverable")
=============================================================================
