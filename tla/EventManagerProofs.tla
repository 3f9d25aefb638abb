------------------------- MODULE EventManagerProofs -------------------------
(***************************************************************************)
(* The error states of the event manager, for any number of calls and      *)
(* event names and any backoff interval, when the application makes        *)
(* initialize, create_publisher and aclose one at a time (OneAtATime).     *)
(* Publishes overlap as they like.                                         *)
(*                                                                         *)
(* A call that was let in is under way while the state changes.  What it   *)
(* may still do to the state when it fails depends on what can have        *)
(* happened to the manager since, which the invariant says.                *)
(***************************************************************************)
EXTENDS EventManager, TLAPS

OneAtATime == MayOverlap \subseteq {"publish"}

\* What a call of each operation may wait for.
Pcs(op) ==
    CASE op = "initialize" -> {"broker", "admin"}
      [] op = "create" -> {"topic", "register"}
      [] op = "publish" -> {"serialize", "send"}
      [] op = "close" -> {"stop", "close"}
      [] OTHER -> {"idle"}

CallInv(c) ==
    /\ call[c].pc \in Pcs(call[c].op)
    /\ call[c].op = "create" => call[c].name \in Names

\* Only publishes are under way along with others.
Alone ==
    \A c, d \in Calls : Busy(c) /\ Busy(d) /\ c # d => call[c].op = "publish"

\* What was let in, was by a started manager, which it still is; a manager with
\* no way back has nothing under way but its closing.
StateInv ==
    \A c \in Calls :
        /\ call[c].op \in {"create", "publish"} =>
             state \in {"ready_to_publish", "error_recoverable"}
        /\ call[c].op = "initialize" => state = "uninitialized"
        /\ call[c].op = "close" => state # "uninitialized"

ManagerInv ==
    /\ TypeOK
    /\ \A c \in Calls : CallInv(c)
    /\ Alone
    /\ StateInv
    /\ ReadyMeansStarted

LEMMA InitInv == Init => ManagerInv
<1> SUFFICES ASSUME Init
             PROVE  ManagerInv
  OBVIOUS
<1>1. \A c \in Calls : call[c] = Idle
  BY DEF Init
<1>2. /\ config.manage_kafka_broker \in BOOLEAN
      /\ broker \in BOOLEAN /\ admin \in BOOLEAN
  BY Zenon DEF Init
<1>3. TypeOK
  BY <1>2, BackoffAssumption DEF Init, TypeOK, Idle, States, Ages, Ops
<1> QED
  BY <1>1, <1>3 DEF Init, ManagerInv, CallInv, Alone, StateInv,
     ReadyMeansStarted, Idle, Pcs, Busy

-----------------------------------------------------------------------------
\* A call that is let in.

\* With only publishes overlapping, nothing else is under way when a call begins
\* that is not a publish, and only publishes when one is.
LEMMA NothingElse ==
    ASSUME ManagerInv, OneAtATime, NEW c \in Calls, NEW op \in Ops, MayBegin(c, op)
    PROVE  /\ ~Busy(c)
           /\ \A d \in Calls : Busy(d) => op = "publish" /\ call[d].op = "publish"
BY DEF ManagerInv, OneAtATime, MayBegin, Ops

\* The calls after one begins.
LEMMA BeginKeeps ==
    ASSUME ManagerInv, OneAtATime, NEW c \in Calls, NEW op \in Ops, MayBegin(c, op),
           NEW name \in Names \union {"none"}, NEW pc \in Pcs(op),
           op = "create" => name \in Names,
           call' = [call EXCEPT ![c] = [op |-> op, name |-> name, pc |-> pc, age |-> 0]]
    PROVE  /\ call' \in [Calls -> [op : Ops \union {"none"}, name : Names \union {"none"},
                    pc : {"idle", "broker", "admin", "topic", "register",
                          "serialize", "send", "stop", "close"}, age : Ages]]
           /\ \A d \in Calls : CallInv(d)'
           /\ Alone'
<1>1. \A d \in Calls : d # c => call'[d] = call[d]
  BY DEF ManagerInv, TypeOK
<1>2. call'[c] = [op |-> op, name |-> name, pc |-> pc, age |-> 0]
  BY DEF ManagerInv, TypeOK
<1>3. 0 \in Ages
  BY BackoffAssumption DEF Ages
<1>4. pc \in {"broker", "admin", "topic", "register", "serialize", "send", "stop", "close"}
  BY DEF Pcs, Ops
<1>5. \A d \in Calls : CallInv(d)'
  BY <1>1, <1>2 DEF ManagerInv, CallInv
<1>6. Alone'
  BY <1>1, <1>2, NothingElse DEF ManagerInv, Alone, Busy
<1>7. call' \in [Calls -> [op : Ops \union {"none"}, name : Names \union {"none"},
                    pc : {"idle", "broker", "admin", "topic", "register",
                          "serialize", "send", "stop", "close"}, age : Ages]]
  BY <1>3, <1>4 DEF ManagerInv, TypeOK
<1> QED
  BY <1>5, <1>6, <1>7

\* A call that was let in finds a started manager, or is to start it.
LEMMA EnterKeeps ==
    ASSUME ManagerInv, OneAtATime, NEW c \in Calls, NEW op \in {"initialize", "create", "publish"},
           NEW name \in Names \union {"none"}, NEW pc \in Pcs(op),
           op = "create" => name \in Names,
           MayBegin(c, op), Enter(c, op, name, pc),
           op = "initialize" <=> state = "uninitialized",
           UNCHANGED <<publishers, given, clients, infra>>
    PROVE  ManagerInv'
<1>1. op \in Ops
  BY DEF Ops
<1>2. /\ call' = [call EXCEPT ![c] = [op |-> op, name |-> name, pc |-> pc, age |-> 0]]
      /\ state' = IF state = "error_recoverable" THEN "ready_to_publish" ELSE state
      /\ state # "error_unrecoverable"
      /\ since' = since
  BY DEF Enter, TurnedAway
<1>3. /\ \A d \in Calls : d # c => call'[d] = call[d]
      /\ call'[c] = [op |-> op, name |-> name, pc |-> pc, age |-> 0]
  BY <1>2 DEF ManagerInv, TypeOK
<1>4. /\ \A d \in Calls : CallInv(d)'
      /\ Alone'
  BY <1>1, <1>2, BeginKeeps
<1>5. TypeOK'
  BY <1>1, <1>2, BeginKeeps DEF ManagerInv, TypeOK, States, clients, infra
<1>6. StateInv'
  BY <1>2, <1>3 DEF ManagerInv, StateInv, TypeOK, States
<1>7. ReadyMeansStarted'
  BY <1>2 DEF ManagerInv, ReadyMeansStarted, clients
<1> QED
  BY <1>4, <1>5, <1>6, <1>7 DEF ManagerInv

LEMMA initializeInv ==
    ASSUME ManagerInv, OneAtATime, NEW c \in Calls, initialize(c)
    PROVE  ManagerInv'
BY EnterKeeps DEF initialize, Pcs

LEMMA publishInv ==
    ASSUME ManagerInv, OneAtATime, NEW c \in Calls, NEW name \in Names, publish(c, name)
    PROVE  ManagerInv'
BY EnterKeeps DEF publish, Pcs

\* A publisher that is not built, as the manager is in an error state.
LEMMA create_publisherInv ==
    ASSUME ManagerInv, OneAtATime, NEW c \in Calls, NEW name \in Names,
           create_publisher(c, name)
    PROVE  ManagerInv'
<1>1. CASE Enter(c, "create", name, "topic") /\ UNCHANGED <<publishers, given>>
  BY <1>1, EnterKeeps DEF create_publisher, Pcs
<1>2. CASE Provide(name, "failed") /\ UNCHANGED <<state, since, call>>
  <2>1. TypeOK'
    BY <1>2 DEF create_publisher, Provide, ManagerInv, TypeOK, clients, infra
  <2> QED
    BY <1>2, <2>1 DEF create_publisher, ManagerInv, CallInv, Alone, StateInv,
       ReadyMeansStarted, Busy, clients
<1> QED
  BY <1>1, <1>2 DEF create_publisher

LEMMA acloseInv ==
    ASSUME ManagerInv, OneAtATime, NEW c \in Calls, aclose(c)
    PROVE  ManagerInv'
<1> DEFINE pc == IF config.manage_kafka_broker THEN "stop" ELSE "close"
<1>1. pc \in Pcs("close") /\ "close" \in Ops
  BY DEF Pcs, Ops
<1>2. call' = [call EXCEPT ![c] = [op |-> "close", name |-> "none", pc |-> pc, age |-> 0]]
  BY DEF aclose
<1> HIDE DEF pc
<1>3. /\ \A d \in Calls : d # c => call'[d] = call[d]
      /\ call'[c] = [op |-> "close", name |-> "none", pc |-> pc, age |-> 0]
  BY <1>2 DEF ManagerInv, TypeOK
<1>4. /\ \A d \in Calls : CallInv(d)'
      /\ Alone'
  BY <1>1, <1>2, BeginKeeps DEF aclose
<1>5. TypeOK'
  BY <1>1, <1>2, BeginKeeps DEF aclose, ManagerInv, TypeOK, clients, infra
<1>6. StateInv'
  BY <1>3 DEF aclose, ManagerInv, StateInv
<1> QED
  BY <1>4, <1>5, <1>6 DEF aclose, ManagerInv, ReadyMeansStarted, clients

-----------------------------------------------------------------------------
\* A call that goes on, or returns.

CallType == [op : Ops \union {"none"}, name : Names \union {"none"},
             pc : {"idle", "broker", "admin", "topic", "register",
                   "serialize", "send", "stop", "close"},
             age : Ages]

LEMMA GotoKeeps ==
    ASSUME ManagerInv, NEW c \in Calls, Busy(c), NEW pc \in Pcs(call[c].op), Goto(c, pc)
    PROVE  /\ call' \in [Calls -> CallType]
           /\ \A d \in Calls : CallInv(d)'
           /\ Alone'
           /\ \A d \in Calls : call'[d].op = call[d].op /\ call'[d].name = call[d].name
<1>1. /\ \A d \in Calls : d # c => call'[d] = call[d]
      /\ call'[c] = [call[c] EXCEPT !.pc = pc]
      /\ call[c] \in CallType
  BY DEF ManagerInv, TypeOK, Goto, CallType
<1>2. pc \in {"idle", "broker", "admin", "topic", "register",
                   "serialize", "send", "stop", "close"}
  BY <1>1 DEF Pcs, CallType, Ops
<1>3. call' \in [Calls -> CallType]
  BY <1>2 DEF ManagerInv, TypeOK, Goto, CallType
<1>4. /\ \A d \in Calls : call'[d].op = call[d].op /\ call'[d].name = call[d].name
      /\ call'[c].pc = pc
  BY <1>1 DEF CallType
<1>5. \A d \in Calls : CallInv(d)'
  BY <1>1, <1>4 DEF ManagerInv, CallInv
<1>6. Alone'
  BY <1>1, <1>4 DEF ManagerInv, Alone, Busy
<1> QED
  BY <1>3, <1>4, <1>5, <1>6

LEMMA ReturnKeeps ==
    ASSUME ManagerInv, NEW c \in Calls, Return(c)
    PROVE  /\ call' \in [Calls -> CallType]
           /\ \A d \in Calls : CallInv(d)'
           /\ Alone'
           /\ \A d \in Calls : d # c => call'[d] = call[d]
           /\ call'[c].op = "none"
<1>1. /\ \A d \in Calls : d # c => call'[d] = call[d]
      /\ call'[c] = Idle
  BY DEF ManagerInv, TypeOK, Return
<1>2. Idle \in CallType
  BY BackoffAssumption DEF Idle, CallType, Ages
<1>3. call' \in [Calls -> CallType]
  BY <1>2 DEF ManagerInv, TypeOK, Return, CallType
<1>4. \A d \in Calls : CallInv(d)'
  BY <1>1 DEF ManagerInv, CallInv, Idle, Pcs
<1>5. Alone'
  BY <1>1 DEF ManagerInv, Alone, Busy, Idle
<1> QED
  BY <1>1, <1>3, <1>4, <1>5 DEF Idle

\* Which operation waits for what.
LEMMA OpOf ==
    ASSUME ManagerInv, NEW c \in Calls
    PROVE  /\ call[c].pc \in {"broker", "admin"} => call[c].op = "initialize"
           /\ call[c].pc \in {"topic", "register"} => call[c].op = "create"
           /\ call[c].pc \in {"serialize", "send"} => call[c].op = "publish"
           /\ call[c].pc \in {"stop", "close"} => call[c].op = "close"
           /\ Busy(c) <=> call[c].op # "none"
BY DEF ManagerInv, TypeOK, CallInv, Pcs, Busy, Ops

\* While one that is not a publish is under way, no other call is.
LEMMA NoOther ==
    ASSUME ManagerInv, NEW c \in Calls, Busy(c), call[c].op # "publish",
           NEW d \in Calls, d # c
    PROVE  call[d].op = "none"
<1>1. CASE Busy(d)
  BY <1>1 DEF ManagerInv, Alone
<1>2. CASE ~Busy(d)
  BY <1>2, OpOf
<1> QED
  BY <1>1, <1>2

-----------------------------------------------------------------------------
\* The steps of calls.

LEMMA broker_startInv ==
    ASSUME ManagerInv, NEW c \in Calls, broker_start(c)
    PROVE  ManagerInv'
<1>1. call[c].op = "initialize" /\ Busy(c)
  BY OpOf DEF broker_start
<1>2. "admin" \in Pcs(call[c].op)
  BY <1>1 DEF Pcs
<1>3. /\ call' \in [Calls -> CallType]
      /\ \A d \in Calls : CallInv(d)'
      /\ Alone'
      /\ \A d \in Calls : call'[d].op = call[d].op /\ call'[d].name = call[d].name
  BY <1>1, <1>2, GotoKeeps DEF broker_start
<1> QED
  BY <1>3 DEF broker_start, ManagerInv, TypeOK, CallType, StateInv,
     ReadyMeansStarted, infra

LEMMA broker_stopInv ==
    ASSUME ManagerInv, NEW c \in Calls, broker_stop(c)
    PROVE  ManagerInv'
<1>1. call[c].op = "close" /\ Busy(c)
  BY OpOf DEF broker_stop
<1>2. "close" \in Pcs(call[c].op)
  BY <1>1 DEF Pcs
<1>3. /\ call' \in [Calls -> CallType]
      /\ \A d \in Calls : CallInv(d)'
      /\ Alone'
      /\ \A d \in Calls : call'[d].op = call[d].op /\ call'[d].name = call[d].name
  BY <1>1, <1>2, GotoKeeps DEF broker_stop
<1> QED
  BY ZenonT(40), <1>3 DEF broker_stop, ManagerInv, TypeOK, CallType, StateInv,
     ReadyMeansStarted, infra

LEMMA admin_startInv ==
    ASSUME ManagerInv, NEW c \in Calls, admin_start(c)
    PROVE  ManagerInv'
<1>1. call[c].op = "initialize" /\ Busy(c)
  BY OpOf DEF admin_start
<1>2. /\ call' \in [Calls -> CallType]
      /\ \A d \in Calls : CallInv(d)'
      /\ Alone'
      /\ \A d \in Calls : d # c => call'[d] = call[d]
      /\ call'[c].op = "none"
  BY ReturnKeeps DEF admin_start
<1>3. \A d \in Calls : call'[d].op = "none"
  BY <1>1, <1>2, NoOther
<1>4. TypeOK'
  BY <1>2 DEF admin_start, ManagerInv, TypeOK, CallType, States, infra
<1> QED
  BY <1>2, <1>3, <1>4 DEF admin_start, ManagerInv, StateInv, ReadyMeansStarted

\* The manager's state stays, and so does what it has.
LEMMA OnlyCallInv ==
    ASSUME ManagerInv, NEW c \in Calls, Busy(c),
           Return(c) \/ \E pc \in Pcs(call[c].op) : Goto(c, pc),
           UNCHANGED <<state, since, publishers, given, clients, infra>>
    PROVE  ManagerInv'
<1>1. /\ call' \in [Calls -> CallType]
      /\ \A d \in Calls : CallInv(d)'
      /\ Alone'
      /\ \A d \in Calls :
           \/ call'[d].op = "none"
           \/ call'[d].op = call[d].op /\ call'[d].name = call[d].name
  BY GotoKeeps, ReturnKeeps
<1>2. TypeOK'
  BY <1>1 DEF ManagerInv, TypeOK, CallType, clients, infra
<1> QED
  BY <1>1, <1>2 DEF ManagerInv, StateInv, ReadyMeansStarted, clients

LEMMA QuietInv ==
    ASSUME ManagerInv, NEW c \in Calls,
           check_topic(c) \/ serialize(c) \/ send(c) \/ close_fails(c)
    PROVE  ManagerInv'
<1>1. Busy(c)
  BY DEF check_topic, serialize, send, close_fails, Busy
<1>2. CASE check_topic(c)
  <2>1. "register" \in Pcs(call[c].op)
    BY <1>2, OpOf DEF check_topic, Pcs
  <2> QED
    BY <1>1, <1>2, <2>1, OnlyCallInv DEF check_topic
<1>3. CASE serialize(c)
  <2>1. "send" \in Pcs(call[c].op)
    BY <1>3, OpOf DEF serialize, Pcs
  <2> QED
    BY <1>1, <1>3, <2>1, OnlyCallInv DEF serialize
<1>4. CASE send(c)
  BY <1>1, <1>4, OnlyCallInv DEF send
<1>5. CASE close_fails(c)
  BY <1>1, <1>5, OnlyCallInv DEF close_fails
<1> QED
  BY <1>2, <1>3, <1>4, <1>5

\* The publisher that a call has built, or the one in its place.
LEMMA ProvideKeeps ==
    ASSUME ManagerInv, NEW c \in Calls, call[c].op = "create", Return(c),
           NEW kind \in {"kafka", "failed"}, Provide(call[c].name, kind),
           since' \in Ages, state' \in {state, "error_unrecoverable"},
           UNCHANGED <<clients, infra>>
    PROVE  ManagerInv'
<1>1. Busy(c) /\ call[c].name \in Names
  BY OpOf DEF ManagerInv, CallInv
<1>2. /\ call' \in [Calls -> CallType]
      /\ \A d \in Calls : CallInv(d)'
      /\ Alone'
      /\ \A d \in Calls : d # c => call'[d] = call[d]
      /\ call'[c].op = "none"
  BY ReturnKeeps
<1>3. \A d \in Calls : call'[d].op = "none"
  BY <1>1, <1>2, NoOther
<1>4. TypeOK'
  BY <1>1, <1>2 DEF Provide, ManagerInv, TypeOK, CallType, States, clients, infra
<1> QED
  BY <1>2, <1>3, <1>4 DEF ManagerInv, StateInv, ReadyMeansStarted, clients

LEMMA register_modelInv ==
    ASSUME ManagerInv, NEW c \in Calls, register_model(c)
    PROVE  ManagerInv'
<1>1. call[c].op = "create"
  BY OpOf DEF register_model
<1>2. since \in Ages
  BY DEF ManagerInv, TypeOK
<1> QED
  BY <1>1, <1>2, ProvideKeeps DEF register_model

LEMMA admin_closeInv ==
    ASSUME ManagerInv, NEW c \in Calls, admin_close(c)
    PROVE  ManagerInv'
<1>1. call[c].op = "close" /\ Busy(c)
  BY OpOf DEF admin_close
<1>2. /\ call' \in [Calls -> CallType]
      /\ \A d \in Calls : CallInv(d)'
      /\ Alone'
      /\ \A d \in Calls : d # c => call'[d] = call[d]
      /\ call'[c].op = "none"
  BY ReturnKeeps DEF admin_close
<1>3. \A d \in Calls : call'[d].op = "none"
  BY <1>1, <1>2, NoOther
<1>4. TypeOK'
  BY <1>2 DEF admin_close, ManagerInv, TypeOK, CallType, States, infra
<1> QED
  BY <1>2, <1>3, <1>4 DEF admin_close, ManagerInv, StateInv, ReadyMeansStarted

\* A publish that fails was let in by a manager that had started, and nothing but
\* publishes has been under way since.
LEMMA failInv ==
    ASSUME ManagerInv, NEW c \in Calls, fail(c)
    PROVE  ManagerInv'
<1>1. Busy(c) /\ call[c].op \in {"initialize", "create", "publish"}
  BY OpOf DEF fail, Busy
<1>2. CASE UNCHANGED <<state, since, publishers, given>>
  BY <1>1, <1>2, OnlyCallInv DEF fail
<1>3. CASE /\ state' = IF call[c].op = "publish" THEN "error_recoverable"
                                               ELSE "error_unrecoverable"
           /\ since' = call[c].age
           /\ IF call[c].op = "create" THEN Provide(call[c].name, "failed")
              ELSE UNCHANGED <<publishers, given>>
  <2>1. since' \in Ages
    BY <1>3 DEF ManagerInv, TypeOK
  <2>2. CASE call[c].op = "create"
    BY <1>3, <2>1, <2>2, ProvideKeeps DEF fail
  <2>3. CASE call[c].op # "create"
    <3>1. /\ call' \in [Calls -> CallType]
          /\ \A d \in Calls : CallInv(d)'
          /\ Alone'
          /\ \A d \in Calls : d # c => call'[d] = call[d]
          /\ call'[c].op = "none"
      BY ReturnKeeps DEF fail
    <3>2. TypeOK'
      BY <1>3, <2>1, <2>3, <3>1 DEF fail, ManagerInv, TypeOK, CallType, States, clients, infra
    <3>3. CASE call[c].op = "publish"
      <4>1. \A d \in Calls : call[d].op \in {"none", "publish"}
        BY <1>1, <3>3, OpOf DEF ManagerInv, Alone
      <4>2. admin
        BY <3>3 DEF ManagerInv, StateInv, ReadyMeansStarted
      <4> QED
        BY <1>3, <3>1, <3>2, <3>3, <4>1, <4>2
           DEF fail, ManagerInv, StateInv, ReadyMeansStarted, clients
    <3>4. CASE call[c].op = "initialize"
      <4>1. \A d \in Calls : call'[d].op = "none"
        BY <1>1, <3>1, <3>4, NoOther
      <4> QED
        BY <1>3, <3>1, <3>2, <3>4, <4>1
           DEF fail, ManagerInv, StateInv, ReadyMeansStarted
    <3> QED
      BY <1>1, <2>3, <3>3, <3>4
  <2> QED
    BY <2>2, <2>3
<1> QED
  BY <1>2, <1>3 DEF fail

LEMMA tickInv ==
    ASSUME ManagerInv, tick
    PROVE  ManagerInv'
<1>1. \A age \in Ages : Older(age) \in Ages
  BY BackoffAssumption DEF Ages, Older
<1>2. \A d \in Calls :
        /\ call'[d] \in CallType
        /\ call'[d].op = call[d].op /\ call'[d].name = call[d].name
        /\ call'[d].pc = call[d].pc
  BY <1>1 DEF tick, ManagerInv, TypeOK, CallType
<1>3. TypeOK'
  BY <1>1, <1>2 DEF tick, ManagerInv, TypeOK, CallType, clients, infra
<1>4. \A d \in Calls : CallInv(d)'
  BY <1>2 DEF ManagerInv, CallInv
<1>5. Alone'
  BY <1>2 DEF ManagerInv, Alone, Busy
<1>6. StateInv'
  BY <1>2 DEF tick, ManagerInv, StateInv
<1> QED
  BY <1>3, <1>4, <1>5, <1>6 DEF tick, ManagerInv, ReadyMeansStarted, clients

LEMMA flipInv ==
    ASSUME ManagerInv, flip
    PROVE  ManagerInv'
<1>1. up' \in BOOLEAN
  BY Zenon DEF flip
<1>2. TypeOK'
  BY <1>1 DEF flip, ManagerInv, TypeOK, clients
<1> QED
  BY <1>2 DEF flip, ManagerInv, CallInv, Alone, Busy, StateInv,
     ReadyMeansStarted, clients

LEMMA StepInv ==
    ASSUME ManagerInv, OneAtATime, [Next]_vars
    PROVE  ManagerInv'
<1>1. CASE Next
  <2>1. ASSUME NEW c \in Calls, Step(c)
        PROVE  ManagerInv'
    BY <2>1, broker_startInv, admin_startInv, QuietInv, register_modelInv, broker_stopInv,
       admin_closeInv, failInv DEF Step
  <2> QED
    BY <1>1, <2>1, flipInv, tickInv, initializeInv, acloseInv, create_publisherInv,
       publishInv DEF Next
<1>2. CASE UNCHANGED vars
  BY <1>2 DEF vars, ManagerInv, TypeOK, CallInv, Alone, Busy, StateInv,
     ReadyMeansStarted
<1> QED
  BY <1>1, <1>2

-----------------------------------------------------------------------------
\* Theorems

\* Whatever tasks, events and intervals there are, the invariant holds.
THEOREM Invariance == ASSUME OneAtATime PROVE Spec => []ManagerInv
<1>1. ManagerInv /\ [Next]_vars => ManagerInv'
  BY StepInv
<1> QED
  BY <1>1, InitInv, PTL DEF Spec

\* Every variable of the manager keeps its type.
THEOREM TypeCorrect == ASSUME OneAtATime PROVE Spec => []TypeOK
BY Invariance, PTL DEF ManagerInv

\* A manager that publishes, or will again, holds a started admin client.
THEOREM ReadyManagersAreStarted == ASSUME OneAtATime PROVE Spec => []ReadyMeansStarted
BY Invariance, PTL DEF ManagerInv

\* Only closing the manager gets it out of the state error_unrecoverable: whatever
\* fails then is a call that was under way, and there is none that could.
THEOREM NoWayBack == ASSUME OneAtATime PROVE Spec => UnrecoverableIsFinal
<1>1. ASSUME ManagerInv, [Next]_vars, state = "error_unrecoverable"
      PROVE  state' \in {"error_unrecoverable", "uninitialized"}
  <2>1. \A c \in Calls : call[c].op \in {"none", "close"}
    BY <1>1 DEF ManagerInv, StateInv, TypeOK, Ops
  <2>2. ASSUME NEW c \in Calls, Step(c)
        PROVE  state' \in {"error_unrecoverable", "uninitialized"}
    BY <1>1, <2>1, <2>2, OpOf DEF Step, broker_start, admin_start, check_topic, serialize,
       register_model, send, broker_stop, admin_close, close_fails, fail
  <2>3. CASE Next
    BY <1>1, <2>2, <2>3 DEF Next, flip, tick, initialize, aclose, create_publisher, publish,
       Enter, TurnedAway
  <2>4. CASE UNCHANGED vars
    BY <1>1, <2>4 DEF vars
  <2> QED
    BY <1>1, <2>3, <2>4
<1>2. ManagerInv /\ [Next]_vars =>
        [state = "error_unrecoverable" =>
           state' \in {"error_unrecoverable", "uninitialized"}]_vars
  BY <1>1
<1> QED
  BY <1>2, Invariance, PTL DEF Spec, UnrecoverableIsFinal

=============================================================================
