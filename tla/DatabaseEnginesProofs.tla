----------------------- MODULE DatabaseEnginesProofs -----------------------
(***************************************************************************)
(* Engines and connectors are held by the one that closes them, for any    *)
(* number of them and any configurations: EnginesHeld, EnginesAsConfigured *)
(* and SessionsAreCurrent.                                                 *)
(*                                                                         *)
(* The invariant adds to what is held that the dependency and the manager  *)
(* never hold the same engine as their own, and what each step that waits  *)
(* was begun for.                                                          *)
(***************************************************************************)
EXTENDS DatabaseEngines, TLAPS

\* What the lifespan waits for.
DepWaits == {"initializing", "taking", "closing"}
Waits == DepWaits \union {"idle", "connecting", "unwinding", "mgr_closing", "mgr_disposing"}

IsEngine(x) ==
    /\ x = [state |-> x.state, url |-> x.url, data |-> x.data, by |-> x.by,
            kwargs |-> x.kwargs]
    /\ x.state \in {"unused", "open", "disposed"}
    /\ x.by \in {"dep", "mgr", None}

AreEngines(E) ==
    /\ E = [e \in Engines |-> E[e]]
    /\ \A e \in Engines : IsEngine(E[e])

TypeInv ==
    /\ AreEngines(engines)
    /\ connectors \in [Connectors -> {"unused", "open", "closed", "leaked"}]
    /\ dep \in [engine : Engines \union {None}, created : BOOLEAN,
                maker : Engines \union {None}]
    /\ mgr \in [config : {mgr.config}, engine : Engines \union {None},
                connector : Connectors \union {None}]
    /\ task \in [pc : Waits, data : {task.data}, connector : Connectors \union {None}]
    /\ sessions \in [Requests -> Engines \union {None, "RuntimeError"}]

\* The dependency makes sessions for its engine; one that it did not create is
\* the manager's, or was.
DepInv ==
    /\ dep.maker = dep.engine
    /\ dep.engine # None /\ ~dep.created => engines[dep.engine].by = "mgr"
    /\ dep.created => dep.engine # None
    /\ OwnsEngine => dep.engine # mgr.engine

MgrInv ==
    /\ mgr.engine # None => engines[mgr.engine].by = "mgr"
    /\ mgr.connector # None => mgr.engine # None

LifespanInv ==
    /\ task.pc \in DepWaits => OwnsEngine
    /\ task.pc = "taking" => mgr.engine # None
    /\ task.pc \in {"connecting", "unwinding"} => mgr.engine = None /\ mgr.connector = None
    /\ task.pc = "connecting" => HasCloud
    /\ task.pc = "unwinding" => task.connector \in Connectors
    /\ task.pc = "mgr_closing" => mgr.engine # None /\ mgr.connector # None
    /\ task.pc = "mgr_disposing" => mgr.engine # None /\ mgr.connector = None

MadeInv ==
    \A e \in Engines : engines[e].state = "open" =>
        /\ IsAsync(engines[e].url.scheme)
        /\ engines[e].kwargs = engine_kwargs(_remove_none(engines[e].data))

EnginesInv ==
    TypeInv /\ DepInv /\ MgrInv /\ LifespanInv /\ MadeInv /\ EnginesHeld

LEMMA EnginesInitInv == EnginesInit => EnginesInv
<1> SUFFICES ASSUME EnginesInit
             PROVE  EnginesInv
  OBVIOUS
<1>1. IsEngine(Unused) /\ Unused.state = "unused"
  BY DEF IsEngine, Unused
<1>2. AreEngines(engines) /\ \A e \in Engines : engines[e].state = "unused"
  <2> HIDE DEF Unused
  <2> QED
    BY <1>1 DEF EnginesInit, AreEngines
<1>3. dep = [engine |-> None, created |-> FALSE, maker |-> None]
  BY DEF EnginesInit, NoDep
<1>4. mgr = [config |-> NoData, engine |-> None, connector |-> None]
  BY DEF EnginesInit
<1>5. task = [pc |-> "idle", data |-> NoData, connector |-> None]
  BY DEF EnginesInit, Idle
<1>6. TypeInv
  BY <1>2, <1>3, <1>4, <1>5 DEF TypeInv, EnginesInit, Waits
<1>7. DepInv /\ MgrInv /\ LifespanInv
  BY <1>3, <1>4, <1>5 DEF DepInv, MgrInv, LifespanInv, OwnsEngine, DepWaits
<1>8. MadeInv
  BY <1>2 DEF MadeInv
<1>9. EnginesHeld
  BY <1>2, <1>3, <1>4, <1>5, EnginesAssumption DEF EnginesHeld, OwnsEngine, EnginesInit
<1> QED
  BY <1>6, <1>7, <1>8, <1>9 DEF EnginesInv

\* An engine that is new gets what its maker was given, and no other changes.
LEMMA MadeEngine ==
    ASSUME NEW from, AreEngines(from), NEW e \in Engines, NEW url, NEW data,
           NEW by \in {"dep", "mgr"}, engines' = [from EXCEPT ![e] = Made(url, data, by)]
    PROVE  /\ engines'[e].state = "open" /\ engines'[e].by = by /\ engines'[e].url = url
           /\ engines'[e].kwargs = engine_kwargs(_remove_none(data))
           /\ engines'[e].data = data
           /\ \A x \in Engines : x # e => engines'[x] = from[x]
           /\ AreEngines(engines')
<1> DEFINE new == [state |-> "open", url |-> url, data |-> data, by |-> by,
                   kwargs |-> engine_kwargs(_remove_none(data))]
<1>1. engines' = [from EXCEPT ![e] = new]
  BY DEF Made
<1>2. DOMAIN from = Engines
  BY DEF AreEngines
<1>3. engines' = [x \in Engines |-> IF x = e THEN new ELSE from[x]]
  BY <1>1, <1>2
<1>4. IsEngine(new)
  BY DEF IsEngine
<1>5. AreEngines(engines')
  <2> HIDE DEF new
  <2> QED
    BY <1>3, <1>4 DEF AreEngines
<1> QED
  BY <1>3, <1>5

LEMMA DisposedEngine ==
    ASSUME AreEngines(engines), NEW e \in Engines
    PROVE  /\ AreEngines(Disposed(e))
           /\ \A x \in Engines :
                /\ Disposed(e)[x].state = IF x = e THEN "disposed" ELSE engines[x].state
                /\ Disposed(e)[x].by = engines[x].by
                /\ x # e => Disposed(e)[x] = engines[x]
<1> DEFINE old == engines[e]
           new == [state |-> "disposed", url |-> old.url, data |-> old.data,
                   by |-> old.by, kwargs |-> old.kwargs]
<1>1. DOMAIN engines = Engines /\ IsEngine(old)
  BY DEF AreEngines
<1>2. [old EXCEPT !.state = "disposed"] = new
  BY <1>1 DEF IsEngine
<1>3. Disposed(e) = [x \in Engines |-> IF x = e THEN new ELSE engines[x]]
  BY <1>1, <1>2 DEF Disposed
<1>4. IsEngine(new)
  BY <1>1 DEF IsEngine
<1>5. AreEngines(Disposed(e))
  <2> HIDE DEF new, old
  <2> QED
    BY <1>3, <1>4 DEF AreEngines
<1> QED
  BY <1>3, <1>5

-----------------------------------------------------------------------------
\* Steps that create or dispose of an engine of the dependency.  From is the
\* engines once the old one is gone, and closed the dependency then.

\* The dependency has no engine of its own any more.
LEMMA ClosedInv ==
    ASSUME EnginesInv, NEW from, NEW closed,
           AreEngines(from), closed \in [engine : Engines \union {None}, created : BOOLEAN,
                                         maker : Engines \union {None}],
           closed.maker = closed.engine,
           ~closed.created, closed.engine # None => from[closed.engine].by = "mgr",
           \A e \in Engines : /\ from[e].state = "open" <=> e = mgr.engine
                              /\ from[e].state = "open" => from[e] = engines[e]
                              /\ from[e].by = engines[e].by,
           engines' = from, dep' = closed,
           task' \in [pc : {"idle"}, data : {task'.data},
                      connector : Connectors \union {None}],
           task.pc # "unwinding", UNCHANGED <<connectors, mgr, sessions>>
    PROVE  EnginesInv'
<1> USE DEF EnginesInv
<1>1. TypeInv /\ MgrInv
  OBVIOUS
<1>2. TypeInv'
  BY <1>1 DEF TypeInv, Waits
<1>3. DepInv' /\ MgrInv' /\ LifespanInv'
  BY <1>1 DEF TypeInv, DepInv, MgrInv, LifespanInv, OwnsEngine, DepWaits
<1>4. MadeInv'
  BY DEF MadeInv
<1>5. EnginesHeld'
  BY EnginesAssumption DEF EnginesHeld, OwnsEngine, TypeInv
<1> QED
  BY <1>2, <1>3, <1>4, <1>5

\* The driver that a URL leads to is async, or there is no engine.
LEMMA InitializeInv ==
    ASSUME EnginesInv, NEW from, NEW closed, NEW data,
           AreEngines(from), closed \in [engine : Engines \union {None}, created : BOOLEAN,
                                         maker : Engines \union {None}],
           closed.maker = closed.engine,
           ~closed.created, closed.engine # None => from[closed.engine].by = "mgr",
           \A e \in Engines : /\ from[e].state = "open" <=> e = mgr.engine
                              /\ from[e].state = "open" => from[e] = engines[e]
                              /\ from[e].by = engines[e].by,
           Initialize(from, closed, data),
           task' \in [pc : {"idle"}, data : {task'.data},
                      connector : Connectors \union {None}],
           task.pc # "unwinding", UNCHANGED <<connectors, mgr, sessions>>
    PROVE  EnginesInv'
<1> DEFINE url == build_database_url(data["url"], data["password"])
<1> USE DEF EnginesInv
<1>0. TypeInv /\ MgrInv
  OBVIOUS
<1>1. CASE /\ IsAsync(url.scheme)
           /\ \E e \in Engines :
                /\ from[e].state = "unused"
                /\ engines' = [from EXCEPT ![e] = Made(url, data, "dep")]
                /\ dep' = [engine |-> e, created |-> TRUE, maker |-> e]
  <2>1. PICK e \in Engines :
          /\ from[e].state = "unused"
          /\ engines' = [from EXCEPT ![e] = Made(url, data, "dep")]
          /\ dep' = [engine |-> e, created |-> TRUE, maker |-> e]
    BY <1>1
  <2> HIDE DEF url
  <2>2. /\ engines'[e].state = "open" /\ engines'[e].by = "dep" /\ engines'[e].url = url
        /\ engines'[e].kwargs = engine_kwargs(_remove_none(data))
        /\ engines'[e].data = data
        /\ \A x \in Engines : x # e => engines'[x] = from[x]
        /\ AreEngines(engines')
    BY <2>1, MadeEngine
  <2>3. e # mgr.engine /\ e # None
    BY <2>1, EnginesAssumption
  <2>4. TypeInv'
    BY <1>0, <2>1, <2>2 DEF TypeInv, Waits
  <2>5. DepInv' /\ MgrInv' /\ LifespanInv'
    BY <1>0, <2>1, <2>2, <2>3 DEF TypeInv, DepInv, MgrInv, LifespanInv, OwnsEngine, DepWaits
  <2>6. MadeInv'
    BY <1>1, <2>2 DEF MadeInv
  <2>7. EnginesHeld'
    BY <2>1, <2>2, <2>3 DEF EnginesHeld, OwnsEngine, TypeInv
  <2> QED
    BY <2>4, <2>5, <2>6, <2>7
<1>2. CASE engines' = from /\ dep' = closed
  BY <1>2, ClosedInv
<1> QED
  BY <1>1, <1>2 DEF Initialize

\* The dependency takes the manager's engine.
LEMMA WithEngineInv ==
    ASSUME EnginesInv, mgr.engine # None, NEW closed,
           closed \in [engine : Engines \union {None}, created : BOOLEAN,
                       maker : Engines \union {None}],
           ~closed.created, AreEngines(engines'),
           \A e \in Engines : /\ engines'[e].state = "open" <=> e = mgr.engine
                              /\ engines'[e].state = "open" => engines'[e] = engines[e]
                              /\ engines'[e].by = engines[e].by,
           WithEngine(closed), task.pc # "unwinding",
           task' \in [pc : {"idle"}, data : {task'.data},
                      connector : Connectors \union {None}],
           UNCHANGED <<connectors, mgr, sessions>>
    PROVE  EnginesInv'
<1> USE DEF EnginesInv
<1>1. TypeInv /\ MgrInv
  OBVIOUS
<1>2. dep' = [engine |-> mgr.engine, created |-> FALSE, maker |-> mgr.engine]
  BY DEF WithEngine
<1>3. TypeInv'
  BY <1>1, <1>2 DEF TypeInv, Waits
<1>4. DepInv' /\ MgrInv' /\ LifespanInv'
  BY <1>1, <1>2 DEF TypeInv, DepInv, MgrInv, LifespanInv, OwnsEngine, DepWaits
<1>5. MadeInv'
  BY DEF MadeInv
<1>6. EnginesHeld'
  BY <1>2 DEF EnginesHeld, OwnsEngine, TypeInv
<1> QED
  BY <1>3, <1>4, <1>5, <1>6

\* A step of the lifespan that only waits for something, or gives up.
LEMMA WaitInv ==
    ASSUME EnginesInv, task.pc # "unwinding",
           task' \in [pc : Waits \ {"unwinding"}, data : {task'.data},
                      connector : Connectors \union {None}],
           LifespanInv', UNCHANGED <<engines, connectors, dep, mgr, sessions>>
    PROVE  EnginesInv'
<1> USE DEF EnginesInv
<1>1. TypeInv'
  BY DEF TypeInv
<1>2. DepInv' /\ MgrInv' /\ MadeInv'
  BY DEF DepInv, MgrInv, MadeInv, OwnsEngine
<1>3. EnginesHeld'
  BY DEF EnginesHeld, OwnsEngine
<1> QED
  BY <1>1, <1>2, <1>3

LEMMA AwaitDisposalInv ==
    ASSUME EnginesInv, task.pc = "idle", OwnsEngine, NEW then \in DepWaits, NEW data,
           then = "taking" => mgr.engine # None, AwaitDisposal(then, data),
           UNCHANGED <<connectors, mgr, sessions>>
    PROVE  EnginesInv'
<1>1. task' = [pc |-> then, data |-> data, connector |-> None]
  BY DEF AwaitDisposal, Idle
<1>2. LifespanInv'
  BY <1>1 DEF AwaitDisposal, LifespanInv, OwnsEngine, DepWaits
<1> QED
  BY <1>1, <1>2, WaitInv DEF AwaitDisposal, DepWaits, Waits

LEMMA DepInitializeInv ==
    ASSUME EnginesInv, NEW data, initialize(data)
    PROVE  EnginesInv'
<1> USE DEF initialize
<1>1. CASE OwnsEngine
  BY <1>1, AwaitDisposalInv DEF DepWaits
<1>2. CASE ~OwnsEngine
  <2>1. Initialize(engines, dep, data) /\ UNCHANGED task
    BY <1>2
  <2>2. TypeInv /\ DepInv /\ MgrInv /\ EnginesHeld
    BY DEF EnginesInv
  <2>3. \A e \in Engines : engines[e].state = "open" <=> e = mgr.engine
    BY <1>2, <2>2 DEF EnginesHeld
  <2>4. ~dep.created /\ (dep.engine # None => engines[dep.engine].by = "mgr")
    BY <1>2, <2>2 DEF DepInv, OwnsEngine, TypeInv
  <2>5. task' \in [pc : {"idle"}, data : {task'.data},
                  connector : Connectors \union {None}]
    BY <2>1, <2>2 DEF TypeInv
  <2> QED
    BY <2>1, <2>2, <2>3, <2>4, <2>5, InitializeInv DEF TypeInv, DepInv
<1> QED
  BY <1>1, <1>2

LEMMA initialize_with_engineInv ==
    ASSUME EnginesInv, initialize_with_engine
    PROVE  EnginesInv'
<1> USE DEF initialize_with_engine
<1>1. CASE OwnsEngine
  BY <1>1, AwaitDisposalInv DEF DepWaits
<1>2. CASE ~OwnsEngine
  <2>1. WithEngine(dep) /\ UNCHANGED <<engines, task>>
    BY <1>2
  <2>2. TypeInv /\ DepInv /\ EnginesHeld
    BY DEF EnginesInv
  <2>3. \A e \in Engines : engines[e].state = "open" <=> e = mgr.engine
    BY <1>2, <2>2 DEF EnginesHeld
  <2>4. ~dep.created
    BY <1>2, <2>2 DEF DepInv, OwnsEngine
  <2>5. task' \in [pc : {"idle"}, data : {task'.data},
                  connector : Connectors \union {None}]
    BY <2>1, <2>2 DEF TypeInv
  <2> QED
    BY <2>1, <2>2, <2>3, <2>4, <2>5, WithEngineInv DEF TypeInv
<1> QED
  BY <1>1, <1>2

LEMMA dep_disposedInv ==
    ASSUME EnginesInv, dep_disposed
    PROVE  EnginesInv'
<1> DEFINE gone == Disposed(dep.engine)
<1>1. TypeInv /\ DepInv /\ MgrInv /\ LifespanInv /\ EnginesHeld
  BY DEF EnginesInv
<1>2. task.pc \in DepWaits /\ task' = [pc |-> "idle", data |-> NoData, connector |-> None]
  BY DEF dep_disposed, DepWaits, Idle
<1>3. OwnsEngine /\ dep.engine \in Engines /\ dep.engine # mgr.engine
  BY <1>1, <1>2, EnginesAssumption DEF LifespanInv, OwnsEngine, TypeInv, DepInv
<1>4. /\ AreEngines(gone)
      /\ \A e \in Engines : /\ gone[e].state = "open" <=> e = mgr.engine
                            /\ gone[e].state = "open" => gone[e] = engines[e]
                            /\ gone[e].by = engines[e].by
  BY <1>1, <1>3, DisposedEngine DEF TypeInv, EnginesHeld
<1>5. /\ NoDep \in [engine : Engines \union {None}, created : BOOLEAN,
                    maker : Engines \union {None}]
      /\ NoDep.engine = None /\ NoDep.maker = None /\ ~NoDep.created
  BY DEF NoDep
<1>9. /\ task' \in [pc : {"idle"}, data : {task'.data},
                   connector : Connectors \union {None}]
      /\ task.pc # "unwinding"
  BY <1>2 DEF DepWaits
<1>6. CASE task.pc = "initializing"
  <2> HIDE DEF gone
  <2>1. Initialize(gone, NoDep, task.data) /\ UNCHANGED <<connectors, mgr, sessions>>
    BY <1>6 DEF dep_disposed, gone
  <2> QED
    BY <1>4, <1>5, <1>9, <2>1, InitializeInv
<1>7. CASE task.pc = "taking"
  <2> HIDE DEF gone
  <2>1. engines' = gone /\ WithEngine(NoDep) /\ UNCHANGED <<connectors, mgr, sessions>>
    BY <1>7 DEF dep_disposed, gone
  <2>2. mgr.engine # None
    BY <1>1, <1>7 DEF LifespanInv
  <2> QED
    BY <1>4, <1>5, <1>9, <2>1, <2>2, WithEngineInv
<1>8. CASE task.pc = "closing"
  <2> HIDE DEF gone
  <2>1. engines' = gone /\ dep' = NoDep /\ UNCHANGED <<connectors, mgr, sessions>>
    BY <1>8 DEF dep_disposed, gone
  <2> QED
    BY <1>4, <1>5, <1>9, <2>1, ClosedInv
<1> QED
  BY <1>2, <1>6, <1>7, <1>8 DEF DepWaits

-----------------------------------------------------------------------------
\* Steps of the manager.

\* It has a new engine, with its connector or without one.
LEMMA CreatedInv ==
    ASSUME EnginesInv, NEW e \in Engines, NEW url, NEW data,
           engines[e].state = "unused", mgr.engine = None, IsAsync(url.scheme),
           engines' = [engines EXCEPT ![e] = Made(url, data, "mgr")],
           mgr' \in [config : {mgr'.config}, engine : {e}, connector : Connectors \union {None}],
           connectors' \in [Connectors -> {"unused", "open", "closed", "leaked"}],
           \A c \in Connectors : connectors'[c] = "open" <=> c = mgr'.connector,
           task' \in [pc : {"idle"}, data : {task'.data},
                      connector : Connectors \union {None}],
           UNCHANGED <<dep, sessions>>
    PROVE  EnginesInv'
<1>1. /\ engines'[e].state = "open" /\ engines'[e].by = "mgr" /\ engines'[e].url = url
      /\ engines'[e].kwargs = engine_kwargs(_remove_none(data))
      /\ engines'[e].data = data
      /\ \A x \in Engines : x # e => engines'[x] = engines[x]
      /\ AreEngines(engines')
  BY MadeEngine DEF EnginesInv, TypeInv
<1>2. TypeInv /\ DepInv /\ MadeInv /\ EnginesHeld
  BY DEF EnginesInv
<1>3. mgr'.engine = e /\ e # None
  BY EnginesAssumption
<1>4. OwnsEngine => dep.engine # e
  BY <1>2 DEF EnginesHeld, OwnsEngine
<1>5. TypeInv'
  BY <1>1, <1>2 DEF TypeInv, Waits
<1>6. DepInv' /\ MgrInv' /\ LifespanInv'
  BY <1>1, <1>2, <1>3, <1>4 DEF TypeInv, DepInv, MgrInv, LifespanInv, OwnsEngine, DepWaits
<1>7. MadeInv'
  BY <1>1, <1>2 DEF MadeInv
<1>8. EnginesHeld'
  <2>1. \A x \in Engines : engines[x].state = "open" <=> OwnsEngine /\ x = dep.engine
    BY <1>2, EnginesAssumption DEF EnginesHeld
  <2>2. OwnsEngine' <=> OwnsEngine
    BY DEF OwnsEngine
  <2>3. \A x \in Engines : engines'[x].state = "open" <=>
                             (OwnsEngine /\ x = dep.engine) \/ x = e
    BY <1>1, <1>4, <2>1
  <2> QED
    BY <1>3, <2>2, <2>3 DEF EnginesHeld
<1> QED
  BY <1>5, <1>6, <1>7, <1>8 DEF EnginesInv

LEMMA database_create_engineInv ==
    ASSUME EnginesInv, database_create_engine
    PROVE  EnginesInv'
<1> USE DEF database_create_engine
<1>1. PICK e \in Engines :
        /\ engines[e].state = "unused"
        /\ engines' = [engines EXCEPT ![e] = Made(build_url(mgr.config), mgr.config, "mgr")]
        /\ mgr' = [mgr EXCEPT !.engine = e]
  OBVIOUS
<1>2. TypeInv /\ MgrInv /\ EnginesHeld
  BY DEF EnginesInv
<1>3. mgr.connector = None
  BY <1>2 DEF MgrInv
<1>4. mgr' \in [config : {mgr'.config}, engine : {e}, connector : {None}]
  BY <1>1, <1>2, <1>3 DEF TypeInv
<1>5. \A c \in Connectors : connectors'[c] = "open" <=> c = mgr'.connector
  BY <1>2, <1>3, <1>4, EnginesAssumption DEF EnginesHeld
<1> DEFINE url == build_url(mgr.config)
<1>6. IsAsync(url.scheme)
  OBVIOUS
<1> HIDE DEF url
<1> QED
  BY <1>1, <1>2, <1>4, <1>5, <1>6, CreatedInv DEF TypeInv, url

LEMMA connector_createdInv ==
    ASSUME EnginesInv, connector_created
    PROVE  EnginesInv'
<1>1. PICK c \in Connectors :
         /\ connectors[c] = "unused"
         /\ connectors' = [connectors EXCEPT ![c] = "open"]
         /\ \/ \E e \in Engines :
                 /\ engines[e].state = "unused"
                 /\ engines' =
                      [engines EXCEPT ![e] = Made(mock_url(mgr.config), mgr.config, "mgr")]
                 /\ mgr' = [mgr EXCEPT !.engine = e, !.connector = c]
                 /\ task' = Idle
            \/ /\ task' = [Idle EXCEPT !.pc = "unwinding", !.connector = c]
               /\ UNCHANGED <<engines, mgr>>
  BY DEF connector_created
<1>2. TypeInv /\ DepInv /\ MgrInv /\ LifespanInv /\ MadeInv /\ EnginesHeld
  BY DEF EnginesInv
<1>3. /\ task.pc = "connecting" /\ mgr.engine = None /\ mgr.connector = None /\ HasCloud
      /\ UNCHANGED <<dep, sessions>>
  BY <1>2 DEF connector_created, LifespanInv
<1>4. /\ connectors' \in [Connectors -> {"unused", "open", "closed", "leaked"}]
      /\ \A d \in Connectors : connectors'[d] = "open" <=> d = c
  <2>1. \A d \in Connectors : connectors[d] # "open"
    BY <1>2, <1>3, EnginesAssumption DEF EnginesHeld
  <2>2. connectors \in [Connectors -> {"unused", "open", "closed", "leaked"}]
    BY <1>2 DEF TypeInv
  <2> QED
    BY <1>1, <2>1, <2>2
<1>5. CASE \E e \in Engines :
             /\ engines[e].state = "unused"
             /\ engines' =
                  [engines EXCEPT ![e] = Made(mock_url(mgr.config), mgr.config, "mgr")]
             /\ mgr' = [mgr EXCEPT !.engine = e, !.connector = c]
             /\ task' = Idle
  <2> DEFINE url == mock_url(mgr.config)
  <2>1. PICK e \in Engines :
          /\ engines[e].state = "unused"
          /\ engines' = [engines EXCEPT ![e] = Made(url, mgr.config, "mgr")]
          /\ mgr' = [mgr EXCEPT !.engine = e, !.connector = c]
          /\ task' = [pc |-> "idle", data |-> NoData, connector |-> None]
    BY <1>5 DEF Idle
  <2>2. IsAsync(url.scheme)
    BY <1>3 DEF mock_url, IsAsync, HasCloud
  <2>3. mgr' \in [config : {mgr'.config}, engine : {e}, connector : Connectors \union {None}]
        /\ mgr'.connector = c
    BY <1>2, <2>1 DEF TypeInv
  <2>4. task' \in [pc : {"idle"}, data : {task'.data}, connector : Connectors \union {None}]
    BY <2>1
  <2> HIDE DEF url
  <2> QED
    BY <1>3, <1>4, <2>1, <2>2, <2>3, <2>4, CreatedInv
<1>6. CASE /\ task' = [Idle EXCEPT !.pc = "unwinding", !.connector = c]
           /\ UNCHANGED <<engines, mgr>>
  <2>1. task' = [pc |-> "unwinding", data |-> NoData, connector |-> c]
    BY <1>6 DEF Idle
  <2>2. TypeInv'
    BY <1>2, <1>3, <1>4, <1>6, <2>1 DEF TypeInv, Waits
  <2>3. DepInv' /\ MgrInv' /\ LifespanInv' /\ MadeInv'
    BY <1>2, <1>3, <1>6, <2>1 DEF DepInv, MgrInv, LifespanInv, MadeInv, OwnsEngine, DepWaits
  <2>4. EnginesHeld'
    BY <1>2, <1>3, <1>4, <1>6, <2>1, EnginesAssumption DEF EnginesHeld, OwnsEngine
  <2> QED
    BY <2>2, <2>3, <2>4 DEF EnginesInv
<1> QED
  BY <1>1, <1>5, <1>6

LEMMA unwoundInv ==
    ASSUME EnginesInv, unwound \/ unwinding_fails
    PROVE  EnginesInv'
<1>1. TypeInv /\ DepInv /\ MgrInv /\ LifespanInv /\ MadeInv /\ EnginesHeld
  BY DEF EnginesInv
<1>2. /\ task.pc = "unwinding" /\ mgr.engine = None /\ mgr.connector = None
      /\ task.connector \in Connectors
      /\ \E state \in {"closed", "leaked"} :
           connectors' = [connectors EXCEPT ![task.connector] = state]
      /\ task' = [pc |-> "idle", data |-> NoData, connector |-> None]
      /\ UNCHANGED <<engines, dep, mgr, sessions>>
  BY <1>1 DEF unwound, unwinding_fails, LifespanInv, Idle
<1>3. TypeInv'
  BY <1>1, <1>2 DEF TypeInv, Waits
<1>4. DepInv' /\ MgrInv' /\ LifespanInv' /\ MadeInv'
  BY <1>1, <1>2 DEF DepInv, MgrInv, LifespanInv, MadeInv, OwnsEngine, DepWaits
<1>5. EnginesHeld'
  BY <1>1, <1>2, EnginesAssumption DEF EnginesHeld, OwnsEngine, TypeInv
<1> QED
  BY <1>3, <1>4, <1>5 DEF EnginesInv

LEMMA connector_closedInv ==
    ASSUME EnginesInv, connector_closed
    PROVE  EnginesInv'
<1>1. TypeInv /\ DepInv /\ MgrInv /\ LifespanInv /\ MadeInv /\ EnginesHeld
  BY DEF EnginesInv
<1>2. /\ task.pc = "mgr_closing" /\ mgr.engine # None /\ mgr.connector \in Connectors
      /\ connectors' = [connectors EXCEPT ![mgr.connector] = "closed"]
      /\ task' = [pc |-> "mgr_disposing", data |-> NoData, connector |-> None]
      /\ UNCHANGED <<engines, dep, sessions>>
  BY <1>1 DEF connector_closed, LifespanInv, TypeInv, Idle
<1>3. mgr' = [config |-> mgr.config, engine |-> mgr.engine, connector |-> None]
  BY <1>1 DEF connector_closed, TypeInv
<1>4. TypeInv'
  BY <1>1, <1>2, <1>3 DEF TypeInv, Waits
<1>5. DepInv' /\ MgrInv' /\ LifespanInv' /\ MadeInv'
  BY <1>1, <1>2, <1>3 DEF DepInv, MgrInv, LifespanInv, MadeInv, OwnsEngine, DepWaits
<1>6. EnginesHeld'
  BY <1>1, <1>2, <1>3, EnginesAssumption DEF EnginesHeld, OwnsEngine, TypeInv
<1> QED
  BY <1>4, <1>5, <1>6 DEF EnginesInv

LEMMA mgr_disposedInv ==
    ASSUME EnginesInv, mgr_disposed
    PROVE  EnginesInv'
<1>1. TypeInv /\ DepInv /\ MgrInv /\ LifespanInv /\ MadeInv /\ EnginesHeld
  BY DEF EnginesInv
<1>2. /\ task.pc = "mgr_disposing" /\ mgr.engine \in Engines /\ mgr.connector = None
      /\ engines' = Disposed(mgr.engine)
      /\ task' = [pc |-> "idle", data |-> NoData, connector |-> None]
      /\ UNCHANGED <<connectors, dep, sessions>>
  BY <1>1 DEF mgr_disposed, LifespanInv, TypeInv, Idle
<1>3. mgr' = [config |-> mgr.config, engine |-> None, connector |-> None]
  BY <1>1, <1>2 DEF mgr_disposed, TypeInv
<1>4. /\ AreEngines(engines')
      /\ \A x \in Engines :
           /\ engines'[x].state = IF x = mgr.engine THEN "disposed" ELSE engines[x].state
           /\ engines'[x].by = engines[x].by
           /\ x # mgr.engine => engines'[x] = engines[x]
  BY <1>1, <1>2, DisposedEngine DEF TypeInv
<1>5. TypeInv'
  BY <1>1, <1>2, <1>3, <1>4 DEF TypeInv, Waits
<1>6. DepInv' /\ MgrInv' /\ LifespanInv'
  BY <1>1, <1>2, <1>3, <1>4, EnginesAssumption
     DEF DepInv, MgrInv, LifespanInv, OwnsEngine, DepWaits, TypeInv
<1>7. MadeInv'
  BY <1>1, <1>4 DEF MadeInv
<1>8. EnginesHeld'
  BY <1>1, <1>2, <1>3, <1>4, EnginesAssumption DEF EnginesHeld, OwnsEngine, DepInv
<1> QED
  BY <1>5, <1>6, <1>7, <1>8 DEF EnginesInv

-----------------------------------------------------------------------------
LEMMA EnginesStepInv == EnginesInv /\ [EnginesNext]_engines_vars => EnginesInv'
<1> SUFFICES ASSUME EnginesInv, [EnginesNext]_engines_vars
             PROVE  EnginesInv'
  OBVIOUS
<1>1. TypeInv /\ DepInv /\ MgrInv /\ LifespanInv /\ MadeInv /\ EnginesHeld
  BY DEF EnginesInv
<1>2. CASE UNCHANGED engines_vars
  BY <1>1, <1>2 DEF engines_vars, EnginesInv, TypeInv, DepInv, MgrInv, LifespanInv, MadeInv,
                    EnginesHeld, OwnsEngine, HasCloud
<1>3. ASSUME NEW data \in Configs, engine_manager(data)
      PROVE  EnginesInv'
  <2>1. /\ task.pc = "idle" /\ mgr' = [mgr EXCEPT !.config = _remove_none(data)]
        /\ UNCHANGED <<engines, connectors, dep, task, sessions>>
    BY <1>3 DEF engine_manager
  <2>2. /\ mgr' \in [config : {mgr'.config}, engine : Engines \union {None},
                     connector : Connectors \union {None}]
        /\ mgr'.engine = mgr.engine /\ mgr'.connector = mgr.connector
    BY <1>1, <2>1 DEF TypeInv
  <2> QED
    BY <1>1, <2>1, <2>2 DEF EnginesInv, TypeInv, DepInv, MgrInv, LifespanInv, MadeInv,
                            EnginesHeld, OwnsEngine, DepWaits
<1>4. CASE dep_aclose
  BY <1>4, AwaitDisposalInv DEF dep_aclose, DepWaits
<1>5. ASSUME \/ dep_dispose_fails \/ connector_fails \/ mgr_aclose_fails
             \/ cloudsql_create_engine \/ mgr_aclose
      PROVE  EnginesInv'
  <2>1. task.pc # "unwinding" /\ UNCHANGED <<engines, connectors, dep, mgr, sessions>>
    BY <1>5 DEF dep_dispose_fails, connector_fails, mgr_aclose_fails,
                cloudsql_create_engine, mgr_aclose
  <2>2. PICK pc \in Waits \ {"unwinding"} :
          task' = [pc |-> pc, data |-> NoData, connector |-> None]
    BY <1>5 DEF dep_dispose_fails, connector_fails, mgr_aclose_fails,
                cloudsql_create_engine, mgr_aclose, Idle, Waits
  <2>3. LifespanInv'
    BY <1>1, <1>5, <2>1 DEF dep_dispose_fails, connector_fails, mgr_aclose_fails,
         cloudsql_create_engine, mgr_aclose, Idle, LifespanInv, MgrInv, DepWaits, HasCloud
  <2> QED
    BY <2>1, <2>2, <2>3, WaitInv
<1>6. ASSUME NEW r \in Requests, __call__(r) \/ session_ends(r)
      PROVE  EnginesInv'
  <2>1. /\ sessions' \in [Requests -> Engines \union {None, "RuntimeError"}]
        /\ UNCHANGED <<engines, connectors, dep, mgr, task>>
    BY <1>1, <1>6 DEF __call__, session_ends, TypeInv
  <2> QED
    BY <1>1, <2>1 DEF EnginesInv, TypeInv, DepInv, MgrInv, LifespanInv, MadeInv,
                      EnginesHeld, OwnsEngine, HasCloud
<1> QED
  BY <1>2, <1>3, <1>4, <1>5, <1>6, DepInitializeInv, initialize_with_engineInv,
     dep_disposedInv, database_create_engineInv, connector_createdInv, unwoundInv,
     connector_closedInv, mgr_disposedInv DEF EnginesNext

\* What is known of a setting is its value in the configuration, if it has one.
LEMMA KwargsAsSet ==
    ASSUME NEW data, NEW o \in OptionNames
    PROVE  {pair \in engine_kwargs(_remove_none(data)) : pair[1] = o} =
             IF /\ o \in DOMAIN data /\ data[o] # None
                /\ o = "isolation_level" => data[o] # ""
               THEN {<<o, data[o]>>} ELSE {}
<1> DEFINE written == {g \in DOMAIN data : data[g] # None}
           known == _remove_none(data)
           passed == {p \in DOMAIN known \intersect OptionNames :
                        p = "isolation_level" => known[p] # ""}
<1>1. DOMAIN known = written /\ \A g \in written : known[g] = data[g]
  BY DEF _remove_none
<1>2. o \in passed <=> /\ o \in DOMAIN data /\ data[o] # None
                       /\ o = "isolation_level" => data[o] # ""
  <2> HIDE DEF known
  <2> QED
    BY <1>1
<1>3. o \in passed => known[o] = data[o]
  BY <1>1
<1>4. engine_kwargs(known) = {<<p, known[p]>> : p \in passed}
  BY DEF engine_kwargs
<1> HIDE DEF known, passed
<1>5. {pair \in {<<p, known[p]>> : p \in passed} : pair[1] = o} =
        IF o \in passed THEN {<<o, known[o]>>} ELSE {}
  OBVIOUS
<1> QED
  BY <1>2, <1>3, <1>4, <1>5 DEF known

\* An engine or a connector is open if and only if the one that will close it
\* holds it, however initialization, take-over and closing interleave with
\* requests and whichever step raises.  Excepted is the connector of an engine
\* that could not be made, when closing it raises too (unwinding_fails).
THEOREM EnginesAreHeld == EnginesSpec => []EnginesHeld
<1>1. EnginesInv => EnginesHeld
  BY DEF EnginesInv
<1> QED
  BY EnginesInitInv, EnginesStepInv, <1>1, PTL DEF EnginesSpec

\* Every open engine has an async driver and exactly the settings that its
\* configuration has a value for.
THEOREM EnginesFollowConfiguration == EnginesSpec => []EnginesAsConfigured
<1>1. EnginesInv => EnginesAsConfigured
  <2> SUFFICES ASSUME MadeInv, NEW e \in Engines, engines[e].state = "open"
               PROVE  /\ IsAsync(engines[e].url.scheme)
                      /\ \A o \in OptionNames :
                           {pair \in engines[e].kwargs : pair[1] = o} =
                             IF /\ o \in DOMAIN engines[e].data /\ engines[e].data[o] # None
                                /\ o = "isolation_level" => engines[e].data[o] # ""
                               THEN {<<o, engines[e].data[o]>>} ELSE {}
    BY DEF EnginesInv, EnginesAsConfigured
  <2> DEFINE data == engines[e].data
  <2>1. IsAsync(engines[e].url.scheme)
        /\ engines[e].kwargs = engine_kwargs(_remove_none(data))
    BY DEF MadeInv
  <2> HIDE DEF data
  <2>2. \A o \in OptionNames :
          {pair \in engines[e].kwargs : pair[1] = o} =
             IF /\ o \in DOMAIN data /\ data[o] # None
                /\ o = "isolation_level" => data[o] # ""
               THEN {<<o, data[o]>>} ELSE {}
    <3> TAKE o \in OptionNames
    <3>1. {pair \in engine_kwargs(_remove_none(data)) : pair[1] = o} =
             IF /\ o \in DOMAIN data /\ data[o] # None
                /\ o = "isolation_level" => data[o] # ""
               THEN {<<o, data[o]>>} ELSE {}
      BY KwargsAsSet, Zenon
    <3> QED
      BY <2>1, <3>1, Zenon
  <2> QED
    BY <2>1, <2>2 DEF data
<1> QED
  BY EnginesInitInv, EnginesStepInv, <1>1, PTL DEF EnginesSpec

\* What engines, connectors, managers and the dependency are, whatever fails.
THEOREM EnginesTypes == EnginesSpec => []EnginesTypeOK
<1>1. EnginesInv => EnginesTypeOK
  BY DEF EnginesInv, TypeInv, AreEngines, IsEngine, Waits, DepWaits, EnginesTypeOK
<1> QED
  BY EnginesInitInv, EnginesStepInv, <1>1, PTL DEF EnginesSpec

\* A request is given a session of the engine that the dependency has, and of no
\* other; that engine is open, or its manager disposed of it and the dependency
\* was not told.
THEOREM NoStaleSessions == EnginesSpec => SessionsAreCurrent
<1>1. ASSUME EnginesInv, [EnginesNext]_engines_vars
      PROVE  [\A r \in Requests :
                sessions'[r] # sessions[r] /\ sessions'[r] \in Engines =>
                  /\ sessions'[r] = dep.engine
                  /\ \/ engines[sessions'[r]].state = "open"
                     \/ engines[sessions'[r]].by = "mgr"]_engines_vars
  <2> SUFFICES ASSUME NEW r \in Requests, sessions'[r] # sessions[r], sessions'[r] \in Engines
               PROVE  /\ sessions'[r] = dep.engine
                      /\ \/ engines[sessions'[r]].state = "open"
                         \/ engines[sessions'[r]].by = "mgr"
    OBVIOUS
  <2>1. TypeInv /\ DepInv /\ EnginesHeld
    BY <1>1 DEF EnginesInv
  <2>2. sessions' # sessions
    OBVIOUS
  <2>3. PICK q \in Requests : __call__(q) \/ session_ends(q)
    BY <1>1, <2>2 DEF EnginesNext, engines_vars, initialize, initialize_with_engine, dep_aclose,
       dep_disposed, dep_dispose_fails, engine_manager, database_create_engine,
       cloudsql_create_engine, connector_fails, connector_created, unwound, unwinding_fails,
       mgr_aclose, connector_closed, mgr_disposed, mgr_aclose_fails
  <2>4. q = r /\ dep.maker = sessions'[r]
    BY <2>1, <2>3, EnginesAssumption DEF __call__, session_ends, TypeInv
  <2> QED
    BY <2>1, <2>4, EnginesAssumption DEF DepInv, EnginesHeld, OwnsEngine
<1> QED
  BY EnginesInitInv, EnginesStepInv, <1>1, PTL DEF EnginesSpec, SessionsAreCurrent
=============================================================================
