--------------------------- MODULE SchemaManager ---------------------------
(***************************************************************************)
(* PydanticSchemaManager (src/safir/kafka/_manager.py): services that      *)
(* register the Avro schemas of their models in one schema registry, and   *)
(* serialize with what was registered.  Each manager is of one process;    *)
(* the processes may be of different versions of a service, with different *)
(* schemas for one subject.                                                *)
(*                                                                         *)
(* The registry is external.  For a schema that a subject had before it    *)
(* gives the old identifier; a new one it accepts if it is compatible with *)
(* the latest by the subject's level.  A schema stands for its identifier, *)
(* which is the same for the same schema.                                  *)
(***************************************************************************)
EXTENDS Naturals, Sequences

CONSTANTS
    Managers,
    ModelsOf,   \* models of a manager: name, namespace and schema
    SuffixOf,   \* its suffix
    BadNames,   \* names, namespaces and suffixes that Avro does not allow
    Levels,     \* compatibility types that look at the latest version
    DefaultLevel,   \* the one that is configured in the registry
    CompatibleBy    \* by level, which pairs of an old and a new schema are

VARIABLES
    registry,   \* by subject, the versions and the level
    registering,    \* what each manager's register_model does, or did last
    _subjects_to_ids,
    serialized  \* what serialize returned last, with the model

kafka_vars == <<registry, registering, _subjects_to_ids, serialized>>

\* Two models of a process do not have the same name and namespace.
ASSUME KafkaAssumption ==
    /\ DefaultLevel \in Levels
    /\ \A m \in Managers : \A a, b \in ModelsOf[m] :
         a.name = b.name /\ a.namespace = b.namespace => a = b

_get_subject(m, model) ==
    [namespace |-> model.namespace, name |-> model.name, suffix |-> SuffixOf[m]]

_validate_avro_name(subject) ==
    \A part \in {"namespace", "name", "suffix"} : subject[part] \notin BadNames

Subjects == UNION {{_get_subject(m, model) : model \in ModelsOf[m]} : m \in Managers}
Schemas == UNION {{model.schema : model \in ModelsOf[m]} : m \in Managers}

NoModel == [name |-> "none", namespace |-> "none", schema |-> "none"]

KafkaInit ==
    /\ registry = [s \in Subjects |-> [versions |-> <<>>, level |-> DefaultLevel]]
    /\ registering = [m \in Managers |->
         [pc |-> "idle", model |-> NoModel, level |-> "none", fits |-> FALSE]]
    /\ _subjects_to_ids = [m \in Managers |-> [s \in Subjects |-> "none"]]
    /\ serialized = [manager |-> "none", model |-> NoModel, schema |-> "none"]

Versions(s) == {registry[s].versions[i] : i \in 1..Len(registry[s].versions)}

\* The schema can follow the latest version.
Fits(s, schema) ==
    LET v == registry[s].versions
    IN v # <<>> => <<v[Len(v)], schema>> \in CompatibleBy[registry[s].level]

Subject(m) == _get_subject(m, registering[m].model)
Schema(m) == registering[m].model.schema

\* Whether the schema could follow the latest at some time of the call (a
\* history of the call, with the registry as it is before the step).
Fitted(m) == registering[m].fits \/ Fits(Subject(m), Schema(m))

Go(m, pc) ==
    registering' = [k \in Managers |->
        IF registering[k].pc \in {"idle", "ok", "raised"} THEN registering[k]
        ELSE [registering[k] EXCEPT !.fits = Fitted(k),
                                    !.pc = IF k = m THEN pc ELSE @]]

At(m, pc) == registering[m].pc = pc

-----------------------------------------------------------------------------
\* A name that Avro does not allow raises before anything is asked for.
register_model(m, model, level) ==
    /\ registering[m].pc \in {"idle", "ok", "raised"}
    /\ registering' = [registering EXCEPT ![m] =
         [pc |-> IF ~_validate_avro_name(_get_subject(m, model)) THEN "raised"
                 ELSE IF level # "none" THEN "updating" ELSE "testing",
          model |-> model, level |-> level, fits |-> FALSE]]
    /\ UNCHANGED <<registry, _subjects_to_ids, serialized>>

update_compatibility(m) ==
    /\ At(m, "updating")
    /\ registry' = [registry EXCEPT ![Subject(m)].level = registering[m].level]
    /\ Go(m, "testing")
    /\ UNCHANGED <<_subjects_to_ids, serialized>>

\* Mutant: the registry will see to it.
TestNothing(m) ==
    /\ At(m, "testing")
    /\ Go(m, "registering")
    /\ UNCHANGED <<registry, _subjects_to_ids, serialized>>

\* The test is needed because the registry accepts any schema that it had.
test_compatibility(m) ==
    /\ At(m, "testing")
    /\ Go(m, IF Fits(Subject(m), Schema(m)) THEN "registering" ELSE "raised")
    /\ UNCHANGED <<registry, _subjects_to_ids, serialized>>

\* Mutant: the identifier is remembered whatever the registry says.
RememberAnyhow(m) ==
    /\ At(m, "registering")
    /\ Go(m, "raised")
    /\ _subjects_to_ids' = [_subjects_to_ids EXCEPT ![m][Subject(m)] = Schema(m)]
    /\ UNCHANGED <<registry, serialized>>

\* Another process may have registered since the test; the registry looks once
\* more at a schema that it does not have.
register(m) ==
    LET s == Subject(m)
        schema == Schema(m)
    IN /\ At(m, "registering")
       /\ schema \in Versions(s) \/ Fits(s, schema)
       /\ registry' = IF schema \in Versions(s) THEN registry
                      ELSE [registry EXCEPT ![s].versions = Append(@, schema)]
       /\ _subjects_to_ids' = [_subjects_to_ids EXCEPT ![m][s] = schema]
       /\ Go(m, "ok")
       /\ UNCHANGED serialized

\* The registry refuses, or is not reachable: register_model raises what its
\* client raises, and what is registered stays.
client_error(m) ==
    /\ registering[m].pc \in {"updating", "testing", "registering"}
    /\ Go(m, "raised")
    /\ UNCHANGED <<registry, _subjects_to_ids, serialized>>

\* Without a registration UnknownSchemaError, or InvalidAvroNameError; with one,
\* the identifier that was registered under the model's subject.
serialize(m, model) ==
    LET s == _get_subject(m, model)
    IN /\ _validate_avro_name(s) /\ _subjects_to_ids[m][s] # "none"
       /\ serialized' = [manager |-> m, model |-> model,
                         schema |-> _subjects_to_ids[m][s]]
       /\ UNCHANGED <<registry, registering, _subjects_to_ids>>

KafkaNext ==
    \E m \in Managers :
        \/ \E model \in ModelsOf[m] :
             \/ \E level \in Levels \union {"none"} : register_model(m, model, level)
             \/ serialize(m, model)
        \/ update_compatibility(m) \/ test_compatibility(m) \/ register(m)
        \/ client_error(m)

KafkaSpec == KafkaInit /\ [][KafkaNext]_kafka_vars

-----------------------------------------------------------------------------
\* Properties

KafkaTypeOK ==
    /\ \A s \in Subjects :
         registry[s].level \in Levels /\ Versions(s) \subseteq Schemas
    /\ _subjects_to_ids \in [Managers -> [Subjects -> Schemas \union {"none"}]]
    /\ \A m \in Managers : registering[m].pc \in
         {"idle", "updating", "testing", "registering", "ok", "raised"}

\* A service that is rolled back does not go on with an old schema which cannot
\* follow the latest: register_model returns only if at some time of the call
\* the schema could, whatever other processes register or set meanwhile.
RollbackRefused ==
    \A m \in Managers : At(m, "ok") => registering[m].fits

\* What a manager serializes with is the schema of that very model, as a
\* version that the registry has under the model's subject.
SerializedAsRegistered ==
    /\ \A m \in Managers, s \in Subjects :
         _subjects_to_ids[m][s] # "none" => _subjects_to_ids[m][s] \in Versions(s)
    /\ serialized.schema = serialized.model.schema
=============================================================================
