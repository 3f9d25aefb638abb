--------------------------- MODULE KubernetesMock ---------------------------
(***************************************************************************)
(* safir.testing.kubernetes.MockKubernetesApi, the Kubernetes that         *)
(* services meet in their tests (src/safir/testing/kubernetes/_mock.py).   *)
(*                                                                         *)
(* Objects are kept by namespace, kind and name; every change of one is    *)
(* put on the event stream of its namespace and kind.  A client reads or   *)
(* lists objects, watches the stream from a resource version on, and keeps *)
(* what it knows up to date, as the services do.                           *)
(*                                                                         *)
(* The API does not suspend, except that a hook called after a create may. *)
(* A job's pod and a pod's start event are created after such a hook, so   *)
(* they are steps of their own.  What an object says is left out: it is    *)
(* its resource version, and which job a pod belongs to.  Events are put   *)
(* on the streams with the object's state at that time, except for custom  *)
(* objects, which are dicts the stream keeps a reference to.               *)
(***************************************************************************)
EXTENDS Naturals, Sequences, FiniteSets

CONSTANTS
    Namespaces, \* names of namespaces
    Names,      \* names of objects
    Cluster,    \* stands for the namespace of what belongs to none
    NoJob,      \* no job-name label
    Makers,     \* tasks that create jobs and pods
    Clients,    \* tasks that list and watch
    MaxWrites   \* bound: objects stored, new or again

ASSUME NameAssumption == Cluster \notin Namespaces /\ NoJob \notin Names
ASSUME BoundAssumption == MaxWrites \in Nat

NamespacedKinds ==
    {"Custom", "ConfigMap", "Event", "Ingress", "Job", "NetworkPolicy",
     "PersistentVolumeClaim", "Pod", "ResourceQuota", "Secret", "Service",
     "ServiceAccount"}

\* An object is found by its stream and its name.  Namespaces are all on one
\* stream, although each is stored in itself.
NamespaceSlot == <<Cluster, "Namespace">>
VolumeSlot == <<Cluster, "PersistentVolume">>
Slots == (Namespaces \X NamespacedKinds) \union {NamespaceSlot, VolumeSlot}
NamesIn(slot) == IF slot = NamespaceSlot THEN Namespaces ELSE Names
Keys == {k \in Slots \X (Names \union Namespaces) : k[2] \in NamesIn(k[1])}

Key(n, kind, o) == <<<<n, kind>>, o>>
IsCustom(k) == k[1][2] = "Custom"

\* What is stored in a namespace.  Events are not, but kept in _events.
In(n) == {k \in Keys : k[1][1] = n /\ k[1][2] # "Event"}
                 \union {<<NamespaceSlot, n>>}

VARIABLES
    spaces,     \* the keys of _objects: namespaces, created or implied
    objects,    \* resource version of every object, 0 if there is none
    streams,    \* the events of every stream
    stored,     \* event with which the dict that is a custom object was stored
    jobOf,      \* the job-name label of a pod
    writes,     \* objects stored so far
    dropped,    \* history: objects that went without a word
    maker,      \* what a task that creates jobs and pods has yet to do
    client      \* what a client knows and watches

vars == <<spaces, objects, streams, stored, jobOf, writes, dropped, maker, client>>
tasks == <<maker, client>>

Init ==
    /\ spaces = {}
    /\ objects = [k \in Keys |-> 0]
    /\ streams = [s \in Slots |-> <<>>]
    /\ stored = [k \in Keys |-> 0]
    /\ jobOf = [k \in Keys |-> NoJob]
    /\ writes = 0
    /\ dropped = {}
    /\ maker = [m \in Makers |-> [pc |-> "idle"]]
    /\ client = [c \in Clients |-> [pc |-> "idle"]]

-----------------------------------------------------------------------------
\* Storing and deleting

Note(type, k, rv) == [type |-> type, name |-> k[2], rv |-> rv]

next_resource_version(slot) == Len(streams[slot]) + 1

\* The object is given the version of its event, and both are stored.
Write(type, k) ==
    LET rv == next_resource_version(k[1]) IN
    /\ writes < MaxWrites
    /\ writes' = writes + 1
    /\ objects' = [objects EXCEPT ![k] = rv]
    /\ streams' = [streams EXCEPT ![k[1]] = Append(@, Note(type, k, rv))]
    /\ stored' = IF IsCustom(k) THEN [stored EXCEPT ![k] = rv] ELSE stored
    /\ dropped' = dropped \ {k}

\* 409 if the object exists.  Its namespace comes into being with it.
StoreNew(k) ==
    /\ objects[k] = 0
    /\ Write("ADDED", k)
    /\ spaces' = spaces \union ({k[1][1]} \ {Cluster})

\* Mutant: an object that is stored again keeps its version.
ReplaceKeepingVersion(k) ==
    /\ objects[k] # 0
    /\ writes < MaxWrites
    /\ writes' = writes + 1
    /\ streams' = [streams EXCEPT
                     ![k[1]] = Append(@, Note("MODIFIED", k, objects[k]))]
    /\ UNCHANGED <<spaces, objects, stored, dropped, jobOf, tasks>>

\* 404 unless the object exists.
Replace(k) ==
    /\ objects[k] # 0
    /\ Write("MODIFIED", k)
    /\ UNCHANGED <<spaces, jobOf, tasks>>

Create(k) == StoreNew(k) /\ UNCHANGED <<jobOf, tasks>>

\* Mutant: the event is left out.
DeleteSilently(k) ==
    /\ objects[k] # 0
    /\ objects' = [objects EXCEPT ![k] = 0]
    /\ UNCHANGED <<spaces, streams, stored, jobOf, writes, dropped, tasks>>

\* 404 unless the object exists.  The event has the version it had.
Delete(k) ==
    /\ objects[k] # 0
    /\ objects' = [objects EXCEPT ![k] = 0]
    /\ streams' = [streams EXCEPT
                     ![k[1]] = Append(@, Note("DELETED", k, objects[k]))]
    /\ UNCHANGED <<spaces, stored, jobOf, writes, dropped, tasks>>

\* A custom object is replaced by the very dict it is: the events since that
\* dict was stored refer to it, and get its new version.
ReplaceInPlace(k) ==
    LET slot == k[1]
        rv == next_resource_version(slot)
        Updated(i) == i >= stored[k] /\ streams[slot][i].name = k[2]
    IN
    /\ objects[k] # 0
    /\ writes < MaxWrites
    /\ writes' = writes + 1
    /\ objects' = [objects EXCEPT ![k] = rv]
    /\ streams' = [streams EXCEPT ![slot] =
                     Append([i \in DOMAIN @ |-> IF Updated(i)
                                               THEN [@[i] EXCEPT !.rv = rv]
                                               ELSE @[i]],
                            Note("MODIFIED", k, rv))]
    /\ UNCHANGED <<spaces, stored, jobOf, dropped, tasks>>

-----------------------------------------------------------------------------
\* Reading and watching

\* What a client gets to know of the objects of these names.
Found(slot, sel) ==
    [o \in NamesIn(slot) |-> IF o \in sel THEN objects[<<slot, o>>] ELSE 0]

Latest(cache) ==
    CHOOSE v \in {cache[o] : o \in DOMAIN cache} \union {0} :
        \A o \in DOMAIN cache : cache[o] <= v

\* What is in missed was there, but the client was not told.
LearnBut(c, slot, sel, missed) ==
    LET cache == Found(slot, sel \ missed) IN
    /\ client[c].pc = "idle"
    /\ client' = [client EXCEPT ![c] =
                    [pc |-> "known", slot |-> slot, sel |-> sel, pos |-> 0,
                     seen |-> TRUE, cache |-> cache, missed |-> missed,
                     from |-> Latest(cache)]]
    /\ UNCHANGED <<spaces, objects, streams, stored, jobOf, writes, dropped, maker>>

Learn(c, slot, sel) == LearnBut(c, slot, sel, {})

\* 404 unless the object exists.
Read(c, k) == objects[k] # 0 /\ Learn(c, k[1], {k[2]})

\* A list of all objects, or of one by its name.  (Label selectors are left out.)
List(c, slot) ==
    \E sel \in {NamesIn(slot)} \union {{o} : o \in NamesIn(slot)} :
        Learn(c, slot, sel)

\* Mutant: the version is taken for the number of the next event.
WatchAfterNext(c, slot) ==
    /\ client[c].pc = "known"
    /\ client[c].slot = slot
    /\ client' = [client EXCEPT ![c].pc = "watching",
                                ![c].pos = client[c].from + 1]
    /\ UNCHANGED <<spaces, objects, streams, stored, jobOf, writes, dropped, maker>>

\* The response to a watch from a resource version on, of what the client
\* knows, or to one without, which begins where the stream ends when the
\* response is first read from.
Watch(c, slot) ==
    /\ \/ /\ client[c].pc = "known"
          /\ client[c].slot = slot
          /\ client' = [client EXCEPT ![c].pc = "watching",
                                      ![c].pos = client[c].from]
       \/ /\ client[c].pc = "idle"
          /\ client' = [client EXCEPT ![c] = [pc |-> "asked", slot |-> slot]]
    /\ UNCHANGED <<spaces, objects, streams, stored, jobOf, writes, dropped, maker>>

\* The rest needs the namespace to be there.
ListOrWatch(c, n, kind) ==
    n \in spaces /\ (List(c, <<n, kind>>) \/ Watch(c, <<n, kind>>))

\* What such a client knows is what was there then, but it has no version to
\* watch from again until it has seen an event.
first_readline(c) ==
    LET slot == client[c].slot IN
    /\ client[c].pc = "asked"
    /\ client' = [client EXCEPT ![c] =
                    [pc |-> "watching", slot |-> slot, sel |-> NamesIn(slot),
                     pos |-> Len(streams[slot]), from |-> 0, seen |-> FALSE,
                     cache |-> Found(slot, NamesIn(slot)), missed |-> {}]]
    /\ UNCHANGED <<spaces, objects, streams, stored, jobOf, writes, dropped, maker>>

\* The next event, which is passed over or makes the client change what it
\* knows and where it would watch from if it had to begin anew.
next_event(c) ==
    LET cl == client[c]
        event == streams[cl.slot][cl.pos + 1]
        known == IF event.type = "DELETED" THEN 0 ELSE event.rv
    IN
    /\ cl.pc = "watching"
    /\ cl.pos < Len(streams[cl.slot])
    /\ client' =
         IF event.name \in cl.sel
           THEN [client EXCEPT ![c].pos = @ + 1, ![c].from = event.rv,
                               ![c].seen = TRUE, ![c].cache[event.name] = known,
                               ![c].missed = @ \ {event.name}]
           ELSE [client EXCEPT ![c].pos = @ + 1]
    /\ UNCHANGED <<spaces, objects, streams, stored, jobOf, writes, dropped, maker>>

\* The watch times out.
watch_ends(c) ==
    /\ client[c].pc = "watching"
    /\ client' = [client EXCEPT ![c] = IF @.seen THEN [@ EXCEPT !.pc = "known"]
                                                 ELSE [pc |-> "idle"]]
    /\ UNCHANGED <<spaces, objects, streams, stored, jobOf, writes, dropped, maker>>

-----------------------------------------------------------------------------
\* The API, in the order of the source

create_namespaced_custom_object(n, o) == Create(Key(n, "Custom", o))
delete_namespaced_custom_object(n, o) == Delete(Key(n, "Custom", o))
get_namespaced_custom_object(c, n, o) == Read(c, Key(n, "Custom", o))

\* The list looks at the labels of objects, which dicts do not have: it raises
\* AttributeError unless there is none to look at.
list_namespaced_custom_object(c, n) ==
    /\ n \in spaces
    /\ \/ Watch(c, <<n, "Custom">>)
       \/ \E sel \in {Names} \union {{o} : o \in Names} :
             /\ \A o \in sel : objects[Key(n, "Custom", o)] = 0
             /\ Learn(c, <<n, "Custom">>, sel)

\* The object is copied and the copy stored.
patch_namespaced_custom_object_status(n, o) == Replace(Key(n, "Custom", o))

\* The new object may be the one that is stored, changed.
replace_namespaced_custom_object(n, o) ==
    Replace(Key(n, "Custom", o)) \/ ReplaceInPlace(Key(n, "Custom", o))

create_namespaced_config_map(n, o) == Create(Key(n, "ConfigMap", o))
delete_namespaced_config_map(n, o) == Delete(Key(n, "ConfigMap", o))
read_namespaced_config_map(c, n, o) == Read(c, Key(n, "ConfigMap", o))

\* Events do not conflict, and do not make a namespace.  (Of events with the same
\* name, the last is kept here.)
create_namespaced_event(n, o) ==
    /\ Write("ADDED", Key(n, "Event", o))
    /\ UNCHANGED <<spaces, jobOf, tasks>>

\* The selector is ignored, and the namespace need not be there.
list_namespaced_event(c, n) ==
    Learn(c, <<n, "Event">>, Names) \/ Watch(c, <<n, "Event">>)

create_namespaced_ingress(n, o) == Create(Key(n, "Ingress", o))
delete_namespaced_ingress(n, o) == Delete(Key(n, "Ingress", o))
list_namespaced_ingress(c, n) == ListOrWatch(c, n, "Ingress")
patch_namespaced_ingress_status(n, o) == Replace(Key(n, "Ingress", o))
read_namespaced_ingress(c, n, o) == Read(c, Key(n, "Ingress", o))

\* A job is stored; its pod is left to do, after the hook for jobs.
create_namespaced_job(m, n, j) ==
    /\ maker[m].pc = "idle"
    /\ StoreNew(Key(n, "Job", j))
    /\ maker' = [maker EXCEPT ![m] = [pc |-> "pod", ns |-> n, name |-> j]]
    /\ UNCHANGED <<jobOf, client>>

\* The pods that belong to a job, by their label.
PodsOf(n, j) ==
    {o \in Names : objects[Key(n, "Pod", o)] # 0 /\ jobOf[Key(n, "Pod", o)] = j}

\* All orders of a set: each element is at one place.
Orders(S) ==
    {f \in [1..Cardinality(S) -> S] :
        \A o \in S : \E i \in DOMAIN f : \A j \in DOMAIN f : f[j] = o <=> j = i}

\* The job's pods go first, then the job if it is there.  With the policy
\* Orphan no pod goes.  An error that error_callback raises may end this before
\* all is done.
delete_namespaced_job(n, j) ==
    LET job == Key(n, "Job", j)
        pods == PodsOf(n, j)
    IN
    /\ n \in spaces
    /\ \E D \in SUBSET pods, done \in BOOLEAN : \E order \in Orders(D) :
         LET gone == {Key(n, "Pod", o) : o \in D}
                        \union (IF done THEN {job} ELSE {})
             last == IF done THEN <<Note("DELETED", job, objects[job])>> ELSE <<>>
         IN
         /\ done => objects[job] # 0 /\ D \in {pods, {}}
         /\ objects' = [k \in Keys |-> IF k \in gone THEN 0 ELSE objects[k]]
         /\ streams' =
              [streams EXCEPT
                 ![<<n, "Pod">>] = @ \o
                    [i \in DOMAIN order |->
                       LET pod == Key(n, "Pod", order[i])
                       IN  Note("DELETED", pod, objects[pod])],
                 ![<<n, "Job">>] = @ \o last]
    /\ UNCHANGED <<spaces, stored, jobOf, writes, dropped, tasks>>

list_namespaced_job(c, n) == ListOrWatch(c, n, "Job")
read_namespaced_job(c, n, j) == Read(c, Key(n, "Job", j))

\* 409 also if the namespace has come into being by itself.
create_namespace(n) ==
    /\ n \notin spaces
    /\ Write("ADDED", <<NamespaceSlot, n>>)
    /\ spaces' = spaces \union {n}
    /\ UNCHANGED <<jobOf, tasks>>

\* All that is in the namespace goes with it.  There is an event for the
\* namespace only, and if error_callback raises an ApiException when it is
\* read, or if it was never created, not even that.
delete_namespace(n) ==
    LET space == <<NamespaceSlot, n>>
        gone == {k \in In(n) : objects[k] # 0}
    IN
    /\ n \in spaces
    /\ spaces' = spaces \ {n}
    /\ objects' = [k \in Keys |-> IF k \in In(n) THEN 0 ELSE objects[k]]
    /\ \/ /\ objects[space] # 0
          /\ streams' = [streams EXCEPT ![NamespaceSlot] =
                           Append(@, Note("DELETED", space, objects[space]))]
          /\ dropped' = dropped \union (gone \ {space})
       \/ /\ dropped' = dropped \union gone
          /\ UNCHANGED streams
    /\ UNCHANGED <<stored, jobOf, writes, tasks>>

read_namespace(c, n) == Read(c, <<NamespaceSlot, n>>)

\* Without a field selector, each namespace is read by read_namespace, and what
\* it raises leaves that namespace out: a 404 for one that was never created,
\* and any ApiException that error_callback raises for one that was.
list_namespace(c) ==
    \/ List(c, NamespaceSlot) \/ Watch(c, NamespaceSlot)
    \/ \E missed \in SUBSET {n \in Namespaces : objects[<<NamespaceSlot, n>>] # 0} :
          LearnBut(c, NamespaceSlot, Namespaces, missed)

create_namespaced_network_policy(n, o) == Create(Key(n, "NetworkPolicy", o))
read_namespaced_network_policy(c, n, o) == Read(c, Key(n, "NetworkPolicy", o))

create_persistent_volume(o) == Create(<<VolumeSlot, o>>)
delete_persistent_volume(o) == Delete(<<VolumeSlot, o>>)
list_persistent_volume(c) == List(c, VolumeSlot) \/ Watch(c, VolumeSlot)
read_persistent_volume(c, o) == Read(c, <<VolumeSlot, o>>)

create_namespaced_persistent_volume_claim(n, o) ==
    Create(Key(n, "PersistentVolumeClaim", o))
delete_namespaced_persistent_volume_claim(n, o) ==
    Delete(Key(n, "PersistentVolumeClaim", o))
list_namespaced_persistent_volume_claim(c, n) ==
    ListOrWatch(c, n, "PersistentVolumeClaim")
read_namespaced_persistent_volume_claim(c, n, o) ==
    Read(c, Key(n, "PersistentVolumeClaim", o))

\* A pod is stored, and its start event left to do, after the hook for pods.
create_namespaced_pod(m, n, o, job) ==
    /\ StoreNew(Key(n, "Pod", o))
    /\ jobOf' = [jobOf EXCEPT ![Key(n, "Pod", o)] = job]
    /\ maker' = [maker EXCEPT ![m] = [pc |-> "event", ns |-> n, name |-> o]]
    /\ UNCHANGED client

\* A user's pod, or that of the job under way, under a name of its template's or
\* a random one.
PodFor(m, n, o) ==
    \/ /\ maker[m].pc = "idle"
       /\ create_namespaced_pod(m, n, o, NoJob)
    \/ /\ maker[m].pc = "pod"
       /\ n = maker[m].ns
       /\ create_namespaced_pod(m, n, o, maker[m].name)

\* initial_pod_phase is "Running": the pod's start is an event.
start_event(m) ==
    /\ maker[m].pc = "event"
    /\ Write("ADDED", Key(maker[m].ns, "Event", maker[m].name))
    /\ maker' = [maker EXCEPT ![m] = [pc |-> "idle"]]
    /\ UNCHANGED <<spaces, jobOf, client>>

\* It is not; or error_callback raises; or there already is a pod of that name;
\* or the job's template has no labels, to which job-name cannot be added.
maker_stops(m) ==
    /\ maker[m].pc # "idle"
    /\ maker' = [maker EXCEPT ![m] = [pc |-> "idle"]]
    /\ UNCHANGED <<spaces, objects, streams, stored, jobOf, writes, dropped, client>>

delete_namespaced_pod(n, o) == Delete(Key(n, "Pod", o))
list_namespaced_pod(c, n) == ListOrWatch(c, n, "Pod")
patch_namespaced_pod_status(n, o) == Replace(Key(n, "Pod", o))
read_namespaced_pod(c, n, o) == Read(c, Key(n, "Pod", o))
read_namespaced_pod_status(c, n, o) == Read(c, Key(n, "Pod", o))

create_namespaced_resource_quota(n, o) == Create(Key(n, "ResourceQuota", o))
read_namespaced_resource_quota(c, n, o) == Read(c, Key(n, "ResourceQuota", o))

create_namespaced_secret(n, o) == Create(Key(n, "Secret", o))
patch_namespaced_secret(n, o) == Replace(Key(n, "Secret", o))
read_namespaced_secret(c, n, o) == Read(c, Key(n, "Secret", o))
replace_namespaced_secret(n, o) == Replace(Key(n, "Secret", o))

create_namespaced_service(n, o) == Create(Key(n, "Service", o))
delete_namespaced_service(n, o) == Delete(Key(n, "Service", o))
list_namespaced_service(c, n) == ListOrWatch(c, n, "Service")
read_namespaced_service(c, n, o) == Read(c, Key(n, "Service", o))

create_namespaced_service_account(n, o) == Create(Key(n, "ServiceAccount", o))
delete_namespaced_service_account(n, o) == Delete(Key(n, "ServiceAccount", o))
list_namespaced_service_account(c, n) == ListOrWatch(c, n, "ServiceAccount")
read_namespaced_service_account(c, n, o) == Read(c, Key(n, "ServiceAccount", o))

-----------------------------------------------------------------------------
Write_(n, o) ==
    \/ create_namespaced_custom_object(n, o) \/ delete_namespaced_custom_object(n, o)
    \/ patch_namespaced_custom_object_status(n, o)
    \/ replace_namespaced_custom_object(n, o)
    \/ create_namespaced_config_map(n, o) \/ delete_namespaced_config_map(n, o)
    \/ create_namespaced_event(n, o)
    \/ create_namespaced_ingress(n, o) \/ delete_namespaced_ingress(n, o)
    \/ patch_namespaced_ingress_status(n, o)
    \/ delete_namespaced_job(n, o)
    \/ create_namespaced_network_policy(n, o)
    \/ create_namespaced_persistent_volume_claim(n, o)
    \/ delete_namespaced_persistent_volume_claim(n, o)
    \/ delete_namespaced_pod(n, o) \/ patch_namespaced_pod_status(n, o)
    \/ create_namespaced_resource_quota(n, o)
    \/ create_namespaced_secret(n, o) \/ patch_namespaced_secret(n, o)
    \/ replace_namespaced_secret(n, o)
    \/ create_namespaced_service(n, o) \/ delete_namespaced_service(n, o)
    \/ create_namespaced_service_account(n, o)
    \/ delete_namespaced_service_account(n, o)
    \/ \E m \in Makers : create_namespaced_job(m, n, o) \/ PodFor(m, n, o)

Read_(c, n, o) ==
    \/ get_namespaced_custom_object(c, n, o) \/ read_namespaced_config_map(c, n, o)
    \/ read_namespaced_ingress(c, n, o) \/ read_namespaced_job(c, n, o)
    \/ read_namespaced_network_policy(c, n, o)
    \/ read_namespaced_persistent_volume_claim(c, n, o)
    \/ read_namespaced_pod(c, n, o) \/ read_namespaced_pod_status(c, n, o)
    \/ read_namespaced_resource_quota(c, n, o) \/ read_namespaced_secret(c, n, o)
    \/ read_namespaced_service(c, n, o) \/ read_namespaced_service_account(c, n, o)

List_(c, n) ==
    \/ list_namespaced_custom_object(c, n) \/ list_namespaced_event(c, n)
    \/ list_namespaced_ingress(c, n) \/ list_namespaced_job(c, n)
    \/ list_namespaced_persistent_volume_claim(c, n) \/ list_namespaced_pod(c, n)
    \/ list_namespaced_service(c, n) \/ list_namespaced_service_account(c, n)

Next ==
    \/ \E n \in Namespaces :
         \/ create_namespace(n) \/ delete_namespace(n)
         \/ \E o \in Names : Write_(n, o)
         \/ \E c \in Clients :
              List_(c, n) \/ read_namespace(c, n) \/ \E o \in Names : Read_(c, n, o)
    \/ \E o \in Names : create_persistent_volume(o) \/ delete_persistent_volume(o)
    \/ \E m \in Makers : start_event(m) \/ maker_stops(m)
    \/ \E c \in Clients :
         \/ list_namespace(c) \/ list_persistent_volume(c)
         \/ \E o \in Names : read_persistent_volume(c, o)
         \/ first_readline(c) \/ next_event(c) \/ watch_ends(c)

Spec == Init /\ [][Next]_vars

-----------------------------------------------------------------------------
\* Properties

TypeOK ==
    /\ spaces \subseteq Namespaces
    /\ objects \in [Keys -> Nat]
    /\ \A s \in Slots : streams[s] \in
          Seq([type : {"ADDED", "MODIFIED", "DELETED"}, name : NamesIn(s), rv : Nat])
    /\ stored \in [Keys -> Nat]
    /\ jobOf \in [Keys -> Names \union {NoJob}]
    /\ writes \in 0..MaxWrites
    /\ dropped \subseteq Keys
    /\ \A m \in Makers : maker[m].pc \in {"idle", "pod", "event"}
    /\ \A c \in Clients : client[c].pc \in {"idle", "known", "asked", "watching"}

\* The events about an object.
About(k) == {i \in DOMAIN streams[k[1]] : streams[k[1]][i].name = k[2]}

\* The streams tell the story of the objects: whatever the order of creates,
\* replacements and deletes, also of jobs with their pods, of events and of
\* namespaces, the last event about an object that is there is the one with its
\* version, and the last about one that is not there says that it was deleted,
\* unless it went without an event along with its namespace.
StreamsTellAll ==
    \A k \in Keys :
        LET last == CHOOSE i \in About(k) : \A j \in About(k) : j <= i IN
        IF objects[k] # 0
          THEN /\ objects[k] \in About(k)
               /\ \A i \in About(k) : i <= objects[k]
               /\ streams[k[1]][objects[k]].type # "DELETED"
          ELSE About(k) # {} /\ k \notin dropped
                 => streams[k[1]][last].type = "DELETED"

\* What a client was told of, by what it read or listed or by an event.
Told(cl) == cl.sel \ cl.missed

\* A client that has read or listed and then watches, also again from the version
\* of the last event that it has seen, knows what is there once it has seen all
\* events: all but the objects that went with their namespace, and the
\* namespaces that an error left out of its list and of which there has been no
\* event on its watch since.
Converged(c) ==
    LET cl == client[c] IN
    cl.pc = "watching" /\ cl.pos = Len(streams[cl.slot]) =>
        \A o \in Told(cl) :
            <<cl.slot, o>> \in dropped \/ cl.cache[o] = objects[<<cl.slot, o>>]

ClientsConverge ==
    \A c \in Clients :
        client[c].pc = "watching" /\ client[c].slot[2] # "Custom" => Converged(c)

\* "The semantics of a watch are to show any events after the provided resource
\* version": the same of clients that watch custom objects.
CustomClientsConverge ==
    \A c \in Clients :
        client[c].pc = "watching" /\ client[c].slot[2] = "Custom" => Converged(c)
=============================================================================
