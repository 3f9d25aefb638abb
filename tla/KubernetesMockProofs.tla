------------------------ MODULE KubernetesMockProofs ------------------------
(***************************************************************************)
(* What the streams of the Kubernetes mock tell, and that clients which    *)
(* watch end up knowing it, for any namespaces, names, tasks and clients.  *)
(*                                                                         *)
(* An object changes with an event at the end of its stream, or goes       *)
(* without one and is dropped.  So a client that has not converged has an  *)
(* event about the object still to come (Fresh), also when it goes back to *)
(* an earlier version, as it does after the event of a deletion.           *)
(* The last section proves the type invariant.                             *)
(***************************************************************************)
EXTENDS KubernetesMock, FiniteSetTheorems, SequenceTheorems,
        WellFoundedInduction, TLAPS

Types == {"ADDED", "MODIFIED", "DELETED"}
Notes == [type : Types, name : Names \union Namespaces, rv : Nat]

StreamsInv ==
    /\ objects \in [Keys -> Nat]
    /\ streams \in [Slots -> Seq(Notes)]

\* The last event about an object.
Last(k, i) == i \in About(k) /\ \A j \in About(k) : j <= i

Tells(k) ==
    IF objects[k] # 0
      THEN Last(k, objects[k]) /\ streams[k[1]][objects[k]].type # "DELETED"
      ELSE About(k) # {} /\ k \notin dropped =>
             \E i \in About(k) : Last(k, i) /\ streams[k[1]][i].type = "DELETED"

\* Events have the version that the object had then, which is their number unless
\* they tell of its deletion.
VersionsInv ==
    \A s \in Slots : s[2] # "Custom" =>
        \A i \in 1..Len(streams[s]) :
            /\ streams[s][i].rv <= i
            /\ streams[s][i].type # "DELETED" => streams[s][i].rv = i

\* A client has not seen the last event about an object, or knows the object.
Fresh(k, pos, known) ==
    \/ k \in dropped
    \/ \E i \in About(k) : i > pos
    \/ known = objects[k]

Fields == {"pc", "slot", "sel", "pos", "seen", "cache", "from", "missed"}
IsClient(cl) == DOMAIN cl = Fields /\ cl = [f \in Fields |-> cl[f]]

\* Where a client is, or will begin when it watches again.
At(cl) == IF cl.pc = "watching" THEN cl.pos ELSE cl.from

ClientInv(cl) ==
    /\ cl.pc \in {"idle", "known", "asked", "watching"}
    /\ cl.pc = "asked" => cl.slot \in Slots
    /\ cl.pc \in {"known", "watching"} =>
         /\ IsClient(cl)
         /\ cl.slot \in Slots
         /\ cl.sel \subseteq NamesIn(cl.slot)
         /\ cl.cache \in [NamesIn(cl.slot) -> Nat]
         /\ cl.pos \in Nat /\ cl.from \in Nat
         /\ cl.slot[2] # "Custom" =>
              /\ cl.from \in 0..Len(streams[cl.slot])
              /\ At(cl) \in cl.from..Len(streams[cl.slot])
              /\ \A o \in Told(cl) : Fresh(<<cl.slot, o>>, At(cl), cl.cache[o])

ClientsInv ==
    /\ client = [c \in Clients |-> client[c]]
    /\ \A c \in Clients : ClientInv(client[c])

\* What the tasks that create jobs and pods have yet to do.
IsMaker(mk) ==
    /\ mk.pc \in {"idle", "pod", "event"}
    /\ mk.pc # "idle" => mk.ns \in Namespaces /\ mk.name \in Names

MakersInv ==
    /\ maker = [m \in Makers |-> maker[m]]
    /\ \A m \in Makers : IsMaker(maker[m])

KubernetesInv ==
    /\ StreamsInv
    /\ \A k \in Keys : Tells(k)
    /\ VersionsInv
    /\ ClientsInv

-----------------------------------------------------------------------------
\* Keys and slots

LEMMA KeysAndSlots ==
    /\ \A k \in Keys : /\ k = <<k[1], k[2]>> /\ k[1] \in Slots /\ k[2] \in NamesIn(k[1])
                       /\ k[2] \in Names \union Namespaces
    /\ \A s \in Slots : \A o : o \in NamesIn(s) => <<s, o>> \in Keys
    /\ \A n \in Namespaces, kind \in NamespacedKinds, o \in Names : Key(n, kind, o) \in Keys
    /\ \A n \in Namespaces : <<NamespaceSlot, n>> \in Keys
    /\ \A o \in Names : <<VolumeSlot, o>> \in Keys
<1>1. \A k \in Keys : /\ k = <<k[1], k[2]>> /\ k[1] \in Slots /\ k[2] \in NamesIn(k[1])
                      /\ k[2] \in Names \union Namespaces
  BY DEF Keys
<1>2. \A s \in Slots : \A o : o \in NamesIn(s) => <<s, o>> \in Keys
  BY DEF Keys, NamesIn
<1>3. ASSUME NEW n \in Namespaces, NEW kind \in NamespacedKinds, NEW o \in Names
      PROVE  Key(n, kind, o) \in Keys
  <2>1. <<n, kind>> \in Slots
    BY DEF Slots
  <2>2. kind # "Namespace"
    BY DEF NamespacedKinds
  <2>3. NamesIn(<<n, kind>>) = Names
    BY <2>2 DEF NamesIn, NamespaceSlot
  <2> QED
    BY <2>1, <2>3, <1>2 DEF Key
<1>4. NamespaceSlot \in Slots /\ NamesIn(NamespaceSlot) = Namespaces
  BY DEF Slots, NamesIn
<1>5. VolumeSlot \in Slots /\ NamesIn(VolumeSlot) = Names
  BY DEF Slots, NamesIn, VolumeSlot, NamespaceSlot
<1> QED
  BY <1>1, <1>2, <1>3, <1>4, <1>5

LEMMA InitInv == Init => KubernetesInv
<1> SUFFICES ASSUME Init
             PROVE  KubernetesInv
  OBVIOUS
<1>1. StreamsInv
  BY EmptySeq DEF Init, StreamsInv
<1>2. \A s \in Slots : streams[s] = <<>> /\ Len(streams[s]) = 0 /\ DOMAIN streams[s] = {}
  BY DEF Init
<1>3. \A k \in Keys : Tells(k)
  BY <1>2, KeysAndSlots DEF Init, Tells, About
<1>4. VersionsInv
  BY <1>2 DEF VersionsInv
<1>5. ClientsInv
  BY DEF Init, ClientsInv, ClientInv
<1> QED
  BY <1>1, <1>3, <1>4, <1>5 DEF KubernetesInv

-----------------------------------------------------------------------------
\* Streams that grow

\* From one state to the next a stream goes on: the events that were on it stay,
\* but for the versions of those about custom objects.
GoesOn(s) ==
    /\ Len(streams[s]) <= Len(streams'[s])
    /\ \A i \in 1..Len(streams[s]) :
         /\ streams'[s][i].name = streams[s][i].name
         /\ streams'[s][i].type = streams[s][i].type
         /\ s[2] # "Custom" => streams'[s][i].rv = streams[s][i].rv

\* The new events about an object.
NewAbout(k) == {i \in About(k)' : i > Len(streams[k[1]])}

LEMMA AboutGrows ==
    ASSUME StreamsInv, StreamsInv', NEW k \in Keys, GoesOn(k[1])
    PROVE  /\ About(k) \subseteq 1..Len(streams[k[1]])
           /\ About(k)' = About(k) \union NewAbout(k)
           /\ NewAbout(k) \subseteq Len(streams[k[1]])+1 .. Len(streams'[k[1]])
<1>1. /\ k[1] \in Slots
      /\ streams[k[1]] \in Seq(Notes) /\ streams'[k[1]] \in Seq(Notes)
  BY KeysAndSlots DEF StreamsInv
<1>2. /\ Len(streams[k[1]]) \in Nat /\ DOMAIN streams[k[1]] = 1..Len(streams[k[1]])
      /\ Len(streams'[k[1]]) \in Nat /\ DOMAIN streams'[k[1]] = 1..Len(streams'[k[1]])
  BY <1>1, LenProperties
<1>3. \A i : i \in About(k) <=> i \in 1..Len(streams[k[1]]) /\ streams[k[1]][i].name = k[2]
  BY <1>2 DEF About
<1>4. \A i : i \in About(k)' <=> i \in 1..Len(streams'[k[1]]) /\ streams'[k[1]][i].name = k[2]
  BY <1>2 DEF About
<1>5. \A i : i \in NewAbout(k) <=> i \in About(k)' /\ i > Len(streams[k[1]])
  BY DEF NewAbout
<1> QED
  BY <1>2, <1>3, <1>4, <1>5 DEF GoesOn

\* What one step may do to one object.
Untouched(k) ==
    /\ objects'[k] = objects[k]
    /\ NewAbout(k) = {}
    /\ k \notin dropped' => k \notin dropped

Written(k) ==
    /\ objects'[k] \in NewAbout(k) /\ \A j \in NewAbout(k) : j <= objects'[k]
    /\ streams'[k[1]][objects'[k]].type # "DELETED"

Deleted(k) ==
    /\ objects'[k] = 0
    /\ \E i \in NewAbout(k) : /\ \A j \in NewAbout(k) : j <= i
                              /\ streams'[k[1]][i].type = "DELETED"

Dropped(k) == objects'[k] = 0 /\ k \in dropped'

LEMMA TellsKept ==
    ASSUME StreamsInv, StreamsInv', NEW k \in Keys, GoesOn(k[1]), Tells(k),
           Untouched(k) \/ Written(k) \/ Deleted(k) \/ Dropped(k)
    PROVE  Tells(k)'
<1> DEFINE s == k[1]
<1>1. /\ About(k) \subseteq 1..Len(streams[s])
      /\ About(k)' = About(k) \union NewAbout(k)
      /\ NewAbout(k) \subseteq Len(streams[s])+1 .. Len(streams'[s])
      /\ Len(streams[s]) \in Nat /\ Len(streams'[s]) \in Nat
  BY AboutGrows, KeysAndSlots, LenProperties DEF StreamsInv
<1>2. objects[k] \in Nat /\ objects'[k] \in Nat
  BY DEF StreamsInv
<1>3. CASE Untouched(k)
  <2>1. About(k)' = About(k) /\ objects'[k] = objects[k]
    BY <1>1, <1>3 DEF Untouched
  <2>2. \A i \in About(k) : streams'[s][i].type = streams[s][i].type
    BY <1>1 DEF GoesOn
  <2> QED
    BY <1>3, <2>1, <2>2 DEF Tells, Last, Untouched
<1>4. CASE Written(k)
  <2>1. objects'[k] # 0 /\ Last(k, objects[k])'
    BY <1>1, <1>2, <1>4 DEF Written, Last
  <2> QED
    BY <1>4, <2>1 DEF Tells, Written
<1>5. CASE Deleted(k)
  <2>1. PICK i \in NewAbout(k) : /\ \A j \in NewAbout(k) : j <= i
                                 /\ streams'[s][i].type = "DELETED"
    BY <1>5 DEF Deleted
  <2>2. i \in About(k)' /\ \A j \in About(k)' : j <= i
    BY <1>1, <2>1
  <2> QED
    BY <1>5, <2>1, <2>2 DEF Tells, Last, Deleted
<1>6. CASE Dropped(k)
  BY <1>6 DEF Tells, Dropped
<1> QED
  BY <1>3, <1>4, <1>5, <1>6

LEMMA FreshKept ==
    ASSUME StreamsInv, StreamsInv', NEW k \in Keys, GoesOn(k[1]), Tells(k),
           Untouched(k) \/ Written(k) \/ Deleted(k) \/ Dropped(k),
           NEW pos \in 0..Len(streams[k[1]]), NEW known, Fresh(k, pos, known)
    PROVE  Fresh(k, pos, known)'
<1>1. /\ About(k)' = About(k) \union NewAbout(k)
      /\ NewAbout(k) \subseteq Len(streams[k[1]])+1 .. Len(streams'[k[1]])
      /\ Len(streams[k[1]]) \in Nat
  BY AboutGrows, KeysAndSlots, LenProperties DEF StreamsInv
<1>2. CASE NewAbout(k) # {}
  <2>1. PICK i \in NewAbout(k) : TRUE
    BY <1>2
  <2> QED
    BY <1>1, <2>1 DEF Fresh
<1>3. CASE k \in dropped'
  BY <1>3 DEF Fresh
<1>4. CASE Untouched(k) /\ NewAbout(k) = {} /\ k \notin dropped'
  BY <1>1, <1>4 DEF Untouched, Fresh
<1> QED
  BY <1>2, <1>3, <1>4 DEF Untouched, Written, Deleted, Dropped

\* What the new events of a stream say.
NewVersions(s) ==
    s[2] # "Custom" =>
        \A i \in Len(streams[s])+1 .. Len(streams'[s]) :
            /\ streams'[s][i].rv <= i
            /\ streams'[s][i].type # "DELETED" => streams'[s][i].rv = i

\* A step of the mock, which no client notices.
LEMMA WorldKeeps ==
    ASSUME KubernetesInv, StreamsInv', UNCHANGED client,
           \A s \in Slots : GoesOn(s) /\ NewVersions(s),
           \A k \in Keys : Untouched(k) \/ Written(k) \/ Deleted(k) \/ Dropped(k)
    PROVE  KubernetesInv'
<1>1. StreamsInv /\ (\A k \in Keys : Tells(k)) /\ VersionsInv /\ ClientsInv
  BY DEF KubernetesInv
<1>2. \A s \in Slots : /\ streams[s] \in Seq(Notes) /\ streams'[s] \in Seq(Notes)
                       /\ Len(streams[s]) \in Nat /\ Len(streams'[s]) \in Nat
                       /\ Len(streams[s]) <= Len(streams'[s])
  BY <1>1, LenProperties DEF StreamsInv, GoesOn
<1>3. \A k \in Keys : Tells(k)'
  BY <1>1, TellsKept, KeysAndSlots
<1>4. VersionsInv'
  <2> SUFFICES ASSUME NEW s \in Slots, s[2] # "Custom", NEW i \in 1..Len(streams'[s])
               PROVE  /\ streams'[s][i].rv <= i
                      /\ streams'[s][i].type # "DELETED" => streams'[s][i].rv = i
    BY DEF VersionsInv
  <2>1. CASE i \in 1..Len(streams[s])
    BY <1>1, <2>1 DEF VersionsInv, GoesOn
  <2>2. CASE i \in Len(streams[s])+1 .. Len(streams'[s])
    BY <2>2 DEF NewVersions
  <2> QED
    BY <1>2, <2>1, <2>2
<1>5. ASSUME NEW cl, ClientInv(cl)
      PROVE  ClientInv(cl)'
  <2>1. CASE cl.pc \in {"known", "watching"} /\ cl.slot[2] # "Custom"
    <3>1. /\ cl.slot \in Slots
          /\ cl.sel \subseteq NamesIn(cl.slot)
          /\ cl.from \in 0..Len(streams[cl.slot])
          /\ At(cl) \in cl.from..Len(streams[cl.slot])
          /\ \A o \in Told(cl) : Fresh(<<cl.slot, o>>, At(cl), cl.cache[o])
      BY <1>5, <2>1 DEF ClientInv
    <3>2. ASSUME NEW o \in Told(cl)
          PROVE  Fresh(<<cl.slot, o>>, At(cl), cl.cache[o])'
      <4>1. <<cl.slot, o>> \in Keys /\ At(cl) \in 0..Len(streams[cl.slot])
        BY <1>2, <3>1, KeysAndSlots DEF Told
      <4>2. <<cl.slot, o>>[1] = cl.slot
        OBVIOUS
      <4>3. Fresh(<<cl.slot, o>>, At(cl), cl.cache[o])
        BY <3>1
      <4> QED
        BY <1>1, <3>1, <4>1, <4>2, <4>3, FreshKept
    <3>3. /\ cl.from \in 0..Len(streams'[cl.slot])
          /\ At(cl) \in cl.from..Len(streams'[cl.slot])
      BY <1>2, <3>1
    <3> QED
      BY <1>5, <2>1, <3>2, <3>3 DEF ClientInv
  <2>2. CASE ~(cl.pc \in {"known", "watching"} /\ cl.slot[2] # "Custom")
    BY <1>5, <2>2 DEF ClientInv
  <2> QED
    BY <2>1, <2>2
<1>6. ClientsInv'
  <2> SUFFICES ASSUME NEW c \in Clients
               PROVE  ClientInv(client[c])'
    BY <1>1 DEF ClientsInv
  <2>1. ClientInv(client[c])
    BY <1>1 DEF ClientsInv
  <2> QED
    BY <2>1, <1>5
<1> QED
  BY <1>3, <1>4, <1>6 DEF KubernetesInv

-----------------------------------------------------------------------------
\* The changes that the API is made of

\* Events are added at the ends of the streams.
LEMMA StreamsGrow ==
    ASSUME StreamsInv, NEW add \in [Slots -> Seq(Notes)],
           streams' = [s \in Slots |-> streams[s] \o add[s]],
           objects' \in [Keys -> Nat]
    PROVE  /\ StreamsInv'
           /\ \A s \in Slots :
                /\ GoesOn(s)
                /\ Len(streams[s]) \in Nat /\ Len(add[s]) \in Nat
                /\ DOMAIN add[s] = 1..Len(add[s])
                /\ Len(streams'[s]) = Len(streams[s]) + Len(add[s])
                /\ \A i \in 1..Len(add[s]) : streams'[s][Len(streams[s]) + i] = add[s][i]
           /\ \A k \in Keys : \A j :
                j \in NewAbout(k) <=> \E i \in 1..Len(add[k[1]]) :
                   j = Len(streams[k[1]]) + i /\ add[k[1]][i].name = k[2]
<1>1. ASSUME NEW s \in Slots
      PROVE  /\ streams[s] \in Seq(Notes) /\ add[s] \in Seq(Notes)
             /\ streams'[s] = streams[s] \o add[s]
             /\ streams'[s] \in Seq(Notes)
             /\ Len(streams[s]) \in Nat /\ Len(add[s]) \in Nat /\ Len(streams'[s]) \in Nat
             /\ DOMAIN add[s] = 1..Len(add[s]) /\ DOMAIN streams'[s] = 1..Len(streams'[s])
             /\ Len(streams'[s]) = Len(streams[s]) + Len(add[s])
             /\ \A i \in 1..Len(streams[s]) : streams'[s][i] = streams[s][i]
             /\ \A i \in 1..Len(add[s]) : streams'[s][Len(streams[s]) + i] = add[s][i]
  <2>1. streams[s] \in Seq(Notes) /\ add[s] \in Seq(Notes) /\ streams'[s] = streams[s] \o add[s]
    BY DEF StreamsInv
  <2>2. /\ streams'[s] \in Seq(Notes)
        /\ Len(streams'[s]) = Len(streams[s]) + Len(add[s])
        /\ \A i \in 1 .. Len(streams[s]) + Len(add[s]) :
             streams'[s][i] = IF i <= Len(streams[s]) THEN streams[s][i]
                                                      ELSE add[s][i - Len(streams[s])]
    BY <2>1, ConcatProperties
  <2>3. /\ Len(streams[s]) \in Nat /\ Len(add[s]) \in Nat /\ Len(streams'[s]) \in Nat
        /\ DOMAIN add[s] = 1..Len(add[s]) /\ DOMAIN streams'[s] = 1..Len(streams'[s])
    BY <2>1, <2>2, LenProperties
  <2> QED
    BY <2>1, <2>2, <2>3
<1>2. StreamsInv'
  BY <1>1 DEF StreamsInv
<1>3. \A s \in Slots : GoesOn(s)
  BY <1>1 DEF GoesOn
<1>4. ASSUME NEW k \in Keys, NEW j
      PROVE  j \in NewAbout(k) <=> \E i \in 1..Len(add[k[1]]) :
                j = Len(streams[k[1]]) + i /\ add[k[1]][i].name = k[2]
  <2> DEFINE L == Len(streams[k[1]])
             A == Len(add[k[1]])
             new == streams'[k[1]]
             added == add[k[1]]
  <2>1. /\ L \in Nat /\ A \in Nat /\ Len(new) = L + A /\ DOMAIN new = 1..Len(new)
        /\ \A i \in 1..A : new[L + i] = added[i]
    BY <1>1, KeysAndSlots
  <2>2. j \in NewAbout(k) <=> j \in DOMAIN new /\ new[j].name = k[2] /\ j > L
    BY DEF NewAbout, About
  <2> HIDE DEF L, A, new, added
  <2>3. j \in NewAbout(k) <=> j \in 1..(L + A) /\ new[j].name = k[2] /\ j > L
    BY <2>1, <2>2
  <2>4. ASSUME NEW i \in 1..A, j = L + i, added[i].name = k[2]
        PROVE  j \in NewAbout(k)
    <3>1. j \in 1..(L + A) /\ j > L
      BY <2>1, <2>4
    <3>2. new[j] = added[i]
      BY <2>1, <2>4
    <3> QED
      BY <2>3, <2>4, <3>1, <3>2
  <2>5. ASSUME j \in NewAbout(k)
        PROVE  \E i \in 1..A : j = L + i /\ added[i].name = k[2]
    <3>1. j - L \in 1..A /\ j = L + (j - L)
      BY <2>1, <2>3, <2>5
    <3>2. new[j] = added[j - L]
      BY <2>1, <3>1
    <3> QED
      BY <2>3, <2>5, <3>1, <3>2
  <2>6. j \in NewAbout(k) <=> \E i \in 1..A : j = L + i /\ added[i].name = k[2]
    BY <2>4, <2>5
  <2> QED
    BY <2>6 DEF L, A, added
<1> QED
  BY <1>1, <1>2, <1>3, <1>4

\* One event, at the end of one stream.
OneNote(s, note) == [t \in Slots |-> IF t = s THEN <<note>> ELSE <<>>]

LEMMA OneNoteGrows ==
    ASSUME StreamsInv, NEW s \in Slots, NEW note \in Notes,
           streams' = [streams EXCEPT ![s] = Append(streams[s], note)],
           objects' \in [Keys -> Nat],
           s[2] # "Custom" => /\ note.rv <= Len(streams[s]) + 1
                              /\ note.type # "DELETED" => note.rv = Len(streams[s]) + 1
    PROVE  /\ StreamsInv'
           /\ \A t \in Slots : GoesOn(t) /\ NewVersions(t)
           /\ \A k \in Keys : NewAbout(k) =
                IF k[1] = s /\ k[2] = note.name THEN {Len(streams[s]) + 1} ELSE {}
           /\ streams'[s][Len(streams[s]) + 1] = note
<1> DEFINE add == OneNote(s, note)
<1>1. add \in [Slots -> Seq(Notes)]
  BY EmptySeq DEF OneNote
<1>2. \A t \in Slots : /\ streams[t] \in Seq(Notes) /\ Len(streams[t]) \in Nat
                       /\ streams[t] \o <<>> = streams[t]
                       /\ streams[t] \o <<note>> = Append(streams[t], note)
  BY LenProperties, ConcatEmptySeq, AppendIsConcat DEF StreamsInv
<1>3. streams' = [t \in Slots |-> streams[t] \o add[t]]
  BY <1>2 DEF OneNote, StreamsInv
<1>4. /\ \A t \in Slots : t # s => Len(add[t]) = 0
      /\ Len(add[s]) = 1 /\ add[s][1] = note
  BY DEF OneNote
<1> HIDE DEF add
<1>5. /\ StreamsInv'
      /\ \A t \in Slots :
           /\ GoesOn(t)
           /\ Len(streams'[t]) = Len(streams[t]) + Len(add[t])
           /\ \A i \in 1..Len(add[t]) : streams'[t][Len(streams[t]) + i] = add[t][i]
      /\ \A k \in Keys : \A j :
           j \in NewAbout(k) <=> \E i \in 1..Len(add[k[1]]) :
              j = Len(streams[k[1]]) + i /\ add[k[1]][i].name = k[2]
  BY <1>1, <1>3, StreamsGrow
<1>6. streams'[s][Len(streams[s]) + 1] = note
  <2>1. 1 \in 1..Len(add[s])
    BY <1>4
  <2> QED
    BY <1>4, <1>5, <2>1
<1>7. NewVersions(s)
  <2>1. Len(streams'[s]) = Len(streams[s]) + 1
    BY <1>4, <1>5
  <2>2. \A i \in Len(streams[s])+1 .. Len(streams'[s]) : i = Len(streams[s]) + 1
    BY <1>2, <2>1
  <2> QED
    BY <1>2, <1>6, <2>2 DEF NewVersions
<1>8. \A t \in Slots : t # s => NewVersions(t)
  BY <1>2, <1>4, <1>5 DEF NewVersions
<1>9. ASSUME NEW k \in Keys
      PROVE  NewAbout(k) = IF k[1] = s /\ k[2] = note.name THEN {Len(streams[s]) + 1} ELSE {}
  <2>1. k[1] \in Slots
    BY KeysAndSlots
  <2>2. CASE k[1] = s
    <3>1. \A j : j \in NewAbout(k) <=> \E i \in 1..1 : j = Len(streams[s]) + i /\ add[s][i].name = k[2]
      BY SMTT(30), <1>4, <1>5, <2>2
    <3>2. \A i \in 1..1 : i = 1
      OBVIOUS
    <3>3. \A j : j \in NewAbout(k) <=> j = Len(streams[s]) + 1 /\ note.name = k[2]
      BY <1>4, <3>1, <3>2
    <3> QED
      BY <2>2, <3>3
  <2>3. CASE k[1] # s
    <3>1. 1..Len(add[k[1]]) = {}
      BY <1>4, <2>1, <2>3
    <3> QED
      BY <1>5, <2>3, <3>1
  <2> QED
    BY <2>2, <2>3
<1> QED
  BY <1>5, <1>6, <1>7, <1>8, <1>9

LEMMA WriteKeeps ==
    ASSUME KubernetesInv, NEW k \in Keys, NEW type \in {"ADDED", "MODIFIED"}, Write(type, k),
           UNCHANGED client
    PROVE  KubernetesInv'
<1> DEFINE s == k[1]
           rv == Len(streams[s]) + 1
           note == [type |-> type, name |-> k[2], rv |-> rv]
<1>1. s \in Slots /\ Len(streams[s]) \in Nat /\ StreamsInv /\ k[2] \in Names \union Namespaces
  BY KeysAndSlots, LenProperties DEF KubernetesInv, StreamsInv
<1>2. rv \in Nat /\ note \in Notes
  BY <1>1 DEF Notes, Types
<1>3. /\ objects' = [objects EXCEPT ![k] = rv]
      /\ streams' = [streams EXCEPT ![s] = Append(streams[s], note)]
      /\ dropped' = dropped \ {k}
  BY DEF Write, next_resource_version, Note
<1>4. objects' \in [Keys -> Nat] /\ objects'[k] = rv
      /\ \A l \in Keys : l # k => objects'[l] = objects[l]
  BY <1>1, <1>2, <1>3 DEF StreamsInv
<1>5. note.rv = rv /\ note.type = type /\ note.name = k[2]
  OBVIOUS
<1> HIDE DEF note
<1>6. /\ StreamsInv'
      /\ \A t \in Slots : GoesOn(t) /\ NewVersions(t)
      /\ \A l \in Keys : NewAbout(l) =
           IF l[1] = s /\ l[2] = k[2] THEN {rv} ELSE {}
      /\ streams'[s][rv] = note
  <2>1. s[2] # "Custom" => note.rv <= rv /\ (note.type # "DELETED" => note.rv = rv)
    BY <1>2, <1>5
  <2>2. /\ StreamsInv'
        /\ \A t \in Slots : GoesOn(t) /\ NewVersions(t)
        /\ \A l \in Keys : NewAbout(l) =
             IF l[1] = s /\ l[2] = note.name THEN {Len(streams[s]) + 1} ELSE {}
        /\ streams'[s][Len(streams[s]) + 1] = note
    BY <1>1, <1>2, <1>3, <1>4, <2>1, OneNoteGrows
  <2> QED
    BY <1>5, <2>2
<1>7. Written(k)
  BY <1>2, <1>4, <1>5, <1>6 DEF Written
<1>8. ASSUME NEW l \in Keys, l # k
      PROVE  Untouched(l)
  <2>1. ~(l[1] = s /\ l[2] = k[2])
    BY <1>8, KeysAndSlots
  <2> QED
    BY <1>3, <1>4, <1>6, <1>8, <2>1 DEF Untouched
<1> QED
  BY <1>6, <1>7, <1>8, WorldKeeps

LEMMA DeleteKeeps ==
    ASSUME KubernetesInv, NEW k \in Keys, Delete(k)
    PROVE  KubernetesInv'
<1> DEFINE s == k[1]
           note == [type |-> "DELETED", name |-> k[2], rv |-> objects[k]]
<1>1. s \in Slots /\ Len(streams[s]) \in Nat /\ StreamsInv /\ k[2] \in Names \union Namespaces
  BY KeysAndSlots, LenProperties DEF KubernetesInv, StreamsInv
<1>2. objects[k] \in 1..Len(streams[s])
  BY LenProperties, KeysAndSlots DEF KubernetesInv, StreamsInv, Tells, Last, About, Delete
<1>3. objects[k] \in Nat /\ note \in Notes
  BY <1>1, <1>2 DEF Notes, Types
<1>4. /\ objects' = [objects EXCEPT ![k] = 0]
      /\ streams' = [streams EXCEPT ![s] = Append(streams[s], note)]
      /\ dropped' = dropped /\ client' = client
  BY DEF Delete, Note, tasks
<1>5. objects' \in [Keys -> Nat] /\ objects'[k] = 0
      /\ \A l \in Keys : l # k => objects'[l] = objects[l]
  BY <1>1, <1>4 DEF StreamsInv
<1>6. note.rv = objects[k] /\ note.type = "DELETED" /\ note.name = k[2]
  OBVIOUS
<1> HIDE DEF note
<1>7. /\ StreamsInv'
      /\ \A t \in Slots : GoesOn(t) /\ NewVersions(t)
      /\ \A l \in Keys : NewAbout(l) =
           IF l[1] = s /\ l[2] = k[2] THEN {Len(streams[s]) + 1} ELSE {}
      /\ streams'[s][Len(streams[s]) + 1] = note
  <2>1. s[2] # "Custom" => /\ note.rv <= Len(streams[s]) + 1
                           /\ note.type # "DELETED" => note.rv = Len(streams[s]) + 1
    BY <1>1, <1>2, <1>6
  <2>2. /\ StreamsInv'
        /\ \A t \in Slots : GoesOn(t) /\ NewVersions(t)
        /\ \A l \in Keys : NewAbout(l) =
             IF l[1] = s /\ l[2] = note.name THEN {Len(streams[s]) + 1} ELSE {}
        /\ streams'[s][Len(streams[s]) + 1] = note
    BY <1>1, <1>3, <1>4, <1>5, <2>1, OneNoteGrows
  <2> QED
    BY <1>6, <2>2
<1>8. Deleted(k)
  BY <1>1, <1>5, <1>6, <1>7 DEF Deleted
<1>9. ASSUME NEW l \in Keys, l # k
      PROVE  Untouched(l)
  <2>1. ~(l[1] = s /\ l[2] = k[2])
    BY <1>9, KeysAndSlots
  <2> QED
    BY <1>4, <1>5, <1>7, <1>9, <2>1 DEF Untouched
<1> QED
  BY <1>4, <1>7, <1>8, <1>9, WorldKeeps

\* The events that refer to the dict of a custom object change, but not in what
\* they are about.
LEMMA ReplaceInPlaceKeeps ==
    ASSUME KubernetesInv, NEW k \in Keys, IsCustom(k), ReplaceInPlace(k)
    PROVE  KubernetesInv'
<1> DEFINE s == k[1]
           rv == Len(streams[s]) + 1
           Updated(i) == i >= stored[k] /\ streams[s][i].name = k[2]
           old == [i \in DOMAIN streams[s] |-> IF Updated(i) THEN [streams[s][i] EXCEPT !.rv = rv]
                                              ELSE streams[s][i]]
           note == [type |-> "MODIFIED", name |-> k[2], rv |-> rv]
<1>1. /\ s \in Slots /\ streams[s] \in Seq(Notes) /\ Len(streams[s]) \in Nat
      /\ DOMAIN streams[s] = 1..Len(streams[s])
      /\ StreamsInv /\ k[2] \in Names \union Namespaces /\ s[2] = "Custom"
  BY KeysAndSlots, LenProperties DEF KubernetesInv, StreamsInv, IsCustom
<1>2. rv \in Nat /\ note \in Notes
  BY <1>1 DEF Notes, Types
<1>3. /\ objects' = [objects EXCEPT ![k] = rv]
      /\ streams' = [streams EXCEPT ![s] = Append(old, note)]
      /\ dropped' = dropped /\ client' = client
  BY DEF ReplaceInPlace, next_resource_version, Note, tasks
<1>4. objects' \in [Keys -> Nat] /\ objects'[k] = rv
      /\ \A l \in Keys : l # k => objects'[l] = objects[l]
  BY <1>1, <1>2, <1>3 DEF StreamsInv
<1>5. note.rv = rv /\ note.type = "MODIFIED" /\ note.name = k[2]
  OBVIOUS
<1>6. ASSUME NEW i \in 1..Len(streams[s])
      PROVE  /\ old[i] \in Notes
             /\ old[i].name = streams[s][i].name /\ old[i].type = streams[s][i].type
  <2>1. streams[s][i] \in Notes
    BY <1>1, ElementOfSeq
  <2> QED
    BY <1>1, <1>2, <2>1 DEF Notes
<1>7. /\ old \in Seq(Notes) /\ Len(old) = Len(streams[s])
  <2>1. old \in [1..Len(streams[s]) -> Notes]
    BY <1>1, <1>6
  <2> HIDE DEF old
  <2> QED
    BY <1>1, <2>1, IsASeq, LenProperties
<1> HIDE DEF old, note
<1>8. /\ Append(old, note) \in Seq(Notes)
      /\ Len(Append(old, note)) = rv
      /\ \A i \in 1..Len(streams[s]) : Append(old, note)[i] = old[i]
      /\ Append(old, note)[rv] = note
  BY <1>1, <1>2, <1>7, AppendProperties
<1>9. streams'[s] = Append(old, note) /\ \A t \in Slots : t # s => streams'[t] = streams[t]
  BY <1>1, <1>3 DEF StreamsInv
<1>10. StreamsInv'
  BY <1>1, <1>3, <1>4, <1>8 DEF StreamsInv
<1>11. \A t \in Slots : GoesOn(t) /\ NewVersions(t)
  <2> SUFFICES ASSUME NEW t \in Slots
               PROVE  GoesOn(t) /\ NewVersions(t)
    OBVIOUS
  <2>1. GoesOn(s) /\ NewVersions(s)
    BY <1>1, <1>6, <1>8, <1>9 DEF GoesOn, NewVersions
  <2>2. ASSUME t # s
        PROVE  GoesOn(t) /\ NewVersions(t)
    <3>1. streams'[t] = streams[t] /\ Len(streams[t]) \in Nat
      BY <1>1, <1>9, <2>2, LenProperties DEF StreamsInv
    <3> QED
      BY <3>1 DEF GoesOn, NewVersions
  <2> QED
    BY <2>1, <2>2
<1>12. ASSUME NEW l \in Keys
       PROVE  NewAbout(l) = IF l = k THEN {rv} ELSE {}
  <2>1. /\ l[1] \in Slots /\ (l = k <=> l[1] = k[1] /\ l[2] = k[2])
        /\ Len(streams'[l[1]]) \in Nat
        /\ DOMAIN streams'[l[1]] = 1..Len(streams'[l[1]])
        /\ Len(streams[l[1]]) \in Nat
    BY <1>1, <1>10, KeysAndSlots, LenProperties DEF StreamsInv
  <2>2. CASE l[1] = s
    <3>1. \A i \in 1..rv : i > Len(streams[s]) <=> i = rv
      BY <1>1
    <3>2. /\ Len(streams'[l[1]]) = rv /\ streams'[l[1]][rv] = note
      BY <1>8, <1>9, <2>2
    <3>3. \A i : i \in NewAbout(l) <=> i \in 1..rv /\ streams'[l[1]][i].name = l[2] /\ i > Len(streams[s])
      BY <2>1, <2>2, <3>2 DEF NewAbout, About
    <3>4. \A i : i \in NewAbout(l) <=> i = rv /\ k[2] = l[2]
      BY SMTT(30), <1>1, <1>2, <1>5, <3>1, <3>2, <3>3
    <3> QED
      BY <2>1, <2>2, <3>4
  <2>3. CASE l[1] # s
    <3>1. NewAbout(l) = {}
      BY <1>9, <2>1, <2>3 DEF NewAbout, About
    <3> QED
      BY <2>3, <3>1
  <2> QED
    BY <2>2, <2>3
<1>13. Written(k)
  BY <1>1, <1>2, <1>4, <1>5, <1>8, <1>9, <1>12 DEF Written
<1>14. \A l \in Keys : l # k => Untouched(l)
  BY <1>3, <1>4, <1>12 DEF Untouched
<1> QED
  BY <1>3, <1>10, <1>11, <1>13, <1>14, WorldKeeps

\* The objects of a kind are as many as events have told of.
LEMMA PodsAreFinite ==
    ASSUME KubernetesInv, NEW n \in Namespaces, NEW D \in SUBSET Names,
           \A o \in D : objects[Key(n, "Pod", o)] # 0
    PROVE  IsFiniteSet(D)
<1> DEFINE s == <<n, "Pod">>
           L == Len(streams[s])
           T == {streams[s][i].name : i \in 1..L}
           f == [i \in 1..L |-> streams[s][i].name]
<1>1. s \in Slots
  BY DEF Slots, NamespacedKinds
<1>2. L \in Nat /\ DOMAIN streams[s] = 1..L
  BY <1>1, LenProperties DEF KubernetesInv, StreamsInv
<1>3. D \subseteq T
  <2> SUFFICES ASSUME NEW o \in D
               PROVE  o \in T
    OBVIOUS
  <2>1. Key(n, "Pod", o) \in Keys
    BY KeysAndSlots DEF NamespacedKinds
  <2>2. objects[Key(n, "Pod", o)] \in About(Key(n, "Pod", o))
    BY <2>1 DEF KubernetesInv, Tells, Last
  <2>3. objects[Key(n, "Pod", o)] \in 1..L /\ streams[s][objects[Key(n, "Pod", o)]].name = o
    BY <1>2, <2>2 DEF About, Key
  <2> QED
    BY <2>3
<1>4. f \in Surjection(1..L, T)
  BY DEF Surjection
<1>5. IsFiniteSet(T)
  <2> HIDE DEF f, T
  <2> QED
    BY <1>2, <1>4, FS_Interval, FS_Surjection
<1> QED
  BY <1>3, <1>5, FS_Subset

LEMMA Offset ==
    ASSUME NEW a \in Nat, NEW b \in Nat, NEW i \in a+1..a+b
    PROVE  i - a \in 1..b /\ i = a + (i - a)
  OBVIOUS

LEMMA delete_namespaced_jobKeeps ==
    ASSUME KubernetesInv, NEW n \in Namespaces, NEW j \in Names, delete_namespaced_job(n, j)
    PROVE  KubernetesInv'
<1> DEFINE job == Key(n, "Job", j)
           pods == PodsOf(n, j)
           pod(o) == Key(n, "Pod", o)
           ps == <<n, "Pod">>
           js == <<n, "Job">>
<1>1. /\ ps \in Slots /\ js \in Slots /\ ps # js /\ job \in Keys
      /\ \A o \in Names : pod(o) \in Keys
      /\ StreamsInv
  BY KeysAndSlots DEF Slots, NamespacedKinds, KubernetesInv
<1>2. PICK D \in SUBSET pods, done \in BOOLEAN : \E order \in Orders(D) :
        LET gone == {pod(o) : o \in D} \union (IF done THEN {job} ELSE {})
            last == IF done THEN <<Note("DELETED", job, objects[job])>> ELSE <<>>
        IN
        /\ done => objects[job] # 0 /\ D \in {pods, {}}
        /\ objects' = [k \in Keys |-> IF k \in gone THEN 0 ELSE objects[k]]
        /\ streams' = [streams EXCEPT
              ![ps] = @ \o [i \in DOMAIN order |->
                               Note("DELETED", pod(order[i]), objects[pod(order[i])])],
              ![js] = @ \o last]
  BY DEF delete_namespaced_job
<1>2a. PICK order \in Orders(D) :
        LET gone == {pod(o) : o \in D} \union (IF done THEN {job} ELSE {})
            last == IF done THEN <<Note("DELETED", job, objects[job])>> ELSE <<>>
        IN
        /\ done => objects[job] # 0 /\ D \in {pods, {}}
        /\ objects' = [k \in Keys |-> IF k \in gone THEN 0 ELSE objects[k]]
        /\ streams' = [streams EXCEPT
              ![ps] = @ \o [i \in DOMAIN order |->
                               Note("DELETED", pod(order[i]), objects[pod(order[i])])],
              ![js] = @ \o last]
  BY <1>2
<1> DEFINE gone == {pod(o) : o \in D} \union (IF done THEN {job} ELSE {})
           last == IF done THEN <<Note("DELETED", job, objects[job])>> ELSE <<>>
           told == [i \in DOMAIN order |->
                      Note("DELETED", pod(order[i]), objects[pod(order[i])])]
           add == [s \in Slots |-> IF s = ps THEN told ELSE IF s = js THEN last ELSE <<>>]
<1>3. /\ done => objects[job] # 0
      /\ objects' = [k \in Keys |-> IF k \in gone THEN 0 ELSE objects[k]]
      /\ streams' = [streams EXCEPT ![ps] = @ \o told, ![js] = @ \o last]
      /\ dropped' = dropped /\ client' = client
  BY <1>2a DEF delete_namespaced_job, tasks
<1>4. D \subseteq Names /\ \A o \in D : objects[pod(o)] # 0
  BY DEF PodsOf
<1>5. /\ Cardinality(D) \in Nat /\ DOMAIN order = 1..Cardinality(D)
      /\ order \in [1..Cardinality(D) -> D]
      /\ \A o \in D : \E i \in DOMAIN order : \A h \in DOMAIN order : order[h] = o <=> h = i
  BY <1>4, PodsAreFinite, FS_CardinalityType DEF Orders
<1>6. ASSUME NEW k \in Keys, objects[k] # 0
      PROVE  /\ objects[k] \in 1..Len(streams[k[1]])
             /\ Note("DELETED", k, objects[k]) \in Notes
             /\ Note("DELETED", k, objects[k]).rv = objects[k]
             /\ Note("DELETED", k, objects[k]).name = k[2]
             /\ Note("DELETED", k, objects[k]).type = "DELETED"
  <2>1. objects[k] \in 1..Len(streams[k[1]])
    BY <1>6, LenProperties, KeysAndSlots DEF KubernetesInv, StreamsInv, Tells, Last, About
  <2>2. objects[k] \in Nat /\ k[2] \in Names \union Namespaces
    BY <1>1, KeysAndSlots DEF StreamsInv
  <2> QED
    BY <2>1, <2>2 DEF Note, Notes, Types
<1>7. ASSUME NEW i \in 1..Cardinality(D)
      PROVE  /\ told[i] \in Notes /\ told[i].name = order[i] /\ told[i].type = "DELETED"
             /\ told[i].rv <= Len(streams[ps]) + i
  <2>1. /\ order[i] \in D /\ pod(order[i]) \in Keys /\ objects[pod(order[i])] # 0
        /\ told[i] = Note("DELETED", pod(order[i]), objects[pod(order[i])])
    BY <1>1, <1>4, <1>5
  <2>2. pod(order[i])[1] = ps /\ pod(order[i])[2] = order[i]
    BY DEF Key
  <2>3. Len(streams[ps]) \in Nat /\ i \in Nat
    BY <1>1, <1>5, LenProperties DEF StreamsInv
  <2> HIDE DEF told, pod, ps
  <2>4. told[i].rv \in 1..Len(streams[ps])
    BY <1>6, <2>1, <2>2
  <2> QED
    BY <1>6, <2>1, <2>2, <2>3, <2>4
<1>8. told \in Seq(Notes) /\ Len(told) = Cardinality(D)
  <2>1. told = [i \in 1..Cardinality(D) |-> told[i]]
    BY <1>5
  <2> HIDE DEF told
  <2>2. told \in Seq(Notes)
    BY <1>5, <1>7, <2>1, IsASeq
  <2> QED
    BY <1>5, <2>1, <2>2, LenProperties
<1>9. /\ last \in Seq(Notes) /\ Len(last) = IF done THEN 1 ELSE 0
      /\ done => /\ last[1].name = j /\ last[1].type = "DELETED"
                 /\ last[1].rv <= Len(streams[js]) + 1
  <2>1. CASE done
    <3>1. job[1] = js /\ job[2] = j
      BY DEF Key
    <3>2. /\ Note("DELETED", job, objects[job]) \in Notes
          /\ Note("DELETED", job, objects[job]).rv \in 1..Len(streams[js])
          /\ Note("DELETED", job, objects[job]).name = j
          /\ Note("DELETED", job, objects[job]).type = "DELETED"
      BY <1>1, <1>3, <1>6, <2>1, <3>1
    <3>3. last = <<Note("DELETED", job, objects[job])>> /\ Len(streams[js]) \in Nat
      BY <1>1, <2>1, LenProperties DEF StreamsInv
    <3> HIDE DEF last, job
    <3> QED
      BY <2>1, <3>2, <3>3
  <2>2. CASE ~done
    BY <2>2, EmptySeq
  <2> QED
    BY <2>1, <2>2
<1>10. /\ add \in [Slots -> Seq(Notes)]
       /\ add[ps] = told /\ add[js] = last
       /\ \A s \in Slots : s # ps /\ s # js => Len(add[s]) = 0
  <2> HIDE DEF told, last
  <2> QED
    BY <1>1, <1>8, <1>9, EmptySeq
<1>11. streams' = [s \in Slots |-> streams[s] \o add[s]]
  <2> HIDE DEF told, last
  <2>1. \A s \in Slots : streams[s] \o <<>> = streams[s]
    BY <1>1, ConcatEmptySeq DEF StreamsInv
  <2> QED
    BY <1>1, <1>3, <2>1 DEF StreamsInv
<1>12. objects' \in [Keys -> Nat]
  BY <1>1, <1>3 DEF StreamsInv
<1> HIDE DEF add, told, last
<1>13. /\ StreamsInv'
       /\ \A s \in Slots :
            /\ GoesOn(s)
            /\ Len(streams[s]) \in Nat /\ Len(add[s]) \in Nat
            /\ Len(streams'[s]) = Len(streams[s]) + Len(add[s])
            /\ \A i \in 1..Len(add[s]) : streams'[s][Len(streams[s]) + i] = add[s][i]
       /\ \A k \in Keys : \A h :
            h \in NewAbout(k) <=> \E i \in 1..Len(add[k[1]]) :
               h = Len(streams[k[1]]) + i /\ add[k[1]][i].name = k[2]
  BY <1>1, <1>10, <1>11, <1>12, StreamsGrow
<1>14. ASSUME NEW s \in Slots, NEW i \in 1..Len(add[s])
       PROVE  add[s][i].type = "DELETED" /\ add[s][i].rv <= Len(streams[s]) + i
  <2>1. CASE s = ps
    BY <1>7, <1>8, <1>10, <1>14, <2>1
  <2>2. CASE s = js
    <3>1. done /\ i = 1
      BY <1>9, <1>10, <1>14, <2>2
    <3> QED
      BY <1>9, <1>10, <2>2, <3>1
  <2>3. CASE s # ps /\ s # js
    BY <1>10, <1>14, <2>3
  <2> QED
    BY <2>1, <2>2, <2>3
<1>15. ASSUME NEW s \in Slots
       PROVE  GoesOn(s) /\ NewVersions(s)
  <2>1. ASSUME NEW i \in Len(streams[s])+1 .. Len(streams'[s])
        PROVE  streams'[s][i].type = "DELETED" /\ streams'[s][i].rv <= i
    <3> DEFINE h == i - Len(streams[s])
    <3>1. h \in 1..Len(add[s]) /\ i = Len(streams[s]) + h
      <4>1. /\ Len(streams[s]) \in Nat /\ Len(add[s]) \in Nat
            /\ Len(streams'[s]) = Len(streams[s]) + Len(add[s])
        BY <1>13
      <4> QED
        BY <2>1, <4>1, Offset
    <3> HIDE DEF h
    <3>2. streams'[s][i] = add[s][h]
      BY <1>13, <3>1
    <3> QED
      BY <1>14, <3>1, <3>2
  <2> QED
    BY <1>13, <2>1 DEF NewVersions
<1>16. ASSUME NEW k \in Keys
       PROVE  Untouched(k) \/ Deleted(k)
  <2>0. /\ DOMAIN order = 1..Len(add[ps])
        /\ \A h \in 1..Len(add[ps]) : order[h] \in D /\ add[ps][h].name = order[h]
    BY <1>5, <1>7, <1>8, <1>10
  <2>1. k = <<k[1], k[2]>> /\ k[1] \in Slots
    BY KeysAndSlots
  <2>2. ASSUME k \notin gone, NewAbout(k) = {}
        PROVE  Untouched(k)
    <3>1. objects'[k] = objects[k]
      BY <1>3, <2>2
    <3> QED
      BY <1>3, <2>2, <3>1 DEF Untouched
  <2>3. ASSUME k \in gone, NEW i \in 1..Len(add[k[1]]), add[k[1]][i].name = k[2],
               \A h \in 1..Len(add[k[1]]) : add[k[1]][h].name = k[2] => h = i
        PROVE  Deleted(k)
    <3>1. objects'[k] = 0
      BY <1>3, <2>3
    <3>2. NewAbout(k) = {Len(streams[k[1]]) + i}
      BY <1>13, <2>3
    <3>3. streams'[k[1]][Len(streams[k[1]]) + i].type = "DELETED"
      <4>1. streams'[k[1]][Len(streams[k[1]]) + i] = add[k[1]][i]
        BY <1>13, <2>1, <2>3
      <4>2. add[k[1]][i].type = "DELETED"
        BY <1>14, <2>1, <2>3
      <4> QED
        BY <4>1, <4>2
    <3>4. Len(streams[k[1]]) + i <= Len(streams[k[1]]) + i
      BY <1>13, <2>1, <2>3
    <3> QED
      BY <3>1, <3>2, <3>3, <3>4 DEF Deleted
  <2>4. /\ k[1] = ps /\ k[2] \in D => k \in gone
        /\ done /\ k[1] = js /\ k[2] = j => k \in gone
        /\ k \in gone => \/ k[1] = ps /\ k[2] \in D
                         \/ done /\ k[1] = js /\ k[2] = j
    <3>1. \A o : k = pod(o) <=> k[1] = ps /\ k[2] = o
      BY <2>1 DEF Key
    <3>2. k = job <=> k[1] = js /\ k[2] = j
      BY <2>1 DEF Key
    <3> HIDE DEF pod, ps, js, job
    <3> QED
      BY <3>1, <3>2
  <2>5. CASE k[1] = ps
    <3>1. CASE k[2] \in D
      <4>1. PICK i \in DOMAIN order : \A h \in DOMAIN order : order[h] = k[2] <=> h = i
        BY <1>5, <3>1
      <4>2. DOMAIN order = 1..Len(add[k[1]]) /\ i \in 1..Len(add[k[1]])
        BY <2>0, <2>5, <4>1
      <4>3. \A h \in 1..Len(add[k[1]]) : add[k[1]][h].name = k[2] <=> h = i
        BY <2>0, <2>5, <4>1, <4>2
      <4>4. k \in gone
        BY <2>4, <2>5, <3>1
      <4> HIDE DEF gone
      <4> QED
        BY <2>3, <4>2, <4>3, <4>4
    <3>2. CASE k[2] \notin D
      <4>1. \A h \in 1..Len(add[k[1]]) : add[k[1]][h].name # k[2]
        BY <2>0, <2>5, <3>2
      <4>2. NewAbout(k) = {}
        BY <1>13, <4>1
      <4> QED
        BY <1>1, <2>2, <2>4, <2>5, <3>2, <4>2
    <3> QED
      BY <3>1, <3>2
  <2>6. CASE k[1] = js
    <3>1. CASE done /\ k[2] = j
      <4>1. /\ 1 \in 1..Len(add[k[1]]) /\ add[k[1]][1].name = k[2]
            /\ \A h \in 1..Len(add[k[1]]) : h = 1
        <5>1. add[k[1]] = last
          BY <1>10, <2>6
        <5>2. Len(last) = 1 /\ last[1].name = k[2]
          BY <1>9, <3>1
        <5>3. \A h : h \in 1..1 <=> h = 1
          OBVIOUS
        <5> QED
          BY <5>1, <5>2, <5>3
      <4>2. k \in gone
        BY <2>4, <2>6, <3>1
      <4> HIDE DEF gone
      <4> QED
        BY <2>3, <4>1, <4>2
    <3>2. CASE ~(done /\ k[2] = j)
      <4>1. \A h \in 1..Len(add[k[1]]) : h = 1 /\ done
        BY <1>9, <1>10, <2>6
      <4>2. NewAbout(k) = {}
        BY <1>9, <1>10, <1>13, <2>6, <3>2, <4>1
      <4> QED
        BY <1>1, <2>2, <2>4, <2>6, <3>2, <4>2
    <3> QED
      BY <3>1, <3>2
  <2>7. CASE k[1] # ps /\ k[1] # js
    <3>1. NewAbout(k) = {}
      <4>1. Len(add[k[1]]) = 0
        BY <1>10, <2>1, <2>7
      <4>2. 1..Len(add[k[1]]) = {}
        BY <4>1
      <4> QED
        BY <1>13, <4>2
    <3> QED
      BY <2>2, <2>4, <2>7, <3>1
  <2> QED
    BY <2>5, <2>6, <2>7
<1> QED
  BY <1>3, <1>13, <1>15, <1>16, WorldKeeps

\* A step that adds no event.
LEMMA StreamsStay ==
    ASSUME StreamsInv, UNCHANGED streams, objects' \in [Keys -> Nat]
    PROVE  /\ StreamsInv'
           /\ \A s \in Slots : GoesOn(s) /\ NewVersions(s)
           /\ \A k \in Keys : NewAbout(k) = {}
<1>1. StreamsInv'
  BY DEF StreamsInv
<1>2. \A s \in Slots : /\ streams'[s] = streams[s] /\ Len(streams[s]) \in Nat
                       /\ DOMAIN streams[s] = 1..Len(streams[s])
  BY LenProperties DEF StreamsInv
<1>3. \A s \in Slots : GoesOn(s) /\ NewVersions(s)
  BY <1>2 DEF GoesOn, NewVersions
<1>4. ASSUME NEW k \in Keys
      PROVE  NewAbout(k) = {}
  <2>1. About(k)' \subseteq 1..Len(streams[k[1]]) /\ Len(streams[k[1]]) \in Nat
    BY <1>2, KeysAndSlots DEF About
  <2>2. \A i \in 1..Len(streams[k[1]]) : ~(i > Len(streams[k[1]]))
    BY <2>1
  <2> QED
    BY <2>1, <2>2 DEF NewAbout
<1> QED
  BY <1>1, <1>3, <1>4

LEMMA NothingKeeps ==
    ASSUME KubernetesInv, UNCHANGED <<objects, streams, dropped, client>>
    PROVE  KubernetesInv'
<1>1. StreamsInv /\ objects' \in [Keys -> Nat]
  BY DEF KubernetesInv, StreamsInv
<1>2. \A k \in Keys : Untouched(k)
  BY <1>1, StreamsStay DEF Untouched
<1> QED
  BY <1>1, <1>2, StreamsStay, WorldKeeps

LEMMA delete_namespaceKeeps ==
    ASSUME KubernetesInv, NEW n \in Namespaces, delete_namespace(n)
    PROVE  KubernetesInv'
<1> DEFINE space == <<NamespaceSlot, n>>
           gone == {k \in In(n) : objects[k] # 0}
           note == [type |-> "DELETED", name |-> n, rv |-> objects[space]]
<1>1. StreamsInv /\ space \in Keys /\ NamespaceSlot \in Slots /\ NamespaceSlot[2] # "Custom"
  BY KeysAndSlots DEF KubernetesInv, Slots, NamespaceSlot
<1>2. space[1] = NamespaceSlot /\ space[2] = n
  OBVIOUS
<1>3. /\ objects' = [k \in Keys |-> IF k \in In(n) THEN 0 ELSE objects[k]]
      /\ client' = client
      /\ \/ /\ objects[space] # 0
            /\ streams' = [streams EXCEPT ![NamespaceSlot] = Append(streams[NamespaceSlot], note)]
            /\ dropped' = dropped \union (gone \ {space})
         \/ dropped' = dropped \union gone /\ streams' = streams
  BY DEF delete_namespace, tasks, Note
<1>4. In(n) \subseteq Keys /\ space \in In(n)
  BY <1>1 DEF In
<1> HIDE DEF space
<1>5. objects' \in [Keys -> Nat]
  BY <1>1, <1>3 DEF StreamsInv
<1>6. ASSUME NEW k \in Keys, NewAbout(k) = {}, dropped \subseteq dropped',
             k \in gone => k \in dropped'
      PROVE  Untouched(k) \/ Dropped(k)
  <2>1. CASE k \in gone
    BY <1>3, <1>4, <1>6, <2>1 DEF Dropped
  <2>2. CASE k \notin gone /\ k \notin dropped'
    BY <1>3, <1>6, <2>2 DEF Untouched
  <2>3. CASE k \notin gone /\ k \in dropped'
    BY <1>3, <1>6, <2>3 DEF Untouched
  <2> QED
    BY <2>1, <2>2, <2>3
<1>7. ASSUME objects[space] # 0, dropped' = dropped \union (gone \ {space}),
             streams' = [streams EXCEPT ![NamespaceSlot] =
                           Append(streams[NamespaceSlot], note)]
      PROVE  KubernetesInv'
  <2>1. objects[space] \in 1..Len(streams[NamespaceSlot])
    BY <1>1, <1>2, <1>7, LenProperties DEF KubernetesInv, StreamsInv, Tells, Last, About
  <2>2. Len(streams[NamespaceSlot]) \in Nat /\ objects[space] \in Nat
    BY <1>1, LenProperties DEF StreamsInv
  <2>3. note \in Notes /\ note.rv = objects[space] /\ note.type = "DELETED" /\ note.name = n
    BY <2>2 DEF Notes, Types
  <2> HIDE DEF note
  <2>4. note.rv <= Len(streams[NamespaceSlot]) + 1
    BY <2>1, <2>2, <2>3
  <2>5. /\ StreamsInv'
        /\ \A t \in Slots : GoesOn(t) /\ NewVersions(t)
        /\ \A k \in Keys : NewAbout(k) =
             IF k[1] = NamespaceSlot /\ k[2] = note.name
               THEN {Len(streams[NamespaceSlot]) + 1} ELSE {}
        /\ streams'[NamespaceSlot][Len(streams[NamespaceSlot]) + 1] = note
    BY <1>1, <1>5, <1>7, <2>3, <2>4, OneNoteGrows
  <2>6. Deleted(space)
    BY <1>1, <1>2, <1>3, <1>4, <2>2, <2>3, <2>5 DEF Deleted
  <2>7. ASSUME NEW k \in Keys, k # space
        PROVE  Untouched(k) \/ Dropped(k)
    <3>1. ~(k[1] = NamespaceSlot /\ k[2] = n)
      BY <2>7, KeysAndSlots DEF space
    <3> QED
      BY <1>6, <1>7, <2>3, <2>5, <2>7, <3>1
  <2> QED
    BY <1>3, <2>5, <2>6, <2>7, WorldKeeps
<1>8. ASSUME dropped' = dropped \union gone, streams' = streams
      PROVE  KubernetesInv'
  <2>1. /\ StreamsInv'
        /\ \A s \in Slots : GoesOn(s) /\ NewVersions(s)
        /\ \A k \in Keys : NewAbout(k) = {}
    BY <1>1, <1>5, <1>8, StreamsStay
  <2>2. \A k \in Keys : Untouched(k) \/ Dropped(k)
    BY <1>6, <1>8, <2>1
  <2> QED
    BY <1>3, <2>1, <2>2, WorldKeeps
<1> QED
  BY <1>3, <1>7, <1>8

-----------------------------------------------------------------------------
\* Clients

\* A step of a client, of which the mock keeps nothing.
LEMMA ClientMoves ==
    ASSUME KubernetesInv, NEW c \in Clients, ClientInv(client'[c]),
           \A b \in Clients : b # c => client'[b] = client[b],
           client' = [b \in Clients |-> client'[b]],
           UNCHANGED <<objects, streams, dropped>>
    PROVE  KubernetesInv'
<1>1. StreamsInv' /\ VersionsInv'
  BY DEF KubernetesInv, StreamsInv, VersionsInv
<1>2. \A k \in Keys : Tells(k)'
  BY DEF KubernetesInv, Tells, Last, About
<1>3. ASSUME NEW any, ClientInv(any)
      PROVE  ClientInv(any)'
  BY <1>3 DEF ClientInv, Fresh, About
<1>4. ASSUME NEW b \in Clients
      PROVE  ClientInv(client[b])'
  <2>1. PICK any : any = client'[b]
    OBVIOUS
  <2>2. ClientInv(any)
    BY <2>1 DEF KubernetesInv, ClientsInv
  <2>3. ClientInv(any)'
    BY <1>3, <2>2
  <2> QED
    BY <2>1, <2>3
<1> QED
  BY <1>1, <1>2, <1>4 DEF KubernetesInv, ClientsInv

LEMMA ClientIs ==
    ASSUME KubernetesInv, NEW c \in Clients, NEW cl, ClientInv(cl),
           client' = [client EXCEPT ![c] = cl], UNCHANGED <<objects, streams, dropped>>
    PROVE  KubernetesInv'
<1>1. client = [b \in Clients |-> client[b]]
  BY DEF KubernetesInv, ClientsInv
<1> QED
  BY <1>1, ClientMoves

\* The greatest of some numbers that have a bound.
LEMMA Greatest ==
    ASSUME NEW bound \in Nat, NEW S \in SUBSET (0..bound), S # {}
    PROVE  \E m \in S : \A q \in S : q <= m
<1> DEFINE Above(p) == {q \in S : q > p}
           U == {Above(p) : p \in S}
<1>1. U \subseteq FiniteSubsetsOf(S) /\ U # {}
  <2>1. IsFiniteSet(0..bound)
    BY FS_Interval
  <2>2. IsFiniteSet(S)
    BY <2>1, FS_Subset
  <2>3. \A p \in S : Above(p) \in SUBSET S /\ IsFiniteSet(Above(p))
    BY <2>2, FS_Subset
  <2> HIDE DEF Above
  <2> QED
    BY <2>3 DEF FiniteSubsetsOf
<1>2. PICK P \in U : \A Q \in U : ~(<<Q, P>> \in StrictSubsetOrdering(S))
  <2> HIDE DEF U
  <2> QED
    BY <1>1, FS_StrictSubsetOrderingWellFounded, WFMin, Zenon
<1>3. PICK m \in S : P = Above(m)
  OBVIOUS
<1>4. ASSUME NEW q \in S, ~(q <= m)
      PROVE  FALSE
  <2>1. q \in Nat /\ m \in Nat /\ m < q
    BY <1>4
  <2>2. \A x \in S : x > q => x > m
    BY <2>1
  <2>3. Above(q) \subseteq Above(m) /\ q \in Above(m) /\ q \notin Above(q)
    <3>1. Above(q) \subseteq Above(m)
      BY <2>2, Zenon
    <3>2. q > m /\ ~(q > q)
      BY <2>1
    <3> QED
      BY <1>4, <3>1, <3>2
  <2>4. <<Above(q), P>> \in StrictSubsetOrdering(S)
    BY <1>1, <1>3, <2>3 DEF StrictSubsetOrdering, FiniteSubsetsOf
  <2> QED
    BY <1>2, <2>4
<1> QED
  BY <1>4

\* What a client finds is of versions that the stream has come to.
LEMMA FoundIsKnown ==
    ASSUME KubernetesInv, NEW slot \in Slots, NEW sel \in SUBSET NamesIn(slot)
    PROVE  /\ Found(slot, sel) \in [NamesIn(slot) -> Nat]
           /\ \A o \in sel : Found(slot, sel)[o] = objects[<<slot, o>>]
           /\ Latest(Found(slot, sel)) \in 0..Len(streams[slot])
<1> DEFINE cache == Found(slot, sel)
           S == {cache[o] : o \in DOMAIN cache} \union {0}
<1>1. Len(streams[slot]) \in Nat /\ DOMAIN streams[slot] = 1..Len(streams[slot])
  BY LenProperties DEF KubernetesInv, StreamsInv
<1>2. ASSUME NEW o \in NamesIn(slot)
      PROVE  cache[o] \in 0..Len(streams[slot])
  <2>1. <<slot, o>> \in Keys /\ Tells(<<slot, o>>)
    BY KeysAndSlots DEF KubernetesInv
  <2>2. objects[<<slot, o>>] \in 0..Len(streams[slot])
    BY <1>1, <2>1 DEF Tells, Last, About
  <2> QED
    BY <1>1, <2>2 DEF Found
<1>3. /\ cache \in [NamesIn(slot) -> Nat] /\ DOMAIN cache = NamesIn(slot)
      /\ \A o \in sel : cache[o] = objects[<<slot, o>>]
  BY <1>1, <1>2 DEF Found
<1> HIDE DEF cache
<1>4. S \in SUBSET (0..Len(streams[slot])) /\ S # {}
  BY <1>1, <1>2, <1>3
<1>5. PICK m \in S : \A q \in S : q <= m
  BY <1>1, <1>4, Greatest
<1>6. Latest(cache) \in S
  <2>1. \E v \in S : \A o \in DOMAIN cache : cache[o] <= v
    BY <1>5
  <2> QED
    BY <2>1 DEF Latest
<1> QED
  BY <1>3, <1>4, <1>6 DEF cache

LEMMA LearnButKeeps ==
    ASSUME KubernetesInv, NEW c \in Clients, NEW slot \in Slots,
           NEW sel \in SUBSET NamesIn(slot), NEW missed, LearnBut(c, slot, sel, missed)
    PROVE  KubernetesInv'
<1> DEFINE cache == Found(slot, sel \ missed)
           cl == [pc |-> "known", slot |-> slot, sel |-> sel, pos |-> 0, seen |-> TRUE,
                  cache |-> cache, missed |-> missed, from |-> Latest(cache)]
<1>0. /\ cache \in [NamesIn(slot) -> Nat]
      /\ \A o \in sel \ missed : cache[o] = objects[<<slot, o>>]
      /\ Latest(cache) \in 0..Len(streams[slot])
  BY FoundIsKnown
<1>1. client' = [client EXCEPT ![c] = cl] /\ UNCHANGED <<objects, streams, dropped>>
  BY DEF LearnBut
<1> HIDE DEF cache
<1>2. IsClient(cl)
  BY DEF IsClient, Fields
<1>3. ClientInv(cl)
  <2>1. Len(streams[slot]) \in Nat
    BY LenProperties DEF KubernetesInv, StreamsInv
  <2>2. /\ At(cl) \in cl.from..Len(streams[slot]) /\ cl.from \in 0..Len(streams[slot])
        /\ cl.from \in Nat
    BY <1>0, <2>1 DEF At
  <2> QED
    BY <1>0, <1>2, <2>2 DEF ClientInv, Fresh, Told
<1> HIDE DEF cl
<1> QED
  BY <1>1, <1>3, ClientIs

LEMMA LearnKeeps ==
    ASSUME KubernetesInv, NEW c \in Clients, NEW slot \in Slots,
           NEW sel \in SUBSET NamesIn(slot), Learn(c, slot, sel)
    PROVE  KubernetesInv'
BY LearnButKeeps DEF Learn

LEMMA WatchKeeps ==
    ASSUME KubernetesInv, NEW c \in Clients, NEW slot \in Slots, Watch(c, slot)
    PROVE  KubernetesInv'
<1>1. ClientInv(client[c]) /\ client = [b \in Clients |-> client[b]]
  BY DEF KubernetesInv, ClientsInv
<1>2. CASE client[c].pc = "known"
  <2> DEFINE cl == [client[c] EXCEPT !.pc = "watching", !.pos = client[c].from]
  <2>1. client' = [client EXCEPT ![c] = cl] /\ UNCHANGED <<objects, streams, dropped>>
    BY <1>1, <1>2 DEF Watch
  <2>2. /\ cl.pc = "watching" /\ cl.slot = client[c].slot /\ cl.sel = client[c].sel
        /\ cl.pos = client[c].from /\ cl.from = client[c].from
        /\ cl.cache = client[c].cache /\ cl.missed = client[c].missed /\ IsClient(cl)
    BY <1>1, <1>2 DEF ClientInv, IsClient, Fields
  <2> HIDE DEF cl
  <2>3. ClientInv(cl)
    BY <1>1, <1>2, <2>2 DEF ClientInv, At, Told
  <2> QED
    BY <2>1, <2>3, ClientIs
<1>3. CASE client[c].pc = "idle"
  <2> DEFINE cl == [pc |-> "asked", slot |-> slot]
  <2>1. client' = [client EXCEPT ![c] = cl] /\ UNCHANGED <<objects, streams, dropped>>
    BY <1>3 DEF Watch
  <2>2. ClientInv(cl)
    BY DEF ClientInv
  <2> HIDE DEF cl
  <2> QED
    BY <2>1, <2>2, ClientIs
<1> QED
  BY <1>2, <1>3 DEF Watch

LEMMA first_readlineKeeps ==
    ASSUME KubernetesInv, NEW c \in Clients, first_readline(c)
    PROVE  KubernetesInv'
<1> DEFINE slot == client[c].slot
           cl == [pc |-> "watching", slot |-> slot, sel |-> NamesIn(slot),
                  pos |-> Len(streams[slot]), from |-> 0, seen |-> FALSE,
                  cache |-> Found(slot, NamesIn(slot)), missed |-> {}]
<1>1. slot \in Slots
  BY DEF KubernetesInv, ClientsInv, ClientInv, first_readline
<1>2. client' = [client EXCEPT ![c] = cl] /\ UNCHANGED <<objects, streams, dropped>>
  BY DEF first_readline
<1>3. Len(streams[slot]) \in Nat
  BY <1>1, LenProperties DEF KubernetesInv, StreamsInv
<1> HIDE DEF slot
<1>4. At(cl) \in cl.from..Len(streams[slot]) /\ cl.from \in 0..Len(streams[slot])
  BY <1>3 DEF At
<1>5. IsClient(cl)
  BY DEF IsClient, Fields
<1>6. ClientInv(cl)
  BY <1>1, <1>3, <1>4, <1>5, FoundIsKnown DEF ClientInv, Fresh, Told
<1> HIDE DEF cl
<1> QED
  BY <1>2, <1>6, ClientIs

LEMMA watch_endsKeeps ==
    ASSUME KubernetesInv, NEW c \in Clients, watch_ends(c)
    PROVE  KubernetesInv'
<1>1. ClientInv(client[c]) /\ client[c].pc = "watching"
  BY DEF KubernetesInv, ClientsInv, watch_ends
<1>2. CASE client[c].seen
  <2> DEFINE cl == [client[c] EXCEPT !.pc = "known"]
  <2>1. client' = [client EXCEPT ![c] = cl] /\ UNCHANGED <<objects, streams, dropped>>
    BY <1>2 DEF watch_ends
  <2>2. /\ cl.pc = "known" /\ cl.slot = client[c].slot /\ cl.sel = client[c].sel
        /\ cl.from = client[c].from /\ cl.cache = client[c].cache
        /\ cl.pos = client[c].pos /\ cl.missed = client[c].missed /\ IsClient(cl)
    BY <1>1 DEF ClientInv, IsClient, Fields
  <2> HIDE DEF cl
  <2>3. cl.slot \in Slots /\ cl.sel \subseteq NamesIn(cl.slot)
    BY <1>1, <2>2 DEF ClientInv
  <2>4. Len(streams[cl.slot]) \in Nat /\ DOMAIN streams[cl.slot] = 1..Len(streams[cl.slot])
    BY <2>3, LenProperties DEF KubernetesInv, StreamsInv
  <2>5. ASSUME cl.slot[2] # "Custom"
        PROVE  /\ cl.from \in 0..Len(streams[cl.slot])
               /\ At(cl) \in cl.from..Len(streams[cl.slot])
               /\ \A o \in Told(cl) : Fresh(<<cl.slot, o>>, At(cl), cl.cache[o])
    <3>1. /\ cl.from \in 0..Len(streams[cl.slot])
          /\ client[c].pos \in cl.from..Len(streams[cl.slot])
          /\ \A o \in Told(cl) : Fresh(<<cl.slot, o>>, client[c].pos, cl.cache[o])
      BY <1>1, <2>2, <2>5 DEF ClientInv, At, Told
    <3>2. At(cl) = cl.from /\ At(cl) \in cl.from..Len(streams[cl.slot])
      BY <2>2, <2>4, <3>1 DEF At
    <3>3. ASSUME NEW o \in Told(cl), NEW i \in About(<<cl.slot, o>>), i > client[c].pos
          PROVE  i > cl.from
      <4>1. i \in 1..Len(streams[cl.slot])
        BY <2>4, <3>3 DEF About
      <4> QED
        BY <2>4, <3>1, <3>3, <4>1
    <3> QED
      BY <3>1, <3>2, <3>3 DEF Fresh
  <2>6. ClientInv(cl)
    BY <1>1, <2>2, <2>3, <2>5 DEF ClientInv
  <2> QED
    BY <2>1, <2>6, ClientIs
<1>3. CASE ~client[c].seen
  <2> DEFINE cl == [pc |-> "idle"]
  <2>1. client' = [client EXCEPT ![c] = cl] /\ UNCHANGED <<objects, streams, dropped>>
    BY <1>3 DEF watch_ends
  <2>2. ClientInv(cl)
    BY DEF ClientInv
  <2> HIDE DEF cl
  <2> QED
    BY <2>1, <2>2, ClientIs
<1> QED
  BY <1>2, <1>3

LEMMA next_eventKeeps ==
    ASSUME KubernetesInv, NEW c \in Clients, next_event(c)
    PROVE  KubernetesInv'
<1> DEFINE old == client[c]
           slot == old.slot
           i == old.pos + 1
           event == streams[slot][i]
           known == IF event.type = "DELETED" THEN 0 ELSE event.rv
<1>1. /\ ClientInv(old) /\ old.pc = "watching" /\ IsClient(old)
      /\ slot \in Slots /\ old.sel \subseteq NamesIn(slot)
      /\ old.cache \in [NamesIn(slot) -> Nat]
  BY DEF KubernetesInv, ClientsInv, ClientInv, next_event
<1>2. /\ old.pos < Len(streams[slot])
      /\ UNCHANGED <<objects, streams, dropped>>
      /\ client' =
           IF event.name \in old.sel
             THEN [client EXCEPT ![c].pos = @ + 1, ![c].from = event.rv,
                                 ![c].seen = TRUE, ![c].cache[event.name] = known,
                                 ![c].missed = @ \ {event.name}]
             ELSE [client EXCEPT ![c].pos = @ + 1]
  BY DEF next_event
<1>3. /\ Len(streams[slot]) \in Nat /\ DOMAIN streams[slot] = 1..Len(streams[slot])
      /\ streams[slot] \in Seq(Notes)
  BY <1>1, LenProperties DEF KubernetesInv, StreamsInv
<1>4. client = [b \in Clients |-> client[b]]
  BY DEF KubernetesInv, ClientsInv
<1>5. /\ old.pos \in Nat /\ old.from \in Nat /\ i \in 1..Len(streams[slot])
      /\ event \in Notes /\ event.rv \in Nat /\ known \in Nat
  <2>1. old.pos \in Nat /\ old.from \in Nat
    BY <1>1 DEF ClientInv
  <2>2. i \in 1..Len(streams[slot])
    <3>1. old.pos < Len(streams[slot]) /\ Len(streams[slot]) \in Nat
      BY <1>2, <1>3
    <3> HIDE DEF old, slot
    <3> QED
      BY <2>1, <3>1
  <2>3. event \in Notes
    BY <1>3, <2>2, ElementOfSeq
  <2> QED
    BY <2>1, <2>2, <2>3 DEF Notes
<1>5a. ASSUME slot[2] # "Custom"
       PROVE  /\ old.from \in 0..Len(streams[slot])
              /\ old.pos \in old.from..Len(streams[slot])
              /\ event.rv <= i
              /\ \A o \in Told(old) : Fresh(<<slot, o>>, old.pos, old.cache[o])
  <2>1. event.rv <= i
    BY <1>1, <1>5, <1>5a DEF KubernetesInv, VersionsInv
  <2> QED
    BY <1>1, <1>5a, <2>1 DEF ClientInv, At
<1>6. ASSUME slot[2] # "Custom", NEW o \in old.sel, event.name = o \/ o \in Told(old)
      PROVE  Fresh(<<slot, o>>, i, IF event.name = o THEN known ELSE old.cache[o])
  <2> DEFINE k == <<slot, o>>
  <2>1. /\ k \in Keys /\ k[1] = slot /\ k[2] = o /\ Tells(k)
        /\ event.name # o => Fresh(k, old.pos, old.cache[o])
    BY <1>1, <1>5a, <1>6, KeysAndSlots DEF KubernetesInv
  <2>2. About(k) \subseteq 1..Len(streams[slot])
        /\ \A j : j \in About(k) <=> j \in 1..Len(streams[slot]) /\ streams[slot][j].name = o
    BY <1>3, <2>1 DEF About
  <2>3. old.pos \in Nat /\ i \in 1..Len(streams[slot]) /\ i = old.pos + 1
    BY <1>5, <1>6
  <2> HIDE DEF k, i, slot
  <2>4. CASE event.name # o
    <3>1. ASSUME NEW j \in About(k), j > old.pos
          PROVE  j > i
      <4>1. j # i /\ j \in Nat
        BY <2>2, <2>4, <3>1
      <4> QED
        BY <2>3, <3>1, <4>1
    <3> QED
      BY <2>1, <2>4, <3>1 DEF Fresh, k
  <2>5. CASE event.name = o /\ \A j \in About(k) : ~(j > i)
    <3>1. Last(k, i)
      BY <2>2, <2>3, <2>5 DEF Last
    <3>2. \A j : Last(k, j) => j = i
      BY <2>2, <2>3, <3>1 DEF Last
    <3>3. CASE objects[k] # 0
      <4>1. objects[k] = i /\ event.type # "DELETED"
        BY <2>1, <3>2, <3>3 DEF Tells
      <4>2. event.rv = i
        BY <1>1, <1>6, <2>3, <4>1 DEF KubernetesInv, VersionsInv
      <4> QED
        BY <2>5, <4>1, <4>2 DEF Fresh, k
    <3>4. CASE objects[k] = 0 /\ k \notin dropped
      <4>1. event.type = "DELETED"
        BY <2>1, <3>1, <3>2, <3>4 DEF Tells, Last
      <4> QED
        BY <2>5, <3>4, <4>1 DEF Fresh, k
    <3> QED
      BY <3>3, <3>4 DEF Fresh, k
  <2>6. CASE \E j \in About(k) : j > i
    BY <2>6 DEF Fresh, k
  <2> QED
    BY <2>4, <2>5, <2>6
<1>7. PICK cl : cl = client'[c]
  OBVIOUS
<1>8. /\ client' = [b \in Clients |-> client'[b]]
      /\ \A b \in Clients : b # c => client'[b] = client[b]
  BY ZenonT(100), <1>2, <1>4
<1>9. CASE event.name \in old.sel
  <2> DEFINE new == [old.cache EXCEPT ![event.name] = known]
  <2>1. cl = [old EXCEPT !.pos = i, !.from = event.rv, !.seen = TRUE, !.cache = new,
                         !.missed = @ \ {event.name}]
    BY <1>2, <1>4, <1>7, <1>9
  <2> HIDE DEF old, new, event, i
  <2>2. /\ cl.pc = old.pc /\ cl.slot = old.slot /\ cl.sel = old.sel
        /\ cl.pos = i /\ cl.from = event.rv /\ cl.cache = new /\ IsClient(cl)
        /\ Told(cl) \subseteq Told(old) \union {event.name} /\ Told(cl) \subseteq old.sel
    BY <1>1, <2>1 DEF IsClient, Fields, Told
  <2>3. new \in [NamesIn(slot) -> Nat]
        /\ \A o \in old.sel : new[o] = IF event.name = o THEN known ELSE old.cache[o]
    BY <1>1, <1>5, <1>9 DEF new
  <2> HIDE DEF slot, known
  <2>4. slot = old.slot
    BY DEF slot
  <2>5. ASSUME slot[2] # "Custom"
        PROVE  /\ cl.from \in 0..Len(streams[slot])
               /\ At(cl) \in cl.from..Len(streams[slot])
               /\ \A o \in Told(cl) : Fresh(<<slot, o>>, At(cl), cl.cache[o])
    <3>1. At(cl) = i
      BY <1>1, <2>2 DEF At
    <3>2. \A o \in Told(cl) : Fresh(<<slot, o>>, i, new[o])
      BY <1>6, <2>2, <2>3, <2>5
    <3>3. event.rv \in 0..Len(streams[slot]) /\ i \in event.rv..Len(streams[slot])
      BY <1>3, <1>5, <1>5a, <2>5
    <3> QED
      BY <2>2, <3>1, <3>2, <3>3
  <2>6. i \in Nat
    BY <1>3, <1>5
  <2>7. ClientInv(cl)
    BY <1>1, <1>5, <2>2, <2>3, <2>4, <2>5, <2>6 DEF ClientInv
  <2> QED
    BY <1>2, <1>7, <1>8, <2>7, ClientMoves
<1>10. CASE event.name \notin old.sel
  <2>1. cl = [old EXCEPT !.pos = i]
    BY <1>2, <1>4, <1>7, <1>10
  <2> HIDE DEF old, event, i
  <2>2. /\ cl.pc = old.pc /\ cl.slot = old.slot /\ cl.sel = old.sel
        /\ cl.pos = i /\ cl.from = old.from /\ cl.cache = old.cache /\ IsClient(cl)
        /\ Told(cl) = Told(old)
    BY <1>1, <2>1 DEF IsClient, Fields, Told
  <2> HIDE DEF slot, known
  <2>4. slot = old.slot
    BY DEF slot
  <2>5. ASSUME slot[2] # "Custom"
        PROVE  /\ cl.from \in 0..Len(streams[slot])
               /\ At(cl) \in cl.from..Len(streams[slot])
               /\ \A o \in Told(cl) : Fresh(<<slot, o>>, At(cl), cl.cache[o])
    <3>1. At(cl) = i
      BY <1>1, <2>2 DEF At
    <3>2. \A o \in Told(old) : Fresh(<<slot, o>>, i, old.cache[o])
      BY <1>6, <1>10, <2>5 DEF Told
    <3>3. old.from <= i
      <4>1. i = old.pos + 1
        BY DEF i
      <4> QED
        BY <1>3, <1>5, <1>5a, <2>5, <4>1
    <3>4. old.from \in 0..Len(streams[slot]) /\ i \in old.from..Len(streams[slot])
      BY <1>3, <1>5, <1>5a, <2>5, <3>3
    <3> QED
      BY <2>2, <3>1, <3>2, <3>4
  <2>6. i \in Nat
    BY <1>3, <1>5
  <2>7. ClientInv(cl)
    BY <1>1, <1>5, <2>2, <2>4, <2>5, <2>6 DEF ClientInv
  <2> QED
    BY <1>2, <1>7, <1>8, <2>7, ClientMoves
<1> QED
  BY <1>9, <1>10

-----------------------------------------------------------------------------
\* The API is made of these changes

LEMMA CreateKeeps ==
    ASSUME KubernetesInv, NEW k \in Keys, StoreNew(k), UNCHANGED client
    PROVE  KubernetesInv'
  BY WriteKeeps DEF StoreNew

LEMMA ReplaceKeeps ==
    ASSUME KubernetesInv, NEW k \in Keys, Replace(k)
    PROVE  KubernetesInv'
  BY WriteKeeps DEF Replace, tasks

LEMMA ReadKeeps ==
    ASSUME KubernetesInv, NEW c \in Clients, NEW k \in Keys, Read(c, k)
    PROVE  KubernetesInv'
<1>1. k[1] \in Slots /\ {k[2]} \in SUBSET NamesIn(k[1])
  BY KeysAndSlots
<1> QED
  BY <1>1, LearnKeeps DEF Read

LEMMA ListKeeps ==
    ASSUME KubernetesInv, NEW c \in Clients, NEW slot \in Slots,
           List(c, slot) \/ Watch(c, slot)
    PROVE  KubernetesInv'
<1>1. ASSUME NEW sel \in {NamesIn(slot)} \union {{o} : o \in NamesIn(slot)},
             Learn(c, slot, sel)
      PROVE  KubernetesInv'
  <2>1. sel \in SUBSET NamesIn(slot)
    OBVIOUS
  <2> QED
    BY <1>1, <2>1, LearnKeeps
<1> QED
  BY <1>1, WatchKeeps DEF List

LEMMA WriteStep ==
    ASSUME KubernetesInv, NEW n \in Namespaces, NEW o \in Names, Write_(n, o)
    PROVE  KubernetesInv'
<1>1. \A kind \in NamespacedKinds : Key(n, kind, o) \in Keys
  BY KeysAndSlots
<1>2. ASSUME NEW kind \in NamespacedKinds, Create(Key(n, kind, o))
      PROVE  KubernetesInv'
  BY <1>1, <1>2, CreateKeeps DEF Create, tasks
<1>3. ASSUME NEW kind \in NamespacedKinds, Delete(Key(n, kind, o))
      PROVE  KubernetesInv'
  BY <1>1, <1>3, DeleteKeeps
<1>4. ASSUME NEW kind \in NamespacedKinds, Replace(Key(n, kind, o))
      PROVE  KubernetesInv'
  BY <1>1, <1>4, ReplaceKeeps
<1>5. ASSUME ReplaceInPlace(Key(n, "Custom", o))
      PROVE  KubernetesInv'
  BY <1>1, <1>5, ReplaceInPlaceKeeps DEF NamespacedKinds, IsCustom, Key
<1>6. ASSUME create_namespaced_event(n, o)
      PROVE  KubernetesInv'
  BY <1>1, <1>6, WriteKeeps DEF create_namespaced_event, NamespacedKinds, tasks
<1>7. ASSUME NEW m \in Makers, create_namespaced_job(m, n, o)
      PROVE  KubernetesInv'
  BY <1>1, <1>7, CreateKeeps DEF create_namespaced_job, NamespacedKinds
<1>8. ASSUME NEW m \in Makers, PodFor(m, n, o)
      PROVE  KubernetesInv'
  BY <1>1, <1>8, CreateKeeps DEF PodFor, create_namespaced_pod, NamespacedKinds
<1>9. CASE delete_namespaced_job(n, o)
  BY <1>9, delete_namespaced_jobKeeps
<1>10. CASE \/ create_namespaced_custom_object(n, o) \/ create_namespaced_config_map(n, o)
            \/ create_namespaced_ingress(n, o) \/ create_namespaced_network_policy(n, o)
            \/ create_namespaced_persistent_volume_claim(n, o)
            \/ create_namespaced_resource_quota(n, o) \/ create_namespaced_secret(n, o)
            \/ create_namespaced_service(n, o) \/ create_namespaced_service_account(n, o)
  BY <1>2, <1>10
     DEF NamespacedKinds, create_namespaced_custom_object, create_namespaced_config_map,
         create_namespaced_ingress, create_namespaced_network_policy,
         create_namespaced_persistent_volume_claim, create_namespaced_resource_quota,
         create_namespaced_secret, create_namespaced_service,
         create_namespaced_service_account
<1>11. CASE \/ delete_namespaced_custom_object(n, o) \/ delete_namespaced_config_map(n, o)
            \/ delete_namespaced_ingress(n, o) \/ delete_namespaced_pod(n, o)
            \/ delete_namespaced_persistent_volume_claim(n, o)
            \/ delete_namespaced_service(n, o) \/ delete_namespaced_service_account(n, o)
  BY <1>3, <1>11
     DEF NamespacedKinds, delete_namespaced_custom_object, delete_namespaced_config_map,
         delete_namespaced_ingress, delete_namespaced_pod,
         delete_namespaced_persistent_volume_claim, delete_namespaced_service,
         delete_namespaced_service_account
<1>12. CASE \/ patch_namespaced_custom_object_status(n, o)
            \/ replace_namespaced_custom_object(n, o)
            \/ patch_namespaced_ingress_status(n, o) \/ patch_namespaced_pod_status(n, o)
            \/ patch_namespaced_secret(n, o) \/ replace_namespaced_secret(n, o)
  BY <1>4, <1>5, <1>12
     DEF NamespacedKinds, patch_namespaced_custom_object_status,
         replace_namespaced_custom_object, patch_namespaced_ingress_status,
         patch_namespaced_pod_status, patch_namespaced_secret, replace_namespaced_secret
<1> QED
  BY <1>6, <1>7, <1>8, <1>9, <1>10, <1>11, <1>12 DEF Write_

LEMMA ReadStep ==
    ASSUME KubernetesInv, NEW c \in Clients, NEW n \in Namespaces, NEW o \in Names,
           Read_(c, n, o)
    PROVE  KubernetesInv'
<1>1. ASSUME NEW kind \in NamespacedKinds, Read(c, Key(n, kind, o))
      PROVE  KubernetesInv'
  BY <1>1, KeysAndSlots, ReadKeeps
<1> QED
  BY <1>1
     DEF Read_, NamespacedKinds, get_namespaced_custom_object, read_namespaced_config_map,
         read_namespaced_ingress, read_namespaced_job, read_namespaced_network_policy,
         read_namespaced_persistent_volume_claim, read_namespaced_pod,
         read_namespaced_pod_status, read_namespaced_resource_quota,
         read_namespaced_secret, read_namespaced_service,
         read_namespaced_service_account

LEMMA ListStep ==
    ASSUME KubernetesInv, NEW c \in Clients, NEW n \in Namespaces, List_(c, n)
    PROVE  KubernetesInv'
<1>1. ASSUME NEW kind \in NamespacedKinds
      PROVE  /\ <<n, kind>> \in Slots
             /\ kind # "Namespace" /\ NamesIn(<<n, kind>>) = Names
  BY DEF Slots, NamespacedKinds, NamesIn, NamespaceSlot
<1>2. ASSUME NEW kind \in NamespacedKinds,
             List(c, <<n, kind>>) \/ Watch(c, <<n, kind>>)
      PROVE  KubernetesInv'
  BY <1>1, <1>2, ListKeeps
<1>3. ASSUME NEW kind \in NamespacedKinds, NEW sel \in SUBSET Names,
             Learn(c, <<n, kind>>, sel)
      PROVE  KubernetesInv'
  BY <1>1, <1>3, LearnKeeps
<1>4. CASE list_namespaced_custom_object(c, n)
  <2>1. "Custom" \in NamespacedKinds
    BY DEF NamespacedKinds
  <2>2. \A sel \in {Names} \union {{o} : o \in Names} : sel \in SUBSET Names
    OBVIOUS
  <2> QED
    BY <1>2, <1>3, <1>4, <2>1, <2>2 DEF list_namespaced_custom_object
<1>5. CASE list_namespaced_event(c, n)
  BY <1>2, <1>3, <1>5 DEF list_namespaced_event, NamespacedKinds
<1>6. CASE \/ list_namespaced_ingress(c, n) \/ list_namespaced_job(c, n)
           \/ list_namespaced_persistent_volume_claim(c, n) \/ list_namespaced_pod(c, n)
           \/ list_namespaced_service(c, n) \/ list_namespaced_service_account(c, n)
  BY <1>2, <1>6
     DEF NamespacedKinds, ListOrWatch, list_namespaced_ingress, list_namespaced_job,
         list_namespaced_persistent_volume_claim, list_namespaced_pod,
         list_namespaced_service, list_namespaced_service_account
<1> QED
  BY <1>4, <1>5, <1>6 DEF List_

LEMMA MakerIs ==
    ASSUME MakersInv, NEW m \in Makers, NEW mk, IsMaker(mk),
           maker' = [maker EXCEPT ![m] = mk]
    PROVE  MakersInv'
  BY DEF MakersInv, IsMaker

LEMMA MakersStep == MakersInv /\ [Next]_vars => MakersInv'
<1> SUFFICES ASSUME MakersInv, [Next]_vars
             PROVE  MakersInv'
  OBVIOUS
<1>1. ASSUME UNCHANGED maker
      PROVE  MakersInv'
  BY <1>1 DEF MakersInv, IsMaker
<1>2. ASSUME NEW m \in Makers, maker' = [maker EXCEPT ![m] = [pc |-> "idle"]]
      PROVE  MakersInv'
  <2>1. IsMaker([pc |-> "idle"])
    BY DEF IsMaker
  <2> QED
    BY <1>2, <2>1, MakerIs
<1>3. ASSUME NEW m \in Makers, NEW n \in Namespaces, NEW o \in Names, NEW pc \in {"pod", "event"},
             maker' = [maker EXCEPT ![m] = [pc |-> pc, ns |-> n, name |-> o]]
      PROVE  MakersInv'
  <2>1. IsMaker([pc |-> pc, ns |-> n, name |-> o])
    BY DEF IsMaker
  <2> QED
    BY <1>3, <2>1, MakerIs
<1>4. ASSUME NEW n \in Namespaces, NEW o \in Names, Write_(n, o)
      PROVE  MakersInv'
  <2>1. ASSUME NEW k, Create(k) \/ Delete(k) \/ Replace(k) \/ ReplaceInPlace(k)
        PROVE  MakersInv'
    BY <1>1, <2>1 DEF Create, Delete, Replace, ReplaceInPlace, tasks
  <2>2. ASSUME create_namespaced_event(n, o) \/ delete_namespaced_job(n, o)
        PROVE  MakersInv'
    BY <1>1, <2>2 DEF create_namespaced_event, delete_namespaced_job, tasks
  <2>3. ASSUME NEW m \in Makers, create_namespaced_job(m, n, o)
        PROVE  MakersInv'
    BY <1>3, <2>3 DEF create_namespaced_job
  <2>4. ASSUME NEW m \in Makers, PodFor(m, n, o)
        PROVE  MakersInv'
    BY <1>3, <2>4 DEF PodFor, create_namespaced_pod
  <2> QED
    BY <1>4, <2>1, <2>2, <2>3, <2>4
       DEF Write_, create_namespaced_custom_object, create_namespaced_config_map,
           create_namespaced_ingress, create_namespaced_network_policy,
           create_namespaced_persistent_volume_claim, create_namespaced_resource_quota,
           create_namespaced_secret, create_namespaced_service,
           create_namespaced_service_account, delete_namespaced_custom_object,
           delete_namespaced_config_map, delete_namespaced_ingress,
           delete_namespaced_pod, delete_namespaced_persistent_volume_claim,
           delete_namespaced_service, delete_namespaced_service_account,
           patch_namespaced_custom_object_status, replace_namespaced_custom_object,
           patch_namespaced_ingress_status, patch_namespaced_pod_status,
           patch_namespaced_secret, replace_namespaced_secret
<1>5. ASSUME NEW c \in Clients, NEW slot, Watch(c, slot) \/ \E sel, missed : LearnBut(c, slot, sel, missed)
      PROVE  MakersInv'
  BY <1>1, <1>5 DEF Watch, LearnBut
<1>6. ASSUME NEW c \in Clients, NEW k, Read(c, k)
      PROVE  MakersInv'
  BY <1>5, <1>6 DEF Read, Learn
<1>7. ASSUME NEW c \in Clients, NEW slot, List(c, slot)
      PROVE  MakersInv'
  BY <1>5, <1>7 DEF List, Learn
<1>8. ASSUME NEW c \in Clients, NEW n \in Namespaces, NEW o \in Names, Read_(c, n, o)
      PROVE  MakersInv'
  BY <1>6, <1>8
     DEF Read_, get_namespaced_custom_object, read_namespaced_config_map,
         read_namespaced_ingress, read_namespaced_job, read_namespaced_network_policy,
         read_namespaced_persistent_volume_claim, read_namespaced_pod,
         read_namespaced_pod_status, read_namespaced_resource_quota,
         read_namespaced_secret, read_namespaced_service,
         read_namespaced_service_account
<1>9. ASSUME NEW c \in Clients, NEW n \in Namespaces, List_(c, n)
      PROVE  MakersInv'
  BY <1>5, <1>7, <1>9
     DEF Learn, List_, ListOrWatch, list_namespaced_custom_object, list_namespaced_event,
         list_namespaced_ingress, list_namespaced_job,
         list_namespaced_persistent_volume_claim, list_namespaced_pod,
         list_namespaced_service, list_namespaced_service_account
<1>10. ASSUME NEW n \in Namespaces, create_namespace(n) \/ delete_namespace(n)
       PROVE  MakersInv'
  BY <1>1, <1>10 DEF create_namespace, delete_namespace, tasks
<1>11. ASSUME NEW n \in Namespaces, NEW c \in Clients, read_namespace(c, n)
       PROVE  MakersInv'
  BY <1>6, <1>11 DEF read_namespace
<1>12. ASSUME NEW o \in Names, create_persistent_volume(o) \/ delete_persistent_volume(o)
       PROVE  MakersInv'
  BY <1>1, <1>12 DEF create_persistent_volume, delete_persistent_volume, Create, Delete, tasks
<1>13. ASSUME NEW c \in Clients, NEW o \in Names, read_persistent_volume(c, o)
       PROVE  MakersInv'
  BY <1>6, <1>13 DEF read_persistent_volume
<1>14. ASSUME NEW c \in Clients, list_namespace(c) \/ list_persistent_volume(c)
       PROVE  MakersInv'
  BY <1>5, <1>7, <1>14 DEF list_namespace, list_persistent_volume
<1>15. ASSUME NEW c \in Clients, first_readline(c) \/ next_event(c) \/ watch_ends(c)
       PROVE  MakersInv'
  BY <1>1, <1>15 DEF first_readline, next_event, watch_ends
<1>16. ASSUME NEW m \in Makers, start_event(m) \/ maker_stops(m)
       PROVE  MakersInv'
  BY <1>2, <1>16 DEF start_event, maker_stops
<1>17. CASE UNCHANGED vars
  BY <1>1, <1>17 DEF vars
<1> QED
  BY <1>4, <1>8, <1>9, <1>10, <1>11, <1>12, <1>13, <1>14, <1>15, <1>16, <1>17 DEF Next

LEMMA StepInv == KubernetesInv /\ MakersInv /\ [Next]_vars => KubernetesInv'
<1> SUFFICES ASSUME KubernetesInv, MakersInv, [Next]_vars
             PROVE  KubernetesInv'
  OBVIOUS
<1>1. NamespaceSlot \in Slots /\ VolumeSlot \in Slots
  BY DEF Slots
<1>2. ASSUME NEW n \in Namespaces, create_namespace(n)
      PROVE  KubernetesInv'
  BY <1>2, KeysAndSlots, WriteKeeps DEF create_namespace, tasks
<1>3. ASSUME NEW n \in Namespaces, delete_namespace(n)
      PROVE  KubernetesInv'
  BY <1>3, delete_namespaceKeeps
<1>4. ASSUME NEW n \in Namespaces, NEW c \in Clients, read_namespace(c, n)
      PROVE  KubernetesInv'
  BY <1>4, KeysAndSlots, ReadKeeps DEF read_namespace
<1>5. ASSUME NEW o \in Names, create_persistent_volume(o) \/ delete_persistent_volume(o)
      PROVE  KubernetesInv'
  BY <1>5, KeysAndSlots, CreateKeeps, DeleteKeeps
     DEF create_persistent_volume, delete_persistent_volume, Create, tasks
<1>6. ASSUME NEW c \in Clients, NEW o \in Names, read_persistent_volume(c, o)
      PROVE  KubernetesInv'
  BY <1>6, KeysAndSlots, ReadKeeps DEF read_persistent_volume
<1>7. ASSUME NEW c \in Clients, list_namespace(c) \/ list_persistent_volume(c)
      PROVE  KubernetesInv'
  <2>1. Namespaces \in SUBSET NamesIn(NamespaceSlot)
    BY DEF NamesIn
  <2> QED
    BY <1>1, <1>7, <2>1, ListKeeps, LearnButKeeps
       DEF list_namespace, list_persistent_volume
<1>8. ASSUME NEW m \in Makers, start_event(m)
      PROVE  KubernetesInv'
  <2>1. Key(maker[m].ns, "Event", maker[m].name) \in Keys
    BY <1>8, KeysAndSlots DEF start_event, MakersInv, IsMaker, NamespacedKinds
  <2> QED
    BY <1>8, <2>1, WriteKeeps DEF start_event
<1>9. ASSUME NEW m \in Makers, maker_stops(m)
      PROVE  KubernetesInv'
  BY <1>9, NothingKeeps DEF maker_stops
<1>10. CASE UNCHANGED vars
  BY <1>10, NothingKeeps DEF vars
<1> QED
  BY <1>2, <1>3, <1>4, <1>5, <1>6, <1>7, <1>8, <1>9, <1>10, WriteStep, ReadStep, ListStep,
     first_readlineKeeps, next_eventKeeps, watch_endsKeeps DEF Next

-----------------------------------------------------------------------------
\* Whatever the namespaces, names, tasks and clients, and however many objects
\* are stored, the invariant holds.
THEOREM Invariance == Spec => []KubernetesInv
<1>1. Init => KubernetesInv /\ MakersInv
  BY InitInv DEF Init, MakersInv, IsMaker
<1> QED
  BY <1>1, StepInv, MakersStep, PTL DEF Spec

\* The streams tell the story of the objects (_mock.py, _add_event, and the
\* methods that create, patch, replace and delete).
THEOREM StreamsTell == Spec => []StreamsTellAll
<1>1. KubernetesInv => StreamsTellAll
  <2> SUFFICES ASSUME KubernetesInv, NEW k \in Keys
               PROVE  LET last == CHOOSE i \in About(k) : \A j \in About(k) : j <= i IN
                      IF objects[k] # 0
                        THEN /\ objects[k] \in About(k)
                             /\ \A i \in About(k) : i <= objects[k]
                             /\ streams[k[1]][objects[k]].type # "DELETED"
                        ELSE About(k) # {} /\ k \notin dropped
                               => streams[k[1]][last].type = "DELETED"
    BY DEF StreamsTellAll
  <2> DEFINE last == CHOOSE i \in About(k) : \A j \in About(k) : j <= i
  <2>1. Tells(k)
    BY DEF KubernetesInv
  <2>2. CASE objects[k] # 0
    BY <2>1, <2>2 DEF Tells, Last
  <2>3. CASE objects[k] = 0 /\ About(k) # {} /\ k \notin dropped
    <3>1. PICK i \in About(k) : Last(k, i) /\ streams[k[1]][i].type = "DELETED"
      BY <2>1, <2>3 DEF Tells
    <3>2. last \in About(k) /\ \A j \in About(k) : j <= last
      BY <3>1 DEF Last
    <3>3. About(k) \subseteq Nat
      BY KeysAndSlots, LenProperties DEF About, KubernetesInv, StreamsInv
    <3>4. last = i
      BY <3>1, <3>2, <3>3 DEF Last
    <3> QED
      BY <2>3, <3>1, <3>4
  <2> QED
    BY <2>2, <2>3
<1> QED
  BY <1>1, Invariance, PTL

\* Clients that have seen all events know what is there (_mock.py, the methods
\* that read, list and watch).
THEOREM ClientsKnow == Spec => []ClientsConverge
<1>1. KubernetesInv => ClientsConverge
  <2> SUFFICES ASSUME KubernetesInv, NEW c \in Clients, client[c].pc = "watching",
                      client[c].slot[2] # "Custom"
               PROVE  Converged(c)
    BY DEF ClientsConverge
  <2> DEFINE cl == client[c]
  <2>1. ClientInv(cl)
    BY DEF KubernetesInv, ClientsInv
  <2>2. /\ cl.slot \in Slots /\ cl.sel \subseteq NamesIn(cl.slot)
        /\ \A o \in Told(cl) : Fresh(<<cl.slot, o>>, cl.pos, cl.cache[o])
    BY <2>1 DEF ClientInv, At
  <2>3. Len(streams[cl.slot]) \in Nat /\ DOMAIN streams[cl.slot] = 1..Len(streams[cl.slot])
    BY <2>2, LenProperties DEF KubernetesInv, StreamsInv
  <2> HIDE DEF cl
  <2>4. ASSUME cl.pos = Len(streams[cl.slot]), NEW o \in Told(cl)
        PROVE  <<cl.slot, o>> \in dropped \/ cl.cache[o] = objects[<<cl.slot, o>>]
    <3>1. \A i \in About(<<cl.slot, o>>) : ~(i > cl.pos)
      BY <2>3, <2>4 DEF About
    <3> QED
      BY <2>2, <3>1 DEF Fresh
  <2> QED
    BY <2>4 DEF Converged, cl
<1> QED
  BY <1>1, Invariance, PTL

-----------------------------------------------------------------------------
\* Types

\* An event is about one of the objects that its stream is for.
Said(s) == [type : Types, name : NamesIn(s), rv : Nat]
SaidInv == \A s \in Slots : streams[s] \in Seq(Said(s))

\* What the API keeps beside the objects and the streams.
KeptInv ==
    /\ spaces \subseteq Namespaces
    /\ stored \in [Keys -> Nat]
    /\ writes \in 0..MaxWrites
    /\ dropped \subseteq Keys

LabelsInv == jobOf \in [Keys -> Names \union {NoJob}]

TypesInv == SaidInv /\ KeptInv /\ LabelsInv

\* One more event on one stream.
LEMMA SaidGrows ==
    ASSUME StreamsInv, SaidInv, NEW s \in Slots, NEW note \in Said(s),
           NEW old \in Seq(Said(s)),
           streams' = [streams EXCEPT ![s] = Append(old, note)]
    PROVE  SaidInv'
<1>1. Append(old, note) \in Seq(Said(s))
  BY AppendProperties
<1>2. \A t \in Slots : streams'[t] = IF t = s THEN Append(old, note) ELSE streams[t]
  BY DEF StreamsInv
<1>3. \A t : Said(t)' = Said(t)
  BY DEF Said, NamesIn
<1> QED
  BY <1>1, <1>2, <1>3 DEF SaidInv

LEMMA SaidStays ==
    ASSUME SaidInv, UNCHANGED streams
    PROVE  SaidInv'
BY DEF SaidInv, Said, NamesIn

\* What the event of a change is about.
LEMMA NoteIsSaid ==
    ASSUME StreamsInv, NEW k \in Keys, NEW type \in Types, NEW rv \in Nat
    PROVE  /\ k[1] \in Slots /\ Note(type, k, rv) \in Said(k[1])
           /\ next_resource_version(k[1]) \in Nat
           /\ objects[k] \in Nat
<1>1. k[1] \in Slots /\ k[2] \in NamesIn(k[1]) /\ objects[k] \in Nat
  BY KeysAndSlots DEF StreamsInv
<1>2. Note(type, k, rv) \in Said(k[1])
  BY <1>1 DEF Note, Said
<1>3. next_resource_version(k[1]) \in Nat
  BY <1>1, LenProperties DEF StreamsInv, next_resource_version
<1> QED
  BY <1>1, <1>2, <1>3

LEMMA WriteTypes ==
    ASSUME StreamsInv, TypesInv, NEW k \in Keys, NEW type \in {"ADDED", "MODIFIED"},
           Write(type, k), spaces' \subseteq Namespaces
    PROVE  SaidInv' /\ KeptInv'
<1> DEFINE rv == next_resource_version(k[1])
           note == Note(type, k, rv)
<1>1. type \in Types
  BY DEF Types
<1>2. rv \in Nat /\ k[1] \in Slots
  BY <1>1, NoteIsSaid
<1>3. note \in Said(k[1])
  BY <1>1, <1>2, NoteIsSaid
<1>4. streams[k[1]] \in Seq(Said(k[1]))
  BY <1>2 DEF TypesInv, SaidInv
<1>5. streams' = [streams EXCEPT ![k[1]] = Append(streams[k[1]], note)]
  BY DEF Write
<1> HIDE DEF note
<1>6. SaidInv'
  BY <1>2, <1>3, <1>4, <1>5, SaidGrows DEF TypesInv
<1> HIDE DEF rv
<1>7. stored' \in [Keys -> Nat]
  <2>1. stored' = stored \/ stored' = [stored EXCEPT ![k] = rv]
    BY DEF Write, rv
  <2> QED
    BY <1>2, <2>1 DEF TypesInv, KeptInv
<1>8. writes' \in 0..MaxWrites /\ dropped' \subseteq Keys
  BY BoundAssumption DEF TypesInv, KeptInv, Write
<1> QED
  BY <1>6, <1>7, <1>8 DEF KeptInv

\* Only its own namespace comes into being with an object.
LEMMA StoreNewTypes ==
    ASSUME StreamsInv, TypesInv, NEW k \in Keys, StoreNew(k)
    PROVE  SaidInv' /\ KeptInv'
<1>1. k[1] \in Slots
  BY KeysAndSlots
<1>2. {k[1][1]} \ {Cluster} \subseteq Namespaces
  BY <1>1 DEF Slots, NamespaceSlot, VolumeSlot
<1>3. spaces' \subseteq Namespaces
  BY <1>2 DEF StoreNew, TypesInv, KeptInv
<1> QED
  BY <1>3, WriteTypes DEF StoreNew

LEMMA DeleteTypes ==
    ASSUME StreamsInv, TypesInv, NEW k \in Keys, Delete(k)
    PROVE  TypesInv'
<1>1. "DELETED" \in Types /\ objects[k] \in Nat
  BY DEF Types, StreamsInv
<1>2. k[1] \in Slots /\ Note("DELETED", k, objects[k]) \in Said(k[1])
  BY <1>1, NoteIsSaid
<1>3. streams[k[1]] \in Seq(Said(k[1]))
  BY <1>2 DEF TypesInv, SaidInv
<1>4. SaidInv'
  BY <1>2, <1>3, SaidGrows DEF TypesInv, Delete
<1> QED
  BY <1>4 DEF Delete, TypesInv, KeptInv, LabelsInv

LEMMA ReplaceInPlaceTypes ==
    ASSUME StreamsInv, TypesInv, NEW k \in Keys, ReplaceInPlace(k)
    PROVE  TypesInv'
<1> DEFINE s == k[1]
           rv == next_resource_version(s)
           Updated(i) == i >= stored[k] /\ streams[s][i].name = k[2]
           old == [i \in DOMAIN streams[s] |-> IF Updated(i)
                                                THEN [streams[s][i] EXCEPT !.rv = rv]
                                                ELSE streams[s][i]]
           note == Note("MODIFIED", k, rv)
<1>1. "MODIFIED" \in Types
  BY DEF Types
<1>2. rv \in Nat /\ s \in Slots
  BY <1>1, NoteIsSaid
<1>3. note \in Said(s)
  BY <1>1, <1>2, NoteIsSaid
<1>4. /\ streams[s] \in Seq(Said(s)) /\ Len(streams[s]) \in Nat
      /\ DOMAIN streams[s] = 1..Len(streams[s])
  BY <1>2, LenProperties DEF TypesInv, SaidInv
<1>5. streams' = [streams EXCEPT ![s] = Append(old, note)]
  BY DEF ReplaceInPlace
<1> HIDE DEF note, rv
<1>6. ASSUME NEW i \in 1..Len(streams[s])
      PROVE  old[i] \in Said(s)
  <2>1. streams[s][i] \in Said(s)
    BY <1>4, ElementOfSeq
  <2> QED
    BY <1>2, <1>4, <2>1 DEF Said
<1>7. old \in Seq(Said(s))
  <2>1. old = [i \in 1..Len(streams[s]) |-> old[i]]
    BY <1>4
  <2> HIDE DEF old
  <2> QED
    BY <1>4, <1>6, <2>1, IsASeq
<1> HIDE DEF old
<1>8. SaidInv'
  BY <1>2, <1>3, <1>5, <1>7, SaidGrows DEF TypesInv
<1>9. writes' \in 0..MaxWrites
  BY BoundAssumption DEF TypesInv, KeptInv, ReplaceInPlace
<1> QED
  BY <1>8, <1>9 DEF ReplaceInPlace, TypesInv, KeptInv, LabelsInv

LEMMA delete_namespaced_jobTypes ==
    ASSUME KubernetesInv, TypesInv, NEW n \in Namespaces, NEW j \in Names,
           delete_namespaced_job(n, j)
    PROVE  TypesInv'
<1> DEFINE job == Key(n, "Job", j)
           pod(o) == Key(n, "Pod", o)
           ps == <<n, "Pod">>
           js == <<n, "Job">>
<1>1. /\ ps \in Slots /\ js \in Slots /\ ps # js /\ job \in Keys
      /\ \A o \in Names : pod(o) \in Keys
      /\ StreamsInv
  BY KeysAndSlots DEF Slots, NamespacedKinds, KubernetesInv
<1>2. PICK D \in SUBSET PodsOf(n, j), done \in BOOLEAN : \E order \in Orders(D) :
        streams' = [streams EXCEPT
           ![ps] = @ \o [i \in DOMAIN order |->
                            Note("DELETED", pod(order[i]), objects[pod(order[i])])],
           ![js] = @ \o (IF done THEN <<Note("DELETED", job, objects[job])>> ELSE <<>>)]
  BY DEF delete_namespaced_job
<1>3. PICK order \in Orders(D) :
        streams' = [streams EXCEPT
           ![ps] = @ \o [i \in DOMAIN order |->
                            Note("DELETED", pod(order[i]), objects[pod(order[i])])],
           ![js] = @ \o (IF done THEN <<Note("DELETED", job, objects[job])>> ELSE <<>>)]
  BY <1>2
<1> DEFINE told == [i \in DOMAIN order |->
                      Note("DELETED", pod(order[i]), objects[pod(order[i])])]
           last == IF done THEN <<Note("DELETED", job, objects[job])>> ELSE <<>>
<1>4. D \subseteq Names /\ \A o \in D : objects[pod(o)] # 0
  BY DEF PodsOf
<1>5. /\ Cardinality(D) \in Nat /\ DOMAIN order = 1..Cardinality(D)
      /\ order \in [1..Cardinality(D) -> D]
  BY <1>4, PodsAreFinite, FS_CardinalityType DEF Orders
<1>6. ASSUME NEW k \in Keys
      PROVE  Note("DELETED", k, objects[k]) \in Said(k[1])
  <2>1. "DELETED" \in Types /\ objects[k] \in Nat
    BY <1>1 DEF Types, StreamsInv
  <2> QED
    BY <1>1, <2>1, NoteIsSaid
<1>7. told \in Seq(Said(ps))
  <2>1. ASSUME NEW i \in 1..Cardinality(D)
        PROVE  told[i] \in Said(ps)
    <3>1. pod(order[i]) \in Keys /\ pod(order[i])[1] = ps
      BY <1>1, <1>4, <1>5 DEF Key
    <3>2. told[i] = Note("DELETED", pod(order[i]), objects[pod(order[i])])
      BY <1>5
    <3> HIDE DEF told, pod, ps
    <3> QED
      BY <1>6, <3>1, <3>2
  <2>2. told = [i \in 1..Cardinality(D) |-> told[i]]
    BY <1>5
  <2> DEFINE c == Cardinality(D)
             S == Said(ps)
  <2>3. c \in Nat /\ (\A i \in 1..c : told[i] \in S) /\ told = [i \in 1..c |-> told[i]]
    BY <1>5, <2>1, <2>2
  <2> HIDE DEF told, c, S
  <2>4. told \in Seq(S)
    BY <2>3, IsASeq
  <2> QED
    BY <2>4 DEF S
<1>8. last \in Seq(Said(js))
  <2>1. job[1] = js
    BY DEF Key
  <2>2. Note("DELETED", job, objects[job]) \in Said(js)
    BY <1>1, <1>6, <2>1
  <2> QED
    BY <2>2, EmptySeq
<1>9. streams' = [streams EXCEPT ![ps] = @ \o told, ![js] = @ \o last]
  BY <1>3
<1> HIDE DEF told, last, ps, js
<1>10. \A s \in Slots : streams'[s] = IF s = ps THEN streams[s] \o told
                                      ELSE IF s = js THEN streams[s] \o last ELSE streams[s]
  BY <1>1, <1>9 DEF StreamsInv
<1>11. \A s \in Slots : streams'[s] \in Seq(Said(s))
  <2>1. \A s \in Slots : streams[s] \in Seq(Said(s))
    BY DEF TypesInv, SaidInv
  <2>2. streams[ps] \o told \in Seq(Said(ps)) /\ streams[js] \o last \in Seq(Said(js))
    BY <1>1, <1>7, <1>8, <2>1, ConcatProperties
  <2> QED
    BY <1>10, <2>1, <2>2
<1>12. SaidInv'
  BY <1>11 DEF SaidInv, Said, NamesIn
<1> QED
  BY <1>12 DEF delete_namespaced_job, TypesInv, KeptInv, LabelsInv

LEMMA delete_namespaceTypes ==
    ASSUME StreamsInv, TypesInv, NEW n \in Namespaces, delete_namespace(n)
    PROVE  TypesInv'
<1> DEFINE space == <<NamespaceSlot, n>>
           gone == {k \in In(n) : objects[k] # 0}
<1>1. space \in Keys /\ space[1] = NamespaceSlot
  BY KeysAndSlots
<1>2. gone \subseteq Keys
  BY <1>1 DEF In
<1>3. dropped' \subseteq Keys
  BY <1>2 DEF delete_namespace, TypesInv, KeptInv
<1>4. SaidInv'
  <2>1. "DELETED" \in Types /\ objects[space] \in Nat
    BY <1>1 DEF Types, StreamsInv
  <2> HIDE DEF space
  <2>2. /\ NamespaceSlot \in Slots
        /\ Note("DELETED", space, objects[space]) \in Said(NamespaceSlot)
    BY <1>1, <2>1, NoteIsSaid
  <2>3. streams[NamespaceSlot] \in Seq(Said(NamespaceSlot))
    BY <2>2 DEF TypesInv, SaidInv
  <2>4. \/ streams' = [streams EXCEPT ![NamespaceSlot] =
                         Append(streams[NamespaceSlot],
                                Note("DELETED", space, objects[space]))]
        \/ UNCHANGED streams
    BY DEF delete_namespace, space
  <2> QED
    BY <2>2, <2>3, <2>4, SaidGrows, SaidStays DEF TypesInv
<1> QED
  BY <1>3, <1>4 DEF delete_namespace, TypesInv, KeptInv, LabelsInv

LEMMA LabelsStay ==
    ASSUME LabelsInv, UNCHANGED jobOf
    PROVE  LabelsInv'
BY DEF LabelsInv

\* A pod has the label of the job that its task has under way, or none.
LEMMA PodForTypes ==
    ASSUME StreamsInv, MakersInv, TypesInv, NEW n \in Namespaces, NEW o \in Names,
           NEW m \in Makers, PodFor(m, n, o)
    PROVE  TypesInv'
<1>1. PICK job \in Names \union {NoJob} : create_namespaced_pod(m, n, o, job)
  BY DEF PodFor, MakersInv, IsMaker
<1>2. Key(n, "Pod", o) \in Keys
  BY KeysAndSlots DEF NamespacedKinds
<1>3. SaidInv' /\ KeptInv'
  BY <1>1, <1>2, StoreNewTypes DEF create_namespaced_pod
<1>4. LabelsInv'
  BY <1>1, <1>2 DEF create_namespaced_pod, TypesInv, LabelsInv
<1> QED
  BY <1>3, <1>4 DEF TypesInv

LEMMA WriteStepTypes ==
    ASSUME KubernetesInv, MakersInv, TypesInv, NEW n \in Namespaces, NEW o \in Names,
           Write_(n, o)
    PROVE  TypesInv'
<1>1. /\ \A kind \in NamespacedKinds : Key(n, kind, o) \in Keys
      /\ StreamsInv
  BY KeysAndSlots DEF KubernetesInv
<1>2. ASSUME NEW kind \in NamespacedKinds, Create(Key(n, kind, o))
      PROVE  TypesInv'
  BY <1>1, <1>2, StoreNewTypes, LabelsStay DEF Create, TypesInv
<1>3. ASSUME NEW kind \in NamespacedKinds, Delete(Key(n, kind, o))
      PROVE  TypesInv'
  BY <1>1, <1>3, DeleteTypes
<1>4. ASSUME NEW kind \in NamespacedKinds, Replace(Key(n, kind, o))
      PROVE  TypesInv'
  BY <1>1, <1>4, WriteTypes, LabelsStay DEF Replace, TypesInv, KeptInv
<1>5. ASSUME ReplaceInPlace(Key(n, "Custom", o))
      PROVE  TypesInv'
  BY <1>1, <1>5, ReplaceInPlaceTypes DEF NamespacedKinds
<1>6. ASSUME create_namespaced_event(n, o)
      PROVE  TypesInv'
  <2>1. Key(n, "Event", o) \in Keys
    BY <1>1 DEF NamespacedKinds
  <2> QED
    BY <1>1, <1>6, <2>1, WriteTypes, LabelsStay
       DEF create_namespaced_event, TypesInv, KeptInv
<1>7. ASSUME NEW m \in Makers, create_namespaced_job(m, n, o)
      PROVE  TypesInv'
  <2>1. Key(n, "Job", o) \in Keys
    BY <1>1 DEF NamespacedKinds
  <2> QED
    BY <1>1, <1>7, <2>1, StoreNewTypes, LabelsStay DEF create_namespaced_job, TypesInv
<1>8. ASSUME NEW m \in Makers, PodFor(m, n, o)
      PROVE  TypesInv'
  BY <1>1, <1>8, PodForTypes
<1>9. CASE delete_namespaced_job(n, o)
  BY <1>9, delete_namespaced_jobTypes
<1>10. CASE \/ create_namespaced_custom_object(n, o) \/ create_namespaced_config_map(n, o)
            \/ create_namespaced_ingress(n, o) \/ create_namespaced_network_policy(n, o)
            \/ create_namespaced_persistent_volume_claim(n, o)
            \/ create_namespaced_resource_quota(n, o) \/ create_namespaced_secret(n, o)
            \/ create_namespaced_service(n, o) \/ create_namespaced_service_account(n, o)
  BY <1>2, <1>10
     DEF NamespacedKinds, create_namespaced_custom_object, create_namespaced_config_map,
         create_namespaced_ingress, create_namespaced_network_policy,
         create_namespaced_persistent_volume_claim, create_namespaced_resource_quota,
         create_namespaced_secret, create_namespaced_service,
         create_namespaced_service_account
<1>11. CASE \/ delete_namespaced_custom_object(n, o) \/ delete_namespaced_config_map(n, o)
            \/ delete_namespaced_ingress(n, o) \/ delete_namespaced_pod(n, o)
            \/ delete_namespaced_persistent_volume_claim(n, o)
            \/ delete_namespaced_service(n, o) \/ delete_namespaced_service_account(n, o)
  BY <1>3, <1>11
     DEF NamespacedKinds, delete_namespaced_custom_object, delete_namespaced_config_map,
         delete_namespaced_ingress, delete_namespaced_pod,
         delete_namespaced_persistent_volume_claim, delete_namespaced_service,
         delete_namespaced_service_account
<1>12. CASE \/ patch_namespaced_custom_object_status(n, o)
            \/ replace_namespaced_custom_object(n, o)
            \/ patch_namespaced_ingress_status(n, o) \/ patch_namespaced_pod_status(n, o)
            \/ patch_namespaced_secret(n, o) \/ replace_namespaced_secret(n, o)
  BY <1>4, <1>5, <1>12
     DEF NamespacedKinds, patch_namespaced_custom_object_status,
         replace_namespaced_custom_object, patch_namespaced_ingress_status,
         patch_namespaced_pod_status, patch_namespaced_secret, replace_namespaced_secret
<1> QED
  BY <1>6, <1>7, <1>8, <1>9, <1>10, <1>11, <1>12 DEF Write_

\* What clients do changes nothing of the API.
LEMMA NothingTypes ==
    ASSUME TypesInv, UNCHANGED <<spaces, streams, stored, jobOf, writes, dropped>>
    PROVE  TypesInv'
BY SaidStays DEF TypesInv, KeptInv, LabelsInv

LEMMA ClientStepTypes ==
    ASSUME TypesInv, NEW c \in Clients,
           \/ \E n \in Namespaces :
                List_(c, n) \/ read_namespace(c, n) \/ \E o \in Names : Read_(c, n, o)
           \/ list_namespace(c) \/ list_persistent_volume(c)
           \/ \E o \in Names : read_persistent_volume(c, o)
           \/ first_readline(c) \/ next_event(c) \/ watch_ends(c)
    PROVE  TypesInv'
<1>1. ASSUME NEW slot, Watch(c, slot) \/ \E sel, missed : LearnBut(c, slot, sel, missed)
      PROVE  TypesInv'
  BY <1>1, NothingTypes DEF Watch, LearnBut
<1>2. ASSUME NEW k, Read(c, k)
      PROVE  TypesInv'
  BY <1>1, <1>2 DEF Read, Learn
<1>3. ASSUME NEW slot, List(c, slot)
      PROVE  TypesInv'
  BY <1>1, <1>3 DEF List, Learn
<1>4. ASSUME NEW n \in Namespaces, NEW o \in Names, Read_(c, n, o)
      PROVE  TypesInv'
  BY <1>2, <1>4
     DEF Read_, get_namespaced_custom_object, read_namespaced_config_map,
         read_namespaced_ingress, read_namespaced_job, read_namespaced_network_policy,
         read_namespaced_persistent_volume_claim, read_namespaced_pod,
         read_namespaced_pod_status, read_namespaced_resource_quota,
         read_namespaced_secret, read_namespaced_service,
         read_namespaced_service_account
<1>5. ASSUME NEW n \in Namespaces, List_(c, n)
      PROVE  TypesInv'
  BY <1>1, <1>3, <1>5
     DEF Learn, List_, ListOrWatch, list_namespaced_custom_object, list_namespaced_event,
         list_namespaced_ingress, list_namespaced_job,
         list_namespaced_persistent_volume_claim, list_namespaced_pod,
         list_namespaced_service, list_namespaced_service_account
<1>6. ASSUME \/ \E n \in Namespaces : read_namespace(c, n)
             \/ \E o \in Names : read_persistent_volume(c, o)
      PROVE  TypesInv'
  BY <1>2, <1>6 DEF read_namespace, read_persistent_volume
<1>7. CASE list_namespace(c) \/ list_persistent_volume(c)
  BY <1>1, <1>3, <1>7 DEF list_namespace, list_persistent_volume
<1>8. CASE first_readline(c) \/ next_event(c) \/ watch_ends(c)
  BY <1>8, NothingTypes DEF first_readline, next_event, watch_ends
<1> QED
  BY <1>4, <1>5, <1>6, <1>7, <1>8

LEMMA TypesStep == KubernetesInv /\ MakersInv /\ TypesInv /\ [Next]_vars => TypesInv'
<1> SUFFICES ASSUME KubernetesInv, MakersInv, TypesInv, [Next]_vars
             PROVE  TypesInv'
  OBVIOUS
<1>1. StreamsInv
  BY DEF KubernetesInv
<1>2. ASSUME NEW n \in Namespaces, create_namespace(n)
      PROVE  TypesInv'
  <2>1. spaces' \subseteq Namespaces
    BY <1>2 DEF create_namespace, TypesInv, KeptInv
  <2> QED
    BY <1>1, <1>2, <2>1, KeysAndSlots, WriteTypes, LabelsStay DEF create_namespace, TypesInv
<1>3. ASSUME NEW n \in Namespaces, delete_namespace(n)
      PROVE  TypesInv'
  BY <1>1, <1>3, delete_namespaceTypes
<1>4. ASSUME NEW o \in Names, create_persistent_volume(o) \/ delete_persistent_volume(o)
      PROVE  TypesInv'
  BY <1>1, <1>4, KeysAndSlots, StoreNewTypes, DeleteTypes, LabelsStay
     DEF create_persistent_volume, delete_persistent_volume, Create, TypesInv
<1>5. ASSUME NEW m \in Makers, start_event(m)
      PROVE  TypesInv'
  <2>1. Key(maker[m].ns, "Event", maker[m].name) \in Keys
    BY <1>5, KeysAndSlots DEF start_event, MakersInv, IsMaker, NamespacedKinds
  <2> QED
    BY <1>1, <1>5, <2>1, WriteTypes, LabelsStay DEF start_event, TypesInv, KeptInv
<1>6. ASSUME NEW m \in Makers, maker_stops(m)
      PROVE  TypesInv'
  BY <1>6, NothingTypes DEF maker_stops
<1>7. ASSUME NEW c \in Clients,
             \/ \E n \in Namespaces :
                  List_(c, n) \/ read_namespace(c, n) \/ \E o \in Names : Read_(c, n, o)
             \/ list_namespace(c) \/ list_persistent_volume(c)
             \/ \E o \in Names : read_persistent_volume(c, o)
             \/ first_readline(c) \/ next_event(c) \/ watch_ends(c)
      PROVE  TypesInv'
  BY <1>7, ClientStepTypes
<1>8. CASE UNCHANGED vars
  BY <1>8, NothingTypes DEF vars
<1> QED
  BY <1>2, <1>3, <1>4, <1>5, <1>6, <1>7, <1>8, WriteStepTypes DEF Next

\* The variables have their types: above all, every event is about an object
\* that its stream is for (_mock.py, _add_event and _store_object).
THEOREM KubernetesTypes == Spec => []TypeOK
<1>1. Init => TypesInv
  <2> SUFFICES ASSUME Init
               PROVE  TypesInv
    OBVIOUS
  <2>1. SaidInv
    BY EmptySeq DEF Init, SaidInv
  <2> QED
    BY <2>1, BoundAssumption DEF Init, TypesInv, KeptInv, LabelsInv
<1>2. Init => MakersInv
  BY DEF Init, MakersInv, IsMaker
<1>3. KubernetesInv /\ MakersInv /\ TypesInv => TypeOK
  BY DEF TypeOK, KubernetesInv, StreamsInv, MakersInv, IsMaker, ClientsInv, ClientInv,
         TypesInv, SaidInv, Said, Types, KeptInv, LabelsInv
<1> QED
  BY <1>1, <1>2, <1>3, InitInv, StepInv, MakersStep, TypesStep, PTL DEF Spec

=============================================================================
