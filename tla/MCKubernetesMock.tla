-------------------------- MODULE MCKubernetesMock --------------------------
(* KubernetesMock with interchangeable names of objects, and with one group  *)
(* of kinds in use at a time: a kind shares nothing with another but the     *)
(* namespace, except for jobs, pods and events.  Two namespaces are there    *)
(* only together with each other: they share nothing but their own list.     *)
EXTENDS KubernetesMock, TLC

Symmetry == Permutations(Names)

Group(slot) == IF slot[2] \in {"Job", "Pod", "Event"} THEN "Pod" ELSE slot[2]

InUse ==
    {s \in Slots : streams[s] # <<>>}
        \union {client[c].slot : c \in {d \in Clients : client[d].pc # "idle"}}

\* Nor does a namespace share anything with another but the list of them: while
\* another list is in use, there is no other namespace than this one.
Here == CHOOSE n \in Namespaces : TRUE
Listed == {streams[NamespaceSlot][i].name : i \in DOMAIN streams[NamespaceSlot]}

InFocus ==
    LET others == InUse \ {NamespaceSlot} IN
    others # {} =>
      /\ Cardinality({Group(s) : s \in others}) = 1
      /\ spaces \union Listed \subseteq {Here}

MCNext ==
    \/ \E n \in Namespaces :
         create_namespace(n) \/ delete_namespace(n) \/ \E c \in Clients : read_namespace(c, n)
    \/ \E o \in Names :
         \/ Write_(Here, o) \/ create_persistent_volume(o) \/ delete_persistent_volume(o)
         \/ \E c \in Clients : Read_(c, Here, o) \/ read_persistent_volume(c, o)
    \/ \E m \in Makers : start_event(m) \/ maker_stops(m)
    \/ \E c \in Clients :
         \/ list_namespace(c) \/ list_persistent_volume(c) \/ List_(c, Here)
         \/ first_readline(c) \/ next_event(c) \/ watch_ends(c)

MCSpec == Init /\ [][MCNext]_vars

\* The behaviours that are about custom objects only.
CustomNext ==
    \/ \E n \in Namespaces, o \in Names :
         \/ create_namespaced_custom_object(n, o)
         \/ delete_namespaced_custom_object(n, o)
         \/ patch_namespaced_custom_object_status(n, o)
         \/ replace_namespaced_custom_object(n, o)
         \/ \E c \in Clients : get_namespaced_custom_object(c, n, o)
    \/ \E n \in Namespaces, c \in Clients : list_namespaced_custom_object(c, n)
    \/ \E c \in Clients : first_readline(c) \/ next_event(c) \/ watch_ends(c)

CustomSpec == Init /\ [][CustomNext]_vars
=============================================================================
