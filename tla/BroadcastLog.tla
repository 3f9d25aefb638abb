---------------------------- MODULE BroadcastLog ----------------------------
(***************************************************************************)
(* What safir.asyncio.AsyncMultiQueue promises its callers, without saying *)
(* how: a sequence of logs, of which only the last accepts items.  A       *)
(* reader attaches to the last log at some position, receives every item   *)
(* from that position on, in order and once each, and finishes when the    *)
(* log it is attached to has been sealed and holds nothing more for it.    *)
(* There are no end markers, no triggers and no waiting here.              *)
(***************************************************************************)
EXTENDS Naturals, Sequences

CONSTANTS
    Readers,    \* the iterators that aiter_from may create
    Items,      \* what a writer may put
    MaxClears,  \* bound: how many times the queue is cleared
    MaxStart    \* bound: the largest starting position of a reader

VARIABLES
    log,        \* log[g] is what was put between the clears g and g + 1
    sealed,     \* sealed[g]: no more items for log g
    last,       \* the log that new items and new readers go to
    state,      \* "idle", "reading", "finished" or "left", per reader
    attached,   \* the log a reader reads
    cursor,     \* how many positions of its log a reader has passed
    received    \* what a reader was given

vars == <<log, sealed, last, state, attached, cursor, received>>

Gens == 0..MaxClears

Init ==
    /\ log = [g \in Gens |-> <<>>]
    /\ sealed = [g \in Gens |-> FALSE]
    /\ last = 0
    /\ state = [r \in Readers |-> "idle"]
    /\ attached = [r \in Readers |-> 0]
    /\ cursor = [r \in Readers |-> 0]
    /\ received = [r \in Readers |-> <<>>]

Publish(item) ==
    /\ ~sealed[last]
    /\ log' = [log EXCEPT ![last] = Append(@, item)]
    /\ UNCHANGED <<sealed, last, state, attached, cursor, received>>

Seal ==
    /\ sealed' = [sealed EXCEPT ![last] = TRUE]
    /\ UNCHANGED <<log, last, state, attached, cursor, received>>

Reset ==
    /\ last < MaxClears
    /\ sealed' = [sealed EXCEPT ![last] = TRUE]
    /\ last' = last + 1
    /\ UNCHANGED <<log, state, attached, cursor, received>>

Attach(r, start) ==
    /\ state[r] = "idle"
    /\ state' = [state EXCEPT ![r] = "reading"]
    /\ attached' = [attached EXCEPT ![r] = last]
    /\ cursor' = [cursor EXCEPT ![r] = start]
    /\ UNCHANGED <<log, sealed, last, received>>

Deliver(r) ==
    /\ state[r] = "reading"
    /\ cursor[r] < Len(log[attached[r]])
    /\ cursor' = [cursor EXCEPT ![r] = @ + 1]
    /\ received' = [received EXCEPT
                      ![r] = Append(@, log[attached[r]][cursor[r] + 1])]
    /\ UNCHANGED <<log, sealed, last, state, attached>>

Finish(r) ==
    /\ state[r] = "reading"
    /\ sealed[attached[r]]
    /\ cursor[r] >= Len(log[attached[r]])
    /\ state' = [state EXCEPT ![r] = "finished"]
    /\ UNCHANGED <<log, sealed, last, attached, cursor, received>>

\* A reader's timeout passes, or its consumer drops it.
Leave(r) ==
    /\ state[r] = "reading"
    /\ state' = [state EXCEPT ![r] = "left"]
    /\ UNCHANGED <<log, sealed, last, attached, cursor, received>>

Next ==
    \/ \E item \in Items : Publish(item)
    \/ Seal
    \/ Reset
    \/ \E r \in Readers :
          \/ \E start \in 0..MaxStart : Attach(r, start)
          \/ Deliver(r)
          \/ Finish(r)
          \/ Leave(r)

Spec == Init /\ [][Next]_vars

\* Every reader that has something to receive or an end to see gets it,
\* unless it leaves.
FairSpec ==
    /\ Spec
    /\ \A r \in Readers : WF_vars(Deliver(r) \/ Finish(r))
=============================================================================
