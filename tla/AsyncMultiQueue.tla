-------------------------- MODULE AsyncMultiQueue --------------------------
(***************************************************************************)
(* safir.asyncio.AsyncMultiQueue (src/safir/asyncio/_multiqueue.py).       *)
(*                                                                         *)
(* A step is what one asyncio task does between two suspension points.     *)
(* Writers (put, close, clear) never suspend, so each is one action.  A    *)
(* reader is an async generator; it suspends when it yields an item to its *)
(* consumer and when it waits for its trigger, and it is resumed by its    *)
(* consumer or by the event loop.  Everything in between is one action.    *)
(*                                                                         *)
(* `_contents` is a list object that clear replaces while readers keep a   *)
(* reference to the old one, so contents is indexed by generation, gen     *)
(* being the one `self._contents` refers to.                               *)
(***************************************************************************)
EXTENDS Integers, Sequences

CONSTANTS
    Readers,    \* one per call of aiter_from
    Items,      \* what writers put
    End,        \* the Ellipsis object
    MaxLen,     \* bound: put and close stop at this length of _contents
    MaxClears,  \* bound: how many times clear is called
    MaxStart    \* bound: the largest start given to aiter_from

ASSUME EndAssumption == End \notin Items
ASSUME BoundAssumption ==
    MaxLen \in Nat /\ MaxClears \in Nat /\ MaxStart \in Nat

VARIABLES
    contents,   \* the list object of every generation
    gen,        \* the generation self._contents refers to
    triggers,   \* the readers whose Event is in self._triggers
    pc,         \* where a reader is suspended
    from,       \* the generation a reader captured in `contents`
    start,      \* the reader's argument
    timed,      \* whether the reader was given a timeout
    next,       \* index of the next item: position, moved on by the slice
    end,        \* length of _contents when the current slice was taken
    trig,       \* whether the reader's Event is set
    got         \* what the reader's consumer has received

queueVars == <<contents, gen>>
readerVars == <<pc, from, start, timed, next, end, trig, got>>
vars == <<contents, gen, triggers, pc, from, start, timed, next, end, trig, got>>

Gens == 0..MaxClears

\* "idle": aiter_from not called; "created": the generator exists but has not
\* run; "yielded": suspended in yield; "waiting": suspended in trigger.wait();
\* "done": returned; "gone": timed out, or closed or cancelled in its body;
\* "dropped": closed before it ever ran.
PCs == {"idle", "created", "yielded", "waiting", "done", "gone", "dropped"}

\* The generator object exists and may still run.
Live(r) == pc[r] \in {"created", "yielded", "waiting"}

\* property finished, of a list object.
Ended(c) == c # <<>> /\ c[Len(c)] = End

Init ==
    /\ contents = [g \in Gens |-> <<>>]
    /\ gen = 0
    /\ triggers = {}
    /\ pc = [r \in Readers |-> "idle"]
    /\ from = [r \in Readers |-> 0]
    /\ start = [r \in Readers |-> 0]
    /\ timed = [r \in Readers |-> FALSE]
    /\ next = [r \in Readers |-> 0]
    /\ end = [r \in Readers |-> 0]
    /\ trig = [r \in Readers |-> FALSE]
    /\ got = [r \in Readers |-> <<>>]

-----------------------------------------------------------------------------
\* Writers

\* Mutant: only one waiting reader is told.
SetOneTrigger(S) ==
    trig' = [r \in Readers |-> trig[r] \/ (S # {} /\ r = CHOOSE x \in S : TRUE)]

\* for trigger in triggers: trigger.set()
SetTriggers(S) == trig' = [r \in Readers |-> r \in S \/ trig[r]]

\* put appends unless the queue is finished; it raises, and changes nothing,
\* otherwise.
Put(item) ==
    /\ Len(contents[gen]) < MaxLen
    /\ ~Ended(contents[gen])
    /\ contents' = [contents EXCEPT ![gen] = Append(@, item)]
    /\ SetTriggers(triggers)
    /\ UNCHANGED <<gen, triggers, pc, from, start, timed, next, end, got>>

\* close appends the end marker each time it is called.
Close ==
    /\ Len(contents[gen]) < MaxLen
    /\ contents' = [contents EXCEPT ![gen] = Append(@, End)]
    /\ SetTriggers(triggers)
    /\ UNCHANGED <<gen, triggers, pc, from, start, timed, next, end, got>>

\* Mutant: clear does not end the list it abandons.
ClearWithoutEnd ==
    /\ gen < MaxClears
    /\ gen' = gen + 1
    /\ triggers' = {}
    /\ UNCHANGED <<contents, trig, pc, from, start, timed, next, end, got>>

\* clear starts a new list with no readers, and ends the old one for the
\* readers that hold it.
Clear ==
    /\ gen < MaxClears
    /\ gen' = gen + 1
    /\ triggers' = {}
    /\ IF Ended(contents[gen])
         THEN UNCHANGED <<contents, trig>>
         ELSE /\ contents' = [contents EXCEPT ![gen] = Append(@, End)]
              /\ SetTriggers(triggers)
    /\ UNCHANGED <<pc, from, start, timed, next, end, got>>

-----------------------------------------------------------------------------
\* Readers

AiterFrom(r) ==
    /\ pc[r] = "idle"
    /\ pc' = [pc EXCEPT ![r] = "created"]
    /\ from' = [from EXCEPT ![r] = gen]
    /\ \E s \in 0..MaxStart :
          /\ start' = [start EXCEPT ![r] = s]
          /\ next' = [next EXCEPT ![r] = s]
    /\ \E t \in BOOLEAN : timed' = [timed EXCEPT ![r] = t]
    /\ triggers' = triggers \union {r}
    /\ UNCHANGED <<contents, gen, end, trig, got>>

\* Mutant: no finally clause.
LeaveWithoutFinally(r, how) ==
    /\ pc' = [pc EXCEPT ![r] = how]
    /\ UNCHANGED <<triggers, next, got>>

\* Leaving the generator's body runs its finally clause.
Leave(r, how) ==
    /\ pc' = [pc EXCEPT ![r] = how]
    /\ triggers' = triggers \ {r}
    /\ UNCHANGED <<next, got>>

\* The for loop over the slice: return at the end marker, else yield the item.
NextInSlice(r) ==
    LET item == contents[from[r]][next[r] + 1] IN
    \/ /\ item = End
       /\ Leave(r, "done")
    \/ /\ item # End
       /\ pc' = [pc EXCEPT ![r] = "yielded"]
       /\ next' = [next EXCEPT ![r] = @ + 1]
       /\ got' = [got EXCEPT ![r] = Append(@, item)]
       /\ UNCHANGED triggers

\* await trigger.wait() with the Event not set.
Suspend(r) ==
    /\ pc' = [pc EXCEPT ![r] = "waiting"]
    /\ UNCHANGED <<triggers, next, got>>

\* Mutant: a reader past the end of the list does not look whether it ended.
LoopTopIgnoringEnd(r) ==
    LET c == contents[from[r]] IN
    /\ trig' = [trig EXCEPT ![r] = FALSE]
    /\ end' = [end EXCEPT ![r] = Len(c)]
    /\ \/ next[r] < Len(c) /\ NextInSlice(r)
       \/ next[r] >= Len(c) /\ Suspend(r)

\* The body of the while loop, from trigger.clear() to a suspension.
LoopTop(r) ==
    LET c == contents[from[r]] IN
    /\ trig' = [trig EXCEPT ![r] = FALSE]
    /\ end' = [end EXCEPT ![r] = Len(c)]
    /\ \/ next[r] < Len(c) /\ NextInSlice(r)
       \/ next[r] >= Len(c) /\ Ended(c) /\ Leave(r, "done")
       \/ next[r] >= Len(c) /\ ~Ended(c) /\ Suspend(r)

\* The consumer asks a new generator for its first item.
FirstStep(r) ==
    /\ pc[r] = "created"
    /\ LoopTop(r)
    /\ UNCHANGED <<contents, gen, from, start, timed>>

\* Mutant: the rest of the slice is skipped.
ContinueSliceSkipping(r) ==
    /\ pc[r] = "yielded"
    /\ next[r] < end[r]
    /\ next' = [next EXCEPT ![r] = end[r]]
    /\ pc' = [pc EXCEPT ![r] = "waiting"]
    /\ UNCHANGED <<contents, gen, triggers, from, start, timed, end, trig, got>>

\* The consumer asks for the next item while the slice has more.
ContinueSlice(r) ==
    /\ pc[r] = "yielded"
    /\ next[r] < end[r]
    /\ NextInSlice(r)
    /\ UNCHANGED <<contents, gen, from, start, timed, end, trig>>

\* Mutant: the trigger is cleared after the items were yielded, just before
\* waiting for it.
FinishSliceClearingLate(r) ==
    /\ pc[r] = "yielded"
    /\ next[r] >= end[r]
    /\ trig' = [trig EXCEPT ![r] = FALSE]
    /\ Suspend(r)
    /\ UNCHANGED <<contents, gen, from, start, timed, end>>

\* The consumer asks for the next item when the slice is used up: wait for the
\* trigger, which does not suspend if the trigger was set meanwhile.
FinishSlice(r) ==
    /\ pc[r] = "yielded"
    /\ next[r] >= end[r]
    /\ \/ trig[r] /\ LoopTop(r)
       \/ ~trig[r] /\ Suspend(r) /\ UNCHANGED <<end, trig>>
    /\ UNCHANGED <<contents, gen, from, start, timed>>

\* The event loop resumes a reader whose Event was set.
Wake(r) ==
    /\ pc[r] = "waiting"
    /\ trig[r]
    /\ LoopTop(r)
    /\ UNCHANGED <<contents, gen, from, start, timed>>

\* asyncio.timeout cancels the wait.  It may do so after the Event was set but
\* before the task has run again.
TimeOut(r) ==
    /\ pc[r] = "waiting"
    /\ timed[r]
    /\ Leave(r, "gone")
    /\ UNCHANGED <<contents, gen, from, start, timed, end, trig>>

\* The consumer closes the generator, or its task is cancelled.  The finally
\* clause runs only if the body was entered.
Abandon(r) ==
    /\ \/ pc[r] \in {"yielded", "waiting"} /\ Leave(r, "gone")
       \/ /\ pc[r] = "created"
          /\ pc' = [pc EXCEPT ![r] = "dropped"]
          /\ UNCHANGED <<triggers, next, got>>
    /\ UNCHANGED <<contents, gen, from, start, timed, end, trig>>

Resume(r) == FirstStep(r) \/ ContinueSlice(r) \/ FinishSlice(r) \/ Wake(r)

Next ==
    \/ \E item \in Items : Put(item)
    \/ Close
    \/ Clear
    \/ \E r \in Readers : AiterFrom(r) \/ Resume(r) \/ TimeOut(r) \/ Abandon(r)

Spec == Init /\ [][Next]_vars

\* The event loop runs every task that is ready, and the consumers of the
\* queue are async for loops, which ask for the next item.
FairSpec == Spec /\ \A r \in Readers : WF_vars(Resume(r))

-----------------------------------------------------------------------------
\* Properties

TypeOK ==
    /\ contents \in [Gens -> Seq(Items \union {End})]
    /\ gen \in Gens
    /\ triggers \in SUBSET Readers
    /\ pc \in [Readers -> PCs]
    /\ from \in [Readers -> Gens]
    /\ start \in [Readers -> Nat]
    /\ timed \in [Readers -> BOOLEAN]
    /\ next \in [Readers -> Nat]
    /\ end \in [Readers -> Nat]
    /\ trig \in [Readers -> BOOLEAN]
    /\ got \in [Readers -> Seq(Items)]

\* What a consumer received is the stretch of its list that begins at the
\* start it asked for: nothing is lost, repeated, reordered or taken from the
\* list that replaced it, and no end marker reaches it.
InOrder ==
    \A r \in Readers : pc[r] # "idle" =>
        /\ next[r] = start[r] + Len(got[r])
        /\ \A i \in 1..Len(got[r]) :
              /\ start[r] + i <= Len(contents[from[r]])
              /\ got[r][i] = contents[from[r]][start[r] + i]
              /\ got[r][i] # End

\* A reader sleeps only when there is nothing for it: if its trigger is not
\* set, its list has no further item and has not ended.  (aiter_from yields
\* with the trigger already cleared, so a put between the slice and the wait
\* must leave the trigger set.)
NoLostWakeup ==
    \A r \in Readers : pc[r] = "waiting" /\ ~trig[r] =>
        /\ next[r] >= Len(contents[from[r]])
        /\ ~Ended(contents[from[r]])

\* Nothing follows an end marker but end markers, and every list that clear
\* replaced has one: a reader cannot be left waiting on a list that no writer
\* can reach any more.
EndIsFinal ==
    \A g \in Gens :
        /\ \A i, j \in 1..Len(contents[g]) :
              i < j /\ contents[g][i] = End => contents[g][j] = End
        /\ g < gen => Ended(contents[g])

\* An iterator that ends normally has passed on every item of its list.
DoneIsComplete ==
    \A r \in Readers : pc[r] = "done" =>
        /\ Ended(contents[from[r]])
        /\ \A i \in (next[r] + 1)..Len(contents[from[r]]) :
              contents[from[r]][i] = End

\* self._triggers holds the Event of every live reader of the current list,
\* and beyond those only the Events of generators that were closed before they
\* ever ran (whose finally clause never runs).
TriggersAreLive ==
    /\ \A r \in Readers : Live(r) /\ from[r] = gen => r \in triggers
    /\ \A r \in triggers : from[r] = gen /\ (Live(r) \/ pc[r] = "dropped")

\* Once its list has ended, a reader reaches the end of its iteration.
EndIsSeen ==
    \A r \in Readers :
        (Live(r) /\ Ended(contents[from[r]])) ~> ~Live(r)

\* Every item of its list reaches a reader that began at or before it and
\* does not go away.
ItemsAreDelivered ==
    \A r \in Readers : \A k \in 1..MaxLen :
        (Live(r) /\ start[r] < k /\ Len(contents[from[r]]) >= k
            /\ contents[from[r]][k] # End)
          ~> (next[r] >= k \/ ~Live(r))

\* A list holds n items and then nothing but end markers.
Counts(c, n) ==
    /\ n \in 0..Len(c)
    /\ \A i \in 1..n : c[i] # End
    /\ \A i \in (n + 1)..Len(c) : c[i] = End

\* The items of a list, without its end markers.
LogOf(c) == SubSeq(c, 1, CHOOSE n \in 0..Len(c) : Counts(c, n))

\* The queue implements BroadcastLog: a log holds the items before the end
\* marker, and a reader's suspensions and its trigger are hidden.
ReaderState(r) ==
    CASE pc[r] = "idle" -> "idle"
      [] Live(r) -> "reading"
      [] pc[r] = "done" -> "finished"
      [] OTHER -> "left"

Log == INSTANCE BroadcastLog WITH
    log <- [g \in Gens |-> LogOf(contents[g])],
    sealed <- [g \in Gens |-> Ended(contents[g])],
    last <- gen,
    state <- [r \in Readers |-> ReaderState(r)],
    attached <- from,
    cursor <- next,
    received <- got

ImplementsLog == Log!FairSpec
=============================================================================
