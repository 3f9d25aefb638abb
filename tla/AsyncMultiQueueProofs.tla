------------------------ MODULE AsyncMultiQueueProofs ------------------------
(***************************************************************************)
(* Theorems about AsyncMultiQueue, for any readers, items and bounds.      *)
(*                                                                         *)
(* The invariants of AsyncMultiQueue need two facts that are not           *)
(* properties in their own right: no reader holds a list newer than the    *)
(* current one, and what is known of a reader suspended inside its slice.  *)
(*                                                                         *)
(* The second part shows that the queue implements BroadcastLog.           *)
(***************************************************************************)
EXTENDS AsyncMultiQueue, TLAPS

NotFromTheFuture == \A r \in Readers : from[r] <= gen

NothingYet == \A r \in Readers : pc[r] = "idle" => got[r] = <<>>

\* A reader that has yielded stands on an item of its list, within its slice;
\* if its trigger is not set, the slice is all there is.
SliceOK ==
    \A r \in Readers : pc[r] = "yielded" =>
        /\ got[r] # <<>>
        /\ next[r] <= end[r]
        /\ end[r] <= Len(contents[from[r]])
        /\ ~trig[r] => end[r] = Len(contents[from[r]])

IInv ==
    /\ TypeOK
    /\ EndIsFinal
    /\ NotFromTheFuture
    /\ NothingYet
    /\ TriggersAreLive
    /\ InOrder
    /\ SliceOK
    /\ NoLostWakeup
    /\ DoneIsComplete

-----------------------------------------------------------------------------
LEMMA InitIInv == Init => IInv
<1> SUFFICES ASSUME Init PROVE IInv
  OBVIOUS
<1> USE BoundAssumption DEF Init
<1>1. TypeOK
  BY DEF TypeOK, Gens, PCs
<1>2. EndIsFinal
  BY DEF EndIsFinal, Gens
<1>3. NotFromTheFuture /\ NothingYet
  BY DEF NotFromTheFuture, NothingYet
<1>4. TriggersAreLive
  BY DEF TriggersAreLive, Live
<1>5. InOrder /\ SliceOK /\ NoLostWakeup /\ DoneIsComplete
  BY DEF InOrder, SliceOK, NoLostWakeup, DoneIsComplete
<1> QED
  BY <1>1, <1>2, <1>3, <1>4, <1>5 DEF IInv

\* The list gets one more element at its end, everyone registered is told, and
\* nothing else of the readers changes.  This is what put, close and clear
\* have in common.
Appended(x) ==
    /\ contents' = [contents EXCEPT ![gen] = Append(@, x)]
    /\ ~Ended(contents[gen]) \/ x = End
    /\ x \in Items \union {End}
    /\ SetTriggers(triggers)
    /\ UNCHANGED <<pc, from, start, timed, next, end, got>>

\* Appending keeps everything the invariant says of the lists and of the
\* readers on them.
LEMMA AppendKeeps ==
    ASSUME IInv, NEW x, Appended(x)
    PROVE  /\ contents' \in [Gens -> Seq(Items \union {End})]
           /\ trig' \in [Readers -> BOOLEAN]
           /\ \A g \in Gens : \A i, j \in 1..Len(contents'[g]) :
                 i < j /\ contents'[g][i] = End => contents'[g][j] = End
           /\ \A g \in Gens : g < gen => Ended(contents'[g])
           /\ InOrder' /\ SliceOK' /\ NoLostWakeup' /\ DoneIsComplete'
<1> DEFINE c == contents[gen]
           d == contents'[gen]
<1> USE DEF Appended, IInv
<1>0. /\ contents \in [Gens -> Seq(Items \union {End})]
      /\ gen \in Gens /\ from \in [Readers -> Gens]
      /\ next \in [Readers -> Nat] /\ start \in [Readers -> Nat]
      /\ end \in [Readers -> Nat] /\ trig \in [Readers -> BOOLEAN]
      /\ got \in [Readers -> Seq(Items)] /\ triggers \in SUBSET Readers
  BY DEF TypeOK
<1>1. /\ contents' \in [Gens -> Seq(Items \union {End})]
      /\ \A g \in Gens : g # gen => contents'[g] = contents[g]
      /\ d = Append(c, x)
  BY <1>0
<1>2. /\ c \in Seq(Items \union {End})
      /\ d \in Seq(Items \union {End})
      /\ Len(d) = Len(c) + 1
      /\ \A i \in 1..Len(c) : d[i] = c[i]
      /\ d[Len(d)] = x
  BY <1>0, <1>1
<1>3. trig' \in [Readers -> BOOLEAN]
      /\ \A r \in Readers : trig'[r] = (r \in triggers \/ trig[r])
  BY <1>0 DEF SetTriggers
<1>4. \A i, j \in 1..Len(d) : i < j /\ d[i] = End => d[j] = End
  <2> SUFFICES ASSUME NEW i \in 1..Len(d), NEW j \in 1..Len(d),
                      i < j, d[i] = End
               PROVE  d[j] = End
    OBVIOUS
  <2>1. i \in 1..Len(c) /\ c[i] = End
    BY <1>2
  <2>2. CASE j \in 1..Len(c)
    BY <2>1, <2>2, <1>0, <1>2 DEF EndIsFinal
  <2>3. CASE j = Len(d)
    <3>1. c[Len(c)] = End
      BY <2>1, <1>0, <1>2 DEF EndIsFinal
    <3>2. Ended(c)
      BY <3>1, <2>1, <1>2 DEF Ended
    <3> QED
      BY <3>2, <2>3, <1>2
  <2> QED
    BY <2>2, <2>3, <1>2
<1>5. \A g \in Gens : \A i, j \in 1..Len(contents'[g]) :
         i < j /\ contents'[g][i] = End => contents'[g][j] = End
  BY <1>1, <1>4 DEF EndIsFinal
<1>6. \A g \in Gens : g < gen => Ended(contents'[g])
  BY <1>0, <1>1 DEF EndIsFinal, Gens
<1>7. ASSUME NEW r \in Readers
      PROVE  /\ Len(contents[from[r]]) \in Nat
             /\ Len(contents'[from[r]]) \in Nat
             /\ Len(contents'[from[r]]) >= Len(contents[from[r]])
             /\ \A i \in 1..Len(contents[from[r]]) :
                   contents'[from[r]][i] = contents[from[r]][i]
             /\ from[r] # gen => contents'[from[r]] = contents[from[r]]
             /\ from[r] = gen /\ Live(r) => trig'[r]
  <2>1. from[r] \in Gens
    BY <1>0
  <2>2. from[r] = gen /\ Live(r) => trig'[r]
    BY <1>3 DEF TriggersAreLive
  <2>3. CASE from[r] = gen
    BY <2>2, <2>3, <1>2
  <2>4. CASE from[r] # gen
    BY <2>1, <2>2, <2>4, <1>0, <1>1
  <2> QED
    BY <2>3, <2>4
<1>8. InOrder'
  BY <1>0, <1>7 DEF InOrder
<1>9. SliceOK'
  <2> SUFFICES ASSUME NEW r \in Readers, pc[r] = "yielded"
               PROVE  /\ got[r] # <<>>
                      /\ next[r] <= end[r]
                      /\ end[r] <= Len(contents'[from[r]])
                      /\ ~trig'[r] => end[r] = Len(contents'[from[r]])
    BY DEF SliceOK
  <2>1. Live(r)
    BY DEF Live
  <2> QED
    BY <2>1, <1>0, <1>3, <1>7 DEF SliceOK
<1>10. NoLostWakeup'
  <2> SUFFICES ASSUME NEW r \in Readers, pc[r] = "waiting", ~trig'[r]
               PROVE  /\ next[r] >= Len(contents'[from[r]])
                      /\ ~Ended(contents'[from[r]])
    BY DEF NoLostWakeup, Ended
  <2>1. from[r] # gen /\ ~trig[r]
    BY <1>3, <1>7 DEF Live
  <2> QED
    BY <2>1, <1>7 DEF NoLostWakeup
<1>11. DoneIsComplete'
  <2> SUFFICES ASSUME NEW r \in Readers, pc[r] = "done"
               PROVE  /\ Ended(contents'[from[r]])
                      /\ \A i \in (next[r] + 1)..Len(contents'[from[r]]) :
                            contents'[from[r]][i] = End
    BY DEF DoneIsComplete, Ended
  <2>1. /\ Ended(contents[from[r]])
        /\ \A i \in (next[r] + 1)..Len(contents[from[r]]) :
              contents[from[r]][i] = End
    BY DEF DoneIsComplete
  <2>2. CASE from[r] = gen
    <3>1. x = End
      BY <2>1, <2>2
    <3>2. Ended(d)
      BY <3>1, <1>2 DEF Ended
    <3> QED
      BY <3>1, <3>2, <2>1, <2>2, <1>0, <1>2
  <2>3. CASE from[r] # gen
    BY <2>1, <2>3, <1>7
  <2> QED
    BY <2>2, <2>3
<1> QED
  BY <1>1, <1>3, <1>5, <1>6, <1>8, <1>9, <1>10, <1>11

-----------------------------------------------------------------------------
\* What every step of reader r leaves alone: the lists, and everything of the
\* other readers.
OnlyReader(r) ==
    /\ UNCHANGED <<contents, gen, from, start, timed>>
    /\ end' \in [Readers -> Nat]
    /\ trig' \in [Readers -> BOOLEAN]
    /\ \A q \in Readers \ {r} : end'[q] = end[q] /\ trig'[q] = trig[q]

\* The part of the invariant that does not concern r itself.
LEMMA ReaderStepKeeps ==
    ASSUME IInv, NEW r \in Readers, OnlyReader(r),
           pc' \in [Readers -> PCs], next' \in [Readers -> Nat],
           got' \in [Readers -> Seq(Items)],
           \A q \in Readers \ {r} :
              pc'[q] = pc[q] /\ next'[q] = next[q] /\ got'[q] = got[q],
           Live(r), pc'[r] # "idle",
           triggers' = IF Live(r)' THEN triggers ELSE triggers \ {r},
           next'[r] = start[r] + Len(got'[r]),
           \A i \in 1..Len(got'[r]) :
              /\ start[r] + i <= Len(contents[from[r]])
              /\ got'[r][i] = contents[from[r]][start[r] + i]
              /\ got'[r][i] # End,
           pc'[r] = "yielded" =>
              /\ got'[r] # <<>>
              /\ next'[r] <= end'[r]
              /\ end'[r] <= Len(contents[from[r]])
              /\ ~trig'[r] => end'[r] = Len(contents[from[r]]),
           pc'[r] = "waiting" /\ ~trig'[r] =>
              /\ next'[r] >= Len(contents[from[r]])
              /\ ~Ended(contents[from[r]]),
           pc'[r] = "done" =>
              /\ Ended(contents[from[r]])
              /\ \A i \in (next'[r] + 1)..Len(contents[from[r]]) :
                    contents[from[r]][i] = End
    PROVE  IInv'
<1> USE DEF IInv, OnlyReader
<1>1. TypeOK'
  BY DEF TypeOK
<1>2. EndIsFinal' /\ NotFromTheFuture' /\ NothingYet'
  BY ZenonT(40) DEF EndIsFinal, NotFromTheFuture, NothingYet, Ended
<1>3. TriggersAreLive'
  BY DEF TriggersAreLive, Live, TypeOK
<1>4. InOrder'
  <2> SUFFICES ASSUME NEW q \in Readers, pc'[q] # "idle"
               PROVE  /\ next'[q] = start[q] + Len(got'[q])
                      /\ \A i \in 1..Len(got'[q]) :
                            /\ start[q] + i <= Len(contents[from[q]])
                            /\ got'[q][i] = contents[from[q]][start[q] + i]
                            /\ got'[q][i] # End
    BY DEF InOrder
  <2>1. CASE q = r
    BY <2>1
  <2>2. CASE q # r
    <3>1. pc[q] # "idle" /\ next'[q] = next[q] /\ got'[q] = got[q]
      BY <2>2
    <3> QED
      BY <3>1 DEF InOrder
  <2> QED
    BY <2>1, <2>2
<1>5. SliceOK'
  BY ZenonT(40) DEF SliceOK
<1>6. NoLostWakeup'
  BY DEF NoLostWakeup, Ended
<1>7. DoneIsComplete'
  BY ZenonT(60) DEF DoneIsComplete, Ended
<1> QED
  BY <1>1, <1>2, <1>3, <1>4, <1>5, <1>6, <1>7

\* r yields the next item of its slice, or returns at the end marker.
LEMMA NextInSliceKeeps ==
    ASSUME IInv, NEW r \in Readers, Live(r), OnlyReader(r),
           next[r] < end'[r],
           end'[r] <= Len(contents[from[r]]),
           ~trig'[r] => end'[r] = Len(contents[from[r]]),
           NextInSlice(r)
    PROVE  IInv'
<1> DEFINE c == contents[from[r]]
           item == c[next[r] + 1]
<1>1. /\ c \in Seq(Items \union {End})
      /\ next \in [Readers -> Nat] /\ got \in [Readers -> Seq(Items)]
      /\ pc \in [Readers -> PCs] /\ start[r] \in Nat
      /\ end'[r] \in Nat
      /\ next[r] + 1 \in 1..Len(c)
      /\ triggers \in SUBSET Readers
  BY DEF IInv, TypeOK, OnlyReader
<1>2. /\ next[r] = start[r] + Len(got[r])
      /\ \A i \in 1..Len(got[r]) :
            /\ start[r] + i <= Len(c)
            /\ got[r][i] = c[start[r] + i]
            /\ got[r][i] # End
  BY DEF IInv, InOrder, Live
<1>3. CASE item = End
  <2>1. Leave(r, "done")
    BY <1>3 DEF NextInSlice
  <2>2. /\ pc' = [pc EXCEPT ![r] = "done"]
        /\ triggers' = triggers \ {r}
        /\ next' = next /\ got' = got
    BY <2>1 DEF Leave
  <2>3. \A i \in (next[r] + 1)..Len(c) : c[i] = End
    <3>1. \A i, j \in 1..Len(c) : i < j /\ c[i] = End => c[j] = End
      BY DEF IInv, EndIsFinal, TypeOK
    <3> QED
      BY <3>1, <1>1, <1>3
  <2>4. Ended(c)
    BY <2>3, <1>1 DEF Ended
  <2>5. pc'[r] = "done" /\ ~Live(r)'
    BY <2>2, <1>1 DEF Live
  <2> QED
    BY <2>2, <2>3, <2>4, <2>5, <1>1, <1>2, ReaderStepKeeps DEF PCs
<1>4. CASE item # End
  <2>1. /\ pc' = [pc EXCEPT ![r] = "yielded"]
        /\ next' = [next EXCEPT ![r] = @ + 1]
        /\ got' = [got EXCEPT ![r] = Append(@, item)]
        /\ triggers' = triggers
    BY <1>4 DEF NextInSlice
  <2>2. item \in Items
    BY <1>1, <1>4
  <2>3. /\ got'[r] = Append(got[r], item)
        /\ got' \in [Readers -> Seq(Items)]
        /\ Len(got'[r]) = Len(got[r]) + 1
        /\ next'[r] = next[r] + 1
    BY <2>1, <2>2, <1>1
  <2>4. \A i \in 1..Len(got'[r]) :
           /\ start[r] + i <= Len(c)
           /\ got'[r][i] = c[start[r] + i]
           /\ got'[r][i] # End
    BY SMTT(30), <2>3, <2>2, <1>1, <1>2, <1>4
  <2>5. /\ pc'[r] = "yielded" /\ Live(r)'
        /\ pc' \in [Readers -> PCs]
        /\ next' \in [Readers -> Nat]
        /\ got'[r] # <<>>
        /\ next'[r] <= end'[r]
        /\ next'[r] = start[r] + Len(got'[r])
    BY SMTT(30), <2>1, <2>3, <1>1, <1>2 DEF Live, PCs
  <2>6. \A q \in Readers \ {r} :
           pc'[q] = pc[q] /\ next'[q] = next[q] /\ got'[q] = got[q]
    BY <2>1, <1>1
  <2> QED
    BY <2>1, <2>3, <2>4, <2>5, <2>6, <1>1, ReaderStepKeeps
<1> QED
  BY <1>3, <1>4

\* r stops at a point where it keeps what it has: it returns at the end of
\* its list, waits with nothing more to read, or is closed or timed out.
LEMMA StopKeeps ==
    ASSUME IInv, NEW r \in Readers, Live(r), OnlyReader(r), NEW stop,
           stop \in {"waiting", "done", "gone"},
           pc' = [pc EXCEPT ![r] = stop],
           triggers' = IF stop = "waiting" THEN triggers ELSE triggers \ {r},
           UNCHANGED <<next, got>>,
           stop = "waiting" =>
              next[r] >= Len(contents[from[r]]) /\ ~Ended(contents[from[r]]),
           stop = "done" =>
              next[r] >= Len(contents[from[r]]) /\ Ended(contents[from[r]])
    PROVE  IInv'
<1>1. /\ contents[from[r]] \in Seq(Items \union {End})
      /\ pc \in [Readers -> PCs] /\ next[r] \in Nat
  BY DEF IInv, TypeOK
<1>2. /\ pc'[r] = stop /\ pc'[r] # "idle" /\ pc'[r] # "yielded"
      /\ \A q \in Readers \ {r} : pc'[q] = pc[q]
      /\ pc' \in [Readers -> PCs]
      /\ Live(r)' <=> stop = "waiting"
  BY <1>1 DEF Live, PCs
<1>3. /\ next[r] = start[r] + Len(got[r])
      /\ \A i \in 1..Len(got[r]) :
            /\ start[r] + i <= Len(contents[from[r]])
            /\ got[r][i] = contents[from[r]][start[r] + i]
            /\ got[r][i] # End
  BY DEF IInv, InOrder, Live
<1>4. stop = "done" =>
        /\ Ended(contents[from[r]])
        /\ \A i \in (next[r] + 1)..Len(contents[from[r]]) :
              contents[from[r]][i] = End
  BY <1>1
<1>5. /\ next' = next /\ got' = got
      /\ next \in [Readers -> Nat] /\ got \in [Readers -> Seq(Items)]
  BY DEF IInv, TypeOK
<1>6. triggers' = IF Live(r)' THEN triggers ELSE triggers \ {r}
  BY <1>2
<1> QED
  BY <1>1, <1>2, <1>3, <1>4, <1>5, <1>6, ReaderStepKeeps

-----------------------------------------------------------------------------
\* One turn of a reader's loop.
LEMMA LoopTopKeeps ==
    ASSUME IInv, NEW r \in Readers, Live(r), LoopTop(r),
           UNCHANGED <<contents, gen, from, start, timed>>
    PROVE  IInv'
<1>1. /\ contents[from[r]] \in Seq(Items \union {End})
      /\ trig \in [Readers -> BOOLEAN] /\ end \in [Readers -> Nat]
      /\ next[r] \in Nat
  BY DEF IInv, TypeOK
<1>2. /\ trig' = [trig EXCEPT ![r] = FALSE]
      /\ end' = [end EXCEPT ![r] = Len(contents[from[r]])]
  BY DEF LoopTop
<1>3. OnlyReader(r) /\ end'[r] = Len(contents[from[r]])
  BY <1>1, <1>2 DEF OnlyReader
<1>4. CASE next[r] < Len(contents[from[r]]) /\ NextInSlice(r)
  BY <1>1, <1>3, <1>4, NextInSliceKeeps
<1>5. CASE /\ next[r] >= Len(contents[from[r]]) /\ Ended(contents[from[r]])
           /\ Leave(r, "done")
  BY <1>3, <1>5, StopKeeps DEF Leave
<1>6. CASE /\ next[r] >= Len(contents[from[r]]) /\ ~Ended(contents[from[r]])
           /\ Suspend(r)
  BY <1>3, <1>6, StopKeeps DEF Suspend
<1> QED
  BY <1>4, <1>5, <1>6 DEF LoopTop

LEMMA PutKeeps ==
    ASSUME IInv, NEW item \in Items, Put(item)
    PROVE  IInv'
<1>1. Appended(item)
  BY DEF Put, Appended
<1>2. UNCHANGED <<gen, triggers, pc, from, start, timed, next, end, got>>
  BY DEF Put
<1>3. TypeOK' /\ EndIsFinal'
  BY <1>1, <1>2, AppendKeeps DEF IInv, TypeOK, EndIsFinal, Ended
<1>4. TriggersAreLive' /\ NotFromTheFuture' /\ NothingYet'
  BY <1>2 DEF IInv, TriggersAreLive, Live, NotFromTheFuture, NothingYet
<1> QED
  BY <1>1, <1>3, <1>4, AppendKeeps DEF IInv

LEMMA CloseKeeps ==
    ASSUME IInv, Close
    PROVE  IInv'
<1>1. Appended(End)
  BY DEF Close, Appended
<1>2. UNCHANGED <<gen, triggers, pc, from, start, timed, next, end, got>>
  BY DEF Close
<1>3. TypeOK' /\ EndIsFinal'
  BY <1>1, <1>2, AppendKeeps DEF IInv, TypeOK, EndIsFinal, Ended
<1>4. TriggersAreLive' /\ NotFromTheFuture' /\ NothingYet'
  BY <1>2 DEF IInv, TriggersAreLive, Live, NotFromTheFuture, NothingYet
<1> QED
  BY <1>1, <1>3, <1>4, AppendKeeps DEF IInv

LEMMA ClearKeeps ==
    ASSUME IInv, Clear
    PROVE  IInv'
<1>1. /\ gen \in Nat /\ gen' = gen + 1 /\ gen' \in Gens
      /\ triggers' = {}
      /\ UNCHANGED <<pc, from, start, timed, next, end, got>>
  BY BoundAssumption DEF IInv, TypeOK, Clear, Gens
<1>2. NotFromTheFuture' /\ NothingYet'
  BY <1>1 DEF IInv, NotFromTheFuture, NothingYet, TypeOK, Gens
<1>3. TriggersAreLive'
  <2>1. \A r \in Readers : from[r] # gen'
    BY <1>1 DEF IInv, NotFromTheFuture, TypeOK, Gens
  <2> QED
    BY <1>1, <2>1 DEF TriggersAreLive
<1>4. CASE Ended(contents[gen])
  <2>1. UNCHANGED <<contents, trig>>
    BY <1>4 DEF Clear
  <2>2. TypeOK'
    BY <1>1, <2>1 DEF IInv, TypeOK
  <2>3. EndIsFinal'
    <3>1. \A g \in Gens : g < gen' => Ended(contents[g])
      BY <1>1, <1>4 DEF IInv, EndIsFinal, Gens
    <3> QED
      BY <3>1, <2>1 DEF IInv, EndIsFinal, Ended
  <2>4. InOrder' /\ SliceOK' /\ NoLostWakeup' /\ DoneIsComplete'
    BY <1>1, <2>1
       DEF IInv, InOrder, SliceOK, NoLostWakeup, DoneIsComplete, Ended
  <2> QED
    BY <1>2, <1>3, <2>2, <2>3, <2>4 DEF IInv
<1>5. CASE ~Ended(contents[gen])
  <2>1. Appended(End)
    BY <1>1, <1>5 DEF Clear, Appended
  <2>2. TypeOK'
    BY <1>1, <2>1, AppendKeeps DEF IInv, TypeOK
  <2>3. EndIsFinal'
    <3>1. Ended(contents'[gen])
      <4>1. contents[gen] \in Seq(Items \union {End})
        BY DEF IInv, TypeOK
      <4>2. contents'[gen] = Append(contents[gen], End)
        BY <2>1 DEF Appended, IInv, TypeOK
      <4> QED
        BY <4>1, <4>2 DEF Ended
    <3>2. \A g \in Gens : g < gen' => Ended(contents'[g])
      BY <3>1, <2>1, <1>1, AppendKeeps DEF Gens
    <3> QED
      BY <3>2, <2>1, AppendKeeps DEF EndIsFinal, Ended
  <2> QED
    BY <1>2, <1>3, <2>1, <2>2, <2>3, AppendKeeps DEF IInv
<1> QED
  BY <1>4, <1>5

LEMMA AiterFromKeeps ==
    ASSUME IInv, NEW r \in Readers, AiterFrom(r)
    PROVE  IInv'
<1>1. PICK s \in 0..MaxStart : /\ start' = [start EXCEPT ![r] = s]
                               /\ next' = [next EXCEPT ![r] = s]
  BY DEF AiterFrom
<1>2. PICK t \in BOOLEAN : timed' = [timed EXCEPT ![r] = t]
  BY DEF AiterFrom
<1>3. /\ pc[r] = "idle"
      /\ pc' = [pc EXCEPT ![r] = "created"]
      /\ from' = [from EXCEPT ![r] = gen]
      /\ triggers' = triggers \union {r}
      /\ UNCHANGED <<contents, gen, end, trig, got>>
  BY DEF AiterFrom
<1>4. TypeOK'
  BY <1>1, <1>2, <1>3, BoundAssumption DEF IInv, TypeOK, PCs
<1>5. EndIsFinal' /\ NotFromTheFuture' /\ NothingYet'
  BY <1>3 DEF IInv, EndIsFinal, NotFromTheFuture, NothingYet, Ended, TypeOK, Gens
<1>6. TriggersAreLive'
  BY <1>3 DEF IInv, TriggersAreLive, Live, TypeOK
<1>7. /\ pc'[r] = "created"
      /\ \A q \in Readers \ {r} :
            /\ pc'[q] = pc[q] /\ from'[q] = from[q]
            /\ start'[q] = start[q] /\ next'[q] = next[q]
  BY <1>1, <1>3 DEF IInv, TypeOK
<1>8. InOrder'
  <2> SUFFICES ASSUME NEW q \in Readers, pc'[q] # "idle"
               PROVE  /\ next'[q] = start'[q] + Len(got[q])
                      /\ \A i \in 1..Len(got[q]) :
                            /\ start'[q] + i <= Len(contents[from'[q]])
                            /\ got[q][i] = contents[from'[q]][start'[q] + i]
                            /\ got[q][i] # End
    BY <1>3 DEF InOrder
  <2>1. CASE q = r
    BY <2>1, <1>1, <1>3 DEF IInv, TypeOK, NothingYet
  <2>2. CASE q # r
    BY <2>2, <1>7 DEF IInv, InOrder
  <2> QED
    BY <2>1, <2>2
<1>9. SliceOK' /\ NoLostWakeup' /\ DoneIsComplete'
  BY <1>3, <1>7 DEF IInv, SliceOK, NoLostWakeup, DoneIsComplete, Ended
<1> QED
  BY <1>4, <1>5, <1>6, <1>8, <1>9 DEF IInv

\* A generator is closed before it ever ran.
LEMMA DropKeeps ==
    ASSUME IInv, NEW r \in Readers, pc[r] = "created",
           pc' = [pc EXCEPT ![r] = "dropped"],
           UNCHANGED <<contents, gen, triggers, from, start, timed, next, end,
                       trig, got>>
    PROVE  IInv'
<1>1. TypeOK'
  BY DEF IInv, TypeOK, PCs
<1>2. EndIsFinal' /\ NotFromTheFuture' /\ NothingYet'
  BY DEF IInv, EndIsFinal, NotFromTheFuture, NothingYet, Ended, TypeOK
<1>3. TriggersAreLive'
  BY DEF IInv, TriggersAreLive, Live, TypeOK
<1>4. InOrder' /\ SliceOK' /\ NoLostWakeup' /\ DoneIsComplete'
  BY DEF IInv, InOrder, SliceOK, NoLostWakeup, DoneIsComplete, Ended, TypeOK
<1> QED
  BY <1>1, <1>2, <1>3, <1>4 DEF IInv

LEMMA ReaderKeeps ==
    ASSUME IInv, NEW r \in Readers,
           AiterFrom(r) \/ Resume(r) \/ TimeOut(r) \/ Abandon(r)
    PROVE  IInv'
<1>1. CASE AiterFrom(r)
  BY <1>1, AiterFromKeeps
<1>2. CASE FirstStep(r) \/ Wake(r)
  BY <1>2, LoopTopKeeps DEF FirstStep, Wake, Live
<1>3. CASE ContinueSlice(r)
  <2>1. OnlyReader(r)
    BY <1>3 DEF ContinueSlice, OnlyReader, IInv, TypeOK
  <2>2. /\ Live(r) /\ next[r] < end'[r] /\ NextInSlice(r)
        /\ end'[r] <= Len(contents[from[r]])
        /\ ~trig'[r] => end'[r] = Len(contents[from[r]])
    BY <1>3 DEF ContinueSlice, Live, IInv, SliceOK
  <2> QED
    BY <2>1, <2>2, NextInSliceKeeps
<1>4. CASE FinishSlice(r)
  <2>1. pc[r] = "yielded" /\ next[r] >= end[r] /\ Live(r)
        /\ UNCHANGED <<contents, gen, from, start, timed>>
    BY <1>4 DEF FinishSlice, Live
  <2>2. CASE LoopTop(r)
    BY <2>1, <2>2, LoopTopKeeps
  <2>3. CASE ~trig[r] /\ Suspend(r) /\ UNCHANGED <<end, trig>>
    <3>1. OnlyReader(r)
      BY <2>1, <2>3 DEF OnlyReader, IInv, TypeOK
    <3>2. /\ got[r] # <<>> /\ next[r] = end[r]
          /\ end[r] = Len(contents[from[r]])
      BY <2>1, <2>3 DEF IInv, SliceOK, TypeOK
    <3>3. ~Ended(contents[from[r]])
      <4>1. /\ got[r] \in Seq(Items) /\ Len(got[r]) \in Nat \ {0}
            /\ start[r] \in Nat
        BY <3>2 DEF IInv, TypeOK
      <4>2. /\ next[r] = start[r] + Len(got[r])
            /\ got[r][Len(got[r])] = contents[from[r]][start[r] + Len(got[r])]
            /\ got[r][Len(got[r])] # End
        BY <2>1, <4>1 DEF IInv, InOrder
      <4> QED
        BY <3>2, <4>2 DEF Ended
    <3>4. /\ pc' = [pc EXCEPT ![r] = "waiting"]
          /\ UNCHANGED <<triggers, next, got>>
      BY <2>3 DEF Suspend
    <3> QED
      BY <2>1, <3>1, <3>2, <3>3, <3>4, StopKeeps DEF IInv, TypeOK
  <2> QED
    BY <1>4, <2>2, <2>3 DEF FinishSlice
<1>5. CASE TimeOut(r) \/ (pc[r] \in {"yielded", "waiting"} /\ Abandon(r))
  <2>1. Live(r) /\ Leave(r, "gone")
    BY <1>5 DEF TimeOut, Abandon, Live
  <2>2. OnlyReader(r)
    BY <1>5 DEF TimeOut, Abandon, OnlyReader, IInv, TypeOK
  <2> QED
    BY <2>1, <2>2, StopKeeps DEF Leave
<1>6. CASE pc[r] = "created" /\ Abandon(r)
  BY <1>6, DropKeeps DEF Abandon
<1> QED
  BY <1>1, <1>2, <1>3, <1>4, <1>5, <1>6 DEF Resume, Abandon

LEMMA StutterKeeps == IInv /\ UNCHANGED vars => IInv'
BY DEF IInv, vars, TypeOK, EndIsFinal, NotFromTheFuture, NothingYet,
       TriggersAreLive, Live, InOrder, SliceOK, NoLostWakeup, DoneIsComplete,
       Ended

LEMMA NextKeeps == IInv /\ [Next]_vars => IInv'
BY PutKeeps, CloseKeeps, ClearKeeps, ReaderKeeps, StutterKeeps DEF Next

-----------------------------------------------------------------------------
\* The inductive invariant holds of every behaviour of the queue.
THEOREM Invariance == Spec => []IInv
<1>1. Init => IInv
  BY InitIInv
<1>2. IInv /\ [Next]_vars => IInv'
  BY NextKeeps
<1> QED
  BY <1>1, <1>2, PTL DEF Spec

\* Every variable keeps its type.
THEOREM TypeCorrect == Spec => []TypeOK
<1>1. IInv => TypeOK
  BY DEF IInv
<1> QED
  BY <1>1, Invariance, PTL

\* For any number of readers and writers and any interleaving of them, what a
\* consumer receives is an unbroken stretch of the list it captured.
THEOREM DeliveryInOrder == Spec => []InOrder
<1>1. IInv => InOrder
  BY DEF IInv
<1> QED
  BY <1>1, Invariance, PTL

\* No reader ever waits, with its trigger clear, for an item or an end that
\* is already in its list.
THEOREM WakeupsAreNotLost == Spec => []NoLostWakeup
<1>1. IInv => NoLostWakeup
  BY DEF IInv
<1> QED
  BY <1>1, Invariance, PTL

\* Nothing but end markers follows an end marker, and every list that clear
\* replaced has one.
THEOREM EndsAreFinal == Spec => []EndIsFinal
<1>1. IInv => EndIsFinal
  BY DEF IInv
<1> QED
  BY <1>1, Invariance, PTL

\* An iterator that returns has delivered everything up to the end marker.
THEOREM ReturnsAreComplete == Spec => []DoneIsComplete
<1>1. IInv => DoneIsComplete
  BY DEF IInv
<1> QED
  BY <1>1, Invariance, PTL

\* The queue keeps the Events of its live readers, and of no others but the
\* generators that were closed before they ran.
THEOREM TriggersBelongToReaders == Spec => []TriggersAreLive
<1>1. IInv => TriggersAreLive
  BY DEF IInv
<1> QED
  BY <1>1, Invariance, PTL

-----------------------------------------------------------------------------
(***************************************************************************)
(* The queue implements BroadcastLog.  Lists hold their items before their *)
(* end markers (ItemsFirst), so that appending an item extends the log of  *)
(* a list, appending an end marker does not, and a reader that is at an    *)
(* item is where the log has the same item.                                *)
(***************************************************************************)

ItemsFirst == \A g \in Gens : \E n \in Nat : Counts(contents[g], n)

Count(c) == CHOOSE n \in 0..Len(c) : Counts(c, n)

LEMMA LogIs == \A c : LogOf(c) = SubSeq(c, 1, Count(c))
BY DEF LogOf, Count

LEMMA CountIs ==
    ASSUME NEW c \in Seq(Items \union {End}), NEW n, Counts(c, n)
    PROVE  Count(c) = n
<1>1. \A m : Counts(c, m) => m = n
  BY DEF Counts
<1> QED
  BY <1>1 DEF Count, Counts

\* A list that ends in an item holds nothing but items.
LEMMA CountUnended ==
    ASSUME NEW c \in Seq(Items \union {End}), NEW n, Counts(c, n), ~Ended(c)
    PROVE  n = Len(c)
BY DEF Counts, Ended

LEMMA ItemAppended ==
    ASSUME NEW c \in Seq(Items \union {End}), NEW n, Counts(c, n), ~Ended(c),
           NEW item \in Items
    PROVE  /\ Counts(Append(c, item), n + 1)
           /\ LogOf(Append(c, item)) = Append(LogOf(c), item)
           /\ ~Ended(Append(c, item))
<1> DEFINE d == Append(c, item)
<1>1. n = Len(c) /\ n \in Nat
  BY CountUnended
<1>2. /\ d \in Seq(Items \union {End}) /\ Len(d) = n + 1 /\ d[n + 1] = item
      /\ \A i \in 1..n : d[i] = c[i]
  BY <1>1
<1>3. Counts(d, n + 1)
  BY <1>1, <1>2, EndAssumption DEF Counts
<1>4. Count(c) = n /\ Count(d) = n + 1
  BY <1>2, <1>3, CountIs
<1>5. LogOf(c) = c /\ LogOf(d) = d
  <2>1. LogOf(c) = SubSeq(c, 1, n) /\ LogOf(d) = SubSeq(d, 1, n + 1)
    BY <1>4, LogIs
  <2>2. SubSeq(c, 1, n) = c /\ SubSeq(d, 1, n + 1) = d
    BY <1>1, <1>2
  <2> QED
    BY <2>1, <2>2
<1>6. ~Ended(d)
  BY <1>1, <1>2, EndAssumption DEF Ended
<1> QED
  BY <1>3, <1>5, <1>6

LEMMA EndAppended ==
    ASSUME NEW c \in Seq(Items \union {End}), NEW n, Counts(c, n)
    PROVE  /\ Counts(Append(c, End), n)
           /\ LogOf(Append(c, End)) = LogOf(c)
           /\ Ended(Append(c, End))
<1> DEFINE d == Append(c, End)
<1>1. /\ d \in Seq(Items \union {End}) /\ Len(d) = Len(c) + 1
      /\ d[Len(c) + 1] = End /\ Len(c) \in Nat
      /\ \A i \in 1..Len(c) : d[i] = c[i]
  OBVIOUS
<1>2. Counts(d, n)
  BY <1>1 DEF Counts
<1>3. Count(c) = n /\ Count(d) = n
  BY <1>1, <1>2, CountIs
<1>4. n \in 0..Len(c)
  BY DEF Counts
<1>5. LogOf(d) = LogOf(c)
  <2>1. LogOf(c) = SubSeq(c, 1, n) /\ LogOf(d) = SubSeq(d, 1, n)
    BY <1>3, LogIs
  <2>2. SubSeq(c, 1, n) = SubSeq(d, 1, n)
    BY <1>1, <1>4
  <2> QED
    BY <2>1, <2>2
<1>6. Ended(d)
  BY <1>1 DEF Ended
<1> QED
  BY <1>2, <1>5, <1>6

\* Where a list has an item its log has it too, and where it has an end marker,
\* or nothing, the log has nothing.
LEMMA LogAt ==
    ASSUME NEW c \in Seq(Items \union {End}), NEW n, Counts(c, n)
    PROVE  /\ Len(LogOf(c)) = n
           /\ \A i \in 1..Len(c) : c[i] # End => i <= n /\ LogOf(c)[i] = c[i]
           /\ \A i \in 1..Len(c) : c[i] = End => n < i /\ Ended(c)
<1>1. Count(c) = n /\ n \in 0..Len(c) /\ Len(c) \in Nat
  BY CountIs DEF Counts
<1>2. Len(LogOf(c)) = n /\ \A i \in 1..n : LogOf(c)[i] = c[i]
  BY <1>1, LogIs
<1>3. \A i \in 1..Len(c) : c[i] # End => i <= n
  BY <1>1 DEF Counts
<1>4. \A i \in 1..Len(c) : c[i] = End => n < i /\ Ended(c)
  BY <1>1 DEF Counts, Ended
<1> QED
  BY <1>2, <1>3, <1>4

-----------------------------------------------------------------------------
\* Writers

\* What the queue and the log have in common where only the lists change.
LEMMA ListsOnly ==
    ASSUME UNCHANGED <<pc, from, next, got>>
    PROVE  UNCHANGED <<[r \in Readers |-> ReaderState(r)], from, next, got>>
BY DEF ReaderState, Live

LEMMA PutPublishes ==
    ASSUME IInv, ItemsFirst, NEW item \in Items, Put(item)
    PROVE  ItemsFirst' /\ Log!Publish(item)
<1> DEFINE c == contents[gen]
<1>1. /\ contents \in [Gens -> Seq(Items \union {End})] /\ gen \in Gens
      /\ c \in Seq(Items \union {End})
  BY DEF IInv, TypeOK
<1>2. /\ ~Ended(c) /\ gen' = gen /\ UNCHANGED <<pc, from, next, got>>
      /\ contents' = [contents EXCEPT ![gen] = Append(c, item)]
  BY DEF Put
<1>3. PICK n \in Nat : Counts(c, n)
  BY <1>1 DEF ItemsFirst
<1>4. /\ Counts(Append(c, item), n + 1) /\ ~Ended(Append(c, item))
      /\ LogOf(Append(c, item)) = Append(LogOf(c), item)
  BY <1>1, <1>2, <1>3, ItemAppended
<1>5. \A g \in Gens : contents'[g] = IF g = gen THEN Append(c, item) ELSE contents[g]
  BY <1>1, <1>2
<1>6. ItemsFirst'
  <2>1. \A g \in Gens : \E m \in Nat : Counts(contents'[g], m)
    BY <1>3, <1>4, <1>5 DEF ItemsFirst
  <2> QED
    BY <2>1 DEF ItemsFirst, Counts
<1>7. /\ [g \in Gens |-> LogOf(contents[g])]' =
           [[g \in Gens |-> LogOf(contents[g])] EXCEPT ![gen] = Append(@, item)]
      /\ [g \in Gens |-> Ended(contents[g])]' = [g \in Gens |-> Ended(contents[g])]
  <2>1. \A g \in Gens : LogOf(contents[g])' =
          IF g = gen THEN Append(LogOf(contents[gen]), item) ELSE LogOf(contents[g])
    <3>1. \A g \in Gens : LogOf(contents[g])' = LogOf(contents'[g])
      BY DEF LogOf, Counts
    <3> QED
      BY <1>4, <1>5, <3>1
  <2>2. \A g \in Gens : Ended(contents[g])' = Ended(contents[g])
    BY <1>2, <1>4, <1>5 DEF Ended
  <2> QED
    BY <1>1, <2>1, <2>2
<1>8. ~[g \in Gens |-> Ended(contents[g])][gen]
  BY <1>1, <1>2
<1> QED
  BY <1>2, <1>6, <1>7, <1>8, ListsOnly DEF Log!Publish

\* close, and clear for those who still read, append an end marker.
LEMMA EndSeals ==
    ASSUME IInv, ItemsFirst, contents' = [contents EXCEPT ![gen] = Append(@, End)]
    PROVE  /\ ItemsFirst'
           /\ [g \in Gens |-> LogOf(contents[g])]' = [g \in Gens |-> LogOf(contents[g])]
           /\ [g \in Gens |-> Ended(contents[g])]' =
                [[g \in Gens |-> Ended(contents[g])] EXCEPT ![gen] = TRUE]
<1> DEFINE c == contents[gen]
<1>1. /\ contents \in [Gens -> Seq(Items \union {End})] /\ gen \in Gens
      /\ c \in Seq(Items \union {End})
  BY DEF IInv, TypeOK
<1>2. PICK n \in Nat : Counts(c, n)
  BY <1>1 DEF ItemsFirst
<1>3. /\ Counts(Append(c, End), n) /\ Ended(Append(c, End))
      /\ LogOf(Append(c, End)) = LogOf(c)
  BY <1>1, <1>2, EndAppended
<1>4. \A g \in Gens : contents'[g] = IF g = gen THEN Append(c, End) ELSE contents[g]
  BY <1>1
<1>5. ItemsFirst'
  <2>1. \A g \in Gens : \E m \in Nat : Counts(contents'[g], m)
    BY <1>2, <1>3, <1>4 DEF ItemsFirst
  <2> QED
    BY <2>1 DEF ItemsFirst, Counts
<1>6. \A g \in Gens : LogOf(contents[g])' = LogOf(contents[g])
  <2>1. \A g \in Gens : LogOf(contents[g])' = LogOf(contents'[g])
    BY DEF LogOf, Counts
  <2> QED
    BY <1>3, <1>4, <2>1
<1>7. \A g \in Gens : Ended(contents[g])' = IF g = gen THEN TRUE ELSE Ended(contents[g])
  BY <1>3, <1>4 DEF Ended
<1> QED
  BY <1>1, <1>5, <1>6, <1>7

LEMMA CloseSeals ==
    ASSUME IInv, ItemsFirst, Close
    PROVE  ItemsFirst' /\ Log!Seal
<1>1. /\ contents' = [contents EXCEPT ![gen] = Append(@, End)]
      /\ gen' = gen /\ UNCHANGED <<pc, from, next, got>>
  BY DEF Close
<1> QED
  BY <1>1, EndSeals, ListsOnly DEF Log!Seal

LEMMA ClearResets ==
    ASSUME IInv, ItemsFirst, Clear
    PROVE  ItemsFirst' /\ Log!Reset
<1>1. gen < MaxClears /\ gen' = gen + 1 /\ UNCHANGED <<pc, from, next, got>>
  BY DEF Clear
<1>2. /\ ItemsFirst'
      /\ [g \in Gens |-> LogOf(contents[g])]' = [g \in Gens |-> LogOf(contents[g])]
      /\ [g \in Gens |-> Ended(contents[g])]' =
           [[g \in Gens |-> Ended(contents[g])] EXCEPT ![gen] = TRUE]
  <2>1. CASE Ended(contents[gen])
    <3>1. contents' = contents
      BY <2>1 DEF Clear
    <3>2. ItemsFirst'
      BY <3>1 DEF ItemsFirst, Counts
    <3>3. [g \in Gens |-> LogOf(contents[g])]' = [g \in Gens |-> LogOf(contents[g])]
      BY <3>1 DEF LogOf, Counts
    <3>4. [g \in Gens |-> Ended(contents[g])]' = [g \in Gens |-> Ended(contents[g])]
      BY <3>1 DEF Ended
    <3> QED
      BY <2>1, <3>2, <3>3, <3>4
  <2>2. CASE ~Ended(contents[gen])
    BY <2>2, EndSeals DEF Clear
  <2> QED
    BY <2>1, <2>2
<1> QED
  BY <1>1, <1>2, ListsOnly DEF Log!Reset

-----------------------------------------------------------------------------
\* Readers

\* A reader of which only the state changes.
LEMMA ReadersOnly ==
    ASSUME ItemsFirst, UNCHANGED contents
    PROVE  /\ ItemsFirst'
           /\ [g \in Gens |-> LogOf(contents[g])]' = [g \in Gens |-> LogOf(contents[g])]
           /\ [g \in Gens |-> Ended(contents[g])]' = [g \in Gens |-> Ended(contents[g])]
<1>1. ItemsFirst'
  BY DEF ItemsFirst, Counts
<1>2. [g \in Gens |-> LogOf(contents[g])]' = [g \in Gens |-> LogOf(contents[g])]
  BY DEF LogOf, Counts
<1>3. [g \in Gens |-> Ended(contents[g])]' = [g \in Gens |-> Ended(contents[g])]
  BY DEF Ended
<1> QED
  BY <1>1, <1>2, <1>3

StateAt(p) ==
    CASE p = "idle" -> "idle"
      [] p \in {"created", "yielded", "waiting"} -> "reading"
      [] p = "done" -> "finished"
      [] OTHER -> "left"

LEMMA StateMoves ==
    ASSUME IInv, NEW r \in Readers, NEW p, pc' = [pc EXCEPT ![r] = p]
    PROVE  /\ [q \in Readers |-> ReaderState(q)]' =
                [[q \in Readers |-> ReaderState(q)] EXCEPT ![r] = StateAt(p)]
           /\ [q \in Readers |-> ReaderState(q)][r] = StateAt(pc[r])
<1>1. \A q \in Readers : ReaderState(q) = StateAt(pc[q])
  BY DEF ReaderState, StateAt, Live
<1>2. \A q \in Readers : ReaderState(q)' = StateAt(pc'[q])
  BY DEF ReaderState, StateAt, Live
<1>3. \A q \in Readers : pc'[q] = IF q = r THEN p ELSE pc[q]
  BY DEF IInv, TypeOK
<1>4. \A q \in Readers : ReaderState(q)' = IF q = r THEN StateAt(p) ELSE ReaderState(q)
  BY <1>1, <1>2, <1>3
<1>5. [q \in Readers |-> ReaderState(q)][r] = StateAt(pc[r])
  BY <1>1
<1> QED
  BY <1>4, <1>5

LEMMA AiterFromAttaches ==
    ASSUME IInv, ItemsFirst, NEW r \in Readers, AiterFrom(r)
    PROVE  ItemsFirst' /\ \E s \in 0..MaxStart : Log!Attach(r, s)
<1>1. PICK s \in 0..MaxStart : next' = [next EXCEPT ![r] = s]
  BY DEF AiterFrom
<1>2. /\ pc[r] = "idle" /\ pc' = [pc EXCEPT ![r] = "created"]
      /\ from' = [from EXCEPT ![r] = gen] /\ UNCHANGED <<contents, gen, got>>
  BY DEF AiterFrom
<1>3. StateAt("created") = "reading" /\ StateAt("idle") = "idle"
  BY DEF StateAt
<1>4. Log!Attach(r, s)
  <2>1. /\ [q \in Readers |-> ReaderState(q)]' =
             [[q \in Readers |-> ReaderState(q)] EXCEPT ![r] = "reading"]
        /\ [q \in Readers |-> ReaderState(q)][r] = "idle"
    BY <1>2, <1>3, StateMoves
  <2> QED
    BY <1>1, <1>2, <2>1, ReadersOnly DEF Log!Attach
<1> QED
  BY <1>2, <1>4, ReadersOnly

\* r stops with what it has.
LEMMA StopMaps ==
    ASSUME IInv, ItemsFirst, NEW r \in Readers, Live(r),
           NEW stop \in {"waiting", "done", "gone", "dropped"},
           pc' = [pc EXCEPT ![r] = stop],
           UNCHANGED <<contents, gen, from, next, got>>,
           stop = "done" => /\ Ended(contents[from[r]])
                            /\ next[r] >= Len(LogOf(contents[from[r]]))
    PROVE  ItemsFirst' /\ [Log!Next]_Log!vars
<1>1. /\ StateAt("waiting") = "reading" /\ StateAt("done") = "finished"
      /\ StateAt("gone") = "left" /\ StateAt("dropped") = "left"
      /\ StateAt(pc[r]) = "reading"
  BY DEF StateAt, Live
<1>2. from[r] \in Gens
  BY DEF IInv, TypeOK
<1>3. /\ [q \in Readers |-> ReaderState(q)]' =
            [[q \in Readers |-> ReaderState(q)] EXCEPT ![r] = StateAt(stop)]
      /\ [q \in Readers |-> ReaderState(q)][r] = "reading"
  BY <1>1, StateMoves
<1>4. CASE stop = "waiting"
  <2>1. [q \in Readers |-> ReaderState(q)]' = [q \in Readers |-> ReaderState(q)]
    <3>1. StateAt(stop) = "reading"
      BY <1>1, <1>4
    <3> QED
      BY <1>3, <3>1
  <2> QED
    BY <2>1, ReadersOnly DEF Log!vars
<1>5. CASE stop = "done"
  <2>1. Log!Finish(r)
    <3>1. StateAt(stop) = "finished"
      BY <1>1, <1>5
    <3>2. /\ [g \in Gens |-> Ended(contents[g])][from[r]]
          /\ next[r] >= Len([g \in Gens |-> LogOf(contents[g])][from[r]])
      BY <1>2, <1>5
    <3> QED
      BY <1>3, <3>1, <3>2, ReadersOnly DEF Log!Finish
  <2> QED
    BY <2>1, ReadersOnly DEF Log!Next
<1>6. CASE stop \in {"gone", "dropped"}
  <2>1. Log!Leave(r)
    <3>1. StateAt(stop) = "left"
      BY <1>1, <1>6
    <3> QED
      BY <1>3, <3>1, ReadersOnly DEF Log!Leave
  <2> QED
    BY <2>1, ReadersOnly DEF Log!Next
<1> QED
  BY <1>4, <1>5, <1>6

LEMMA NextInSliceMaps ==
    ASSUME IInv, ItemsFirst, NEW r \in Readers, Live(r), NextInSlice(r),
           next[r] < Len(contents[from[r]]), UNCHANGED <<contents, gen, from>>
    PROVE  ItemsFirst' /\ [Log!Next]_Log!vars
<1> DEFINE c == contents[from[r]]
           item == c[next[r] + 1]
<1>1. /\ from[r] \in Gens /\ c \in Seq(Items \union {End}) /\ next[r] \in Nat
      /\ next[r] + 1 \in 1..Len(c)
  BY DEF IInv, TypeOK
<1>2. PICK n \in Nat : Counts(c, n)
  BY <1>1 DEF ItemsFirst
<1>3. /\ Len(LogOf(c)) = n
      /\ item # End => next[r] + 1 <= n /\ LogOf(c)[next[r] + 1] = item
      /\ item = End => n < next[r] + 1 /\ Ended(c)
  BY <1>1, <1>2, LogAt
<1>4. CASE item = End
  <2>1. pc' = [pc EXCEPT ![r] = "done"] /\ UNCHANGED <<next, got>>
    BY <1>4 DEF NextInSlice, Leave
  <2>2. Ended(c) /\ next[r] >= Len(LogOf(c))
    BY <1>1, <1>3, <1>4
  <2> QED
    BY <2>1, <2>2, StopMaps
<1>5. CASE item # End
  <2>1. /\ pc' = [pc EXCEPT ![r] = "yielded"]
        /\ next' = [next EXCEPT ![r] = @ + 1]
        /\ got' = [got EXCEPT ![r] = Append(@, item)]
    BY <1>5 DEF NextInSlice
  <2>2. StateAt("yielded") = "reading" /\ StateAt(pc[r]) = "reading"
    BY DEF StateAt, Live
  <2>3. [q \in Readers |-> ReaderState(q)]' = [q \in Readers |-> ReaderState(q)]
    BY <2>1, <2>2, StateMoves
  <2>4. [q \in Readers |-> ReaderState(q)][r] = "reading"
    BY <2>1, <2>2, StateMoves
  <2>5. /\ [g \in Gens |-> LogOf(contents[g])][from[r]] = LogOf(c)
        /\ next[r] < Len(LogOf(c)) /\ LogOf(c)[next[r] + 1] = item
    BY <1>1, <1>3, <1>5
  <2>6. Log!Deliver(r)
    BY <2>1, <2>3, <2>4, <2>5, ReadersOnly DEF Log!Deliver
  <2> QED
    BY <2>6, ReadersOnly DEF Log!Next
<1> QED
  BY <1>4, <1>5

LEMMA LoopTopMaps ==
    ASSUME IInv, ItemsFirst, NEW r \in Readers, Live(r), LoopTop(r),
           UNCHANGED <<contents, gen, from>>
    PROVE  ItemsFirst' /\ [Log!Next]_Log!vars
<1> DEFINE c == contents[from[r]]
<1>1. /\ from[r] \in Gens /\ c \in Seq(Items \union {End}) /\ next[r] \in Nat
  BY DEF IInv, TypeOK
<1>2. CASE next[r] < Len(c) /\ NextInSlice(r)
  BY <1>2, NextInSliceMaps
<1>3. CASE next[r] >= Len(c) /\ Ended(c) /\ Leave(r, "done")
  <2>1. PICK n \in Nat : Counts(c, n)
    BY <1>1 DEF ItemsFirst
  <2>2. Len(LogOf(c)) = n /\ n <= Len(c)
    BY <1>1, <2>1, LogAt DEF Counts
  <2>3. next[r] >= Len(LogOf(c))
    BY <1>1, <1>3, <2>2
  <2>4. pc' = [pc EXCEPT ![r] = "done"] /\ UNCHANGED <<next, got>>
    BY <1>3 DEF Leave
  <2> QED
    BY <1>3, <2>3, <2>4, StopMaps
<1>4. CASE Suspend(r)
  BY <1>4, StopMaps DEF Suspend
<1> QED
  BY <1>2, <1>3, <1>4 DEF LoopTop

LEMMA ReaderMaps ==
    ASSUME IInv, ItemsFirst, NEW r \in Readers,
           AiterFrom(r) \/ Resume(r) \/ TimeOut(r) \/ Abandon(r)
    PROVE  ItemsFirst' /\ [Log!Next]_Log!vars
<1>1. CASE AiterFrom(r)
  BY <1>1, AiterFromAttaches DEF Log!Next
<1>2. CASE FirstStep(r) \/ Wake(r)
  BY <1>2, LoopTopMaps DEF FirstStep, Wake, Live
<1>3. CASE ContinueSlice(r)
  <2>1. next[r] < end[r] /\ NextInSlice(r) /\ UNCHANGED <<contents, gen, from>>
        /\ pc[r] = "yielded"
    BY <1>3 DEF ContinueSlice
  <2>2. Live(r) /\ next[r] < Len(contents[from[r]])
    BY <2>1 DEF Live, IInv, SliceOK, TypeOK
  <2> QED
    BY <2>1, <2>2, NextInSliceMaps
<1>4. CASE FinishSlice(r)
  BY <1>4, LoopTopMaps, StopMaps DEF FinishSlice, Suspend, Live
<1>5. CASE TimeOut(r)
  BY <1>5, StopMaps DEF TimeOut, Leave, Live
<1>6. CASE Abandon(r)
  BY <1>6, StopMaps DEF Abandon, Leave, Live
<1> QED
  BY <1>1, <1>2, <1>3, <1>4, <1>5, <1>6 DEF Resume

-----------------------------------------------------------------------------
LEMMA InitMaps == Init => ItemsFirst /\ Log!Init
<1> SUFFICES ASSUME Init PROVE ItemsFirst /\ Log!Init
  OBVIOUS
<1>1. Counts(<<>>, 0) /\ ~Ended(<<>>)
  BY DEF Counts, Ended
<1>2. LogOf(<<>>) = <<>>
  <2>1. <<>> \in Seq(Items \union {End})
    OBVIOUS
  <2>2. Count(<<>>) = 0
    BY <1>1, <2>1, CountIs
  <2>3. SubSeq(<<>>, 1, 0) = <<>>
    OBVIOUS
  <2> QED
    BY <2>2, <2>3, LogIs
<1>3. ItemsFirst
  BY <1>1 DEF Init, ItemsFirst
<1>4. /\ [g \in Gens |-> LogOf(contents[g])] = [g \in Gens |-> <<>>]
      /\ [g \in Gens |-> Ended(contents[g])] = [g \in Gens |-> FALSE]
  <2>1. \A g \in Gens : contents[g] = <<>>
    BY DEF Init
  <2>2. \A g \in Gens : LogOf(contents[g]) = <<>> /\ Ended(contents[g]) = FALSE
    BY <1>1, <1>2, <2>1
  <2> QED
    BY <2>2
<1>5. [r \in Readers |-> ReaderState(r)] = [r \in Readers |-> "idle"]
  <2>1. \A r \in Readers : pc[r] = "idle"
    BY DEF Init
  <2>2. \A r \in Readers : ReaderState(r) = "idle"
    BY <2>1 DEF ReaderState, Live
  <2> QED
    BY <2>2
<1> QED
  BY <1>3, <1>4, <1>5 DEF Init, Log!Init, Gens, Log!Gens

LEMMA NextMaps ==
    ASSUME IInv, ItemsFirst, [Next]_vars
    PROVE  ItemsFirst' /\ [Log!Next]_Log!vars
<1>1. ASSUME NEW item \in Items, Put(item)
      PROVE  ItemsFirst' /\ [Log!Next]_Log!vars
  BY <1>1, PutPublishes DEF Log!Next
<1>2. CASE Close
  BY <1>2, CloseSeals DEF Log!Next
<1>3. CASE Clear
  BY <1>3, ClearResets DEF Log!Next
<1>4. CASE UNCHANGED vars
  BY <1>4, ReadersOnly, ListsOnly DEF vars, Log!vars
<1> QED
  BY <1>1, <1>2, <1>3, <1>4, ReaderMaps DEF Next

\* The queue implements the log: every step of a writer or a reader is one that
\* BroadcastLog allows, or is hidden.
THEOREM QueueIsALog == Spec => Log!Spec
<1>1. Init => ItemsFirst /\ Log!Init
  BY InitMaps
<1>2. IInv /\ ItemsFirst /\ [Next]_vars => ItemsFirst' /\ [Log!Next]_Log!vars
  BY NextMaps
<1> QED
  BY <1>1, <1>2, Invariance, PTL DEF Spec, Log!Spec
=============================================================================
