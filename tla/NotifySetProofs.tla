--------------------------- MODULE NotifySetProofs ---------------------------
(***************************************************************************)
(* RawNotifySet for any number of threads and elements: nobody takes an    *)
(* element that is not there, and every sleeper is counted.                *)
(*                                                                         *)
(* Both need to know who is inside: a thread past its test is the owner of *)
(* the mutex, so that nobody empties the set meanwhile, and when Insert    *)
(* signals nobody is between counting itself and going to sleep.           *)
(***************************************************************************)
EXTENDS NotifySet, FiniteSetTheorems, TLAPS

Places == {"idle", "lock", "in", "parking", "asleep", "woken", "check", "halfway", "flagged"}
Ops == {"none", "Pop", "TryPop", "Insert", "Erase", "Clear"}

TypeInv ==
    /\ pc \in [Thread -> Places]
    /\ call \in [Thread -> [op : Ops, element : Nat]]
    /\ born \in Int
    /\ \A t \in Thread : call[t].op = "Pop" => t \in Popper

SetInv == TypeInv /\ SetOK

Sleepers == {t \in Popper : pc[t] \in {"parking", "asleep"}}

CountInv == SetInv /\ WaitersCounted

USE SetAssumption

------------------------------------------------------------------------------
(* The mutex, the set and the flags. *)

LEMMA SetStart == Init => SetInv
<1> SUFFICES ASSUME Init PROVE SetInv
  OBVIOUS
<1>1. TypeInv
  BY DEF Init, TypeInv, Places, Ops, NoCall
<1>2. SetOK
  BY DEF Init, SetOK, FirstExists, NoCall, Thread
<1> QED
  BY <1>1, <1>2 DEF SetInv

\* A call begins: pc and call change for one idle thread.
LEMMA BeginKeeps == ASSUME SetInv, NEW t \in Thread, Begin(t) PROVE SetInv'
<1>1. PICK o \in {"Pop", "TryPop", "Insert", "Erase", "Clear"}, e \in Element :
        /\ t \in Popper <=> o \in {"Pop", "TryPop"}
        /\ call' = [call EXCEPT ![t] = [op |-> o,
                                        element |-> IF o \in {"Insert", "Erase"} THEN e ELSE 0]]
  BY DEF Begin
<1>2. pc[t] = "idle" /\ pc' = [pc EXCEPT ![t] = "lock"]
      /\ UNCHANGED <<set, stopToInsert, stopToPop, waitCount, born, owner, waiting>>
  BY DEF Begin, Goto, flagVars
<1>3. TypeInv'
  BY <1>1, <1>2 DEF SetInv, TypeInv, Places, Ops
<1>4. \A u \in Thread : u # t => pc'[u] = pc[u] /\ call'[u] = call[u]
  BY <1>1, <1>2 DEF SetInv, TypeInv
<1>5. pc'[t] = "lock"
  BY <1>2 DEF SetInv, TypeInv
<1>6. SetOK'
  BY <1>2, <1>4, <1>5 DEF SetInv, SetOK, FirstExists, Thread
<1> QED
  BY <1>3, <1>6 DEF SetInv

\* One thread moves inside, the set and the calls stay.
LEMMA MovesKeep ==
    ASSUME SetInv, NEW t \in Thread, Lock(t) \/ PopMustWait(t) \/ PopTest(t) \/ Sleep(t)
    PROVE  SetInv'
<1>1. CASE Lock(t)
  BY <1>1 DEF Lock, Goto, flagVars, SetInv, TypeInv, SetOK, FirstExists, Thread, Places
<1>2. CASE PopMustWait(t)
  <2>1. waitCount' \in Int
    BY <1>2 DEF PopMustWait, SetInv, SetOK
  <2> QED
    BY <1>2, <2>1 DEF PopMustWait, In, Goto, flagVars, SetInv, TypeInv, SetOK, FirstExists, Thread, Places
<1>3. CASE PopTest(t)
  BY <1>3 DEF PopTest, In, Goto, flagVars, SetInv, TypeInv, SetOK, FirstExists, Thread, Places
<1>4. CASE Sleep(t)
  BY <1>4 DEF Sleep, Goto, flagVars, SetInv, TypeInv, SetOK, FirstExists, Thread, Places
<1> QED
  BY <1>1, <1>2, <1>3, <1>4

\* A call that ends: its thread was the one inside, so nobody else is past a test.
LEMMA LeavesKeep ==
    ASSUME SetInv, NEW t \in Thread, pc[t] \in {"in", "check"}, NEW r, Goto(t, "idle"), Leave(t, r),
           UNCHANGED <<stopToInsert, stopToPop, waitCount, born, waiting>>
    PROVE  SetInv'
<1>1. owner = t /\ owner' = NoThread /\ call' = [call EXCEPT ![t] = NoCall]
  BY DEF SetInv, SetOK, Leave
<1>2. TypeInv'
  BY <1>1 DEF Goto, SetInv, TypeInv, Places, Ops, NoCall
<1>3. \A u \in Thread : pc'[u] \notin {"in", "parking", "check"}
  BY <1>1 DEF Goto, SetInv, TypeInv, SetOK
<1>4. SetOK'
  BY <1>1, <1>3 DEF Goto, SetInv, TypeInv, SetOK, FirstExists, Thread
<1> QED
  BY <1>2, <1>4 DEF SetInv

LEMMA TakesKeep ==
    ASSUME SetInv, NEW t \in Thread,
           PopTake(t) \/ TryPop(t) \/ InsertRefused(t) \/ Erase(t) \/ Clear(t)
    PROVE  SetInv'
<1>1. CASE PopTake(t)
  BY <1>1, LeavesKeep DEF PopTake, flagVars
<1>2. CASE TryPop(t)
  BY <1>2, LeavesKeep DEF TryPop, In, flagVars
<1>3. CASE InsertRefused(t)
  BY <1>3, LeavesKeep DEF InsertRefused, In, flagVars
<1>4. CASE Erase(t) \/ Clear(t)
  BY <1>4, LeavesKeep DEF Erase, Clear, Drop, In, flagVars
<1> QED
  BY <1>1, <1>2, <1>3, <1>4

\* Insert ends its call and may wake one thread that sleeps.
LEMMA InsertKeeps == ASSUME SetInv, NEW t \in Thread, Insert(t) PROVE SetInv'
<1>1. /\ pc[t] = "in" /\ owner = t /\ owner' = NoThread
      /\ call' = [call EXCEPT ![t] = NoCall]
      /\ UNCHANGED <<stopToInsert, stopToPop, born>>
  BY DEF Insert, In, Leave, SetInv, SetOK, flagVars
<1>2. waitCount' \in Int
  BY DEF Insert, SetInv, SetOK
<1>3. CASE Goto(t, "idle") /\ UNCHANGED waiting
  <2>1. \A u \in Thread : pc'[u] \notin {"in", "parking", "check"}
    BY <1>1, <1>3 DEF Goto, SetInv, TypeInv, SetOK
  <2> QED
    BY <1>1, <1>2, <1>3, <2>1
       DEF Goto, SetInv, TypeInv, SetOK, FirstExists, Thread, Places, Ops, NoCall
<1>4. CASE Signalled(t)
  <2>1. PICK w \in waiting : /\ waiting' = waiting \ {w}
                             /\ pc' = [pc EXCEPT ![t] = "idle", ![w] = "woken"]
    BY <1>4 DEF Signalled
  <2>2. w \in Thread /\ pc[w] = "asleep" /\ w # t /\ call[w].op = "Pop"
    BY <1>1 DEF SetInv, SetOK
  <2>3. /\ pc'[t] = "idle" /\ pc'[w] = "woken" /\ call'[w] = call[w]
        /\ \A u \in Thread \ {t, w} : pc'[u] = pc[u] /\ call'[u] = call[u]
    BY <1>1, <2>1, <2>2 DEF SetInv, TypeInv
  <2>4. TypeInv'
    BY <1>1, <2>1, <2>2, <2>3 DEF SetInv, TypeInv, Places, Ops, NoCall
  <2>5. \A u \in Thread : pc'[u] \notin {"in", "parking", "check"}
    BY <1>1, <2>3 DEF SetInv, SetOK
  <2>6. waiting' = {u \in Thread : pc'[u] = "asleep"}
    BY <2>1, <2>2, <2>3, <1>1 DEF SetInv, SetOK
  <2> QED
    BY <1>1, <1>2, <2>2, <2>3, <2>4, <2>5, <2>6 DEF SetInv, SetOK, FirstExists, Thread
<1> QED
  BY <1>3, <1>4 DEF Insert

\* The flags only go up; whoever is woken sleeps no more.
LEMMA StopsKeep ==
    ASSUME SetInv, NEW t \in Thread,
           StopFlag(t) \/ StopPopFlag(t) \/ Broadcast(t) \/ SpuriousWake(t)
    PROVE  SetInv'
<1>1. CASE StopFlag(t)
  BY <1>1 DEF StopFlag, Goto, SetInv, TypeInv, SetOK, FirstExists, Thread, Places
<1>2. CASE StopPopFlag(t)
  BY <1>2 DEF StopPopFlag, Goto, SetInv, TypeInv, SetOK, FirstExists, Thread, Places
<1>3. CASE Broadcast(t)
  <2>1. pc[t] = "flagged" /\ waiting' = {}
        /\ UNCHANGED <<set, stopToInsert, stopToPop, waitCount, born, owner, call>>
    BY <1>3 DEF Broadcast, flagVars
  <2>2. pc' = [u \in Thread |-> CASE u = t -> "idle" [] u \in waiting -> "woken" [] OTHER -> pc[u]]
    BY <1>3 DEF Broadcast
  <2>3. \A u \in Thread : \/ u = t /\ pc'[u] = "idle"
                          \/ u # t /\ pc[u] = "asleep" /\ pc'[u] = "woken"
                          \/ u # t /\ pc[u] # "asleep" /\ pc'[u] = pc[u]
    <3>1. t \notin waiting /\ \A u \in Thread : u \in waiting <=> pc[u] = "asleep"
      BY <2>1 DEF SetInv, SetOK
    <3>2. ASSUME NEW u \in Thread
          PROVE  pc'[u] = IF u = t THEN "idle" ELSE IF u \in waiting THEN "woken" ELSE pc[u]
      BY <2>2, <3>1
    <3> QED
      BY <3>1, <3>2
  <2>4. TypeInv'
    BY <2>1, <2>2, <2>3 DEF SetInv, TypeInv, Places
  <2>5. SetOK'
    BY <2>1, <2>3 DEF SetInv, SetOK, FirstExists, Thread
  <2> QED
    BY <2>4, <2>5 DEF SetInv
<1>4. CASE SpuriousWake(t)
  BY <1>4 DEF SpuriousWake, Goto, flagVars, SetInv, TypeInv, SetOK, FirstExists, Thread, Places
<1> QED
  BY <1>1, <1>2, <1>3, <1>4

LEMMA SetKeeps == SetInv /\ [Next]_vars => SetInv'
<1> SUFFICES ASSUME SetInv, [Next]_vars PROVE SetInv'
  OBVIOUS
<1>1. ASSUME NEW t \in Thread, Step(t) \/ Begin(t) \/ StopFlag(t) \/ SpuriousWake(t) PROVE SetInv'
  BY <1>1, BeginKeeps, MovesKeep, TakesKeep, InsertKeeps, StopsKeep DEF Step
<1>2. CASE UNCHANGED vars
  BY <1>2 DEF vars, flagVars, SetInv, TypeInv, SetOK, FirstExists
<1> QED
  BY <1>1, <1>2 DEF Next

\* A call of Pop never goes on with an empty set, and mutex, condition variable
\* and program counters agree, however the threads and the stop calls interleave.
THEOREM SetSafe == Spec => []SetOK
<1>1. SetInv => SetOK
  BY DEF SetInv
<1> QED
  BY <1>1, SetStart, SetKeeps, PTL DEF Spec

------------------------------------------------------------------------------
(* The count of waiters. *)

\* There are not more sleepers than before.
LEMMA FewerSleepers ==
    ASSUME WaitersCounted, waitCount \in Int, waitCount' = waitCount, born' = born,
           Sleepers' \subseteq Sleepers
    PROVE  WaitersCounted'
<1>1. IsFiniteSet(Sleepers)
  BY FS_Subset DEF Sleepers
<1>2. Cardinality(Sleepers') <= Cardinality(Sleepers)
      /\ Cardinality(Sleepers') \in Nat /\ Cardinality(Sleepers) \in Nat
  BY <1>1, FS_Subset, FS_CardinalityType
<1>3. born >= 0 => Cardinality(Sleepers) <= waitCount
  BY DEF WaitersCounted, Sleepers
<1>4. born' >= 0 => Cardinality(Sleepers') <= waitCount'
  BY <1>2, <1>3
<1> QED
  BY <1>4 DEF WaitersCounted, Sleepers

\* Who goes to sleep has counted itself.
LEMMA WaitCounts == ASSUME CountInv, NEW t \in Thread, PopMustWait(t) PROVE WaitersCounted'
<1>1. /\ pc[t] = "in" /\ pc' = [pc EXCEPT ![t] = "parking"] /\ t \in Popper
      /\ waitCount \in Int /\ waitCount' = waitCount + 1 /\ born' = born
  BY DEF PopMustWait, In, Goto, CountInv, SetInv, TypeInv, SetOK
<1>2. Sleepers' = Sleepers \cup {t} /\ t \notin Sleepers
  BY <1>1 DEF Sleepers, CountInv, SetInv, TypeInv, Thread
<1>3. IsFiniteSet(Sleepers)
  BY FS_Subset DEF Sleepers
<1>4. Cardinality(Sleepers') = Cardinality(Sleepers) + 1 /\ Cardinality(Sleepers) \in Nat
  BY <1>2, <1>3, FS_AddElement, FS_CardinalityType
<1>5. born >= 0 => Cardinality(Sleepers) <= waitCount
  BY DEF CountInv, WaitersCounted, Sleepers
<1>6. born' >= 0 => Cardinality(Sleepers') <= waitCount'
  BY <1>1, <1>4, <1>5
<1> QED
  BY <1>6 DEF WaitersCounted, Sleepers

\* Insert lowers the count by one and, while somebody sleeps, wakes one.
LEMMA InsertCounts == ASSUME CountInv, NEW t \in Thread, Insert(t) PROVE WaitersCounted'
<1>1. /\ pc[t] = "in" /\ owner = t /\ waitCount \in Int /\ born' = born
      /\ waitCount' = IF waitCount # 0 THEN waitCount - 1 ELSE waitCount
  BY DEF Insert, In, CountInv, SetInv, SetOK
<1>2. Sleepers = {u \in Popper : pc[u] = "asleep"}
  BY <1>1 DEF Sleepers, CountInv, SetInv, SetOK, Thread
<1>3. IsFiniteSet(Sleepers) /\ Cardinality(Sleepers) \in Nat
  BY FS_Subset, FS_CardinalityType DEF Sleepers
<1>4. born >= 0 => Cardinality(Sleepers) <= waitCount
  BY DEF CountInv, WaitersCounted, Sleepers
<1>5. CASE waitCount = 0 /\ Goto(t, "idle")
  <2>1. Sleepers' \subseteq Sleepers
    BY <1>5 DEF Goto, Sleepers, CountInv, SetInv, TypeInv, Thread
  <2> QED
    BY <1>1, <1>5, <2>1, FewerSleepers DEF CountInv
<1>6. CASE waitCount # 0 /\ waiting = {} /\ Goto(t, "idle")
  <2>1. Sleepers' = {}
    BY <1>2, <1>6 DEF Goto, Sleepers, CountInv, SetInv, TypeInv, SetOK, Thread
  <2>2. Cardinality(Sleepers') = 0
    BY <2>1, FS_EmptySet
  <2>3. born' >= 0 => Cardinality(Sleepers') <= waitCount'
    BY <1>1, <1>3, <1>4, <1>6, <2>2
  <2> QED
    BY <2>3 DEF WaitersCounted, Sleepers
<1>7. CASE waitCount # 0 /\ Signalled(t)
  <2>1. PICK w \in waiting : pc' = [pc EXCEPT ![t] = "idle", ![w] = "woken"]
    BY <1>7 DEF Signalled
  <2>2. w \in Popper /\ pc[w] = "asleep" /\ w # t
    BY <1>1 DEF CountInv, SetInv, TypeInv, SetOK
  <2>3. Sleepers' = Sleepers \ {w} /\ w \in Sleepers
    BY <1>1, <2>1, <2>2 DEF Sleepers, CountInv, SetInv, TypeInv, Thread
  <2>4. Cardinality(Sleepers') = Cardinality(Sleepers) - 1
    BY <1>3, <2>3, FS_RemoveElement
  <2>5. born' >= 0 => Cardinality(Sleepers') <= waitCount'
    BY <1>1, <1>3, <1>4, <1>7, <2>4
  <2> QED
    BY <2>5 DEF WaitersCounted, Sleepers
<1> QED
  BY <1>5, <1>6, <1>7 DEF Insert

\* Nothing else brings a sleeper or changes the count.
LEMMA OthersCount ==
    ASSUME CountInv, NEW t \in Thread,
           \/ Begin(t) \/ Lock(t) \/ PopTest(t) \/ Sleep(t) \/ PopTake(t) \/ TryPop(t)
           \/ InsertRefused(t) \/ Erase(t) \/ Clear(t)
           \/ StopFlag(t) \/ StopPopFlag(t) \/ Broadcast(t) \/ SpuriousWake(t)
    PROVE  WaitersCounted'
<1>1. waitCount \in Int /\ waitCount' = waitCount /\ born' = born
  BY DEF Begin, Lock, PopTest, Sleep, PopTake, TryPop, InsertRefused, Erase, Clear, Drop, StopFlag,
         StopPopFlag, Broadcast, SpuriousWake, CountInv, SetInv, SetOK
<1>2. ASSUME NEW place, place \notin {"parking", "asleep"}, pc' = [pc EXCEPT ![t] = place]
      PROVE  Sleepers' \subseteq Sleepers
  BY <1>2 DEF Sleepers, CountInv, SetInv, TypeInv, Thread
<1>3. CASE Begin(t) \/ Lock(t) \/ PopTest(t) \/ PopTake(t) \/ TryPop(t) \/ InsertRefused(t)
           \/ Erase(t) \/ Clear(t) \/ StopPopFlag(t) \/ SpuriousWake(t)
  <2>1. \E place : place \notin {"parking", "asleep"} /\ pc' = [pc EXCEPT ![t] = place]
    BY <1>3 DEF Begin, Lock, PopTest, PopTake, TryPop, InsertRefused, Erase, Clear, Drop,
                StopPopFlag, SpuriousWake, Goto
  <2> QED
    BY <1>1, <1>2, <2>1, FewerSleepers DEF CountInv
<1>4. CASE StopFlag(t)
  <2>1. \E place \in {"halfway", "flagged"} : pc' = [pc EXCEPT ![t] = place]
    BY <1>4 DEF StopFlag, Goto
  <2> QED
    BY <1>1, <1>2, <2>1, FewerSleepers DEF CountInv
<1>5. CASE Sleep(t)
  <2>1. Sleepers' \subseteq Sleepers
    BY <1>5 DEF Sleep, Goto, Sleepers, CountInv, SetInv, TypeInv, Thread
  <2> QED
    BY <1>1, <2>1, FewerSleepers DEF CountInv
<1>6. CASE Broadcast(t)
  <2>1. \A u \in Thread : pc'[u] \in {"parking", "asleep"} => pc'[u] = pc[u]
    BY <1>6 DEF Broadcast
  <2>2. Sleepers' \subseteq Sleepers
    BY <2>1 DEF Sleepers, Thread
  <2> QED
    BY <1>1, <2>2, FewerSleepers DEF CountInv
<1> QED
  BY <1>3, <1>4, <1>5, <1>6

LEMMA CountKeeps == CountInv /\ [Next]_vars => WaitersCounted'
<1> SUFFICES ASSUME CountInv, [Next]_vars PROVE WaitersCounted'
  OBVIOUS
<1>1. ASSUME NEW t \in Thread, Step(t) \/ Begin(t) \/ StopFlag(t) \/ SpuriousWake(t)
      PROVE  WaitersCounted'
  BY <1>1, WaitCounts, InsertCounts, OthersCount DEF Step
<1>2. CASE UNCHANGED vars
  <2>1. Sleepers' \subseteq Sleepers /\ waitCount' = waitCount /\ born' = born /\ waitCount \in Int
    BY <1>2 DEF vars, Sleepers, CountInv, SetInv, SetOK
  <2> QED
    BY <2>1, FewerSleepers DEF CountInv
<1> QED
  BY <1>1, <1>2 DEF Next

LEMMA CountStart == Init => WaitersCounted
<1> SUFFICES ASSUME Init PROVE WaitersCounted
  OBVIOUS
<1>1. Sleepers = {}
  BY DEF Init, Sleepers, Thread
<1>2. Cardinality(Sleepers) = 0
  BY <1>1, FS_EmptySet
<1> QED
  BY <1>2 DEF Init, WaitersCounted, Sleepers

\* If the memory of _waitCount held no negative number, it never falls below the
\* number of threads that sleep or are about to.
THEOREM SleepersKnown == Spec => []WaitersCounted
<1>1. Init => CountInv
  BY SetStart, CountStart DEF CountInv
<1>2. CountInv /\ [Next]_vars => CountInv'
  BY SetKeeps, CountKeeps DEF CountInv
<1>3. CountInv => WaitersCounted
  BY DEF CountInv
<1> QED
  BY <1>1, <1>2, <1>3, PTL DEF Spec
=============================================================================
