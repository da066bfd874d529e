---------------------------- MODULE RawQueueProofs ----------------------------
(* For any number of getters, putters and stoppers: the waiters are counted,  *)
(* front is never called on an empty queue, an empty stopped queue stays      *)
(* empty, and Find reports only what is in the queue.                         *)
EXTENDS RawQueue, FiniteSetTheorems, SequenceTheorems, TLAPS

\* Out of the loop there is an element or the stop flag; nobody else holds the
\* mutex to take the element away, and the flag is never lowered.
LoopLeft == \A t \in Getter : pc[t] = "check" => queue # << >> \/ stopToPut

\* Why an empty, stopped queue stays empty: the flag is up and no putter is past its test.
Drained == \A t \in Getter : result[t] = "QueueEmptyAndStopToPutException" =>
               /\ queue = << >>
               /\ stopToPut
               /\ \A u \in Putter : pc[u] # "push"

QueueInv == QueueTypeOK /\ LoopLeft /\ FrontExists /\ Drained

------------------------------------------------------------------------------
(* The mutex, the queue and the flags. *)

\* A new queue is empty and nobody is inside.
LEMMA QueueStart == Init => QueueInv
<1> SUFFICES ASSUME Init PROVE QueueInv
  OBVIOUS
<1>1. \A t \in Thread : pc[t] = "idle" /\ result[t] = "none"
  BY DEF Init
<1>2. pc \in [Thread -> Places] /\ result \in [Thread -> Results]
  BY DEF Init, Places, Results
<1>3. queue \in Seq(Element) /\ puts \in Seq(Element) /\ gets \in Seq(Element)
  BY DEF Init
<1>4. QueueTypeOK
  BY <1>1, <1>2, <1>3, QueueAssumption DEF Init, QueueTypeOK, Inner
<1> QED
  BY <1>1, <1>4 DEF QueueInv, LoopLeft, FrontExists, Drained, Thread

\* A call that begins touches neither the queue nor the mutex.
LEMMA CallsKeep ==
    ASSUME QueueInv, NEW t \in Thread, CallGet(t) \/ CallPut(t)
    PROVE  QueueInv'
<1>1. CASE CallGet(t)
  BY <1>1, QueueAssumption
     DEF CallGet, Goto, dataVars, QueueInv, QueueTypeOK, LoopLeft, FrontExists, Drained, Thread,
         Places, Inner, Results
<1>2. CASE CallPut(t)
  BY <1>2, QueueAssumption
     DEF CallPut, Goto, dataVars, QueueInv, QueueTypeOK, LoopLeft, FrontExists, Drained, Thread,
         Places, Inner, Results
<1> QED
  BY <1>1, <1>2

\* The mutex goes from nobody to one thread.
LEMMA LockKeeps ==
    ASSUME QueueInv, NEW t \in Thread, Lock(t)
    PROVE  QueueInv'
  BY QueueAssumption
     DEF Lock, Goto, dataVars, QueueInv, QueueTypeOK, LoopLeft, FrontExists, Drained, Thread,
         Places, Inner

\* Get's test lets it out of the loop only with an element or the stop flag.
LEMMA TestKeeps ==
    ASSUME QueueInv, NEW t \in Thread, GetTest(t) \/ GetWait(t)
    PROVE  QueueInv'
<1>1. CASE GetTest(t)
  <2>1. waitCount' \in Nat
    BY <1>1 DEF GetTest, QueueInv, QueueTypeOK
  <2> QED
    BY <1>1, <2>1, QueueAssumption
       DEF GetTest, Goto, dataVars, QueueInv, QueueTypeOK, LoopLeft, FrontExists, Drained, Thread,
           Places, Inner
<1>2. CASE GetWait(t)
  BY <1>2, QueueAssumption
     DEF GetWait, Goto, dataVars, QueueInv, QueueTypeOK, LoopLeft, FrontExists, Drained, Thread,
         Places, Inner
<1> QED
  BY <1>1, <1>2

\* The looks at the flags after the loop leave the queue alone.
LEMMA CheckKeeps ==
    ASSUME QueueInv, NEW t \in Thread, GetCheck(t) \/ GetNothing(t)
    PROVE  QueueInv'
<1>1. CASE GetCheck(t)
  BY <1>1, QueueAssumption
     DEF GetCheck, Leave, Goto, dataVars, QueueInv, QueueTypeOK, LoopLeft, FrontExists, Drained,
         Thread, Places, Inner, Results
<1>2. CASE GetNothing(t)
  <2>1. \A u \in Putter : pc[u] # "push"
    BY <1>2, QueueAssumption DEF GetNothing, QueueInv, QueueTypeOK, Thread, Inner
  <2> QED
    BY <1>2, <2>1, QueueAssumption
       DEF GetNothing, Leave, Goto, dataVars, QueueInv, QueueTypeOK, LoopLeft, FrontExists,
           Drained, Thread, Places, Inner, Results
<1> QED
  BY <1>1, <1>2

\* The getter that pops is the only thread inside.
LEMMA PopKeeps ==
    ASSUME QueueInv, NEW t \in Thread, GetElement(t)
    PROVE  QueueInv'
<1>1. /\ Head(queue) \in Element /\ queue' \in Seq(Element)
      /\ gets' \in Seq(Element) /\ puts' \in Seq(Element)
      /\ set' \subseteq Element
  <2>1. queue \in Seq(Element) /\ gets \in Seq(Element) /\ puts \in Seq(Element)
    BY DEF QueueInv, QueueTypeOK
  <2>2. queue # << >>
    BY DEF GetElement
  <2>3. Head(queue) \in Element /\ Tail(queue) \in Seq(Element)
    BY <2>1, <2>2, HeadTailProperties
  <2>4. gets' \in {gets, Append(gets, Head(queue))} /\ puts' = puts /\ queue' = Tail(queue)
    BY DEF GetElement
  <2>5. Append(gets, Head(queue)) \in Seq(Element)
    BY <2>1, <2>3
  <2>6. set' \subseteq Element
    BY DEF GetElement, QueueInv, QueueTypeOK
  <2> QED
    BY <2>1, <2>3, <2>4, <2>5, <2>6
<1>2. PICK res \in Results : Leave(t, res) /\ res # "QueueEmptyAndStopToPutException"
  BY DEF GetElement, Results
<1>3. /\ pc[t] = "take" /\ queue # << >>
      /\ UNCHANGED <<stopToPut, stopToGet, waitCount, waiting, arg>>
  BY DEF GetElement
<1>4. QueueTypeOK'
  BY <1>1, <1>2, <1>3, QueueAssumption
     DEF Leave, Goto, QueueInv, QueueTypeOK, Thread, Places, Inner
<1>5. \A u \in Getter : result[u] # "QueueEmptyAndStopToPutException"
  BY <1>3 DEF QueueInv, Drained
<1>6. Drained'
  BY <1>2, <1>5 DEF Leave, Drained, QueueInv, QueueTypeOK, Thread
<1>7. \A u \in Thread : pc'[u] \notin Inner
  BY <1>2, <1>3 DEF Leave, Goto, QueueInv, QueueTypeOK, Inner
<1> QED
  BY <1>4, <1>6, <1>7 DEF QueueInv, LoopLeft, FrontExists, Inner, Thread

\* A putter that saw the flag pushes nothing.
LEMMA PutTestKeeps ==
    ASSUME QueueInv, NEW t \in Thread, PutTest(t)
    PROVE  QueueInv'
<1>1. CASE stopToPut /\ Leave(t, "QueueStopToPutException")
  BY <1>1, QueueAssumption
     DEF PutTest, Leave, Goto, dataVars, QueueInv, QueueTypeOK, LoopLeft, FrontExists, Drained,
         Thread, Places, Inner, Results
<1>2. CASE ~stopToPut /\ Goto(t, "push") /\ UNCHANGED <<owner, result>>
  BY <1>2, QueueAssumption
     DEF PutTest, Leave, Goto, dataVars, QueueInv, QueueTypeOK, LoopLeft, FrontExists, Drained,
         Thread, Places, Inner, Results
<1> QED
  BY <1>1, <1>2 DEF PutTest

\* A push happens while no getter has been told that the queue is drained.
LEMMA PushKeeps ==
    ASSUME QueueInv, NEW t \in Thread, PutElement(t)
    PROVE  QueueInv'
<1>1. pc[t] = "push" /\ t \in Putter /\ owner = t
  BY DEF PutElement, QueueInv, QueueTypeOK, Inner
<1>2. arg[t] \in Element
  BY <1>1 DEF QueueInv, QueueTypeOK
<1>3. /\ queue' \in Seq(Element) /\ puts' \in Seq(Element) /\ gets' \in Seq(Element)
      /\ set' \subseteq Element
  BY <1>2 DEF PutElement, QueueInv, QueueTypeOK
<1>4. waitCount' \in Nat
  BY DEF PutElement, QueueInv, QueueTypeOK
<1>5. \A u \in Getter : result[u] # "QueueEmptyAndStopToPutException"
  BY <1>1 DEF QueueInv, Drained
<1>6. \A u \in Thread : result'[u] = IF u = t THEN "ok" ELSE result[u]
  BY DEF PutElement, QueueInv, QueueTypeOK
<1>7. Drained'
  BY <1>5, <1>6 DEF Drained, Thread
<1>8. PICK W \in SUBSET waiting :
          /\ waiting' = waiting \ W
          /\ pc' \in [Thread -> Places]
          /\ \A u \in Thread : pc'[u] = IF u = t THEN "idle" ELSE IF u \in W THEN "woken" ELSE pc[u]
  <2>1. CASE Goto(t, "idle") /\ UNCHANGED waiting
    <3>1. /\ pc' \in [Thread -> Places]
          /\ \A u \in Thread : pc'[u] = IF u = t THEN "idle" ELSE pc[u]
      BY <2>1 DEF Goto, QueueInv, QueueTypeOK, Places
    <3>2. {} \in SUBSET waiting /\ waiting' = waiting \ {}
      BY <2>1
    <3> QED
      BY <3>1, <3>2
  <2>2. ASSUME NEW w \in waiting, waiting' = waiting \ {w},
               pc' = [pc EXCEPT ![t] = "idle", ![w] = "woken"]
        PROVE  \E W \in SUBSET waiting :
                  /\ waiting' = waiting \ W
                  /\ pc' \in [Thread -> Places]
                  /\ \A u \in Thread :
                       pc'[u] = IF u = t THEN "idle" ELSE IF u \in W THEN "woken" ELSE pc[u]
    <3>1. w \in Thread /\ w # t
      BY <1>1 DEF QueueInv, QueueTypeOK
    <3>2. /\ pc' \in [Thread -> Places]
          /\ \A u \in Thread :
               pc'[u] = IF u = t THEN "idle" ELSE IF u \in {w} THEN "woken" ELSE pc[u]
      BY <2>2, <3>1 DEF QueueInv, QueueTypeOK, Places
    <3>3. {w} \in SUBSET waiting
      OBVIOUS
    <3> QED
      BY <2>2, <3>2, <3>3
  <2> QED
    BY <2>1, <2>2 DEF PutElement
<1>9. \A u \in Thread : pc'[u] \notin Inner
  BY <1>1, <1>8 DEF QueueInv, QueueTypeOK, Inner
<1>10. /\ stopToPut' = stopToPut /\ stopToGet' = stopToGet /\ arg' = arg /\ owner' = NoThread
       /\ result' \in [Thread -> Results]
  BY DEF PutElement, QueueInv, QueueTypeOK, Results
<1>11. waiting' = {u \in Thread : pc'[u] = "asleep"}
  BY <1>1, <1>8 DEF QueueInv, QueueTypeOK
<1>12. \A u \in Thread : pc'[u] = "asleep" => u \in Getter
  BY <1>8 DEF QueueInv, QueueTypeOK
<1>13. QueueTypeOK'
  BY <1>3, <1>4, <1>8, <1>9, <1>10, <1>11, <1>12 DEF QueueInv, QueueTypeOK, Inner
<1> QED
  BY <1>7, <1>9, <1>13 DEF QueueInv, LoopLeft, FrontExists, Inner, Thread

\* The flags go up, under whatever the other threads are doing, and stay up.
LEMMA StopsKeep ==
    ASSUME QueueInv, NEW t \in Thread, StopCall(t) \/ StopBothFlag(t)
    PROVE  QueueInv'
<1>1. CASE StopPutFlag(t)
  BY <1>1, QueueAssumption
     DEF StopPutFlag, Goto, dataVars, QueueInv, QueueTypeOK, LoopLeft, FrontExists, Drained,
         Thread, Places, Inner, Results
<1>2. CASE StopGetFlag(t)
  BY <1>2, QueueAssumption
     DEF StopGetFlag, Goto, dataVars, QueueInv, QueueTypeOK, LoopLeft, FrontExists, Drained,
         Thread, Places, Inner, Results
<1>3. CASE StopBothFlag(t)
  BY <1>3, QueueAssumption
     DEF StopBothFlag, Goto, dataVars, QueueInv, QueueTypeOK, LoopLeft, FrontExists, Drained,
         Thread, Places, Inner
<1> QED
  BY <1>1, <1>2, <1>3 DEF StopCall

\* A broadcast or a spurious wake-up moves sleepers to the mutex, no further.
LEMMA WakesKeep ==
    ASSUME QueueInv, NEW t \in Thread, Broadcast(t) \/ SpuriousWake(t)
    PROVE  QueueInv'
<1>1. CASE Broadcast(t)
  <2>1. \A u \in Thread : pc'[u] = CASE u = t -> "idle"
                                     [] u \in waiting -> "woken"
                                     [] OTHER -> pc[u]
    BY <1>1 DEF Broadcast
  <2>2. pc' \in [Thread -> Places]
    BY <1>1 DEF Broadcast, QueueInv, QueueTypeOK, Places
  <2>3. result' \in [Thread -> Results]
    BY <1>1 DEF Broadcast, QueueInv, QueueTypeOK, Results
  <2>4. \A u \in Thread : result'[u] = IF u = t THEN "ok" ELSE result[u]
    BY <1>1 DEF Broadcast, QueueInv, QueueTypeOK
  <2>5. \A u \in Thread : pc'[u] \in {"idle", "woken"} \/ pc'[u] = pc[u]
    BY <2>1
  <2>6. \A u \in Thread : pc'[u] # "asleep"
    BY <2>1 DEF QueueInv, QueueTypeOK
  <2>7. Drained' /\ LoopLeft' /\ FrontExists'
    BY <1>1, <2>4, <2>5
       DEF Broadcast, dataVars, QueueInv, Drained, LoopLeft, FrontExists, Thread
  <2>8. owner # NoThread => pc'[owner] \in Inner
    BY <1>1, <2>1 DEF Broadcast, QueueInv, QueueTypeOK, Inner
  <2>9. QueueTypeOK'
    BY <1>1, <2>2, <2>3, <2>5, <2>6, <2>8
       DEF Broadcast, dataVars, QueueInv, QueueTypeOK, Inner
  <2> QED
    BY <2>7, <2>9 DEF QueueInv
<1>2. CASE SpuriousWake(t)
  BY <1>2, QueueAssumption
     DEF SpuriousWake, Goto, dataVars, QueueInv, QueueTypeOK, LoopLeft, FrontExists, Drained,
         Thread, Places, Inner
<1> QED
  BY <1>1, <1>2

\* The whole next-state relation keeps the invariant.
LEMMA QueueKeeps == QueueInv /\ [Next]_vars => QueueInv'
<1> SUFFICES ASSUME QueueInv, [Next]_vars PROVE QueueInv'
  OBVIOUS
<1>1. ASSUME NEW t \in Thread,
             Step(t) \/ CallGet(t) \/ CallPut(t) \/ StopCall(t) \/ SpuriousWake(t)
      PROVE  QueueInv'
  BY <1>1, CallsKeep, LockKeeps, TestKeeps, CheckKeeps, PopKeeps, PutTestKeeps, PushKeeps,
     StopsKeep, WakesKeep DEF Step
<1>2. CASE UNCHANGED vars
  BY <1>2 DEF vars, dataVars, QueueInv, QueueTypeOK, LoopLeft, FrontExists, Drained
<1> QED
  BY <1>1, <1>2 DEF Next

\* Mutual exclusion; no front of an empty queue; an empty, stopped queue stays
\* empty although the flags are raised without the mutex.
THEOREM QueueSafe == Spec => [](QueueTypeOK /\ FrontExists /\ DrainedIsFinal)
<1>1. QueueInv => QueueTypeOK /\ FrontExists /\ DrainedIsFinal
  BY DEF QueueInv, Drained, DrainedIsFinal
<1> QED
  BY <1>1, QueueStart, QueueKeeps, PTL DEF Spec

------------------------------------------------------------------------------
(* The waiters are counted. *)

Sleepers == {t \in Getter : pc[t] \in {"parking", "asleep"}}

Counted == Cardinality(Sleepers) <= waitCount

\* Fewer sleepers and a count no smaller stay counted.
LEMMA FewerSleepers ==
    ASSUME QueueInv, Counted, QueueInv', Sleepers' \subseteq Sleepers, waitCount' >= waitCount
    PROVE  Counted'
<1>1. IsFiniteSet(Sleepers)
  BY QueueAssumption, FS_Subset DEF Sleepers
<1>2. IsFiniteSet(Sleepers') /\ Cardinality(Sleepers') <= Cardinality(Sleepers)
  BY <1>1, FS_Subset
<1>3. Cardinality(Sleepers) \in Nat /\ Cardinality(Sleepers') \in Nat
  BY <1>1, <1>2, FS_CardinalityType
<1>4. waitCount \in Nat /\ waitCount' \in Nat
  BY DEF QueueInv, QueueTypeOK
<1> QED
  BY <1>2, <1>3, <1>4 DEF Counted

\* The waiter is counted before it sleeps.
LEMMA TestCounts ==
    ASSUME QueueInv, Counted, QueueInv', NEW t \in Thread, GetTest(t)
    PROVE  Counted'
<1>1. CASE Goto(t, "check") /\ UNCHANGED waitCount
  <2>1. Sleepers' \subseteq Sleepers /\ waitCount' >= waitCount
    BY <1>1 DEF Goto, Sleepers, QueueInv, QueueTypeOK
  <2> QED
    BY <2>1, FewerSleepers
<1>2. CASE waitCount' = waitCount + 1 /\ Goto(t, "parking")
  <2>1. Sleepers' = Sleepers \cup {t}
    BY <1>2 DEF GetTest, Goto, Sleepers, QueueInv, QueueTypeOK
  <2>2. IsFiniteSet(Sleepers)
    BY QueueAssumption, FS_Subset DEF Sleepers
  <2>3. Cardinality(Sleepers') \in {Cardinality(Sleepers), Cardinality(Sleepers) + 1}
    <3>1. Cardinality(Sleepers \cup {t}) =
            IF t \in Sleepers THEN Cardinality(Sleepers) ELSE Cardinality(Sleepers) + 1
      BY <2>2, FS_AddElement
    <3> QED
      BY <2>1, <3>1
  <2>4. Cardinality(Sleepers) \in Nat /\ waitCount \in Nat
    BY <2>2, FS_CardinalityType DEF QueueInv, QueueTypeOK
  <2> QED
    BY <1>2, <2>3, <2>4 DEF Counted
<1> QED
  BY <1>1, <1>2 DEF GetTest

\* A Put lowers the count by one and wakes one sleeper, unless there is none.
LEMMA PutCounts ==
    ASSUME QueueInv, Counted, QueueInv', NEW t \in Thread, PutElement(t)
    PROVE  Counted'
<1>1. owner = t /\ pc[t] = "push" /\ t \in Putter /\ t \notin Getter
  BY QueueAssumption DEF PutElement, QueueInv, QueueTypeOK, Inner
<1>2. Sleepers = waiting
  BY <1>1 DEF Sleepers, QueueInv, QueueTypeOK, Inner, Thread
<1>3. IsFiniteSet(Sleepers)
  BY QueueAssumption, FS_Subset DEF Sleepers
<1>4. Cardinality(Sleepers) \in Nat /\ waitCount \in Nat
  BY <1>3, FS_CardinalityType DEF QueueInv, QueueTypeOK
<1>5. CASE waitCount = 0 /\ UNCHANGED waitCount /\ Goto(t, "idle")
  <2>1. Sleepers' \subseteq Sleepers /\ waitCount' >= waitCount
    BY <1>1, <1>5 DEF Goto, Sleepers, QueueInv, QueueTypeOK
  <2> QED
    BY <2>1, FewerSleepers
<1>6. CASE waitCount # 0 /\ waiting = {} /\ waitCount' = waitCount - 1 /\ Goto(t, "idle")
  <2>1. Sleepers' = {}
    BY <1>1, <1>2, <1>6 DEF Goto, Sleepers, QueueInv, QueueTypeOK
  <2> QED
    BY <1>4, <1>6, <2>1, FS_EmptySet DEF Counted
<1>7. ASSUME waitCount # 0, waitCount' = waitCount - 1, NEW w \in waiting,
             pc' = [pc EXCEPT ![t] = "idle", ![w] = "woken"]
      PROVE  Counted'
  <2>1. Sleepers' = Sleepers \ {w}
    BY <1>1, <1>7 DEF Sleepers, QueueInv, QueueTypeOK, Thread
  <2>2. Cardinality(Sleepers') = Cardinality(Sleepers) - 1
    BY <1>2, <1>3, <1>7, <2>1, FS_RemoveElement
  <2> QED
    BY <1>4, <1>7, <2>2 DEF Counted
<1> QED
  BY <1>5, <1>6, <1>7 DEF PutElement

\* Every other step only takes threads away from the sleepers, or parks to sleep.
LEMMA OthersCount ==
    ASSUME QueueInv, Counted, QueueInv', [Next]_vars,
           \A t \in Thread : ~GetTest(t) /\ ~PutElement(t)
    PROVE  Counted'
<1>1. waitCount' = waitCount
  BY DEF Next, Step, StopCall, CallGet, CallPut, Lock, GetWait, GetCheck, GetNothing, GetElement,
         PutTest, StopBothFlag, Broadcast, StopPutFlag, StopGetFlag, SpuriousWake, vars
<1>2. Sleepers' \subseteq Sleepers
  <2>1. ASSUME NEW t \in Thread, GetWait(t) PROVE Sleepers' \subseteq Sleepers
    BY <2>1 DEF GetWait, Goto, Sleepers, QueueInv, QueueTypeOK
  <2>2. ASSUME NEW t \in Thread, Broadcast(t) PROVE Sleepers' \subseteq Sleepers
    BY <2>2 DEF Broadcast, Sleepers, QueueInv, QueueTypeOK, Thread
  <2>3. ASSUME NEW t \in Thread, NEW place \in Places \ {"parking", "asleep"}, Goto(t, place)
        PROVE  Sleepers' \subseteq Sleepers
    BY <2>3 DEF Goto, Sleepers, QueueInv, QueueTypeOK
  <2>4. ASSUME NEW t \in Thread,
               \/ CallGet(t) \/ CallPut(t) \/ StopCall(t) \/ SpuriousWake(t) \/ Lock(t)
               \/ GetCheck(t) \/ GetNothing(t) \/ GetElement(t) \/ PutTest(t) \/ StopBothFlag(t)
        PROVE  \E place \in Places \ {"parking", "asleep"} : Goto(t, place)
    BY <2>4 DEF CallGet, CallPut, StopCall, StopPutFlag, StopGetFlag, SpuriousWake, Lock,
                GetCheck, GetNothing, GetElement, PutTest, StopBothFlag, Leave, Places
  <2>5. CASE UNCHANGED vars
    BY <2>5 DEF vars, Sleepers
  <2> QED
    BY <2>1, <2>2, <2>3, <2>4, <2>5 DEF Next, Step
<1>3. waitCount' >= waitCount
  BY <1>1 DEF QueueInv, QueueTypeOK
<1> QED
  BY <1>2, <1>3, FewerSleepers

\* No Put ever withholds the signal a sleeper is waiting for, for any number of
\* getters, spurious wake-ups and broadcasts.
THEOREM WaitersCounted == Spec => []SleepersCounted
<1>1. Init => QueueInv /\ Counted
  <2> SUFFICES ASSUME Init PROVE Counted
    BY QueueStart
  <2>1. Sleepers = {}
    BY DEF Init, Sleepers, Thread
  <2> QED
    BY <2>1, FS_EmptySet DEF Init, Counted
<1>2. QueueInv /\ Counted /\ [Next]_vars => (QueueInv /\ Counted)'
  BY QueueKeeps, TestCounts, PutCounts, OthersCount
<1>3. Counted => SleepersCounted
  BY DEF Counted, Sleepers, SleepersCounted
<1> QED
  BY <1>1, <1>2, <1>3, PTL DEF Spec

------------------------------------------------------------------------------
(* What is put is popped, and Find is right. *)

\* A front that moves from one sequence to the end of the other changes nothing
\* in the two together.
LEMMA MoveFront ==
    ASSUME NEW S, NEW f \in Seq(S), NEW q \in Seq(S), q # << >>
    PROVE  Append(f, Head(q)) \o Tail(q) = f \o q
<1>1. /\ Head(q) \in S /\ Tail(q) \in Seq(S) /\ Len(Tail(q)) = Len(q) - 1
      /\ \A i \in 1 .. Len(q) - 1 : Tail(q)[i] = q[i + 1]
      /\ Head(q) = q[1] /\ Len(q) \in Nat /\ Len(q) >= 1 /\ Len(f) \in Nat
  BY HeadTailProperties
<1> DEFINE fa == Append(f, Head(q))
<1>2. /\ fa \in Seq(S) /\ Len(fa) = Len(f) + 1
      /\ \A i \in 1 .. Len(f) + 1 : fa[i] = IF i <= Len(f) THEN f[i] ELSE Head(q)
  BY <1>1, AppendProperties
<1> HIDE DEF fa
<1>3. /\ fa \o Tail(q) \in Seq(S)
      /\ Len(fa \o Tail(q)) = Len(f) + Len(q)
      /\ \A i \in 1 .. Len(f) + Len(q) :
           (fa \o Tail(q))[i] = IF i <= Len(f) + 1 THEN fa[i] ELSE Tail(q)[i - (Len(f) + 1)]
  BY <1>1, <1>2, ConcatProperties
<1>4. /\ f \o q \in Seq(S)
      /\ Len(f \o q) = Len(f) + Len(q)
      /\ \A i \in 1 .. Len(f) + Len(q) :
           (f \o q)[i] = IF i <= Len(f) THEN f[i] ELSE q[i - Len(f)]
  BY <1>1, ConcatProperties
<1>5. ASSUME NEW i \in 1 .. Len(f) + Len(q) PROVE (fa \o Tail(q))[i] = (f \o q)[i]
  <2>1. CASE i <= Len(f)
    <3>1. i \in 1 .. Len(f) + 1 /\ i <= Len(f) + 1
      BY <1>1, <2>1
    <3>2. (fa \o Tail(q))[i] = fa[i] /\ fa[i] = f[i]
      BY <1>2, <1>3, <2>1, <3>1
    <3> QED
      BY <1>4, <2>1, <3>2
  <2>2. CASE i = Len(f) + 1
    <3>1. i \in 1 .. Len(f) + 1 /\ i <= Len(f) + 1 /\ ~(i <= Len(f)) /\ i - Len(f) = 1
      BY <1>1, <2>2
    <3>2. (fa \o Tail(q))[i] = fa[i] /\ fa[i] = q[1]
      BY <1>1, <1>2, <1>3, <3>1
    <3>3. (f \o q)[i] = q[1]
      BY <1>4, <3>1
    <3> QED
      BY <3>2, <3>3
  <2>3. CASE i > Len(f) + 1
    <3>1. i - (Len(f) + 1) \in 1 .. Len(q) - 1 /\ i - (Len(f) + 1) + 1 = i - Len(f)
      BY <1>1, <2>3
    <3>2. Tail(q)[i - (Len(f) + 1)] = q[i - Len(f)]
      BY <1>1, <3>1
    <3>3. ~(i <= Len(f)) /\ ~(i <= Len(f) + 1)
      BY <1>1, <2>3
    <3>4. (fa \o Tail(q))[i] = Tail(q)[i - (Len(f) + 1)]
      BY <1>3, <3>3
    <3>5. (f \o q)[i] = q[i - Len(f)]
      BY <1>4, <3>3
    <3> QED
      BY <3>2, <3>4, <3>5
  <2>4. i <= Len(f) \/ i = Len(f) + 1 \/ i > Len(f) + 1
    BY <1>1
  <2> QED
    BY <2>1, <2>2, <2>3, <2>4
<1> QED
  BY <1>3, <1>4, <1>5, SeqEqual DEF fa

\* What Get popped and what the queue holds are together what was pushed.
THEOREM GetsFollowPuts == Spec => []InOrder
<1>1. Init => InOrder
  BY DEF Init, InOrder
<1>2. QueueInv /\ InOrder /\ [Next]_vars => InOrder'
  <2> SUFFICES ASSUME QueueInv, InOrder, [Next]_vars PROVE InOrder'
    OBVIOUS
  <2>1. queue \in Seq(Element) /\ puts \in Seq(Element) /\ gets \in Seq(Element)
    BY DEF QueueInv, QueueTypeOK
  <2>2. ASSUME NEW t \in Thread, GetElement(t) PROVE InOrder'
    BY <2>1, <2>2, MoveFront DEF GetElement, InOrder
  <2>3. ASSUME NEW t \in Thread, PutElement(t) PROVE InOrder'
    <3>1. arg[t] \in Element
      BY <2>3 DEF PutElement, QueueInv, QueueTypeOK
    <3>2. gets \o Append(queue, arg[t]) = Append(gets \o queue, arg[t])
      BY <2>1, <3>1, AppendIsConcat, ConcatAssociative, ConcatProperties
    <3> QED
      BY <2>3, <3>2 DEF PutElement, InOrder
  <2>4. ASSUME \A t \in Thread : ~GetElement(t) /\ ~PutElement(t) PROVE UNCHANGED <<queue, gets, puts>>
    BY <2>4 DEF Next, Step, StopCall, CallGet, CallPut, Lock, GetTest, GetWait, GetCheck,
       GetNothing, PutTest, StopBothFlag, Broadcast, StopPutFlag, StopGetFlag, SpuriousWake, vars,
       dataVars
  <2> QED
    BY <2>2, <2>3, <2>4 DEF InOrder
<1> QED
  BY <1>1, <1>2, QueueStart, QueueKeeps, PTL DEF Spec

\* Every member of the set has a copy in the queue: what is popped leaves the
\* set, whether or not another copy stays behind.
THEOREM FindNeverLies == Spec => []FindSound
<1>1. Init => FindSound
  BY DEF Init, FindSound
<1>2. QueueInv /\ FindSound /\ [Next]_vars => FindSound'
  <2> SUFFICES ASSUME QueueInv, FindSound, [Next]_vars PROVE FindSound'
    OBVIOUS
  <2>1. queue \in Seq(Element)
    BY DEF QueueInv, QueueTypeOK
  <2>2. ASSUME NEW t \in Thread, GetElement(t) PROVE FindSound'
    <3>1. /\ queue # << >> /\ queue' = Tail(queue) /\ set' = set \ {Head(queue)}
      BY <2>2 DEF GetElement
    <3>2. /\ Len(Tail(queue)) = Len(queue) - 1
          /\ \A i \in 1 .. Len(queue) - 1 : Tail(queue)[i] = queue[i + 1]
          /\ Head(queue) = queue[1] /\ Len(queue) \in Nat
      BY <2>1, <3>1, HeadTailProperties
    <3> SUFFICES ASSUME NEW e \in set, e # queue[1]
                 PROVE  \E i \in 1 .. Len(Tail(queue)) : Tail(queue)[i] = e
      BY <3>1, <3>2 DEF FindSound
    <3>3. PICK i \in 1 .. Len(queue) : queue[i] = e
      BY DEF FindSound
    <3>4. i # 1
      BY <3>3
    <3>5. i - 1 \in 1 .. Len(queue) - 1 /\ (i - 1) + 1 = i
      BY <3>2, <3>4
    <3>6. Tail(queue)[i - 1] = e
      BY <3>2, <3>3, <3>5
    <3> QED
      BY <3>2, <3>5, <3>6
  <2>3. ASSUME NEW t \in Thread, PutElement(t) PROVE FindSound'
    <3>1. arg[t] \in Element
      BY <2>3 DEF PutElement, QueueInv, QueueTypeOK
    <3>2. /\ Len(Append(queue, arg[t])) = Len(queue) + 1 /\ Len(queue) \in Nat
          /\ \A i \in 1 .. Len(queue) : Append(queue, arg[t])[i] = queue[i]
          /\ Append(queue, arg[t])[Len(queue) + 1] = arg[t]
      BY <2>1, <3>1, AppendProperties
    <3>3. queue' = Append(queue, arg[t]) /\ set' \subseteq set \cup {arg[t]}
      BY <2>3 DEF PutElement
    <3>4. ASSUME NEW e \in set PROVE \E i \in 1 .. Len(queue') : queue'[i] = e
      <4>1. PICK i \in 1 .. Len(queue) : queue[i] = e
        BY DEF FindSound
      <4>2. i \in 1 .. Len(queue')
        BY <3>2, <3>3
      <4> QED
        BY <3>2, <3>3, <4>1, <4>2
    <3>5. \E i \in 1 .. Len(queue') : queue'[i] = arg[t]
      <4>1. Len(queue) + 1 \in 1 .. Len(queue')
        BY <3>2, <3>3
      <4> QED
        BY <3>2, <3>3, <4>1
    <3> QED
      BY <3>3, <3>4, <3>5 DEF FindSound
  <2>4. ASSUME \A t \in Thread : ~GetElement(t) /\ ~PutElement(t) PROVE UNCHANGED <<queue, set>>
    BY <2>4 DEF Next, Step, StopCall, CallGet, CallPut, Lock, GetTest, GetWait, GetCheck,
       GetNothing, PutTest, StopBothFlag, Broadcast, StopPutFlag, StopGetFlag, SpuriousWake, vars,
       dataVars
  <2> QED
    BY <2>2, <2>3, <2>4 DEF FindSound
<1> QED
  BY <1>1, <1>2, QueueStart, QueueKeeps, PTL DEF Spec
==============================================================================
