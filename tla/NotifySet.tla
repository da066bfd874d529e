----------------------------- MODULE NotifySet -----------------------------
(***************************************************************************)
(* RawNotifySet of cf_concurrency_set.hpp: a std::set under the mutex of a *)
(* PthreadCond, on which Pop sleeps while the set is empty.                *)
(*                                                                         *)
(* Insert, Erase, Clear, Pop and TryPop run under the mutex; the two Stop  *)
(* calls write their flags and broadcast without it.  _waitCount is not    *)
(* initialised by the constructor: it starts with whatever the memory      *)
(* held.  IsEmpty, Size, MaxSize and Find are const, call the non-const    *)
(* GetLock and do not compile in a program that uses them.                 *)
(***************************************************************************)
EXTENDS Integers, FiniteSets

CONSTANTS Popper, Inserter, Stopper,  \* the threads that take, that change, that stop
          Element,                    \* numbers, for their order
          Garbage,                    \* what the memory of _waitCount may hold
          MaxInsert,                  \* bound: how many calls of Insert
          MaxWait,                    \* bound: _waitCount while stop calls and spurious wake-ups begin
          NoThread                    \* the owner of a free mutex

ASSUME SetAssumption ==
    /\ Popper \cap Inserter = {} /\ Popper \cap Stopper = {} /\ Inserter \cap Stopper = {}
    /\ NoThread \notin Popper \cup Inserter \cup Stopper
    /\ IsFiniteSet(Popper)
    /\ Element \subseteq Nat /\ Garbage \subseteq Int /\ MaxInsert \in Nat /\ MaxWait \in Nat

Thread == Popper \cup Inserter \cup Stopper

VARIABLES set,           \* _set
          stopToInsert,  \* _stopToInsert
          stopToPop,     \* _stopToPop
          waitCount,     \* _waitCount
          born,          \* what _waitCount was when the set was constructed
          owner,         \* the thread that holds the mutex
          waiting,       \* the threads asleep on _cond
          pc,            \* where each thread is in its call
          call,          \* the operation and element each thread called with
          result,        \* how each thread's latest call ended
          inserts        \* history: calls of Insert

flagVars == <<stopToInsert, stopToPop>>
vars == <<set, flagVars, waitCount, born, owner, waiting, pc, call, result, inserts>>

NoCall == [op |-> "none", element |-> 0]

Init ==
    /\ set = {} /\ inserts = 0
    /\ stopToInsert = FALSE /\ stopToPop = FALSE
    /\ born \in Garbage /\ waitCount = born
    /\ owner = NoThread /\ waiting = {}
    /\ pc = [t \in Thread |-> "idle"]
    /\ call = [t \in Thread |-> NoCall]
    /\ result = [t \in Thread |-> "none"]

------------------------------------------------------------------------------

Goto(t, place) == pc' = [pc EXCEPT ![t] = place]

\* A call begins: Pop and TryPop by poppers, the others by inserters.
Begin(t) ==
    /\ pc[t] = "idle" /\ t \notin Stopper
    /\ \E o \in {"Pop", "TryPop", "Insert", "Erase", "Clear"}, e \in Element :
         /\ t \in Popper <=> o \in {"Pop", "TryPop"}
         /\ o = "Insert" => inserts < MaxInsert
         /\ inserts' = IF o = "Insert" THEN inserts + 1 ELSE inserts
         /\ call' = [call EXCEPT ![t] = [op |-> o,
                                         element |-> IF o \in {"Insert", "Erase"} THEN e ELSE 0]]
    /\ Goto(t, "lock")
    /\ result' = [result EXCEPT ![t] = "none"]
    /\ UNCHANGED <<set, flagVars, waitCount, born, owner, waiting>>

\* Seeded fault: a woken popper does not test again.
LockNoRetest(t) ==
    /\ pc[t] \in {"lock", "woken"}
    /\ owner = NoThread
    /\ owner' = t
    /\ Goto(t, IF pc[t] = "woken" THEN "check" ELSE "in")
    /\ UNCHANGED <<set, flagVars, waitCount, born, waiting, call, result, inserts>>

\* The LockGuard, or the mutex again at the end of a wait.
Lock(t) ==
    /\ pc[t] \in {"lock", "woken"}
    /\ owner = NoThread
    /\ owner' = t
    /\ Goto(t, "in")
    /\ UNCHANGED <<set, flagVars, waitCount, born, waiting, call, result, inserts>>

\* The call of t ends, its LockGuard unlocks.
Leave(t, r) ==
    /\ result' = [result EXCEPT ![t] = r]
    /\ call' = [call EXCEPT ![t] = NoCall]
    /\ owner' = NoThread

In(t, o) == pc[t] = "in" /\ call[t].op = o

\* The first element, begin(), leaves the set.
TakeFirst ==
    LET first == CHOOSE e \in set : \A f \in set : e <= f
    IN set' = set \ {first}

\* Seeded fault: the waiter is not counted.
PopMustWaitUncounted(t) ==
    /\ In(t, "Pop")
    /\ set = {} /\ ~stopToPop
    /\ Goto(t, "parking")
    /\ UNCHANGED <<set, flagVars, waitCount, born, owner, waiting, call, result, inserts>>

\* The loop's test: _waitCount grows before the wait.
PopMustWait(t) ==
    /\ In(t, "Pop")
    /\ set = {} /\ ~stopToPop
    /\ waitCount' = waitCount + 1
    /\ Goto(t, "parking")
    /\ UNCHANGED <<set, flagVars, born, owner, waiting, call, result, inserts>>

PopTest(t) ==
    /\ In(t, "Pop")
    /\ set # {} \/ stopToPop
    /\ Goto(t, "check")
    /\ UNCHANGED <<set, flagVars, waitCount, born, owner, waiting, call, result, inserts>>

Sleep(t) ==
    /\ pc[t] = "parking"
    /\ owner' = NoThread
    /\ waiting' = waiting \cup {t}
    /\ Goto(t, "asleep")
    /\ UNCHANGED <<set, flagVars, waitCount, born, call, result, inserts>>

\* Behind the loop, _stopToPop is read again.  (The exception for an empty,
\* stopped set cannot be reached.)
PopTake(t) ==
    /\ pc[t] = "check"
    /\ Goto(t, "idle")
    /\ \/ stopToPop /\ Leave(t, "SetStopToPopException") /\ UNCHANGED set
       \/ ~stopToPop /\ set # {} /\ TakeFirst /\ Leave(t, "ok")
    /\ UNCHANGED <<flagVars, waitCount, born, waiting, inserts>>

TryPop(t) ==
    /\ In(t, "TryPop")
    /\ Goto(t, "idle")
    /\ \/ stopToPop /\ Leave(t, "SetStopToPopException") /\ UNCHANGED set
       \/ ~stopToPop /\ set = {} /\ Leave(t, "SetEmptyException") /\ UNCHANGED set
       \/ ~stopToPop /\ set # {} /\ TakeFirst /\ Leave(t, "ok")
    /\ UNCHANGED <<flagVars, waitCount, born, waiting, inserts>>

InsertRefused(t) ==
    /\ In(t, "Insert") /\ stopToInsert
    /\ Goto(t, "idle")
    /\ Leave(t, "SetStopToInsertException")
    /\ UNCHANGED <<set, flagVars, waitCount, born, waiting, inserts>>

\* One waiter is woken; the call of t ends.
Signalled(t) ==
    \E w \in waiting : /\ waiting' = waiting \ {w}
                       /\ pc' = [pc EXCEPT ![t] = "idle", ![w] = "woken"]

\* The element goes in unless it is there; either way one waiter is signalled
\* when _waitCount says that there are waiters.
Insert(t) ==
    /\ In(t, "Insert") /\ ~stopToInsert
    /\ set' = set \cup {call[t].element}
    /\ waitCount' = IF waitCount # 0 THEN waitCount - 1 ELSE waitCount
    /\ \/ /\ waitCount = 0 \/ waiting = {}
          /\ Goto(t, "idle")
          /\ UNCHANGED waiting
       \/ waitCount # 0 /\ Signalled(t)
    /\ Leave(t, "ok")
    /\ UNCHANGED <<flagVars, born, inserts>>

Drop(t, elements) ==
    /\ set' = set \ elements
    /\ Goto(t, "idle")
    /\ Leave(t, "ok")
    /\ UNCHANGED <<flagVars, waitCount, born, waiting, inserts>>

Erase(t) == In(t, "Erase") /\ Drop(t, {call[t].element})
Clear(t) == In(t, "Clear") /\ Drop(t, set)

------------------------------------------------------------------------------
(* StopInsert and StopInsertAndPop, without the mutex. *)

StopFlag(t) ==
    /\ t \in Stopper /\ pc[t] = "idle"
    /\ waitCount < MaxWait
    /\ stopToInsert' = TRUE
    /\ \E place \in {"halfway", "flagged"} : Goto(t, place)
    /\ result' = [result EXCEPT ![t] = "none"]
    /\ UNCHANGED <<set, stopToPop, waitCount, born, owner, waiting, call, inserts>>

\* The second flag of StopInsertAndPop.
StopPopFlag(t) ==
    /\ pc[t] = "halfway"
    /\ stopToPop' = TRUE
    /\ Goto(t, "flagged")
    /\ UNCHANGED <<set, stopToInsert, waitCount, born, owner, waiting, call, result, inserts>>

\* Seeded fault: nobody is thought to wait any more.
BroadcastResets(t) ==
    /\ pc[t] = "flagged"
    /\ pc' = [u \in Thread |-> CASE u = t -> "idle" [] u \in waiting -> "woken" [] OTHER -> pc[u]]
    /\ waiting' = {} /\ waitCount' = 0
    /\ result' = [result EXCEPT ![t] = "ok"]
    /\ UNCHANGED <<set, flagVars, born, owner, call, inserts>>

Broadcast(t) ==
    /\ pc[t] = "flagged"
    /\ pc' = [u \in Thread |-> CASE u = t -> "idle" [] u \in waiting -> "woken" [] OTHER -> pc[u]]
    /\ waiting' = {}
    /\ result' = [result EXCEPT ![t] = "ok"]
    /\ UNCHANGED <<set, flagVars, waitCount, born, owner, call, inserts>>

SpuriousWake(t) ==
    /\ pc[t] = "asleep" /\ waitCount < MaxWait
    /\ waiting' = waiting \ {t}
    /\ Goto(t, "woken")
    /\ UNCHANGED <<set, flagVars, waitCount, born, owner, call, result, inserts>>

------------------------------------------------------------------------------

Step(t) ==
    \/ Lock(t) \/ PopMustWait(t) \/ PopTest(t) \/ Sleep(t) \/ PopTake(t) \/ TryPop(t)
    \/ InsertRefused(t) \/ Insert(t) \/ Erase(t) \/ Clear(t) \/ StopPopFlag(t) \/ Broadcast(t)

Next == \E t \in Thread : Step(t) \/ Begin(t) \/ StopFlag(t) \/ SpuriousWake(t)

Spec == Init /\ [][Next]_vars

\* Threads inside a call keep running.
FairSpec == Spec /\ \A t \in Thread : WF_vars(Step(t)) /\ SF_vars(Lock(t))

------------------------------------------------------------------------------
(* Properties. *)

\* Pop is past its loop only with an element to take or an exception to throw:
\* begin() of an empty set is never dereferenced, whoever emptied it meanwhile.
FirstExists == \A t \in Popper : pc[t] = "check" => set # {} \/ stopToPop

\* Where threads are agrees with the mutex and the condition variable, and no
\* call is past its test with nothing to take.
SetOK ==
    /\ waitCount \in Int /\ owner \in Thread \cup {NoThread}
    /\ waiting = {t \in Thread : pc[t] = "asleep"}
    /\ \A t \in Thread : (pc[t] \in {"in", "parking", "check"}) <=> owner = t
    /\ \A t \in Thread : pc[t] \in {"parking", "asleep", "woken", "check"} => call[t].op = "Pop"
    /\ FirstExists

\* If the memory of _waitCount held no negative number, no thread sleeps, or is
\* about to, that Insert does not know of.
WaitersCounted ==
    born >= 0 => Cardinality({t \in Popper : pc[t] \in {"parking", "asleep"}}) <= waitCount

\* Then nobody sleeps for ever beside an element.
NobodySleepsBeside ==
    \A t \in Popper :
        born >= 0 /\ pc[t] = "asleep" /\ set # {} ~> pc[t] # "asleep" \/ set = {}
=============================================================================
