------------------------------ MODULE RawQueue ------------------------------
(***************************************************************************)
(* The in-process queues of cf_concurrency_queue.hpp: RawQueue, and        *)
(* RawFastFindQueue, which keeps a set of its elements beside the queue    *)
(* for Find.                                                               *)
(*                                                                         *)
(* Get, Put and their tests run under one mutex, but StopPut and           *)
(* StopPutAndGet write the two flags and broadcast without it, so they     *)
(* fall between any two steps of the others.  _waitCount counts the        *)
(* threads that went to wait and is lowered by Put alone, one per signal.  *)
(*                                                                         *)
(* TryGet is left out: it names an exception class nobody declares, and a  *)
(* program that calls it does not compile.  IsEmpty, Size and Find read    *)
(* one state variable under the mutex and change nothing.                  *)
(***************************************************************************)
EXTENDS Integers, Sequences, FiniteSets

CONSTANTS Getter, Putter, Stopper,   \* the threads that call Get, Put and the Stop calls
          Element,                   \* ElementType
          FastFind,                  \* TRUE for RawFastFindQueue
          MaxPut,                    \* bound: how many elements are put
          MaxWait,                   \* bound: _waitCount while spurious wake-ups happen
          NoThread                   \* the owner of a free mutex

ASSUME QueueAssumption ==
    /\ Getter \cap Putter = {} /\ Getter \cap Stopper = {} /\ Putter \cap Stopper = {}
    /\ IsFiniteSet(Getter)
    /\ NoThread \notin Getter \cup Putter \cup Stopper
    /\ FastFind \in BOOLEAN
    /\ MaxPut \in Nat /\ MaxWait \in Nat

Thread == Getter \cup Putter \cup Stopper

VARIABLES queue,      \* _queue
          set,        \* _set, empty in a RawQueue
          stopToPut,  \* _stopToPut
          stopToGet,  \* _stopToGet
          waitCount,  \* _waitCount
          owner,      \* the thread that holds the mutex
          waiting,    \* the threads asleep on _cond
          pc,         \* where each thread is in its call
          arg,        \* the element each putter was called with
          result,     \* how each thread's latest call ended
          puts,       \* history: everything pushed, in order
          gets        \* history: everything Get returned, in order

dataVars == <<queue, set, puts, gets>>
vars == <<dataVars, stopToPut, stopToGet, waitCount, owner, waiting, pc, arg, result>>

(* A thread is idle, at the LockGuard (lock), inside at the start or at the    *)
(* loop's test (in), sure that it must wait but not yet asleep (parking),      *)
(* asleep, woken and after the mutex again, out of the loop (check), about to  *)
(* take or to push, or with the Broadcast still to come: after the first flag  *)
(* of StopPutAndGet (halfway) or after all of them (flagged).                  *)
Places == {"idle", "lock", "in", "parking", "asleep", "woken", "check", "take", "push",
           "halfway", "flagged"}

Inner == {"in", "parking", "check", "take", "push"}

Results == {"none", "ok", "QueueStopToGetException", "QueueEmptyAndStopToPutException",
            "QueueStopToPutException", "ElementNotFoundInfo"}

Init ==
    /\ queue = << >> /\ set = {} /\ puts = << >> /\ gets = << >>
    /\ stopToPut = FALSE /\ stopToGet = FALSE
    /\ waitCount = 0
    /\ owner = NoThread
    /\ waiting = {}
    /\ pc = [t \in Thread |-> "idle"]
    /\ arg \in [Putter -> Element]
    /\ result = [t \in Thread |-> "none"]

------------------------------------------------------------------------------

Goto(t, place) == pc' = [pc EXCEPT ![t] = place]

\* The call of t is over and its LockGuard gone.
Leave(t, res) == /\ Goto(t, "idle")
                 /\ result' = [result EXCEPT ![t] = res]
                 /\ owner' = NoThread

CallGet(t) == /\ t \in Getter /\ pc[t] = "idle"
              /\ Goto(t, "lock")
              /\ result' = [result EXCEPT ![t] = "none"]
              /\ UNCHANGED <<dataVars, stopToPut, stopToGet, waitCount, owner, waiting, arg>>

CallPut(t) == /\ t \in Putter /\ pc[t] = "idle"
              /\ Len(puts) < MaxPut
              /\ \E e \in Element : arg' = [arg EXCEPT ![t] = e]
              /\ Goto(t, "lock")
              /\ result' = [result EXCEPT ![t] = "none"]
              /\ UNCHANGED <<dataVars, stopToPut, stopToGet, waitCount, owner, waiting>>

\* Seeded fault: an if instead of a while, a woken getter does not test again.
LockNoRetest(t) ==
    /\ pc[t] \in {"lock", "woken"}
    /\ owner = NoThread
    /\ owner' = t
    /\ Goto(t, IF pc[t] = "woken" THEN "check" ELSE "in")
    /\ UNCHANGED <<dataVars, stopToPut, stopToGet, waitCount, waiting, arg, result>>

Lock(t) == /\ pc[t] \in {"lock", "woken"}
           /\ owner = NoThread
           /\ owner' = t
           /\ Goto(t, "in")
           /\ UNCHANGED <<dataVars, stopToPut, stopToGet, waitCount, waiting, arg, result>>

------------------------------------------------------------------------------
(* Get. *)

\* Seeded fault: the waiter is not counted.
GetTestUncounted(t) ==
    /\ t \in Getter /\ pc[t] = "in"
    /\ \/ queue = << >> /\ ~stopToPut /\ Goto(t, "parking")
       \/ (queue # << >> \/ stopToPut) /\ Goto(t, "check")
    /\ UNCHANGED <<dataVars, waitCount, stopToPut, stopToGet, owner, waiting, arg, result>>

\* The while loop's test; _waitCount grows before the wait.
GetTest(t) ==
    /\ t \in Getter /\ pc[t] = "in"
    /\ \/ /\ queue = << >> /\ ~stopToPut
          /\ waitCount' = waitCount + 1
          /\ Goto(t, "parking")
       \/ /\ queue # << >> \/ stopToPut
          /\ Goto(t, "check")
          /\ UNCHANGED waitCount
    /\ UNCHANGED <<dataVars, stopToPut, stopToGet, owner, waiting, arg, result>>

\* _cond.Wait(): release the mutex and sleep, in one step.
GetWait(t) ==
    /\ pc[t] = "parking"
    /\ owner' = NoThread
    /\ waiting' = waiting \cup {t}
    /\ Goto(t, "asleep")
    /\ UNCHANGED <<dataVars, stopToPut, stopToGet, waitCount, arg, result>>

\* Seeded fault: the element is popped before _stopToGet is looked at.
GetCheckPopped(t) ==
    /\ pc[t] = "check"
    /\ \/ stopToGet /\ queue # << >> /\ queue' = Tail(queue) /\ Leave(t, "QueueStopToGetException")
       \/ ~stopToGet /\ Goto(t, "take") /\ UNCHANGED <<queue, owner, result>>
    /\ UNCHANGED <<set, puts, gets, stopToPut, stopToGet, waitCount, waiting, arg>>

GetCheck(t) ==
    /\ pc[t] = "check"
    /\ \/ stopToGet /\ Leave(t, "QueueStopToGetException")
       \/ ~stopToGet /\ Goto(t, "take") /\ UNCHANGED <<owner, result>>
    /\ UNCHANGED <<dataVars, stopToPut, stopToGet, waitCount, waiting, arg>>

GetNothing(t) ==
    /\ pc[t] = "take"
    /\ queue = << >> /\ stopToPut
    /\ Leave(t, "QueueEmptyAndStopToPutException")
    /\ UNCHANGED <<dataVars, stopToPut, stopToGet, waitCount, waiting, arg>>

\* Seeded fault: the element stays in the set.
GetElementNoErase(t) ==
    /\ pc[t] = "take"
    /\ queue # << >>
    /\ queue' = Tail(queue)
    /\ gets' = Append(gets, Head(queue))
    /\ Leave(t, "ok")
    /\ UNCHANGED <<set, puts, stopToPut, stopToGet, waitCount, waiting, arg>>

\* front and pop; SetErase throws for what it does not find, after the pop.
GetElement(t) ==
    /\ pc[t] = "take"
    /\ queue # << >>
    /\ queue' = Tail(queue)
    /\ gets' = Append(gets, Head(queue))
    /\ set' = set \ {Head(queue)}
    /\ \/ (FastFind => Head(queue) \in set) /\ Leave(t, "ok")
       \/ FastFind /\ Head(queue) \notin set /\ Leave(t, "ElementNotFoundInfo")
    /\ UNCHANGED <<puts, stopToPut, stopToGet, waitCount, waiting, arg>>

------------------------------------------------------------------------------
(* Put. *)

PutTest(t) ==
    /\ t \in Putter /\ pc[t] = "in"
    /\ \/ stopToPut /\ Leave(t, "QueueStopToPutException")
       \/ ~stopToPut /\ Goto(t, "push") /\ UNCHANGED <<owner, result>>
    /\ UNCHANGED <<dataVars, stopToPut, stopToGet, waitCount, waiting, arg>>

\* Push, and one signal if anyone went to wait; the mutex is released after it.
PutElement(t) ==
    /\ pc[t] = "push"
    /\ queue' = Append(queue, arg[t])
    /\ puts' = Append(puts, arg[t])
    /\ set' = IF FastFind THEN set \cup {arg[t]} ELSE set
    /\ waitCount' = IF waitCount # 0 THEN waitCount - 1 ELSE waitCount
    /\ \/ /\ waitCount = 0 \/ waiting = {}
          /\ Goto(t, "idle")
          /\ UNCHANGED waiting
       \/ /\ waitCount # 0
          /\ \E w \in waiting :
               /\ waiting' = waiting \ {w}
               /\ pc' = [pc EXCEPT ![t] = "idle", ![w] = "woken"]
    /\ result' = [result EXCEPT ![t] = "ok"]
    /\ owner' = NoThread
    /\ UNCHANGED <<gets, stopToPut, stopToGet, arg>>

------------------------------------------------------------------------------
(* StopPut and StopPutAndGet, without the mutex. *)

StopPutFlag(t) ==
    /\ t \in Stopper /\ pc[t] = "idle"
    /\ stopToPut' = TRUE
    /\ Goto(t, "flagged")
    /\ result' = [result EXCEPT ![t] = "none"]
    /\ UNCHANGED <<dataVars, stopToGet, waitCount, owner, waiting, arg>>

StopGetFlag(t) ==
    /\ t \in Stopper /\ pc[t] = "idle"
    /\ stopToGet' = TRUE
    /\ Goto(t, "halfway")
    /\ result' = [result EXCEPT ![t] = "none"]
    /\ UNCHANGED <<dataVars, stopToPut, waitCount, owner, waiting, arg>>

StopBothFlag(t) ==
    /\ pc[t] = "halfway"
    /\ stopToPut' = TRUE
    /\ Goto(t, "flagged")
    /\ UNCHANGED <<dataVars, stopToGet, waitCount, owner, waiting, arg, result>>

\* Seeded fault: everybody was woken, so the count starts again from 0.
BroadcastResets(t) ==
    /\ pc[t] = "flagged"
    /\ pc' = [u \in Thread |-> CASE u = t -> "idle"
                                 [] u \in waiting -> "woken"
                                 [] OTHER -> pc[u]]
    /\ waiting' = {}
    /\ waitCount' = 0
    /\ result' = [result EXCEPT ![t] = "ok"]
    /\ UNCHANGED <<dataVars, stopToPut, stopToGet, owner, arg>>

Broadcast(t) ==
    /\ pc[t] = "flagged"
    /\ pc' = [u \in Thread |-> CASE u = t -> "idle"
                                 [] u \in waiting -> "woken"
                                 [] OTHER -> pc[u]]
    /\ waiting' = {}
    /\ result' = [result EXCEPT ![t] = "ok"]
    /\ UNCHANGED <<dataVars, stopToPut, stopToGet, waitCount, owner, arg>>

\* pthread_cond_wait may return without a signal.
SpuriousWake(t) ==
    /\ pc[t] = "asleep"
    /\ waitCount < MaxWait
    /\ waiting' = waiting \ {t}
    /\ Goto(t, "woken")
    /\ UNCHANGED <<dataVars, stopToPut, stopToGet, waitCount, owner, arg, result>>

------------------------------------------------------------------------------

\* What thread t does by itself once it runs.
Step(t) ==
    \/ Lock(t) \/ GetTest(t) \/ GetWait(t) \/ GetCheck(t) \/ GetNothing(t) \/ GetElement(t)
    \/ PutTest(t) \/ PutElement(t) \/ StopBothFlag(t) \/ Broadcast(t)

StopCall(t) == StopPutFlag(t) \/ StopGetFlag(t)

Next == \E t \in Thread :
            Step(t) \/ CallGet(t) \/ CallPut(t) \/ StopCall(t) \/ SpuriousWake(t)

Spec == Init /\ [][Next]_vars

\* Threads inside a call keep running, and getters call again and again.
FairSpec == /\ Spec
            /\ \A t \in Thread : WF_vars(Step(t))
            /\ \A t \in Getter : WF_vars(CallGet(t))

------------------------------------------------------------------------------
(* Properties. *)

\* Where threads are agrees with the mutex and with the condition variable.
QueueTypeOK ==
    /\ queue \in Seq(Element) /\ puts \in Seq(Element) /\ gets \in Seq(Element)
    /\ set \subseteq Element
    /\ stopToPut \in BOOLEAN /\ stopToGet \in BOOLEAN
    /\ waitCount \in Nat
    /\ owner \in Thread \cup {NoThread}
    /\ pc \in [Thread -> Places]
    /\ arg \in [Putter -> Element]
    /\ result \in [Thread -> Results]
    /\ waiting = {t \in Thread : pc[t] = "asleep"}
    /\ \A t \in Thread : pc[t] \in Inner => owner = t
    /\ owner # NoThread => pc[owner] \in Inner
    /\ \A t \in Thread : pc[t] \in {"parking", "asleep", "check", "take"} => t \in Getter
    /\ \A t \in Thread : pc[t] = "push" => t \in Putter

\* Every getter asleep, or about to be, is in _waitCount, though Put lowers the
\* count for signals that wake nobody and Get never lowers it: a Put that finds
\* the count 0 leaves nobody asleep that it should have woken.
SleepersCounted ==
    Cardinality({t \in Getter : pc[t] \in {"parking", "asleep"}}) <= waitCount

\* Get is past its tests only if there is a front to return or the exception
\* for an empty, stopped queue to throw, whoever took elements while it slept.
FrontExists == \A t \in Getter : pc[t] = "take" => queue # << >> \/ stopToPut

\* What was put is popped once and in order, and a Get that throws because the
\* queue was stopped pops nothing.
InOrder == gets \o queue = puts

\* "This queue is empty and stopped to put!" is final: after a getter was told so,
\* no element turns up that was still being put when the flag was raised.
DrainedIsFinal ==
    \A t \in Getter : result[t] = "QueueEmptyAndStopToPutException" => queue = << >>

\* Find never reports an element that is not in the queue.
FindSound == \A e \in set : \E i \in 1 .. Len(queue) : queue[i] = e

\* Every element put is popped, as long as nobody stops the queue.
EveryElementTaken ==
    [](~stopToPut /\ ~stopToGet) => \A n \in 1 .. MaxPut : Len(puts) >= n ~> Len(gets) >= n

\* A getter that sleeps when putting is stopped is released.
StopReleases ==
    \A t \in Getter : stopToPut /\ pc[t] = "asleep" ~> pc[t] # "asleep"

\* An element popped is always found in the set.
AlwaysFound == \A t \in Getter : result[t] # "ElementNotFoundInfo"
==============================================================================
