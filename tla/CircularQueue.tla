---------------------------- MODULE CircularQueue ----------------------------
(***************************************************************************)
(* The blocking interface of the circular queue: cl_circular_queue.cpp     *)
(* over RawPthreadCondition of cf_condition.cpp.                           *)
(*                                                                         *)
(* Threads of any number of processes share one mutex and one condition    *)
(* variable, on which producers waiting for room and consumers waiting for *)
(* an element sleep together.  A call that changed the queue signals one   *)
(* sleeper, whichever, after it has released the mutex.  The bytes are     *)
(* those of ElementOp: write and read run inside the mutex.                *)
(*                                                                         *)
(* _pMeta->status is Q_NOMAL for ever: QMetaOp::StopPut and StopPutAndGet, *)
(* its only setters, are called by nobody, so the branches that test it    *)
(* are not taken, and the loops of TimedPut and TimedGet end when the      *)
(* element fits and when there is an element.                              *)
(***************************************************************************)
EXTENDS ElementOp, FiniteSets

CONSTANTS Putter, Getter, Stopper,  \* the threads that call Put, Get and StopPut
          Mode,                     \* the timeouts callers use, see Modes
          MaxCrash,                 \* how many threads may be killed
          NoThread                  \* the owner of a free mutex

\* timeoutMilliseconds < 0, = 0 and > 0.
Modes == {"forever", "now", "timed"}

ASSUME ThreadAssumption ==
    /\ Putter \cap Getter = {} /\ Putter \cap Stopper = {} /\ Getter \cap Stopper = {}
    /\ NoThread \notin Putter \cup Getter \cup Stopper
    /\ Mode \subseteq Modes
    /\ MaxCrash \in Nat

Thread == Putter \cup Getter \cup Stopper

VARIABLES owner,     \* the thread that holds the mutex
          waiting,   \* the threads asleep on the condition variable
          pc,        \* where each thread is in its call
          arg,       \* the body each putter was called with
          mode,      \* the timeout each call was made with
          result,    \* how each thread's latest call ended
          stopped    \* history: a StopPut has returned

threadVars == <<owner, waiting, pc, arg, mode, result, stopped>>
vars == <<ringVars, threadVars>>

(* A thread is idle, at the LockGuard (lock), inside the mutex for the first   *)
(* time (in), asleep, woken and after the mutex again, inside it again, timed  *)
(* out and after the mutex (expired), past the mutex with the Signal or the    *)
(* Broadcast still to come, or killed.                                         *)
Places == {"idle", "lock", "in", "asleep", "woken", "again", "expired",
           "signal", "broadcast", "dead"}

Results == {"none", "ok", "SizeTooSmallException", "QueueFullException", "ValueError",
            "TimeoutInfo", "SyscallExecuteError"}

Init ==
    /\ RingInit
    /\ owner = NoThread
    /\ waiting = {}
    /\ pc = [t \in Thread |-> "idle"]
    /\ arg = [t \in Thread |-> << >>]
    /\ mode = [t \in Thread |-> "forever"]
    /\ result = [t \in Thread |-> "none"]
    /\ stopped = FALSE

------------------------------------------------------------------------------

Goto(t, place) == pc' = [pc EXCEPT ![t] = place]

\* The call of t is over; the LockGuard, if it was held, is gone.
Return(t, res) == Goto(t, "idle") /\ result' = [result EXCEPT ![t] = res]

Call(t) == /\ pc[t] = "idle"
           /\ Goto(t, "lock")
           /\ result' = [result EXCEPT ![t] = "none"]
           /\ UNCHANGED <<ringVars, owner, waiting, stopped>>

CallPut(t, m, w) == /\ Call(t)
                    /\ arg' = [arg EXCEPT ![t] = m]
                    /\ mode' = [mode EXCEPT ![t] = w]

CallGet(t, w) == /\ Call(t)
                 /\ mode' = [mode EXCEPT ![t] = w]
                 /\ UNCHANGED arg

CallStopPut(t) == Call(t) /\ UNCHANGED <<arg, mode>>

\* LockGuard's constructor, and pthread_cond_wait taking the mutex back.
Lock(t) ==
    /\ pc[t] \in {"lock", "woken"}
    /\ owner = NoThread
    /\ owner' = t
    /\ Goto(t, IF pc[t] = "lock" THEN "in" ELSE "again")
    /\ UNCHANGED <<ringVars, waiting, arg, mode, result, stopped>>

Inside(t) == pc[t] \in {"in", "again"} /\ owner = t

ElementSize(t) == HeaderSize + Len(arg[t])

\* Seeded fault: an if instead of a while, what was waited for is not looked at again.
BlockedAtFirst(t) ==
    /\ pc[t] = "in"
    /\ IF t \in Putter THEN ElementSize(t) > qLeftSize ELSE elementCount = 0

\* What a putter and a getter wait for is not there.
Blocked(t) == IF t \in Putter THEN ElementSize(t) > qLeftSize ELSE elementCount = 0

TooBig(t) == t \in Putter /\ ElementSize(t) > Total

\* The exceptions thrown before any wait.  Get calls an empty queue full, too.
Refuse(t) ==
    /\ Inside(t) /\ pc[t] = "in" /\ t \notin Stopper
    /\ \/ TooBig(t) /\ Return(t, "SizeTooSmallException")
       \/ ~TooBig(t) /\ Blocked(t) /\ mode[t] = "now" /\ Return(t, "QueueFullException")
    /\ owner' = NoThread
    /\ UNCHANGED <<ringVars, waiting, arg, mode, stopped>>

\* _cond->Wait(): release the mutex and sleep, in one step.
Sleep(t) ==
    /\ Inside(t) /\ t \notin Stopper
    /\ ~TooBig(t) /\ Blocked(t) /\ mode[t] # "now"
    /\ owner' = NoThread
    /\ waiting' = waiting \cup {t}
    /\ Goto(t, "asleep")
    /\ UNCHANGED <<ringVars, arg, mode, result, stopped>>

\* Seeded fault: the exception leaves without unlocking.
GiveUpLocked(t) ==
    /\ Inside(t) /\ pc[t] = "again" /\ Blocked(t) /\ mode[t] = "timed"
    /\ Return(t, "TimeoutInfo")
    /\ UNCHANGED <<ringVars, owner, waiting, arg, mode, stopped>>

\* Woken in time but to no avail, and the seconds spent have used the timeout up.
GiveUp(t) ==
    /\ Inside(t) /\ pc[t] = "again" /\ Blocked(t) /\ mode[t] = "timed"
    /\ Return(t, "TimeoutInfo")
    /\ owner' = NoThread
    /\ UNCHANGED <<ringVars, waiting, arg, mode, stopped>>

\* Seeded fault: only Put signals.
LeaveGetSilent(t, done) ==
    /\ IF done /\ t \in Putter THEN Goto(t, "signal") /\ UNCHANGED result
                              ELSE Return(t, IF done THEN "ok" ELSE "ValueError")
    /\ owner' = NoThread
    /\ UNCHANGED <<waiting, arg, mode, stopped>>

\* The call is past its write or read and the mutex: with the Signal still to
\* come, or thrown out by the exception, which skips it.
Leave(t, done) ==
    /\ IF done THEN Goto(t, "signal") /\ UNCHANGED result ELSE Return(t, "ValueError")
    /\ owner' = NoThread
    /\ UNCHANGED <<waiting, arg, mode, stopped>>

PutElement(t) ==
    /\ Inside(t) /\ t \in Putter
    /\ ~TooBig(t) /\ ~Blocked(t)
    /\ IF CanWrite(arg[t]) THEN Write(arg[t]) ELSE WriteThrows(arg[t])
    /\ Leave(t, outcome' = "ok")

GetElement(t) ==
    /\ Inside(t) /\ t \in Getter
    /\ ~Blocked(t)
    /\ IF CanRead THEN Read ELSE ReadThrows
    /\ Leave(t, outcome' = "ok")

\* _cond->Signal(): one sleeper is woken, if there is one.
Signal(t) ==
    /\ pc[t] = "signal"
    /\ result' = [result EXCEPT ![t] = "ok"]
    /\ \/ waiting = {} /\ Goto(t, "idle") /\ UNCHANGED waiting
       \/ \E w \in waiting :
            /\ waiting' = waiting \ {w}
            /\ pc' = [pc EXCEPT ![t] = "idle", ![w] = IF @ = "dead" THEN @ ELSE "woken"]
    /\ UNCHANGED <<ringVars, owner, arg, mode, stopped>>

\* StopPut and StopPutAndGet: take the mutex, release it, broadcast.
StopUnlock(t) ==
    /\ Inside(t) /\ t \in Stopper
    /\ owner' = NoThread
    /\ Goto(t, "broadcast")
    /\ UNCHANGED <<ringVars, waiting, arg, mode, result, stopped>>

Broadcast(t) ==
    /\ pc[t] = "broadcast"
    /\ pc' = [u \in Thread |-> CASE u = t -> "idle"
                                 [] u \in waiting /\ pc[u] # "dead" -> "woken"
                                 [] OTHER -> pc[u]]
    /\ waiting' = {}
    /\ result' = [result EXCEPT ![t] = "ok"]
    /\ stopped' = TRUE
    /\ UNCHANGED <<ringVars, owner, arg, mode>>

------------------------------------------------------------------------------
(* What pthreads and the kernel may do. *)

\* pthread_cond_wait may return without a signal.
SpuriousWake(t) ==
    /\ pc[t] = "asleep"
    /\ waiting' = waiting \ {t}
    /\ Goto(t, "woken")
    /\ UNCHANGED <<ringVars, owner, arg, mode, result, stopped>>

\* pthread_cond_timedwait gives up: the time it is passed as an absolute time is
\* the timeout itself, a moment in 1970.
Expire(t) ==
    /\ pc[t] = "asleep" /\ mode[t] = "timed"
    /\ waiting' = waiting \ {t}
    /\ Goto(t, "expired")
    /\ UNCHANGED <<ringVars, owner, arg, mode, result, stopped>>

\* Wait(timeoutMilliseconds) looks for ETIMEDOUT in errno, which
\* pthread_cond_timedwait does not set: what is found there is left over from
\* some other call.  Either exception leaves through the LockGuard.
Expired(t) ==
    /\ pc[t] = "expired"
    /\ owner = NoThread
    /\ \E res \in {"TimeoutInfo", "SyscallExecuteError"} : Return(t, res)
    /\ UNCHANGED <<ringVars, owner, waiting, arg, mode, stopped>>

\* The process of t is killed in the middle of a call.  The mutex is not robust:
\* if t holds it, it is held for ever.  A killed sleeper may or may not still
\* take a signal.
Crash(t) ==
    /\ pc[t] \notin {"idle", "dead"}
    /\ Cardinality({u \in Thread : pc[u] = "dead"}) < MaxCrash
    /\ Goto(t, "dead")
    /\ waiting' \in {waiting, waiting \ {t}}
    /\ UNCHANGED <<ringVars, owner, arg, mode, result, stopped>>

------------------------------------------------------------------------------

\* What thread t does by itself once it runs.
Step(t) ==
    \/ Lock(t) \/ Refuse(t) \/ Sleep(t) \/ GiveUp(t) \/ PutElement(t) \/ GetElement(t)
    \/ Signal(t) \/ StopUnlock(t) \/ Broadcast(t) \/ Expired(t)

NewCall(t) ==
    \/ t \in Putter /\ \E m \in Message, w \in Mode : CallPut(t, m, w)
    \/ t \in Getter /\ \E w \in Mode : CallGet(t, w)
    \/ t \in Stopper /\ CallStopPut(t)

Next == \E t \in Thread :
            Step(t) \/ NewCall(t) \/ SpuriousWake(t) \/ Expire(t) \/ Crash(t)

Spec == Init /\ [][Next]_vars

\* Every thread keeps running: a mutex that stays free is taken, a call that
\* can go on goes on.
RunFair == \A t \in Thread : WF_vars(Step(t))

\* Putters and getters call again and again, as the loops of test_queue_put.cpp
\* and test_queue_get.cpp do.
CallFair == \A t \in Putter \cup Getter : WF_vars(NewCall(t))

\* Spurious wake-ups are rare events: they do not go on for ever.
SpuriousRare == <>[][\A t \in Thread : ~SpuriousWake(t)]_vars

FairSpec == Spec /\ RunFair /\ CallFair /\ SpuriousRare

------------------------------------------------------------------------------
(* Properties. *)

\* One thread at a time is inside, the mutex of a thread that is alive is never
\* left locked behind it by an exception or a wait, and the condition variable
\* knows exactly the threads that sleep on it (and perhaps killed ones).
ThreadsOK ==
    /\ owner \in Thread \cup {NoThread}
    /\ waiting \subseteq Thread
    /\ pc \in [Thread -> Places]
    /\ arg \in [Thread -> Message \cup {<< >>}]
    /\ mode \in [Thread -> Modes]
    /\ result \in [Thread -> Results]
    /\ stopped \in BOOLEAN
    /\ \A t \in Thread : pc[t] \in {"in", "again"} => owner = t
    /\ owner # NoThread => pc[owner] \in {"in", "again", "dead"}
    /\ \A t \in Thread : pc[t] = "asleep" => t \in waiting
    /\ \A t \in waiting : pc[t] \in {"asleep", "dead"}

\* However the calls of all threads interleave, and whatever was true before a
\* caller slept, write is reached only with enough room, as ElementOp requires
\* of its callers, and only write and read touch the ring.
RingContract == RingSpec

\* No thread was killed.
AllAlive == \A t \in Thread : pc[t] # "dead"

\* A sleeper whose condition has come true is about to be signalled.
SignalOnItsWay ==
    \A t \in Putter \cup Getter :
        pc[t] = "asleep" /\ ~Blocked(t) => \E u \in Thread : pc[u] = "signal"

\* One producer and one consumer: no wake-up is lost between the unlock and the
\* Signal, or to a wait that times out, as long as nobody is killed.
NoMissedWakeup == AllAlive => SignalOnItsWay

\* Producers and consumers that are not killed never all sleep at once, each
\* waiting for another.
NeverAllAsleep == AllAlive => \E t \in Putter \cup Getter : pc[t] # "asleep"

\* One producer and one consumer: every call returns.
EveryCallReturns == \A t \in Putter \cup Getter : pc[t] # "idle" ~> pc[t] = "idle"

\* Once StopPut has returned, nothing is put any more: later calls throw StopPutException.
StopPutStops == [][stopped => Len(fifo') <= Len(fifo)]_vars

\* A wait whose time has run out ends in TimeoutInfo, not in a system error.
TimeoutIsReported == \A t \in Thread : result[t] # "SyscallExecuteError"

\* The mutex of a dead owner is restored.
DeadOwnerRestored ==
    \A t \in Thread : (owner = t /\ pc[t] = "dead") ~> owner = NoThread
==============================================================================
