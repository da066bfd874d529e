------------------------------- MODULE Locks -------------------------------
(***************************************************************************)
(* The lock classes of cf_lock.hpp and the guards of cf_lock_guard.hpp.    *)
(* Each user takes the lock by a LockGuard, or by TryLock and, if that     *)
(* says true, a LockGuardUnlock.                                           *)
(*                                                                         *)
(* PthreadMutex and RawPthreadMutex are one pthread mutex, the second one  *)
(* somebody else's.  RWMutex turns the two ways to lock a                  *)
(* RawPthreadRWMutex or a RawFileRWMutex into one, by its type.  A         *)
(* PosixSemaphore is a name in the system: users open it, close it and     *)
(* unlink it, and may be killed; Lock and UnLock ignore what sem_wait and  *)
(* sem_post return, so a Lock that a signal interrupts returns as if it    *)
(* had the lock.  RawFileRWMutex calls cf_fcntl, which hands fcntl the     *)
(* va_list instead of the argument behind it: every lock request fails     *)
(* with EINVAL and throws.  FakeMutex and FakeRWMutex do nothing and are   *)
(* meant for one user.                                                     *)
(***************************************************************************)
EXTENDS Naturals, FiniteSets

CONSTANTS User,        \* threads; processes for a semaphore or a file
          MaxSignal,   \* bound: waits on a semaphore that a signal interrupts
          MaxKill,     \* bound: users killed
          MaxUnlink    \* bound: how often the name of the semaphore is unlinked

ASSUME LocksAssumption == /\ IsFiniteSet(User)
                          /\ MaxSignal \in Nat /\ MaxKill \in Nat /\ MaxUnlink \in Nat

Mutexes == {"PthreadMutex", "RawPthreadMutex"}
RWMutexes == {"RawPthreadRWMutex", "RawFileRWMutex", "FakeRWMutex"}
Kinds == Mutexes \cup RWMutexes \cup {"PosixSemaphore", "FakeMutex"}

Semaphore == 1 .. MaxUnlink + 1

VARIABLES kind,      \* the class under test
          type,      \* _type of each user's RWMutex: READ or WRITE
          pc,        \* outside, lock, inside or dead
          result,    \* how each user's latest attempt ended
          name,      \* the semaphore the name stands for, 0 if none
          semaphore, \* _sem of each user: the semaphore it opened, 0 if none
          value,     \* the value of each semaphore
          interrupted, \* history: how many waits on each a signal ended
          unlinked   \* how often the name was unlinked

semVars == <<name, semaphore, value, interrupted, unlinked>>
vars == <<kind, type, pc, result, semVars>>

Init ==
    /\ kind \in Kinds
    /\ type \in [User -> {"READ", "WRITE"}]
    /\ kind \notin RWMutexes => \A u \in User : type[u] = "WRITE"
    /\ pc = [u \in User |-> "outside"]
    /\ result = [u \in User |-> "none"]
    /\ name = 0 /\ unlinked = 0
    /\ semaphore = [u \in User |-> 0]
    /\ value = [s \in Semaphore |-> 0]
    /\ interrupted = [s \in Semaphore |-> 0]

------------------------------------------------------------------------------

Goto(u, place) == pc' = [pc EXCEPT ![u] = place]
Ends(u, res) == result' = [result EXCEPT ![u] = res]

Inside == {u \in User : pc[u] = "inside"}

\* A real lock, as opposed to one that does nothing or always fails.
Real == kind \in Mutexes \cup {"RawPthreadRWMutex", "PosixSemaphore"}

\* Whether the lock can be had now: the pthread calls, sem_wait and sem_trywait.
RWAvailable(u) == \A v \in Inside : type[u] = "READ" /\ type[v] = "READ"

SemAvailable(u) == value[semaphore[u]] > 0

Available(u) ==
    CASE kind \in Mutexes             -> Inside = {}
      [] kind = "RawPthreadRWMutex"   -> RWAvailable(u)
      [] kind = "PosixSemaphore"      -> SemAvailable(u)
      [] kind \in {"FakeMutex", "FakeRWMutex"} -> TRUE
      [] OTHER                        -> FALSE

\* cf_sem_wait or cf_sem_trywait when the value is not 0, and cf_sem_post.
SemWait(s) == value' = [value EXCEPT ![s] = @ - 1]
SemPost(s) == value' = [value EXCEPT ![s] = @ + 1]

\* cf_fcntl: the address of the va_list is taken for a struct flock.
FcntlFails(u) == kind = "RawFileRWMutex" /\ Ends(u, "SyscallExecuteError")

\* The lock is had: a semaphore goes down by 1.
Enter(u) ==
    /\ Goto(u, "inside")
    /\ IF kind = "PosixSemaphore" THEN SemWait(semaphore[u]) ELSE UNCHANGED value

Ready(u) == kind = "PosixSemaphore" => semaphore[u] # 0

\* LockGuard(lock): the call of Lock.  A do-nothing lock has one user.
CallLock(u) ==
    /\ pc[u] = "outside" /\ Ready(u)
    /\ kind \in {"FakeMutex", "FakeRWMutex"} => \A v \in User : pc[v] = "outside"
    /\ Goto(u, "lock")
    /\ Ends(u, "none")
    /\ UNCHANGED <<kind, type, semVars>>

Lock(u) ==
    /\ pc[u] = "lock" /\ Available(u)
    /\ Enter(u)
    /\ UNCHANGED <<kind, type, result, name, semaphore, interrupted, unlinked>>

\* sem_wait fails with EINTR and PosixSemaphore::Lock returns all the same.
LockInterrupted(u) ==
    /\ pc[u] = "lock" /\ kind = "PosixSemaphore"
    /\ value[semaphore[u]] = 0
    /\ interrupted[semaphore[u]] < MaxSignal
    /\ Goto(u, "inside")
    /\ interrupted' = [interrupted EXCEPT ![semaphore[u]] = @ + 1]
    /\ UNCHANGED <<kind, type, result, name, semaphore, value, unlinked>>

\* The request to lock the file fails.
FileLockFails(u) ==
    /\ pc[u] = "lock" /\ FcntlFails(u)
    /\ Goto(u, "outside")
    /\ UNCHANGED <<kind, type, semVars>>

\* Either IsLock asks with F_GETLK, and throws as well.
IsLock(u) ==
    /\ pc[u] = "outside" /\ FcntlFails(u)
    /\ UNCHANGED <<kind, type, pc, semVars>>

\* Seeded fault: EBUSY is taken for success.
TryLockBusy(u) ==
    /\ pc[u] = "outside" /\ Ready(u) /\ kind # "FakeRWMutex"
    /\ kind = "FakeMutex" => \A v \in User : pc[v] = "outside"
    /\ \/ Available(u) /\ Enter(u) /\ Ends(u, "true")
       \/ Real /\ ~Available(u) /\ Goto(u, "inside") /\ Ends(u, "true") /\ UNCHANGED value
       \/ FcntlFails(u) /\ UNCHANGED <<pc, value>>
    /\ UNCHANGED <<kind, type, name, semaphore, interrupted, unlinked>>

\* Seeded fault: a guard unlocks what TryLock did not get.
TryLockUnlocks(u) ==
    /\ pc[u] = "outside" /\ Ready(u) /\ kind # "FakeRWMutex"
    /\ kind = "FakeMutex" => \A v \in User : pc[v] = "outside"
    /\ \/ Available(u) /\ Enter(u) /\ Ends(u, "true")
       \/ /\ Real /\ ~Available(u) /\ Ends(u, "false") /\ UNCHANGED pc
          /\ value' = IF kind = "PosixSemaphore" THEN [value EXCEPT ![semaphore[u]] = 1] ELSE value
       \/ FcntlFails(u) /\ UNCHANGED <<pc, value>>
    /\ UNCHANGED <<kind, type, name, semaphore, interrupted, unlinked>>

\* RWMutex::TryLock of a FakeRWMutex does not compile: its TryWriteLock is void.
TryLock(u) ==
    /\ pc[u] = "outside" /\ Ready(u) /\ kind # "FakeRWMutex"
    /\ kind = "FakeMutex" => \A v \in User : pc[v] = "outside"
    /\ \/ Available(u) /\ Enter(u) /\ Ends(u, "true")
       \/ Real /\ ~Available(u) /\ Ends(u, "false") /\ UNCHANGED <<pc, value>>
       \/ FcntlFails(u) /\ UNCHANGED <<pc, value>>
    /\ UNCHANGED <<kind, type, name, semaphore, interrupted, unlinked>>

\* Seeded fault: a semaphore is not posted.
UnLockForgets(u) ==
    /\ pc[u] = "inside"
    /\ Goto(u, "outside")
    /\ UNCHANGED <<kind, type, result, name, semaphore, value, interrupted, unlinked>>

\* The destructor of either guard.
UnLock(u) ==
    /\ pc[u] = "inside"
    /\ Goto(u, "outside")
    /\ IF kind = "PosixSemaphore" THEN SemPost(semaphore[u]) ELSE UNCHANGED value
    /\ UNCHANGED <<kind, type, result, name, semaphore, interrupted, unlinked>>

------------------------------------------------------------------------------
(* A semaphore by its name. *)

\* cf_sem_open creates one of value 1 if the name stands for none.
SemOpen ==
    \/ name # 0 /\ UNCHANGED <<name, value>>
    \/ name = 0 /\ name' = unlinked + 1 /\ value' = [value EXCEPT ![name'] = 1]

\* The constructor.
Open(u) ==
    /\ kind = "PosixSemaphore" /\ pc[u] = "outside" /\ semaphore[u] = 0
    /\ SemOpen
    /\ semaphore' = [semaphore EXCEPT ![u] = name']
    /\ UNCHANGED <<kind, type, pc, result, interrupted, unlinked>>

\* The destructor, with autoClose.
Close(u) ==
    /\ pc[u] = "outside" /\ semaphore[u] # 0
    /\ semaphore' = [semaphore EXCEPT ![u] = 0]
    /\ UNCHANGED <<kind, type, pc, result, name, value, interrupted, unlinked>>

\* Unlink takes the name away, or throws if it is away already.
Unlink(u) ==
    /\ pc[u] = "outside" /\ semaphore[u] # 0
    /\ \/ /\ name # 0 /\ unlinked < MaxUnlink
          /\ name' = 0 /\ unlinked' = unlinked + 1
          /\ Ends(u, "ok")
       \/ /\ name = 0
          /\ Ends(u, "SyscallExecuteError")
          /\ UNCHANGED <<name, unlinked>>
    /\ UNCHANGED <<kind, type, pc, semaphore, value, interrupted>>

\* A process is killed: the system closes what it had open and posts nothing.
Kill(u) ==
    /\ kind = "PosixSemaphore" /\ pc[u] \in {"lock", "inside"}
    /\ Cardinality({v \in User : pc[v] = "dead"}) < MaxKill
    /\ Goto(u, "dead")
    /\ Ends(u, pc[u])
    /\ UNCHANGED <<kind, type, semVars>>

------------------------------------------------------------------------------

Step(u) == Lock(u) \/ FileLockFails(u) \/ UnLock(u)

Next == \E u \in User : \/ Step(u) \/ CallLock(u) \/ TryLock(u) \/ LockInterrupted(u)
                        \/ IsLock(u) \/ Open(u) \/ Close(u) \/ Unlink(u) \/ Kill(u)

Spec == Init /\ [][Next]_vars

\* A user that is inside goes out, one that waits does not miss the lock for ever.
FairSpec == Spec /\ \A u \in User : WF_vars(UnLock(u)) /\ WF_vars(FileLockFails(u)) /\ SF_vars(Lock(u))

------------------------------------------------------------------------------
(* Properties. *)

LocksTypeOK ==
    /\ kind \in Kinds /\ type \in [User -> {"READ", "WRITE"}]
    /\ pc \in [User -> {"outside", "lock", "inside", "dead"}]
    /\ name \in Semaphore \cup {0} /\ semaphore \in [User -> Semaphore \cup {0}]
    /\ value \in [Semaphore -> Nat]
    /\ \A u \in User : kind = "PosixSemaphore" /\ pc[u] # "outside" => semaphore[u] # 0

\* Two users are inside together only as readers, with a semaphore only if they
\* opened different ones, around an Unlink, or if a signal interrupted a wait.
MutualExclusion ==
    \A u, v \in Inside :
        u # v => \/ type[u] = "READ" /\ type[v] = "READ"
                 \/ semaphore[u] # semaphore[v]
                 \/ kind = "PosixSemaphore" /\ interrupted[semaphore[u]] > 0

\* A process was killed inside.
DiedInside(u) == pc[u] = "dead" /\ result[u] = "inside"

\* A semaphore is never worth more or less than the place left inside: each
\* interrupted wait adds one place for good, each user killed inside takes one.
PlacesConserved ==
    \A s \in Semaphore :
        LET users == {u \in User : semaphore[u] = s /\ (pc[u] = "inside" \/ DiedInside(u))}
        IN name = s \/ users # {} => value[s] + Cardinality(users) = 1 + interrupted[s]

\* A semaphore a user has open is one that was made, and none leaks or gains a place.
LocksOK == LocksTypeOK /\ PlacesConserved

\* Every Lock returns, or throws, unless a user of the semaphore was killed
\* inside.  (A writer may wait for readers that overlap for ever.)
LockReturns ==
    \A u \in User :
        [](\A v \in User : ~DiedInside(v)) =>
            (pc[u] = "lock" /\ (kind = "RawPthreadRWMutex" => type[u] = "READ") ~> pc[u] # "lock")
=============================================================================
