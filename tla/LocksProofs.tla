----------------------------- MODULE LocksProofs -----------------------------
(***************************************************************************)
(* Who is inside a lock together, for any number of users, kills, unlinks  *)
(* and interrupted waits; and what the threads that share a log's mutex    *)
(* and buffer, and the processes that cache lines, write to the file.      *)
(*                                                                         *)
(* For the locks of one process the invariant is exclusion itself.  For a  *)
(* semaphore exclusion follows from counting: the value of each semaphore  *)
(* and the users inside it, dead ones included, add up to the one place it *)
(* was made with and those that interrupted waits have added.              *)
(*                                                                         *)
(* For a log the invariant counts the lines of each thread: all that it    *)
(* decided to log are in the file, but for the one that it is logging.  A  *)
(* cache and what its process wrote are, one behind the other, the lines   *)
(* that the process inherited and those that it logged.                    *)
(***************************************************************************)
EXTENDS Locks, Logs, FiniteSetTheorems, SequenceTheorems, TLAPS

IsSem == kind = "PosixSemaphore"

Result == {"none", "true", "false", "ok", "SyscallExecuteError", "lock", "inside"}

TypeInv ==
    /\ LocksTypeOK
    /\ result \in [User -> Result] /\ interrupted \in [Semaphore -> Nat]
    /\ unlinked \in 0 .. MaxUnlink /\ name \in {0, unlinked + 1}
    /\ ~IsSem => name = 0 /\ unlinked = 0 /\ \A u \in User : semaphore[u] = 0

Fake == kind \in {"FakeMutex", "FakeRWMutex"}

\* Exclusion in a lock that is no semaphore.
Exclusive ==
    /\ kind \in Mutexes => \A u, v \in Inside : u = v
    /\ kind = "RawPthreadRWMutex" =>
         \A u, v \in Inside : u # v => type[u] = "READ" /\ type[v] = "READ"
    /\ Fake => \A u, v \in User : pc[u] # "outside" /\ pc[v] # "outside" => u = v
    /\ kind = "RawFileRWMutex" => Inside = {}

\* u takes a place of its semaphore.
Holds(u) == pc[u] = "inside" \/ DiedInside(u)
Holders(s) == {u \in User : semaphore[u] = s /\ Holds(u)}

\* The semaphores that were ever made.
Made(s) == s <= unlinked \/ s = name

Counted(s) == value[s] + Cardinality(Holders(s)) = 1 + interrupted[s]

Places ==
    /\ \A s \in Semaphore : Made(s) => Counted(s)
    /\ \A s \in Semaphore : ~Made(s) => interrupted[s] = 0
    /\ \A u \in User : semaphore[u] # 0 => Made(semaphore[u])

IInv == TypeInv /\ Exclusive /\ Places

USE LocksAssumption

LEMMA SemaphoreNat == Semaphore \subseteq Nat \ {0} /\ \A s \in Semaphore : s <= MaxUnlink + 1
  BY DEF Semaphore

LEMMA HoldersFinite == \A s : IsFiniteSet(Holders(s)) /\ Cardinality(Holders(s)) \in Nat
<1> TAKE s
<1>1. Holders(s) \subseteq User
  BY DEF Holders
<1> QED
  BY <1>1, FS_Subset, FS_CardinalityType

\* The lock is as it was made.
LEMMA InitIInv == Init => IInv
<1> SUFFICES ASSUME Init PROVE IInv
  OBVIOUS
<1>1. TypeInv
  BY SemaphoreNat DEF Init, TypeInv, LocksTypeOK, IsSem, Semaphore, Result
<1>2. Exclusive
  BY DEF Init, Exclusive, Inside, Fake
<1>3. Places
  BY SemaphoreNat DEF Init, Places, Made
<1> QED
  BY <1>1, <1>2, <1>3 DEF IInv

LEMMA TypeStep == TypeInv /\ [Next]_vars => TypeInv'
<1> SUFFICES ASSUME TypeInv, [Next]_vars PROVE TypeInv'
  OBVIOUS
<1> USE DEF TypeInv, LocksTypeOK, IsSem, Goto, Ends, Ready, Result
<1>1. ASSUME NEW u \in User, Lock(u) PROVE TypeInv'
  BY <1>1, SemaphoreNat DEF Lock, Enter, SemWait, Available, SemAvailable
<1>2. ASSUME NEW u \in User, FileLockFails(u) PROVE TypeInv'
  BY <1>2 DEF FileLockFails, FcntlFails, semVars
<1>3. ASSUME NEW u \in User, UnLock(u) PROVE TypeInv'
  BY <1>3, SemaphoreNat DEF UnLock, SemPost
<1>4. ASSUME NEW u \in User, CallLock(u) PROVE TypeInv'
  BY <1>4 DEF CallLock, semVars
<1>5. ASSUME NEW u \in User, TryLock(u) PROVE TypeInv'
  <2>1. CASE Available(u) /\ Enter(u) /\ Ends(u, "true")
    BY <1>5, <2>1, SemaphoreNat DEF TryLock, Enter, SemWait, Available, SemAvailable
  <2>2. CASE Real /\ ~Available(u) /\ Ends(u, "false") /\ UNCHANGED <<pc, value>>
    BY <1>5, <2>2 DEF TryLock
  <2>3. CASE FcntlFails(u) /\ UNCHANGED <<pc, value>>
    BY <1>5, <2>3 DEF TryLock, FcntlFails
  <2> QED
    BY <1>5, <2>1, <2>2, <2>3 DEF TryLock
<1>6. ASSUME NEW u \in User, LockInterrupted(u) PROVE TypeInv'
  <2>1. semaphore[u] \in Semaphore
    <3>1. pc[u] = "lock" /\ kind = "PosixSemaphore"
      BY <1>6 DEF LockInterrupted
    <3> QED
      BY <3>1
  <2>2. interrupted' = [interrupted EXCEPT ![semaphore[u]] = @ + 1]
    BY <1>6 DEF LockInterrupted
  <2>3. interrupted \in [Semaphore -> Nat]
    OBVIOUS
  <2>4. interrupted' \in [Semaphore -> Nat]
    BY ONLY <2>1, <2>2, <2>3
  <2> QED
    BY <1>6, <2>4 DEF LockInterrupted
<1>7. ASSUME NEW u \in User, IsLock(u) PROVE TypeInv'
  BY <1>7 DEF IsLock, FcntlFails, semVars
<1>8. ASSUME NEW u \in User, Open(u) PROVE TypeInv'
  <2>1. name' \in Semaphore /\ name' = unlinked + 1
    BY <1>8, SemaphoreNat DEF Open, SemOpen, Semaphore
  <2>2. value' \in [Semaphore -> Nat]
    BY <1>8 DEF Open, SemOpen
  <2> QED
    BY <1>8, <2>1, <2>2, SemaphoreNat DEF Open
<1>9. ASSUME NEW u \in User, Close(u) PROVE TypeInv'
  BY <1>9 DEF Close
<1>10. ASSUME NEW u \in User, Unlink(u) PROVE TypeInv'
  BY <1>10 DEF Unlink
<1>11. ASSUME NEW u \in User, Kill(u) PROVE TypeInv'
  BY <1>11 DEF Kill, semVars
<1>12. CASE UNCHANGED vars
  BY <1>12 DEF vars, semVars
<1> QED
  BY <1>1, <1>2, <1>3, <1>4, <1>5, <1>6, <1>7, <1>8, <1>9, <1>10, <1>11, <1>12 DEF Next, Step

\* Only Lock, TryLock and, for a semaphore, an interrupted wait lead inside.
LEMMA ExclusiveStep == TypeInv /\ Exclusive /\ [Next]_vars => Exclusive'
<1> SUFFICES ASSUME TypeInv, Exclusive, [Next]_vars PROVE Exclusive'
  OBVIOUS
<1> USE DEF TypeInv, LocksTypeOK, Exclusive, Goto, Inside, Fake
<1>1. ASSUME NEW u \in User, Available(u), Enter(u), pc[u] \in {"lock", "outside"},
             Fake /\ pc[u] = "outside" => \A v \in User : pc[v] = "outside",
             UNCHANGED <<kind, type>>
      PROVE  Exclusive'
  BY <1>1 DEF Available, RWAvailable, Enter, Mutexes
<1>2. ASSUME NEW u \in User, pc' = [pc EXCEPT ![u] = "outside"], UNCHANGED <<kind, type>>
      PROVE  Exclusive'
  BY <1>2
<1>3. ASSUME UNCHANGED <<kind, type, pc>> PROVE Exclusive'
  BY <1>3
<1>4. ASSUME NEW u \in User, Lock(u) PROVE Exclusive'
  BY <1>1, <1>4 DEF Lock
<1>5. ASSUME NEW u \in User, TryLock(u) PROVE Exclusive'
  <2>1. CASE Available(u) /\ Enter(u) /\ Ends(u, "true")
    BY <1>1, <1>5, <2>1 DEF TryLock
  <2>2. CASE UNCHANGED pc
    BY <1>3, <1>5, <2>2 DEF TryLock
  <2> QED
    BY <1>5, <2>1, <2>2 DEF TryLock
<1>6. ASSUME NEW u \in User, CallLock(u) PROVE Exclusive'
  BY <1>6 DEF CallLock
<1>7. ASSUME NEW u \in User, LockInterrupted(u) PROVE Exclusive'
  BY <1>7 DEF LockInterrupted, Mutexes
<1>8. ASSUME NEW u \in User, FileLockFails(u) \/ UnLock(u) PROVE Exclusive'
  BY <1>2, <1>8 DEF FileLockFails, UnLock
<1>9. ASSUME NEW u \in User, IsLock(u) \/ Open(u) \/ Close(u) \/ Unlink(u) PROVE Exclusive'
  BY <1>3, <1>9 DEF IsLock, Open, Close, Unlink
<1>10. ASSUME NEW u \in User, Kill(u) PROVE Exclusive'
  BY <1>10 DEF Kill, Mutexes
<1>11. CASE UNCHANGED vars
  BY <1>3, <1>11 DEF vars
<1> QED
  BY <1>4, <1>5, <1>6, <1>7, <1>8, <1>9, <1>10, <1>11 DEF Next, Step

------------------------------------------------------------------------------
(* Counting. *)

\* Who holds a place is who did, and no count changes.
LEMMA SameHolders ==
  ASSUME Places, \A s \in Semaphore : Holders(s)' = Holders(s),
         UNCHANGED <<name, value, interrupted, unlinked>>,
         \A u \in User : semaphore'[u] \in {0, semaphore[u]}
  PROVE  Places'
  BY DEF Places, Made, Counted

\* u takes a place: the value has gone down, or a signal has made the place.
LEMMA OneEnters ==
  ASSUME TypeInv, Places, NEW u \in User, IsSem, semaphore[u] # 0, pc[u] \in {"lock", "outside"},
         Goto(u, "inside"), UNCHANGED <<name, semaphore, unlinked>>,
         result' = result \/ Ends(u, "true"),
         \/ SemWait(semaphore[u]) /\ UNCHANGED interrupted /\ value[semaphore[u]] > 0
         \/ interrupted' = [interrupted EXCEPT ![semaphore[u]] = @ + 1] /\ UNCHANGED value
  PROVE  Places'
<1> DEFINE s0 == semaphore[u]
<1>1. s0 \in Semaphore /\ u \notin Holders(s0) /\ Made(s0)
  BY DEF TypeInv, LocksTypeOK, Places, Holders, Holds, DiedInside
<1>2. Holders(s0)' = Holders(s0) \cup {u}
  BY <1>1 DEF TypeInv, LocksTypeOK, Holders, Holds, DiedInside, Goto, Ends
<1>3. \A s \in Semaphore : s # s0 => Holders(s)' = Holders(s)
  BY <1>1 DEF TypeInv, LocksTypeOK, Holders, Holds, DiedInside, Goto, Ends
<1>4. Cardinality(Holders(s0)') = Cardinality(Holders(s0)) + 1
  BY <1>1, <1>2, HoldersFinite, FS_AddElement
<1>5. value'[s0] + Cardinality(Holders(s0)') = 1 + interrupted'[s0]
  <2>1. value[s0] \in Nat /\ interrupted[s0] \in Nat /\ Cardinality(Holders(s0)) \in Nat
    BY <1>1, HoldersFinite DEF TypeInv, LocksTypeOK
  <2>2. value[s0] + Cardinality(Holders(s0)) = 1 + interrupted[s0]
    BY <1>1 DEF Places, Counted
  <2>3. CASE SemWait(s0) /\ UNCHANGED interrupted
    <3>1. value'[s0] = value[s0] - 1 /\ interrupted'[s0] = interrupted[s0]
      BY <1>1, <2>3 DEF SemWait, TypeInv, LocksTypeOK
    <3> QED
      BY <1>4, <2>1, <2>2, <3>1
  <2>4. CASE interrupted' = [interrupted EXCEPT ![s0] = @ + 1] /\ UNCHANGED value
    <3>1. value'[s0] = value[s0] /\ interrupted'[s0] = interrupted[s0] + 1
      BY <1>1, <2>4 DEF TypeInv
    <3> QED
      BY <1>4, <2>1, <2>2, <3>1
  <2> QED
    BY <2>3, <2>4
<1>6. \A s \in Semaphore : s # s0 => value'[s] = value[s] /\ interrupted'[s] = interrupted[s]
  BY <1>1 DEF SemWait, TypeInv, LocksTypeOK
<1>7. \A s \in Semaphore : Made(s)' <=> Made(s)
  BY DEF Made
<1> QED
  BY <1>1, <1>3, <1>5, <1>6, <1>7 DEF Places, Counted, Made

\* u goes and posts.
LEMMA OneLeaves == TypeInv /\ Places /\ (\E u \in User : UnLock(u)) => Places'
<1> SUFFICES ASSUME TypeInv, Places, NEW u \in User, UnLock(u) PROVE Places'
  OBVIOUS
<1>1. CASE ~IsSem
  <2>1. UNCHANGED <<name, value, semaphore, interrupted, unlinked>>
    BY <1>1 DEF UnLock, IsSem
  <2>2. \A s \in Semaphore : Holders(s) = {} /\ Holders(s)' = {}
    BY <1>1, <2>1, SemaphoreNat DEF Holders, TypeInv
  <2> QED
    BY <2>1, <2>2, SameHolders
<1>2. CASE IsSem
  <2> DEFINE s0 == semaphore[u]
  <2>1. s0 \in Semaphore /\ u \in Holders(s0) /\ Made(s0)
    BY <1>2 DEF TypeInv, LocksTypeOK, Places, Holders, Holds, UnLock, IsSem
  <2>2. Holders(s0)' = Holders(s0) \ {u}
    BY <2>1 DEF TypeInv, LocksTypeOK, Holders, Holds, DiedInside, Goto, UnLock
  <2>3. \A s \in Semaphore : s # s0 => Holders(s)' = Holders(s)
    BY <2>1 DEF TypeInv, LocksTypeOK, Holders, Holds, DiedInside, Goto, UnLock
  <2>4. Cardinality(Holders(s0)') = Cardinality(Holders(s0)) - 1
    BY <2>1, <2>2, HoldersFinite, FS_RemoveElement
  <2>5. value' = [value EXCEPT ![s0] = @ + 1] /\ UNCHANGED <<name, semaphore, interrupted, unlinked>>
    BY <1>2 DEF UnLock, SemPost, IsSem
  <2>6. value'[s0] + Cardinality(Holders(s0)') = 1 + interrupted'[s0]
    <3>1. value[s0] \in Nat /\ interrupted[s0] \in Nat /\ Cardinality(Holders(s0)) \in Nat
      BY <2>1, HoldersFinite DEF TypeInv, LocksTypeOK
    <3>2. value[s0] + Cardinality(Holders(s0)) = 1 + interrupted[s0]
      BY <2>1 DEF Places, Counted
    <3>3. value'[s0] = value[s0] + 1
      BY <2>1, <2>5 DEF TypeInv, LocksTypeOK
    <3> QED
      BY <2>4, <2>5, <3>1, <3>2, <3>3
  <2>7. \A s \in Semaphore : s # s0 => value'[s] = value[s]
    BY <2>1, <2>5 DEF TypeInv, LocksTypeOK
  <2> QED
    BY <2>1, <2>3, <2>5, <2>6, <2>7 DEF Places, Counted, Made
<1> QED
  BY <1>1, <1>2

\* A new semaphore has one place and nobody in it.
LEMMA OneOpens == TypeInv /\ Places /\ (\E u \in User : Open(u)) => Places'
<1> SUFFICES ASSUME TypeInv, Places, NEW u \in User, Open(u) PROVE Places'
  OBVIOUS
<1>1. name' = unlinked + 1 /\ name' \in Semaphore
  BY SemaphoreNat DEF Open, SemOpen, TypeInv, Semaphore
<1>2. \A s \in Semaphore : Holders(s)' = Holders(s)
  <2>1. pc' = pc /\ result' = result /\ pc[u] = "outside" /\ ~Holds(u) /\ ~Holds(u)'
    BY DEF Open, Holds, DiedInside
  <2>2. \A v \in User : v # u => semaphore'[v] = semaphore[v] /\ (Holds(v)' <=> Holds(v))
    BY <2>1 DEF Open, TypeInv, LocksTypeOK, Holds, DiedInside
  <2> QED
    BY <2>1, <2>2 DEF Holders
<1>3. UNCHANGED <<interrupted, unlinked>>
  BY DEF Open
<1>4. CASE name # 0
  <2>1. UNCHANGED <<name, value>> /\ \A v \in User : semaphore'[v] \in {semaphore[v], name}
    BY <1>4 DEF Open, SemOpen, TypeInv, LocksTypeOK
  <2> QED
    BY <1>2, <1>3, <2>1 DEF Places, Made, Counted
<1>5. CASE name = 0
  <2>1. value' = [value EXCEPT ![name'] = 1]
    BY <1>5 DEF Open, SemOpen
  <2>2. ~Made(name')
    BY <1>1, <1>5, SemaphoreNat DEF Made, TypeInv
  <2>3. Holders(name') = {}
    BY <1>1, <2>2, SemaphoreNat DEF Holders, Places
  <2>4. Cardinality(Holders(name')) = 0
    BY <2>3, FS_EmptySet
  <2>5. value'[name'] = 1 /\ interrupted[name'] = 0
    BY <1>1, <2>1, <2>2 DEF TypeInv, LocksTypeOK, Places
  <2>6. \A s \in Semaphore : s # name' => value'[s] = value[s]
    BY <2>1 DEF TypeInv, LocksTypeOK
  <2>7. \A s \in Semaphore : Made(s)' <=> Made(s) \/ s = name'
    BY <1>3, <1>5, SemaphoreNat DEF Made
  <2>8. \A v \in User : semaphore'[v] \in {semaphore[v], name'}
    BY DEF Open, TypeInv, LocksTypeOK
  <2>9. \A s \in Semaphore : s # name' /\ Made(s) => Counted(s)'
    BY <1>2, <1>3, <2>6 DEF Places, Counted
  <2>11. \A s \in Semaphore : s = name' => Counted(s)'
    BY <1>2, <1>3, <2>4, <2>5 DEF Counted
  <2>12. \A s \in Semaphore : Made(s)' => Counted(s)'
    BY <2>7, <2>9, <2>11
  <2>13. \A s \in Semaphore : ~Made(s)' => interrupted'[s] = 0
    BY <1>3, <2>7 DEF Places
  <2>14. \A v \in User : semaphore'[v] # 0 => Made(semaphore[v])' \/ semaphore'[v] = name'
    BY <1>1, <1>3, <1>5, <2>2, <2>8 DEF Made, Places
  <2>15. \A v \in User : semaphore'[v] # 0 => semaphore'[v] <= unlinked' \/ semaphore'[v] = name'
    BY <1>3, <1>5, <2>8, SemaphoreNat DEF Places, Made, TypeInv, LocksTypeOK
  <2> QED
    BY <2>12, <2>13, <2>15 DEF Places, Made
<1> QED
  BY <1>4, <1>5

LEMMA PlacesStep == TypeInv /\ Places /\ [Next]_vars => Places'
<1> SUFFICES ASSUME TypeInv, Places, [Next]_vars PROVE Places'
  OBVIOUS
<1> USE DEF IsSem
<1>1. ASSUME NEW u \in User, Lock(u) PROVE Places'
  <2>1. CASE IsSem
    BY <1>1, <2>1, OneEnters DEF Lock, Enter, Available, SemAvailable, TypeInv, LocksTypeOK, Mutexes
  <2>2. CASE ~IsSem
    <3>1. UNCHANGED <<name, value, interrupted, unlinked, semaphore>>
      BY <1>1, <2>2 DEF Lock, Enter
    <3>2. \A s \in Semaphore : Holders(s)' = Holders(s)
      BY <2>2, <3>1, SemaphoreNat DEF Holders, TypeInv
    <3> QED
      BY <3>1, <3>2, SameHolders
  <2> QED
    BY <2>1, <2>2
<1>2. ASSUME NEW u \in User, TryLock(u) PROVE Places'
  <2>1. CASE IsSem /\ Available(u) /\ Enter(u) /\ Ends(u, "true")
    BY <1>2, <2>1, OneEnters DEF TryLock, Enter, Available, SemAvailable, Ready, Mutexes
  <2>2. CASE ~IsSem
    <3>1. UNCHANGED <<name, value, interrupted, unlinked, semaphore>>
      BY <1>2, <2>2 DEF TryLock, Enter
    <3>2. \A s \in Semaphore : Holders(s)' = Holders(s)
      BY <2>2, <3>1, SemaphoreNat DEF Holders, TypeInv
    <3> QED
      BY <3>1, <3>2, SameHolders
  <2>3. CASE IsSem /\ UNCHANGED <<pc, value>>
    <3>1. UNCHANGED <<name, value, interrupted, unlinked, semaphore>>
      BY <1>2, <2>3 DEF TryLock
    <3>2. \A s \in Semaphore : Holders(s)' = Holders(s)
      <4>1. \A v \in User : Holds(v)' <=> Holds(v)
        BY <1>2, <2>3 DEF TryLock, Holds, DiedInside, Ends, FcntlFails, TypeInv, LocksTypeOK
      <4> QED
        BY <3>1, <4>1 DEF Holders
    <3> QED
      BY <3>1, <3>2, SameHolders
  <2> QED
    BY <1>2, <2>1, <2>2, <2>3 DEF TryLock, FcntlFails
<1>3. ASSUME NEW u \in User, LockInterrupted(u) PROVE Places'
  BY <1>3, OneEnters DEF LockInterrupted, TypeInv, LocksTypeOK
<1>4. ASSUME NEW u \in User, UnLock(u) PROVE Places'
  BY <1>4, OneLeaves
<1>5. ASSUME NEW u \in User, Open(u) PROVE Places'
  BY <1>5, OneOpens
<1>6. ASSUME NEW u \in User, CallLock(u) \/ FileLockFails(u) \/ IsLock(u) \/ Kill(u) PROVE Places'
  <2>1. UNCHANGED <<name, value, interrupted, unlinked, semaphore>>
    BY <1>6 DEF CallLock, FileLockFails, IsLock, Kill, semVars
  <2>2. \A v \in User : Holds(v)' <=> Holds(v)
    <3>1. \A v \in User : v # u => (Holds(v)' <=> Holds(v))
      BY <1>6 DEF CallLock, FileLockFails, IsLock, Kill, FcntlFails, Goto, Ends, Holds, DiedInside,
                  TypeInv, LocksTypeOK
    <3>2. Holds(u)' <=> Holds(u)
      BY <1>6 DEF CallLock, FileLockFails, IsLock, Kill, FcntlFails, Goto, Ends, Holds, DiedInside,
                  TypeInv, LocksTypeOK
    <3> QED
      BY <3>1, <3>2
  <2>3. \A s \in Semaphore : Holders(s)' = Holders(s)
    BY <2>1, <2>2 DEF Holders
  <2> QED
    BY <2>1, <2>3, SameHolders
<1>7. ASSUME NEW u \in User, Close(u) PROVE Places'
  <2>1. \A s \in Semaphore : Holders(s)' = Holders(s)
    BY <1>7, SemaphoreNat DEF Close, Holders, Holds, DiedInside, TypeInv, LocksTypeOK
  <2> QED
    BY <1>7, <2>1, SameHolders DEF Close, TypeInv, LocksTypeOK
<1>8. ASSUME NEW u \in User, Unlink(u) PROVE Places'
  <2>1. \A s \in Semaphore : Holders(s)' = Holders(s)
    <3>1. \A v \in User : Holds(v)' <=> Holds(v)
      BY <1>8 DEF Unlink, Holds, DiedInside, Ends, TypeInv, LocksTypeOK
    <3> QED
      BY <1>8, <3>1 DEF Unlink, Holders
  <2>2. \A s \in Semaphore : Made(s)' <=> Made(s)
    <3>1. name \in {0, unlinked + 1} /\ unlinked \in Nat
      BY DEF TypeInv, LocksTypeOK
    <3>2. CASE UNCHANGED <<name, unlinked>>
      BY <3>2 DEF Made
    <3>3. CASE name = unlinked + 1 /\ name' = 0 /\ unlinked' = unlinked + 1
      <4>1. ASSUME NEW s \in Semaphore
            PROVE  (s <= unlinked + 1 \/ s = 0) <=> (s <= unlinked \/ s = unlinked + 1)
        BY <3>1, SemaphoreNat
      <4> QED
        BY <3>3, <4>1 DEF Made
    <3> QED
      BY <1>8, <3>1, <3>2, <3>3 DEF Unlink
  <2>3. \A s \in Semaphore : Counted(s)' <=> Counted(s)
    BY <1>8, <2>1 DEF Unlink, Counted
  <2>4. \A v \in User : semaphore'[v] = semaphore[v]
    BY <1>8 DEF Unlink
  <2>5. \A v \in User : semaphore[v] # 0 => semaphore[v] \in Semaphore
    BY DEF TypeInv, LocksTypeOK
  <2>6. interrupted' = interrupted /\ semaphore' = semaphore
    BY <1>8 DEF Unlink
  <2>7. \A v \in User : semaphore[v] # 0 => semaphore[v] <= unlinked' \/ semaphore[v] = name'
    BY <2>2, <2>5 DEF Places, Made
  <2> QED
    BY <2>2, <2>3, <2>6, <2>7 DEF Places, Made
<1>9. CASE UNCHANGED vars
  <2>1. \A s \in Semaphore : Holders(s)' = Holders(s)
    BY <1>9 DEF vars, semVars, Holders, Holds, DiedInside
  <2> QED
    BY <1>9, <2>1, SameHolders DEF vars, semVars
<1> QED
  BY <1>1, <1>2, <1>3, <1>4, <1>5, <1>6, <1>7, <1>8, <1>9 DEF Next, Step

------------------------------------------------------------------------------
(* The theorems. *)

\* Two users inside one semaphore need two places, and the second one can only
\* come from an interrupted wait.
LEMMA IInvExcludes == IInv => MutualExclusion
<1> SUFFICES ASSUME IInv, NEW u \in Inside, NEW v \in Inside, u # v,
                    ~(type[u] = "READ" /\ type[v] = "READ"), semaphore[u] = semaphore[v]
             PROVE  kind = "PosixSemaphore" /\ interrupted[semaphore[u]] > 0
  BY DEF MutualExclusion
<1>1. kind = "PosixSemaphore" /\ u \in User /\ v \in User
  BY DEF IInv, TypeInv, LocksTypeOK, Exclusive, Inside, Kinds, RWMutexes, Fake
<1> DEFINE s == semaphore[u]
<1>2. s \in Semaphore /\ Counted(s)
  BY <1>1 DEF IInv, TypeInv, LocksTypeOK, Places, Inside
<1>3. {u, v} \subseteq Holders(s)
  BY <1>1 DEF Holders, Holds, Inside
<1>4. IsFiniteSet({u, v}) /\ Cardinality({u, v}) = 2
  <2>1. IsFiniteSet({u}) /\ Cardinality({u}) = 1 /\ v \notin {u} /\ {u, v} = {u} \cup {v}
    BY FS_Singleton
  <2> HIDE DEF s
  <2>2. IsFiniteSet({u} \cup {v}) /\ Cardinality({u} \cup {v}) = Cardinality({u}) + 1
    BY <2>1, FS_AddElement
  <2> QED
    BY <2>1, <2>2
<1>5. Cardinality(Holders(s)) >= 2 /\ Cardinality(Holders(s)) \in Nat
  BY <1>3, <1>4, HoldersFinite, FS_Subset
<1>6. value[s] \in Nat /\ interrupted[s] \in Nat
  BY <1>2 DEF IInv, TypeInv, LocksTypeOK
<1> QED
  BY <1>1, <1>2, <1>5, <1>6 DEF Counted

LEMMA IInvCounts == IInv => LocksOK
<1> SUFFICES ASSUME IInv PROVE LocksOK
  OBVIOUS
<1>1. ASSUME NEW s \in Semaphore, name = s \/ Holders(s) # {} PROVE Counted(s)
  BY <1>1, SemaphoreNat DEF IInv, Places, Made, Holders
<1>2. PlacesConserved
  BY <1>1 DEF PlacesConserved, Counted, Holders, Holds
<1> QED
  BY <1>2 DEF LocksOK, IInv, TypeInv

LEMMA IInvStep == IInv /\ [Next]_vars => IInv'
  BY TypeStep, ExclusiveStep, PlacesStep DEF IInv

\* However users lock, try, unlock, open, close and unlink, are interrupted and
\* killed, the places of a semaphore add up and all is typed.
THEOREM LocksKeepPlaces == Spec => []LocksOK
  BY InitIInv, IInvStep, IInvCounts, PTL DEF Spec

\* And no two users are inside together, but readers, users of different
\* semaphores and users of one in which a wait was interrupted.
THEOREM LocksExclude == Spec => []MutualExclusion
  BY InitIInv, IInvStep, IInvExcludes, PTL DEF Spec

(***************************************************************************)
(* Logs                                                                    *)
(***************************************************************************)

HIDE LocksAssumption

Line == Nat \X Nat
Returned == Outcome \cup {"below", "calling"}
Tried == (Process \X Nat) \X Outcome

LogsTypeInv ==
    /\ uses \in {"LogNonCache", "LogCache"} /\ level \in Level /\ owner \in Thread \cup {0}
    /\ destBuf \in Line \X Line /\ file \in Seq(Line \X Line \X Outcome)
    /\ started \in 0 .. PoolSize
    /\ main \in {"new", "created", "started", "joined", "threw", "crashed"}
    /\ status \in [Thread -> {"NEW", "UNBLOCKED"}]
    /\ doing \in [Thread -> {"none", "run", "lock", "prefix", "message", "write", "done"}]
    /\ line \in [Thread -> Line] /\ said \in [Thread -> Seq(Returned)]
    /\ alive \in [Process -> {"unborn", "running", "exited", "killed"}]
    /\ cache \in [Process -> Seq(Process \X Nat)]
    /\ tried \in [Process -> Seq(Tried)] /\ written \in [Process -> Seq(Tried)]
    /\ inherited \in Seq(Process \X Nat)
    /\ next \in [Process -> Nat] /\ cached \in [Process -> Nat] /\ leaving \in [Process -> BOOLEAN]

\* The first threads run, with their objects started, and Join leaves none of them behind.
StartInv ==
    /\ main = "created" => started > 0
    /\ \A t \in Thread : /\ doing[t] # "none" <=> t <= started
                         /\ t < started \/ (t = started /\ main # "created") => status[t] = "UNBLOCKED"
                         /\ main = "joined" => doing[t] = "done"
    /\ main \in {"started", "joined"} => started = PoolSize

\* A thread in the buffer holds the mutex, and finds in the buffer what it put there.
BufferInv ==
    \A t \in Thread : /\ owner = t <=> doing[t] \in {"prefix", "message", "write"}
                      /\ doing[t] = "message" => destBuf[1] = line[t]
                      /\ doing[t] = "write" => destBuf[1] = line[t] /\ destBuf[2] = line[t]

\* A thread between the decision to log a line and its write.
Logging(where) == where \in {"lock", "prefix", "message", "write"}

\* Of the lines in f those of thread t.
OwnLines(f, t) == {i \in 1 .. Len(f) : f[i][1][1] = t}

\* One thread: the calls whose write came to the file f are there in their order, with the
\* result s has of them, and only the last one, for the line l, may not have returned.
FileAt(t, f, where, l, s) ==
    /\ Len(s) = l[2] /\ (Len(s) > 0 => l[1] = t) /\ (Logging(where) => Len(s) > 0)
    /\ \A n \in 1 .. Len(s) : s[n] = "calling" <=> n = Len(s) /\ Logging(where)
    /\ \A i \in OwnLines(f, t) : f[i][1][2] \in 1 .. Len(s) /\ s[f[i][1][2]] = f[i][3]
    /\ \A i, j \in OwnLines(f, t) : i < j => f[i][1][2] < f[j][1][2]
    /\ \A n \in 1 .. Len(s) : s[n] \in {"whole", "short"} => \E i \in OwnLines(f, t) : f[i][1][2] = n

FileInv ==
    /\ \A i \in 1 .. Len(file) : file[i][1] = file[i][2] /\ file[i][1][1] \in Thread
    /\ \A t \in Thread : FileAt(t, file, doing[t], line[t], said[t])

\* The i-th of the lines that process p logged, behind those, first, that it inherited.
LineAt(p, first, i) == IF i <= Len(first) THEN first[i] ELSE <<p, i - Len(first)>>

\* Of the lines in a cache whose Flush is at its n-th, those that were written.
Flushed(n) == IF n = 0 THEN 0 ELSE n - 1

\* One process: it inherited first, logged k lines, has c in its cache and tried to write w.
CacheAt(p, first, state, c, n, k, gone, w) ==
    /\ Len(w) + Len(c) = Len(first) + k + Flushed(n)
    /\ \A i \in 1 .. Len(w) : w[i][1] = LineAt(p, first, i)
    /\ \A i \in 1 .. Len(c) : i > Flushed(n) => c[i] = LineAt(p, first, Len(w) + i - Flushed(n))
    /\ Len(c) <= MaxLoop /\ n <= Len(c)
    /\ n = 0 => Len(c) < MaxLoop
    /\ n = 0 /\ gone => Len(c) = 0
    /\ state = "exited" => gone /\ n = 0
    /\ state = "unborn" => Len(first) = 0 /\ Len(w) = 0 /\ k = 0 /\ n = 0 /\ ~gone

\* Its file, f, has of what it tried to write, w, what came through.
ComesThrough(w, f) ==
    /\ Len(f) = Cardinality(Reached(w))
    /\ \A k \in Reached(w) : f[Rank(w, k)] = w[k]

Inherits(p) == IF p = "child" THEN inherited ELSE <<>>

CachesInv ==
    \A p \in Process : /\ CacheAt(p, Inherits(p), alive[p], cache[p], next[p], cached[p], leaving[p], tried[p])
                       /\ ComesThrough(tried[p], written[p])

LogsInv == LogsTypeInv /\ StartInv /\ BufferInv /\ FileInv /\ CachesInv

LEMMA LogsTypes ==
  /\ PoolSize \in Nat /\ MaxLoop \in Nat /\ MaxLoop >= 1 /\ Level \subseteq Nat
  /\ Thread \subseteq Nat /\ 0 \notin Thread /\ NoLine \in Line
BY LogsAssumption DEF Thread, NoLine, Line

\* The writes that came through are finitely many, and their ranks are their numbers.
LEMMA RankBounds ==
  ASSUME NEW w, Len(w) \in Nat
  PROVE  /\ IsFiniteSet(Reached(w)) /\ Cardinality(Reached(w)) \in Nat
         /\ \A i \in Reached(w) : Rank(w, i) \in 1 .. Cardinality(Reached(w))
<1>1. IsFiniteSet(1 .. Len(w)) /\ Reached(w) \subseteq 1 .. Len(w)
  BY FS_Interval DEF Reached
<1>2. IsFiniteSet(Reached(w)) /\ Cardinality(Reached(w)) \in Nat
  BY <1>1, FS_Subset, FS_CardinalityType
<1>3. ASSUME NEW i \in Reached(w)
      PROVE  Rank(w, i) \in 1 .. Cardinality(Reached(w))
  <2> DEFINE S == {j \in Reached(w) : j <= i}
  <2>1. S \subseteq Reached(w) /\ i \in S
    BY <1>1
  <2> HIDE DEF S
  <2>2. IsFiniteSet(S) /\ Cardinality(S) <= Cardinality(Reached(w)) /\ Cardinality(S) \in Nat
    BY <1>2, <2>1, FS_Subset, FS_CardinalityType
  <2>3. Cardinality(S) # 0
    BY <2>1, <2>2, FS_EmptySet
  <2>4. Cardinality(S) \in 1 .. Cardinality(Reached(w))
    BY <1>2, <2>2, <2>3
  <2> QED
    BY <2>4 DEF S, Rank
<1> QED
  BY <1>2, <1>3

\* One write more: what came through before is where it was, and what comes through is last.
LEMMA OneMoreWrite ==
  ASSUME NEW S, NEW w \in Seq(S), NEW x \in S, NEW f \in Seq(S), ComesThrough(w, f)
  PROVE  ComesThrough(Append(w, x), Reaches(f, x, x[2]))
<1> DEFINE g == Append(w, x)
           n == Len(w)
           h == Reaches(f, x, x[2])
<1>1. /\ n \in Nat /\ Len(g) = n + 1 /\ g[n + 1] = x
      /\ \A i \in 1 .. n : g[i] = w[i]
  BY AppendProperties
<1> HIDE DEF g
<1>2. 1 .. n + 1 = 1 .. n \cup {n + 1} /\ n + 1 \notin 1 .. n
  BY <1>1
<1>3. \A i \in Reached(w) : i \in 1 .. n
  BY DEF Reached
<1>4. Reached(g) = Reached(w) \cup (IF x[2] # "failed" THEN {n + 1} ELSE {})
  BY <1>1, <1>2 DEF Reached
<1>5. /\ n + 1 \notin Reached(w) /\ IsFiniteSet(Reached(w)) /\ Cardinality(Reached(w)) \in Nat
      /\ \A i \in Reached(w) : Rank(w, i) \in 1 .. Cardinality(Reached(w))
  BY <1>1, <1>2, <1>3, RankBounds
<1> HIDE DEF n
<1>6. ASSUME NEW i \in Reached(w) PROVE Rank(g, i) = Rank(w, i)
  <2>1. i \in Nat /\ ~ (n + 1 <= i)
    BY <1>1, <1>3
  <2>2. {j \in Reached(g) : j <= i} = {j \in Reached(w) : j <= i}
    BY <1>4, <2>1
  <2> QED
    BY <2>2 DEF Rank
<1>7. Len(f) = Cardinality(Reached(w)) /\ \A k \in Reached(w) : f[Rank(w, k)] = w[k]
  BY DEF ComesThrough
<1>8. CASE x[2] = "failed"
  <2>1. Reached(g) = Reached(w) /\ h = f
    BY <1>4, <1>8 DEF Reaches
  <2>2. \A k \in Reached(g) : h[Rank(g, k)] = g[k]
    BY <1>1, <1>3, <1>6, <1>7, <2>1
  <2> QED
    BY <1>7, <2>1, <2>2 DEF ComesThrough, g
<1>9. CASE x[2] # "failed"
  <2>1. Reached(g) = Reached(w) \cup {n + 1} /\ h = Append(f, x)
    BY <1>4, <1>9 DEF Reaches
  <2>2. Cardinality(Reached(g)) = Cardinality(Reached(w)) + 1
    BY <1>5, <2>1, FS_AddElement
  <2>3. /\ Len(h) = Len(f) + 1 /\ h[Len(f) + 1] = x
        /\ \A i \in 1 .. Len(f) : h[i] = f[i]
    BY <2>1, AppendProperties
  <2>4. Rank(g, n + 1) = Len(f) + 1
    <3>1. \A j \in Reached(g) : j <= n + 1
      BY <1>1, <1>3, <2>1
    <3>2. {j \in Reached(g) : j <= n + 1} = Reached(g)
      BY <3>1
    <3> QED
      BY <1>7, <2>2, <3>2 DEF Rank
  <2> HIDE DEF h
  <2>5. ASSUME NEW k \in Reached(g) PROVE h[Rank(g, k)] = g[k]
    <3>1. CASE k = n + 1
      BY <1>1, <2>3, <2>4, <3>1
    <3>2. CASE k # n + 1
      <4>1. k \in Reached(w) /\ k \in 1 .. n
        BY <1>3, <2>1, <3>2
      <4>2. Rank(g, k) = Rank(w, k) /\ Rank(w, k) \in 1 .. Len(f)
        BY <1>5, <1>6, <1>7, <4>1
      <4> QED
        BY <1>1, <1>7, <2>3, <4>1, <4>2
    <3> QED
      BY <3>1, <3>2
  <2> QED
    BY <1>7, <2>2, <2>3, <2>5 DEF ComesThrough, g, h
<1> QED
  BY <1>8, <1>9

\* A line comes to the file: its thread has one more there, and the others what they had.
LEMMA OneMoreLine ==
  ASSUME NEW S, NEW f \in Seq(S), NEW x \in S, NEW t
  PROVE  /\ Len(f) \in Nat /\ Len(Append(f, x)) = Len(f) + 1 /\ Append(f, x)[Len(f) + 1] = x
         /\ \A i \in 1 .. Len(f) : Append(f, x)[i] = f[i]
         /\ \A i \in OwnLines(f, t) : i \in 1 .. Len(f)
         /\ OwnLines(Append(f, x), t) = OwnLines(f, t) \cup (IF x[1][1] = t THEN {Len(f) + 1} ELSE {})
<1> DEFINE g == Append(f, x)
           n == Len(f)
<1>1. /\ n \in Nat /\ Len(g) = n + 1 /\ g[n + 1] = x
      /\ \A i \in 1 .. n : g[i] = f[i]
  BY AppendProperties
<1> HIDE DEF g
<1>2. 1 .. n + 1 = 1 .. n \cup {n + 1} /\ n + 1 \notin 1 .. n
  BY <1>1
<1>3. \A i \in OwnLines(f, t) : i \in 1 .. n
  BY DEF OwnLines
<1>4. OwnLines(g, t) = OwnLines(f, t) \cup (IF x[1][1] = t THEN {n + 1} ELSE {})
  BY <1>1, <1>2 DEF OwnLines
<1> QED
  BY <1>1, <1>3, <1>4 DEF g, n

\* Thread t calls Write again: the call returns at once, or goes on to the mutex.
LEMMA LineDecided ==
  ASSUME NEW t, NEW f, NEW l, NEW s \in Seq(Returned), FileAt(t, f, "run", l, s),
         NEW outcome, NEW where,
         (outcome = "below" /\ where = "run") \/ (outcome = "calling" /\ where = "lock")
  PROVE  Append(s, outcome) \in Seq(Returned) /\ FileAt(t, f, where, <<t, l[2] + 1>>, Append(s, outcome))
<1> DEFINE s2 == Append(s, outcome)
           m  == Len(s)
<1>1. outcome \in Returned /\ outcome \notin {"whole", "short"}
  BY DEF Returned
<1>2. /\ s2 \in Seq(Returned) /\ m \in Nat /\ Len(s2) = m + 1 /\ s2[m + 1] = outcome
      /\ \A n \in 1 .. m : s2[n] = s[n]
  BY <1>1, AppendProperties
<1> HIDE DEF s2
<1>3. /\ m = l[2] /\ \A n \in 1 .. m : s[n] # "calling"
      /\ \A i \in OwnLines(f, t) : f[i][1][2] \in 1 .. m /\ s[f[i][1][2]] = f[i][3]
      /\ \A i, j \in OwnLines(f, t) : i < j => f[i][1][2] < f[j][1][2]
      /\ \A n \in 1 .. m : s[n] \in {"whole", "short"} => \E i \in OwnLines(f, t) : f[i][1][2] = n
  BY DEF FileAt, Logging
<1> HIDE DEF m
<1>4. \A n \in 1 .. m + 1 : n \in 1 .. m \/ n = m + 1
  BY <1>2
<1>5. /\ \A n \in 1 .. m : n \in 1 .. m + 1 /\ n # m + 1
      /\ Logging(where) <=> outcome = "calling"
  BY <1>2 DEF Logging
<1>6. \A n \in 1 .. m + 1 : s2[n] = "calling" <=> n = m + 1 /\ Logging(where)
  BY <1>2, <1>3, <1>4, <1>5
<1>7. \A i \in OwnLines(f, t) : f[i][1][2] \in 1 .. m + 1 /\ s2[f[i][1][2]] = f[i][3]
  BY <1>2, <1>3, <1>5
<1>8. \A n \in 1 .. m + 1 : s2[n] \in {"whole", "short"} => \E i \in OwnLines(f, t) : f[i][1][2] = n
  BY <1>1, <1>2, <1>3, <1>4
<1>9. /\ Len(s2) = <<t, l[2] + 1>>[2] /\ <<t, l[2] + 1>>[1] = t /\ Len(s2) > 0
  BY <1>2, <1>3
<1>10. FileAt(t, f, where, <<t, l[2] + 1>>, s2)
  BY <1>2, <1>3, <1>6, <1>7, <1>8, <1>9 DEF FileAt
<1> QED
  BY <1>2, <1>10 DEF s2

\* Thread t writes the line it is logging, and its call returns what became of it.
LEMMA LineWritten ==
  ASSUME NEW t, NEW f \in Seq(Line \X Line \X Outcome), NEW l \in Line, NEW s \in Seq(Returned),
         FileAt(t, f, "write", l, s), NEW outcome \in Outcome
  PROVE  /\ [s EXCEPT ![l[2]] = outcome] \in Seq(Returned)
         /\ FileAt(t, Reaches(f, <<l, l, outcome>>, outcome), "run", l, [s EXCEPT ![l[2]] = outcome])
<1> DEFINE x  == <<l, l, outcome>>
           g  == Reaches(f, x, outcome)
           s2 == [s EXCEPT ![l[2]] = outcome]
           n  == Len(f)
           m  == Len(s)
<1>1. /\ x \in Line \X Line \X Outcome /\ x[1] = l /\ x[3] = outcome /\ n \in Nat /\ m \in Nat
      /\ m = l[2] /\ l[1] = t /\ m > 0 /\ m \in 1 .. m
      /\ \A k \in 1 .. m : s[k] = "calling" <=> k = m
      /\ \A i \in OwnLines(f, t) : f[i][1][2] \in 1 .. m /\ s[f[i][1][2]] = f[i][3]
      /\ \A i, j \in OwnLines(f, t) : i < j => f[i][1][2] < f[j][1][2]
      /\ \A k \in 1 .. m : s[k] \in {"whole", "short"} => \E i \in OwnLines(f, t) : f[i][1][2] = k
  BY DEF FileAt, Logging
<1>2. outcome \in Returned /\ outcome # "calling" /\ (outcome # "failed" <=> outcome \in {"whole", "short"})
  BY DEF Returned, Outcome
<1>3. /\ s2 \in Seq(Returned) /\ Len(s2) = m /\ s2[m] = outcome
      /\ \A k \in 1 .. m : k # m => s2[k] = s[k]
  BY <1>1, <1>2
<1> HIDE DEF x, s2
<1>4. ASSUME NEW i \in OwnLines(f, t) PROVE i \in 1 .. n /\ f[i][1][2] \in 1 .. m /\ f[i][1][2] < m
  <2>1. i \in 1 .. n
    BY DEF OwnLines
  <2>2. f[i][3] \in Outcome
    BY <2>1
  <2>3. f[i][3] # "calling"
    BY <2>2 DEF Outcome
  <2>4. f[i][1][2] # m
    BY <1>1, <2>3
  <2> QED
    BY <1>1, <2>1, <2>4
<1>5. \A k \in 1 .. m : s2[k] # "calling"
  BY <1>1, <1>2, <1>3
<1>6. /\ \A i \in OwnLines(f, t) : g[i] = f[i]
      /\ OwnLines(g, t) = OwnLines(f, t) \cup (IF outcome # "failed" THEN {n + 1} ELSE {})
      /\ outcome # "failed" => g[n + 1] = x
  <2>1. CASE outcome = "failed"
    BY <2>1 DEF Reaches
  <2>2. CASE outcome # "failed"
    <3>1. g = Append(f, x)
      BY <2>2 DEF Reaches
    <3>2. x[1][1] = t
      BY <1>1
    <3>3. /\ g[n + 1] = x /\ \A i \in 1 .. n : g[i] = f[i]
          /\ OwnLines(g, t) = OwnLines(f, t) \cup (IF x[1][1] = t THEN {n + 1} ELSE {})
      BY <1>1, <3>1, OneMoreLine
    <3> HIDE DEF g, n
    <3> QED
      BY <1>4, <2>2, <3>2, <3>3
  <2> QED
    BY <2>1, <2>2
<1> HIDE DEF g, n, m
<1>7. ASSUME NEW i \in OwnLines(g, t) PROVE g[i][1][2] \in 1 .. m /\ s2[g[i][1][2]] = g[i][3]
  <2>1. CASE i \in OwnLines(f, t)
    <3>1. PICK k : k = f[i][1][2]
      OBVIOUS
    <3>2. k \in 1 .. m /\ k < m /\ s[k] = f[i][3] /\ g[i] = f[i] /\ m \in Nat
      BY <1>1, <1>4, <1>6, <2>1, <3>1
    <3>3. k # m
      BY <3>2
    <3>4. s2[k] = s[k]
      BY <1>3, <3>2, <3>3
    <3> QED
      BY <3>1, <3>2, <3>4
  <2>2. CASE i \notin OwnLines(f, t)
    BY <1>1, <1>3, <1>6, <2>2
  <2> QED
    BY <2>1, <2>2
<1>8. ASSUME NEW i \in OwnLines(g, t), NEW j \in OwnLines(g, t), i < j PROVE g[i][1][2] < g[j][1][2]
  <2>1. CASE i \in OwnLines(f, t) /\ j \in OwnLines(f, t)
    BY <1>1, <1>6, <1>8, <2>1
  <2>2. CASE i \in OwnLines(f, t) /\ j \notin OwnLines(f, t)
    <3>1. j = n + 1 /\ g[j] = x
      BY <1>6, <2>2
    <3> QED
      BY <1>1, <1>4, <1>6, <2>2, <3>1
  <2>3. CASE i \notin OwnLines(f, t)
    <3>1. i = n + 1
      BY <1>6, <2>3
    <3>2. j \in 1 .. n \/ j = n + 1
      BY <1>4, <1>6
    <3>3. ~ (i < j)
      BY <1>1, <3>1, <3>2
    <3> QED
      BY <1>8, <3>3
  <2> QED
    BY <2>1, <2>2, <2>3
<1>9. ASSUME NEW k \in 1 .. m, s2[k] \in {"whole", "short"} PROVE \E i \in OwnLines(g, t) : g[i][1][2] = k
  <2>1. CASE k = m
    <3>1. outcome # "failed"
      BY <1>2, <1>3, <1>9, <2>1
    <3>2. n + 1 \in OwnLines(g, t) /\ g[n + 1][1][2] = m
      BY <1>1, <1>6, <3>1
    <3> QED
      BY <2>1, <3>2
  <2>2. CASE k # m
    <3>1. s[k] \in {"whole", "short"}
      BY <1>3, <1>9, <2>2
    <3>2. PICK i \in OwnLines(f, t) : f[i][1][2] = k
      BY <1>1, <3>1
    <3> QED
      BY <1>6, <3>2
  <2> QED
    BY <2>1, <2>2
<1>10. ~Logging("run")
  BY DEF Logging
<1>11. FileAt(t, g, "run", l, s2)
  BY <1>1, <1>3, <1>5, <1>7, <1>8, <1>9, <1>10 DEF FileAt
<1> QED
  BY <1>3, <1>11 DEF g, s2, x

\* Another thread writes a line.
LEMMA OtherWritten ==
  ASSUME NEW t, NEW f \in Seq(Line \X Line \X Outcome), NEW x \in Line \X Line \X Outcome, x[1][1] # t,
         NEW outcome, NEW where, NEW l, NEW s, FileAt(t, f, where, l, s)
  PROVE  FileAt(t, Reaches(f, x, outcome), where, l, s)
<1> DEFINE g == Reaches(f, x, outcome)
<1>1. OwnLines(g, t) = OwnLines(f, t) /\ \A i \in OwnLines(f, t) : g[i] = f[i]
  <2>1. CASE g = f
    BY <2>1
  <2>2. CASE g = Append(f, x)
    <3>1. /\ \A i \in 1 .. Len(f) : g[i] = f[i]
          /\ \A i \in OwnLines(f, t) : i \in 1 .. Len(f)
          /\ OwnLines(g, t) = OwnLines(f, t) \cup (IF x[1][1] = t THEN {Len(f) + 1} ELSE {})
      BY <2>2, OneMoreLine
    <3> QED
      BY <3>1
  <2> QED
    BY <2>1, <2>2 DEF Reaches
<1> HIDE DEF g
<1>2. FileAt(t, g, where, l, s)
  BY <1>1 DEF FileAt
<1> QED
  BY <1>2 DEF g

\* Thread t goes on with its line, or without one.
LEMMA LineStays ==
  ASSUME NEW t, NEW f, NEW where, NEW l, NEW s, FileAt(t, f, where, l, s), NEW where2,
         Logging(where2) <=> Logging(where)
  PROVE  FileAt(t, f, where2, l, s)
BY DEF FileAt

(* The pool and its log. *)

\* What is said of the pool and its log, and of the caches.
PoolLogInv ==
    /\ uses \in {"LogNonCache", "LogCache"} /\ level \in Level /\ owner \in Thread \cup {0}
    /\ destBuf \in Line \X Line /\ file \in Seq(Line \X Line \X Outcome)
    /\ started \in 0 .. PoolSize
    /\ main \in {"new", "created", "started", "joined", "threw", "crashed"}
    /\ status \in [Thread -> {"NEW", "UNBLOCKED"}]
    /\ doing \in [Thread -> {"none", "run", "lock", "prefix", "message", "write", "done"}]
    /\ line \in [Thread -> Line] /\ said \in [Thread -> Seq(Returned)]
    /\ StartInv /\ BufferInv /\ FileInv

CacheInv ==
    /\ alive \in [Process -> {"unborn", "running", "exited", "killed"}]
    /\ cache \in [Process -> Seq(Process \X Nat)]
    /\ tried \in [Process -> Seq(Tried)] /\ written \in [Process -> Seq(Tried)]
    /\ inherited \in Seq(Process \X Nat)
    /\ next \in [Process -> Nat] /\ cached \in [Process -> Nat] /\ leaving \in [Process -> BOOLEAN]
    /\ CachesInv

LEMMA LogsParts == LogsInv <=> PoolLogInv /\ CacheInv
BY DEF LogsInv, LogsTypeInv, PoolLogInv, CacheInv

LEMMA PoolLogStays ==
  ASSUME PoolLogInv, UNCHANGED <<nonCacheVars, poolVars>>
  PROVE  PoolLogInv'
<1>1. /\ uses' = uses /\ level' = level /\ owner' = owner /\ destBuf' = destBuf /\ file' = file
      /\ started' = started /\ main' = main /\ status' = status /\ doing' = doing
      /\ line' = line /\ said' = said
  BY DEF nonCacheVars, poolVars
<1> QED
  BY <1>1 DEF PoolLogInv, StartInv, BufferInv, FileInv

\* A step of the main thread that starts a thread, ends Start or Join, or sets the level.
LEMMA StartKeeps ==
  ASSUME PoolLogInv, DetachFirst \/ CreateFails \/ SetStatus \/ Join \/ SetLevel
  PROVE  PoolLogInv'
<1>1. /\ uses' = uses /\ owner' = owner /\ destBuf' = destBuf /\ file' = file
      /\ started' = started /\ doing' = doing /\ line' = line /\ said' = said /\ level' \in Level
  BY DEF DetachFirst, CreateFails, SetStatus, Join, SetLevel, nonCacheVars, poolVars, PoolLogInv
<1>2. BufferInv' /\ FileInv'
  BY <1>1 DEF PoolLogInv, BufferInv, FileInv
<1>3. /\ main' \in {"new", "created", "started", "joined", "threw", "crashed"}
      /\ status' \in [Thread -> {"NEW", "UNBLOCKED"}] /\ StartInv'
  <2>1. CASE SetLevel
    BY <1>1, <2>1 DEF SetLevel, poolVars, PoolLogInv, StartInv
  <2>2. CASE Join
    <3>1. main = "started" /\ main' = "joined" /\ status' = status /\ \A t \in Thread : doing[t] = "done"
      BY <2>2 DEF Join, Joined, MainAt
    <3> QED
      BY <1>1, <3>1 DEF PoolLogInv, StartInv
  <2>3. CASE DetachFirst \/ CreateFails
    <3>1. main = "new" /\ main' \in {"threw", "crashed"} /\ status' = status
      BY <2>3 DEF DetachFirst, CreateFails, MainAt
    <3> QED
      BY <1>1, <3>1 DEF PoolLogInv, StartInv
  <2>4. CASE SetStatus
    <3>1. /\ main = "created" /\ status' = [status EXCEPT ![started] = "UNBLOCKED"]
          /\ main' = IF started = PoolSize THEN "started" ELSE "new"
      BY <2>4 DEF SetStatus, MainAt
    <3>2. started \in Thread /\ status \in [Thread -> {"NEW", "UNBLOCKED"}]
      BY <3>1, LogsTypes DEF PoolLogInv, StartInv, Thread
    <3>3. status' \in [Thread -> {"NEW", "UNBLOCKED"}] /\ status'[started] = "UNBLOCKED"
          /\ \A t \in Thread : t # started => status'[t] = status[t]
      BY <3>1, <3>2
    <3>4. StartInv'
      BY <1>1, <3>1, <3>3 DEF PoolLogInv, StartInv
    <3> QED
      BY <3>1, <3>3, <3>4
  <2> QED
    BY <2>1, <2>2, <2>3, <2>4
<1> QED
  BY <1>1, <1>2, <1>3 DEF PoolLogInv

\* The next thread begins to run.
LEMMA CreateKeeps == ASSUME PoolLogInv, Create PROVE PoolLogInv'
<1>1. /\ uses' = uses /\ level' = level /\ owner' = owner /\ destBuf' = destBuf /\ file' = file
      /\ line' = line /\ said' = said /\ status' = status /\ main = "new" /\ main' = "created"
      /\ started < PoolSize /\ started' = started + 1 /\ doing' = [doing EXCEPT ![started + 1] = "run"]
  BY DEF Create, MainAt, nonCacheVars
<1> DEFINE n == started + 1
<1>2. started \in Nat /\ n \in Thread /\ n \in 0 .. PoolSize /\ n > started
  BY <1>1, LogsTypes DEF PoolLogInv, Thread
<1>3. doing \in [Thread -> {"none", "run", "lock", "prefix", "message", "write", "done"}]
  BY DEF PoolLogInv
<1>4. doing[n] = "none"
  <2>1. ~ (n <= started)
    BY <1>2
  <2> QED
    BY <1>2, <1>3, <2>1 DEF PoolLogInv, StartInv
<1>5. started' = n /\ doing' = [doing EXCEPT ![n] = "run"]
  BY <1>1
<1>9. \A t \in Thread : t # n => (t <= started <=> t <= n) /\ (t < n <=> t < started \/ t = started)
  BY <1>2, LogsTypes
<1> HIDE DEF n
<1>6. /\ doing' \in [Thread -> {"none", "run", "lock", "prefix", "message", "write", "done"}]
      /\ doing'[n] = "run" /\ \A t \in Thread : t # n => doing'[t] = doing[t]
  BY <1>2, <1>3, <1>5
<1>7. StartInv'
  <2>1. /\ main' = "created" /\ main = "new" /\ started' = n /\ status' = status /\ n > 0 /\ n <= n /\ ~ (n < n)
    BY <1>1, <1>2, <1>5
  <2>2. ASSUME NEW t \in Thread
        PROVE  /\ doing'[t] # "none" <=> t <= n
               /\ t < n => status[t] = "UNBLOCKED"
    <3>1. CASE t = n
      BY <1>6, <2>1, <3>1
    <3>2. CASE t # n
      BY <1>6, <1>9, <2>1, <3>2 DEF PoolLogInv, StartInv
    <3> QED
      BY <3>1, <3>2
  <2> QED
    BY <2>1, <2>2 DEF StartInv
<1>8. BufferInv'
  <2>1. \A t \in Thread : doing'[t] = doing[t] \/ (doing[t] = "none" /\ doing'[t] = "run")
    BY <1>4, <1>6
  <2> QED
    BY <1>1, <2>1 DEF PoolLogInv, BufferInv
<1>10. FileInv'
  <2>1. ASSUME NEW t \in Thread PROVE FileAt(t, file, doing'[t], line[t], said[t])
    <3>1. FileAt(t, file, doing[t], line[t], said[t])
      BY DEF PoolLogInv, FileInv
    <3>2. Logging(doing'[t]) <=> Logging(doing[t])
      BY <1>4, <1>6 DEF Logging
    <3> QED
      BY <3>1, <3>2, LineStays
  <2> QED
    BY <1>1, <2>1 DEF PoolLogInv, FileInv
<1> QED
  BY <1>1, <1>2, <1>5, <1>6, <1>7, <1>8, <1>10 DEF PoolLogInv

\* A step of a running thread t: it goes to another place, and the rest of the pool stays.
ThreadMoves(t, from, to) ==
    /\ doing[t] = from /\ doing' = [doing EXCEPT ![t] = to]
    /\ UNCHANGED <<uses, level, started, main, status>>

LEMMA ThreadMoved ==
  ASSUME PoolLogInv, NEW t \in Thread,
         NEW from \in {"run", "lock", "prefix", "message", "write"},
         NEW to \in {"run", "lock", "prefix", "message", "write", "done"},
         ThreadMoves(t, from, to)
  PROVE  /\ doing' \in [Thread -> {"none", "run", "lock", "prefix", "message", "write", "done"}]
         /\ doing'[t] = to /\ \A u \in Thread : u # t => doing'[u] = doing[u]
         /\ StartInv'
<1>1. /\ doing \in [Thread -> {"none", "run", "lock", "prefix", "message", "write", "done"}]
      /\ doing[t] = from /\ doing' = [doing EXCEPT ![t] = to]
      /\ started' = started /\ main' = main /\ status' = status
  BY DEF ThreadMoves, PoolLogInv
<1>2. /\ doing' \in [Thread -> {"none", "run", "lock", "prefix", "message", "write", "done"}]
      /\ doing'[t] = to /\ \A u \in Thread : u # t => doing'[u] = doing[u]
  BY <1>1
<1>3. main # "joined"
  BY <1>1 DEF PoolLogInv, StartInv
<1>4. \A u \in Thread : doing'[u] # "none" <=> doing[u] # "none"
  BY <1>1, <1>2
<1>5. StartInv'
  BY <1>1, <1>3, <1>4 DEF PoolLogInv, StartInv
<1> QED
  BY <1>2, <1>5

\* A call of Write begins: below the level it returns at once.
LEMMA WriteLogKeeps == ASSUME PoolLogInv, NEW t \in Thread, Write(t) PROVE PoolLogInv'
<1>1. /\ doing[t] = "run" /\ UNCHANGED <<uses, level, owner, destBuf, file, started, main, status>>
      /\ line' = [line EXCEPT ![t] = <<t, line[t][2] + 1>>]
  BY DEF Write, ThreadAt, nonCacheVars
<1>2. PICK outcome, where :
        /\ (outcome = "below" /\ where = "run") \/ (outcome = "calling" /\ where = "lock")
        /\ said' = [said EXCEPT ![t] = Append(said[t], outcome)]
        /\ doing' = [doing EXCEPT ![t] = where]
  <2>1. PICK run, lock, below, calling :
          /\ run = [doing EXCEPT ![t] = "run"] /\ lock = [doing EXCEPT ![t] = "lock"]
          /\ below = [said EXCEPT ![t] = Append(said[t], "below")]
          /\ calling = [said EXCEPT ![t] = Append(said[t], "calling")]
    OBVIOUS
  <2>2. doing = run
    BY <1>1, <2>1 DEF PoolLogInv
  <2>3. (said' = below /\ doing' = doing) \/ (said' = calling /\ doing' = lock)
    BY <2>1 DEF Write, Goes
  <2>4. CASE said' = below /\ doing' = doing
    <3>1. said' = below /\ doing' = run
      BY <2>2, <2>4
    <3> QED
      BY <2>1, <3>1
  <2>5. CASE said' = calling /\ doing' = lock
    BY <2>1, <2>5
  <2> QED
    BY <2>3, <2>4, <2>5
<1> DEFINE l == <<t, line[t][2] + 1>>
<1>3. l \in Line /\ line \in [Thread -> Line] /\ said \in [Thread -> Seq(Returned)]
  <2>1. t \in Nat /\ line \in [Thread -> Line] /\ said \in [Thread -> Seq(Returned)]
    BY LogsTypes DEF PoolLogInv
  <2>2. line[t][2] \in Nat
    BY <2>1 DEF Line
  <2>3. l \in Line
    BY <2>1, <2>2 DEF Line
  <2> QED
    BY <2>1, <2>3
<1>4. line' \in [Thread -> Line] /\ line'[t] = l /\ \A u \in Thread : u # t => line'[u] = line[u]
  BY <1>1, <1>3
<1>5. \A u \in Thread : FileAt(u, file, doing[u], line[u], said[u])
  BY DEF PoolLogInv, FileInv
<1>6. Append(said[t], outcome) \in Seq(Returned) /\ FileAt(t, file, where, l, Append(said[t], outcome))
  <2>1. FileAt(t, file, "run", line[t], said[t]) /\ said[t] \in Seq(Returned)
    BY <1>1, <1>3, <1>5
  <2> QED
    BY <1>2, <2>1, LineDecided
<1> HIDE DEF l
<1>7. said' \in [Thread -> Seq(Returned)] /\ said'[t] = Append(said[t], outcome)
      /\ \A u \in Thread : u # t => said'[u] = said[u]
  BY <1>2, <1>3, <1>6
<1>8. ThreadMoves(t, "run", where)
  BY <1>1, <1>2 DEF ThreadMoves
<1>9. /\ doing' \in [Thread -> {"none", "run", "lock", "prefix", "message", "write", "done"}]
      /\ doing'[t] = where /\ \A u \in Thread : u # t => doing'[u] = doing[u]
      /\ StartInv'
  <2>1. where \in {"run", "lock", "prefix", "message", "write", "done"}
    BY <1>2
  <2> QED
    BY <1>8, <2>1, ThreadMoved
<1>10. \A u \in Thread : FileAt(u, file, doing'[u], line'[u], said'[u])
  BY <1>4, <1>5, <1>6, <1>7, <1>9
<1>11. FileInv'
  BY <1>1, <1>10 DEF PoolLogInv, FileInv
<1>12. BufferInv'
  <2>1. where \notin {"prefix", "message", "write"} /\ doing[t] \notin {"prefix", "message", "write"}
    BY <1>1, <1>2
  <2> QED
    BY <1>1, <1>4, <1>9, <2>1 DEF PoolLogInv, BufferInv
<1> QED
  BY <1>1, <1>4, <1>7, <1>9, <1>11, <1>12 DEF PoolLogInv

\* A thread takes the mutex, fills the buffer, or ends.
LEMMA BufferKeeps ==
  ASSUME PoolLogInv, NEW t \in Thread, LockBuffer(t) \/ Prefix(t) \/ Message(t) \/ ThreadEnds(t)
  PROVE  PoolLogInv'
<1>1. /\ UNCHANGED <<uses, level, file, started, main, status, line, said>>
      /\ \/ /\ doing[t] = "lock" /\ doing' = [doing EXCEPT ![t] = "prefix"]
            /\ owner = 0 /\ owner' = t /\ destBuf' = <<NoLine, NoLine>>
         \/ /\ doing[t] = "prefix" /\ doing' = [doing EXCEPT ![t] = "message"]
            /\ owner' = owner /\ destBuf' = [destBuf EXCEPT ![1] = line[t]]
         \/ /\ doing[t] = "message" /\ doing' = [doing EXCEPT ![t] = "write"]
            /\ owner' = owner /\ destBuf' = [destBuf EXCEPT ![2] = line[t]]
         \/ /\ doing[t] = "run" /\ doing' = [doing EXCEPT ![t] = "done"]
            /\ owner' = owner /\ destBuf' = destBuf
  BY DEF LockBuffer, Prefix, Message, ThreadEnds, Goes, ThreadAt, nonCacheVars
<1>2. PICK from \in {"run", "lock", "prefix", "message", "write"},
           to \in {"run", "lock", "prefix", "message", "write", "done"} :
             ThreadMoves(t, from, to) /\ (Logging(from) <=> Logging(to))
  BY <1>1 DEF ThreadMoves, Logging
<1>3. /\ doing' \in [Thread -> {"none", "run", "lock", "prefix", "message", "write", "done"}]
      /\ doing'[t] = to /\ doing[t] = from /\ \A u \in Thread : u # t => doing'[u] = doing[u]
      /\ StartInv'
  BY <1>2, ThreadMoved DEF ThreadMoves
<1>4. ASSUME NEW u \in Thread PROVE FileAt(u, file, doing'[u], line[u], said[u])
  <2>1. FileAt(u, file, doing[u], line[u], said[u])
    BY DEF PoolLogInv, FileInv
  <2>2. Logging(doing'[u]) <=> Logging(doing[u])
    BY <1>2, <1>3
  <2> QED
    BY <2>1, <2>2, LineStays
<1>5. FileInv'
  BY <1>1, <1>4 DEF PoolLogInv, FileInv
<1>6. /\ owner' \in Thread \cup {0} /\ destBuf \in Line \X Line /\ line[t] \in Line
      /\ 0 \notin Thread /\ NoLine \in Line
  BY <1>1, LogsTypes DEF PoolLogInv
<1>7. destBuf' \in Line \X Line
  BY <1>1, <1>6
<1>8. BufferInv'
  <2>1. ASSUME NEW u \in Thread
        PROVE  /\ owner' = u <=> doing'[u] \in {"prefix", "message", "write"}
               /\ doing'[u] = "message" => destBuf'[1] = line[u]
               /\ doing'[u] = "write" => destBuf'[1] = line[u] /\ destBuf'[2] = line[u]
    <3>1. /\ owner = u <=> doing[u] \in {"prefix", "message", "write"}
          /\ doing[u] = "message" => destBuf[1] = line[u]
          /\ doing[u] = "write" => destBuf[1] = line[u] /\ destBuf[2] = line[u]
          /\ owner = t <=> doing[t] \in {"prefix", "message", "write"}
          /\ doing[t] = "message" => destBuf[1] = line[t]
      BY DEF PoolLogInv, BufferInv
    <3>2. CASE u = t
      <4>1. CASE doing[t] \in {"lock", "run"}
        BY <1>1, <1>3, <1>6, <3>1, <3>2, <4>1
      <4>2. CASE doing[t] = "prefix"
        <5>1. destBuf'[1] = line[t]
          BY <1>1, <1>6, <4>2
        <5> QED
          BY <1>1, <1>3, <3>1, <3>2, <4>2, <5>1
      <4>3. CASE doing[t] = "message"
        <5>1. destBuf'[1] = destBuf[1] /\ destBuf'[2] = line[t]
          BY <1>1, <1>6, <4>3
        <5>2. doing'[t] = "write"
          BY <1>1, <1>3, <4>3 DEF PoolLogInv
        <5> QED
          BY <1>1, <3>1, <3>2, <4>3, <5>1, <5>2
      <4> QED
        BY <1>1, <4>1, <4>2, <4>3
    <3>3. CASE u # t
      BY <1>1, <1>3, <1>6, <3>1, <3>3
    <3> QED
      BY <3>2, <3>3
  <2> QED
    BY <1>1, <2>1 DEF BufferInv
<1> QED
  BY <1>1, <1>3, <1>5, <1>6, <1>7, <1>8 DEF PoolLogInv

\* A line is written, and the mutex released.
LEMMA WriteOutKeeps == ASSUME PoolLogInv, NEW t \in Thread, WriteOut(t) PROVE PoolLogInv'
<1>1. /\ UNCHANGED <<uses, level, destBuf, started, main, status, line>>
      /\ doing[t] = "write" /\ doing' = [doing EXCEPT ![t] = "run"] /\ owner' = 0
  BY DEF WriteOut, Goes, ThreadAt
<1>2. PICK outcome \in Outcome :
        /\ file' = Reaches(file, <<destBuf[1], destBuf[2], outcome>>, outcome)
        /\ said' = [said EXCEPT ![t][line[t][2]] = outcome]
  BY DEF WriteOut
<1>3. /\ doing' \in [Thread -> {"none", "run", "lock", "prefix", "message", "write", "done"}]
      /\ doing'[t] = "run" /\ \A u \in Thread : u # t => doing'[u] = doing[u]
      /\ StartInv'
  <2>1. ThreadMoves(t, "write", "run")
    BY <1>1 DEF ThreadMoves
  <2> QED
    BY <2>1, ThreadMoved
<1>4. /\ owner = t /\ destBuf[1] = line[t] /\ destBuf[2] = line[t]
      /\ file \in Seq(Line \X Line \X Outcome) /\ line[t] \in Line /\ said \in [Thread -> Seq(Returned)]
  BY <1>1 DEF PoolLogInv, BufferInv
<1> DEFINE x == <<line[t], line[t], outcome>>
<1>5. x \in Line \X Line \X Outcome /\ file' = Reaches(file, x, outcome)
  BY <1>2, <1>4
<1>6. \A u \in Thread : FileAt(u, file, doing[u], line[u], said[u])
  BY DEF PoolLogInv, FileInv
<1>7. x[1] = line[t] /\ x[2] = line[t] /\ line[t][1] = t
  BY <1>1, <1>6 DEF FileAt, Logging
<1>8. /\ [said[t] EXCEPT ![line[t][2]] = outcome] \in Seq(Returned)
      /\ FileAt(t, file', "run", line[t], [said[t] EXCEPT ![line[t][2]] = outcome])
  <2>1. FileAt(t, file, "write", line[t], said[t]) /\ said[t] \in Seq(Returned)
    BY <1>1, <1>4, <1>6
  <2> QED
    BY <1>4, <1>5, <2>1, LineWritten
<1> HIDE DEF x
<1>9. /\ said' \in [Thread -> Seq(Returned)] /\ said'[t] = [said[t] EXCEPT ![line[t][2]] = outcome]
      /\ \A u \in Thread : u # t => said'[u] = said[u]
  BY <1>2, <1>4, <1>8
<1>10. ASSUME NEW u \in Thread PROVE FileAt(u, file', doing'[u], line[u], said'[u])
  <2>1. CASE u = t
    BY <1>3, <1>8, <1>9, <2>1
  <2>2. CASE u # t
    <3>1. x[1][1] # u
      BY <1>7, <2>2
    <3> QED
      BY <1>3, <1>4, <1>5, <1>6, <1>9, <2>2, <3>1, OtherWritten
  <2> QED
    BY <2>1, <2>2
<1>11. /\ file' \in Seq(Line \X Line \X Outcome)
       /\ \A i \in 1 .. Len(file') : file'[i][1] = file'[i][2] /\ file'[i][1][1] \in Thread
  <2>1. \A i \in 1 .. Len(file) : file[i][1] = file[i][2] /\ file[i][1][1] \in Thread
    BY DEF PoolLogInv, FileInv
  <2>2. CASE file' = file
    BY <1>4, <2>1, <2>2
  <2>3. CASE file' = Append(file, x)
    <3>1. /\ file' \in Seq(Line \X Line \X Outcome) /\ Len(file') = Len(file) + 1
          /\ file'[Len(file) + 1] = x /\ \A i \in 1 .. Len(file) : file'[i] = file[i]
      BY <1>4, <1>5, <2>3, AppendProperties
    <3>2. Len(file) \in Nat /\ \A i \in 1 .. Len(file) + 1 : i \in 1 .. Len(file) \/ i = Len(file) + 1
      BY <1>4
    <3> QED
      BY <1>7, <2>1, <3>1, <3>2
  <2> QED
    BY <1>5, <2>2, <2>3 DEF Reaches
<1>12. FileInv'
  BY <1>1, <1>10, <1>11 DEF FileInv
<1>13. BufferInv'
  <2>1. \A u \in Thread : u # t => doing[u] \notin {"prefix", "message", "write"}
    BY <1>4 DEF PoolLogInv, BufferInv
  <2> QED
    BY <1>1, <1>3, <2>1, LogsTypes DEF BufferInv
<1> QED
  BY <1>1, <1>3, <1>9, <1>11, <1>12, <1>13 DEF PoolLogInv

(* The caches. *)

\* A process that is killed says no more of its cache, and one that exits has none.
LEMMA CacheOfDead ==
  ASSUME NEW p, NEW first, NEW state, NEW c, NEW n, NEW k, NEW gone, NEW w,
         CacheAt(p, first, state, c, n, k, gone, w), NEW state2,
         state2 = "killed" \/ (state2 = "exited" /\ gone /\ n = 0)
  PROVE  CacheAt(p, first, state2, c, n, k, gone, w)
BY DEF CacheAt

\* One more line is logged: with the last place taken the cache is flushed.
LEMMA CacheGrows ==
  ASSUME NEW p \in Process, NEW first \in Seq(Process \X Nat), NEW state, NEW c \in Seq(Process \X Nat),
         NEW k \in Nat, NEW w \in Seq(Tried), state = "running",
         CacheAt(p, first, state, c, 0, k, FALSE, w),
         NEW n2, n2 = IF Len(Append(c, <<p, k + 1>>)) = MaxLoop THEN 1 ELSE 0
  PROVE  /\ Append(c, <<p, k + 1>>) \in Seq(Process \X Nat)
         /\ CacheAt(p, first, state, Append(c, <<p, k + 1>>), n2, k + 1, FALSE, w)
<1> DEFINE l  == <<p, k + 1>>
           c2 == Append(c, l)
           a  == Len(c)
           b  == Len(w)
           f  == Len(first)
<1>1. l \in Process \X Nat
  OBVIOUS
<1> HIDE DEF l
<1>2. /\ c2 \in Seq(Process \X Nat) /\ Len(c2) = a + 1 /\ c2[a + 1] = l
      /\ \A i \in 1 .. a : c2[i] = c[i]
  BY <1>1, AppendProperties
<1>3. n2 = IF Len(c2) = MaxLoop THEN 1 ELSE 0
  BY DEF l
<1>4. a \in Nat /\ b \in Nat /\ f \in Nat /\ MaxLoop \in Nat /\ MaxLoop >= 1
  BY LogsTypes
<1>5. /\ b + a = f + k + 0 /\ a < MaxLoop
      /\ \A i \in 1 .. b : w[i][1] = LineAt(p, first, i)
      /\ \A i \in 1 .. a : i > 0 => c[i] = LineAt(p, first, b + i - 0)
  BY <1>4 DEF CacheAt, Flushed
<1>6. LineAt(p, first, b + (a + 1)) = l
  <2> HIDE DEF a, b, f
  <2>1. b + (a + 1) > f /\ b + (a + 1) - f = k + 1
    BY <1>4, <1>5
  <2>2. ~ (b + (a + 1) <= f)
    BY <1>4, <2>1
  <2> DEFINE j == b + (a + 1)
  <2> HIDE DEF j
  <2>3. ~ (j <= Len(first)) /\ j - Len(first) = k + 1
    BY <1>4, <2>1, <2>2 DEF j, f
  <2>4. LineAt(p, first, j) = l
    BY <2>3 DEF LineAt, l
  <2> QED
    BY <2>4 DEF j
<1> HIDE DEF c2, a, b, f
<1>7. n2 \in {0, 1} /\ Flushed(n2) = 0 /\ n2 <= a + 1 /\ a + 1 <= MaxLoop /\ (n2 = 0 => a + 1 < MaxLoop)
  BY <1>2, <1>3, <1>4, <1>5 DEF Flushed
<1>8. ASSUME NEW i \in 1 .. a + 1 PROVE c2[i] = LineAt(p, first, b + i - 0)
  <2>1. CASE i = a + 1
    <3>1. b + i - 0 = b + (a + 1)
      BY <1>4, <2>1
    <3> QED
      BY <1>2, <1>6, <2>1, <3>1
  <2>2. CASE i # a + 1
    <3>1. i \in 1 .. a /\ i > 0
      BY <1>4, <2>2
    <3> QED
      BY <1>2, <1>5, <3>1
  <2> QED
    BY <2>1, <2>2
<1>9. b + (a + 1) = f + (k + 1) + 0
  BY <1>4, <1>5
<1>10. CacheAt(p, first, state, c2, n2, k + 1, FALSE, w)
  <2>1. Len(w) + Len(c2) = Len(first) + (k + 1) + Flushed(n2)
    BY <1>2, <1>7, <1>9 DEF b, f
  <2>2. \A i \in 1 .. Len(w) : w[i][1] = LineAt(p, first, i)
    BY <1>5 DEF b
  <2>3. \A i \in 1 .. Len(c2) : i > Flushed(n2) => c2[i] = LineAt(p, first, Len(w) + i - Flushed(n2))
    BY <1>2, <1>7, <1>8 DEF b
  <2>4. /\ Len(c2) <= MaxLoop /\ n2 <= Len(c2)
        /\ n2 = 0 => Len(c2) < MaxLoop
    BY <1>2, <1>7
  <2> QED
    BY <2>1, <2>2, <2>3, <2>4 DEF CacheAt
<1> QED
  BY <1>2, <1>10 DEF c2, l

\* Flush begins, by itself or in the destructor.
LEMMA CacheFlushBegins ==
  ASSUME NEW p, NEW first, NEW state, NEW c \in Seq(Process \X Nat), NEW k, NEW w,
         state = "running", CacheAt(p, first, state, c, 0, k, FALSE, w),
         NEW n2, NEW gone2 \in BOOLEAN,
         \/ n2 = 1 /\ c # <<>>
         \/ n2 = 0 /\ c = <<>>
  PROVE  CacheAt(p, first, state, c, n2, k, gone2, w)
<1>1. Len(c) \in Nat /\ (n2 = 1 => Len(c) >= 1) /\ (n2 = 0 => Len(c) = 0) /\ n2 \in {0, 1}
  BY EmptySeq
<1>2. Flushed(n2) = 0 /\ Flushed(0) = 0 /\ n2 <= Len(c)
  BY <1>1 DEF Flushed
<1> QED
  BY <1>1, <1>2 DEF CacheAt

\* One line is flushed; behind the last one the cache is empty.
LEMMA CacheLineFlushed ==
  ASSUME NEW p, NEW first \in Seq(Process \X Nat), NEW state, NEW c \in Seq(Process \X Nat), NEW n \in Nat, n > 0,
         NEW k \in Nat, NEW gone, NEW w \in Seq(Tried), state = "running", NEW outcome \in Outcome,
         CacheAt(p, first, state, c, n, k, gone, w)
  PROVE  /\ <<c[n], outcome>> \in Tried /\ Append(w, <<c[n], outcome>>) \in Seq(Tried)
         /\ n = Len(c) => CacheAt(p, first, state, <<>>, 0, k, gone, Append(w, <<c[n], outcome>>))
         /\ n # Len(c) => CacheAt(p, first, state, c, n + 1, k, gone, Append(w, <<c[n], outcome>>))
<1> DEFINE w2 == Append(w, <<c[n], outcome>>)
           a  == Len(c)
           b  == Len(w)
           f  == Len(first)
<1>1. a \in Nat /\ b \in Nat /\ f \in Nat /\ MaxLoop \in Nat /\ MaxLoop >= 1 /\ n <= a /\ a <= MaxLoop
  BY LogsTypes DEF CacheAt
<1>2. n \in 1 .. a /\ c[n] \in Process \X Nat /\ <<c[n], outcome>> \in Tried
  BY <1>1 DEF Tried
<1>3. /\ w2 \in Seq(Tried) /\ Len(w2) = b + 1 /\ w2[b + 1][1] = c[n]
      /\ \A i \in 1 .. b : w2[i] = w[i]
  BY <1>2, AppendProperties
<1>4. /\ b + a = f + k + (n - 1)
      /\ \A i \in 1 .. b : w[i][1] = LineAt(p, first, i)
      /\ \A i \in 1 .. a : i > n - 1 => c[i] = LineAt(p, first, b + i - (n - 1))
  <2>1. Flushed(n) = n - 1
    BY DEF Flushed
  <2> QED
    BY <2>1 DEF CacheAt
<1>5. c[n] = LineAt(p, first, b + 1)
  <2>1. n > n - 1 /\ b + n - (n - 1) = b + 1
    BY <1>1
  <2> QED
    BY <1>2, <1>4, <2>1
<1> HIDE DEF w2, a, b, f
<1>6. ASSUME NEW i \in 1 .. b + 1 PROVE w2[i][1] = LineAt(p, first, i)
  <2>1. CASE i = b + 1
    BY <1>3, <1>5, <2>1
  <2>2. CASE i # b + 1
    <3>1. i \in 1 .. b
      BY <1>1, <2>2
    <3> QED
      BY <1>3, <1>4, <3>1
  <2> QED
    BY <2>1, <2>2
<1>7. CASE n = a
  <2>1. Len(<< >>) = 0 /\ Flushed(0) = 0
    BY EmptySeq DEF Flushed
  <2>2. b + 1 + 0 = f + k + 0
    BY <1>1, <1>4, <1>7
  <2>3. CacheAt(p, first, state, <<>>, 0, k, gone, w2)
    BY <1>1, <1>3, <1>6, <2>1, <2>2 DEF CacheAt, f
  <2> QED
    BY <1>2, <1>3, <1>7, <2>3 DEF w2, a
<1>8. CASE n # a
  <2>1. Flushed(n + 1) = n /\ n + 1 # 0 /\ n + 1 <= a /\ b + 1 + a = f + k + n
    BY <1>1, <1>4, <1>8 DEF Flushed
  <2>2. ASSUME NEW i \in 1 .. a, i > n PROVE c[i] = LineAt(p, first, (b + 1) + i - n)
    <3>1. i > n - 1 /\ b + i - (n - 1) = (b + 1) + i - n
      BY <1>1, <2>2
    <3> QED
      BY <1>4, <3>1
  <2>3. CacheAt(p, first, state, c, n + 1, k, gone, w2)
    BY <1>1, <1>3, <1>6, <2>1, <2>2 DEF CacheAt, a, f
  <2> QED
    BY <1>2, <1>3, <1>8, <2>3 DEF w2, a
<1> QED
  BY <1>7, <1>8

\* The child begins with the lines that its parent has in its cache.
LEMMA CacheInherited ==
  ASSUME NEW p, NEW q, NEW first, NEW state, NEW c, Len(c) \in Nat, NEW k, NEW w, state = "running",
         CacheAt(p, first, state, c, 0, k, FALSE, w),
         NEW first2, NEW c2, NEW w2, NEW k2, NEW n2, NEW gone2, CacheAt(q, first2, "unborn", c2, n2, k2, gone2, w2)
  PROVE  CacheAt(q, c, "running", c, n2, k2, gone2, w2)
<1>1. Len(w2) = 0 /\ k2 = 0 /\ n2 = 0 /\ ~gone2
  BY DEF CacheAt
<1>2. Len(c) <= MaxLoop /\ Len(c) < MaxLoop /\ Flushed(0) = 0
  BY DEF CacheAt, Flushed
<1>3. ASSUME NEW i \in 1 .. Len(c) PROVE c[i] = LineAt(q, c, 0 + i - 0)
  <2>1. 0 + i - 0 = i /\ i <= Len(c)
    BY <1>3
  <2> QED
    BY <2>1 DEF LineAt
<1>4. \A i \in 1 .. Len(c) : i > Flushed(n2) => c[i] = LineAt(q, c, Len(w2) + i - Flushed(n2))
  BY <1>1, <1>2, <1>3
<1>5. /\ Len(w2) + Len(c) = Len(c) + k2 + Flushed(n2) /\ n2 <= Len(c)
      /\ \A i \in 1 .. Len(w2) : w2[i][1] = LineAt(q, c, i)
  BY <1>1, <1>2
<1>6. Len(c) <= MaxLoop /\ (n2 = 0 => Len(c) < MaxLoop) /\ (n2 = 0 /\ gone2 => Len(c) = 0)
  BY <1>1, <1>2
<1>7. "running" # "exited" /\ "running" # "unborn"
  OBVIOUS
<1> QED
  BY <1>4, <1>5, <1>6, <1>7, Zenon DEF CacheAt

\* The steps of one process change only what is its own.
CacheOnly(p) ==
    /\ UNCHANGED inherited
    /\ \A q \in Process : q # p => /\ alive'[q] = alive[q] /\ cache'[q] = cache[q] /\ next'[q] = next[q]
                                   /\ cached'[q] = cached[q] /\ leaving'[q] = leaving[q]
                                   /\ tried'[q] = tried[q] /\ written'[q] = written[q]

LEMMA AtProcess ==
  ASSUME CacheInv, NEW p \in Process
  PROVE  /\ CacheAt(p, Inherits(p), alive[p], cache[p], next[p], cached[p], leaving[p], tried[p])
         /\ Inherits(p) \in Seq(Process \X Nat) /\ cache[p] \in Seq(Process \X Nat)
         /\ tried[p] \in Seq(Tried) /\ written[p] \in Seq(Tried) /\ ComesThrough(tried[p], written[p])
         /\ next[p] \in Nat /\ cached[p] \in Nat /\ leaving[p] \in BOOLEAN
<1>1. << >> \in Seq(Process \X Nat)
  BY EmptySeq
<1> QED
  BY <1>1 DEF CacheInv, CachesInv, Inherits

LEMMA CachesStay == ASSUME CacheInv, UNCHANGED cacheVars PROVE CacheInv'
<1>1. /\ alive' = alive /\ cache' = cache /\ next' = next /\ cached' = cached /\ leaving' = leaving
      /\ inherited' = inherited /\ tried' = tried /\ written' = written
  BY DEF cacheVars
<1> QED
  BY <1>1 DEF CacheInv, CachesInv, Inherits

LEMMA ProcessKeeps ==
  ASSUME CacheInv, NEW p \in Process, CacheOnly(p),
         /\ alive' \in [Process -> {"unborn", "running", "exited", "killed"}]
         /\ cache' \in [Process -> Seq(Process \X Nat)]
         /\ tried' \in [Process -> Seq(Tried)] /\ written' \in [Process -> Seq(Tried)]
         /\ next' \in [Process -> Nat] /\ cached' \in [Process -> Nat] /\ leaving' \in [Process -> BOOLEAN],
         CacheAt(p, Inherits(p), alive'[p], cache'[p], next'[p], cached'[p], leaving'[p], tried'[p]),
         ComesThrough(tried'[p], written'[p])
  PROVE  CacheInv'
<1>1. inherited' = inherited /\ \A q : Inherits(q)' = Inherits(q)
  BY DEF CacheOnly, Inherits
<1>2. ASSUME NEW q \in Process
      PROVE  /\ CacheAt(q, Inherits(q), alive'[q], cache'[q], next'[q], cached'[q], leaving'[q], tried'[q])
             /\ ComesThrough(tried'[q], written'[q])
  <2>1. CASE q = p
    BY <2>1
  <2>2. CASE q # p
    BY <2>2, AtProcess DEF CacheOnly
  <2> QED
    BY <2>1, <2>2
<1>3. CachesInv'
  BY <1>1, <1>2 DEF CachesInv, Inherits
<1> QED
  BY <1>1, <1>3 DEF CacheInv

\* The process ends, killed or by itself.
LEMMA EndKeeps ==
  ASSUME CacheInv, NEW p \in Process, NEW state \in {"killed", "exited"},
         state = "exited" => leaving[p] /\ next[p] = 0,
         alive' = [alive EXCEPT ![p] = state], UNCHANGED <<cache, next, cached, leaving, inherited, tried, written>>
  PROVE  CacheInv'
<1>1. /\ alive' \in [Process -> {"unborn", "running", "exited", "killed"}] /\ alive'[p] = state
      /\ \A q \in Process : q # p => alive'[q] = alive[q]
  BY DEF CacheInv
<1>2. CacheOnly(p)
  BY <1>1 DEF CacheOnly
<1>3. /\ CacheAt(p, Inherits(p), state, cache[p], next[p], cached[p], leaving[p], tried[p])
      /\ ComesThrough(tried[p], written[p])
  BY AtProcess, CacheOfDead
<1> QED
  BY <1>1, <1>2, <1>3, ProcessKeeps DEF CacheInv

LEMMA CacheWriteKeeps == ASSUME CacheInv, NEW p \in Process, CacheWrite(p) PROVE CacheInv'
<1> DEFINE c  == Append(cache[p], <<p, cached[p] + 1>>)
           n  == IF Len(c) = MaxLoop THEN 1 ELSE 0
<1>1. /\ alive[p] = "running" /\ next[p] = 0 /\ leaving[p] = FALSE
      /\ UNCHANGED <<alive, leaving, inherited, tried, written>>
  BY AtProcess DEF CacheWrite, Free
<1>2. /\ cached \in [Process -> Nat] /\ cache \in [Process -> Seq(Process \X Nat)] /\ next \in [Process -> Nat]
      /\ cached' = [cached EXCEPT ![p] = cached[p] + 1]
      /\ cache' = [cache EXCEPT ![p] = Append(cache[p], <<p, cached'[p]>>)]
      /\ next' = [next EXCEPT ![p] = IF Len(cache'[p]) = MaxLoop THEN 1 ELSE 0]
  BY DEF CacheWrite, CacheInv
<1>3. c \in Seq(Process \X Nat) /\ CacheAt(p, Inherits(p), alive[p], c, n, cached[p] + 1, FALSE, tried[p])
  <2>1. CacheAt(p, Inherits(p), alive[p], cache[p], 0, cached[p], FALSE, tried[p])
    BY <1>1, AtProcess
  <2>2. PICK k, d : k = cached[p] /\ d = cache[p]
    OBVIOUS
  <2>3. n = IF Len(Append(d, <<p, k + 1>>)) = MaxLoop THEN 1 ELSE 0
    BY <2>2
  <2>4. c = Append(d, <<p, k + 1>>)
    BY <2>2
  <2> HIDE DEF c, n
  <2>5. /\ Inherits(p) \in Seq(Process \X Nat) /\ d \in Seq(Process \X Nat) /\ k \in Nat
        /\ tried[p] \in Seq(Tried) /\ CacheAt(p, Inherits(p), alive[p], d, 0, k, FALSE, tried[p])
    BY <2>1, <2>2, AtProcess
  <2>6. CacheAt(p, Inherits(p), alive[p], Append(d, <<p, k + 1>>), n, k + 1, FALSE, tried[p])
    BY <1>1, <2>3, <2>5, CacheGrows
  <2>7. Append(d, <<p, k + 1>>) \in Seq(Process \X Nat)
    BY <1>1, <2>3, <2>5, CacheGrows
  <2> QED
    BY <2>2, <2>4, <2>6, <2>7
<1>4. cached'[p] = cached[p] + 1
  BY <1>2
<1>5. cache' = [cache EXCEPT ![p] = c]
  BY <1>2, <1>4
<1>6. cache'[p] = c
  BY <1>2, <1>5
<1>7. next' = [next EXCEPT ![p] = n] /\ n \in Nat
  BY <1>2, <1>6
<1> HIDE DEF c, n
<1>8. /\ cache' \in [Process -> Seq(Process \X Nat)] /\ next' \in [Process -> Nat] /\ cached' \in [Process -> Nat]
      /\ next'[p] = n /\ cached'[p] = cached[p] + 1
      /\ \A q \in Process : q # p => cache'[q] = cache[q] /\ next'[q] = next[q] /\ cached'[q] = cached[q]
  BY <1>2, <1>3, <1>5, <1>7, AtProcess
<1>9. CacheOnly(p)
  BY <1>1, <1>8 DEF CacheOnly
<1>10. /\ CacheAt(p, Inherits(p), alive'[p], cache'[p], next'[p], cached'[p], leaving'[p], tried'[p])
       /\ ComesThrough(tried'[p], written'[p])
  BY <1>1, <1>3, <1>6, <1>8, AtProcess
<1> QED
  BY <1>1, <1>8, <1>9, <1>10, ProcessKeeps DEF CacheInv

LEMMA FlushKeeps == ASSUME CacheInv, NEW p \in Process, Flush(p) \/ Leave(p) PROVE CacheInv'
<1>1. /\ alive[p] = "running" /\ next[p] = 0 /\ leaving[p] = FALSE
      /\ UNCHANGED <<alive, cache, cached, inherited, tried, written>>
  BY AtProcess DEF Flush, Leave, Free
<1>2. PICK n \in {0, 1}, gone \in BOOLEAN :
         /\ (n = 1 /\ cache[p] # <<>>) \/ (n = 0 /\ cache[p] = <<>>)
         /\ next' = [next EXCEPT ![p] = n] /\ leaving' = [leaving EXCEPT ![p] = gone]
  <2>1. leaving = [leaving EXCEPT ![p] = leaving[p]]
    BY DEF CacheInv
  <2> QED
    BY <1>1, <2>1 DEF Flush, Leave
<1>3. CacheAt(p, Inherits(p), alive[p], cache[p], n, cached[p], gone, tried[p])
  <2>1. CacheAt(p, Inherits(p), alive[p], cache[p], 0, cached[p], FALSE, tried[p])
    BY <1>1, AtProcess
  <2>2. cache[p] \in Seq(Process \X Nat)
    BY AtProcess
  <2> QED
    BY <1>1, <1>2, <2>1, <2>2, CacheFlushBegins
<1>4. /\ next \in [Process -> Nat] /\ leaving \in [Process -> BOOLEAN]
  BY DEF CacheInv
<1>5. /\ next' \in [Process -> Nat] /\ leaving' \in [Process -> BOOLEAN] /\ next'[p] = n /\ leaving'[p] = gone
      /\ \A q \in Process : q # p => next'[q] = next[q] /\ leaving'[q] = leaving[q]
  BY <1>2, <1>4
<1>6. CacheOnly(p)
  BY <1>1, <1>5 DEF CacheOnly
<1>7. /\ CacheAt(p, Inherits(p), alive'[p], cache'[p], next'[p], cached'[p], leaving'[p], tried'[p])
      /\ ComesThrough(tried'[p], written'[p])
  BY <1>1, <1>3, <1>5, AtProcess
<1> QED
  BY <1>1, <1>5, <1>6, <1>7, ProcessKeeps DEF CacheInv

LEMMA FlushLineKeepsOrder == ASSUME CacheInv, NEW p \in Process, FlushLine(p) PROVE CacheInv'
<1>1. /\ alive[p] = "running" /\ next[p] > 0 /\ UNCHANGED <<alive, cached, leaving, inherited>>
  BY DEF FlushLine
<1>2. PICK outcome \in Outcome :
                  /\ tried' = [tried EXCEPT ![p] = Append(tried[p], <<cache[p][next[p]], outcome>>)]
                  /\ written' = [written EXCEPT ![p] = Reaches(written[p], <<cache[p][next[p]], outcome>>, outcome)]
  BY DEF FlushLine, LineTried
<1>3. PICK n, c : /\ next' = [next EXCEPT ![p] = n] /\ cache' = [cache EXCEPT ![p] = c]
                  /\ \/ next[p] = Len(cache[p]) /\ n = 0 /\ c = <<>>
                     \/ next[p] # Len(cache[p]) /\ n = next[p] + 1 /\ c = cache[p]
  <2>1. cache = [cache EXCEPT ![p] = cache[p]]
    BY DEF CacheInv
  <2> QED
    BY <2>1 DEF FlushLine
<1> DEFINE x == <<cache[p][next[p]], outcome>>
           w == Append(tried[p], x)
           f == Reaches(written[p], x, outcome)
<1>4. /\ x \in Tried /\ w \in Seq(Tried)
      /\ CacheAt(p, Inherits(p), alive[p], c, n, cached[p], leaving[p], w)
  <2>1. PICK d, m, k, gone, v : d = cache[p] /\ m = next[p] /\ k = cached[p] /\ gone = leaving[p] /\ v = tried[p]
    OBVIOUS
  <2>2. /\ d \in Seq(Process \X Nat) /\ m \in Nat /\ m > 0 /\ k \in Nat /\ v \in Seq(Tried)
        /\ Inherits(p) \in Seq(Process \X Nat) /\ CacheAt(p, Inherits(p), alive[p], d, m, k, gone, v)
    BY <1>1, <2>1, AtProcess
  <2>3. /\ <<d[m], outcome>> \in Tried /\ Append(v, <<d[m], outcome>>) \in Seq(Tried)
        /\ m = Len(d) => CacheAt(p, Inherits(p), alive[p], <<>>, 0, k, gone, Append(v, <<d[m], outcome>>))
        /\ m # Len(d) => CacheAt(p, Inherits(p), alive[p], d, m + 1, k, gone, Append(v, <<d[m], outcome>>))
    BY <1>1, <2>2, CacheLineFlushed
  <2>4. x = <<d[m], outcome>> /\ w = Append(v, <<d[m], outcome>>)
    BY <2>1
  <2> HIDE DEF x, w
  <2>5. CASE m = Len(d) /\ n = 0 /\ c = <<>>
    BY <2>1, <2>3, <2>4, <2>5
  <2>6. CASE m # Len(d) /\ n = m + 1 /\ c = d
    BY <2>1, <2>3, <2>4, <2>6
  <2> QED
    BY <1>3, <2>1, <2>5, <2>6
<1>5. f \in Seq(Tried) /\ ComesThrough(w, f)
  <2>1. x[2] = outcome /\ tried[p] \in Seq(Tried) /\ written[p] \in Seq(Tried) /\ ComesThrough(tried[p], written[p])
    BY AtProcess
  <2>2. f \in Seq(Tried)
    BY <1>4, <2>1, AppendProperties DEF Reaches
  <2> HIDE DEF x
  <2>3. ComesThrough(Append(tried[p], x), Reaches(written[p], x, x[2]))
    BY <1>4, <2>1, OneMoreWrite
  <2> QED
    BY <2>1, <2>2, <2>3
<1>6. /\ tried \in [Process -> Seq(Tried)] /\ tried' = [tried EXCEPT ![p] = w]
      /\ written \in [Process -> Seq(Tried)] /\ written' = [written EXCEPT ![p] = f]
  BY <1>2 DEF CacheInv
<1> HIDE DEF x, w, f
<1>7. n \in Nat /\ c \in Seq(Process \X Nat)
  <2>1. << >> \in Seq(Process \X Nat) /\ cache[p] \in Seq(Process \X Nat) /\ next[p] \in Nat
    BY AtProcess, EmptySeq
  <2>2. n = 0 \/ n = next[p] + 1
    BY <1>3
  <2>3. c = <<>> \/ c = cache[p]
    BY <1>3
  <2>4. n \in Nat
    BY <2>1, <2>2
  <2> QED
    BY <2>1, <2>3, <2>4
<1>8. /\ tried' \in [Process -> Seq(Tried)] /\ tried'[p] = w
      /\ written' \in [Process -> Seq(Tried)] /\ written'[p] = f
      /\ \A q \in Process : q # p => tried'[q] = tried[q] /\ written'[q] = written[q]
  BY <1>4, <1>5, <1>6
<1>9. /\ next' \in [Process -> Nat] /\ cache' \in [Process -> Seq(Process \X Nat)]
      /\ next'[p] = n /\ cache'[p] = c
      /\ \A q \in Process : q # p => next'[q] = next[q] /\ cache'[q] = cache[q]
  BY <1>3, <1>7 DEF CacheInv
<1>10. CacheOnly(p)
  BY <1>1, <1>8, <1>9 DEF CacheOnly
<1>11. /\ CacheAt(p, Inherits(p), alive'[p], cache'[p], next'[p], cached'[p], leaving'[p], tried'[p])
       /\ ComesThrough(tried'[p], written'[p])
  BY <1>1, <1>4, <1>5, <1>8, <1>9
<1> QED
  BY <1>1, <1>8, <1>9, <1>10, <1>11, ProcessKeeps DEF CacheInv

LEMMA ForkKeeps == ASSUME CacheInv, Fork PROVE CacheInv'
<1>1. /\ alive["parent"] = "running" /\ next["parent"] = 0 /\ leaving["parent"] = FALSE /\ alive["child"] = "unborn"
      /\ alive' = [alive EXCEPT !["child"] = "running"] /\ cache' = [cache EXCEPT !["child"] = cache["parent"]]
      /\ inherited' = cache["parent"] /\ UNCHANGED <<next, cached, leaving, tried, written>>
      /\ "parent" \in Process /\ "child" \in Process
  BY AtProcess DEF Fork, Free, Process
<1>2. /\ alive \in [Process -> {"unborn", "running", "exited", "killed"}]
      /\ cache \in [Process -> Seq(Process \X Nat)]
  BY DEF CacheInv
<1>3. /\ alive' \in [Process -> {"unborn", "running", "exited", "killed"}]
      /\ cache' \in [Process -> Seq(Process \X Nat)] /\ inherited' \in Seq(Process \X Nat)
      /\ alive'["child"] = "running" /\ cache'["child"] = cache["parent"]
      /\ alive'["parent"] = alive["parent"] /\ cache'["parent"] = cache["parent"]
  BY <1>1, <1>2
<1>4. Len(cache["parent"]) \in Nat
  BY <1>1, <1>2
<1>5. CacheAt("child", cache["parent"], "running", cache["parent"], next["child"], cached["child"], leaving["child"], tried["child"])
  <2>1. CacheAt("parent", Inherits("parent"), alive["parent"], cache["parent"], 0, cached["parent"], FALSE, tried["parent"])
    BY <1>1, AtProcess
  <2>2. CacheAt("child", Inherits("child"), "unborn", cache["child"], next["child"], cached["child"], leaving["child"], tried["child"])
    BY <1>1, AtProcess
  <2> QED
    BY <1>1, <1>4, <2>1, <2>2, CacheInherited
<1>6. CacheAt("parent", Inherits("parent"), alive["parent"], cache["parent"], next["parent"], cached["parent"], leaving["parent"], tried["parent"])
  BY <1>1, AtProcess
<1>7. /\ Inherits("child")' = cache["parent"] /\ Inherits("parent")' = Inherits("parent")
  BY <1>1 DEF Inherits
<1>8. CachesInv'
  <2>1. CacheAt("child", Inherits("child")', alive'["child"], cache'["child"], next'["child"], cached'["child"], leaving'["child"], tried'["child"])
    BY <1>1, <1>3, <1>5, <1>7
  <2>2. CacheAt("parent", Inherits("parent")', alive'["parent"], cache'["parent"], next'["parent"], cached'["parent"], leaving'["parent"], tried'["parent"])
    BY <1>1, <1>3, <1>6, <1>7
  <2>3. \A p \in Process : p = "parent" \/ p = "child"
    BY DEF Process
  <2>4. \A p \in Process : ComesThrough(tried'[p], written'[p])
    BY <1>1, AtProcess
  <2> QED
    BY <2>1, <2>2, <2>3, <2>4 DEF CachesInv, Inherits
<1> QED
  BY <1>1, <1>3, <1>8 DEF CacheInv

(* The whole. *)

LEMMA LogsStart == LogsInit => LogsInv
<1> SUFFICES ASSUME LogsInit PROVE LogsInv
  OBVIOUS
<1>1. /\ uses \in {"LogNonCache", "LogCache"} /\ level \in Level /\ owner = 0
      /\ destBuf = <<NoLine, NoLine>> /\ file = <<>> /\ started = 0 /\ main = "new"
      /\ status = [t \in Thread |-> "NEW"] /\ doing = [t \in Thread |-> "none"]
      /\ line = [t \in Thread |-> NoLine] /\ said = [t \in Thread |-> <<>>]
  BY DEF LogsInit, NonCacheInit, PoolInit, ThreadInit
<1>2. /\ \A S : << >> \in Seq(S)
      /\ Len(<< >>) = 0
  BY EmptySeq
<1>3. PoolLogInv
  <2>1. StartInv
    BY <1>1, LogsTypes DEF StartInv, Thread
  <2>2. BufferInv
    BY <1>1, LogsTypes DEF BufferInv
  <2>3. \A t : OwnLines(file, t) = {}
    BY <1>1, <1>2 DEF OwnLines
  <2>4. FileInv
    <3>1. \A t \in Thread : doing[t] = "none" /\ said[t] = <<>> /\ line[t] = NoLine
      BY <1>1
    <3>2. ~Logging("none") /\ NoLine[2] = 0
      BY DEF Logging, NoLine
    <3>3. ASSUME NEW t \in Thread PROVE FileAt(t, file, "none", NoLine, <<>>)
      <4>1. \A n \in 1 .. Len(<< >>) : FALSE
        BY <1>2
      <4> QED
        BY <1>2, <2>3, <3>2, <4>1 DEF FileAt
    <3>4. \A i \in 1 .. Len(file) : file[i][1] = file[i][2] /\ file[i][1][1] \in Thread
      BY <1>1, <1>2
    <3> QED
      BY <3>1, <3>3, <3>4 DEF FileInv
  <2>5. line \in [Thread -> Line] /\ said \in [Thread -> Seq(Returned)] /\ started \in 0 .. PoolSize
        /\ destBuf \in Line \X Line /\ file \in Seq(Line \X Line \X Outcome)
    BY <1>1, <1>2, LogsTypes
  <2> QED
    BY <1>1, <2>1, <2>2, <2>4, <2>5 DEF PoolLogInv
<1>4. /\ alive = [p \in Process |-> IF p = "parent" THEN "running" ELSE "unborn"]
      /\ cache = [p \in Process |-> <<>>] /\ next = [p \in Process |-> 0] /\ cached = [p \in Process |-> 0]
      /\ leaving = [p \in Process |-> FALSE] /\ inherited = <<>>
      /\ tried = [p \in Process |-> <<>>] /\ written = [p \in Process |-> <<>>]
  BY DEF LogsInit, CacheInit
<1>5. ASSUME NEW p \in Process
      PROVE  /\ CacheAt(p, Inherits(p), alive[p], cache[p], next[p], cached[p], leaving[p], tried[p])
             /\ ComesThrough(tried[p], written[p])
  <2>1. /\ cache[p] = <<>> /\ next[p] = 0 /\ cached[p] = 0 /\ leaving[p] = FALSE /\ tried[p] = <<>>
        /\ Inherits(p) = <<>> /\ alive[p] # "exited" /\ written[p] = <<>>
    BY <1>4 DEF Inherits
  <2>2. CacheAt(p, Inherits(p), alive[p], cache[p], next[p], cached[p], leaving[p], tried[p])
    BY <1>2, <2>1, LogsTypes DEF CacheAt, Flushed
  <2>3. Reached(<< >>) = {}
    BY <1>2 DEF Reached
  <2> QED
    BY <1>2, <2>1, <2>2, <2>3, FS_EmptySet DEF ComesThrough
<1>6. CacheInv
  <2>1. /\ cache \in [Process -> Seq(Process \X Nat)] /\ inherited \in Seq(Process \X Nat)
        /\ tried \in [Process -> Seq(Tried)] /\ written \in [Process -> Seq(Tried)]
    BY <1>2, <1>4
  <2> QED
    BY <1>4, <1>5, <2>1 DEF CacheInv, CachesInv
<1> QED
  BY <1>3, <1>6, LogsParts

LEMMA LogsStep == LogsInv /\ [LogsNext]_logsVars => LogsInv'
<1> SUFFICES ASSUME LogsInv, [LogsNext]_logsVars PROVE PoolLogInv' /\ CacheInv'
  BY LogsParts DEF LogsInv, LogsTypeInv, PoolLogInv, CacheInv
<1>1. PoolLogInv /\ CacheInv
  BY LogsParts
<1>2. CASE DetachFirst
  <2>1. /\ "parent" \in Process /\ alive' = [alive EXCEPT !["parent"] = "killed"]
        /\ UNCHANGED <<cache, next, cached, leaving, inherited, tried, written>>
    BY <1>2 DEF DetachFirst, Process
  <2> QED
    BY <1>1, <1>2, <2>1, StartKeeps, EndKeeps
<1>3. CASE CreateFails \/ SetStatus \/ Join \/ SetLevel
  <2>1. UNCHANGED cacheVars
    BY <1>3 DEF CreateFails, SetStatus, Join, SetLevel
  <2> QED
    BY <1>1, <1>3, <2>1, StartKeeps, CachesStay
<1>4. CASE Create
  BY <1>1, <1>4, CreateKeeps, CachesStay DEF Create
<1>5. ASSUME NEW t \in Thread, Write(t) PROVE PoolLogInv' /\ CacheInv'
  BY <1>1, <1>5, WriteLogKeeps, CachesStay DEF Write
<1>6. ASSUME NEW t \in Thread, ThreadStep(t) \/ ThreadEnds(t) PROVE PoolLogInv' /\ CacheInv'
  <2>1. UNCHANGED cacheVars
    BY <1>6 DEF ThreadStep, LockBuffer, Prefix, Message, WriteOut, ThreadEnds
  <2> QED
    BY <1>1, <1>6, <2>1, BufferKeeps, WriteOutKeeps, CachesStay DEF ThreadStep
<1>7. ASSUME NEW p \in Process, CacheWrite(p) \/ Flush(p) \/ FlushLine(p) \/ Leave(p) \/ Exit(p) \/ KillProcess(p)
      PROVE  PoolLogInv' /\ CacheInv'
  <2>1. UNCHANGED <<nonCacheVars, poolVars>>
    BY <1>7 DEF CacheWrite, Flush, FlushLine, Leave, Exit, KillProcess
  <2>2. Exit(p) => leaving[p] /\ next[p] = 0 /\ alive' = [alive EXCEPT ![p] = "exited"]
                   /\ UNCHANGED <<cache, next, cached, leaving, inherited, tried, written>>
    BY DEF Exit
  <2>3. KillProcess(p) => alive' = [alive EXCEPT ![p] = "killed"]
                          /\ UNCHANGED <<cache, next, cached, leaving, inherited, tried, written>>
    BY DEF KillProcess
  <2>4. Exit(p) \/ KillProcess(p) => CacheInv'
    BY <1>1, <2>2, <2>3, EndKeeps
  <2> QED
    BY <1>1, <1>7, <2>1, <2>4, PoolLogStays, CacheWriteKeeps, FlushKeeps, FlushLineKeepsOrder
<1>8. CASE Fork
  BY <1>1, <1>8, PoolLogStays, ForkKeeps DEF Fork
<1>9. CASE UNCHANGED logsVars
  BY <1>1, <1>9, PoolLogStays, CachesStay DEF logsVars
<1> QED
  BY <1>2, <1>3, <1>4, <1>5, <1>6, <1>7, <1>8, <1>9 DEF LogsNext, MainStep

LEMMA LogsInvariant == LogsSpec => []LogsInv
<1> QED
  BY LogsStart, LogsStep, PTL DEF LogsSpec

\* The lines of a process, one by one.
LEMMA LinesAt ==
  ASSUME CacheInv, NEW p \in Process
  PROVE  /\ Len(Lines(p)) = Len(Inherits(p)) + cached[p]
         /\ \A i \in 1 .. Len(Lines(p)) : Lines(p)[i] = LineAt(p, Inherits(p), i)
<1>1. PICK k, first, own : k = cached[p] /\ first = Inherits(p) /\ own = [i \in 1 .. k |-> <<p, i>>]
  OBVIOUS
<1>2. k \in Nat /\ first \in Seq(Process \X Nat)
  BY <1>1, AtProcess
<1>3. own \in Seq(Process \X Nat) /\ Len(own) = k
  <2>1. own \in [1 .. k -> Process \X Nat]
    BY <1>1, <1>2
  <2>2. own \in Seq(Process \X Nat)
    BY <1>2, <2>1
  <2> QED
    BY <1>2, <2>1, <2>2, LenProperties
<1>4. Lines(p) = first \o own
  BY <1>1 DEF Lines, Inherits
<1>5. PICK f, all : f = Len(first) /\ f \in Nat /\ all = first \o own
  BY <1>2, LenProperties
<1>6. Len(all) = f + k /\ \A i \in 1 .. f + k : all[i] = IF i <= f THEN first[i] ELSE own[i - f]
  BY <1>2, <1>3, <1>5, ConcatProperties
<1>7. ASSUME NEW i \in 1 .. f + k PROVE all[i] = LineAt(p, first, i)
  <2>1. CASE i <= f
    BY <1>5, <1>6, <2>1 DEF LineAt
  <2>2. CASE ~ (i <= f)
    <3>1. i - f \in 1 .. k
      BY <1>2, <1>5, <2>2
    <3> QED
      BY <1>1, <1>5, <1>6, <2>2, <3>1 DEF LineAt
  <2> QED
    BY <2>1, <2>2
<1> QED
  BY <1>1, <1>4, <1>5, <1>6, <1>7

\* What the files of the processes have of their lines.
LEMMA CacheShows ==
  ASSUME CacheInv, NEW p \in Process
  PROVE  /\ Len(tried[p]) + Len(cache[p]) = Len(Lines(p)) + (IF next[p] > 0 THEN next[p] - 1 ELSE 0)
         /\ \A k \in 1 .. Len(tried[p]) : tried[p][k][1] = Lines(p)[k]
         /\ Len(written[p]) = Cardinality(Reached(tried[p]))
         /\ \A k \in Reached(tried[p]) : written[p][Rank(tried[p], k)] = tried[p][k]
         /\ alive[p] = "exited" => Lost(p) = {}
         /\ \A k \in Lost(p) : k + MaxLoop > Len(Lines(p))
<1>1. PICK w, f, a, b, m, l : /\ w = tried[p] /\ f = written[p] /\ a = Len(cache[p]) /\ b = Len(w)
                              /\ m = next[p] /\ l = Len(Lines(p))
  OBVIOUS
<1>2. /\ CacheAt(p, Inherits(p), alive[p], cache[p], m, cached[p], leaving[p], w)
      /\ w \in Seq(Tried) /\ f \in Seq(Tried) /\ ComesThrough(w, f)
      /\ a \in Nat /\ b \in Nat /\ l \in Nat /\ m \in Nat /\ MaxLoop \in Nat /\ MaxLoop >= 1
  <2>1. cached[p] \in Nat /\ Len(Inherits(p)) \in Nat /\ Len(cache[p]) \in Nat /\ Len(tried[p]) \in Nat
    BY AtProcess, LenProperties
  <2>2. Len(Lines(p)) \in Nat
    BY <2>1, LinesAt
  <2> QED
    BY <1>1, <2>1, <2>2, AtProcess, LogsTypes
<1>3. Flushed(m) = (IF m > 0 THEN m - 1 ELSE 0) /\ Flushed(m) \in Nat
  BY <1>2 DEF Flushed
<1>4. /\ b + a = l + Flushed(m) /\ a <= MaxLoop /\ m <= a
      /\ \A i \in 1 .. b : w[i][1] = LineAt(p, Inherits(p), i)
      /\ m = 0 /\ leaving[p] => a = 0
      /\ alive[p] = "exited" => leaving[p] /\ m = 0
  BY <1>1, <1>2, LinesAt DEF CacheAt
<1>5. b <= l /\ b + MaxLoop >= l /\ (alive[p] = "exited" => b = l)
  <2>1. PICK n : n = Flushed(m)
    OBVIOUS
  <2>2. n \in Nat /\ n <= a /\ b + a = l + n /\ (m = 0 => n = 0)
    BY <1>2, <1>3, <1>4, <2>1
  <2>3. b <= l /\ b + MaxLoop >= l
    BY <1>2, <1>4, <2>2
  <2>4. alive[p] = "exited" => a = 0 /\ n = 0
    BY <1>4, <2>2
  <2> QED
    BY <1>2, <2>2, <2>3, <2>4
<1>6. \A k \in 1 .. b : w[k][1] = Lines(p)[k]
  <2>1. \A k \in 1 .. b : k \in 1 .. l
    BY <1>2, <1>5
  <2> QED
    BY <1>1, <1>4, <2>1, LinesAt
<1>7. Len(f) = Cardinality(Reached(w)) /\ \A k \in Reached(w) : f[Rank(w, k)] = w[k]
  BY <1>2 DEF ComesThrough
<1>8. ASSUME NEW k \in 1 .. b, w[k][2] = "whole"
      PROVE  \E i \in 1 .. Len(f) : f[i] = <<Lines(p)[k], "whole">>
  <2>1. k \in Reached(w)
    BY <1>1, <1>8 DEF Reached
  <2>2. Rank(w, k) \in 1 .. Len(f) /\ f[Rank(w, k)] = w[k]
    BY <1>1, <1>2, <1>7, <2>1, RankBounds
  <2>3. w[k] \in (Process \X Nat) \X Outcome
    BY <1>1, <1>2 DEF Tried
  <2>4. w[k] = <<w[k][1], w[k][2]>>
    BY <2>3
  <2>5. w[k] = <<Lines(p)[k], "whole">>
    BY <1>6, <1>8, <2>4
  <2> QED
    BY <2>2, <2>5
<1>9. ASSUME NEW k \in Lost(p) PROVE k \in 1 .. l /\ k > b
  <2>1. /\ k \in 1 .. l /\ (k > b \/ w[k][2] = "whole")
        /\ ~ \E i \in 1 .. Len(f) : f[i] = <<Lines(p)[k], "whole">>
    BY <1>1 DEF Lost
  <2>2. k \in 1 .. b \/ k > b
    BY <1>2, <2>1
  <2> QED
    BY <1>8, <2>1, <2>2
<1>10. \A k \in Lost(p) : k + MaxLoop > l
  BY <1>2, <1>5, <1>9
<1>11. alive[p] = "exited" => Lost(p) = {}
  BY <1>2, <1>5, <1>9
<1> QED
  BY <1>1, <1>3, <1>4, <1>6, <1>7, <1>10, <1>11

\* The log's mutex belongs to the thread in the buffer, the threads that run are those that
\* were started, and a LogCache gives the lines of its process to write in their order and
\* once.  Besides those whose write failed or was short, which it does not notice, a process
\* that ends has lost none, and one that is killed some of its last MaxLoop.
THEOREM LogsCorrect == LogsSpec => []LogsOK
<1>1. LogsInv => LogsOK
  <2> SUFFICES ASSUME LogsInv PROVE LogsOK
    OBVIOUS
  <2>1. PoolLogInv /\ CacheInv
    BY LogsParts
  <2>2. CacheInOrder
    BY <2>1, CacheShows DEF CacheInOrder
  <2>3. LossBounded
    BY <2>1, CacheShows DEF LossBounded
  <2>4. \A p \in Process : Len(cache[p]) <= MaxLoop /\ next[p] <= Len(cache[p])
    BY <2>1, AtProcess DEF CacheAt
  <2>5. /\ level \in Level /\ owner \in Thread \cup {0}
        /\ \A t \in Thread : owner = t <=> doing[t] \in {"prefix", "message", "write"}
        /\ \A t \in Thread : doing[t] # "none" <=> t <= started
    BY <2>1 DEF PoolLogInv, StartInv, BufferInv
  <2> QED
    BY <2>2, <2>3, <2>4, <2>5 DEF LogsOK
<1> QED
  BY <1>1, LogsInvariant, PTL

\* Every line of a LogNonCache is one call's, from its prefix to its message, and that call
\* returned what became of its write; the lines of a thread are there once and in order,
\* for any number of threads that share the buffer.
THEOREM LinesAreWhole == LogsSpec => []LinesWhole
<1>1. LogsInv => LinesWhole
  <2> SUFFICES ASSUME LogsInv PROVE LinesWhole
    OBVIOUS
  <2>1. FileInv
    BY DEF LogsInv
  <2>2. ASSUME NEW i \in 1 .. Len(file)
        PROVE  /\ file[i][1] = file[i][2] /\ file[i][1][1] \in Thread
               /\ i \in OwnLines(file, file[i][1][1])
    BY <2>1 DEF FileInv, OwnLines
  <2>3. \A t \in Thread : FileAt(t, file, doing[t], line[t], said[t])
    BY <2>1 DEF FileInv
  <2>4. ASSUME NEW i \in 1 .. Len(file)
        PROVE  /\ file[i][1][2] \in 1 .. Len(said[file[i][1][1]])
               /\ said[file[i][1][1]][file[i][1][2]] = file[i][3]
    BY <2>2, <2>3 DEF FileAt
  <2>5. ASSUME NEW i \in 1 .. Len(file), NEW j \in 1 .. Len(file), i < j, file[i][1][1] = file[j][1][1]
        PROVE  file[i][1][2] < file[j][1][2]
    <3>1. PICK t \in Thread : t = file[i][1][1]
      BY <2>2
    <3>2. i \in OwnLines(file, t) /\ j \in OwnLines(file, t)
      BY <2>2, <2>5, <3>1
    <3> QED
      BY <2>3, <2>5, <3>2 DEF FileAt
  <2> QED
    BY <2>2, <2>4, <2>5 DEF LinesWhole
<1> QED
  BY <1>1, LogsInvariant, PTL

\* When ThreadPool::Join has returned, every line that its threads logged is in the file, as
\* far as its write did not fail.
THEOREM JoinIsLast == LogsSpec => []JoinSeesAll
<1>1. LogsInv => JoinSeesAll
  <2> SUFFICES ASSUME LogsInv, main = "joined", NEW t \in Thread
               PROVE  /\ status[t] = "UNBLOCKED"
                      /\ \A n \in 1 .. Len(said[t]) :
                           \/ said[t][n] \in {"below", "failed"}
                           \/ \E i \in 1 .. Len(file) : file[i] = <<<<t, n>>, <<t, n>>, said[t][n]>>
    BY DEF JoinSeesAll
  <2>1. FileInv /\ StartInv /\ file \in Seq(Line \X Line \X Outcome) /\ said[t] \in Seq(Returned)
    BY DEF LogsInv, LogsTypeInv
  <2>2. doing[t] = "done" /\ started = PoolSize
    BY <2>1 DEF StartInv
  <2>3. status[t] = "UNBLOCKED"
    <3>1. t < started \/ t = started
      BY <2>2, LogsTypes DEF Thread
    <3> QED
      BY <2>1, <3>1 DEF StartInv
  <2>4. FileAt(t, file, "done", line[t], said[t]) /\ ~Logging("done")
    BY <2>1, <2>2 DEF FileInv, Logging
  <2>5. ASSUME NEW n \in 1 .. Len(said[t]), said[t][n] \notin {"below", "failed"}
        PROVE  \E i \in 1 .. Len(file) : file[i] = <<<<t, n>>, <<t, n>>, said[t][n]>>
    <3>1. said[t][n] \in {"whole", "short"}
      <4>1. said[t][n] # "calling"
        BY <2>4 DEF FileAt
      <4>2. said[t][n] \in Returned
        BY <2>1
      <4> QED
        BY <2>5, <4>1, <4>2 DEF Returned, Outcome
    <3>2. PICK i \in OwnLines(file, t) : file[i][1][2] = n
      BY <2>4, <3>1 DEF FileAt
    <3>3. i \in 1 .. Len(file) /\ file[i][1][1] = t /\ said[t][n] = file[i][3]
      BY <2>4, <3>2 DEF FileAt, OwnLines
    <3>4. file[i][1] = file[i][2] /\ file[i] \in Line \X Line \X Outcome
      BY <2>1, <3>3 DEF FileInv
    <3>5. /\ file[i] = <<file[i][1], file[i][1], file[i][3]>>
          /\ file[i][1] = <<file[i][1][1], file[i][1][2]>>
      BY <3>4 DEF Line
    <3>6. file[i] = <<<<t, n>>, <<t, n>>, said[t][n]>>
      BY <3>2, <3>3, <3>5
    <3> QED
      BY <3>3, <3>6
  <2> QED
    BY <2>3, <2>5
<1> QED
  BY <1>1, LogsInvariant, PTL
=============================================================================
