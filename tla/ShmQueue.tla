------------------------------ MODULE ShmQueue ------------------------------
(***************************************************************************)
(* PosixShmCircularQueue: processes that find a circular queue by the name *)
(* of a POSIX shared memory object.  The constructor is PosixShM's         *)
(* (shm_open, ftruncate, mmap), then QMetaOp's, which fills in the control *)
(* block if the process says that it is the creator and looks at nothing   *)
(* if not.  The destructor is PosixShM's: the creator unlinks the name.    *)
(* Any step may fall between those of another process, and a process may   *)
(* be killed anywhere.                                                     *)
(*                                                                         *)
(* As in test_queue_put.cpp and test_queue_get.cpp a creator opens with    *)
(* FLAG_CREATE, the others with FLAG_RDWR.  What is put and got is         *)
(* CircularQueue's business; here a process is inside while it holds the   *)
(* ring's mutex.                                                           *)
(***************************************************************************)
EXTENDS Naturals, FiniteSets

CONSTANTS Creator, User,   \* processes that pass creator = true, and false
          Size,            \* the values of memSize
          MinSize,         \* MetaSize() + HeaderSize()
          MaxObject,       \* bound: shared memory objects ever made
          MaxKill,         \* bound: processes killed
          NoProcess        \* the owner of a free mutex

ASSUME ShmAssumption ==
    /\ Creator \cap User = {} /\ NoProcess \notin Creator \cup User
    /\ Size \subseteq Nat \ {0} /\ MinSize \in Nat
    /\ MaxObject \in Nat /\ MaxKill \in Nat

Process == Creator \cup User
Object == 1 .. MaxObject

VARIABLES name,     \* the object the name stands for, 0 if none
          made,     \* how many objects were made
          length,   \* the length of each object
          stage,    \* of its control block: zero, cleared (by memset) or ready
          owner,    \* the process that holds the mutex in it
          pc,       \* where each process is
          object,   \* the object it has open, 0 if none
          size,     \* the size it maps: its memSize
          early,    \* history: objects a user opened before they were ready
          rebuilt,  \* history: objects a creator cleared while others had them open
          shrunk    \* history: objects made shorter by a constructor

shmVars == <<name, made, length, stage, owner>>
history == <<early, rebuilt, shrunk>>
vars == <<shmVars, pc, object, size, history>>

Init ==
    /\ name = 0 /\ made = 0
    /\ length = [o \in Object |-> 0]
    /\ stage = [o \in Object |-> "zero"]
    /\ owner = [o \in Object |-> NoProcess]
    /\ pc = [p \in Process |-> "out"]
    /\ object = [p \in Process |-> 0]
    /\ size = [p \in Process |-> 0]
    /\ early = {} /\ rebuilt = {} /\ shrunk = {}

------------------------------------------------------------------------------

Goto(p, place) == pc' = [pc EXCEPT ![p] = place]

HasOpen(o) == {p \in Process : object[p] = o}

\* cf_shm_open: FLAG_CREATE makes an object of length 0 if the name stands for
\* none; without it it fails.
ShmOpen(p) ==
    \/ name # 0 /\ UNCHANGED <<name, made>>
    \/ name = 0 /\ p \in Creator /\ made < MaxObject /\ made' = made + 1 /\ name' = made'

\* The constructor up to its ftruncate; it throws if shm_open fails.
Open(p) ==
    /\ pc[p] = "out"
    /\ \E z \in Size : size' = [size EXCEPT ![p] = z]
    /\ ShmOpen(p)
    /\ object' = [object EXCEPT ![p] = name']
    /\ early' = IF p \in User /\ stage[name] # "ready" THEN early \cup {name} ELSE early
    /\ Goto(p, "opened")
    /\ UNCHANGED <<length, stage, owner, rebuilt, shrunk>>

\* Seeded fault: only creators set the size.
FtruncateCreator(p) ==
    /\ pc[p] = "opened"
    /\ length' = IF p \in Creator THEN [length EXCEPT ![object[p]] = size[p]] ELSE length
    /\ shrunk' = IF p \in Creator /\ size[p] < length[object[p]] THEN shrunk \cup {object[p]} ELSE shrunk
    /\ Goto(p, "sized")
    /\ UNCHANGED <<name, made, stage, owner, object, size, early, rebuilt>>

\* Ftruncate, by creators and others alike.
Ftruncate(p) ==
    /\ pc[p] = "opened"
    /\ length' = [length EXCEPT ![object[p]] = size[p]]
    /\ shrunk' = IF size[p] < length[object[p]] THEN shrunk \cup {object[p]} ELSE shrunk
    /\ Goto(p, "sized")
    /\ UNCHANGED <<name, made, stage, owner, object, size, early, rebuilt>>

\* Mmap, and QMetaOp of a process that is not the creator: it takes what is there.
Attach(p) ==
    /\ pc[p] = "sized" /\ p \notin Creator
    /\ Goto(p, "attached")
    /\ UNCHANGED <<shmVars, object, size, history>>

\* cf_shm_unlink takes the name away, whatever it stands for now, or fails.
ShmUnlink == name' = 0

\* ~PosixShM: the creator unlinks the name; close.  The mapping stays until the
\* process ends, but nobody uses it.
Release(p) ==
    /\ IF p \in Creator THEN ShmUnlink ELSE UNCHANGED name
    /\ object' = [object EXCEPT ![p] = 0]
    /\ size' = [size EXCEPT ![p] = 0]
    /\ Goto(p, "out")

\* Seeded fault: the size is looked at behind the memset.
TooSmallCleared(p) ==
    /\ pc[p] = "sized" /\ p \in Creator
    /\ size[p] <= MinSize
    /\ Release(p)
    /\ stage' = [stage EXCEPT ![object[p]] = "cleared"]
    /\ owner' = [owner EXCEPT ![object[p]] = NoProcess]
    /\ UNCHANGED <<made, length, early, rebuilt, shrunk>>

\* QMetaOp of a creator: memSize is too small, the exception destroys the PosixShM.
TooSmall(p) ==
    /\ pc[p] = "sized" /\ p \in Creator
    /\ size[p] <= MinSize
    /\ Release(p)
    /\ UNCHANGED <<made, length, stage, owner, early, rebuilt, shrunk>>

\* memset of the control block, its mutex included.
Clear(p) ==
    /\ pc[p] = "sized" /\ p \in Creator
    /\ size[p] > MinSize
    /\ stage' = [stage EXCEPT ![object[p]] = "cleared"]
    /\ owner' = [owner EXCEPT ![object[p]] = NoProcess]
    /\ rebuilt' = IF HasOpen(object[p]) # {p} THEN rebuilt \cup {object[p]} ELSE rebuilt
    /\ Goto(p, "cleared")
    /\ UNCHANGED <<name, made, length, object, size, early, shrunk>>

\* initMutex, initCond and the rest of the fields; mutex and condition variable
\* are made as if new, whoever uses them.
Build(p) ==
    /\ pc[p] = "cleared"
    /\ stage' = [stage EXCEPT ![object[p]] = "ready"]
    /\ owner' = [owner EXCEPT ![object[p]] = NoProcess]
    /\ Goto(p, "attached")
    /\ UNCHANGED <<name, made, length, object, size, history>>

\* Put and Get, down to what they do to the mutex.  One that was cleared or is
\* all zero can be locked like a new one.
Enter(p) ==
    /\ pc[p] = "attached"
    /\ owner[object[p]] = NoProcess
    /\ owner' = [owner EXCEPT ![object[p]] = p]
    /\ Goto(p, "inside")
    /\ UNCHANGED <<name, made, length, stage, object, size, history>>

Exit(p) ==
    /\ pc[p] = "inside"
    /\ owner' = [owner EXCEPT ![object[p]] = NoProcess]
    /\ Goto(p, "attached")
    /\ UNCHANGED <<name, made, length, stage, object, size, history>>

\* The queue is destroyed.
Destroy(p) ==
    /\ pc[p] = "attached"
    /\ Release(p)
    /\ UNCHANGED <<made, length, stage, owner, early, rebuilt, shrunk>>

\* A process is killed: its mapping and descriptor go, the name and the mutex stay.
Kill(p) ==
    /\ pc[p] \notin {"out", "killed"}
    /\ Cardinality({q \in Process : pc[q] = "killed"}) < MaxKill
    /\ Goto(p, "killed")
    /\ object' = [object EXCEPT ![p] = 0]
    /\ size' = [size EXCEPT ![p] = 0]
    /\ UNCHANGED <<shmVars, history>>

Step(p) == \/ Ftruncate(p) \/ Attach(p) \/ TooSmall(p) \/ Clear(p) \/ Build(p)
           \/ Enter(p) \/ Exit(p)

Next == \E p \in Process : Step(p) \/ Open(p) \/ Destroy(p) \/ Kill(p)

Spec == Init /\ [][Next]_vars

------------------------------------------------------------------------------
(* Properties. *)

Using(p) == pc[p] \in {"attached", "inside"}

\* Nobody uses a queue that is not ready, unless a user opened it too early or a
\* second creator takes the same object and clears it.
UsesReadyQueue ==
    \A p \in Process :
        Using(p) /\ stage[object[p]] # "ready" => object[p] \in early \cup rebuilt

\* The memory a process uses is there, unless somebody came with a smaller
\* memSize: no access lies behind the end of the object.
MemoryThere ==
    \A p \in Process : Using(p) /\ size[p] > length[object[p]] => object[p] \in shrunk

\* Two processes are inside one queue only after a creator made a new mutex of
\* the one they used: it cleared a queue that was in use, or they came too early.
OneInside ==
    \A p, q \in Process :
        p # q /\ pc[p] = "inside" /\ pc[q] = "inside" /\ object[p] = object[q] =>
            object[p] \in early \cup rebuilt

\* What a creator makes is used by others only when it is ready, and its mutex is
\* made once, as far as the order of calls lets the code see to it.
ShmOK ==
    /\ name \in 0 .. made /\ made \in 0 .. MaxObject
    /\ length \in [Object -> Size \cup {0}]
    /\ stage \in [Object -> {"zero", "cleared", "ready"}]
    /\ owner \in [Object -> Process \cup {NoProcess}]
    /\ \A p \in Process : /\ object[p] \in 0 .. made
                          /\ (object[p] = 0) <=> pc[p] \in {"out", "killed"}
    /\ UsesReadyQueue /\ OneInside

=============================================================================
