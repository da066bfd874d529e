----------------------------- MODULE GuardedMap -----------------------------
(***************************************************************************)
(* RawMap of cf_concurrency_map.hpp and RawSet of cf_concurrency_set.hpp:  *)
(* a std::map or a std::set whose operations take one RawPthreadRWMutex    *)
(* through a LockGuard, for reading or for writing.  Pop, OnlyInsert and   *)
(* FindEx look first and act on what they found, under the same lock.      *)
(*                                                                         *)
(* Erase of a range is left out: its two iterators were returned by calls  *)
(* that have released the lock, and what it does with stale ones is        *)
(* undefined.  The values are objects with a number of their own, so that  *)
(* two calls never bring the same one.                                     *)
(***************************************************************************)
EXTENDS Naturals, FiniteSets

CONSTANTS Thread,      \* the threads that share the container
          Key,         \* the keys, or the elements of a set: numbers, for their order
          MaxObject,   \* bound: how many calls bring an object
          NoThread     \* the writer of a lock nobody writes under

ASSUME MapAssumption == /\ NoThread \notin Thread
                        /\ Key \subseteq Nat \ {0}
                        /\ MaxObject \in Nat

VARIABLES kind,      \* RawMap or RawSet
          store,     \* _map or _set: the object under each key, or 0
          readers,   \* the threads that hold _rawRWLock for reading
          writer,    \* the one that holds it for writing
          pc,        \* where each thread is in its call
          call,      \* the call each thread is in
          found,     \* what the look-up of the call found
          reply,     \* how each thread's latest call ended
          made       \* how many objects calls brought

lockVars == <<readers, writer>>
vars == <<kind, store, lockVars, pc, call, found, reply, made>>

Abstract == INSTANCE AtomicMap

Object == 1 .. MaxObject

ReadOp == IF kind = "RawMap" THEN {"Find", "HasKey", "FindEx", "Begin", "End", "Size"}
                             ELSE {"Find", "IsEmpty", "Size", "MaxSize"}
WriteOp == IF kind = "RawMap" THEN {"Pop", "Erase", "Insert", "OnlyInsert"}
                              ELSE {"PopFirst", "Erase", "Insert", "Clear"}

\* The calls that name no key.
Keyless == {"Begin", "End", "Size", "IsEmpty", "MaxSize", "PopFirst", "Clear"}

NoCall == [op |-> "none", key |-> 0, object |-> 0]

Return(element) == [how |-> "element", value |-> element]
Count(n) == [how |-> "count", value |-> n]
Throw(exception) == [how |-> exception, value |-> 0]

Present == {k \in Key : store[k] # 0}

\* begin(): the element of the least key, 0 for end().
FirstElement == IF Present = {} THEN 0
                ELSE store[CHOOSE k \in Present : \A j \in Present : k <= j]

Init ==
    /\ kind \in {"RawMap", "RawSet"}
    /\ store = [k \in Key |-> 0]
    /\ readers = {} /\ writer = NoThread
    /\ pc = [t \in Thread |-> "idle"]
    /\ call = [t \in Thread |-> NoCall]
    /\ found = [t \in Thread |-> 0]
    /\ reply = [t \in Thread |-> Count(0)]
    /\ made = 0

------------------------------------------------------------------------------

Goto(t, place) == pc' = [pc EXCEPT ![t] = place]

\* The calls that look and change nothing.
CallRead(t) ==
    /\ pc[t] = "idle"
    /\ Goto(t, "lock")
    /\ \E o \in ReadOp, k \in Key \cup {0} :
         /\ (k = 0) = (o \in Keyless)
         /\ call' = [call EXCEPT ![t] = [op |-> o, key |-> k, object |-> 0]]
    /\ reply' = [reply EXCEPT ![t] = Count(0)]
    /\ UNCHANGED <<kind, store, lockVars, found, made>>

\* Insert brings its element; the object that OnlyInsert may allocate has its
\* number reserved here.
CallWrite(t) ==
    /\ pc[t] = "idle"
    /\ Goto(t, "lock")
    /\ \E o \in WriteOp, k \in Key \cup {0} :
         /\ (k = 0) = (o \in Keyless)
         /\ IF o \in {"Insert", "OnlyInsert"}
            THEN /\ made < MaxObject
                 /\ made' = made + 1
            ELSE made' = made
         /\ call' = [call EXCEPT ![t] = [op |-> o, key |-> k,
                                         object |-> IF made' = made THEN 0 ELSE made']]
    /\ reply' = [reply EXCEPT ![t] = Count(0)]
    /\ UNCHANGED <<kind, store, lockVars, found>>

\* The LockGuard: _writeLock waits until nobody has the lock, _readLock until
\* nobody writes.
WriteLock(t) ==
    /\ pc[t] = "lock" /\ call[t].op \in WriteOp
    /\ readers = {} /\ writer = NoThread
    /\ writer' = t
    /\ Goto(t, "in")
    /\ UNCHANGED <<kind, store, readers, call, found, reply, made>>

\* Seeded fault: a read takes the lock and does not hold it.
ReadLockNone(t) ==
    /\ pc[t] = "lock" /\ call[t].op \in ReadOp
    /\ writer = NoThread
    /\ Goto(t, "in")
    /\ UNCHANGED <<kind, store, readers, writer, call, found, reply, made>>

ReadLock(t) ==
    /\ pc[t] = "lock" /\ call[t].op \in ReadOp
    /\ writer = NoThread
    /\ readers' = readers \cup {t}
    /\ Goto(t, "in")
    /\ UNCHANGED <<kind, store, writer, call, found, reply, made>>

\* find, begin, empty or size.  What a write acts on is found before it acts.
LookUp(t) ==
    /\ pc[t] = "in"
    /\ found' = [found EXCEPT ![t] =
                    CASE call[t].op \in {"Begin", "PopFirst"} -> FirstElement
                      [] call[t].op \in {"Size", "IsEmpty"}   -> Cardinality(Present)
                      [] call[t].op \in {"End", "MaxSize", "Clear"} -> 0
                      [] OTHER                                -> store[call[t].key]]
    /\ Goto(t, "found")
    /\ UNCHANGED <<kind, store, lockVars, call, reply, made>>

\* The call of t ends with r, the destructor of its LockGuard unlocks.
Leave(t, r) ==
    /\ Goto(t, "idle")
    /\ reply' = [reply EXCEPT ![t] = r]
    /\ call' = [call EXCEPT ![t] = NoCall]
    /\ found' = [found EXCEPT ![t] = 0]
    /\ readers' = readers \ {t}
    /\ writer' = IF writer = t THEN NoThread ELSE writer
    /\ UNCHANGED <<kind, made>>

\* Doing(t, ops): t is in one of these calls and has looked.
Doing(t, ops) == pc[t] = "found" /\ call[t].op \in ops

Read(t) ==
    /\ \/ Doing(t, {"Find", "HasKey", "Begin"}) /\ Leave(t, Return(found[t]))
       \/ Doing(t, {"End", "Size", "IsEmpty", "MaxSize"}) /\ Leave(t, Count(found[t]))
    /\ UNCHANGED store

\* Seeded fault: it looks again, under the lock, until the element is there.
FindExWaits(t) ==
    /\ Doing(t, {"FindEx"})
    /\ \/ found[t] # 0 /\ Leave(t, Return(found[t]))
       \/ /\ found[t] = 0
          /\ Goto(t, "in")
          /\ UNCHANGED <<kind, lockVars, call, found, reply, made>>
    /\ UNCHANGED store

FindEx(t) ==
    /\ Doing(t, {"FindEx"})
    /\ Leave(t, IF found[t] = 0 THEN Throw("ElementNotFoundInfo") ELSE Return(found[t]))
    /\ UNCHANGED store

\* Pop of a map erases by the key, Pop of a set by the iterator.
Pop(t) ==
    /\ Doing(t, {"Pop", "PopFirst"})
    /\ \/ /\ found[t] = 0
          /\ Leave(t, Throw(IF kind = "RawMap" THEN "ElementNotFoundInfo" ELSE "SetEmptyException"))
          /\ UNCHANGED store
       \/ /\ found[t] # 0
          /\ store' = [k \in Key |-> IF k = call[t].key \/ store[k] = found[t] THEN 0 ELSE store[k]]
          /\ Leave(t, Return(found[t]))

Erase(t) ==
    /\ Doing(t, {"Erase"})
    /\ store' = [store EXCEPT ![call[t].key] = 0]
    /\ Leave(t, Return(found[t]))

Clear(t) ==
    /\ Doing(t, {"Clear"})
    /\ store' = [k \in Key |-> 0]
    /\ Leave(t, Count(0))

\* std::map::insert leaves the element that is there.
Insert(t) ==
    /\ Doing(t, {"Insert"})
    /\ store' = IF store[call[t].key] = 0 THEN [store EXCEPT ![call[t].key] = call[t].object]
                ELSE store
    /\ Leave(t, Return(store'[call[t].key]))

OnlyInsert(t) ==
    /\ Doing(t, {"OnlyInsert"})
    /\ \/ /\ found[t] # 0
          /\ Leave(t, Return(found[t]))
          /\ UNCHANGED store
       \/ /\ found[t] = 0
          /\ store' = [store EXCEPT ![call[t].key] = call[t].object]
          /\ Leave(t, Return(call[t].object))

------------------------------------------------------------------------------

Step(t) ==
    \/ WriteLock(t) \/ ReadLock(t) \/ LookUp(t) \/ Read(t) \/ FindEx(t) \/ Pop(t)
    \/ Erase(t) \/ Clear(t) \/ Insert(t) \/ OnlyInsert(t)

Next == \E t \in Thread : Step(t) \/ CallRead(t) \/ CallWrite(t)

Spec == Init /\ [][Next]_vars

\* Threads in a call keep running, and one that waits for the lock does not miss
\* for ever the moments in which it could have it.  (The lock prefers readers, the
\* default of glibc: reads that overlap for ever leave a writer no such moment.)
FairSpec == /\ Spec
            /\ \A t \in Thread : WF_vars(Step(t)) /\ SF_vars(ReadLock(t)) /\ SF_vars(WriteLock(t))

------------------------------------------------------------------------------
(* Properties. *)

\* Writers are alone and readers only with readers, also when a call ends by an
\* exception, and what a call found stays true until it acts on it.
MapOK ==
    /\ store \in [Key -> Object \cup {0}]
    /\ readers \subseteq Thread /\ writer \in Thread \cup {NoThread}
    /\ pc \in [Thread -> {"idle", "lock", "in", "found"}]
    /\ made \in 0 .. MaxObject
    /\ writer # NoThread => readers = {}
    /\ \A t \in Thread : (pc[t] \in {"in", "found"}) = (t \in readers \cup {writer})
    /\ \A t \in Thread : pc[t] = "idle" <=> call[t] = NoCall
    /\ \A t \in Thread : t \in readers => call[t].op \in ReadOp
    /\ \A t \in Thread : pc[t] = "found" /\ call[t].key # 0 => found[t] = store[call[t].key]

\* "Insert or update.", as the comment above Insert says: what a map has under the key
\* when Insert returns is what the call brought.
InsertUpdates ==
    [][\A t \in Thread :
         kind = "RawMap" /\ Doing(t, {"Insert"}) /\ pc'[t] = "idle"
         => store'[call[t].key] = call[t].object]_vars

\* Every operation acts as if alone, at one instant between its call and its return.
ActsAtomically == Abstract!Spec

Reading(t) == call[t].op \in ReadOp

\* Every call returns, a write as long as other threads do not read for ever.
CallsReturn ==
    \A t \in Thread :
        /\ Reading(t) ~> pc[t] = "idle"
        /\ (<>[](\A u \in Thread \ {t} : ~Reading(u))) => (pc[t] # "idle" ~> pc[t] = "idle")
=============================================================================
