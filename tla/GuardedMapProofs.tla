-------------------------- MODULE GuardedMapProofs --------------------------
(***************************************************************************)
(* RawMap and RawSet act like a map with atomic operations, for any number *)
(* of threads, keys and objects.                                           *)
(*                                                                         *)
(* An operation takes effect when it returns.  Until then what it found    *)
(* must still be so: the invariant says that whoever changes the store is  *)
(* alone under the lock, and that no two keys hold the same object, so     *)
(* that Pop, which erases what it found, erases one element.               *)
(***************************************************************************)
EXTENDS GuardedMap, WellFoundedInduction, TLAPS

\* What find, begin or size says now to call c.
Looked(c) ==
    CASE c.op \in {"Begin", "PopFirst"} -> FirstElement
      [] c.op \in {"Size", "IsEmpty"}   -> Cardinality(Present)
      [] c.op \in {"End", "MaxSize", "Clear"} -> 0
      [] OTHER                          -> store[c.key]

TypeInv ==
    /\ kind \in {"RawMap", "RawSet"}
    /\ store \in [Key -> Object \cup {0}]
    /\ pc \in [Thread -> {"idle", "lock", "in", "found"}]
    /\ call = [t \in Thread |-> call[t]]
    /\ found = [t \in Thread |-> found[t]]
    /\ reply = [t \in Thread |-> reply[t]]
    /\ made \in 0 .. MaxObject
    /\ readers \subseteq Thread /\ writer \in Thread \cup {NoThread}

Called(c) ==
    /\ c \in [op : ReadOp \cup WriteOp, key : Key \cup {0}, object : 0 .. made]
    /\ c.key = 0 <=> c.op \in Keyless
    /\ c.object # 0 <=> c.op \in {"Insert", "OnlyInsert"}

CallInv == \A t \in Thread : IF pc[t] = "idle" THEN call[t] = NoCall ELSE Called(call[t])

LockInv ==
    /\ writer # NoThread => readers = {} /\ call[writer].op \in WriteOp
    /\ \A t \in readers : call[t].op \in ReadOp
    /\ \A t \in Thread : pc[t] \in {"in", "found"} <=> t \in readers \cup {writer}

\* Every object is at one place: under one key or in one call.
OneEach ==
    /\ \A j, k \in Key : store[j] = store[k] /\ store[j] # 0 => j = k
    /\ \A k \in Key : store[k] <= made
    /\ \A t \in Thread : call[t].object <= made
    /\ \A t \in Thread, k \in Key : call[t].object # 0 => call[t].object # store[k]
    /\ \A t, u \in Thread : call[t].object = call[u].object /\ call[t].object # 0 => t = u

FoundInv == \A t \in Thread : pc[t] = "found" => found[t] = Looked(call[t])

MapInv == TypeInv /\ CallInv /\ LockInv /\ OneEach /\ FoundInv

USE MapAssumption

------------------------------------------------------------------------------
(* The invariant. *)

LEMMA OpsDisjoint == ReadOp \cap WriteOp = {} /\ "none" \notin ReadOp \cup WriteOp
  BY DEF ReadOp, WriteOp

\* What a call would find changes only with the store.
LEMMA SameLooked ==
    store' = store =>
        \A t \in Thread : call'[t] = call[t] => Looked(call[t])' = Looked(call[t])
  BY DEF Looked, FirstElement, Present

LEMMA MapStart == Init => MapInv
<1> SUFFICES ASSUME Init PROVE MapInv
  OBVIOUS
<1>1. TypeInv
  BY DEF Init, TypeInv
<1>2. CallInv /\ FoundInv
  BY DEF Init, CallInv, FoundInv
<1>3. LockInv
  BY DEF Init, LockInv
<1>4. OneEach
  BY DEF Init, OneEach, NoCall
<1> QED
  BY <1>1, <1>2, <1>3, <1>4 DEF MapInv

\* A call begins; the object it may bring is a new one.
LEMMA CallsKeep ==
    ASSUME MapInv, NEW t \in Thread, CallRead(t) \/ CallWrite(t)
    PROVE  MapInv' /\ \E c : Called(c)' /\ call' = [call EXCEPT ![t] = c]
<1>1. PICK c : Called(c)' /\ call' = [call EXCEPT ![t] = c] /\ c.object \in {0, made'}
               /\ (c.object # 0 => made' = made + 1)
  <2>1. CASE CallRead(t)
    <3>1. PICK o \in ReadOp, k \in Key \cup {0} :
            /\ (k = 0) = (o \in Keyless)
            /\ call' = [call EXCEPT ![t] = [op |-> o, key |-> k, object |-> 0]]
      BY <2>1 DEF CallRead
    <3> DEFINE c == [op |-> o, key |-> k, object |-> 0]
    <3>2. Called(c)'
      BY <2>1, <3>1 DEF CallRead, Called, ReadOp, WriteOp, MapInv, TypeInv, Keyless
    <3>3. c.object = 0
      OBVIOUS
    <3> HIDE DEF c
    <3> QED
      BY <3>1, <3>2, <3>3 DEF c
  <2>2. CASE CallWrite(t)
    <3>1. PICK o \in WriteOp, k \in Key \cup {0} :
            /\ (k = 0) = (o \in Keyless)
            /\ IF o \in {"Insert", "OnlyInsert"} THEN made < MaxObject /\ made' = made + 1
               ELSE made' = made
            /\ call' = [call EXCEPT ![t] = [op |-> o, key |-> k,
                                            object |-> IF made' = made THEN 0 ELSE made']]
      BY <2>2 DEF CallWrite
    <3> PICK x : x = IF made' = made THEN 0 ELSE made'
      OBVIOUS
    <3> DEFINE c == [op |-> o, key |-> k, object |-> x]
    <3>2. made \in Nat /\ made' \in Nat /\ (made' # made => made' = made + 1 /\ made' # 0)
          /\ (made' # made <=> o \in {"Insert", "OnlyInsert"})
      BY <3>1 DEF MapInv, TypeInv
    <3>3. c.op \in (ReadOp \cup WriteOp)' /\ c.key \in Key \cup {0} /\ c.object \in 0 .. made'
      BY <2>2, <3>1, <3>2 DEF CallWrite, WriteOp, ReadOp
    <3>4. (c.key = 0 <=> c.op \in Keyless) /\ (c.object # 0 <=> c.op \in {"Insert", "OnlyInsert"})
      BY <3>1, <3>2
    <3>5. Called(c)'
      BY <3>3, <3>4 DEF Called, Keyless
    <3>6. call' = [call EXCEPT ![t] = c] /\ c.object \in {0, made'} /\ (c.object # 0 => made' = made + 1)
      BY <3>1, <3>2
    <3> HIDE DEF c
    <3> QED
      BY <3>5, <3>6
  <2> QED
    BY <2>1, <2>2
<1>2. /\ pc[t] = "idle" /\ pc' = [pc EXCEPT ![t] = "lock"]
      /\ reply' = [reply EXCEPT ![t] = Count(0)]
      /\ UNCHANGED <<kind, store, readers, writer, found>>
      /\ made' \in 0 .. MaxObject /\ made <= made' /\ made \in 0 .. MaxObject
  BY DEF CallRead, CallWrite, Goto, lockVars, MapInv, TypeInv
<1>3. \A u \in Thread : u # t => pc'[u] = pc[u] /\ call'[u] = call[u]
  BY <1>1, <1>2 DEF MapInv, TypeInv
<1>4. pc'[t] = "lock" /\ call'[t] = c
  BY <1>1, <1>2 DEF MapInv, TypeInv
<1>5. TypeInv'
  BY <1>1, <1>2 DEF MapInv, TypeInv
<1>6. CallInv'
  <2>1. \A d : Called(d) => Called(d)'
    BY <1>2 DEF Called, ReadOp, WriteOp
  <2> QED
    BY <1>1, <1>3, <1>4, <2>1 DEF MapInv, CallInv
<1>7. LockInv'
  BY <1>2, <1>3, <1>4 DEF MapInv, LockInv, TypeInv, ReadOp, WriteOp
<1>8. OneEach'
  <2>1. \A u \in Thread : u # t => call'[u].object = call[u].object
    BY <1>3
  <2>2. \A u \in Thread : call[u].object \in Nat /\ call[u].object <= made
    BY DEF MapInv, CallInv, Called, NoCall, TypeInv
  <2>3. \A k \in Key : store[k] \in Nat /\ store[k] <= made
    BY DEF MapInv, OneEach, TypeInv, Object
  <2>4. made \in Nat /\ made' \in Nat /\ c.object \in Nat /\ (c.object # 0 => c.object = made + 1)
        /\ c.object <= made'
    BY <1>1, <1>2
  <2>5. \A u \in Thread, k \in Key : call'[u].object # 0 => call'[u].object # store[k]
    <3>1. \A u \in Thread, k \in Key : u # t /\ call[u].object # 0 => call[u].object # store[k]
      BY DEF MapInv, OneEach
    <3>2. \A k \in Key : c.object # 0 => c.object # store[k]
      BY <2>3, <2>4
    <3> QED
      BY <1>4, <2>1, <3>1, <3>2
  <2>6. \A u, v \in Thread : call'[u].object = call'[v].object /\ call'[u].object # 0 => u = v
    BY <1>4, <2>1, <2>2, <2>4 DEF MapInv, OneEach
  <2>7. \A u \in Thread : call'[u].object <= made'
    BY <1>2, <1>4, <2>1, <2>2, <2>4
  <2>8. \A k \in Key : store[k] <= made'
    BY <1>2, <2>3, <2>4
  <2> QED
    BY <1>2, <2>5, <2>6, <2>7, <2>8 DEF MapInv, OneEach
<1>9. FoundInv'
  BY <1>2, <1>3, <1>4, SameLooked DEF MapInv, FoundInv
<1> QED
  BY <1>1, <1>5, <1>6, <1>7, <1>8, <1>9 DEF MapInv

\* A lock that is taken was free for its taker.
LEMMA LocksKeep == ASSUME MapInv, NEW t \in Thread, WriteLock(t) \/ ReadLock(t) PROVE MapInv'
<1>1. /\ pc[t] = "lock" /\ pc' = [pc EXCEPT ![t] = "in"]
      /\ UNCHANGED <<kind, store, call, found, reply, made>>
  BY DEF WriteLock, ReadLock, Goto
<1>2. TypeInv'
  BY <1>1 DEF WriteLock, ReadLock, MapInv, TypeInv
<1>3. CallInv'
  BY <1>1 DEF MapInv, TypeInv, CallInv, Called, ReadOp, WriteOp
<1>4. LockInv'
  <2>1. CASE WriteLock(t)
    BY <1>1, <2>1 DEF WriteLock, MapInv, LockInv, TypeInv, ReadOp, WriteOp
  <2>2. CASE ReadLock(t)
    BY <1>1, <2>2 DEF ReadLock, MapInv, LockInv, TypeInv, ReadOp, WriteOp
  <2> QED
    BY <2>1, <2>2
<1>5. OneEach'
  BY <1>1 DEF MapInv, OneEach
<1>6. FoundInv'
  <2>1. \A u \in Thread : pc'[u] = "found" => pc[u] = "found"
    BY <1>1 DEF MapInv, TypeInv
  <2> QED
    BY <1>1, <2>1, SameLooked DEF MapInv, FoundInv
<1> QED
  BY <1>2, <1>3, <1>4, <1>5, <1>6 DEF MapInv

LEMMA LookUpKeeps == ASSUME MapInv, NEW t \in Thread, LookUp(t) PROVE MapInv'
<1>1. /\ pc[t] = "in" /\ pc' = [pc EXCEPT ![t] = "found"]
      /\ found' = [found EXCEPT ![t] = Looked(call[t])]
      /\ UNCHANGED <<kind, store, readers, writer, call, reply, made>>
  BY DEF LookUp, Goto, Looked, lockVars
<1>2. TypeInv'
  BY <1>1 DEF MapInv, TypeInv
<1>3. CallInv'
  BY <1>1 DEF MapInv, TypeInv, CallInv, Called, ReadOp, WriteOp
<1>4. LockInv'
  BY <1>1 DEF MapInv, LockInv, TypeInv, ReadOp, WriteOp
<1>5. OneEach'
  BY <1>1 DEF MapInv, OneEach
<1>6. FoundInv'
  <2>1. \A u \in Thread : Looked(call[u])' = Looked(call[u])
    BY <1>1, SameLooked
  <2>2. \A u \in Thread : u # t => pc'[u] = pc[u] /\ found'[u] = found[u]
    BY <1>1 DEF MapInv, TypeInv
  <2>3. found'[t] = Looked(call[t])
    BY <1>1 DEF MapInv, TypeInv
  <2> QED
    BY <2>1, <2>2, <2>3 DEF MapInv, FoundInv
<1> QED
  BY <1>2, <1>3, <1>4, <1>5, <1>6 DEF MapInv

\* A call ends: a read leaves the store as it is, a write is alone.
LEMMA LeavesKeep ==
    ASSUME MapInv, NEW t \in Thread, pc[t] = "found", NEW r, Leave(t, r),
           store' \in [Key -> Object \cup {0}], store' = store \/ call[t].op \in WriteOp,
           \A k \in Key : store'[k] \in {0, store[k], call[t].object},
           \A j, k \in Key : store'[j] = store'[k] /\ store'[j] # 0 => j = k
    PROVE  MapInv'
<1>1. /\ pc' = [pc EXCEPT ![t] = "idle"] /\ call' = [call EXCEPT ![t] = NoCall]
      /\ found' = [found EXCEPT ![t] = 0] /\ reply' = [reply EXCEPT ![t] = r]
      /\ readers' = readers \ {t} /\ writer' = IF writer = t THEN NoThread ELSE writer
      /\ UNCHANGED <<kind, made>>
  BY DEF Leave, Goto
<1>2. \A u \in Thread : u # t => pc'[u] = pc[u] /\ call'[u] = call[u] /\ found'[u] = found[u]
  BY <1>1 DEF MapInv, TypeInv
<1>3. pc'[t] = "idle" /\ call'[t] = NoCall
  BY <1>1 DEF MapInv, TypeInv
<1>4. TypeInv'
  BY <1>1 DEF MapInv, TypeInv
<1>5. CallInv'
  <2>1. \A d : Called(d) => Called(d)'
    BY <1>1 DEF Called, ReadOp, WriteOp
  <2> QED
    BY <1>2, <1>3, <2>1 DEF MapInv, CallInv
<1>6. LockInv'
  <2>1. \A u \in readers' : call'[u].op \in ReadOp
    BY <1>1, <1>2 DEF MapInv, LockInv, TypeInv
  <2>2. writer' # NoThread => writer # t /\ readers' = {} /\ call'[writer'].op \in WriteOp
    BY <1>1, <1>2 DEF MapInv, LockInv, TypeInv
  <2>3. \A u \in Thread : pc'[u] \in {"in", "found"} <=> u \in readers' \cup {writer'}
    <3>1. t \notin readers' /\ t # writer' /\ pc'[t] \notin {"in", "found"}
      BY <1>1, <1>3, MapAssumption
    <3>2. ASSUME NEW u \in Thread, u # t
          PROVE  /\ u \in readers' \cup {writer'} <=> u \in readers \cup {writer}
                 /\ pc'[u] = pc[u] /\ (pc[u] \in {"in", "found"} <=> u \in readers \cup {writer})
      BY <1>1, <1>2, <3>2, MapAssumption DEF MapInv, LockInv
    <3> QED
      BY <3>1, <3>2
  <2>4. ReadOp' = ReadOp /\ WriteOp' = WriteOp
    BY <1>1 DEF ReadOp, WriteOp
  <2> QED
    BY <2>1, <2>2, <2>3, <2>4 DEF LockInv
<1>7. OneEach'
  <2>1. call'[t].object = 0 /\ \A u \in Thread : u # t => call'[u].object = call[u].object
    BY <1>2, <1>3 DEF NoCall
  <2>2. \A k \in Key : store'[k] <= made'
    BY <1>1 DEF MapInv, OneEach, TypeInv
  <2>3. \A u \in Thread : call'[u].object <= made'
    <3>1. \A u \in Thread : call[u].object <= made /\ made \in Nat
      BY DEF MapInv, OneEach, TypeInv
    <3> QED
      BY <1>1, <2>1, <3>1
  <2>4. ASSUME NEW u \in Thread, NEW k \in Key, call'[u].object # 0
        PROVE  call'[u].object # store'[k]
    <3>1. u # t /\ call[u].object = call'[u].object
      BY <2>1, <2>4
    <3>2. call[u].object # store[k] /\ call[u].object # call[t].object
      BY <2>4, <3>1 DEF MapInv, OneEach
    <3> QED
      BY <2>4, <3>1, <3>2
  <2>5. \A u, v \in Thread : call'[u].object = call'[v].object /\ call'[u].object # 0 => u = v
    BY <2>1 DEF MapInv, OneEach
  <2> QED
    BY <2>2, <2>3, <2>4, <2>5 DEF OneEach
<1>8. FoundInv'
  <2>1. CASE store' = store
    BY <1>2, <1>3, <2>1, SameLooked DEF MapInv, FoundInv
  <2>2. CASE call[t].op \in WriteOp
    <3>1. \A u \in Thread : u # t => pc[u] # "found"
      BY <2>2, OpsDisjoint DEF MapInv, LockInv, TypeInv
    <3> QED
      BY <1>2, <1>3, <3>1 DEF FoundInv
  <2> QED
    BY <2>1, <2>2
<1> QED
  BY <1>4, <1>5, <1>6, <1>7, <1>8 DEF MapInv

------------------------------------------------------------------------------
(* The end of a call is the operation of the abstract map. *)

LEMMA LeastExists == ASSUME NEW T, T \subseteq Nat, T # {} PROVE \E x \in T : \A y \in T : x <= y
<1> DEFINE R == {ss \in Nat \X Nat : ss[1] < ss[2]}
<1>1. IsWellFoundedOn(R, Nat)
  BY NatLessThanWellFounded DEF OpToRel
<1> HIDE DEF R
<1>2. PICK x \in T : \A y \in T : ~ (<<y, x>> \in R)
  BY <1>1, WFMin
<1>3. ASSUME NEW y \in T PROVE x <= y
  <2>1. x \in Nat /\ y \in Nat /\ ~ (<<y, x>> \in R)
    BY <1>2
  <2>2. ~ (y < x)
    BY <2>1 DEF R
  <2> QED
    BY <2>1, <2>2
<1> QED
  BY <1>3

\* begin() is the element of one key, the least.
LEMMA FirstOne ==
    ASSUME MapInv, Present # {}
    PROVE  \E k \in Present : /\ Abstract!First(store) = {k}
                              /\ FirstElement = store[k] /\ Abstract!FirstElement(store) = store[k]
<1>1. Present \subseteq Nat
  BY DEF Present
<1>3. PICK k \in Present : \A j \in Present : k <= j
  BY <1>1, LeastExists
<1>4. \A i \in Present : (\A j \in Present : i <= j) => i = k
  BY <1>1, <1>3
<1>5. Abstract!First(store) = {k}
  BY <1>3, <1>4 DEF Abstract!First, Abstract!Present, Present
<1>6. (CHOOSE i \in Present : \A j \in Present : i <= j) = k
  BY <1>3, <1>4
<1>7. (CHOOSE i \in Abstract!First(store) : TRUE) = k
  BY <1>5
<1> QED
  BY <1>5, <1>6, <1>7 DEF FirstElement, Abstract!FirstElement

\* The frame of every return.
LEMMA ActFrame ==
    ASSUME MapInv, NEW t \in Thread, pc[t] = "found", NEW r, Leave(t, r),
           store' = Abstract!Effect(call[t], store), r = Abstract!Outcome(call[t], store)
    PROVE  Abstract!Act(t)
<1>1. call[t].op # "none"
  BY OpsDisjoint DEF MapInv, CallInv, Called
<1>2. call[t] # Abstract!NoCall
  BY <1>1 DEF Abstract!NoCall
<1> QED
  BY <1>2 DEF Leave, Abstract!Act, Abstract!NoCall, NoCall

\* The part of the store that a call leaves or clears.
LEMMA StoreShrinks ==
    ASSUME MapInv, store' = store \/ \E keys : store' = [k \in Key |-> IF k \in keys THEN 0 ELSE store[k]]
    PROVE  /\ store' \in [Key -> Object \cup {0}]
           /\ \A k \in Key : store'[k] \in {0, store[k]}
           /\ \A j, k \in Key : store'[j] = store'[k] /\ store'[j] # 0 => j = k
  BY DEF MapInv, TypeInv, OneEach

LEMMA ReadActs ==
    ASSUME MapInv, NEW t \in Thread, Read(t) \/ FindEx(t)
    PROVE  MapInv' /\ Abstract!Act(t)
<1>1. pc[t] = "found" /\ store' = store /\ found[t] = Looked(call[t])
  BY DEF Read, FindEx, Doing, MapInv, FoundInv
<1>2. ASSUME NEW r, Leave(t, r), r = Abstract!Outcome(call[t], store),
             Abstract!Effect(call[t], store) = store
      PROVE  MapInv' /\ Abstract!Act(t)
  BY <1>1, <1>2, StoreShrinks, LeavesKeep, ActFrame
<1>3. CASE Doing(t, {"Find", "HasKey"}) /\ Leave(t, Return(found[t]))
  <2>1. found[t] = store[call[t].key]
    BY <1>1, <1>3 DEF Doing, Looked, Keyless
  <2> QED
    BY <1>2, <1>3, <2>1 DEF Doing, Return, Abstract!Return, Abstract!Outcome, Abstract!Effect
<1>4. CASE Doing(t, {"Begin"}) /\ Leave(t, Return(found[t]))
  <2>1. found[t] = FirstElement
    BY <1>1, <1>4 DEF Doing, Looked
  <2>2. FirstElement = Abstract!FirstElement(store)
    <3>1. CASE Present = {}
      BY <3>1 DEF FirstElement, Abstract!FirstElement, Abstract!First, Abstract!Present, Present
    <3> QED
      BY <3>1, FirstOne
  <2> QED
    BY <1>2, <1>4, <2>1, <2>2 DEF Doing, Return, Abstract!Return, Abstract!Outcome, Abstract!Effect
<1>5. CASE Doing(t, {"End", "Size", "IsEmpty", "MaxSize"}) /\ Leave(t, Count(found[t]))
  <2>1. found[t] = IF call[t].op \in {"Size", "IsEmpty"} THEN Cardinality(Present) ELSE 0
    BY <1>1, <1>5 DEF Doing, Looked, Keyless
  <2>2. Count(found[t]) = Abstract!Outcome(call[t], store)
    <3>1. CASE call[t].op \in {"Size", "IsEmpty"}
      <4>1. Abstract!Present(store) = Present
        BY DEF Abstract!Present, Present
      <4>2. found[t] = Cardinality(Present)
        BY <2>1, <3>1
      <4>3. Abstract!Outcome(call[t], store) = Abstract!Count(Abstract!Cardinality(Abstract!Present(store)))
        BY <3>1 DEF Abstract!Outcome
      <4>4. \A S : Abstract!Cardinality(S) = Cardinality(S)
        BY Zenon DEF Abstract!Cardinality, Cardinality
      <4> QED
        BY <4>1, <4>2, <4>3, <4>4 DEF Count, Abstract!Count
    <3>2. CASE call[t].op \in {"End", "MaxSize"}
      <4>1. found[t] = 0
        BY <2>1, <3>2
      <4>2. Abstract!Outcome(call[t], store) = Abstract!Count(0)
        BY <3>2 DEF Abstract!Outcome
      <4> QED
        BY <4>1, <4>2 DEF Count, Abstract!Count
    <3> QED
      BY <1>5, <3>1, <3>2 DEF Doing
  <2> QED
    BY <1>2, <1>5, <2>2 DEF Doing, Abstract!Effect
<1>6. CASE FindEx(t)
  <2>1. found[t] = store[call[t].key]
    BY <1>1, <1>6 DEF FindEx, Doing, Looked, Keyless
  <2> QED
    BY <1>2, <1>6, <2>1 DEF FindEx, Doing, Return, Throw, Abstract!Return, Abstract!Throw,
                            Abstract!Outcome, Abstract!Effect
<1> QED
  BY <1>3, <1>4, <1>5, <1>6 DEF Read, Doing

\* Pop of a map erases by its key, and no other key holds what it found; Pop of a
\* set erases what begin() found.
LEMMA PopActs == ASSUME MapInv, NEW t \in Thread, Pop(t) PROVE MapInv' /\ Abstract!Act(t)
<1>1. pc[t] = "found" /\ found[t] = Looked(call[t]) /\ Called(call[t])
  BY DEF Pop, Doing, MapInv, FoundInv, CallInv
<1>2. CASE call[t].op = "Pop"
  <2>1. call[t].key \in Key /\ found[t] = store[call[t].key] /\ kind = "RawMap" /\ call[t].op \in WriteOp
    BY <1>1, <1>2 DEF Looked, Keyless, Called, ReadOp, WriteOp, MapInv, TypeInv
  <2>2. \A k \in Key : store[k] = found[t] /\ found[t] # 0 => k = call[t].key
    BY <2>1 DEF MapInv, OneEach
  <2>3. store' = [k \in Key |-> IF k \in {call[t].key} THEN 0 ELSE store[k]]
    <3>1. CASE found[t] = 0 /\ store' = store
      BY <2>1, <3>1 DEF MapInv, TypeInv
    <3>2. CASE store' = [k \in Key |-> IF k = call[t].key \/ store[k] = found[t] THEN 0 ELSE store[k]]
      BY <2>2, <3>2
    <3> QED
      BY <3>1, <3>2 DEF Pop
  <2>4. store' = Abstract!Effect(call[t], store)
    BY <1>2, <2>3 DEF Abstract!Effect, Abstract!Remove
  <2>5. Leave(t, Abstract!Outcome(call[t], store))
    BY <1>2, <2>1 DEF Pop, Return, Throw, Abstract!Return, Abstract!Throw, Abstract!Outcome
  <2>6. MapInv'
    BY <1>1, <2>1, <2>3, <2>5, StoreShrinks, LeavesKeep
  <2> QED
    BY <1>1, <2>4, <2>5, <2>6, ActFrame
<1>3. CASE call[t].op = "PopFirst"
  <2>1. call[t].key = 0 /\ found[t] = FirstElement /\ kind = "RawSet" /\ call[t].op \in WriteOp
    BY <1>1, <1>3 DEF Looked, Keyless, Called, ReadOp, WriteOp, MapInv, TypeInv
  <2>2. CASE Present = {}
    <3>1. found[t] = 0 /\ store' = store /\ Abstract!First(store) = {}
      BY <2>1, <2>2 DEF Pop, FirstElement, Abstract!First, Abstract!Present, Present
    <3>2. store' = Abstract!Effect(call[t], store)
      BY <1>3, <3>1 DEF Abstract!Effect, Abstract!Remove, MapInv, TypeInv
    <3>3. Leave(t, Abstract!Outcome(call[t], store))
      BY <1>3, <2>1, <2>2, <3>1 DEF Pop, Throw, Abstract!Throw, Abstract!Outcome, Abstract!Present, Present
    <3> QED
      BY <1>1, <2>1, <3>1, <3>2, <3>3, StoreShrinks, LeavesKeep, ActFrame
  <2>3. CASE Present # {}
    <3>1. PICK k \in Present : /\ Abstract!First(store) = {k}
                               /\ FirstElement = store[k] /\ Abstract!FirstElement(store) = store[k]
      BY <2>3, FirstOne
    <3>2. k \in Key /\ found[t] = store[k] /\ found[t] # 0
      BY <2>1, <3>1 DEF Present
    <3>3. store' = [j \in Key |-> IF j = call[t].key \/ store[j] = found[t] THEN 0 ELSE store[j]]
      BY <3>2 DEF Pop
    <3>4. \A j \in Key : (j = call[t].key \/ store[j] = found[t]) <=> j \in {k}
      BY <2>1, <3>2 DEF MapInv, OneEach
    <3>5. store' = [j \in Key |-> IF j \in {k} THEN 0 ELSE store[j]]
      BY <3>3, <3>4
    <3>6. store' = Abstract!Effect(call[t], store)
      BY <1>3, <3>1, <3>5 DEF Abstract!Effect, Abstract!Remove
    <3>7. Leave(t, Abstract!Outcome(call[t], store))
      BY <1>3, <2>3, <3>1, <3>2 DEF Pop, Return, Abstract!Return, Abstract!Outcome, Abstract!Present, Present
    <3>8. MapInv'
      BY <1>1, <2>1, <3>5, <3>7, StoreShrinks, LeavesKeep
    <3> QED
      BY <1>1, <3>6, <3>7, <3>8, ActFrame
  <2> QED
    BY <2>2, <2>3
<1> QED
  BY <1>2, <1>3 DEF Pop, Doing

LEMMA EraseActs ==
    ASSUME MapInv, NEW t \in Thread, Erase(t) \/ Clear(t)
    PROVE  MapInv' /\ Abstract!Act(t)
<1>1. pc[t] = "found" /\ found[t] = Looked(call[t]) /\ Called(call[t])
  BY DEF Erase, Clear, Doing, MapInv, FoundInv, CallInv
<1>2. call[t].op \in WriteOp
  BY <1>1 DEF Erase, Clear, Doing, Called, ReadOp, WriteOp
<1>3. CASE Erase(t)
  <2>1. call[t].op = "Erase" /\ call[t].key \in Key /\ found[t] = store[call[t].key]
    BY <1>1, <1>3 DEF Erase, Doing, Looked, Keyless, Called
  <2>2. store' = [k \in Key |-> IF k \in {call[t].key} THEN 0 ELSE store[k]]
    BY <1>3, <2>1 DEF Erase, MapInv, TypeInv
  <2>3. store' = Abstract!Effect(call[t], store)
    BY <2>1, <2>2 DEF Abstract!Effect, Abstract!Remove
  <2>4. Leave(t, Abstract!Outcome(call[t], store))
    BY <1>3, <2>1 DEF Erase, Return, Abstract!Return, Abstract!Outcome
  <2>5. MapInv'
    BY <1>1, <1>2, <2>2, <2>4, StoreShrinks, LeavesKeep
  <2> QED
    BY <1>1, <2>3, <2>4, <2>5, ActFrame
<1>4. CASE Clear(t)
  <2>1. call[t].op = "Clear"
    BY <1>4 DEF Clear, Doing
  <2>2. store' = [k \in Key |-> IF k \in Key THEN 0 ELSE store[k]]
    BY <1>4 DEF Clear
  <2>3. store' = Abstract!Effect(call[t], store)
    BY <2>1, <2>2 DEF Abstract!Effect, Abstract!Remove
  <2>4. Leave(t, Abstract!Outcome(call[t], store))
    BY <1>4, <2>1 DEF Clear, Count, Abstract!Count, Abstract!Outcome
  <2>5. MapInv'
    BY <1>1, <1>2, <2>2, <2>4, StoreShrinks, LeavesKeep
  <2> QED
    BY <1>1, <2>3, <2>4, <2>5, ActFrame
<1> QED
  BY <1>3, <1>4

\* What is inserted is in no other place.
LEMMA InsertActs ==
    ASSUME MapInv, NEW t \in Thread, Insert(t) \/ OnlyInsert(t)
    PROVE  MapInv' /\ Abstract!Act(t)
<1> DEFINE key == call[t].key
           x == call[t].object
           Added == IF store[key] = 0 THEN [store EXCEPT ![key] = x] ELSE store
<1>1. /\ pc[t] = "found" /\ found[t] = Looked(call[t]) /\ Called(call[t])
      /\ call[t].op \in {"Insert", "OnlyInsert"}
  BY DEF Insert, OnlyInsert, Doing, MapInv, FoundInv, CallInv
<1>2. call[t].op \in WriteOp /\ key \in Key /\ found[t] = store[key]
  BY <1>1 DEF Called, Looked, Keyless, ReadOp, WriteOp
<1>3. x \in Object /\ \A k \in Key : store[k] # x
  BY <1>1 DEF Called, MapInv, TypeInv, OneEach, Object
<1>4. store' = Added
  BY <1>2 DEF Insert, OnlyInsert
<1>5. Leave(t, Return(Added[key]))
  BY <1>2, <1>4 DEF Insert, OnlyInsert, MapInv, TypeInv
<1>6. Added = Abstract!Effect(call[t], store) /\ Return(Added[key]) = Abstract!Outcome(call[t], store)
  BY <1>1 DEF Abstract!Effect, Abstract!Outcome, Abstract!Add, Return, Abstract!Return
<1>7. /\ Added \in [Key -> Object \cup {0}]
      /\ \A k \in Key : Added[k] \in {0, store[k], x}
      /\ \A j, k \in Key : Added[j] = Added[k] /\ Added[j] # 0 => j = k
  BY <1>2, <1>3 DEF MapInv, TypeInv, OneEach
<1> HIDE DEF Added
<1>8. MapInv'
  BY <1>1, <1>2, <1>4, <1>5, <1>7, LeavesKeep
<1> QED
  BY <1>1, <1>4, <1>5, <1>6, <1>8, ActFrame

LEMMA ActsKeep ==
    ASSUME MapInv, NEW t \in Thread,
           Read(t) \/ FindEx(t) \/ Pop(t) \/ Erase(t) \/ Clear(t) \/ Insert(t) \/ OnlyInsert(t)
    PROVE  MapInv' /\ Abstract!Act(t)
  BY ReadActs, PopActs, EraseActs, InsertActs

------------------------------------------------------------------------------
(* The theorems. *)

LEMMA MapStep == MapInv /\ [Next]_vars => MapInv'
<1> SUFFICES ASSUME MapInv, [Next]_vars PROVE MapInv'
  OBVIOUS
<1>1. ASSUME NEW t \in Thread, Step(t) \/ CallRead(t) \/ CallWrite(t) PROVE MapInv'
  BY <1>1, CallsKeep, LocksKeep, LookUpKeeps, ActsKeep DEF Step
<1>2. CASE UNCHANGED vars
  <2>1. TypeInv' /\ OneEach'
    BY <1>2 DEF vars, lockVars, MapInv, TypeInv, OneEach
  <2>2. CallInv' /\ LockInv'
    BY <1>2 DEF vars, lockVars, MapInv, CallInv, Called, LockInv, ReadOp, WriteOp
  <2>3. FoundInv'
    BY <1>2, SameLooked DEF vars, MapInv, FoundInv
  <2> QED
    BY <2>1, <2>2, <2>3 DEF MapInv
<1> QED
  BY <1>1, <1>2 DEF Next

\* Writers are alone and what a call found stays true until it acts on it, for
\* any number of threads, whatever they call and however the calls end.
THEOREM MapSafe == Spec => []MapOK
<1>1. MapInv => MapOK
  <2> SUFFICES ASSUME MapInv PROVE MapOK
    OBVIOUS
  <2>1. \A t \in Thread : pc[t] = "idle" <=> call[t] = NoCall
    BY OpsDisjoint DEF MapInv, CallInv, Called, NoCall
  <2>2. \A t \in Thread : (pc[t] \in {"in", "found"}) = (t \in readers \cup {writer})
    BY DEF MapInv, LockInv
  <2>3. \A t \in Thread : pc[t] = "found" /\ call[t].key # 0 => found[t] = store[call[t].key]
    BY DEF MapInv, FoundInv, CallInv, Called, Looked, Keyless
  <2> QED
    BY <2>1, <2>2, <2>3 DEF MapOK, MapInv, TypeInv, LockInv
<1> QED
  BY <1>1, MapStart, MapStep, PTL DEF Spec

\* Every operation of RawMap and RawSet is atomic.
THEOREM MapIsAtomic == Spec => ActsAtomically
<1>1. Init => Abstract!Init
  BY DEF Init, Abstract!Init, NoCall, Abstract!NoCall, Count, Abstract!Count
<1>2. MapInv /\ [Next]_vars => [Abstract!Next]_<<store, call, reply>>
  <2> SUFFICES ASSUME MapInv, [Next]_vars PROVE [Abstract!Next]_<<store, call, reply>>
    OBVIOUS
  <2>1. ASSUME NEW t \in Thread, CallRead(t) \/ CallWrite(t) PROVE Abstract!Start(t)
    <3>1. PICK c : Called(c)' /\ call' = [call EXCEPT ![t] = c]
      BY <2>1, CallsKeep
    <3>2. c \in Abstract!Call
      <4>1. made' \in 0 .. MaxObject
        BY <2>1, CallsKeep DEF MapInv, TypeInv
      <4>2. c.object \in Object \cup {0}
        BY <3>1, <4>1 DEF Called, Object
      <4>3. c.op \in Abstract!ReadOp \cup Abstract!WriteOp
        BY <3>1 DEF Called, ReadOp, WriteOp, Abstract!ReadOp, Abstract!WriteOp
      <4> QED
        BY <3>1, <4>2, <4>3 DEF Called, Abstract!Call, Abstract!Object, Object
    <3>3. call[t] = Abstract!NoCall
      BY <2>1 DEF CallRead, CallWrite, MapInv, CallInv, NoCall, Abstract!NoCall
    <3> QED
      BY <2>1, <3>1, <3>2, <3>3 DEF CallRead, CallWrite, Abstract!Start, Count, Abstract!Count
  <2>2. ASSUME NEW t \in Thread, WriteLock(t) \/ ReadLock(t) \/ LookUp(t)
        PROVE  UNCHANGED <<store, call, reply>>
    BY <2>2 DEF WriteLock, ReadLock, LookUp
  <2>3. CASE UNCHANGED vars
    BY <2>3 DEF vars
  <2> QED
    BY <2>1, <2>2, <2>3, ActsKeep DEF Next, Step, Abstract!Next
<1> QED
  BY <1>1, <1>2, MapStart, MapStep, PTL DEF Spec, ActsAtomically, Abstract!Spec
=============================================================================
