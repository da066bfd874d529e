----------------------------- MODULE BoundedFifo -----------------------------
(***************************************************************************)
(* What the circular queue promises its callers: a first-in-first-out      *)
(* queue of messages that charges every message its length plus a fixed    *)
(* overhead against a budget of Capacity bytes.  ElementOp, the byte       *)
(* layout in shared memory, and CircularQueue, the blocking interface,     *)
(* are both shown to implement it.                                         *)
(***************************************************************************)
EXTENDS Integers, Sequences

CONSTANTS Capacity,   \* bytes the queue may hold
          Overhead,   \* bytes charged per message on top of its own length
          Message     \* the messages that may be put

VARIABLES queue,      \* the messages held, oldest first
          room,       \* bytes still free
          taken       \* the message the latest Get returned

vars == <<queue, room, taken>>

Cost(m) == Overhead + Len(m)

Init == queue = << >> /\ room = Capacity /\ taken = << >>

Put(m) == /\ m # << >>
          /\ Cost(m) <= room
          /\ queue' = Append(queue, m)
          /\ room' = room - Cost(m)
          /\ UNCHANGED taken

Get == /\ queue # << >>
       /\ taken' = Head(queue)
       /\ queue' = Tail(queue)
       /\ room' = room + Cost(Head(queue))

Next == Get \/ \E m \in Message : Put(m)

Spec == Init /\ [][Next]_vars
==============================================================================
