------------------------------ MODULE ElementOp ------------------------------
(***************************************************************************)
(* The byte layout of the circular queue: QMetaOp's constructor and        *)
(* ElementOp::write and ElementOp::read of cl_queue_operation.cpp.         *)
(*                                                                         *)
(* The queue lives in one shared segment of Total bytes.  An element is a  *)
(* header of HeaderSize bytes followed by its body, stored from headIndex  *)
(* on and wrapped at the end of the segment: at the seam the header is     *)
(* cut, or the body is cut, or the cut falls between them, and the first   *)
(* header byte (writeCase) tells the reader which.  Memory here is an      *)
(* array of numbers, so a reader that looks in the wrong place reads the   *)
(* wrong number.  The 8 bytes of bodyLen are one cell.  serialNO, the      *)
(* operation time and pid, which nothing reads back to decide anything,    *)
(* are left out.                                                           *)
(*                                                                         *)
(* Callers hold the mutex and have checked that the element fits; the      *)
(* module CircularQueue models them.                                       *)
(***************************************************************************)
EXTENDS Integers, Sequences

CONSTANTS Total,        \* qTotalSize: the bytes of the segment after QMeta
          HeaderSize,   \* sizeof(ElementHeader)
          Message       \* the bodies a caller may pass, the empty one included

\* QMetaOp's constructor refuses a segment that cannot hold one header and a byte.
ASSUME RingAssumption ==
    /\ HeaderSize \in Nat /\ HeaderSize >= 2
    /\ Total \in Nat /\ Total > HeaderSize
    /\ Message \subseteq Seq(Nat)

VARIABLES mem,           \* the bytes after QMeta
          headIndex,     \* where the next element is written
          tailIndex,     \* where the oldest element starts
          qLeftSize,     \* bytes free
          elementCount,  \* elements held
          data,          \* the body the latest read handed back
          outcome,       \* how the latest read or write ended
          fifo           \* history: the elements held, oldest first, and where each starts

ringVars == <<mem, headIndex, tailIndex, qLeftSize, elementCount, data, outcome, fifo>>

Cells == 0 .. Total - 1

\* An element held: its body and where its header starts.
Element == [msg : Message \ {<< >>}, at : Cells]

\* The creator's constructor, over a fresh segment (zero-filled).
RingInit ==
    /\ mem = [i \in Cells |-> 0]
    /\ headIndex = 0
    /\ tailIndex = 0
    /\ qLeftSize = Total
    /\ elementCount = 0
    /\ data = << >>
    /\ outcome = "none"
    /\ fifo = << >>

------------------------------------------------------------------------------
(* Byte copies. *)

\* memcpy of n bytes of src, from its byte number from (counted from 0), to offset at.
Copy(dst, at, src, from, n) ==
    [i \in Cells |-> IF i \in at .. (at + n - 1) THEN src[from + 1 + (i - at)] ELSE dst[i]]

\* What a reader finds at offset i; beyond the segment nothing was ever stored.
Byte(i) == IF i \in Cells THEN mem[i] ELSE 0

\* n bytes read from offset at.
Load(at, n) == [i \in 1 .. n |-> Byte(at + i - 1)]

\* n bytes of which the first n0 are read from offset at and the rest from 0.
LoadSplit(at, n0, n) ==
    [i \in 1 .. n |-> IF i <= n0 THEN Byte(at + i - 1) ELSE Byte(i - n0 - 1)]

\* An ElementHeader: writeCase first, then bodyLen, then bytes nobody reads.
Header(case, len) ==
    [i \in 1 .. HeaderSize |-> CASE i = 1 -> case [] i = 2 -> len [] OTHER -> 0]

------------------------------------------------------------------------------
(* Where the used bytes are, and how an element meets the end of the segment. *)

QueueScene == CASE headIndex > tailIndex -> 1
                [] headIndex < tailIndex -> 2
                [] headIndex = tailIndex /\ elementCount = 0 -> 3
                [] OTHER -> 4

\* The five cases for a body of len bytes whose header starts at offset at.
QueueWriteCase(at, len) ==
    CASE Total > at + HeaderSize + len -> 1
      [] Total = at + HeaderSize + len -> 2
      [] Total < at + HeaderSize       -> 3
      [] Total > at + HeaderSize /\ Total < at + HeaderSize + len -> 4
      [] OTHER -> 5

------------------------------------------------------------------------------
(* ElementOp::write. *)

\* The part of write that chooses a route; whatever fails here throws ValueError.
CanWrite(m) ==
    /\ Len(m) # 0
    /\ Total >= headIndex + 1
    /\ QueueScene # 4
    /\ QueueScene = 2 => tailIndex >= headIndex + HeaderSize + Len(m)

\* Header and body in one piece (routes 1 and 5); only route 1 closes the ring.
StoreWhole(m, case) ==
    /\ QueueScene = 2 \/ case \in {1, 2}
    /\ mem' = Copy(Copy(mem, headIndex, Header(case, Len(m)), 0, HeaderSize),
                   headIndex + HeaderSize, m, 0, Len(m))
    /\ headIndex' = IF QueueScene # 2 /\ case = 2 THEN 0 ELSE headIndex + HeaderSize + Len(m)

\* Route 2: the header itself is cut at the end of the segment.
StoreHeaderCut(m, case) ==
    LET size0 == Total - headIndex
        size1 == HeaderSize - size0
        h == Header(case, Len(m))
    IN /\ QueueScene # 2 /\ case = 3
       /\ mem' = Copy(Copy(Copy(mem, headIndex, h, 0, size0), 0, h, size0, size1),
                      size1, m, 0, Len(m))
       /\ headIndex' = Len(m) + size1

\* Route 3: the body is cut.
StoreBodyCut(m, case) ==
    LET size0 == Total - headIndex - HeaderSize
        size1 == Len(m) - size0
    IN /\ QueueScene # 2 /\ case = 4
       /\ mem' = Copy(Copy(Copy(mem, headIndex, Header(case, Len(m)), 0, HeaderSize),
                           headIndex + HeaderSize, m, 0, size0),
                      0, m, size0, size1)
       /\ headIndex' = size1

\* Route 4: the header ends exactly at the end and the body starts at 0.
StoreBodyAtZero(m, case) ==
    /\ QueueScene # 2 /\ case = 5
    /\ mem' = Copy(Copy(mem, headIndex, Header(case, Len(m)), 0, HeaderSize), 0, m, 0, Len(m))
    /\ headIndex' = Len(m)

Write(m) ==
    /\ CanWrite(m)
    /\ LET case == QueueWriteCase(headIndex, Len(m))
       IN \/ StoreWhole(m, case)
          \/ StoreHeaderCut(m, case)
          \/ StoreBodyCut(m, case)
          \/ StoreBodyAtZero(m, case)
    /\ qLeftSize' = qLeftSize - (HeaderSize + Len(m))
    /\ elementCount' = elementCount + 1
    /\ outcome' = IF Total < headIndex' + 1 THEN "corrupt" ELSE "ok"
    /\ fifo' = Append(fifo, [msg |-> m, at |-> headIndex])
    /\ UNCHANGED <<tailIndex, data>>

\* write throws ValueError and changes nothing.
WriteThrows(m) ==
    /\ ~CanWrite(m)
    /\ outcome' = IF Len(m) = 0 THEN "emptyBody" ELSE "corrupt"
    /\ UNCHANGED <<mem, headIndex, tailIndex, qLeftSize, elementCount, data, fifo>>

------------------------------------------------------------------------------
(* ElementOp::read. *)

\* The writeCase byte, which decides the route unless the used bytes are contiguous.
StoredCase == Byte(tailIndex)

\* The header as the route reads it: in one piece, or in two when it was cut.
LoadedHeader ==
    IF QueueScene # 1 /\ StoredCase = 3
    THEN LoadSplit(tailIndex, Total - tailIndex, HeaderSize)
    ELSE Load(tailIndex, HeaderSize)

BodyLen == LoadedHeader[2]

\* Read route 1: everything between tailIndex and headIndex is used.
CanTakeDirect ==
    /\ QueueScene = 1
    /\ headIndex >= tailIndex + HeaderSize
    /\ BodyLen # 0
    /\ headIndex >= tailIndex + HeaderSize + BodyLen

\* Read route 2: the element was stored in one piece.
CanTakeWhole ==
    /\ QueueScene \in {2, 4} /\ StoredCase \in {1, 2}
    /\ BodyLen # 0
    /\ Total >= tailIndex + HeaderSize + BodyLen

\* Seeded fault: an element that reaches up to headIndex exactly is turned down.
CanTakeHeaderCutStrict ==
    /\ QueueScene \in {2, 4} /\ StoredCase = 3
    /\ BodyLen # 0
    /\ headIndex > HeaderSize - (Total - tailIndex) + BodyLen

\* Read route 3: the header was cut.
CanTakeHeaderCut ==
    /\ QueueScene \in {2, 4} /\ StoredCase = 3
    /\ BodyLen # 0
    /\ headIndex >= HeaderSize - (Total - tailIndex) + BodyLen

\* Read route 4: the body was cut.
CanTakeBodyCut ==
    /\ QueueScene \in {2, 4} /\ StoredCase = 4
    /\ BodyLen # 0
    /\ Total >= tailIndex + HeaderSize + 1

\* Read route 5: the body starts at 0.
CanTakeBodyAtZero ==
    /\ QueueScene \in {2, 4} /\ StoredCase = 5
    /\ Total = tailIndex + HeaderSize
    /\ BodyLen # 0

TakeDirect ==
    /\ CanTakeDirect
    /\ data' = Load(tailIndex + HeaderSize, BodyLen)
    /\ tailIndex' = tailIndex + HeaderSize + BodyLen

TakeWhole ==
    /\ CanTakeWhole
    /\ data' = Load(tailIndex + HeaderSize, BodyLen)
    /\ tailIndex' = IF StoredCase = 1 THEN tailIndex + HeaderSize + BodyLen ELSE 0

TakeHeaderCut ==
    LET size1 == HeaderSize - (Total - tailIndex)
    IN /\ CanTakeHeaderCut
       /\ data' = Load(size1, BodyLen)
       /\ tailIndex' = size1 + BodyLen

\* Seeded fault: a cut body is read on past the end of the segment.
TakeBodyUncut ==
    LET size0 == Total - tailIndex - HeaderSize
    IN /\ CanTakeBodyCut
       /\ data' = Load(tailIndex + HeaderSize, BodyLen)
       /\ tailIndex' = BodyLen - size0

TakeBodyCut ==
    LET size0 == Total - tailIndex - HeaderSize
    IN /\ CanTakeBodyCut
       /\ data' = LoadSplit(tailIndex + HeaderSize, size0, BodyLen)
       /\ tailIndex' = BodyLen - size0

TakeBodyAtZero ==
    /\ CanTakeBodyAtZero
    /\ data' = Load(0, BodyLen)
    /\ tailIndex' = BodyLen

IndicesReadable ==
    /\ Total >= headIndex + 1
    /\ QueueScene \in {2, 4} => Total >= tailIndex + 1

CanRead == /\ IndicesReadable
           /\ \/ CanTakeDirect \/ CanTakeWhole \/ CanTakeHeaderCut
              \/ CanTakeBodyCut \/ CanTakeBodyAtZero

Read ==
    /\ IndicesReadable
    /\ TakeDirect \/ TakeWhole \/ TakeHeaderCut \/ TakeBodyCut \/ TakeBodyAtZero
    /\ qLeftSize' = qLeftSize + (HeaderSize + BodyLen)
    /\ elementCount' = elementCount - 1
    /\ outcome' = "ok"
    /\ fifo' = Tail(fifo)
    /\ UNCHANGED <<mem, headIndex>>

\* read throws ValueError and changes nothing.
ReadThrows ==
    /\ ~CanRead
    /\ outcome' = IF QueueScene = 3 THEN "noElement" ELSE "corrupt"
    /\ UNCHANGED <<mem, headIndex, tailIndex, qLeftSize, elementCount, data, fifo>>

------------------------------------------------------------------------------

\* "has enough space to write": what the caller of write has checked.
Fits(m) == HeaderSize + Len(m) <= qLeftSize

RingNext == \/ \E m \in Message : Fits(m) /\ (Write(m) \/ WriteThrows(m))
            \/ Read
            \/ ReadThrows

RingSpec == RingInit /\ [][RingNext]_ringVars

------------------------------------------------------------------------------
(* Ring geometry, for the invariants: positions are compared by how far      *)
(* ahead of tailIndex they are.                                              *)

Wrap(p) == IF p < Total THEN p ELSE p - Total

AheadFrom(t, p) == IF p >= t THEN p - t ELSE p - t + Total

Ahead(p) == AheadFrom(tailIndex, p)

Used == Total - qLeftSize

SizeOf(e) == HeaderSize + Len(e.msg)

\* M holds the bytes s from offset at on, wrapped at the end of the segment.
Stores(M, at, s) ==
    \A c \in Cells :
        /\ c >= at /\ c < at + Len(s) => M[c] = s[c - at + 1]
        /\ c + Total >= at /\ c + Total < at + Len(s) => M[c] = s[c + Total - at + 1]

\* The indices stay inside the segment and the free count inside the budget:
\* write and read index _pQueue with them unchecked.
RingTypeOK ==
    /\ mem \in [Cells -> Nat]
    /\ headIndex \in Cells
    /\ tailIndex \in Cells
    /\ qLeftSize \in 0 .. Total
    /\ elementCount \in Nat
    /\ data \in Seq(Nat)
    /\ outcome \in {"none", "ok", "emptyBody", "noElement", "corrupt"}
    /\ fifo \in Seq(Element)

\* The elements lie one behind the other from tailIndex to headIndex, none
\* overlaps another, and qLeftSize is exactly what they leave: the two
\* indices, the count and the free bytes that write and read keep separately agree.
Accounted ==
    /\ elementCount = Len(fifo)
    /\ headIndex = Wrap(tailIndex + Used)
    /\ fifo = << >> => Used = 0
    /\ fifo # << >> =>
         /\ fifo[1].at = tailIndex
         /\ Ahead(fifo[Len(fifo)].at) + SizeOf(fifo[Len(fifo)]) = Used
    /\ \A i \in 1 .. Len(fifo) - 1 :
         Ahead(fifo[i + 1].at) = Ahead(fifo[i].at) + SizeOf(fifo[i])
    /\ \A i \in 1 .. Len(fifo) : Ahead(fifo[i].at) + SizeOf(fifo[i]) <= Used
    /\ \A i, j \in 1 .. Len(fifo) :
         i < j => Ahead(fifo[i].at) + SizeOf(fifo[i]) <= Ahead(fifo[j].at)

\* Every byte of every element held is still where write put it: no later
\* write, on whichever route, runs over an element that was not read yet.
Intact ==
    \A i \in 1 .. Len(fifo) :
        LET e == fifo[i]
        IN /\ Stores(mem, e.at, Header(QueueWriteCase(e.at, Len(e.msg)), Len(e.msg)))
           /\ Stores(mem, e.at + HeaderSize, e.msg)

\* No caller that respects the contract ("has enough space to write", at least
\* one element to read, a body that is not empty) gets a ValueError out of write or read.
NeverCorrupt == outcome # "corrupt"

\* The ring is a first-in-first-out queue of messages with a budget of Total
\* bytes: what read assembles from memory is the oldest message, unaltered.
Fifo == INSTANCE BoundedFifo WITH
            Capacity <- Total, Overhead <- HeaderSize,
            queue <- [i \in 1 .. Len(fifo) |-> fifo[i].msg],
            room <- qLeftSize, taken <- data

FifoSpec == Fifo!Spec
==============================================================================
