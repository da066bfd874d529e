-------------------------- MODULE CircularQueueProofs --------------------------
(***************************************************************************)
(* The byte layout first: for every segment size, header size and set of   *)
(* messages RingInv is inductive, and the ring implements BoundedFifo.     *)
(* Then the queue around it: for any number of threads and any ring the    *)
(* mutex and the sleepers stay consistent, the ring is only used as        *)
(* ElementOp requires, so the whole queue is first-in first-out; and a     *)
(* single producer and a single consumer never miss a wake-up and never    *)
(* sleep together.                                                         *)
(***************************************************************************)
EXTENDS CircularQueue, FiniteSetTheorems, SequenceTheorems, TLAPS

(* The layout: RingInv. *)

RingInv == RingTypeOK /\ Accounted /\ Intact /\ NeverCorrupt

------------------------------------------------------------------------------
(* Copies. *)

\* C is dst with the n cells from at on taken from src, from its byte number from on.
IsCopy(C, dst, at, src, from, n) ==
    /\ C \in [Cells -> Nat]
    /\ \A i \in Cells : i >= at /\ i < at + n => C[i] = src[from + 1 + (i - at)]
    /\ \A i \in Cells : ~(i >= at /\ i < at + n) => C[i] = dst[i]

\* memcpy changes the n cells from at on and no other.
LEMMA CopyCells ==
    ASSUME NEW dst \in [Cells -> Nat], NEW src \in Seq(Nat), NEW at \in Int,
           NEW from \in Nat, NEW n \in Int, from + n <= Len(src)
    PROVE  IsCopy(Copy(dst, at, src, from, n), dst, at, src, from, n)
<1>0. Cells \subseteq Int
  BY RingAssumption DEF Cells
<1>1. ASSUME NEW i \in Cells, i >= at, i < at + n
      PROVE  from + 1 + (i - at) \in 1 .. Len(src)
  BY <1>0, <1>1
<1>2. ASSUME NEW i \in Cells PROVE i \in at .. (at + n - 1) <=> i >= at /\ i < at + n
  BY <1>0
<1>3. \A i \in Cells : i \in at .. (at + n - 1) => src[from + 1 + (i - at)] \in Nat
  BY <1>1, <1>2
<1> QED
  BY <1>2, <1>3 DEF Copy, IsCopy

\* A header is a sequence of HeaderSize numbers with the case and the length in front.
LEMMA HeaderBytes ==
    ASSUME NEW case \in Nat, NEW len \in Nat
    PROVE  /\ Header(case, len) \in Seq(Nat)
           /\ Len(Header(case, len)) = HeaderSize
           /\ Header(case, len)[1] = case
           /\ Header(case, len)[2] = len
  BY RingAssumption DEF Header

\* The five cases exclude one another.
LEMMA WriteCases ==
    ASSUME NEW at \in Nat, NEW len \in Nat
    PROVE  /\ QueueWriteCase(at, len) \in 1 .. 5
           /\ QueueWriteCase(at, len) = 1 <=> Total > at + HeaderSize + len
           /\ QueueWriteCase(at, len) = 2 <=> Total = at + HeaderSize + len
           /\ QueueWriteCase(at, len) = 3 <=> Total < at + HeaderSize
           /\ QueueWriteCase(at, len) = 4 <=>
                 Total > at + HeaderSize /\ Total < at + HeaderSize + len
           /\ QueueWriteCase(at, len) = 5 => Total = at + HeaderSize
  BY RingAssumption DEF QueueWriteCase

------------------------------------------------------------------------------
(* Geometry. *)

\* A sequence that is not empty has a last element.
LEMMA NonEmpty ==
    ASSUME NEW S, NEW s \in Seq(S), s # << >>
    PROVE  Len(s) \in Nat /\ Len(s) >= 1 /\ \A i \in 1 .. Len(s) : s[i] \in S
  OBVIOUS

\* The scene tells how many bytes are used.
LEMMA Scenes ==
    ASSUME RingTypeOK, Accounted
    PROVE  /\ QueueScene \in 1 .. 4
           /\ Used \in 0 .. Total
           /\ QueueScene = 1 => headIndex = tailIndex + Used /\ Used > 0
           /\ QueueScene = 2 => headIndex + Total = tailIndex + Used /\ Used < Total
           /\ QueueScene = 3 => headIndex = tailIndex /\ Used = 0 /\ fifo = << >>
           /\ QueueScene = 4 => headIndex = tailIndex /\ Used = Total /\ fifo # << >>
           /\ fifo = << >> => QueueScene = 3
<1>1. /\ Used \in 0 .. Total /\ headIndex \in Nat /\ tailIndex \in Nat
      /\ headIndex < Total /\ tailIndex < Total
  BY RingAssumption DEF RingTypeOK, Used, Cells
<1>2. elementCount = 0 <=> fifo = << >>
  BY DEF RingTypeOK, Accounted
<1>3. fifo = << >> => Used = 0
  BY DEF Accounted
<1>4. fifo # << >> => Used > 0
  <2> SUFFICES ASSUME fifo # << >> PROVE Used > 0
    OBVIOUS
  <2>1. Len(fifo) \in 1 .. Len(fifo) /\ fifo[Len(fifo)] \in Element
    BY NonEmpty DEF RingTypeOK
  <2>2. Ahead(fifo[Len(fifo)].at) \in Nat /\ SizeOf(fifo[Len(fifo)]) > 0
        /\ SizeOf(fifo[Len(fifo)]) \in Nat
    BY <2>1, <1>1, RingAssumption DEF Ahead, AheadFrom, SizeOf, Cells, Element
  <2> QED
    BY <2>1, <2>2, <1>1 DEF Accounted
<1>5. headIndex = Wrap(tailIndex + Used)
  BY DEF Accounted
<1> QED
  BY <1>1, <1>2, <1>3, <1>4, <1>5, RingAssumption DEF QueueScene, Wrap

\* What each element held looks like.
LEMMA Elements ==
    ASSUME RingTypeOK, NEW i \in 1 .. Len(fifo)
    PROVE  /\ fifo[i] \in Element
           /\ fifo[i].msg \in Seq(Nat)
           /\ Len(fifo[i].msg) \in Nat /\ Len(fifo[i].msg) >= 1
           /\ fifo[i].at \in Nat /\ fifo[i].at < Total
           /\ Ahead(fifo[i].at) \in Nat /\ Ahead(fifo[i].at) < Total
           /\ SizeOf(fifo[i]) = HeaderSize + Len(fifo[i].msg)
<1>1. fifo \in Seq(Element)
  BY DEF RingTypeOK
<1>2. fifo[i] \in Element
  BY <1>1
<1>3. fifo[i].msg \in Seq(Nat) /\ fifo[i].msg # << >> /\ fifo[i].at \in Cells
  BY <1>2, RingAssumption DEF Element
<1>4. Len(fifo[i].msg) \in Nat /\ Len(fifo[i].msg) >= 1
  BY <1>3, NonEmpty
<1>5. fifo[i].at \in Nat /\ fifo[i].at < Total /\ tailIndex \in Nat /\ tailIndex < Total
  BY <1>3, RingAssumption DEF RingTypeOK, Cells
<1>6. Ahead(fifo[i].at) \in Nat /\ Ahead(fifo[i].at) < Total
  BY <1>5, RingAssumption DEF Ahead, AheadFrom
<1> QED
  BY <1>2, <1>3, <1>4, <1>5, <1>6 DEF SizeOf

------------------------------------------------------------------------------
(* write. *)

\* Cell c lies in the size bytes from at on, around the end of the segment.
Covered(c, at, size) == \/ at <= c /\ c < at + size
                        \/ at <= c + Total /\ c + Total < at + size

\* write puts the header and the body one behind the other from headIndex on,
\* wrapped, touches no other byte, and leaves headIndex just after them.
LEMMA WriteStores ==
    ASSUME RingTypeOK, Accounted, NEW m \in Message, Fits(m), Write(m),
           NEW case, case = QueueWriteCase(headIndex, Len(m))
    PROVE  /\ headIndex' \in Cells
           /\ headIndex' = Wrap(headIndex + HeaderSize + Len(m))
           /\ mem' \in [Cells -> Nat]
           /\ Stores(mem', headIndex, Header(case, Len(m)))
           /\ Stores(mem', headIndex + HeaderSize, m)
           /\ \A c \in Cells : ~Covered(c, headIndex, HeaderSize + Len(m)) => mem'[c] = mem[c]
<1> DEFINE n == Len(m)
           h == Header(case, n)
<1>1. m \in Seq(Nat) /\ n = Len(m) /\ n # 0 /\ mem \in [Cells -> Nat]
  BY RingAssumption DEF RingTypeOK, Write, CanWrite
<1>2. /\ headIndex \in Nat /\ headIndex < Total /\ tailIndex \in Nat /\ tailIndex < Total
      /\ HeaderSize \in Nat /\ HeaderSize >= 2 /\ Total \in Nat /\ n \in Nat /\ n >= 1
      /\ HeaderSize + n <= Total - Used /\ Used \in Nat
      /\ QueueScene = 2 => headIndex + HeaderSize + n < Total
  <2>1. /\ QueueScene \in {1, 2, 3} /\ Used \in 0 .. Total
        /\ QueueScene = 2 => headIndex + Total = tailIndex + Used
    BY Scenes DEF Write, CanWrite
  <2> QED
    BY <1>1, <2>1, RingAssumption DEF RingTypeOK, Cells, Fits, Used
<1>3. /\ case \in 1 .. 5
      /\ case = 1 <=> Total > headIndex + HeaderSize + n
      /\ case = 2 <=> Total = headIndex + HeaderSize + n
      /\ case = 3 <=> Total < headIndex + HeaderSize
      /\ case = 4 <=> Total > headIndex + HeaderSize /\ Total < headIndex + HeaderSize + n
      /\ case = 5 => Total = headIndex + HeaderSize
  BY <1>2, WriteCases
<1> HIDE DEF n
<1>8. h \in Seq(Nat) /\ Len(h) = HeaderSize
  <2>1. case \in Nat /\ n \in Nat
    BY <1>2, <1>3
  <2> QED
    BY <2>1, HeaderBytes
<1> HIDE DEF h
<1>4. CASE StoreWhole(m, case)
  <2> DEFINE M1 == Copy(mem, headIndex, h, 0, HeaderSize)
             M2 == Copy(M1, headIndex + HeaderSize, m, 0, n)
  <2>1. case \in {1, 2} /\ headIndex + HeaderSize + n <= Total
    BY <1>2, <1>3, <1>4 DEF StoreWhole
  <2>2. mem' = M2 /\ headIndex' = IF QueueScene # 2 /\ case = 2 THEN 0 ELSE headIndex + HeaderSize + n
    BY <1>4 DEF StoreWhole, n, h
  <2>3. IsCopy(M1, mem, headIndex, h, 0, HeaderSize)
    <3>1. /\ mem \in [Cells -> Nat] /\ h \in Seq(Nat) /\ headIndex \in Int
          /\ 0 \in Nat /\ HeaderSize \in Int /\ 0 + HeaderSize <= Len(h)
      BY <1>1, <1>2, <1>8, <2>1 DEF IsCopy
    <3> QED
      BY <3>1, CopyCells, Zenon
  <2> HIDE DEF M1
  <2>4. IsCopy(M2, M1, headIndex + HeaderSize, m, 0, n)
    <3>1. /\ M1 \in [Cells -> Nat] /\ m \in Seq(Nat) /\ headIndex + HeaderSize \in Int
          /\ 0 \in Nat /\ n \in Int /\ 0 + n <= Len(m)
      BY <1>1, <1>2, <1>8, <2>1, <2>3 DEF IsCopy
    <3> QED
      BY <3>1, CopyCells, Zenon
  <2> HIDE DEF M2
  <2>5. headIndex' \in Cells /\ headIndex' = Wrap(headIndex + HeaderSize + n)
    BY <1>2, <1>3, <2>1, <2>2 DEF Wrap, Cells
  <2>6. ASSUME NEW c \in Cells
       PROVE  /\ c >= headIndex /\ c < headIndex + HeaderSize => mem'[c] = h[c - headIndex + 1]
              /\ c + Total >= headIndex /\ c + Total < headIndex + HeaderSize
                   => mem'[c] = h[c + Total - headIndex + 1]
              /\ c >= headIndex + HeaderSize /\ c < headIndex + HeaderSize + n
                   => mem'[c] = m[c - (headIndex + HeaderSize) + 1]
              /\ c + Total >= headIndex + HeaderSize /\ c + Total < headIndex + HeaderSize + n
                   => mem'[c] = m[c + Total - (headIndex + HeaderSize) + 1]
              /\ ~Covered(c, headIndex, HeaderSize + n) => mem'[c] = mem[c]
    <3>1. c \in Nat /\ c < Total
      BY <1>2 DEF Cells
    <3>2. /\ c >= headIndex /\ c < headIndex + HeaderSize => M1[c] = h[0 + 1 + (c - (headIndex))]
          /\ ~(c >= headIndex /\ c < headIndex + HeaderSize) => M1[c] = mem[c]
      BY <2>3 DEF IsCopy
    <3>3. /\ c >= headIndex + HeaderSize /\ c < headIndex + HeaderSize + n => M2[c] = m[0 + 1 + (c - (headIndex + HeaderSize))]
          /\ ~(c >= headIndex + HeaderSize /\ c < headIndex + HeaderSize + n) => M2[c] = M1[c]
      BY <2>4 DEF IsCopy
    <3> QED
      BY <1>2, <2>1, <2>2, <3>1, <3>2, <3>3 DEF Covered
  <2> QED
    BY <1>1, <1>8, <2>2, <2>4, <2>5, <2>6 DEF n, h, IsCopy, Stores
<1>5. CASE StoreHeaderCut(m, case)
  <2> DEFINE size0 == Total - headIndex
             size1 == HeaderSize - size0
             M1 == Copy(mem, headIndex, h, 0, size0)
             M2 == Copy(M1, 0, h, size0, size1)
             M3 == Copy(M2, size1, m, 0, n)
  <2>1. /\ size0 \in Nat /\ size0 >= 1 /\ size1 \in Nat /\ size1 >= 1
        /\ headIndex + size0 = Total /\ size0 + size1 = HeaderSize
    BY <1>2, <1>3, <1>5 DEF StoreHeaderCut
  <2>2. mem' = M3 /\ headIndex' = n + size1
    BY <1>5 DEF StoreHeaderCut, n, h
  <2> HIDE DEF size0, size1
  <2>3. IsCopy(M1, mem, headIndex, h, 0, size0)
    <3>1. /\ mem \in [Cells -> Nat] /\ h \in Seq(Nat) /\ headIndex \in Int
          /\ 0 \in Nat /\ size0 \in Int /\ 0 + size0 <= Len(h)
      BY <1>1, <1>2, <1>8, <2>1 DEF IsCopy
    <3> QED
      BY <3>1, CopyCells, Zenon
  <2> HIDE DEF M1
  <2>4. IsCopy(M2, M1, 0, h, size0, size1)
    <3>1. /\ M1 \in [Cells -> Nat] /\ h \in Seq(Nat) /\ 0 \in Int
          /\ size0 \in Nat /\ size1 \in Int /\ size0 + size1 <= Len(h)
      BY <1>1, <1>2, <1>8, <2>1, <2>3 DEF IsCopy
    <3> QED
      BY <3>1, CopyCells, Zenon
  <2> HIDE DEF M2
  <2>5. IsCopy(M3, M2, size1, m, 0, n)
    <3>1. /\ M2 \in [Cells -> Nat] /\ m \in Seq(Nat) /\ size1 \in Int
          /\ 0 \in Nat /\ n \in Int /\ 0 + n <= Len(m)
      BY <1>1, <1>2, <1>8, <2>1, <2>3, <2>4 DEF IsCopy
    <3> QED
      BY <3>1, CopyCells, Zenon
  <2> HIDE DEF M3
  <2>6. headIndex' \in Cells /\ headIndex' = Wrap(headIndex + HeaderSize + n)
    BY <1>2, <1>3, <2>1, <2>2 DEF Wrap, Cells
  <2>7. ASSUME NEW c \in Cells
       PROVE  /\ c >= headIndex /\ c < headIndex + HeaderSize => mem'[c] = h[c - headIndex + 1]
              /\ c + Total >= headIndex /\ c + Total < headIndex + HeaderSize
                   => mem'[c] = h[c + Total - headIndex + 1]
              /\ c >= headIndex + HeaderSize /\ c < headIndex + HeaderSize + n
                   => mem'[c] = m[c - (headIndex + HeaderSize) + 1]
              /\ c + Total >= headIndex + HeaderSize /\ c + Total < headIndex + HeaderSize + n
                   => mem'[c] = m[c + Total - (headIndex + HeaderSize) + 1]
              /\ ~Covered(c, headIndex, HeaderSize + n) => mem'[c] = mem[c]
    <3>1. c \in Nat /\ c < Total
      BY <1>2 DEF Cells
    <3>2. /\ c >= headIndex /\ c < headIndex + size0 => M1[c] = h[0 + 1 + (c - (headIndex))]
          /\ ~(c >= headIndex /\ c < headIndex + size0) => M1[c] = mem[c]
      BY <2>3 DEF IsCopy
    <3>3. /\ c >= 0 /\ c < 0 + size1 => M2[c] = h[size0 + 1 + (c - (0))]
          /\ ~(c >= 0 /\ c < 0 + size1) => M2[c] = M1[c]
      BY <2>4 DEF IsCopy
    <3>4. /\ c >= size1 /\ c < size1 + n => M3[c] = m[0 + 1 + (c - (size1))]
          /\ ~(c >= size1 /\ c < size1 + n) => M3[c] = M2[c]
      BY <2>5 DEF IsCopy
    <3> QED
      BY <1>2, <2>1, <2>2, <3>1, <3>2, <3>3, <3>4 DEF Covered
  <2> QED
    BY <1>1, <1>8, <2>2, <2>5, <2>6, <2>7 DEF n, h, IsCopy, Stores
<1>6. CASE StoreBodyCut(m, case)
  <2> DEFINE size0 == Total - headIndex - HeaderSize
             size1 == n - size0
             M1 == Copy(mem, headIndex, h, 0, HeaderSize)
             M2 == Copy(M1, headIndex + HeaderSize, m, 0, size0)
             M3 == Copy(M2, 0, m, size0, size1)
  <2>1. /\ size0 \in Nat /\ size0 >= 1 /\ size1 \in Nat /\ size1 >= 1
        /\ headIndex + HeaderSize + size0 = Total /\ size0 + size1 = n
    BY <1>2, <1>3, <1>6 DEF StoreBodyCut
  <2>2. mem' = M3 /\ headIndex' = size1
    BY <1>6 DEF StoreBodyCut, n, h
  <2> HIDE DEF size0, size1
  <2>3. IsCopy(M1, mem, headIndex, h, 0, HeaderSize)
    <3>1. /\ mem \in [Cells -> Nat] /\ h \in Seq(Nat) /\ headIndex \in Int
          /\ 0 \in Nat /\ HeaderSize \in Int /\ 0 + HeaderSize <= Len(h)
      BY <1>1, <1>2, <1>8, <2>1 DEF IsCopy
    <3> QED
      BY <3>1, CopyCells, Zenon
  <2> HIDE DEF M1
  <2>4. IsCopy(M2, M1, headIndex + HeaderSize, m, 0, size0)
    <3>1. /\ M1 \in [Cells -> Nat] /\ m \in Seq(Nat) /\ headIndex + HeaderSize \in Int
          /\ 0 \in Nat /\ size0 \in Int /\ 0 + size0 <= Len(m)
      BY <1>1, <1>2, <1>8, <2>1, <2>3 DEF IsCopy
    <3> QED
      BY <3>1, CopyCells, Zenon
  <2> HIDE DEF M2
  <2>5. IsCopy(M3, M2, 0, m, size0, size1)
    <3>1. /\ M2 \in [Cells -> Nat] /\ m \in Seq(Nat) /\ 0 \in Int
          /\ size0 \in Nat /\ size1 \in Int /\ size0 + size1 <= Len(m)
      BY <1>1, <1>2, <1>8, <2>1, <2>3, <2>4 DEF IsCopy
    <3> QED
      BY <3>1, CopyCells, Zenon
  <2> HIDE DEF M3
  <2>6. headIndex' \in Cells /\ headIndex' = Wrap(headIndex + HeaderSize + n)
    BY <1>2, <1>3, <2>1, <2>2 DEF Wrap, Cells
  <2>7. ASSUME NEW c \in Cells
       PROVE  /\ c >= headIndex /\ c < headIndex + HeaderSize => mem'[c] = h[c - headIndex + 1]
              /\ c + Total >= headIndex /\ c + Total < headIndex + HeaderSize
                   => mem'[c] = h[c + Total - headIndex + 1]
              /\ c >= headIndex + HeaderSize /\ c < headIndex + HeaderSize + n
                   => mem'[c] = m[c - (headIndex + HeaderSize) + 1]
              /\ c + Total >= headIndex + HeaderSize /\ c + Total < headIndex + HeaderSize + n
                   => mem'[c] = m[c + Total - (headIndex + HeaderSize) + 1]
              /\ ~Covered(c, headIndex, HeaderSize + n) => mem'[c] = mem[c]
    <3>1. c \in Nat /\ c < Total
      BY <1>2 DEF Cells
    <3>2. /\ c >= headIndex /\ c < headIndex + HeaderSize => M1[c] = h[0 + 1 + (c - (headIndex))]
          /\ ~(c >= headIndex /\ c < headIndex + HeaderSize) => M1[c] = mem[c]
      BY <2>3 DEF IsCopy
    <3>3. /\ c >= headIndex + HeaderSize /\ c < headIndex + HeaderSize + size0 => M2[c] = m[0 + 1 + (c - (headIndex + HeaderSize))]
          /\ ~(c >= headIndex + HeaderSize /\ c < headIndex + HeaderSize + size0) => M2[c] = M1[c]
      BY <2>4 DEF IsCopy
    <3>4. /\ c >= 0 /\ c < 0 + size1 => M3[c] = m[size0 + 1 + (c - (0))]
          /\ ~(c >= 0 /\ c < 0 + size1) => M3[c] = M2[c]
      BY <2>5 DEF IsCopy
    <3> QED
      BY <1>2, <2>1, <2>2, <3>1, <3>2, <3>3, <3>4 DEF Covered
  <2> QED
    BY <1>1, <1>8, <2>2, <2>5, <2>6, <2>7 DEF n, h, IsCopy, Stores
<1>7. CASE StoreBodyAtZero(m, case)
  <2> DEFINE M1 == Copy(mem, headIndex, h, 0, HeaderSize)
             M2 == Copy(M1, 0, m, 0, n)
  <2>1. headIndex + HeaderSize = Total
    BY <1>2, <1>3, <1>7 DEF StoreBodyAtZero
  <2>2. mem' = M2 /\ headIndex' = n
    BY <1>7 DEF StoreBodyAtZero, n, h
  <2>3. IsCopy(M1, mem, headIndex, h, 0, HeaderSize)
    <3>1. /\ mem \in [Cells -> Nat] /\ h \in Seq(Nat) /\ headIndex \in Int
          /\ 0 \in Nat /\ HeaderSize \in Int /\ 0 + HeaderSize <= Len(h)
      BY <1>1, <1>2, <1>8, <2>1 DEF IsCopy
    <3> QED
      BY <3>1, CopyCells, Zenon
  <2> HIDE DEF M1
  <2>4. IsCopy(M2, M1, 0, m, 0, n)
    <3>1. /\ M1 \in [Cells -> Nat] /\ m \in Seq(Nat) /\ 0 \in Int
          /\ 0 \in Nat /\ n \in Int /\ 0 + n <= Len(m)
      BY <1>1, <1>2, <1>8, <2>1, <2>3 DEF IsCopy
    <3> QED
      BY <3>1, CopyCells, Zenon
  <2> HIDE DEF M2
  <2>5. headIndex' \in Cells /\ headIndex' = Wrap(headIndex + HeaderSize + n)
    BY <1>2, <1>3, <2>1, <2>2 DEF Wrap, Cells
  <2>6. ASSUME NEW c \in Cells
       PROVE  /\ c >= headIndex /\ c < headIndex + HeaderSize => mem'[c] = h[c - headIndex + 1]
              /\ c + Total >= headIndex /\ c + Total < headIndex + HeaderSize
                   => mem'[c] = h[c + Total - headIndex + 1]
              /\ c >= headIndex + HeaderSize /\ c < headIndex + HeaderSize + n
                   => mem'[c] = m[c - (headIndex + HeaderSize) + 1]
              /\ c + Total >= headIndex + HeaderSize /\ c + Total < headIndex + HeaderSize + n
                   => mem'[c] = m[c + Total - (headIndex + HeaderSize) + 1]
              /\ ~Covered(c, headIndex, HeaderSize + n) => mem'[c] = mem[c]
    <3>1. c \in Nat /\ c < Total
      BY <1>2 DEF Cells
    <3>2. /\ c >= headIndex /\ c < headIndex + HeaderSize => M1[c] = h[0 + 1 + (c - (headIndex))]
          /\ ~(c >= headIndex /\ c < headIndex + HeaderSize) => M1[c] = mem[c]
      BY <2>3 DEF IsCopy
    <3>3. /\ c >= 0 /\ c < 0 + n => M2[c] = m[0 + 1 + (c - (0))]
          /\ ~(c >= 0 /\ c < 0 + n) => M2[c] = M1[c]
      BY <2>4 DEF IsCopy
    <3>4. n <= headIndex
      BY <1>2, <2>1
    <3>5. mem'[c] = M2[c]
      BY <2>2
    <3>6. CASE c >= headIndex
      <4>1. mem'[c] = h[0 + 1 + (c - (headIndex))]
        BY <1>2, <2>1, <3>1, <3>2, <3>3, <3>4, <3>5, <3>6
      <4>2. 0 + 1 + (c - (headIndex)) = c - headIndex + 1
        BY <1>2, <3>1
      <4>3. Covered(c, headIndex, HeaderSize + n)
        BY <1>2, <2>1, <3>1, <3>6 DEF Covered
      <4>4. /\ ~(c + Total < headIndex + HeaderSize)
            /\ ~(c >= headIndex + HeaderSize)
            /\ ~(c + Total < headIndex + HeaderSize + n)
        BY <1>2, <2>1, <3>1, <3>4, <3>6
      <4> QED
        BY <4>1, <4>2, <4>3, <4>4
    <3>7. CASE c < n
      <4>1. mem'[c] = m[0 + 1 + (c - (0))]
        BY <1>2, <3>1, <3>3, <3>5, <3>7
      <4>2. 0 + 1 + (c - (0)) = c + Total - (headIndex + HeaderSize) + 1
        BY <1>2, <2>1, <3>1
      <4>3. Covered(c, headIndex, HeaderSize + n)
        BY <1>2, <2>1, <3>1, <3>7 DEF Covered
      <4>4. /\ ~(c >= headIndex)
            /\ ~(c + Total < headIndex + HeaderSize)
            /\ ~(c >= headIndex + HeaderSize)
        BY <1>2, <2>1, <3>1, <3>4, <3>7
      <4> QED
        BY <4>1, <4>2, <4>3, <4>4
    <3>8. CASE c >= n /\ c < headIndex
      <4>1. mem'[c] = mem[c]
        BY <1>2, <3>1, <3>2, <3>3, <3>5, <3>8
      <4>2. /\ ~(c >= headIndex)
            /\ ~(c + Total < headIndex + HeaderSize)
            /\ ~(c >= headIndex + HeaderSize)
            /\ ~(c + Total < headIndex + HeaderSize + n)
        BY <1>2, <2>1, <3>1, <3>8
      <4> QED
        BY <4>1, <4>2
    <3>9. c >= headIndex \/ c < n \/ (c >= n /\ c < headIndex)
      BY <1>2, <3>1
    <3> QED
      BY <3>6, <3>7, <3>8, <3>9
  <2> QED
    BY <1>1, <1>8, <2>2, <2>4, <2>5, <2>6 DEF n, h, IsCopy, Stores
<1> QED
  BY <1>4, <1>5, <1>6, <1>7 DEF Write

\* The position of headIndex, in bytes ahead of tailIndex.
LEMMA HeadAhead ==
    ASSUME RingTypeOK, Accounted
    PROVE  /\ Used \in Nat /\ Used <= Total
           /\ headIndex \in Nat /\ headIndex < Total /\ tailIndex \in Nat /\ tailIndex < Total
           /\ Used < Total => Ahead(headIndex) = Used
           /\ headIndex = Wrap(tailIndex + Used)
  BY RingAssumption DEF RingTypeOK, Accounted, Used, Cells, Ahead, AheadFrom, Wrap

\* Bytes in the used part of the ring are not among the free bytes ahead of headIndex.
LEMMA FreeApart ==
    ASSUME RingTypeOK, Accounted, NEW at \in Nat, at < Total, NEW size \in Nat,
           Ahead(at) + size <= Used, NEW free \in Nat, Used + free <= Total,
           NEW c \in Cells, Covered(c, at, size)
    PROVE  ~Covered(c, headIndex, free)
<1>1. c \in Nat /\ c < Total /\ Total \in Nat
  BY RingAssumption DEF Cells
<1>2. /\ Used \in Nat /\ Used <= Total
      /\ headIndex \in Nat /\ headIndex < Total /\ tailIndex \in Nat /\ tailIndex < Total
      /\ headIndex = Wrap(tailIndex + Used)
  BY HeadAhead
<1> QED
  BY <1>1, <1>2 DEF Covered, Ahead, AheadFrom, Wrap

\* Bytes stored stay stored while the cells they occupy do not change.
LEMMA StoresKept ==
    ASSUME NEW M1, NEW M2, NEW at \in Nat, NEW s \in Seq(Nat), Stores(M1, at, s),
           \A c \in Cells : Covered(c, at, Len(s)) => M2[c] = M1[c]
    PROVE  Stores(M2, at, s)
  BY DEF Stores, Covered

\* write preserves the invariant: the new element goes behind the last one.
LEMMA WriteKeeps ==
    ASSUME RingInv, NEW m \in Message, Fits(m), Write(m)
    PROVE  RingInv'
<1> DEFINE n == Len(m)
           new == [msg |-> m, at |-> headIndex]
           L == Len(fifo)
           case == QueueWriteCase(headIndex, n)
<1> USE DEF RingInv
<1>1. /\ m \in Seq(Nat) /\ n \in Nat /\ n >= 1 /\ m # << >>
      /\ HeaderSize \in Nat /\ HeaderSize >= 2 /\ Total \in Nat
  BY RingAssumption, NonEmpty DEF Write, CanWrite
<1>2. /\ Used \in Nat /\ Used + HeaderSize + n <= Total
      /\ headIndex \in Nat /\ headIndex < Total /\ tailIndex \in Nat /\ tailIndex < Total
      /\ Ahead(headIndex) = Used /\ headIndex = Wrap(tailIndex + Used)
  <2>1. Used + HeaderSize + n <= Total
    BY <1>1, RingAssumption DEF Fits, Used, RingTypeOK
  <2> QED
    BY <1>1, <2>1, HeadAhead
<1>3. /\ headIndex' \in Cells
      /\ headIndex' = Wrap(headIndex + HeaderSize + n)
      /\ mem' \in [Cells -> Nat]
      /\ Stores(mem', headIndex, Header(case, n))
      /\ Stores(mem', headIndex + HeaderSize, m)
      /\ \A c \in Cells : ~Covered(c, headIndex, HeaderSize + n) => mem'[c] = mem[c]
  BY WriteStores
<1>4. /\ tailIndex' = tailIndex /\ data' = data /\ fifo' = Append(fifo, new)
      /\ qLeftSize' = qLeftSize - (HeaderSize + n) /\ elementCount' = elementCount + 1
      /\ outcome' = "ok"
  <2>1. headIndex' \in Nat /\ headIndex' < Total
    BY <1>1, <1>3 DEF Cells
  <2>2. outcome' = IF Total < headIndex' + 1 THEN "corrupt" ELSE "ok"
    BY DEF Write
  <2>3. ~(Total < headIndex' + 1)
    <3>1. ASSUME NEW x \in Nat, x < Total PROVE ~(Total < x + 1)
      BY <3>1, RingAssumption
    <3> QED
      BY <2>1, <3>1
  <2> QED
    BY <2>2, <2>3 DEF Write
<1>5. /\ Used' = Used + HeaderSize + n
      /\ qLeftSize' \in 0 .. Total
  BY <1>1, <1>2, <1>4 DEF Used, RingTypeOK
<1> HIDE DEF case
<1>6. /\ fifo \in Seq(Element) /\ new \in Element /\ L \in Nat
      /\ fifo' \in Seq(Element) /\ Len(fifo') = L + 1 /\ fifo' # << >>
      /\ \A i \in 1 .. L : fifo'[i] = fifo[i]
      /\ fifo'[L + 1] = new
  <2>1. fifo \in Seq(Element) /\ new \in Element
    BY <1>1 DEF RingTypeOK, Element
  <2> QED
    BY <2>1, <1>4
<1> HIDE DEF new
<1>7. SizeOf(new) = HeaderSize + n /\ new.at = headIndex /\ new.msg = m
  BY DEF SizeOf, new
<1>8. \A i \in 1 .. L : /\ fifo[i].at \in Nat /\ fifo[i].at < Total
                        /\ fifo[i].msg \in Seq(Nat) /\ Len(fifo[i].msg) \in Nat
                        /\ Len(fifo[i].msg) >= 1
                        /\ SizeOf(fifo[i]) = HeaderSize + Len(fifo[i].msg)
                        /\ Ahead(fifo[i].at) \in Nat
                        /\ Ahead(fifo[i].at) + SizeOf(fifo[i]) <= Used
  BY Elements DEF Accounted
<1>9. RingTypeOK'
  <2>1. elementCount' \in Nat /\ tailIndex' \in Cells /\ data' \in Seq(Nat)
    BY <1>4 DEF RingTypeOK
  <2> QED
    BY <1>3, <1>4, <1>5, <1>6, <2>1 DEF RingTypeOK
<1>10. Accounted'
  <2>1. elementCount' = Len(fifo')
    BY <1>4, <1>6 DEF Accounted
  <2>2. headIndex' = Wrap(tailIndex' + Used')
    BY <1>1, <1>2, <1>3, <1>4, <1>5 DEF Wrap
  <2>3. fifo'[1].at = tailIndex'
    <3>1. CASE L = 0
      <4>1. fifo = << >>
        BY <1>6, <3>1
      <4>2. headIndex = tailIndex
        BY <4>1, <1>2 DEF Accounted, Wrap
      <4> QED
        BY <3>1, <4>2, <1>4, <1>6, <1>7
    <3>2. CASE L >= 1
      <4>1. fifo # << >> /\ fifo'[1] = fifo[1]
        BY <1>6, <3>2
      <4> QED
        BY <4>1, <1>4 DEF Accounted
    <3> QED
      BY <3>1, <3>2, <1>6
  <2>4. /\ Ahead(new.at) = Used
        /\ Ahead(fifo'[Len(fifo')].at) + SizeOf(fifo'[Len(fifo')]) = Used'
    <3>1. fifo'[Len(fifo')] = new
      BY <1>6
    <3>2. Used' = Used + (HeaderSize + n)
      BY <1>1, <1>2, <1>5
    <3> QED
      BY <1>2, <1>7, <3>1, <3>2
  <2>5. ASSUME NEW i \in 1 .. Len(fifo') - 1
        PROVE  Ahead(fifo'[i + 1].at) = Ahead(fifo'[i].at) + SizeOf(fifo'[i])
    <3>1. CASE i = L
      <4>1. fifo # << >> /\ fifo'[i] = fifo[L] /\ fifo'[i + 1] = new /\ Len(fifo) = L
        BY <1>6, <3>1
      <4>2. Ahead(fifo[L].at) + SizeOf(fifo[L]) = Used
        BY <4>1 DEF Accounted
      <4> QED
        BY <4>1, <4>2, <1>2, <1>7
    <3>2. CASE i # L
      <4>1. i \in 1 .. L - 1 /\ fifo'[i] = fifo[i] /\ fifo'[i + 1] = fifo[i + 1]
        BY <1>6, <3>2
      <4> QED
        BY <4>1 DEF Accounted
    <3> QED
      BY <3>1, <3>2
  <2>6. ASSUME NEW i \in 1 .. Len(fifo')
        PROVE  Ahead(fifo'[i].at) + SizeOf(fifo'[i]) <= Used'
    <3>1. CASE i = L + 1
      BY <3>1, <1>6, <2>4, <1>1, <1>2, <1>5
    <3>2. CASE i # L + 1
      <4>1. i \in 1 .. L /\ fifo'[i] = fifo[i]
        BY <1>6, <3>2
      <4>2. Used <= Used'
        BY <1>1, <1>2, <1>5
      <4>3. /\ Ahead(fifo[i].at) \in Nat /\ SizeOf(fifo[i]) \in Nat
            /\ Ahead(fifo[i].at) + SizeOf(fifo[i]) <= Used
        <5>1. /\ Ahead(fifo[i].at) \in Nat /\ Len(fifo[i].msg) \in Nat
              /\ SizeOf(fifo[i]) = HeaderSize + Len(fifo[i].msg)
              /\ Ahead(fifo[i].at) + SizeOf(fifo[i]) <= Used
          BY <4>1, <1>8
        <5> QED
          BY <5>1, RingAssumption
      <4>4. Used' \in Nat
        BY <1>1, <1>2, <1>5
      <4> QED
        BY <4>1, <4>2, <4>3, <4>4, <1>2
    <3> QED
      BY <3>1, <3>2
  <2>7. ASSUME NEW i \in 1 .. Len(fifo'), NEW j \in 1 .. Len(fifo'), i < j
        PROVE  Ahead(fifo'[i].at) + SizeOf(fifo'[i]) <= Ahead(fifo'[j].at)
    <3>1. i \in 1 .. L /\ fifo'[i] = fifo[i]
      BY <1>6, <2>7
    <3>2. CASE j = L + 1
      BY <3>1, <3>2, <1>2, <1>6, <1>7, <1>8
    <3>3. CASE j # L + 1
      <4>1. j \in 1 .. L /\ fifo'[j] = fifo[j]
        BY <1>6, <3>3
      <4> QED
        BY <2>7, <3>1, <4>1 DEF Accounted
    <3> QED
      BY <3>2, <3>3
  <2> QED
    BY <1>6, <2>1, <2>2, <2>3, <2>4, <2>5, <2>6, <2>7, <1>4 DEF Accounted, SizeOf, Ahead
<1>11. Intact'
  <2> SUFFICES ASSUME NEW i \in 1 .. Len(fifo'), NEW e, e = fifo'[i]
               PROVE  /\ Stores(mem', e.at, Header(QueueWriteCase(e.at, Len(e.msg)), Len(e.msg)))
                      /\ Stores(mem', e.at + HeaderSize, e.msg)
    BY DEF Intact
  <2>1. CASE i = L + 1
    BY <2>1, <1>3, <1>6, <1>7 DEF case
  <2>2. CASE i # L + 1
    <3> DEFINE len == Len(e.msg)
               h == Header(QueueWriteCase(e.at, len), len)
    <3>1. i \in 1 .. L /\ e = fifo[i]
      BY <1>6, <2>2
    <3>2. /\ e.at \in Nat /\ e.at < Total /\ e.msg \in Seq(Nat) /\ len \in Nat
          /\ Ahead(e.at) + (HeaderSize + len) <= Used
      BY <1>8, <3>1
    <3>3. Stores(mem, e.at, h) /\ Stores(mem, e.at + HeaderSize, e.msg)
      BY <3>1 DEF Intact
    <3>4. QueueWriteCase(e.at, len) \in Nat
      BY <3>2, WriteCases
    <3>5. h \in Seq(Nat) /\ Len(h) = HeaderSize
      BY <3>2, <3>4, HeaderBytes
    <3> HIDE DEF h, len
    <3>6. ASSUME NEW c \in Cells, Covered(c, e.at, HeaderSize + len) PROVE mem'[c] = mem[c]
      <4>1. HeaderSize + len \in Nat /\ HeaderSize + n \in Nat /\ Used + (HeaderSize + n) <= Total
        BY <1>1, <1>2, <3>2
      <4>2. ~Covered(c, headIndex, HeaderSize + n)
        BY <3>2, <3>6, <4>1, FreeApart
      <4> QED
        BY <4>2, <1>3
    <3>7. ASSUME NEW c \in Cells
          PROVE  /\ Covered(c, e.at, HeaderSize) => Covered(c, e.at, HeaderSize + len)
                 /\ Covered(c, e.at + HeaderSize, len) => Covered(c, e.at, HeaderSize + len)
      <4>1. PICK at : at = e.at /\ at \in Nat
        BY <3>2
      <4>2. HeaderSize \in Nat /\ Total \in Nat /\ c \in Nat /\ len \in Nat
        BY <1>1, <3>2, RingAssumption DEF Cells
      <4>3. /\ Covered(c, at, HeaderSize) => Covered(c, at, HeaderSize + len)
            /\ Covered(c, at + HeaderSize, len) => Covered(c, at, HeaderSize + len)
        BY <4>1, <4>2 DEF Covered
      <4> QED
        BY <4>1, <4>3
    <3>8. Stores(mem', e.at, h)
      BY <3>2, <3>3, <3>5, <3>6, <3>7, StoresKept
    <3>9. e.at + HeaderSize \in Nat /\ Len(e.msg) = len
      BY <1>1, <3>2 DEF len
    <3>10. Stores(mem', e.at + HeaderSize, e.msg)
      BY <3>2, <3>3, <3>6, <3>7, <3>9, StoresKept
    <3> QED
      BY <3>8, <3>10 DEF h, len
  <2> QED
    BY <2>1, <2>2
<1> QED
  BY <1>9, <1>10, <1>11, <1>4 DEF NeverCorrupt

------------------------------------------------------------------------------
(* read. *)

\* A sequence is the function of its elements.
LEMMA SeqEq ==
    ASSUME NEW s \in Seq(Nat), NEW n \in Nat, n = Len(s), NEW t, t = [i \in 1 .. n |-> t[i]],
           \A i \in 1 .. n : t[i] = s[i]
    PROVE  t = s
  OBVIOUS

\* msg is the body of the oldest element, n its length, and h the header it must have.
Front(msg, n) == msg = fifo[1].msg /\ n = Len(msg)
FrontHeader(h, n) == h = Header(QueueWriteCase(tailIndex, n), n)

\* What the reader finds at the front: the first element's bytes, wrapped.
LEMMA FrontBytes ==
    ASSUME RingInv, fifo # << >>, NEW msg, NEW n, Front(msg, n), NEW h, FrontHeader(h, n)
    PROVE  /\ msg \in Seq(Nat) /\ n \in Nat /\ n >= 1
           /\ tailIndex \in Nat /\ tailIndex < Total /\ headIndex \in Nat /\ headIndex < Total
           /\ HeaderSize + n <= Used /\ Used \in Nat /\ Used <= Total
           /\ h[1] = QueueWriteCase(tailIndex, n) /\ h[2] = n
           /\ \A c \in Nat : c < Total /\ c >= tailIndex /\ c < tailIndex + HeaderSize
                  => Byte(c) = h[c - tailIndex + 1]
           /\ \A c \in Nat : c + Total >= tailIndex /\ c + Total < tailIndex + HeaderSize
                  => Byte(c) = h[c + Total - tailIndex + 1]
           /\ \A c \in Nat : c < Total /\ c >= tailIndex + HeaderSize
                             /\ c < tailIndex + HeaderSize + n
                  => Byte(c) = msg[c - (tailIndex + HeaderSize) + 1]
           /\ \A c \in Nat : c + Total >= tailIndex + HeaderSize
                             /\ c + Total < tailIndex + HeaderSize + n
                  => Byte(c) = msg[c + Total - (tailIndex + HeaderSize) + 1]
<1> USE DEF RingInv
<1>1. Len(fifo) \in Nat /\ 1 \in 1 .. Len(fifo) /\ fifo[1].at = tailIndex
  BY NonEmpty DEF RingTypeOK, Accounted
<1>2. /\ msg \in Seq(Nat) /\ n \in Nat /\ n >= 1
      /\ SizeOf(fifo[1]) = HeaderSize + n
  BY <1>1, Elements DEF Front
<1>3. /\ tailIndex \in Nat /\ tailIndex < Total /\ headIndex \in Nat /\ headIndex < Total
      /\ Used \in Nat /\ Used <= Total
  BY HeadAhead
<1>4. HeaderSize + n <= Used
  <2>1. Ahead(fifo[1].at) + SizeOf(fifo[1]) <= Used
    BY <1>1 DEF Accounted
  <2>2. Ahead(fifo[1].at) = 0
    BY <1>1, <1>3 DEF Ahead, AheadFrom
  <2> QED
    BY <1>2, <1>3, <2>1, <2>2, RingAssumption
<1>5. QueueWriteCase(tailIndex, n) \in Nat
  <2>1. QueueWriteCase(tailIndex, n) \in 1 .. 5
    BY <1>2, <1>3, WriteCases
  <2> QED
    BY <2>1
<1>6. Len(h) = HeaderSize /\ h[1] = QueueWriteCase(tailIndex, n) /\ h[2] = n
  BY <1>2, <1>5, HeaderBytes DEF FrontHeader
<1>7. /\ Stores(mem, tailIndex, h) /\ Stores(mem, tailIndex + HeaderSize, msg)
      /\ Len(msg) = n
  BY <1>1 DEF Intact, Front, FrontHeader
<1>8. \A c \in Nat : c < Total => c \in Cells /\ Byte(c) = mem[c]
  BY RingAssumption DEF Cells, Byte
<1>9. ASSUME NEW c \in Nat
      PROVE  /\ c + Total < tailIndex + HeaderSize => c < Total
             /\ c + Total < tailIndex + HeaderSize + n => c < Total
  <2>1. n \in Nat /\ HeaderSize \in Nat /\ Total \in Nat /\ HeaderSize + n <= Total
    BY <1>2, <1>3, <1>4, RingAssumption
  <2> QED
    BY <1>3, <2>1
<1>10. ASSUME NEW c \in Nat, c < Total
       PROVE  /\ c >= tailIndex /\ c < tailIndex + HeaderSize => Byte(c) = h[c - tailIndex + 1]
              /\ c + Total >= tailIndex /\ c + Total < tailIndex + HeaderSize
                   => Byte(c) = h[c + Total - tailIndex + 1]
              /\ c >= tailIndex + HeaderSize /\ c < tailIndex + HeaderSize + n
                   => Byte(c) = msg[c - (tailIndex + HeaderSize) + 1]
              /\ c + Total >= tailIndex + HeaderSize /\ c + Total < tailIndex + HeaderSize + n
                   => Byte(c) = msg[c + Total - (tailIndex + HeaderSize) + 1]
  BY <1>6, <1>7, <1>8, <1>10 DEF Stores
<1> QED
  BY <1>2, <1>3, <1>4, <1>6, <1>9, <1>10

\* With an element in the ring no check of read fails, and read hands back the
\* first element's body and advances tailIndex past it.
LEMMA ReadTakes ==
    ASSUME RingInv, fifo # << >>, NEW msg, NEW n, Front(msg, n)
    PROVE  /\ CanRead
           /\ BodyLen = n
           /\ Read => data' = msg /\ tailIndex' = Wrap(tailIndex + HeaderSize + n)
<1> DEFINE case == QueueWriteCase(tailIndex, n)
           h == Header(case, n)
<1> USE DEF RingInv
<1>1. /\ msg \in Seq(Nat) /\ n \in Nat /\ n >= 1
      /\ tailIndex \in Nat /\ tailIndex < Total /\ headIndex \in Nat /\ headIndex < Total
      /\ HeaderSize + n <= Used /\ Used \in Nat /\ Used <= Total
      /\ h[1] = case /\ h[2] = n
  BY FrontBytes DEF FrontHeader
<1>2. /\ \A c \in Nat : c < Total /\ c >= tailIndex /\ c < tailIndex + HeaderSize
             => Byte(c) = h[c - tailIndex + 1]
      /\ \A c \in Nat : c + Total >= tailIndex /\ c + Total < tailIndex + HeaderSize
             => Byte(c) = h[c + Total - tailIndex + 1]
  BY FrontBytes DEF FrontHeader
<1>3. /\ \A c \in Nat : c < Total /\ c >= tailIndex + HeaderSize
                        /\ c < tailIndex + HeaderSize + n
             => Byte(c) = msg[c - (tailIndex + HeaderSize) + 1]
      /\ \A c \in Nat : c + Total >= tailIndex + HeaderSize
                        /\ c + Total < tailIndex + HeaderSize + n
             => Byte(c) = msg[c + Total - (tailIndex + HeaderSize) + 1]
  BY FrontBytes DEF FrontHeader
<1>4. /\ case \in 1 .. 5
      /\ case = 1 <=> Total > tailIndex + HeaderSize + n
      /\ case = 2 <=> Total = tailIndex + HeaderSize + n
      /\ case = 3 <=> Total < tailIndex + HeaderSize
      /\ case = 4 <=> Total > tailIndex + HeaderSize /\ Total < tailIndex + HeaderSize + n
      /\ case = 5 => Total = tailIndex + HeaderSize
  BY <1>1, WriteCases
<1> HIDE DEF case, h
<1>5. HeaderSize \in Nat /\ HeaderSize >= 2 /\ Total \in Nat
  BY RingAssumption
<1>6. StoredCase = case
  BY <1>1, <1>2, <1>5 DEF StoredCase
<1>7. /\ QueueScene \in {1, 2, 4}
      /\ QueueScene = 1 => headIndex = tailIndex + Used
      /\ QueueScene = 2 => headIndex + Total = tailIndex + Used
      /\ QueueScene = 4 => headIndex = tailIndex /\ Used = Total
  BY Scenes
<1>8. BodyLen = n
  <2>1. CASE QueueScene # 1 /\ StoredCase = 3
    <3>1. BodyLen = IF 2 <= Total - tailIndex THEN Byte(tailIndex + 2 - 1) ELSE Byte(2 - (Total - tailIndex) - 1)
      BY <1>5, <2>1 DEF BodyLen, LoadedHeader, LoadSplit
    <3> QED
      BY <1>1, <1>2, <1>5, <3>1
  <2>2. CASE ~(QueueScene # 1 /\ StoredCase = 3)
    <3>1. BodyLen = Byte(tailIndex + 2 - 1)
      BY <1>5, <2>2 DEF BodyLen, LoadedHeader, Load
    <3>2. tailIndex + HeaderSize <= Total
      BY <1>1, <1>4, <1>5, <1>6, <1>7, <2>2
    <3> QED
      BY <1>1, <1>2, <1>5, <3>1, <3>2
  <2> QED
    BY <2>1, <2>2
<1>9. CanRead
  <2>1. IndicesReadable
    BY <1>1, <1>5 DEF IndicesReadable
  <2>2. CASE QueueScene = 1
    BY <1>1, <1>5, <1>7, <1>8, <2>1, <2>2 DEF CanRead, CanTakeDirect
  <2>3. CASE QueueScene \in {2, 4}
    <3>1. CASE case \in {1, 2}
      BY <1>1, <1>4, <1>5, <1>6, <1>8, <2>1, <2>3, <3>1 DEF CanRead, CanTakeWhole
    <3>2. CASE case = 3
      <4>1. headIndex >= HeaderSize - (Total - tailIndex) + n
        BY <1>1, <1>5, <1>7, <2>3
      <4> QED
        BY <1>1, <1>6, <1>8, <2>1, <2>3, <3>2, <4>1 DEF CanRead, CanTakeHeaderCut
    <3>3. CASE case = 4
      BY <1>1, <1>4, <1>5, <1>6, <1>8, <2>1, <2>3, <3>3 DEF CanRead, CanTakeBodyCut
    <3>4. CASE case = 5
      BY <1>1, <1>4, <1>5, <1>6, <1>8, <2>1, <2>3, <3>4 DEF CanRead, CanTakeBodyAtZero
    <3> QED
      BY <1>4, <3>1, <3>2, <3>3, <3>4
  <2> QED
    BY <1>7, <2>2, <2>3
<1>10. ASSUME Read
       PROVE  data' = msg /\ tailIndex' = Wrap(tailIndex + HeaderSize + n)
  <2> DEFINE Delivers(t) == (\A i \in 1 .. n : t[i] = msg[i]) => t = msg
  <2>0. n = Len(msg)
    BY DEF Front
  <2>1. ASSUME NEW at PROVE Delivers(Load(at, n))
    <3>1. Load(at, n) = [i \in 1 .. n |-> Load(at, n)[i]]
      BY DEF Load
    <3>2. msg \in Seq(Nat) /\ n \in Nat
      BY <1>1
    <3> DEFINE t == Load(at, n)
    <3> HIDE DEF t
    <3>3. t = [i \in 1 .. n |-> t[i]]
      BY <3>1 DEF t
    <3> SUFFICES ASSUME \A i \in 1 .. n : t[i] = msg[i] PROVE t = msg
      BY DEF t
    <3> QED
      BY <2>0, <3>2, <3>3, SeqEq
  <2>2. ASSUME NEW at, NEW n0 PROVE Delivers(LoadSplit(at, n0, n))
    <3>1. LoadSplit(at, n0, n) = [i \in 1 .. n |-> LoadSplit(at, n0, n)[i]]
      BY DEF LoadSplit
    <3>2. msg \in Seq(Nat) /\ n \in Nat
      BY <1>1
    <3> DEFINE t == LoadSplit(at, n0, n)
    <3> HIDE DEF t
    <3>3. t = [i \in 1 .. n |-> t[i]]
      BY <3>1 DEF t
    <3> SUFFICES ASSUME \A i \in 1 .. n : t[i] = msg[i] PROVE t = msg
      BY DEF t
    <3> QED
      BY <2>0, <3>2, <3>3, SeqEq
  <2>3. CASE TakeDirect
    <3>1. data' = Load(tailIndex + HeaderSize, n) /\ tailIndex' = tailIndex + HeaderSize + n
          /\ QueueScene = 1
      BY <1>8, <2>3 DEF TakeDirect, CanTakeDirect
    <3>2. tailIndex + HeaderSize + n < Total
      BY <1>1, <1>5, <1>7, <3>1
    <3>3. ASSUME NEW i \in 1 .. n PROVE Load(tailIndex + HeaderSize, n)[i] = msg[i]
      BY <1>1, <1>3, <1>5, <3>2 DEF Load
    <3> QED
      BY <1>1, <1>5, <2>1, <3>1, <3>2, <3>3 DEF Wrap
  <2>4. CASE TakeWhole
    <3>1. /\ data' = Load(tailIndex + HeaderSize, n)
          /\ StoredCase = 1 => tailIndex' = tailIndex + HeaderSize + n
          /\ StoredCase # 1 => tailIndex' = 0
          /\ StoredCase = 1 \/ StoredCase = 2
      BY <1>8, <2>4 DEF TakeWhole, CanTakeWhole
    <3>2. /\ data' = Load(tailIndex + HeaderSize, n)
          /\ case = 1 => tailIndex' = tailIndex + HeaderSize + n
          /\ case = 2 => tailIndex' = 0
          /\ case = 1 \/ case = 2
      BY <1>6, <3>1
    <3>3. /\ case = 1 => tailIndex + HeaderSize + n < Total
          /\ case = 2 => tailIndex + HeaderSize + n = Total
      BY <1>1, <1>4, <1>5
    <3>4. tailIndex + HeaderSize + n <= Total
      BY <1>1, <1>5, <3>2, <3>3
    <3>5. ASSUME NEW i \in 1 .. n PROVE Load(tailIndex + HeaderSize, n)[i] = msg[i]
      BY <1>1, <1>3, <1>5, <3>4 DEF Load
    <3>6. tailIndex' = Wrap(tailIndex + HeaderSize + n)
      BY <1>1, <1>5, <3>2, <3>3 DEF Wrap
    <3> QED
      BY <2>1, <3>2, <3>5, <3>6
  <2>5. CASE TakeHeaderCut
    <3> DEFINE size1 == HeaderSize - (Total - tailIndex)
    <3>1. data' = Load(size1, n) /\ tailIndex' = size1 + n /\ case = 3
      BY <1>6, <1>8, <2>5 DEF TakeHeaderCut, CanTakeHeaderCut
    <3>2. size1 \in Nat /\ size1 + Total = tailIndex + HeaderSize /\ size1 + n <= tailIndex
      BY <1>1, <1>4, <1>5, <3>1
    <3> HIDE DEF size1
    <3>3. ASSUME NEW i \in 1 .. n PROVE Load(size1, n)[i] = msg[i]
      BY <1>1, <1>3, <1>5, <3>2 DEF Load
    <3> QED
      BY <1>1, <1>5, <2>1, <3>1, <3>2, <3>3 DEF Wrap
  <2>6. CASE TakeBodyCut
    <3> DEFINE size0 == Total - tailIndex - HeaderSize
    <3>1. data' = LoadSplit(tailIndex + HeaderSize, size0, n) /\ tailIndex' = n - size0
          /\ case = 4
      BY <1>6, <1>8, <2>6 DEF TakeBodyCut, CanTakeBodyCut
    <3>2. size0 \in Nat /\ tailIndex + HeaderSize + size0 = Total /\ size0 < n
      BY <1>1, <1>4, <1>5, <3>1
    <3> HIDE DEF size0
    <3>3. ASSUME NEW i \in 1 .. n PROVE LoadSplit(tailIndex + HeaderSize, size0, n)[i] = msg[i]
      BY <1>1, <1>3, <1>5, <3>2 DEF LoadSplit
    <3> QED
      BY <1>1, <1>5, <2>2, <3>1, <3>2, <3>3 DEF Wrap
  <2>7. CASE TakeBodyAtZero
    <3>1. data' = Load(0, n) /\ tailIndex' = n /\ case = 5
      BY <1>6, <1>8, <2>7 DEF TakeBodyAtZero, CanTakeBodyAtZero
    <3>2. tailIndex + HeaderSize = Total
      BY <1>4, <3>1
    <3>3. ASSUME NEW i \in 1 .. n PROVE Load(0, n)[i] = msg[i]
      BY <1>1, <1>3, <1>5, <3>2 DEF Load
    <3> QED
      BY <1>1, <1>5, <2>1, <3>1, <3>2, <3>3 DEF Wrap
  <2> QED
    BY <1>10, <2>3, <2>4, <2>5, <2>6, <2>7 DEF Read
<1> QED
  BY <1>8, <1>9, <1>10

\* Moving tailIndex k bytes forward brings everything behind them k bytes nearer.
LEMMA AheadShift ==
    ASSUME NEW t \in Nat, t < Total, NEW p \in Nat, p < Total, NEW k \in Nat,
           k <= AheadFrom(t, p)
    PROVE  /\ AheadFrom(Wrap(t + k), p) = AheadFrom(t, p) - k
           /\ AheadFrom(t, p) = k => p = Wrap(t + k)
  BY RingAssumption DEF AheadFrom, Wrap

\* read preserves the invariant: the first element goes, the others stay.
LEMMA ReadKeeps ==
    ASSUME RingInv, Read
    PROVE  RingInv'
<1> DEFINE n == Len(fifo[1].msg)
           k == HeaderSize + n
           L == Len(fifo)
<1> USE DEF RingInv
<1>1. fifo # << >>
  <2>1. QueueScene # 3
    BY DEF Read, TakeDirect, TakeWhole, TakeHeaderCut, TakeBodyCut, TakeBodyAtZero,
           CanTakeDirect, CanTakeWhole, CanTakeHeaderCut, CanTakeBodyCut, CanTakeBodyAtZero
  <2> QED
    BY <2>1, Scenes
<1>2. /\ data' = fifo[1].msg /\ tailIndex' = Wrap(tailIndex + HeaderSize + n)
      /\ BodyLen = n
  BY <1>1, ReadTakes DEF Front
<1>3. /\ mem' = mem /\ headIndex' = headIndex /\ fifo' = Tail(fifo)
      /\ qLeftSize' = qLeftSize + (HeaderSize + BodyLen) /\ elementCount' = elementCount - 1
      /\ outcome' = "ok"
  BY DEF Read
<1>4. /\ fifo \in Seq(Element) /\ L \in Nat /\ L >= 1
      /\ fifo' \in Seq(Element) /\ Len(fifo') = L - 1
      /\ \A i \in 1 .. L - 1 : fifo'[i] = fifo[i + 1]
  <2>1. fifo \in Seq(Element)
    BY DEF RingTypeOK
  <2> QED
    BY <1>1, <1>3, <2>1
<1>5. /\ fifo[1].msg \in Seq(Nat) /\ n \in Nat /\ n >= 1
      /\ SizeOf(fifo[1]) = k /\ fifo[1].at = tailIndex
      /\ fifo[1].at \in Nat /\ fifo[1].at < Total
  BY <1>1, <1>4, Elements DEF Accounted
<1> HIDE DEF n
<1>6. /\ tailIndex \in Nat /\ tailIndex < Total /\ headIndex \in Nat /\ headIndex < Total
      /\ headIndex = Wrap(tailIndex + Used) /\ Used \in Nat /\ Used <= Total
      /\ HeaderSize \in Nat /\ HeaderSize >= 2 /\ Total \in Nat
  BY HeadAhead, RingAssumption
<1>7. Ahead(fifo[1].at) = 0 /\ k \in Nat /\ k >= 1 /\ k <= Used
  <2>1. Ahead(fifo[1].at) = 0
    BY <1>5, <1>6 DEF Ahead, AheadFrom
  <2>2. Ahead(fifo[1].at) + SizeOf(fifo[1]) <= Used
    BY <1>4 DEF Accounted
  <2> QED
    BY <1>5, <1>6, <2>1, <2>2
<1>8. tailIndex' = Wrap(tailIndex + k) /\ Used' = Used - k /\ qLeftSize' = qLeftSize + k
  <2>1. tailIndex + HeaderSize + n = tailIndex + k
    BY <1>5, <1>6
  <2>2. qLeftSize \in Nat
    BY RingAssumption DEF RingTypeOK
  <2> QED
    BY <1>2, <1>3, <1>5, <1>6, <2>1, <2>2 DEF Used
<1> HIDE DEF k
<1>9. RingTypeOK'
  <2>1. tailIndex' \in Cells
    BY <1>6, <1>7, <1>8 DEF Wrap, Cells
  <2>2. qLeftSize' \in 0 .. Total
    BY <1>6, <1>7, <1>8 DEF Used, RingTypeOK
  <2>3. elementCount' \in Nat
    BY <1>3, <1>4 DEF RingTypeOK, Accounted
  <2>4. data' \in Seq(Nat)
    BY <1>2, <1>5
  <2>5. mem' \in [Cells -> Nat] /\ headIndex' \in Cells
    BY <1>3 DEF RingTypeOK
  <2> QED
    BY <1>3, <1>4, <2>1, <2>2, <2>3, <2>4, <2>5 DEF RingTypeOK
<1>10. ASSUME NEW i \in 1 .. L - 1
       PROVE  /\ fifo'[i] = fifo[i + 1] /\ i + 1 \in 1 .. L
              /\ fifo[i + 1].at \in Nat /\ fifo[i + 1].at < Total
              /\ Ahead(fifo[i + 1].at) \in Nat /\ SizeOf(fifo[i + 1]) \in Nat
              /\ Ahead(fifo[i + 1].at) >= k
              /\ AheadFrom(tailIndex', fifo'[i].at) = Ahead(fifo[i + 1].at) - k
  <2>1. fifo'[i] = fifo[i + 1] /\ i + 1 \in 1 .. L /\ 1 \in 1 .. L /\ 1 < i + 1
    BY <1>4
  <2>2. /\ fifo[i + 1].at \in Nat /\ fifo[i + 1].at < Total /\ Ahead(fifo[i + 1].at) \in Nat
        /\ SizeOf(fifo[i + 1]) = HeaderSize + Len(fifo[i + 1].msg)
        /\ Len(fifo[i + 1].msg) \in Nat
    BY <2>1, Elements
  <2>3. Ahead(fifo[1].at) + SizeOf(fifo[1]) <= Ahead(fifo[i + 1].at)
    BY <2>1 DEF Accounted
  <2>4. Ahead(fifo[i + 1].at) >= k
    BY <1>5, <1>7, <2>2, <2>3
  <2>5. AheadFrom(Wrap(tailIndex + k), fifo[i + 1].at) = AheadFrom(tailIndex, fifo[i + 1].at) - k
    BY <1>6, <1>7, <2>2, <2>4, AheadShift DEF Ahead
  <2>6. SizeOf(fifo[i + 1]) \in Nat
    BY <1>6, <2>2
  <2> QED
    BY <1>8, <2>1, <2>2, <2>4, <2>5, <2>6 DEF Ahead
<1>11. Accounted'
  <2>1. elementCount' = Len(fifo')
    BY <1>3, <1>4 DEF Accounted, RingTypeOK
  <2>2. headIndex' = Wrap(tailIndex' + Used')
    BY <1>3, <1>6, <1>7, <1>8 DEF Wrap
  <2>3. Ahead(fifo[L].at) + SizeOf(fifo[L]) = Used
    BY <1>1 DEF Accounted
  <2>4. ASSUME fifo' = << >> PROVE Used' = 0
    <3>1. L = 1
      BY <1>4, <2>4
    <3> QED
      BY <3>1, <1>5, <1>6, <1>7, <1>8, <2>3
  <2>5. ASSUME fifo' # << >>
        PROVE  /\ fifo'[1].at = tailIndex'
               /\ AheadFrom(tailIndex', fifo'[Len(fifo')].at) + SizeOf(fifo'[Len(fifo')]) = Used'
    <3>1. L - 1 >= 1
      BY <1>4, <2>5
    <3>2. 1 \in 1 .. L - 1 /\ L - 1 \in 1 .. L - 1 /\ (L - 1) + 1 = L
      BY <1>4, <3>1
    <3>3. Ahead(fifo[1 + 1].at) = Ahead(fifo[1].at) + SizeOf(fifo[1])
      BY <3>2 DEF Accounted
    <3>4. Ahead(fifo[1 + 1].at) = k
      BY <1>5, <1>7, <3>3
    <3>5. fifo[1 + 1].at = Wrap(tailIndex + k) /\ fifo'[1] = fifo[1 + 1]
      <4>1. fifo[1 + 1].at \in Nat /\ fifo[1 + 1].at < Total /\ fifo'[1] = fifo[1 + 1]
        BY <1>10, <3>2
      <4>2. AheadFrom(tailIndex, fifo[1 + 1].at) = k
        BY <3>4 DEF Ahead
      <4>3. fifo[1 + 1].at = Wrap(tailIndex + k)
        BY <1>6, <1>7, <4>1, <4>2, AheadShift
      <4> QED
        BY <4>1, <4>3
    <3>6. /\ fifo'[L - 1] = fifo[L] /\ Ahead(fifo[L].at) \in Nat /\ SizeOf(fifo[L]) \in Nat
          /\ AheadFrom(tailIndex', fifo'[L - 1].at) = Ahead(fifo[L].at) - k
      BY <1>10, <3>2
    <3>7. fifo'[1].at = tailIndex'
      BY <1>8, <3>5
    <3>8. fifo'[Len(fifo')] = fifo[L] /\ fifo'[Len(fifo')] = fifo'[L - 1]
      BY <1>4, <3>6
    <3>9. Ahead(fifo[L].at) - k + SizeOf(fifo[L]) = Used'
      BY <1>6, <1>7, <1>8, <2>3, <3>6
    <3> QED
      BY <3>6, <3>7, <3>8, <3>9
  <2>6. ASSUME NEW i \in 1 .. Len(fifo') - 1
        PROVE  AheadFrom(tailIndex', fifo'[i + 1].at)
                 = AheadFrom(tailIndex', fifo'[i].at) + SizeOf(fifo'[i])
    <3>1. i \in 1 .. L - 1 /\ i + 1 \in 1 .. L - 1 /\ i + 1 \in 1 .. Len(fifo) - 1
      BY <1>4
    <3>2. Ahead(fifo[(i + 1) + 1].at) = Ahead(fifo[i + 1].at) + SizeOf(fifo[i + 1])
      BY <3>1 DEF Accounted
    <3>3. /\ AheadFrom(tailIndex', fifo'[i].at) = Ahead(fifo[i + 1].at) - k
          /\ AheadFrom(tailIndex', fifo'[i + 1].at) = Ahead(fifo[(i + 1) + 1].at) - k
          /\ fifo'[i] = fifo[i + 1] /\ SizeOf(fifo[i + 1]) \in Nat
          /\ Ahead(fifo[i + 1].at) \in Nat /\ Ahead(fifo[(i + 1) + 1].at) \in Nat
      BY <1>10, <3>1
    <3> QED
      BY <1>7, <3>2, <3>3
  <2>7. ASSUME NEW i \in 1 .. Len(fifo')
        PROVE  AheadFrom(tailIndex', fifo'[i].at) + SizeOf(fifo'[i]) <= Used'
    <3>1. i \in 1 .. L - 1
      BY <1>4
    <3>2. Ahead(fifo[i + 1].at) + SizeOf(fifo[i + 1]) <= Used
      BY <1>10, <3>1 DEF Accounted
    <3>3. /\ fifo'[i] = fifo[i + 1] /\ SizeOf(fifo[i + 1]) \in Nat
          /\ AheadFrom(tailIndex', fifo'[i].at) = Ahead(fifo[i + 1].at) - k
          /\ Ahead(fifo[i + 1].at) \in Nat
      BY <1>10, <3>1
    <3> QED
      BY <1>6, <1>7, <1>8, <3>2, <3>3
  <2>8. ASSUME NEW i \in 1 .. Len(fifo'), NEW j \in 1 .. Len(fifo'), i < j
        PROVE  AheadFrom(tailIndex', fifo'[i].at) + SizeOf(fifo'[i])
                 <= AheadFrom(tailIndex', fifo'[j].at)
    <3>1. i \in 1 .. L - 1 /\ j \in 1 .. L - 1
      BY <1>4
    <3>2. i + 1 \in 1 .. Len(fifo) /\ j + 1 \in 1 .. Len(fifo) /\ i + 1 < j + 1
      BY <1>4, <2>8, <3>1
    <3>3. Ahead(fifo[i + 1].at) + SizeOf(fifo[i + 1]) <= Ahead(fifo[j + 1].at)
      BY <3>2 DEF Accounted
    <3>4. /\ fifo'[i] = fifo[i + 1] /\ SizeOf(fifo[i + 1]) \in Nat
          /\ AheadFrom(tailIndex', fifo'[i].at) = Ahead(fifo[i + 1].at) - k
          /\ AheadFrom(tailIndex', fifo'[j].at) = Ahead(fifo[j + 1].at) - k
          /\ Ahead(fifo[i + 1].at) \in Nat /\ Ahead(fifo[j + 1].at) \in Nat
      BY <1>10, <3>1
    <3> QED
      BY <1>7, <3>3, <3>4
  <2> QED
    BY <2>1, <2>2, <2>4, <2>5, <2>6, <2>7, <2>8 DEF Accounted, SizeOf, Ahead
<1>12. Intact'
  <2> SUFFICES ASSUME NEW i \in 1 .. Len(fifo'), NEW e, e = fifo'[i]
               PROVE  /\ Stores(mem', e.at, Header(QueueWriteCase(e.at, Len(e.msg)), Len(e.msg)))
                      /\ Stores(mem', e.at + HeaderSize, e.msg)
    BY DEF Intact
  <2>1. e = fifo[i + 1] /\ i + 1 \in 1 .. Len(fifo)
    BY <1>4
  <2> QED
    BY <1>3, <2>1 DEF Intact
<1> QED
  BY <1>3, <1>9, <1>11, <1>12 DEF NeverCorrupt

\* A step that leaves the ring alone, and is no failure, keeps the invariant.
LEMMA RingSame ==
    ASSUME RingInv, UNCHANGED <<mem, headIndex, tailIndex, qLeftSize, elementCount, data, fifo>>,
           outcome' \in {"none", "ok", "emptyBody", "noElement"}
    PROVE  RingInv'
<1>1. RingTypeOK'
  BY DEF RingInv, RingTypeOK
<1>2. Accounted'
  BY DEF RingInv, Accounted, Used, Ahead, SizeOf
<1>3. Intact'
  BY DEF RingInv, Intact, Stores, QueueWriteCase
<1>4. NeverCorrupt'
  BY DEF NeverCorrupt
<1> QED
  BY <1>1, <1>2, <1>3, <1>4 DEF RingInv

\* A refused write changes nothing but the outcome, and a body that is not empty is never refused.
LEMMA WriteThrowsKeeps ==
    ASSUME RingInv, NEW m \in Message, Fits(m), WriteThrows(m)
    PROVE  RingInv'
<1> USE DEF RingInv
<1>1. UNCHANGED <<mem, headIndex, tailIndex, qLeftSize, elementCount, data, fifo>>
  BY DEF WriteThrows
<1>2. outcome' = "emptyBody"
  <2> SUFFICES ASSUME Len(m) # 0 PROVE CanWrite(m)
    BY DEF WriteThrows
  <2>1. Len(m) \in Nat
    BY RingAssumption
  <2>2. /\ Used \in Nat /\ Used + HeaderSize + Len(m) <= Total
        /\ headIndex \in Nat /\ headIndex < Total /\ tailIndex \in Nat /\ HeaderSize \in Nat
        /\ Total \in Nat
    BY <2>1, HeadAhead, RingAssumption DEF Fits, Used, RingTypeOK
  <2>3. /\ QueueScene \in 1 .. 4
        /\ QueueScene = 2 => headIndex + Total = tailIndex + Used
        /\ QueueScene = 4 => Used = Total
    BY Scenes
  <2>4. Len(m) >= 1
    BY <2>1
  <2> QED
    BY <2>1, <2>2, <2>3, <2>4 DEF CanWrite
<1> QED
  BY <1>1, <1>2, RingSame

\* read refuses only an empty ring.
LEMMA ReadThrowsKeeps ==
    ASSUME RingInv, ReadThrows
    PROVE  RingInv'
<1> USE DEF RingInv
<1>1. UNCHANGED <<mem, headIndex, tailIndex, qLeftSize, elementCount, data, fifo>>
  BY DEF ReadThrows
<1>2. outcome' = "noElement"
  <2>1. fifo = << >>
    BY ReadTakes DEF ReadThrows, Front
  <2>2. QueueScene = 3
    BY <2>1, Scenes
  <2> QED
    BY <2>2 DEF ReadThrows
<1> QED
  BY <1>1, <1>2, RingSame

\* The constructor establishes the invariant.
LEMMA InitEstablishes == RingInit => RingInv
<1> SUFFICES ASSUME RingInit PROVE RingInv
  OBVIOUS
<1>1. RingTypeOK
  BY RingAssumption DEF RingInit, RingTypeOK, Cells
<1>2. Accounted
  BY RingAssumption DEF RingInit, Accounted, Used, Wrap
<1> QED
  BY <1>1, <1>2 DEF RingInit, RingInv, Intact, NeverCorrupt

\* Every write and read, successful or not, keeps the invariant.
LEMMA RingStepKeeps == RingInv /\ [RingNext]_ringVars => RingInv'
<1> SUFFICES ASSUME RingInv, [RingNext]_ringVars PROVE RingInv'
  OBVIOUS
<1>1. ASSUME NEW m \in Message, Fits(m), Write(m) PROVE RingInv'
  BY <1>1, WriteKeeps
<1>2. ASSUME NEW m \in Message, Fits(m), WriteThrows(m) PROVE RingInv'
  BY <1>2, WriteThrowsKeeps
<1>3. CASE Read
  BY <1>3, ReadKeeps
<1>4. CASE ReadThrows
  BY <1>4, ReadThrowsKeeps
<1>5. CASE UNCHANGED ringVars
  <2>1. outcome' \in {"none", "ok", "emptyBody", "noElement"}
    BY <1>5 DEF ringVars, RingInv, RingTypeOK, NeverCorrupt
  <2> QED
    BY <1>5, <2>1, RingSame DEF ringVars
<1> QED
  BY <1>1, <1>2, <1>3, <1>4, <1>5 DEF RingNext

\* The invariant holds in every state: indices, counts and bytes agree, no
\* element is overrun before it is read, and neither write nor read ever meets
\* the inconsistencies for which it throws ValueError.
THEOREM RingSafe == RingSpec => [](RingTypeOK /\ Accounted /\ Intact /\ NeverCorrupt)
  BY InitEstablishes, RingStepKeeps, PTL DEF RingSpec, RingInv

------------------------------------------------------------------------------
(* The ring implements the bounded queue. *)

\* The bodies of the elements held, oldest first.
LEMMA Bodies ==
    ASSUME NEW f \in Seq(Element)
    PROVE  /\ [i \in 1 .. Len(f) |-> f[i].msg] \in Seq(Message)
           /\ Len([i \in 1 .. Len(f) |-> f[i].msg]) = Len(f)
<1>1. Len(f) \in Nat /\ \A i \in 1 .. Len(f) : f[i] \in Element
  OBVIOUS
<1>2. \A i \in 1 .. Len(f) : f[i].msg \in Message
  BY <1>1 DEF Element
<1> QED
  BY <1>1, <1>2

\* Appending an element appends its body.
LEMMA BodiesAppend ==
    ASSUME NEW f \in Seq(Element), NEW e \in Element
    PROVE  [i \in 1 .. Len(Append(f, e)) |-> Append(f, e)[i].msg]
             = Append([i \in 1 .. Len(f) |-> f[i].msg], e.msg)
<1>1. /\ Len(Append(f, e)) = Len(f) + 1 /\ Len(f) \in Nat
      /\ \A i \in 1 .. Len(f) : Append(f, e)[i] = f[i]
      /\ Append(f, e)[Len(f) + 1] = e
  OBVIOUS
<1> DEFINE g == [i \in 1 .. Len(f) |-> f[i].msg]
<1>2. g \in Seq(Message) /\ Len(g) = Len(f) /\ e.msg \in Message
      /\ \A i \in 1 .. Len(f) : g[i] = f[i].msg
  BY Bodies DEF Element
<1> HIDE DEF g
<1>3. Append(g, e.msg) = [i \in 1 .. Len(f) + 1 |-> IF i = Len(f) + 1 THEN e.msg ELSE g[i]]
  BY <1>1, <1>2
<1>4. [i \in 1 .. Len(Append(f, e)) |-> Append(f, e)[i].msg]
        = [i \in 1 .. Len(f) + 1 |-> IF i = Len(f) + 1 THEN e.msg ELSE g[i]]
  BY <1>1, <1>2
<1> QED
  BY <1>3, <1>4 DEF g

\* Dropping the oldest element drops its body.
LEMMA BodiesTail ==
    ASSUME NEW f \in Seq(Element), f # << >>
    PROVE  /\ [i \in 1 .. Len(Tail(f)) |-> Tail(f)[i].msg]
                = Tail([i \in 1 .. Len(f) |-> f[i].msg])
           /\ Head([i \in 1 .. Len(f) |-> f[i].msg]) = f[1].msg
           /\ [i \in 1 .. Len(f) |-> f[i].msg] # << >>
<1>1. /\ Len(f) \in Nat /\ Len(f) >= 1 /\ Len(Tail(f)) = Len(f) - 1
      /\ \A i \in 1 .. Len(f) - 1 : Tail(f)[i] = f[i + 1]
  BY NonEmpty
<1> DEFINE g == [i \in 1 .. Len(f) |-> f[i].msg]
<1>2. g \in Seq(Message) /\ Len(g) = Len(f) /\ \A i \in 1 .. Len(f) : g[i] = f[i].msg
  BY Bodies
<1> HIDE DEF g
<1>3. g # << >> /\ Head(g) = f[1].msg
  BY <1>1, <1>2
<1>4. Tail(g) = [i \in 1 .. Len(f) - 1 |-> g[i + 1]]
  <2>1. /\ Tail(g) \in Seq(Message) /\ Len(Tail(g)) = Len(g) - 1
        /\ \A i \in 1 .. Len(Tail(g)) : Tail(g)[i] = g[i + 1]
    BY <1>2, <1>3, HeadTailProperties
  <2> DEFINE t == Tail(g)
  <2> HIDE DEF t
  <2>2. t = [i \in 1 .. Len(t) |-> t[i]]
    <3>1. ASSUME NEW s \in Seq(Message) PROVE s = [i \in 1 .. Len(s) |-> s[i]]
      OBVIOUS
    <3>2. t \in Seq(Message)
      BY <2>1 DEF t
    <3> QED
      BY <3>1, <3>2
  <2>3. Len(t) = Len(f) - 1 /\ \A i \in 1 .. Len(t) : t[i] = g[i + 1]
    BY <1>2, <2>1 DEF t
  <2>4. t = [i \in 1 .. Len(f) - 1 |-> g[i + 1]]
    BY <2>2, <2>3
  <2> QED
    BY <2>4 DEF t
<1>5. [i \in 1 .. Len(Tail(f)) |-> Tail(f)[i].msg] = [i \in 1 .. Len(f) - 1 |-> g[i + 1]]
  BY <1>1, <1>2
<1> QED
  BY <1>3, <1>4, <1>5 DEF g

\* Every step of the ring is a step of the bounded queue, or leaves it alone.
LEMMA RingStep ==
    ASSUME RingInv, [RingNext]_ringVars
    PROVE  [Fifo!Next]_(Fifo!vars)
<1> USE DEF RingInv
<1>0. fifo \in Seq(Element)
  BY DEF RingTypeOK
<1>1. ASSUME NEW m \in Message, Fits(m), Write(m)
      PROVE  Fifo!Put(m)
  <2>1. m # << >> /\ [msg |-> m, at |-> headIndex] \in Element
    BY <1>1, RingAssumption DEF Write, CanWrite, RingTypeOK, Element
  <2>2. fifo' = Append(fifo, [msg |-> m, at |-> headIndex])
    BY <1>1 DEF Write
  <2>3. [i \in 1 .. Len(fifo') |-> fifo'[i].msg] = Append([i \in 1 .. Len(fifo) |-> fifo[i].msg], m)
    BY <1>0, <2>1, <2>2, BodiesAppend
  <2>4. HeaderSize + Len(m) <= qLeftSize /\ qLeftSize' = qLeftSize - (HeaderSize + Len(m))
        /\ data' = data
    BY <1>1 DEF Fits, Write
  <2> QED
    BY <2>1, <2>3, <2>4 DEF Fifo!Put, Fifo!Cost
<1>2. ASSUME Read PROVE Fifo!Get
  <2>1. fifo # << >>
    <3>1. QueueScene # 3
      BY <1>2 DEF Read, TakeDirect, TakeWhole, TakeHeaderCut, TakeBodyCut, TakeBodyAtZero,
             CanTakeDirect, CanTakeWhole, CanTakeHeaderCut, CanTakeBodyCut, CanTakeBodyAtZero
    <3> QED
      BY <3>1, Scenes
  <2>2. data' = fifo[1].msg /\ BodyLen = Len(fifo[1].msg)
    BY <1>2, <2>1, ReadTakes DEF Front
  <2>3. qLeftSize' = qLeftSize + (HeaderSize + Len(fifo[1].msg)) /\ fifo' = Tail(fifo)
    BY <1>2, <2>2 DEF Read
  <2>4. /\ [i \in 1 .. Len(fifo') |-> fifo'[i].msg] = Tail([i \in 1 .. Len(fifo) |-> fifo[i].msg])
        /\ Head([i \in 1 .. Len(fifo) |-> fifo[i].msg]) = fifo[1].msg
        /\ [i \in 1 .. Len(fifo) |-> fifo[i].msg] # << >>
    BY <1>0, <2>1, <2>3, BodiesTail
  <2> QED
    BY <2>2, <2>3, <2>4 DEF Fifo!Get, Fifo!Cost
<1>3. ASSUME UNCHANGED <<qLeftSize, data, fifo>> PROVE UNCHANGED Fifo!vars
  BY <1>3 DEF Fifo!vars
<1>4. ASSUME NEW m \in Message, WriteThrows(m) PROVE UNCHANGED Fifo!vars
  BY <1>3, <1>4 DEF WriteThrows
<1>5. CASE ReadThrows
  BY <1>3, <1>5 DEF ReadThrows
<1>6. CASE UNCHANGED ringVars
  BY <1>3, <1>6 DEF ringVars
<1> QED
  BY <1>1, <1>2, <1>4, <1>5, <1>6 DEF RingNext, Fifo!Next

\* The byte ring implements the bounded first-in-first-out queue: what read
\* assembles from memory is the oldest body, unaltered, whatever the sizes.
THEOREM RingIsFifo == RingSpec => FifoSpec
<1>1. RingInit => Fifo!Init
  BY DEF RingInit, Fifo!Init
<1>2. RingInv /\ [RingNext]_ringVars => [Fifo!Next]_(Fifo!vars)
  BY RingStep
<1>3. RingSpec => []RingInv
  BY RingSafe, PTL DEF RingInv
<1> QED
  BY <1>1, <1>2, <1>3, PTL DEF RingSpec, FifoSpec, Fifo!Spec
------------------------------------------------------------------------------
(* The queue: ThreadInv and PairInv. *)

\* A call under way carries a message its caller chose.
ArgOK == \A t \in Putter : pc[t] \notin {"idle", "dead"} => arg[t] \in Message

ThreadInv == ThreadsOK /\ ArgOK

------------------------------------------------------------------------------

\* The constructor leaves the mutex free and every thread outside.
LEMMA ThreadsStart == Init => ThreadInv
  BY ThreadAssumption DEF Init, ThreadInv, ThreadsOK, ArgOK, Thread, Places, Results, Modes

\* A new call only moves its own thread to the mutex.
LEMMA CallKeeps ==
    ASSUME ThreadInv, NEW t \in Thread, NewCall(t)
    PROVE  ThreadInv'
<1>1. CASE t \in Putter /\ \E m \in Message, w \in Mode : CallPut(t, m, w)
  BY <1>1, ThreadAssumption
     DEF CallPut, Call, Goto, ThreadInv, ThreadsOK, ArgOK, Thread, Places, Results, Modes
<1>2. CASE t \in Getter /\ \E w \in Mode : CallGet(t, w)
  BY <1>2, ThreadAssumption
     DEF CallGet, Call, Goto, ThreadInv, ThreadsOK, ArgOK, Thread, Places, Results, Modes
<1>3. CASE t \in Stopper /\ CallStopPut(t)
  BY <1>3, ThreadAssumption
     DEF CallStopPut, Call, Goto, ThreadInv, ThreadsOK, ArgOK, Thread, Places, Results, Modes
<1> QED
  BY <1>1, <1>2, <1>3 DEF NewCall

\* Taking the mutex makes the thread its only owner.
LEMMA LockKeeps ==
    ASSUME ThreadInv, NEW t \in Thread, Lock(t)
    PROVE  ThreadInv'
  BY ThreadAssumption
     DEF Lock, Goto, ThreadInv, ThreadsOK, ArgOK, Thread, Places

\* Whatever ends a call inside the mutex, an exception or a give-up, unlocks it.
LEMMA ThrowKeeps ==
    ASSUME ThreadInv, NEW t \in Thread, Refuse(t) \/ GiveUp(t)
    PROVE  ThreadInv'
<1>1. PICK res \in Results : Return(t, res)
  BY DEF Refuse, GiveUp, Results
<1>2. /\ owner = t /\ owner' = NoThread
      /\ pc[t] \in {"in", "again"}
      /\ UNCHANGED <<waiting, arg, mode, stopped>>
  BY DEF Refuse, GiveUp, Inside
<1> QED
  BY <1>1, <1>2, ThreadAssumption
     DEF Return, Goto, ThreadInv, ThreadsOK, ArgOK, Thread, Places

\* A wait unlocks and enlists the thread with the condition variable.
LEMMA SleepKeeps ==
    ASSUME ThreadInv, NEW t \in Thread, Sleep(t)
    PROVE  ThreadInv'
  BY ThreadAssumption
     DEF Sleep, Inside, Goto, ThreadInv, ThreadsOK, ArgOK, Thread, Places

\* A write or read, successful or not, is followed by the unlock.
LEMMA ElementKeeps ==
    ASSUME ThreadInv, NEW t \in Thread, PutElement(t) \/ GetElement(t)
    PROVE  ThreadInv'
<1>1. PICK done \in BOOLEAN : Leave(t, done)
  <2>1. (outcome' = "ok") \in BOOLEAN
    OBVIOUS
  <2> QED
    BY <2>1 DEF PutElement, GetElement
<1>2. owner = t /\ pc[t] \in {"in", "again"}
  BY DEF PutElement, GetElement, Inside
<1> QED
  BY <1>1, <1>2, ThreadAssumption
     DEF Leave, Return, Goto, ThreadInv, ThreadsOK, ArgOK, Thread, Places, Results

\* A signal takes one sleeper off the condition variable.
LEMMA SignalKeeps ==
    ASSUME ThreadInv, NEW t \in Thread, Signal(t)
    PROVE  ThreadInv'
<1>1. CASE waiting = {} /\ Goto(t, "idle") /\ UNCHANGED waiting
  BY <1>1, ThreadAssumption
     DEF Signal, Goto, ThreadInv, ThreadsOK, ArgOK, Thread, Places, Results
<1>2. ASSUME NEW w \in waiting,
             waiting' = waiting \ {w},
             pc' = [pc EXCEPT ![t] = "idle", ![w] = IF @ = "dead" THEN @ ELSE "woken"]
      PROVE  ThreadInv'
  <2>1. w \in Thread /\ w # t /\ pc[w] \in {"asleep", "dead"}
    BY <1>2 DEF Signal, ThreadInv, ThreadsOK
  <2>2. pc' \in [Thread -> Places]
    BY <1>2, <2>1 DEF ThreadInv, ThreadsOK, Places
  <2>3. \A u \in Thread : pc'[u] = CASE u = t -> "idle"
                                     [] u = w /\ pc[w] # "dead" -> "woken"
                                     [] OTHER -> pc[u]
    BY <1>2, <2>1 DEF ThreadInv, ThreadsOK
  <2> QED
    BY <1>2, <2>1, <2>2, <2>3, ThreadAssumption
       DEF Signal, ThreadInv, ThreadsOK, ArgOK, Thread, Results
<1> QED
  BY <1>1, <1>2 DEF Signal

\* StopPut's unlock and its broadcast leave no thread enlisted.
LEMMA StopKeeps ==
    ASSUME ThreadInv, NEW t \in Thread, StopUnlock(t) \/ Broadcast(t)
    PROVE  ThreadInv'
<1>1. CASE StopUnlock(t)
  BY <1>1, ThreadAssumption
     DEF StopUnlock, Inside, Goto, ThreadInv, ThreadsOK, ArgOK, Thread, Places
<1>2. CASE Broadcast(t)
  <2>1. \A u \in Thread : pc'[u] = CASE u = t -> "idle"
                                     [] u \in waiting /\ pc[u] # "dead" -> "woken"
                                     [] OTHER -> pc[u]
    BY <1>2 DEF Broadcast
  <2>2. pc' \in [Thread -> Places]
    BY <1>2 DEF Broadcast, ThreadInv, ThreadsOK, Places
  <2> QED
    BY <1>2, <2>1, <2>2, ThreadAssumption
       DEF Broadcast, ThreadInv, ThreadsOK, ArgOK, Thread, Results
<1> QED
  BY <1>1, <1>2

\* A sleeper that wakes by itself or runs out of time is no longer enlisted.
LEMMA WakeKeeps ==
    ASSUME ThreadInv, NEW t \in Thread, SpuriousWake(t) \/ Expire(t) \/ Expired(t)
    PROVE  ThreadInv'
<1>1. CASE SpuriousWake(t) \/ Expire(t)
  BY <1>1, ThreadAssumption
     DEF SpuriousWake, Expire, Goto, ThreadInv, ThreadsOK, ArgOK, Thread, Places
<1>2. CASE Expired(t)
  BY <1>2, ThreadAssumption
     DEF Expired, Return, Goto, ThreadInv, ThreadsOK, ArgOK, Thread, Places, Results
<1> QED
  BY <1>1, <1>2

\* A killed owner keeps the mutex, a killed sleeper may stay enlisted.
LEMMA CrashKeeps ==
    ASSUME ThreadInv, NEW t \in Thread, Crash(t)
    PROVE  ThreadInv'
  BY ThreadAssumption
     DEF Crash, Goto, ThreadInv, ThreadsOK, ArgOK, Thread, Places

\* Every step, or none, keeps the threads consistent.
LEMMA StepKeeps == ThreadInv /\ [Next]_vars => ThreadInv'
<1> SUFFICES ASSUME ThreadInv, [Next]_vars PROVE ThreadInv'
  OBVIOUS
<1>1. ASSUME NEW t \in Thread, Step(t) PROVE ThreadInv'
  BY <1>1, LockKeeps, ThrowKeeps, SleepKeeps, ElementKeeps, SignalKeeps, StopKeeps, WakeKeeps
     DEF Step
<1>2. ASSUME NEW t \in Thread, NewCall(t) \/ SpuriousWake(t) \/ Expire(t) \/ Crash(t)
      PROVE  ThreadInv'
  BY <1>2, CallKeeps, WakeKeeps, CrashKeeps
<1>3. CASE UNCHANGED vars
  BY <1>3 DEF vars, threadVars, ThreadInv, ThreadsOK, ArgOK
<1> QED
  BY <1>1, <1>2, <1>3 DEF Next

\* Mutual exclusion, and no lock left behind by a live thread, for any number
\* of producers, consumers and stoppers.
THEOREM QueueThreads == Spec => []ThreadsOK
<1>1. Spec => []ThreadInv
  BY ThreadsStart, StepKeeps, PTL DEF Spec
<1>2. ThreadInv => ThreadsOK
  BY DEF ThreadInv
<1> QED
  BY <1>1, <1>2, PTL

------------------------------------------------------------------------------

\* A step of the queue is a read, a write with enough room, or nothing to the ring.
LEMMA StepIsRingStep == ThreadInv /\ RingInv /\ [Next]_vars => [RingNext]_ringVars
<1> SUFFICES ASSUME ThreadInv, RingInv, [Next]_vars PROVE [RingNext]_ringVars
  OBVIOUS
<1>1. ASSUME NEW t \in Thread, PutElement(t) PROVE RingNext
  <2>1. arg[t] \in Message
    BY <1>1 DEF PutElement, Inside, ThreadInv, ArgOK
  <2>2. Len(arg[t]) \in Nat /\ HeaderSize \in Nat
    BY <2>1, RingAssumption
  <2>3. ~(HeaderSize + Len(arg[t]) > qLeftSize)
    BY <1>1 DEF PutElement, Blocked, ElementSize
  <2>5. qLeftSize \in Int
    BY RingAssumption DEF RingInv, RingTypeOK
  <2>4. Write(arg[t]) \/ WriteThrows(arg[t])
    BY <1>1 DEF PutElement
  <2> QED
    BY <2>1, <2>2, <2>3, <2>4, <2>5 DEF RingNext, Fits
<1>2. ASSUME NEW t \in Thread, GetElement(t) PROVE RingNext
  BY <1>2 DEF GetElement, RingNext
<1>3. ASSUME NEW t \in Thread, Step(t), ~PutElement(t), ~GetElement(t)
      PROVE  UNCHANGED ringVars
  BY <1>3 DEF Step, Lock, Refuse, Sleep, GiveUp, Signal, StopUnlock, Broadcast, Expired
<1>4. ASSUME NEW t \in Thread, NewCall(t) \/ SpuriousWake(t) \/ Expire(t) \/ Crash(t)
      PROVE  UNCHANGED ringVars
  BY <1>4 DEF NewCall, CallPut, CallGet, CallStopPut, Call, SpuriousWake, Expire, Crash
<1>5. CASE UNCHANGED vars
  BY <1>5 DEF vars
<1> QED
  BY <1>1, <1>2, <1>3, <1>4, <1>5 DEF Next

\* The threads' invariant and the ring's together are inductive.
LEMMA QueueInv == Spec => [](ThreadInv /\ RingInv)
<1>1. Init => ThreadInv /\ RingInv
  BY ThreadsStart, InitEstablishes DEF Init
<1>2. ThreadInv /\ RingInv /\ [Next]_vars => (ThreadInv /\ RingInv)'
  BY StepKeeps, StepIsRingStep, RingStepKeeps
<1> QED
  BY <1>1, <1>2, PTL DEF Spec

\* However calls interleave, wait, time out and die, the ring is used as
\* ElementOp asks of its callers.
THEOREM QueueRespectsRing == Spec => RingContract
<1>1. Init => RingInit
  BY DEF Init
<1> QED
  BY <1>1, QueueInv, StepIsRingStep, PTL DEF Spec, RingContract, RingSpec

\* So the blocking queue as a whole is a first-in-first-out queue: every message
\* put is got once, unaltered and in order, by one of the getters.
THEOREM QueueIsFifo == Spec => FifoSpec
  BY QueueRespectsRing, RingIsFifo DEF RingContract

------------------------------------------------------------------------------
(* One producer and one consumer, as long as nobody is killed. *)

\* What one producer and one consumer need on top of ThreadInv: nobody is dead,
\* stoppers neither sleep nor signal, and whoever sleeps for room can get it.
PairInv ==
    /\ ThreadInv
    /\ AllAlive
    /\ \A t \in Stopper : pc[t] \notin {"asleep", "signal"}
    /\ \A t \in Putter : pc[t] = "asleep" => ~TooBig(t)
    /\ SignalOnItsWay

\* A step that moves one thread, leaves room and count alone and is not that
\* thread's signal misses nobody's wake-up.
LEMMA QuietKeeps ==
    ASSUME PairInv, ThreadInv', NEW t \in Thread, NEW place,
           Goto(t, place),
           place \notin {"asleep", "dead"},
           t \in Stopper => place # "signal",
           pc[t] # "signal",
           UNCHANGED <<qLeftSize, elementCount>>,
           \A u \in Thread \ {t} : arg'[u] = arg[u]
    PROVE  PairInv'
<1>1. \A u \in Thread : pc'[u] = IF u = t THEN place ELSE pc[u]
  BY DEF Goto, PairInv, AllAlive, ThreadInv, ThreadsOK
<1>2. \A u \in Thread \ {t} : Blocked(u)' = Blocked(u) /\ TooBig(u)' = TooBig(u)
  BY DEF Blocked, TooBig, ElementSize
<1>3. ASSUME NEW u \in Putter \cup Getter, pc'[u] = "asleep", ~Blocked(u)'
      PROVE  \E v \in Thread : pc'[v] = "signal"
  <2>1. u # t /\ pc[u] = "asleep" /\ ~Blocked(u)
    BY <1>1, <1>2, <1>3 DEF Thread
  <2>2. PICK v \in Thread : pc[v] = "signal"
    BY <2>1 DEF PairInv, AllAlive, SignalOnItsWay
  <2> QED
    BY <1>1, <2>2
<1>4. SignalOnItsWay'
  BY <1>3 DEF SignalOnItsWay
<1>5. \A u \in Putter : pc'[u] = "asleep" => ~TooBig(u)'
  BY <1>1, <1>2 DEF PairInv, AllAlive, Thread
<1> QED
  BY <1>1, <1>4, <1>5 DEF PairInv, AllAlive, Thread

\* A caller goes to sleep only while what it waits for is not there.
LEMMA PairSleep ==
    ASSUME PairInv, ThreadInv', NEW t \in Thread, Sleep(t)
    PROVE  PairInv'
<1>1. \A u \in Thread : pc'[u] = IF u = t THEN "asleep" ELSE pc[u]
  BY DEF Sleep, Goto, PairInv, AllAlive, ThreadInv, ThreadsOK
<1>2. \A u \in Thread : Blocked(u)' = Blocked(u) /\ TooBig(u)' = TooBig(u)
  BY DEF Sleep, ringVars, Blocked, TooBig, ElementSize
<1>3. Blocked(t) /\ ~TooBig(t) /\ t \notin Stopper /\ pc[t] # "signal"
  BY DEF Sleep, Inside
<1>4. SignalOnItsWay'
  <2> SUFFICES ASSUME NEW u \in Putter \cup Getter, pc'[u] = "asleep", ~Blocked(u)'
               PROVE  \E v \in Thread : pc'[v] = "signal"
    BY DEF SignalOnItsWay
  <2>1. u # t /\ pc[u] = "asleep" /\ ~Blocked(u)
    BY <1>1, <1>2, <1>3 DEF Thread
  <2>2. PICK v \in Thread : pc[v] = "signal"
    BY <2>1 DEF PairInv, AllAlive, SignalOnItsWay
  <2> QED
    BY <1>1, <1>3, <2>2
<1>5. \A u \in Putter : pc'[u] = "asleep" => ~TooBig(u)'
  BY <1>1, <1>2, <1>3 DEF PairInv, AllAlive, Thread
<1> QED
  BY <1>1, <1>3, <1>4, <1>5 DEF PairInv, AllAlive, Thread

\* Whoever changed the queue is about to signal; whoever failed changed nothing.
LEMMA PairElement ==
    ASSUME PairInv, ThreadInv', RingInv', NEW t \in Thread, PutElement(t) \/ GetElement(t)
    PROVE  PairInv'
<1>1. t \notin Stopper /\ pc[t] \in {"in", "again"} /\ UNCHANGED arg
  BY ThreadAssumption DEF PutElement, GetElement, Inside, Leave
<1>2. CASE Leave(t, TRUE)
  <2>1. \A u \in Thread : pc'[u] = IF u = t THEN "signal" ELSE pc[u]
    BY <1>2 DEF Leave, Goto, PairInv, AllAlive, ThreadInv, ThreadsOK
  <2>2. SignalOnItsWay'
    BY <2>1 DEF SignalOnItsWay
  <2>3. \A u \in Thread : TooBig(u)' = TooBig(u)
    BY <1>1 DEF TooBig, ElementSize
  <2> QED
    BY <1>1, <2>1, <2>2, <2>3 DEF PairInv, AllAlive, Thread
<1>3. CASE Leave(t, FALSE) /\ UNCHANGED <<qLeftSize, elementCount>>
  BY <1>1, <1>3, QuietKeeps DEF Leave, Return
<1>4. CASE outcome' = "ok"
  BY <1>2, <1>4 DEF PutElement, GetElement
<1>5. CASE outcome' # "ok"
  <2>1. outcome' # "corrupt"
    BY DEF RingInv, NeverCorrupt
  <2>2. UNCHANGED <<qLeftSize, elementCount>>
    BY <1>5, <2>1 DEF PutElement, GetElement, Write, WriteThrows, Read, ReadThrows
  <2>3. (outcome' = "ok") = FALSE
    BY <1>5
  <2> QED
    BY <1>3, <2>2, <2>3 DEF PutElement, GetElement
<1> QED
  BY <1>4, <1>5


\* With one producer and one consumer, the sleeper a signal wakes is the one
\* that could have missed it.
LEMMA PairSignal ==
    ASSUME NEW p, NEW g, Putter = {p}, Getter = {g},
           PairInv, ThreadInv', NEW t \in Thread, Signal(t)
    PROVE  PairInv'
<1>1. t \in {p, g} /\ pc[t] = "signal"
  BY DEF Signal, PairInv, Thread
<1>2. waiting \subseteq {p, g} \ {t}
  BY <1>1 DEF PairInv, AllAlive, ThreadInv, ThreadsOK, Thread
<1>3. \A u \in Thread : pc'[u] \in {"idle", "woken", pc[u]}
  BY DEF Signal, Goto, PairInv, AllAlive, ThreadInv, ThreadsOK
<1>4. \A u \in {p, g} : pc'[u] # "asleep"
  <2>1. CASE waiting = {} /\ Goto(t, "idle")
    BY <1>1, <2>1 DEF Goto, PairInv, AllAlive, ThreadInv, ThreadsOK, Thread
  <2>2. ASSUME NEW w \in waiting,
               pc' = [pc EXCEPT ![t] = "idle", ![w] = IF @ = "dead" THEN @ ELSE "woken"]
        PROVE  \A u \in {p, g} : pc'[u] # "asleep"
    BY <1>1, <1>2, <2>2 DEF PairInv, AllAlive, ThreadInv, ThreadsOK, Thread
  <2> QED
    BY <2>1, <2>2 DEF Signal
<1> QED
  BY <1>3, <1>4 DEF PairInv, AllAlive, SignalOnItsWay, Thread

\* A broadcast leaves nobody asleep.
LEMMA PairBroadcast ==
    ASSUME PairInv, ThreadInv', NEW t \in Thread, Broadcast(t)
    PROVE  PairInv'
<1>1. \A u \in Thread : pc'[u] = CASE u = t -> "idle"
                                   [] u \in waiting /\ pc[u] # "dead" -> "woken"
                                   [] OTHER -> pc[u]
  BY DEF Broadcast
<1>2. \A u \in Thread : pc'[u] \notin {"asleep", "dead"}
  BY <1>1 DEF PairInv, AllAlive, ThreadInv, ThreadsOK
<1> QED
  BY <1>1, <1>2 DEF PairInv, AllAlive, SignalOnItsWay, Thread

\* Every step keeps the pair's invariant.
LEMMA PairKeeps ==
    ASSUME NEW p, NEW g, Putter = {p}, Getter = {g},
           PairInv, RingInv, AllAlive', [Next]_vars
    PROVE  PairInv'
<1>0. ThreadInv' /\ RingInv'
  BY StepKeeps, StepIsRingStep, RingStepKeeps DEF PairInv, AllAlive
<1>1. ASSUME NEW t \in Thread, Step(t) PROVE PairInv'
  <2>1. CASE Lock(t)
    <3>1. PICK place \in {"in", "again"} : Goto(t, place)
      BY <2>1 DEF Lock
    <3>2. pc[t] # "signal" /\ UNCHANGED <<qLeftSize, elementCount, arg>>
      BY <2>1 DEF Lock, ringVars
    <3> QED
      BY <1>0, <3>1, <3>2, QuietKeeps
  <2>2. CASE Refuse(t) \/ GiveUp(t) \/ Expired(t)
    <3>1. Goto(t, "idle")
      BY <2>2 DEF Refuse, GiveUp, Expired, Return
    <3>2. pc[t] # "signal" /\ UNCHANGED <<qLeftSize, elementCount, arg>>
      BY <2>2 DEF Refuse, GiveUp, Expired, Inside, ringVars
    <3> QED
      BY <1>0, <3>1, <3>2, QuietKeeps
  <2>3. CASE StopUnlock(t)
    <3>1. Goto(t, "broadcast")
      BY <2>3 DEF StopUnlock
    <3>2. pc[t] # "signal" /\ UNCHANGED <<qLeftSize, elementCount, arg>>
      BY <2>3 DEF StopUnlock, Inside, ringVars
    <3> QED
      BY <1>0, <3>1, <3>2, QuietKeeps
  <2> QED
    BY <1>0, <1>1, <2>1, <2>2, <2>3, PairSleep, PairElement, PairSignal, PairBroadcast DEF Step
<1>2. ASSUME NEW t \in Thread, NewCall(t) PROVE PairInv'
  <2>1. Goto(t, "lock") /\ pc[t] = "idle"
    BY <1>2 DEF NewCall, CallPut, CallGet, CallStopPut, Call
  <2>2. UNCHANGED <<qLeftSize, elementCount>>
    BY <1>2 DEF NewCall, CallPut, CallGet, CallStopPut, Call, ringVars
  <2>3. \A u \in Thread \ {t} : arg'[u] = arg[u]
    BY <1>2 DEF NewCall, CallPut, CallGet, CallStopPut, PairInv, AllAlive, ThreadInv, ThreadsOK
  <2> QED
    BY <1>0, <2>1, <2>2, <2>3, QuietKeeps
<1>3. ASSUME NEW t \in Thread, SpuriousWake(t) \/ Expire(t) PROVE PairInv'
  <2>1. PICK place \in {"woken", "expired"} : Goto(t, place)
    BY <1>3 DEF SpuriousWake, Expire
  <2>2. pc[t] # "signal" /\ UNCHANGED <<qLeftSize, elementCount, arg>>
    BY <1>3 DEF SpuriousWake, Expire, ringVars
  <2> QED
    BY <1>0, <2>1, <2>2, QuietKeeps
<1>4. ASSUME NEW t \in Thread, Crash(t) PROVE FALSE
  <2>1. pc'[t] = "dead"
    BY <1>4 DEF Crash, Goto, PairInv, ThreadInv, ThreadsOK
  <2> QED
    BY <2>1 DEF AllAlive
<1>5. CASE UNCHANGED vars
  BY <1>0, <1>5 DEF PairInv, AllAlive, SignalOnItsWay, Blocked, TooBig, ElementSize, vars, threadVars, ringVars
<1> QED
  BY <1>1, <1>2, <1>3, <1>4, <1>5 DEF Next

\* The dead stay dead.
LEMMA DeadStayDead ==
    ASSUME ThreadInv, [Next]_vars, AllAlive'
    PROVE  AllAlive
<1> SUFFICES ASSUME NEW u \in Thread, pc[u] = "dead" PROVE pc'[u] = "dead"
  BY DEF AllAlive
<1>1. pc \in [Thread -> Places]
  BY DEF ThreadInv, ThreadsOK
<1>2. ASSUME NEW t \in Thread, NEW place, Goto(t, place), t # u PROVE pc'[u] = "dead"
  BY <1>1, <1>2 DEF Goto
<1>3. ASSUME NEW t \in Thread, Signal(t) PROVE pc'[u] = "dead"
  <2>1. t # u
    BY <1>3 DEF Signal
  <2>2. CASE waiting = {} /\ Goto(t, "idle")
    BY <1>2, <2>1, <2>2
  <2>3. ASSUME NEW w \in waiting,
               pc' = [pc EXCEPT ![t] = "idle", ![w] = IF @ = "dead" THEN @ ELSE "woken"]
        PROVE  pc'[u] = "dead"
    BY <1>1, <2>1, <2>3
  <2> QED
    BY <1>3, <2>2, <2>3 DEF Signal
<1>4. ASSUME NEW t \in Thread, Broadcast(t) PROVE pc'[u] = "dead"
  BY <1>4 DEF Broadcast
<1>5. ASSUME NEW t \in Thread, PutElement(t) \/ GetElement(t) PROVE pc'[u] = "dead"
  <2>1. t # u
    BY <1>5 DEF PutElement, GetElement, Inside
  <2>2. \E place \in Places : Goto(t, place)
    BY <1>5 DEF PutElement, GetElement, Leave, Return, Places
  <2> QED
    BY <1>2, <2>1, <2>2
<1>6. ASSUME NEW t \in Thread,
             \/ Lock(t) \/ Refuse(t) \/ Sleep(t) \/ GiveUp(t) \/ StopUnlock(t)
             \/ Expired(t) \/ NewCall(t) \/ SpuriousWake(t) \/ Expire(t) \/ Crash(t)
      PROVE  pc'[u] = "dead"
  <2>1. t # u
    BY <1>6 DEF Lock, Refuse, Sleep, GiveUp, StopUnlock, Expired, NewCall, CallPut, CallGet,
                CallStopPut, Call, SpuriousWake, Expire, Crash, Inside
  <2>2. \E place \in Places : Goto(t, place)
    BY <1>6 DEF Lock, Refuse, Sleep, GiveUp, StopUnlock, Expired, NewCall, CallPut, CallGet,
                CallStopPut, Call, SpuriousWake, Expire, Crash, Return, Places
  <2> QED
    BY <1>2, <2>1, <2>2
<1>7. CASE UNCHANGED vars
  BY <1>7 DEF vars, threadVars
<1> QED
  BY <1>3, <1>4, <1>5, <1>6, <1>7 DEF Next, Step

\* Nobody sleeps or signals before the first call.
LEMMA PairStart == Init => (AllAlive => PairInv)
  BY ThreadsStart DEF Init, PairInv, AllAlive, SignalOnItsWay, Thread

\* As long as nobody is killed the pair's invariant holds, whatever happens after.
LEMMA PairAlways ==
    ASSUME NEW CONSTANT p, NEW CONSTANT g, Putter = {p}, Getter = {g}
    PROVE  Spec => [](AllAlive => PairInv)
<1> DEFINE J == AllAlive => PairInv
<1>1. J /\ ThreadInv /\ RingInv /\ [Next]_vars => J'
  BY PairKeeps, DeadStayDead
<1>2. Init => J
  BY PairStart
<1> HIDE DEF J
<1>3. Spec => []J
  BY <1>1, <1>2, QueueInv, PTL DEF Spec
<1> QED
  BY <1>3 DEF J

\* One producer, one consumer, any number of stoppers, any ring: no wake-up is
\* missed, although the signal is sent after the mutex is released.
THEOREM PairNoMissedWakeup ==
    ASSUME NEW CONSTANT p, NEW CONSTANT g, Putter = {p}, Getter = {g}
    PROVE  Spec => []NoMissedWakeup
<1>1. (AllAlive => PairInv) => NoMissedWakeup
  BY DEF PairInv, NoMissedWakeup
<1> QED
  BY <1>1, PairAlways, PTL

\* If both slept, the queue would be empty and full at once for elements that
\* fit it: the pair never sleeps together.
THEOREM PairNeverAllAsleep ==
    ASSUME NEW CONSTANT p, NEW CONSTANT g, Putter = {p}, Getter = {g}
    PROVE  Spec => []NeverAllAsleep
<1>1. (AllAlive => PairInv) /\ RingInv => NeverAllAsleep
  <2> SUFFICES ASSUME PairInv, RingInv, pc[p] = "asleep", pc[g] = "asleep" PROVE FALSE
    BY DEF NeverAllAsleep
  <2>1. \A u \in Thread : pc[u] # "signal"
    BY DEF PairInv, AllAlive, Thread
  <2>2. Blocked(p) /\ Blocked(g)
    BY <2>1 DEF PairInv, AllAlive, SignalOnItsWay
  <2>3. p \in Putter /\ g \notin Putter
    BY ThreadAssumption
  <2>4. elementCount = 0
    BY <2>2, <2>3 DEF Blocked
  <2>5. fifo = << >>
    <3>1. fifo \in Seq(Element) /\ Len(fifo) = 0
      BY <2>4 DEF RingInv, Accounted, RingTypeOK
    <3> QED
      BY <3>1
  <2>6. qLeftSize = Total
    BY <2>5, RingAssumption DEF RingInv, Accounted, RingTypeOK, Used
  <2>7. ~(ElementSize(p) > Total)
    BY <2>3 DEF PairInv, AllAlive, TooBig
  <2> QED
    BY <2>2, <2>3, <2>6, <2>7 DEF Blocked
<1> QED
  BY <1>1, PairAlways, QueueInv, PTL
==============================================================================
