-------------------------- MODULE EventServerProofs --------------------------
(***************************************************************************)
(* What the server keeps of its sessions, for any number of listeners,     *)
(* connections and descriptors, and any calls of the application in its    *)
(* callbacks: sessions are counted at their listeners, registered for what *)
(* they wait for, and each buffer is free or at one place.                 *)
(*                                                                         *)
(* None of these is inductive.  ServerInv adds what they rest on: a        *)
(* connection is in one backlog, accepted, or of one session (ConnInv,     *)
(* PendingInv), so that sessions are new when they are made; only the      *)
(* outermost handler was called by the loop, the others are AsyncClose's,  *)
(* and no session is being ended twice (FrameInv), so that what a handler  *)
(* does when its callback returns is still about its own session; pending  *)
(* reads have no more data than room (ChainInv).                           *)
(*                                                                         *)
(* Induction over a chain of buffers is done with sets: a set of naturals  *)
(* that has 0, and n + 1 with every n, has them all (NatAll), for its      *)
(* complement has no least element.                                        *)
(***************************************************************************)
EXTENDS EventServer, FiniteSetTheorems, SequenceTheorems, WellFoundedInduction, TLAPS

\* Every set of naturals that is not empty has a least element.
LEMMA LeastExists == ASSUME NEW T, T \subseteq Nat, T # {} PROVE \E x \in T : \A y \in T : x <= y
<1> DEFINE R == {ss \in Nat \X Nat : ss[1] < ss[2]}
<1>1. IsWellFoundedOn(R, Nat)
  BY NatLessThanWellFounded DEF OpToRel
<1> HIDE DEF R
<1>2. PICK x \in T : \A y \in T : ~ (<<y, x>> \in R)
  BY <1>1, WFMin
<1>3. ASSUME NEW y \in T PROVE x <= y
  <2>1. x \in Nat /\ y \in Nat /\ ~ (<<y, x>> \in R)
    BY <1>2
  <2>2. ~ (y < x)
    BY <2>1 DEF R
  <2> QED
    BY <2>1, <2>2
<1> QED
  BY <1>3

\* A set that has 0, and n + 1 with every n, has every natural: its complement has no least
\* element.
LEMMA NatAll == ASSUME NEW T, 0 \in T, \A n \in Nat : n \in T => n + 1 \in T PROVE Nat \subseteq T
<1> SUFFICES ASSUME Nat \ T # {} PROVE FALSE
  OBVIOUS
<1>1. PICK m \in Nat \ T : \A y \in Nat \ T : m <= y
  BY LeastExists
<1>2. m - 1 \in Nat /\ ~ (m <= m - 1)
  BY <1>1
<1>3. m - 1 \in T
  BY <1>1, <1>2
<1> QED
  BY <1>1, <1>2, <1>3

\* flatten
LEMMA FlattenIs ==
    ASSUME NEW S, NEW s \in Seq(Seq(S)), NEW h \in [0 .. Len(s) -> Seq(S)],
           h[0] = <<>>, \A i \in 1 .. Len(s) : h[i] = h[i - 1] \o s[i]
    PROVE  FlattenSeq(s) = h[Len(s)]
<1> DEFINE E(g) == [i \in 1 .. Len(s) |-> IF i = 1 THEN s[i] ELSE g[i - 1] \o s[i]]
           f == CHOOSE g : g = E(g)
<1>1. CASE Len(s) = 0
  <2>1. s = <<>>
    BY <1>1
  <2> QED
    BY <1>1, <2>1 DEF FlattenSeq
<1>2. CASE Len(s) # 0
  <2>1. FlattenSeq(s) = f[Len(s)]
    BY <1>2 DEF FlattenSeq
  <2>2. h[1] = s[1]
    <3>1. 1 \in 1 .. Len(s) /\ s[1] \in Seq(S)
      BY <1>2
    <3>2. h[1] = h[1 - 1] \o s[1]
      BY <3>1, Zenon
    <3>3. 1 - 1 = 0
      OBVIOUS
    <3>4. h[1] = h[0] \o s[1]
      BY <3>2, <3>3, Zenon
    <3> QED
      BY <3>1, <3>4, ConcatEmptySeq
  <2> DEFINE k == [i \in 1 .. Len(s) |-> h[i]]
  <2>3. k = E(k)
    <3>1. ASSUME NEW i \in 1 .. Len(s) PROVE h[i] = IF i = 1 THEN s[i] ELSE k[i - 1] \o s[i]
      <4>1. CASE i = 1
        BY <4>1, <2>2
      <4>2. CASE i # 1
        <5>1. i - 1 \in 1 .. Len(s)
          BY <4>2
        <5>2. k[i - 1] = h[i - 1]
          BY <5>1
        <5> HIDE DEF k
        <5> QED
          BY <4>2, <5>2
      <4> QED
        BY <4>1, <4>2
    <3> QED
      BY <3>1
  <2>4. f = E(f)
    BY <2>3
  <2> HIDE DEF f, k
  <2> DEFINE T == {n \in Nat : n \in 1 .. Len(s) => f[n] = h[n]}
  <2>5. Nat \subseteq T
    <3>1. 0 \in T
      OBVIOUS
    <3>2. ASSUME NEW n \in Nat, n \in T PROVE n + 1 \in T
      <4> SUFFICES ASSUME n + 1 \in 1 .. Len(s) PROVE f[n + 1] = h[n + 1]
        OBVIOUS
      <4>1. f[n + 1] = IF n + 1 = 1 THEN s[n + 1] ELSE f[(n + 1) - 1] \o s[n + 1]
        BY <2>4
      <4>2. CASE n = 0
        BY <4>1, <4>2, <2>2
      <4>3. CASE n # 0
        <5>1. (n + 1) - 1 = n /\ n \in 1 .. Len(s)
          BY <4>3
        <5>2. h[n + 1] = h[n] \o s[n + 1]
          BY <5>1
        <5>3. f[n] = h[n]
          BY <5>1, <3>2
        <5>4. f[n + 1] = f[n] \o s[n + 1]
          <6> HIDE DEF E
          <6>1. n + 1 # 1
            BY <4>3
          <6> QED
            BY <4>1, <5>1, <6>1, Zenon
        <5> QED
          BY <5>2, <5>3, <5>4, Zenon
      <4> QED
        BY <4>2, <4>3
    <3> HIDE DEF T
    <3> QED
      BY <3>1, <3>2, NatAll
  <2> QED
    BY <2>1, <2>5, <1>2
<1> QED
  BY <1>1, <1>2

\* The partial sums of a finite sequence exist.
LEMMA SumExists ==
    ASSUME NEW n \in Nat, NEW e \in [1 .. n -> Int]
    PROVE  \E h \in [0 .. n -> Int] : h[0] = 0 /\ \A i \in 1 .. n : h[i] = h[i - 1] + e[i]
<1> DEFINE Sums(m, h) == h[0] = 0 /\ \A i \in 1 .. m : h[i] = h[i - 1] + e[i]
           T == {m \in Nat : m <= n => \E h \in [0 .. m -> Int] : Sums(m, h)}
<1>1. 0 \in T
  <2>1. [i \in 0 .. 0 |-> 0] \in [0 .. 0 -> Int] /\ Sums(0, [i \in 0 .. 0 |-> 0])
    OBVIOUS
  <2> QED
    BY <2>1
<1>2. ASSUME NEW m \in Nat, m \in T PROVE m + 1 \in T
  <2>0. m + 1 \in Nat
    OBVIOUS
  <2> SUFFICES ASSUME m + 1 <= n PROVE \E h \in [0 .. m + 1 -> Int] : Sums(m + 1, h)
    BY <2>0, Zenon
  <2>1. PICK h \in [0 .. m -> Int] : Sums(m, h)
    <3> HIDE DEF Sums
    <3>1. m <= n
      OBVIOUS
    <3> QED
      BY <1>2, <3>1
  <2> DEFINE g == [i \in 0 .. m + 1 |-> IF i = m + 1 THEN h[m] + e[m + 1] ELSE h[i]]
  <2>2. g \in [0 .. m + 1 -> Int]
    BY <2>1
  <2>3. g[0] = 0
    BY <2>1
  <2>4. ASSUME NEW i \in 1 .. m + 1 PROVE g[i] = g[i - 1] + e[i]
    <3>1. CASE i = m + 1
      BY <3>1, <2>1
    <3>2. CASE i # m + 1
      <4>1. i \in 1 .. m /\ i - 1 \in 0 .. m /\ i - 1 # m + 1
        BY <3>2
      <4> QED
        BY <4>1, <2>1
    <3> QED
      BY <3>1, <3>2
  <2> QED
    BY <2>2, <2>3, <2>4
<1> HIDE DEF T
<1>3. n \in T
  BY <1>1, <1>2, NatAll
<1> QED
  BY <1>3 DEF T

\* A sum is its recursion's only solution.
LEMMA SumOnly ==
    ASSUME NEW n \in Nat, NEW e \in [1 .. n -> Int],
           NEW h \in [0 .. n -> Int], h[0] = 0, \A i \in 1 .. n : h[i] = h[i - 1] + e[i],
           NEW g, g = [i \in 0 .. n |-> g[i]], g[0] = 0, \A i \in 1 .. n : g[i] = g[i - 1] + e[i]
    PROVE  g = h
<1> DEFINE T == {m \in Nat : m <= n => g[m] = h[m]}
<1>1. 0 \in T
  OBVIOUS
<1>2. ASSUME NEW m \in Nat, m \in T PROVE m + 1 \in T
  <2> SUFFICES ASSUME m + 1 <= n PROVE g[m + 1] = h[m + 1]
    OBVIOUS
  <2>1. m + 1 \in 1 .. n /\ m + 1 \in 0 .. n /\ m + 1 # 0 /\ (m + 1) - 1 = m /\ g[m] = h[m]
    BY <1>2
  <2>2. g[m + 1] = g[m] + e[m + 1]
    BY <2>1
  <2>3. h[m + 1] = h[m] + e[m + 1]
    BY <2>1
  <2> QED
    BY <2>1, <2>2, <2>3
<1> HIDE DEF T
<1>3. Nat \subseteq T
  BY <1>1, <1>2, NatAll
<1>4. ASSUME NEW i \in 0 .. n PROVE g[i] = h[i]
  <2>1. i \in Nat /\ i <= n
    OBVIOUS
  <2>2. i \in T
    BY <2>1, <1>3
  <2> QED
    BY <2>1, <2>2 DEF T
<1> QED
  BY <1>4

\* The recursive function that adds up a sequence is its partial sums.
LEMMA SumChosen ==
    ASSUME NEW n \in Nat, NEW e \in [1 .. n -> Int],
           NEW h \in [0 .. n -> Int], h[0] = 0, \A i \in 1 .. n : h[i] = h[i - 1] + e[i]
    PROVE  h = CHOOSE g : g = [i \in 0 .. n |-> IF i = 0 THEN 0 ELSE g[i - 1] + e[i]]
<1> DEFINE f == CHOOSE g : g = [i \in 0 .. n |-> IF i = 0 THEN 0 ELSE g[i - 1] + e[i]]
<1>1. h = [i \in 0 .. n |-> IF i = 0 THEN 0 ELSE h[i - 1] + e[i]]
  <2>1. h = [i \in 0 .. n |-> h[i]]
    OBVIOUS
  <2>2. \A i \in 0 .. n : h[i] = IF i = 0 THEN 0 ELSE h[i - 1] + e[i]
    OBVIOUS
  <2> QED
    BY <2>1, <2>2
<1>2. f = [i \in 0 .. n |-> IF i = 0 THEN 0 ELSE f[i - 1] + e[i]]
  BY <1>1
<1> HIDE DEF f
<1>3. f = [i \in 0 .. n |-> f[i]] /\ f[0] = 0
  BY <1>2
<1>4. \A i \in 1 .. n : f[i] = f[i - 1] + e[i]
  BY <1>2
<1>5. f = h
  BY <1>3, <1>4, SumOnly
<1> QED
  BY <1>5 DEF f

------------------------------------------------------------------------------
(* Chains of buffers. *)

Buffer == [id : Nat, total : Nat, data : Seq(Nat)]

DataSums(chain, h) == /\ h[0] = 0
                      /\ \A i \in 1 .. Len(chain) : h[i] = h[i - 1] + Len(chain[i].data)

RoomSums(chain, h) == /\ h[0] = 0
                      /\ \A i \in 1 .. Len(chain) : h[i] = h[i - 1] + (chain[i].total - Len(chain[i].data))

\* The parts of a buffer of a chain have their types.
LEMMA BufferType ==
    ASSUME NEW chain \in Seq(Buffer), NEW i \in 1 .. Len(chain)
    PROVE  /\ chain[i] \in Buffer /\ chain[i].data \in Seq(Nat)
           /\ Len(chain[i].data) \in Nat /\ chain[i].total \in Nat /\ chain[i].id \in Nat
<1>1. chain[i] \in Buffer
  BY ElementOfSeq
<1>2. chain[i].data \in Seq(Nat) /\ chain[i].total \in Nat /\ chain[i].id \in Nat
  BY <1>1 DEF Buffer
<1> QED
  BY <1>1, <1>2, LenProperties

\* Whatever adds up the data of a chain is DataTo.
LEMMA DataToIs ==
    ASSUME NEW chain \in Seq(Buffer), NEW h \in [0 .. Len(chain) -> Int], DataSums(chain, h)
    PROVE  DataTo(chain) = h
<1> DEFINE e == [i \in 1 .. Len(chain) |-> Len(chain[i].data)]
<1>1. e \in [1 .. Len(chain) -> Int]
  BY BufferType
<1>2. h[0] = 0 /\ \A i \in 1 .. Len(chain) : h[i] = h[i - 1] + e[i]
  BY DEF DataSums
<1>3. h = CHOOSE g : g = [i \in 0 .. Len(chain) |-> IF i = 0 THEN 0 ELSE g[i - 1] + e[i]]
  <2> HIDE DEF e
  <2>1. Len(chain) \in Nat
    BY LenProperties
  <2> QED
    BY <1>1, <1>2, <2>1, SumChosen
<1>4. ASSUME NEW g PROVE [i \in 0 .. Len(chain) |-> IF i = 0 THEN 0 ELSE g[i - 1] + e[i]]
                         = [i \in 0 .. Len(chain) |-> IF i = 0 THEN 0 ELSE g[i - 1] + Len(chain[i].data)]
  <2>1. \A i \in 0 .. Len(chain) : i # 0 => i \in 1 .. Len(chain)
    BY LenProperties
  <2> QED
    BY <2>1
<1> QED
  BY <1>3, <1>4 DEF DataTo

\* Whatever adds up the room in a chain is RoomTo.
LEMMA RoomToIs ==
    ASSUME NEW chain \in Seq(Buffer), NEW h \in [0 .. Len(chain) -> Int], RoomSums(chain, h)
    PROVE  RoomTo(chain) = h
<1> DEFINE e == [i \in 1 .. Len(chain) |-> chain[i].total - Len(chain[i].data)]
<1>1. e \in [1 .. Len(chain) -> Int]
  BY BufferType
<1>2. h[0] = 0 /\ \A i \in 1 .. Len(chain) : h[i] = h[i - 1] + e[i]
  BY DEF RoomSums
<1>3. h = CHOOSE g : g = [i \in 0 .. Len(chain) |-> IF i = 0 THEN 0 ELSE g[i - 1] + e[i]]
  <2> HIDE DEF e
  <2>1. Len(chain) \in Nat
    BY LenProperties
  <2> QED
    BY <1>1, <1>2, <2>1, SumChosen
<1>4. ASSUME NEW g PROVE [i \in 0 .. Len(chain) |-> IF i = 0 THEN 0 ELSE g[i - 1] + e[i]]
                         = [i \in 0 .. Len(chain) |->
                              IF i = 0 THEN 0 ELSE g[i - 1] + (chain[i].total - Len(chain[i].data))]
  <2>1. \A i \in 0 .. Len(chain) : i # 0 => i \in 1 .. Len(chain)
    BY LenProperties
  <2> QED
    BY <2>1
<1> QED
  BY <1>3, <1>4 DEF RoomTo

\* A sum of numbers that are not negative grows.
LEMMA SumGrows ==
    ASSUME NEW n \in Nat, NEW h \in [0 .. n -> Int], \A i \in 1 .. n : h[i - 1] <= h[i]
    PROVE  \A i \in 0 .. n : \A j \in i .. n : h[i] <= h[j]
<1> SUFFICES ASSUME NEW i \in 0 .. n PROVE \A j \in i .. n : h[i] <= h[j]
  OBVIOUS
<1> DEFINE T == {m \in Nat : i + m <= n => h[i] <= h[i + m]}
<1>1. 0 \in T
  OBVIOUS
<1>2. ASSUME NEW m \in Nat, m \in T PROVE m + 1 \in T
  <2> SUFFICES ASSUME i + (m + 1) <= n PROVE h[i] <= h[i + (m + 1)]
    OBVIOUS
  <2>1. h[i] <= h[i + m]
    BY <1>2
  <2>2. i + (m + 1) \in 1 .. n /\ (i + (m + 1)) - 1 = i + m /\ i + m \in 0 .. n
    OBVIOUS
  <2>3. h[i + m] <= h[i + (m + 1)]
    BY <2>2
  <2> QED
    BY <2>1, <2>2, <2>3
<1> HIDE DEF T
<1>3. Nat \subseteq T
  BY <1>1, <1>2, NatAll
<1>4. ASSUME NEW j \in i .. n PROVE h[i] <= h[j]
  <2>1. j - i \in Nat /\ i + (j - i) = j /\ j <= n
    OBVIOUS
  <2>2. j - i \in T
    BY <2>1, <1>3
  <2> QED
    BY <2>1, <2>2 DEF T
<1> QED
  BY <1>4

\* DataTo is a function into the naturals, follows its recursion and grows.
LEMMA DataToSums ==
    ASSUME NEW chain \in Seq(Buffer)
    PROVE  /\ DataTo(chain) \in [0 .. Len(chain) -> Nat] /\ DataSums(chain, DataTo(chain))
           /\ \A i \in 0 .. Len(chain) : \A j \in i .. Len(chain) : DataTo(chain)[i] <= DataTo(chain)[j]
<1> DEFINE e == [i \in 1 .. Len(chain) |-> Len(chain[i].data)]
<1>1. Len(chain) \in Nat /\ e \in [1 .. Len(chain) -> Int]
  BY BufferType, LenProperties
<1>2. PICK h \in [0 .. Len(chain) -> Int] : h[0] = 0 /\ \A i \in 1 .. Len(chain) : h[i] = h[i - 1] + e[i]
  <2> HIDE DEF e
  <2> QED
    BY <1>1, SumExists
<1>3. DataSums(chain, h)
  BY <1>2 DEF DataSums
<1>4. DataTo(chain) = h
  BY <1>3, DataToIs
<1>5. \A i \in 1 .. Len(chain) : h[i - 1] <= h[i]
  <2> SUFFICES ASSUME NEW i \in 1 .. Len(chain) PROVE h[i - 1] <= h[i]
    OBVIOUS
  <2>1. h[i] = h[i - 1] + Len(chain[i].data) /\ Len(chain[i].data) \in Nat
    BY <1>3, BufferType DEF DataSums
  <2>2. h[i - 1] \in Int
    BY <1>1
  <2> QED
    BY <2>1, <2>2
<1>6. \A i \in 0 .. Len(chain) : \A j \in i .. Len(chain) : h[i] <= h[j]
  BY <1>1, <1>5, SumGrows
<1>7. \A i \in 0 .. Len(chain) : h[i] \in Nat
  <2>1. \A i \in 0 .. Len(chain) : i \in 0 .. Len(chain) /\ h[i] \in Int /\ h[0] <= h[i]
    BY <1>1, <1>6
  <2> QED
    BY <2>1, <1>2
<1> QED
  BY <1>1, <1>3, <1>4, <1>6, <1>7

\* The chain of a pending read.
Fits(chain) == \A i \in 1 .. Len(chain) : Len(chain[i].data) <= chain[i].total

\* RoomTo of a pending read is a function into the naturals, follows its recursion and
\* grows.
LEMMA RoomToSums ==
    ASSUME NEW chain \in Seq(Buffer), Fits(chain)
    PROVE  /\ RoomTo(chain) \in [0 .. Len(chain) -> Nat] /\ RoomSums(chain, RoomTo(chain))
           /\ \A i \in 0 .. Len(chain) : \A j \in i .. Len(chain) : RoomTo(chain)[i] <= RoomTo(chain)[j]
<1> DEFINE e == [i \in 1 .. Len(chain) |-> chain[i].total - Len(chain[i].data)]
<1>1. Len(chain) \in Nat /\ e \in [1 .. Len(chain) -> Int]
  BY BufferType, LenProperties
<1>2. PICK h \in [0 .. Len(chain) -> Int] : h[0] = 0 /\ \A i \in 1 .. Len(chain) : h[i] = h[i - 1] + e[i]
  <2> HIDE DEF e
  <2> QED
    BY <1>1, SumExists
<1>3. RoomSums(chain, h)
  BY <1>2 DEF RoomSums
<1>4. RoomTo(chain) = h
  BY <1>3, RoomToIs
<1>5. \A i \in 1 .. Len(chain) : h[i - 1] <= h[i]
  <2> SUFFICES ASSUME NEW i \in 1 .. Len(chain) PROVE h[i - 1] <= h[i]
    OBVIOUS
  <2>1. /\ h[i] = h[i - 1] + (chain[i].total - Len(chain[i].data))
        /\ Len(chain[i].data) \in Nat /\ chain[i].total \in Nat /\ Len(chain[i].data) <= chain[i].total
    BY <1>3, BufferType DEF RoomSums, Fits
  <2>2. h[i - 1] \in Int
    BY <1>1
  <2> QED
    BY <2>1, <2>2
<1>6. \A i \in 0 .. Len(chain) : \A j \in i .. Len(chain) : h[i] <= h[j]
  BY <1>1, <1>5, SumGrows
<1>7. \A i \in 0 .. Len(chain) : h[i] \in Nat
  <2>1. \A i \in 0 .. Len(chain) : i \in 0 .. Len(chain) /\ h[i] \in Int /\ h[0] <= h[i]
    BY <1>1, <1>6
  <2> QED
    BY <2>1, <1>2
<1> QED
  BY <1>1, <1>3, <1>4, <1>6, <1>7

------------------------------------------------------------------------------
(* The invariant. *)

Accepted == [fd : Fd, conn : Conn]
Session == [conn : Conn, listen : Listener, rb : Seq(Buffer), wb : Seq(Buffer)]
FrameSet == [kind : {"timeout", "accept", "read", "write", "close", "error"}, fd : Nat, conn : Nat,
             listen : Listener \cup {0}, rest : Seq(Buffer) \cup Seq(Accepted)]
Event == [fd : Listener, ev : {"CFEV_ACCEPT"}]
         \cup [fd : Fd, ev : {"CFEV_READ", "CFEV_WRITE", "CFEV_CLOSE", "CFEV_ERROR"}]
PeerSet == [sent : Nat, taken : Nat, delivered : Seq(Nat), queued : Nat, wire : Seq(Nat),
            fin : BOOLEAN, rst : BOOLEAN]
PoolSet == [free : SUBSET Nat, all : Nat]

TypeInv ==
    /\ Live \subseteq Fd /\ clients \in [Live -> Session]
    /\ conns \in [Listener -> 0 .. CounterMod - 1]
    /\ interest \in [Listener \cup Fd -> SUBSET Conditions]
    /\ rbPool \in PoolSet /\ rbPool.free \subseteq 1 .. rbPool.all
    /\ wbPool \in PoolSet /\ wbPool.free \subseteq 1 .. wbPool.all
    /\ events \in Seq(Event) /\ stack \in Seq(FrameSet)
    /\ loop \in {"run", "stopped", "interrupted", "threw"} /\ stop \in BOOLEAN /\ calls \in Nat
    /\ backlog \in [Listener -> Seq(Nat)]
    /\ made \in 0 .. MaxMade
    /\ peer \in [Conn -> PeerSet]
    /\ \A c \in Conn : peer[c].taken <= peer[c].sent

\* The chains of pending reads.
ChainInv == \A fd \in Live : Fits(clients[fd].rb)

\* Handlers: only the outermost was called by the loop, the others are AsyncClose's.
FrameInv ==
    \A i \in 1 .. Len(stack) :
        /\ i > 1 => stack[i].kind = "close"
        /\ stack[i].kind = "accept" => stack[i].listen \in Listener /\ stack[i].rest \in Seq(Accepted)
        /\ stack[i].kind \in {"read", "write"} =>
               stack[i].rest \in Seq(Buffer) \ {<< >>} /\ stack[i].conn \in Conn
        /\ stack[i].kind \in {"close", "error"} =>
               /\ stack[i].fd \in Live
               /\ \A j \in 1 .. Len(stack) :
                      stack[j].kind \in {"close", "error"} /\ stack[j].fd = stack[i].fd => j = i

\* Accepted sockets that are not yet added.
Pending == IF stack # << >> /\ stack[1].kind = "accept" THEN stack[1].rest ELSE << >>

\* A connection is at one place: in a backlog, accepted, a session, or over.
ConnInv ==
    /\ \A fd \in Live : clients[fd].conn <= made
    /\ \A f, g \in Live : clients[f].conn = clients[g].conn => f = g
    /\ \A l \in Listener : \A i \in 1 .. Len(backlog[l]) :
          /\ backlog[l][i] \in 1 .. made
          /\ \A fd \in Live : clients[fd].conn # backlog[l][i]
          /\ \A m \in Listener : \A j \in 1 .. Len(backlog[m]) : backlog[m][j] = backlog[l][i] => m = l /\ j = i

NewSockets(sockets, lists) ==
    \A i \in 1 .. Len(sockets) :
        /\ sockets[i].fd \in Fd \ Live
        /\ sockets[i].conn \in 1 .. made
        /\ \A fd \in Live : clients[fd].conn # sockets[i].conn
        /\ \A l \in Listener : \A j \in 1 .. Len(lists[l]) : lists[l][j] # sockets[i].conn
        /\ \A j \in 1 .. Len(sockets) :
              sockets[j].fd = sockets[i].fd \/ sockets[j].conn = sockets[i].conn => j = i

PendingInv == NewSockets(Pending, backlog)

\* A descriptor without a session, or whose session is being closed, is not registered.
InterestInv ==
    /\ \A x \in Listener \cup Fd : interest[x] # {} => "rdhup" \in interest[x]
    /\ \A fd \in Fd \ Live : interest[fd] = {}
    /\ \A fd \in Live : Closing(fd) => interest[fd] = {}
    /\ InterestMatches

Sessions(l) == {fd \in Live : clients[fd].listen = l}

\* The number n counts what currentconns counts, or one more, modulo CounterMod.
CountInv ==
    \A l \in Listener :
        LET n == Cardinality(Sessions(l))
        IN  IF Accepting(l)
            THEN /\ conns[l] = IF n = 0 THEN CounterMod - 1 ELSE n - 1
                 /\ interest[l] = {} => MaxConns[l] > 0 /\ n - 1 >= MaxConns[l]
            ELSE /\ conns[l] = n
                 /\ interest[l] # {} <=> MaxConns[l] = 0 \/ n < MaxConns[l]

ServerInv == /\ TypeInv /\ ChainInv /\ FrameInv /\ ConnInv /\ PendingInv /\ InterestInv /\ CountInv
             /\ BuffersInOnePlace

------------------------------------------------------------------------------
(* Handlers come and go. *)

\* What Top and Front are of a stack with a handler.
LEMMA StackTop ==
    ASSUME stack \in Seq(FrameSet), stack # << >>
    PROVE  /\ Len(stack) \in Nat \ {0} /\ Top = stack[Len(stack)] /\ Top \in FrameSet
           /\ Front(stack) \in Seq(FrameSet) /\ Len(Front(stack)) = Len(stack) - 1
           /\ \A i \in 1 .. Len(stack) - 1 : Front(stack)[i] = stack[i]
<1>1. Len(stack) \in Nat \ {0} /\ Len(stack) \in 1 .. Len(stack)
  BY EmptySeq, LenProperties
<1>2. stack[Len(stack)] \in FrameSet
  BY <1>1, ElementOfSeq
<1>3. Top = stack[Len(stack)]
  BY DEF Top, Last
<1>4. Len(stack) - 1 \in Int /\ Front(stack) = SubSeq(stack, 1, Len(stack) - 1)
  BY <1>1 DEF Front
<1>5. \A i \in 1 .. Len(stack) - 1 : stack[i] \in FrameSet
  BY <1>1, ElementOfSeq
<1>6. /\ SubSeq(stack, 1, Len(stack) - 1) \in Seq(FrameSet)
      /\ Len(SubSeq(stack, 1, Len(stack) - 1)) = IF 1 <= Len(stack) - 1 THEN Len(stack) - 1 - 1 + 1 ELSE 0
      /\ \A i \in 1 .. Len(stack) - 1 - 1 + 1 : SubSeq(stack, 1, Len(stack) - 1)[i] = stack[1 + i - 1]
  BY <1>4, <1>5, SubSeqProperties
<1>7. \A i \in 1 .. Len(stack) - 1 : Front(stack)[i] = stack[i]
  <2> SUFFICES ASSUME NEW i \in 1 .. Len(stack) - 1 PROVE Front(stack)[i] = stack[i]
    OBVIOUS
  <2>1. i \in 1 .. Len(stack) - 1 - 1 + 1 /\ 1 + i - 1 = i
    BY <1>1
  <2> QED
    BY <2>1, <1>4, <1>6
<1>8. Len(Front(stack)) = Len(stack) - 1
  <2>1. Len(Front(stack)) = IF 1 <= Len(stack) - 1 THEN Len(stack) - 1 - 1 + 1 ELSE 0
    BY <1>4, <1>6, Zenon
  <2>2. \A n \in Nat \ {0} : (IF 1 <= n - 1 THEN n - 1 - 1 + 1 ELSE 0) = n - 1
    OBVIOUS
  <2>3. (IF 1 <= Len(stack) - 1 THEN Len(stack) - 1 - 1 + 1 ELSE 0) = Len(stack) - 1
    BY <2>2, <1>1, Zenon
  <2> QED
    BY <2>1, <2>3
<1>9. Front(stack) \in Seq(FrameSet)
  BY <1>4, <1>6
<1> QED
  BY <1>1, <1>2, <1>3, <1>7, <1>8, <1>9

\* The accepted sockets that wait depend on the outermost handler alone.
LEMMA PendingSame ==
    ASSUME stack # << >>, stack' # << >>, stack'[1].kind = stack[1].kind,
           stack[1].kind = "accept" => stack'[1] = stack[1]
    PROVE  Pending' = Pending
BY DEF Pending

\* A handler that is no OnAccept is pushed.
LEMMA PushKeeps ==
    ASSUME stack \in Seq(FrameSet), NEW frame \in FrameSet, frame.kind # "accept", Push(frame)
    PROVE  /\ stack' \in Seq(FrameSet) /\ Len(stack') = Len(stack) + 1 /\ Len(stack) \in Nat
           /\ \A i \in 1 .. Len(stack) : stack'[i] = stack[i]
           /\ stack'[Len(stack) + 1] = frame
           /\ Pending' = Pending /\ \A l : Accepting(l)' <=> Accepting(l)
           /\ \A fd : Closing(fd)' <=> Closing(fd) \/ (frame.kind \in {"close", "error"} /\ frame.fd = fd)
<1>1. stack' = Append(stack, frame)
  BY DEF Push
<1>2. /\ stack' \in Seq(FrameSet) /\ Len(stack') = Len(stack) + 1 /\ Len(stack) \in Nat /\ stack' # << >>
      /\ \A i \in 1 .. Len(stack) : stack'[i] = stack[i]
      /\ stack'[Len(stack) + 1] = frame
  BY <1>1, AppendProperties, LenProperties
<1>3. DOMAIN stack = 1 .. Len(stack) /\ DOMAIN stack' = 1 .. Len(stack) + 1
  BY <1>2, LenProperties
<1>4. Pending' = Pending
  <2>1. CASE stack = << >>
    <3>1. stack'[1] = frame
      BY <1>2, <2>1
    <3> QED
      BY <2>1, <3>1 DEF Pending
  <2>2. CASE stack # << >>
    <3>1. stack'[1] = stack[1]
      BY <1>2, <2>2, EmptySeq
    <3> QED
      BY <2>2, <3>1, <1>2 DEF Pending
  <2> QED
    BY <2>1, <2>2
<1>5. ASSUME NEW l PROVE Accepting(l)' <=> Accepting(l)
  BY <1>2, <1>3 DEF Accepting
<1>6. ASSUME NEW fd PROVE Closing(fd)' <=> Closing(fd) \/ (frame.kind \in {"close", "error"} /\ frame.fd = fd)
  BY <1>2, <1>3 DEF Closing
<1> QED
  BY <1>2, <1>4, <1>5, <1>6

\* A handler that is no OnAccept returns.
LEMMA PopKeeps ==
    ASSUME stack \in Seq(FrameSet), stack # << >>, Top.kind # "accept", Pop
    PROVE  /\ stack' \in Seq(FrameSet) /\ Len(stack') = Len(stack) - 1 /\ Len(stack) \in Nat \ {0}
           /\ \A i \in 1 .. Len(stack) - 1 : stack'[i] = stack[i]
           /\ Top = stack[Len(stack)]
           /\ Pending' = Pending /\ \A l : Accepting(l)' <=> Accepting(l)
           /\ \A fd : Closing(fd) <=> Closing(fd)' \/ (Top.kind \in {"close", "error"} /\ Top.fd = fd)
<1>1. /\ stack' \in Seq(FrameSet) /\ Len(stack') = Len(stack) - 1 /\ Len(stack) \in Nat \ {0}
      /\ \A i \in 1 .. Len(stack) - 1 : stack'[i] = stack[i]
      /\ Top = stack[Len(stack)]
  BY StackTop DEF Pop
<1>2. DOMAIN stack = 1 .. Len(stack) /\ DOMAIN stack' = 1 .. Len(stack) - 1
  BY <1>1, LenProperties
<1>3. Pending' = Pending
  <2>1. CASE Len(stack) = 1
    <3>1. stack' = << >>
      BY <2>1, <1>1, EmptySeq
    <3> QED
      BY <2>1, <3>1, <1>1 DEF Pending
  <2>2. CASE Len(stack) # 1
    <3>1. stack'[1] = stack[1] /\ stack' # << >>
      BY <1>1, <2>2, EmptySeq
    <3> QED
      BY <3>1 DEF Pending
  <2> QED
    BY <2>1, <2>2
<1>4. ASSUME NEW l PROVE Accepting(l)' <=> Accepting(l)
  BY <1>1, <1>2 DEF Accepting
<1>5. ASSUME NEW fd PROVE Closing(fd) <=> Closing(fd)' \/ (Top.kind \in {"close", "error"} /\ Top.fd = fd)
  <2> DEFINE Closes(f) == f.kind \in {"close", "error"} /\ f.fd = fd
  <2>1. Closing(fd) <=> \E i \in 1 .. Len(stack) : Closes(stack[i])
    BY <1>2 DEF Closing
  <2>2. Closing(fd)' <=> \E i \in 1 .. Len(stack) - 1 : Closes(stack'[i])
    BY <1>2 DEF Closing
  <2>3. Closing(fd)' <=> \E i \in 1 .. Len(stack) - 1 : Closes(stack[i])
    BY <2>2, <1>1
  <2>4. 1 .. Len(stack) = (1 .. Len(stack) - 1) \cup {Len(stack)}
    BY <1>1
  <2> HIDE DEF Closes
  <2>5. Closing(fd) <=> Closing(fd)' \/ Closes(Top)
    BY <2>1, <2>3, <2>4, <1>1
  <2> QED
    BY <2>5 DEF Closes
<1> QED
  BY <1>1, <1>3, <1>4, <1>5

\* A handler goes on with what is left of its chain.
LEMMA RestKeeps ==
    ASSUME stack \in Seq(FrameSet), stack # << >>, Top.kind # "accept", NEW rest \in Seq(Buffer),
           stack' = [stack EXCEPT ![Len(stack)].rest = rest]
    PROVE  /\ stack' \in Seq(FrameSet) /\ Len(stack') = Len(stack) /\ Len(stack) \in Nat \ {0}
           /\ \A i \in 1 .. Len(stack) - 1 : stack'[i] = stack[i]
           /\ stack'[Len(stack)] = [Top EXCEPT !.rest = rest] /\ Top = stack[Len(stack)]
           /\ Pending' = Pending /\ \A l : Accepting(l)' <=> Accepting(l)
           /\ \A fd : Closing(fd)' <=> Closing(fd)
<1>1. Len(stack) \in Nat \ {0} /\ Top = stack[Len(stack)] /\ Top \in FrameSet
  BY StackTop
<1> DEFINE frame == [Top EXCEPT !.rest = rest]
<1>2. frame \in FrameSet /\ frame.kind = Top.kind /\ frame.fd = Top.fd
  BY <1>1 DEF FrameSet
<1>3. stack' = [stack EXCEPT ![Len(stack)] = frame]
  BY <1>1
<1>4. /\ stack' \in Seq(FrameSet) /\ Len(stack') = Len(stack)
      /\ \A i \in 1 .. Len(stack) : stack'[i] = IF i = Len(stack) THEN frame ELSE stack[i]
  <2>1. Len(stack) \in 1 .. Len(stack)
    BY <1>1
  <2> HIDE DEF frame
  <2>2. stack \in Seq(FrameSet) /\ frame \in FrameSet
    BY <1>2
  <2>3. /\ [stack EXCEPT ![Len(stack)] = frame] \in Seq(FrameSet)
        /\ Len([stack EXCEPT ![Len(stack)] = frame]) = Len(stack)
        /\ \A i \in 1 .. Len(stack) : [stack EXCEPT ![Len(stack)] = frame][i] = IF i = Len(stack) THEN frame ELSE stack[i]
    BY <2>1, <2>2, ExceptSeq
  <2> QED
    BY <2>3, <1>3, Zenon
<1>5. DOMAIN stack = 1 .. Len(stack) /\ DOMAIN stack' = 1 .. Len(stack)
  BY <1>4, LenProperties
<1>6. \A i \in 1 .. Len(stack) : stack'[i].kind = stack[i].kind /\ stack'[i].fd = stack[i].fd
  BY <1>1, <1>2, <1>4
<1>7. \A i \in 1 .. Len(stack) : stack[i].kind = "accept" => stack'[i] = stack[i]
  BY <1>1, <1>4
<1>8. Pending' = Pending
  <2>1. 1 \in 1 .. Len(stack) /\ stack' # << >>
    BY <1>1, <1>4, EmptySeq
  <2>2. stack'[1].kind = stack[1].kind /\ (stack[1].kind = "accept" => stack'[1] = stack[1])
    BY <2>1, <1>6, <1>7
  <2> QED
    BY <2>1, <2>2, PendingSame
<1>9. ASSUME NEW l PROVE Accepting(l)' <=> Accepting(l)
  BY <1>5, <1>6, <1>7 DEF Accepting
<1>10. ASSUME NEW fd PROVE Closing(fd)' <=> Closing(fd)
  BY <1>5, <1>6 DEF Closing
<1> QED
  BY <1>1, <1>4, <1>8, <1>9, <1>10

------------------------------------------------------------------------------
(* Sessions. *)

\* The parts of a session have their types, and its descriptor is no listener.
LEMMA SessionType ==
    ASSUME TypeInv, NEW fd \in Live
    PROVE  /\ clients[fd] \in Session /\ clients[fd].conn \in Conn /\ clients[fd].listen \in Listener
           /\ clients[fd].rb \in Seq(Buffer) /\ clients[fd].wb \in Seq(Buffer)
           /\ fd \in Fd /\ fd \in Nat \ {0} /\ fd \notin Listener /\ interest[fd] \in SUBSET Conditions
           /\ peer[clients[fd].conn] \in PeerSet /\ clients[fd].conn \in Nat
<1>1. clients[fd] \in Session /\ fd \in Fd
  BY DEF TypeInv
<1>2. /\ clients[fd].conn \in Conn /\ clients[fd].listen \in Listener
      /\ clients[fd].rb \in Seq(Buffer) /\ clients[fd].wb \in Seq(Buffer)
  BY <1>1 DEF Session
<1>3. fd \in Nat \ {0} /\ fd \notin Listener
  BY <1>1, ServerAssumption
<1>4. interest[fd] \in SUBSET Conditions /\ peer[clients[fd].conn] \in PeerSet
  BY <1>1, <1>2 DEF TypeInv
<1>5. clients[fd].conn \in Nat
  BY <1>2, ServerAssumption DEF Conn
<1> QED
  BY <1>1, <1>2, <1>3, <1>4, <1>5

\* OnRead and AsyncRead change the read chain of one session and nothing else of any.
LEMMA ReadsChanged ==
    ASSUME TypeInv, NEW fd \in Live, NEW chain \in Seq(Buffer),
           clients' = [clients EXCEPT ![fd].rb = chain]
    PROVE  /\ Live' = Live /\ clients' \in [Live -> Session]
           /\ \A f \in Live : /\ clients'[f].conn = clients[f].conn /\ clients'[f].listen = clients[f].listen
                              /\ clients'[f].wb = clients[f].wb
                              /\ clients'[f].rb = IF f = fd THEN chain ELSE clients[f].rb
<1>1. clients \in [Live -> Session]
  BY DEF TypeInv
<1>2. clients[fd] \in Session
  BY <1>1
<1>3. [clients[fd] EXCEPT !.rb = chain] \in Session
  BY <1>2 DEF Session
<1>4. Live' = Live /\ clients' \in [Live -> Session]
  BY <1>1, <1>3 DEF Live
<1>5. ASSUME NEW f \in Live
      PROVE  /\ clients'[f].conn = clients[f].conn /\ clients'[f].listen = clients[f].listen
             /\ clients'[f].wb = clients[f].wb
             /\ clients'[f].rb = IF f = fd THEN chain ELSE clients[f].rb
  <2>1. clients'[f] = IF f = fd THEN [clients[fd] EXCEPT !.rb = chain] ELSE clients[f]
    BY <1>1
  <2>2. clients[f] \in Session
    BY <1>1
  <2> QED
    BY <2>1, <2>2, <1>2 DEF Session
<1> QED
  BY <1>4, <1>5

\* OnWrite and AsyncWrite change the write chain of one session and nothing else of any.
LEMMA WritesChanged ==
    ASSUME TypeInv, NEW fd \in Live, NEW chain \in Seq(Buffer),
           clients' = [clients EXCEPT ![fd].wb = chain]
    PROVE  /\ Live' = Live /\ clients' \in [Live -> Session]
           /\ \A f \in Live : /\ clients'[f].conn = clients[f].conn /\ clients'[f].listen = clients[f].listen
                              /\ clients'[f].rb = clients[f].rb
                              /\ clients'[f].wb = IF f = fd THEN chain ELSE clients[f].wb
<1>1. clients \in [Live -> Session]
  BY DEF TypeInv
<1>2. clients[fd] \in Session
  BY <1>1
<1>3. [clients[fd] EXCEPT !.wb = chain] \in Session
  BY <1>2 DEF Session
<1>4. Live' = Live /\ clients' \in [Live -> Session]
  BY <1>1, <1>3 DEF Live
<1>5. ASSUME NEW f \in Live
      PROVE  /\ clients'[f].conn = clients[f].conn /\ clients'[f].listen = clients[f].listen
             /\ clients'[f].rb = clients[f].rb
             /\ clients'[f].wb = IF f = fd THEN chain ELSE clients[f].wb
  <2>1. clients'[f] = IF f = fd THEN [clients[fd] EXCEPT !.wb = chain] ELSE clients[f]
    BY <1>1
  <2>2. clients[f] \in Session
    BY <1>1
  <2> QED
    BY <2>1, <2>2, <1>2 DEF Session
<1> QED
  BY <1>4, <1>5

------------------------------------------------------------------------------
(* Places of buffers. *)

\* The identities id of what is at the places P, with those that are free, are all there are.
Apart(free, all, P, id) == /\ free \cup {id[p] : p \in P} = 1 .. all
                           /\ \A p \in P : id[p] \notin free
                           /\ \A p, q \in P : id[p] = id[q] => p = q

\* What was at m[q] is now at q; what is at no place any more goes back.
Moves(P, id, Q, jd, m, back) ==
    /\ \A q \in Q : m[q] \in P /\ jd[q] = id[m[q]]
    /\ \A q, r \in Q : m[q] = m[r] => q = r
    /\ \A x : x \in back <=> \E p \in P : id[p] = x /\ \A q \in Q : m[q] # p

\* When buffers move between places, and some go back to the pool, each stays in one place.
LEMMA ApartMoves ==
    ASSUME NEW free, NEW all, NEW P, NEW id, Apart(free, all, P, id),
           NEW Q, NEW jd, NEW m, NEW back, Moves(P, id, Q, jd, m, back)
    PROVE  Apart(free \cup back, all, Q, jd)
<1> USE DEF Moves
<1>1. (free \cup back) \cup {jd[q] : q \in Q} = 1 .. all
  <2>1. free \cup {id[p] : p \in P} = 1 .. all
    BY DEF Apart
  <2>2. ASSUME NEW x PROVE x \in {id[p] : p \in P} <=> x \in back \cup {jd[q] : q \in Q}
    OBVIOUS
  <2> QED
    BY <2>1, <2>2
<1>2. ASSUME NEW q \in Q PROVE jd[q] \notin free \cup back
  BY DEF Apart
<1>3. ASSUME NEW q \in Q, NEW r \in Q, jd[q] = jd[r] PROVE q = r
  BY <1>3 DEF Apart
<1> QED
  BY <1>1, <1>2, <1>3 DEF Apart

\* What x names is put at a new place.
LEMMA ApartGrows ==
    ASSUME NEW free, NEW all \in Nat, NEW P, NEW id, Apart(free, all, P, id),
           NEW new, new \notin P, NEW jd, \A p \in P : jd[p] = id[p],
           IF free = {} THEN jd[new] = all + 1 ELSE jd[new] \in free
    PROVE  Apart(free \ {jd[new]}, IF free = {} THEN all + 1 ELSE all, P \cup {new}, jd)
<1>0. free \cup {id[p] : p \in P} = 1 .. all
  BY DEF Apart
<1>1. (free \ {jd[new]}) \cup {jd[p] : p \in P \cup {new}} = 1 .. IF free = {} THEN all + 1 ELSE all
  <2>1. {jd[p] : p \in P \cup {new}} = {id[p] : p \in P} \cup {jd[new]}
    OBVIOUS
  <2>2. CASE free = {}
    <3>1. 1 .. all + 1 = (1 .. all) \cup {all + 1}
      OBVIOUS
    <3> QED
      BY <1>0, <2>1, <2>2, <3>1
  <2>3. CASE free # {}
    BY <1>0, <2>1, <2>3
  <2> QED
    BY <2>2, <2>3
<1>2. \A p \in P : jd[p] # jd[new]
  <2>1. CASE free = {}
    BY <1>0, <2>1
  <2>2. CASE free # {}
    BY <2>2 DEF Apart
  <2> QED
    BY <2>1, <2>2
<1>3. ASSUME NEW p \in P \cup {new} PROVE jd[p] \notin free \ {jd[new]}
  BY DEF Apart
<1>4. ASSUME NEW p \in P \cup {new}, NEW q \in P \cup {new}, jd[p] = jd[q] PROVE p = q
  BY <1>2, <1>4 DEF Apart
<1> QED
  BY <1>1, <1>3, <1>4 DEF Apart

Places(handlers, kind, chains) ==
    {p \in {"handler", "session"} \X Nat \X Nat :
        \/ /\ p[1] = "handler" /\ p[2] \in DOMAIN handlers /\ handlers[p[2]].kind = kind
           /\ p[3] \in DOMAIN handlers[p[2]].rest
        \/ p[1] = "session" /\ p[2] \in DOMAIN chains /\ p[3] \in DOMAIN chains[p[2]]}

IdAt(handlers, kind, chains) ==
    [p \in Places(handlers, kind, chains) |->
        IF p[1] = "handler" THEN handlers[p[2]].rest[p[3]].id ELSE chains[p[2]][p[3]].id]

\* InOnePlace says that the buffers at its places are apart.
LEMMA InOnePlaceIs ==
    ASSUME NEW handlers, DOMAIN handlers \subseteq Nat, NEW kind,
           \A i \in DOMAIN handlers : handlers[i].kind = kind => DOMAIN handlers[i].rest \subseteq Nat,
           NEW chains, DOMAIN chains \subseteq Nat, \A fd \in DOMAIN chains : DOMAIN chains[fd] \subseteq Nat,
           NEW pool
    PROVE  InOnePlace(pool, handlers, kind, chains)
           <=> Apart(pool.free, pool.all, Places(handlers, kind, chains), IdAt(handlers, kind, chains))
<1> DEFINE Holder  == {<<"handler", i>> : i \in {j \in DOMAIN handlers : handlers[j].kind = kind}}
                      \cup {<<"session", fd>> : fd \in DOMAIN chains}
           Held(h) == IF h[1] = "handler" THEN handlers[h[2]].rest ELSE chains[h[2]]
           P == Places(handlers, kind, chains)
           id == IdAt(handlers, kind, chains)
<1>1. \A h \in Holder : \A i \in DOMAIN Held(h) : /\ <<h[1], h[2], i>> \in P
                                                   /\ id[<<h[1], h[2], i>>] = Held(h)[i].id
  <2>1. ASSUME NEW i \in DOMAIN handlers, handlers[i].kind = kind, NEW k \in DOMAIN handlers[i].rest
        PROVE  <<"handler", i, k>> \in P /\ id[<<"handler", i, k>>] = handlers[i].rest[k].id
    BY <2>1 DEF Places, IdAt
  <2>2. ASSUME NEW fd \in DOMAIN chains, NEW k \in DOMAIN chains[fd]
        PROVE  <<"session", fd, k>> \in P /\ id[<<"session", fd, k>>] = chains[fd][k].id
    BY <2>2 DEF Places, IdAt
  <2> HIDE DEF P, id
  <2> QED
    BY <2>1, <2>2
<1>2. \A p \in P : /\ <<p[1], p[2]>> \in Holder /\ p[3] \in DOMAIN Held(<<p[1], p[2]>>)
                   /\ p = <<p[1], p[2], p[3]>> /\ id[p] = Held(<<p[1], p[2]>>)[p[3]].id
  BY DEF Places, IdAt
<1>3. \A h \in Holder : h = <<h[1], h[2]>>
  OBVIOUS
<1>4. InOnePlace(pool, handlers, kind, chains)
        <=> /\ pool.free \cup UNION {Ids(Held(h)) : h \in Holder} = 1 .. pool.all
            /\ \A h \in Holder : Ids(Held(h)) \cap pool.free = {}
            /\ \A g, h \in Holder : \A i \in DOMAIN Held(g), j \in DOMAIN Held(h) :
                   Held(g)[i].id = Held(h)[j].id => g = h /\ i = j
  BY DEF InOnePlace
<1> HIDE DEF Holder, Held, P, id
<1>5. UNION {Ids(Held(h)) : h \in Holder} = {id[p] : p \in P}
  <2>1. ASSUME NEW x \in UNION {Ids(Held(h)) : h \in Holder} PROVE x \in {id[p] : p \in P}
    <3>1. PICK h \in Holder : x \in Ids(Held(h))
      OBVIOUS
    <3>2. PICK i \in DOMAIN Held(h) : x = Held(h)[i].id
      BY <3>1 DEF Ids
    <3>3. <<h[1], h[2], i>> \in P /\ id[<<h[1], h[2], i>>] = x
      BY <1>1, <3>2
    <3> QED
      BY <3>3
  <2>2. ASSUME NEW p \in P PROVE id[p] \in UNION {Ids(Held(h)) : h \in Holder}
    <3>1. PICK h \in Holder : h = <<p[1], p[2]>> /\ p[3] \in DOMAIN Held(h) /\ id[p] = Held(h)[p[3]].id
      BY <1>2
    <3>2. id[p] \in Ids(Held(h))
      BY <3>1 DEF Ids
    <3> QED
      BY <3>2
  <2> QED
    BY <2>1, <2>2
<1>6. (\A h \in Holder : Ids(Held(h)) \cap pool.free = {}) <=> \A p \in P : id[p] \notin pool.free
  <2>1. (\A h \in Holder : Ids(Held(h)) \cap pool.free = {})
        <=> \A x \in UNION {Ids(Held(h)) : h \in Holder} : x \notin pool.free
    OBVIOUS
  <2> QED
    BY <2>1, <1>5
<1>7. (\A g, h \in Holder : \A i \in DOMAIN Held(g), j \in DOMAIN Held(h) :
             Held(g)[i].id = Held(h)[j].id => g = h /\ i = j)
      <=> \A p, q \in P : id[p] = id[q] => p = q
  <2>1. ASSUME \A g, h \in Holder : \A i \in DOMAIN Held(g), j \in DOMAIN Held(h) :
                  Held(g)[i].id = Held(h)[j].id => g = h /\ i = j,
               NEW p \in P, NEW q \in P, id[p] = id[q]
        PROVE  p = q
    <3>0. PICK g \in Holder, h \in Holder :
             /\ g = <<p[1], p[2]>> /\ p[3] \in DOMAIN Held(g) /\ id[p] = Held(g)[p[3]].id
             /\ h = <<q[1], q[2]>> /\ q[3] \in DOMAIN Held(h) /\ id[q] = Held(h)[q[3]].id
      BY <1>2
    <3>1. g = h /\ p[3] = q[3]
      BY <3>0, <2>1
    <3>2. p = <<p[1], p[2], p[3]>> /\ q = <<q[1], q[2], q[3]>>
      BY <1>2
    <3> QED
      BY <3>0, <3>1, <3>2
  <2>2. ASSUME \A p, q \in P : id[p] = id[q] => p = q,
               NEW g \in Holder, NEW h \in Holder, NEW i \in DOMAIN Held(g), NEW j \in DOMAIN Held(h),
               Held(g)[i].id = Held(h)[j].id
        PROVE  g = h /\ i = j
    <3>1. <<g[1], g[2], i>> = <<h[1], h[2], j>>
      BY <1>1, <2>2
    <3>2. g = <<g[1], g[2]>> /\ h = <<h[1], h[2]>>
      BY <1>3
    <3> QED
      BY <3>1, <3>2
  <2> QED
    BY <2>1, <2>2
<1> QED
  BY <1>4, <1>5, <1>6, <1>7 DEF Apart, P, id

HandlerAt == [i \in Nat |-> [k \in Nat |-> <<"handler", i, k>>]]
SessionAt == [i \in Nat |-> [k \in Nat |-> <<"session", i, k>>]]

\* Different handlers, sessions and indices are different places.
LEMMA PlaceNames ==
    ASSUME NEW i \in Nat, NEW k \in Nat, NEW j \in Nat, NEW l \in Nat
    PROVE  /\ HandlerAt[i][k] = HandlerAt[j][l] => i = j /\ k = l
           /\ SessionAt[i][k] = SessionAt[j][l] => i = j /\ k = l
           /\ HandlerAt[i][k] # SessionAt[j][l]
BY DEF HandlerAt, SessionAt

\* What Places and IdAt are, place by place.
PlacesShape(handlers, kind, chains, P, id) ==
    /\ \A p \in P : \E i, k \in Nat : p = HandlerAt[i][k] \/ p = SessionAt[i][k]
    /\ \A i, k \in Nat :
          /\ HandlerAt[i][k] \in P
                <=> i \in DOMAIN handlers /\ handlers[i].kind = kind /\ k \in DOMAIN handlers[i].rest
          /\ SessionAt[i][k] \in P <=> i \in DOMAIN chains /\ k \in DOMAIN chains[i]
          /\ HandlerAt[i][k] \in P => id[HandlerAt[i][k]] = handlers[i].rest[k].id
          /\ SessionAt[i][k] \in P => id[SessionAt[i][k]] = chains[i][k].id

\* What Places and IdAt are, place by place.
LEMMA PlacesAre ==
    ASSUME NEW handlers, NEW kind, NEW chains
    PROVE  PlacesShape(handlers, kind, chains, Places(handlers, kind, chains), IdAt(handlers, kind, chains))
<1>1. ASSUME NEW p \in Places(handlers, kind, chains)
      PROVE  \E i, k \in Nat : p = HandlerAt[i][k] \/ p = SessionAt[i][k]
  BY DEF Places, HandlerAt, SessionAt
<1>2. ASSUME NEW i \in Nat, NEW k \in Nat
      PROVE  /\ HandlerAt[i][k] \in Places(handlers, kind, chains)
                   <=> i \in DOMAIN handlers /\ handlers[i].kind = kind /\ k \in DOMAIN handlers[i].rest
             /\ SessionAt[i][k] \in Places(handlers, kind, chains)
                   <=> i \in DOMAIN chains /\ k \in DOMAIN chains[i]
  BY DEF Places, HandlerAt, SessionAt
<1>3. ASSUME NEW i \in Nat, NEW k \in Nat
      PROVE  /\ HandlerAt[i][k] \in Places(handlers, kind, chains)
                   => IdAt(handlers, kind, chains)[HandlerAt[i][k]] = handlers[i].rest[k].id
             /\ SessionAt[i][k] \in Places(handlers, kind, chains)
                   => IdAt(handlers, kind, chains)[SessionAt[i][k]] = chains[i][k].id
  BY DEF IdAt, Places, HandlerAt, SessionAt
<1> QED
  BY <1>1, <1>2, <1>3 DEF PlacesShape

\* Handlers of a kind with the buffers they hold, and the chains of sessions.
Holders(handlers, kind, chains) ==
    /\ handlers \in Seq(FrameSet)
    /\ \A i \in 1 .. Len(handlers) : handlers[i].kind = kind => handlers[i].rest \in Seq(Buffer)
    /\ DOMAIN chains \subseteq Nat /\ chains \in [DOMAIN chains -> Seq(Buffer)]

\* InOnePlace, for handlers and chains of their types.
LEMMA InOnePlaceApart ==
    ASSUME NEW handlers, NEW kind, NEW chains, Holders(handlers, kind, chains), NEW pool
    PROVE  InOnePlace(pool, handlers, kind, chains)
           <=> Apart(pool.free, pool.all, Places(handlers, kind, chains), IdAt(handlers, kind, chains))
<1>1. DOMAIN handlers = 1 .. Len(handlers) /\ Len(handlers) \in Nat
  BY LenProperties DEF Holders
<1>2. \A i \in DOMAIN handlers : handlers[i].kind = kind => DOMAIN handlers[i].rest \subseteq Nat
  <2> SUFFICES ASSUME NEW i \in DOMAIN handlers, handlers[i].kind = kind
               PROVE  DOMAIN handlers[i].rest \subseteq Nat
    OBVIOUS
  <2>1. handlers[i].rest \in Seq(Buffer)
    BY <1>1 DEF Holders
  <2>2. DOMAIN handlers[i].rest = 1 .. Len(handlers[i].rest) /\ Len(handlers[i].rest) \in Nat
    BY <2>1, LenProperties
  <2> QED
    BY <2>2
<1>3. DOMAIN chains \subseteq Nat /\ \A fd \in DOMAIN chains : DOMAIN chains[fd] \subseteq Nat
  <2> SUFFICES ASSUME NEW fd \in DOMAIN chains PROVE DOMAIN chains[fd] \subseteq Nat
    BY DEF Holders
  <2>1. chains[fd] \in Seq(Buffer)
    BY DEF Holders
  <2>2. DOMAIN chains[fd] = 1 .. Len(chains[fd]) /\ Len(chains[fd]) \in Nat
    BY <2>1, LenProperties
  <2> QED
    BY <2>2
<1>4. DOMAIN handlers \subseteq Nat
  BY <1>1
<1> QED
  BY <1>2, <1>3, <1>4, InOnePlaceIs

\* A move of buffers that puts some back keeps each in one place.
LEMMA MovedInOnePlace ==
    ASSUME NEW kind, NEW hs, NEW cs, Holders(hs, kind, cs), NEW ht, NEW ct, Holders(ht, kind, ct),
           NEW pool, InOnePlace(pool, hs, kind, cs), NEW m, NEW back,
           Moves(Places(hs, kind, cs), IdAt(hs, kind, cs), Places(ht, kind, ct), IdAt(ht, kind, ct), m, back)
    PROVE  InOnePlace(PutIntoPool(pool, back), ht, kind, ct)
<1>1. Apart(pool.free, pool.all, Places(hs, kind, cs), IdAt(hs, kind, cs))
  BY InOnePlaceApart
<1>2. Apart(pool.free \cup back, pool.all, Places(ht, kind, ct), IdAt(ht, kind, ct))
  BY <1>1, ApartMoves, Zenon
<1>3. InOnePlace([free |-> pool.free \cup back, all |-> pool.all], ht, kind, ct)
  BY <1>2, InOnePlaceApart
<1>4. InOnePlace(PutIntoPool(pool, back), ht, kind, ct)
        <=> InOnePlace([free |-> pool.free \cup back, all |-> pool.all], ht, kind, ct)
  BY <1>3 DEF InOnePlace, PutIntoPool
<1> QED
  BY <1>3, <1>4

\* A move of buffers that puts none back keeps each in one place.
LEMMA KeptInOnePlace ==
    ASSUME NEW kind, NEW hs, NEW cs, Holders(hs, kind, cs), NEW ht, NEW ct, Holders(ht, kind, ct),
           NEW pool, InOnePlace(pool, hs, kind, cs), NEW m,
           Moves(Places(hs, kind, cs), IdAt(hs, kind, cs), Places(ht, kind, ct), IdAt(ht, kind, ct), m, {})
    PROVE  InOnePlace(pool, ht, kind, ct)
<1>1. Apart(pool.free, pool.all, Places(hs, kind, cs), IdAt(hs, kind, cs))
  BY InOnePlaceApart
<1>2. Apart(pool.free \cup {}, pool.all, Places(ht, kind, ct), IdAt(ht, kind, ct))
  BY <1>1, ApartMoves, Zenon
<1>3. Apart(pool.free, pool.all, Places(ht, kind, ct), IdAt(ht, kind, ct))
  BY <1>2, Zenon DEF Apart
<1> QED
  BY <1>3, InOnePlaceApart

\* Handlers of another kind come and go, and sessions without buffers.
LEMMA SameInOnePlace ==
    ASSUME NEW kind, NEW hs, NEW cs, Holders(hs, kind, cs), NEW ht, NEW ct, Holders(ht, kind, ct),
           NEW pool, InOnePlace(pool, hs, kind, cs),
           \A i \in Nat : i \in DOMAIN ht /\ ht[i].kind = kind <=> i \in DOMAIN hs /\ hs[i].kind = kind,
           \A i \in Nat : i \in DOMAIN hs /\ hs[i].kind = kind => ht[i].rest = hs[i].rest,
           \A fd, k \in Nat : fd \in DOMAIN ct /\ k \in DOMAIN ct[fd] <=> fd \in DOMAIN cs /\ k \in DOMAIN cs[fd],
           \A fd, k \in Nat : fd \in DOMAIN cs /\ k \in DOMAIN cs[fd] => ct[fd][k] = cs[fd][k]
    PROVE  InOnePlace(pool, ht, kind, ct)
<1> DEFINE P == Places(hs, kind, cs)
           Q == Places(ht, kind, ct)
           id == IdAt(hs, kind, cs)
           jd == IdAt(ht, kind, ct)
           m == [q \in Q |-> q]
<1>1. ASSUME NEW i \in Nat, NEW k \in Nat
      PROVE  /\ HandlerAt[i][k] \in Q <=> HandlerAt[i][k] \in P
             /\ SessionAt[i][k] \in Q <=> SessionAt[i][k] \in P
             /\ HandlerAt[i][k] \in Q => jd[HandlerAt[i][k]] = id[HandlerAt[i][k]]
             /\ SessionAt[i][k] \in Q => jd[SessionAt[i][k]] = id[SessionAt[i][k]]
  BY PlacesAre DEF PlacesShape
<1>2. \A p \in P \cup Q : \E i, k \in Nat : p = HandlerAt[i][k] \/ p = SessionAt[i][k]
  BY PlacesAre DEF PlacesShape
<1> HIDE DEF P, Q, id, jd
<1>3. ASSUME NEW q \in P \cup Q PROVE (q \in P <=> q \in Q) /\ jd[q] = id[q]
  <2>1. PICK i \in Nat, k \in Nat : q = HandlerAt[i][k] \/ q = SessionAt[i][k]
    BY <1>2
  <2>2. CASE q = HandlerAt[i][k]
    BY <1>1, <2>2
  <2>3. CASE q = SessionAt[i][k]
    BY <1>1, <2>3
  <2> QED
    BY <2>1, <2>2, <2>3
<1>4. \A p \in P : p \in Q
  BY <1>3
<1>5. Moves(P, id, Q, jd, m, {})
  BY <1>3, <1>4 DEF Moves
<1> HIDE DEF m
<1> QED
  BY <1>5, KeptInOnePlace DEF P, Q, id, jd

------------------------------------------------------------------------------
(* What a step that leaves something alone keeps. *)

SameSessions == Live' = Live /\ \A f \in Live : /\ clients'[f].conn = clients[f].conn
                                                /\ clients'[f].listen = clients[f].listen

\* ConnInv and PendingInv look at sessions, backlogs and accepted sockets only.
LEMMA ConnKeeps ==
    ASSUME ConnInv, PendingInv, SameSessions, backlog' = backlog, made' = made, Pending' = Pending
    PROVE  ConnInv' /\ PendingInv' /\ \A l : Sessions(l)' = Sessions(l)
<1>1. Live' = Live /\ \A f \in Live : clients'[f].conn = clients[f].conn /\ clients'[f].listen = clients[f].listen
  BY DEF SameSessions
<1>2. ConnInv'
  BY <1>1 DEF ConnInv
<1>3. PendingInv'
  BY <1>1 DEF PendingInv, NewSockets
<1>4. ASSUME NEW l PROVE Sessions(l)' = Sessions(l)
  BY <1>1 DEF Sessions
<1> QED
  BY <1>2, <1>3, <1>4

\* CountInv looks at sessions, their counts, accepting handlers and listeners only.
LEMMA CountKeeps ==
    ASSUME CountInv, \A l \in Listener : Sessions(l)' = Sessions(l), conns' = conns,
           \A l \in Listener : Accepting(l)' <=> Accepting(l),
           \A l \in Listener : interest'[l] = interest[l]
    PROVE  CountInv'
<1> SUFFICES ASSUME NEW l \in Listener
             PROVE  LET n == Cardinality(Sessions(l)')
                    IN  IF Accepting(l)'
                        THEN /\ conns'[l] = IF n = 0 THEN CounterMod - 1 ELSE n - 1
                             /\ interest'[l] = {} => MaxConns[l] > 0 /\ n - 1 >= MaxConns[l]
                        ELSE /\ conns'[l] = n
                             /\ interest'[l] # {} <=> MaxConns[l] = 0 \/ n < MaxConns[l]
  BY Zenon DEF CountInv
<1> QED
  BY Zenon DEF CountInv

\* A step of the loop or of a peer that changes no session.
LEMMA QuietStep ==
    ASSUME ServerInv, UNCHANGED <<serverVars, stack, backlog, made>>,
           events' \in Seq(Event), loop' \in {"run", "stopped", "interrupted", "threw"}, stop' \in BOOLEAN, calls' \in Nat,
           peer' \in [Conn -> PeerSet], \A c \in Conn : peer'[c].taken <= peer'[c].sent,
           \A c \in Conn : peer[c].fin => peer'[c].fin
    PROVE  ServerInv'
<1> USE DEF ServerInv
<1>1. /\ clients' = clients /\ conns' = conns /\ interest' = interest /\ rbPool' = rbPool /\ wbPool' = wbPool
      /\ stack' = stack /\ backlog' = backlog /\ made' = made /\ Live' = Live /\ Pending' = Pending
  BY DEF serverVars, Live, Pending
<1>2. (\A l : Accepting(l)' <=> Accepting(l)) /\ (\A fd : Closing(fd)' <=> Closing(fd))
  BY <1>1 DEF Accepting, Closing
<1>3. TypeInv'
  BY <1>1 DEF TypeInv
<1>4. ChainInv' /\ FrameInv'
  BY <1>1 DEF ChainInv, FrameInv
<1>5. SameSessions
  BY <1>1 DEF SameSessions
<1>6. ConnInv' /\ PendingInv' /\ \A l : Sessions(l)' = Sessions(l)
  BY <1>1, <1>5, ConnKeeps
<1>7. CountInv'
  BY <1>1, <1>2, <1>6, CountKeeps
<1>8. InterestMatches'
  <2>1. \A fd \in Live : peer[clients[fd].conn].fin => peer'[clients[fd].conn].fin
    BY SessionType
  <2> QED
    BY <2>1, <1>1, <1>2 DEF InterestInv, InterestMatches
<1>9. InterestInv'
  BY <1>1, <1>2, <1>8 DEF InterestInv
<1>10. BuffersInOnePlace'
  BY <1>1, Zenon DEF BuffersInOnePlace
<1> QED
  BY <1>3, <1>4, <1>6, <1>7, <1>9, <1>10

\* The last handler hands its first buffer back.
Handed(hs, ht, kind, n, r) ==
    /\ n \in Nat \ {0} /\ r \in Nat \ {0} /\ DOMAIN hs = 1 .. n /\ hs[n].kind = kind
    /\ DOMAIN hs[n].rest = 1 .. r /\ DOMAIN ht = 1 .. IF r > 1 THEN n ELSE n - 1
    /\ \A i \in 1 .. n - 1 : ht[i] = hs[i]
    /\ r > 1 => /\ ht[n].kind = kind /\ DOMAIN ht[n].rest = 1 .. r - 1
                /\ \A k \in 1 .. r - 1 : ht[n].rest[k] = hs[n].rest[k + 1]

\* ReadReturns and WriteReturns put back the first buffer of their handler and shift the
\* others.
LEMMA HandedMoves ==
    ASSUME NEW kind, NEW hs, NEW ht, NEW cs, NEW P, NEW id, NEW Q, NEW jd,
           PlacesShape(hs, kind, cs, P, id), PlacesShape(ht, kind, cs, Q, jd),
           NEW n, NEW r, Handed(hs, ht, kind, n, r)
    PROVE  \E m : Moves(P, id, Q, jd, m, {hs[n].rest[1].id})
<1> USE DEF Handed
<1>1. ASSUME NEW i \in Nat, NEW k \in Nat
      PROVE  /\ SessionAt[i][k] \in Q <=> SessionAt[i][k] \in P
             /\ SessionAt[i][k] \in Q => jd[SessionAt[i][k]] = id[SessionAt[i][k]]
             /\ i # n => (HandlerAt[i][k] \in Q <=> HandlerAt[i][k] \in P)
             /\ i # n /\ HandlerAt[i][k] \in Q => jd[HandlerAt[i][k]] = id[HandlerAt[i][k]]
  BY DEF PlacesShape
<1>2. ASSUME NEW k \in Nat
      PROVE  /\ HandlerAt[n][k] \in P <=> k \in 1 .. r
             /\ HandlerAt[n][k] \in P => id[HandlerAt[n][k]] = hs[n].rest[k].id
             /\ HandlerAt[n][k] \in Q <=> k \in 1 .. r - 1
             /\ HandlerAt[n][k] \in Q => jd[HandlerAt[n][k]] = hs[n].rest[k + 1].id
  <2>1. n \in Nat
    OBVIOUS
  <2>2. /\ HandlerAt[n][k] \in P <=> n \in DOMAIN hs /\ hs[n].kind = kind /\ k \in DOMAIN hs[n].rest
        /\ HandlerAt[n][k] \in P => id[HandlerAt[n][k]] = hs[n].rest[k].id
    BY <2>1 DEF PlacesShape
  <2>3. /\ HandlerAt[n][k] \in Q <=> n \in DOMAIN ht /\ ht[n].kind = kind /\ k \in DOMAIN ht[n].rest
        /\ HandlerAt[n][k] \in Q => jd[HandlerAt[n][k]] = ht[n].rest[k].id
    BY <2>1 DEF PlacesShape
  <2>4. n \in DOMAIN hs /\ hs[n].kind = kind /\ DOMAIN hs[n].rest = 1 .. r
    OBVIOUS
  <2>5. IF r > 1 THEN n \in DOMAIN ht /\ ht[n].kind = kind /\ DOMAIN ht[n].rest = 1 .. r - 1 ELSE n \notin DOMAIN ht
    OBVIOUS
  <2>6. r \in Nat /\ (~(r > 1) => 1 .. r - 1 = {})
    OBVIOUS
  <2>7. HandlerAt[n][k] \in Q <=> k \in 1 .. r - 1
    BY <2>3, <2>5, <2>6
  <2>8. ASSUME HandlerAt[n][k] \in Q PROVE jd[HandlerAt[n][k]] = hs[n].rest[k + 1].id
    <3>1. n \in DOMAIN ht /\ k \in DOMAIN ht[n].rest /\ jd[HandlerAt[n][k]] = ht[n].rest[k].id
      BY <2>3, <2>8
    <3> QED
      BY <2>8, <3>1
  <2> QED
    BY <2>2, <2>4, <2>7, <2>8
<1>3. \A p \in P \cup Q : \E i, k \in Nat : p = HandlerAt[i][k] \/ p = SessionAt[i][k]
  BY DEF PlacesShape
<1> DEFINE m == [q \in Q |-> IF q[1] = "handler" /\ q[2] = n THEN HandlerAt[n][q[3] + 1] ELSE q]
<1>4. ASSUME NEW i \in Nat, NEW k \in Nat
      PROVE  /\ SessionAt[i][k] \in Q => m[SessionAt[i][k]] = SessionAt[i][k]
             /\ i # n /\ HandlerAt[i][k] \in Q => m[HandlerAt[i][k]] = HandlerAt[i][k]
             /\ HandlerAt[n][k] \in Q => m[HandlerAt[n][k]] = HandlerAt[n][k + 1]
  BY DEF HandlerAt, SessionAt
<1> HIDE DEF m
<1>5. ASSUME NEW q \in Q PROVE m[q] \in P /\ jd[q] = id[m[q]]
  <2>1. PICK i \in Nat, k \in Nat : q = HandlerAt[i][k] \/ q = SessionAt[i][k]
    BY <1>3
  <2>2. CASE q = SessionAt[i][k] \/ (q = HandlerAt[i][k] /\ i # n)
    BY <1>1, <1>4, <2>2
  <2>3. CASE q = HandlerAt[n][k]
    <3>1. k \in 1 .. r - 1 /\ jd[q] = hs[n].rest[k + 1].id /\ m[q] = HandlerAt[n][k + 1]
      BY <1>2, <1>4, <2>3
    <3>2. k + 1 \in 1 .. r /\ k + 1 \in Nat
      BY <3>1
    <3>3. HandlerAt[n][k + 1] \in P /\ id[HandlerAt[n][k + 1]] = hs[n].rest[k + 1].id
      BY <3>2, <1>2
    <3> QED
      BY <3>1, <3>3
  <2> QED
    BY <2>1, <2>2, <2>3
<1>6. ASSUME NEW q \in Q, NEW r2 \in Q, m[q] = m[r2] PROVE q = r2
  <2>1. PICK i \in Nat, k \in Nat : q = HandlerAt[i][k] \/ q = SessionAt[i][k]
    BY <1>3
  <2>2. PICK j \in Nat, l \in Nat : r2 = HandlerAt[j][l] \/ r2 = SessionAt[j][l]
    BY <1>3
  <2>3. m[q] = q \/ (q = HandlerAt[n][k] /\ m[q] = HandlerAt[n][k + 1])
    BY <2>1, <1>4
  <2>4. m[r2] = r2 \/ (r2 = HandlerAt[n][l] /\ m[r2] = HandlerAt[n][l + 1])
    BY <2>2, <1>4
  <2>5. q = HandlerAt[n][k] => m[q] = HandlerAt[n][k + 1]
    BY <1>4
  <2>6. r2 = HandlerAt[n][l] => m[r2] = HandlerAt[n][l + 1]
    BY <1>4
  <2> QED
    <3>1. CASE m[q] = q /\ m[r2] = r2
      BY <1>6, <3>1
    <3>2. CASE m[q] = q /\ r2 = HandlerAt[n][l] /\ m[r2] = HandlerAt[n][l + 1]
      <4>0. l + 1 \in Nat
        OBVIOUS
      <4>1. q = HandlerAt[n][l + 1] /\ l + 1 \in Nat
        BY <1>6, <3>2, <4>0, Zenon
      <4>2. m[q] = HandlerAt[n][(l + 1) + 1] /\ (l + 1) + 1 \in Nat
        BY <1>4, <4>1
      <4>3. (l + 1) + 1 = l + 1
        BY <3>2, <4>1, <4>2, PlaceNames
      <4> QED
        BY <4>3
    <3>3. CASE q = HandlerAt[n][k] /\ m[q] = HandlerAt[n][k + 1] /\ m[r2] = r2
      <4>0. k + 1 \in Nat
        OBVIOUS
      <4>1. r2 = HandlerAt[n][k + 1] /\ k + 1 \in Nat
        BY <1>6, <3>3, <4>0, Zenon
      <4>2. m[r2] = HandlerAt[n][(k + 1) + 1] /\ (k + 1) + 1 \in Nat
        BY <1>4, <4>1
      <4>3. (k + 1) + 1 = k + 1
        BY <3>3, <4>1, <4>2, PlaceNames
      <4> QED
        BY <4>3
    <3>4. CASE /\ q = HandlerAt[n][k] /\ m[q] = HandlerAt[n][k + 1]
               /\ r2 = HandlerAt[n][l] /\ m[r2] = HandlerAt[n][l + 1]
      <4>1. HandlerAt[n][k + 1] = HandlerAt[n][l + 1] /\ k + 1 \in Nat /\ l + 1 \in Nat
        BY <1>6, <3>4
      <4>2. k + 1 = l + 1
        BY <4>1, PlaceNames
      <4> QED
        BY <3>4, <4>2
    <3> QED
      BY <2>3, <2>4, <3>1, <3>2, <3>3, <3>4, Zenon
<1>7. HandlerAt[n][1] \in P /\ id[HandlerAt[n][1]] = hs[n].rest[1].id
  BY <1>2
<1>8. ASSUME NEW q \in Q PROVE m[q] # HandlerAt[n][1]
  <2>1. PICK i \in Nat, k \in Nat : q = HandlerAt[i][k] \/ q = SessionAt[i][k]
    BY <1>3
  <2>2. CASE q = SessionAt[i][k] \/ (q = HandlerAt[i][k] /\ i # n)
    BY <1>4, <2>2, PlaceNames
  <2>3. CASE q = HandlerAt[n][k]
    <3>1. k \in 1 .. r - 1 /\ m[q] = HandlerAt[n][k + 1]
      BY <1>2, <1>4, <2>3
    <3>2. k + 1 # 1 /\ k + 1 \in Nat
      BY <3>1
    <3> QED
      BY <3>1, <3>2, PlaceNames
  <2> QED
    BY <2>1, <2>2, <2>3
<1>9. ASSUME NEW p \in P, \A q \in Q : m[q] # p PROVE id[p] = hs[n].rest[1].id
  <2>1. PICK i \in Nat, k \in Nat : p = HandlerAt[i][k] \/ p = SessionAt[i][k]
    BY <1>3
  <2>2. CASE p = SessionAt[i][k] \/ (p = HandlerAt[i][k] /\ i # n)
    <3>1. p \in Q /\ m[p] = p
      BY <1>1, <1>4, <2>2
    <3> QED
      BY <3>1, <1>9
  <2>3. CASE p = HandlerAt[n][k]
    <3>1. k \in 1 .. r
      BY <1>2, <2>3
    <3>2. CASE k = 1
      BY <1>7, <2>3, <3>2
    <3>3. CASE k # 1
      <4>1. k - 1 \in Nat /\ k - 1 \in 1 .. r - 1 /\ (k - 1) + 1 = k
        BY <3>1, <3>3
      <4>2. HandlerAt[n][k - 1] \in Q
        BY <4>1, <1>2
      <4>3. m[HandlerAt[n][k - 1]] = HandlerAt[n][(k - 1) + 1]
        BY <4>1, <4>2, <1>4
      <4> QED
        BY <4>1, <4>2, <4>3, <1>9, <2>3
    <3> QED
      BY <3>2, <3>3
  <2> QED
    BY <2>1, <2>2, <2>3
<1>10. Moves(P, id, Q, jd, m, {hs[n].rest[1].id})
  BY <1>5, <1>6, <1>7, <1>8, <1>9 DEF Moves
<1> QED
  BY <1>10
\* A handler whose callback returned puts its first buffer back: each buffer stays in one
\* place.
LEMMA HandedInOnePlace ==
    ASSUME NEW kind, NEW hs, NEW cs, Holders(hs, kind, cs), hs # << >>,
           hs[Len(hs)].kind = kind, hs[Len(hs)].rest # << >>,
           NEW ht, Holders(ht, kind, cs), \A i \in 1 .. Len(hs) - 1 : ht[i] = hs[i],
           IF Len(hs[Len(hs)].rest) > 1
           THEN /\ Len(ht) = Len(hs) /\ ht[Len(hs)].kind = kind /\ ht[Len(hs)].rest = Tail(hs[Len(hs)].rest)
           ELSE Len(ht) = Len(hs) - 1,
           NEW pool, InOnePlace(pool, hs, kind, cs)
    PROVE  InOnePlace(PutIntoPool(pool, {hs[Len(hs)].rest[1].id}), ht, kind, cs)
<1> DEFINE n == Len(hs)
           rest == hs[n].rest
           r == Len(rest)
<1>1. n \in Nat \ {0} /\ DOMAIN hs = 1 .. n /\ n \in 1 .. n
  BY EmptySeq, LenProperties DEF Holders
<1>2. hs[n].kind = kind
  OBVIOUS
<1>3. rest \in Seq(Buffer) /\ rest # << >>
  BY <1>1, <1>2 DEF Holders
<1>4. r \in Nat \ {0} /\ DOMAIN rest = 1 .. r
  <2> HIDE DEF rest
  <2> QED
    BY <1>3, EmptySeq, LenProperties
<1>5. DOMAIN ht = 1 .. IF r > 1 THEN n ELSE n - 1
  <2>1. DOMAIN ht = 1 .. Len(ht) /\ Len(ht) = IF r > 1 THEN n ELSE n - 1
    BY LenProperties DEF Holders
  <2> QED
    BY <2>1
<1>6. ASSUME r > 1
      PROVE  /\ ht[n].kind = kind /\ DOMAIN ht[n].rest = 1 .. r - 1
             /\ \A k \in 1 .. r - 1 : ht[n].rest[k] = rest[k + 1]
  <2>1. ht[n].kind = kind /\ ht[n].rest = Tail(rest)
    BY <1>6
  <2> HIDE DEF rest
  <2>2. /\ Tail(rest) \in Seq(Buffer) /\ Len(Tail(rest)) = r - 1
        /\ \A i \in 1 .. Len(Tail(rest)) : Tail(rest)[i] = rest[i + 1]
    BY <1>3, HeadTailProperties
  <2>3. DOMAIN Tail(rest) = 1 .. Len(Tail(rest))
    BY <2>2, LenProperties
  <2> HIDE DEF n, r
  <2> QED
    BY <2>1, <2>2, <2>3
<1>7. \A i \in 1 .. n - 1 : ht[i] = hs[i]
  OBVIOUS
<1>8. PlacesShape(hs, kind, cs, Places(hs, kind, cs), IdAt(hs, kind, cs))
  BY PlacesAre
<1>9. PlacesShape(ht, kind, cs, Places(ht, kind, cs), IdAt(ht, kind, cs))
  BY PlacesAre
<1>10. DOMAIN hs[n].rest = 1 .. r /\ \A k \in 1 .. r - 1 : hs[n].rest[k + 1] = rest[k + 1]
  BY <1>4
<1>11. r > 1 => /\ ht[n].kind = kind /\ DOMAIN ht[n].rest = 1 .. r - 1
                /\ \A k \in 1 .. r - 1 : ht[n].rest[k] = hs[n].rest[k + 1]
  BY <1>6
<1>12. Handed(hs, ht, kind, n, r)
  <2> HIDE DEF n, rest, r
  <2> QED
    BY <1>1, <1>2, <1>4, <1>5, <1>7, <1>10, <1>11 DEF Handed
<1>13. PICK m : Moves(Places(hs, kind, cs), IdAt(hs, kind, cs), Places(ht, kind, cs), IdAt(ht, kind, cs), m,
                      {hs[n].rest[1].id})
  <2> HIDE DEF n, rest, r
  <2> QED
    BY <1>8, <1>9, <1>12, HandedMoves
<1> QED
  BY <1>13, MovedInOnePlace

\* The first buffers of the chain of fd go to a new handler, the first there is.
SplitOff(hs, cs, ht, ct, kind, fd, L, done) ==
    /\ L \in Nat /\ done \in 0 .. L /\ fd \in Nat /\ fd \in DOMAIN cs /\ DOMAIN ct = DOMAIN cs
    /\ DOMAIN cs[fd] = 1 .. L /\ DOMAIN ct[fd] = 1 .. L - done
    /\ \A f \in DOMAIN cs : f # fd => ct[f] = cs[f]
    /\ \A k \in 1 .. L - done : ct[fd][k].id = cs[fd][k + done].id
    /\ DOMAIN hs = {}
    /\ IF done = 0 THEN DOMAIN ht = {}
       ELSE /\ DOMAIN ht = {1} /\ ht[1].kind = kind /\ DOMAIN ht[1].rest = 1 .. done
            /\ \A k \in 1 .. done : ht[1].rest[k].id = cs[fd][k].id

\* OnRead and OnWrite move the first buffers of a chain to their handler and shift the
\* others.
LEMMA SplitMoves ==
    ASSUME NEW kind, NEW hs, NEW ht, NEW cs, NEW ct, NEW P, NEW id, NEW Q, NEW jd,
           PlacesShape(hs, kind, cs, P, id), PlacesShape(ht, kind, ct, Q, jd),
           NEW fd, NEW L, NEW done, SplitOff(hs, cs, ht, ct, kind, fd, L, done)
    PROVE  \E m : Moves(P, id, Q, jd, m, {})
<1>0. L \in Nat /\ done \in 0 .. L /\ done \in Nat /\ fd \in Nat
  BY DEF SplitOff
<1>1. ASSUME NEW f \in Nat, NEW k \in Nat
      PROVE  /\ f # fd => (SessionAt[f][k] \in Q <=> SessionAt[f][k] \in P)
             /\ f # fd /\ SessionAt[f][k] \in Q => jd[SessionAt[f][k]] = id[SessionAt[f][k]]
             /\ HandlerAt[f][k] \notin P
             /\ HandlerAt[f][k] \in Q <=> f = 1 /\ k \in 1 .. done
             /\ HandlerAt[f][k] \in Q => jd[HandlerAt[f][k]] = cs[fd][k].id
  <2>1. /\ f # fd => (SessionAt[f][k] \in Q <=> SessionAt[f][k] \in P)
        /\ f # fd /\ SessionAt[f][k] \in Q => jd[SessionAt[f][k]] = id[SessionAt[f][k]]
    <3>1. /\ SessionAt[f][k] \in P <=> f \in DOMAIN cs /\ k \in DOMAIN cs[f]
          /\ SessionAt[f][k] \in P => id[SessionAt[f][k]] = cs[f][k].id
      BY DEF PlacesShape
    <3>2. /\ SessionAt[f][k] \in Q <=> f \in DOMAIN ct /\ k \in DOMAIN ct[f]
          /\ SessionAt[f][k] \in Q => jd[SessionAt[f][k]] = ct[f][k].id
      BY DEF PlacesShape
    <3>3. f # fd => (f \in DOMAIN ct <=> f \in DOMAIN cs) /\ (f \in DOMAIN cs => ct[f] = cs[f])
      BY DEF SplitOff
    <3> QED
      BY <3>1, <3>2, <3>3
  <2>2. HandlerAt[f][k] \notin P
    BY DEF PlacesShape, SplitOff
  <2>3. /\ HandlerAt[f][k] \in Q <=> f \in DOMAIN ht /\ ht[f].kind = kind /\ k \in DOMAIN ht[f].rest
        /\ HandlerAt[f][k] \in Q => jd[HandlerAt[f][k]] = ht[f].rest[k].id
    BY DEF PlacesShape
  <2>4. /\ HandlerAt[f][k] \in Q <=> f = 1 /\ k \in 1 .. done
        /\ HandlerAt[f][k] \in Q => jd[HandlerAt[f][k]] = cs[fd][k].id
    BY <2>3 DEF SplitOff
  <2> QED
    BY <2>1, <2>2, <2>4
<1>2. ASSUME NEW k \in Nat
      PROVE  /\ SessionAt[fd][k] \in P <=> k \in 1 .. L
             /\ SessionAt[fd][k] \in P => id[SessionAt[fd][k]] = cs[fd][k].id
             /\ SessionAt[fd][k] \in Q <=> k \in 1 .. L - done
             /\ SessionAt[fd][k] \in Q => jd[SessionAt[fd][k]] = cs[fd][k + done].id
  <2>1. /\ SessionAt[fd][k] \in P <=> fd \in DOMAIN cs /\ k \in DOMAIN cs[fd]
        /\ SessionAt[fd][k] \in P => id[SessionAt[fd][k]] = cs[fd][k].id
    BY <1>0 DEF PlacesShape
  <2>2. /\ SessionAt[fd][k] \in Q <=> fd \in DOMAIN ct /\ k \in DOMAIN ct[fd]
        /\ SessionAt[fd][k] \in Q => jd[SessionAt[fd][k]] = ct[fd][k].id
    BY <1>0 DEF PlacesShape
  <2> QED
    BY <2>1, <2>2 DEF SplitOff
<1>3. \A p \in P \cup Q : \E i, k \in Nat : p = HandlerAt[i][k] \/ p = SessionAt[i][k]
  BY DEF PlacesShape
<1> DEFINE m == [q \in Q |-> IF q[1] = "handler" THEN SessionAt[fd][q[3]]
                             ELSE IF q[2] = fd THEN SessionAt[fd][q[3] + done] ELSE q]
<1>4. ASSUME NEW i \in Nat, NEW k \in Nat
      PROVE  /\ HandlerAt[i][k] \in Q => m[HandlerAt[i][k]] = SessionAt[fd][k]
             /\ i # fd /\ SessionAt[i][k] \in Q => m[SessionAt[i][k]] = SessionAt[i][k]
             /\ SessionAt[fd][k] \in Q => m[SessionAt[fd][k]] = SessionAt[fd][k + done]
  BY <1>0 DEF HandlerAt, SessionAt
<1> HIDE DEF m
<1>5. ASSUME NEW q \in Q PROVE m[q] \in P /\ jd[q] = id[m[q]]
  <2>1. PICK i \in Nat, k \in Nat : q = HandlerAt[i][k] \/ q = SessionAt[i][k]
    BY <1>3
  <2>2. CASE q = SessionAt[i][k] /\ i # fd
    BY <1>1, <1>4, <2>2
  <2>3. CASE q = SessionAt[fd][k]
    <3>1. k \in 1 .. L - done /\ jd[q] = cs[fd][k + done].id /\ m[q] = SessionAt[fd][k + done]
      BY <1>2, <1>4, <2>3
    <3>2. k + done \in 1 .. L /\ k + done \in Nat
      BY <3>1, <1>0
    <3>3. SessionAt[fd][k + done] \in P /\ id[SessionAt[fd][k + done]] = cs[fd][k + done].id
      BY <3>2, <1>2
    <3> QED
      BY <3>1, <3>3
  <2>4. CASE q = HandlerAt[i][k]
    <3>1. k \in 1 .. done /\ jd[q] = cs[fd][k].id /\ m[q] = SessionAt[fd][k]
      BY <1>1, <1>4, <2>4
    <3>2. k \in 1 .. L
      BY <3>1, <1>0
    <3> QED
      BY <3>1, <3>2, <1>2
  <2> QED
    BY <2>1, <2>2, <2>3, <2>4
<1>6. ASSUME NEW q \in Q, NEW r \in Q, m[q] = m[r] PROVE q = r
  <2> DEFINE From1(p, i, k) == p = SessionAt[i][k] /\ i # fd /\ m[p] = SessionAt[i][k]
             From2(p, k, t) == p = SessionAt[fd][k] /\ t = k + done /\ t > done /\ m[p] = SessionAt[fd][t]
             From3(p, k) == p = HandlerAt[1][k] /\ k <= done /\ m[p] = SessionAt[fd][k]
  <2>1. ASSUME NEW p \in Q PROVE \E i, k, t \in Nat : From1(p, i, k) \/ From2(p, k, t) \/ From3(p, k)
    <3>1. PICK i \in Nat, k \in Nat : p = HandlerAt[i][k] \/ p = SessionAt[i][k]
      BY <1>3
    <3>2. CASE p = SessionAt[i][k] /\ i # fd
      BY <1>4, <3>2
    <3>3. CASE p = SessionAt[fd][k]
      <4>1. k \in 1 .. L - done /\ m[p] = SessionAt[fd][k + done]
        BY <1>2, <1>4, <3>3
      <4>2. k + done > done /\ k + done \in Nat
        BY <4>1, <1>0
      <4> QED
        BY <4>1, <4>2, <3>3
    <3>4. CASE p = HandlerAt[i][k]
      <4>1. i = 1 /\ k \in 1 .. done /\ m[p] = SessionAt[fd][k]
        BY <1>1, <1>4, <3>4
      <4>2. k <= done
        BY <4>1, <1>0
      <4> QED
        BY <4>1, <4>2, <3>4
    <3> QED
      BY <3>1, <3>2, <3>3, <3>4
  <2>2. PICK i \in Nat, k \in Nat, t \in Nat : From1(q, i, k) \/ From2(q, k, t) \/ From3(q, k)
    BY <2>1
  <2>3. PICK j \in Nat, l \in Nat, u \in Nat : From1(r, j, l) \/ From2(r, l, u) \/ From3(r, l)
    BY <2>1
  <2>4. /\ SessionAt[i][k] = SessionAt[j][l] => i = j /\ k = l
        /\ SessionAt[i][k] = SessionAt[fd][u] => i = fd
        /\ SessionAt[i][k] = SessionAt[fd][l] => i = fd
        /\ SessionAt[fd][t] = SessionAt[j][l] => j = fd
        /\ SessionAt[fd][t] = SessionAt[fd][u] => t = u
        /\ SessionAt[fd][t] = SessionAt[fd][l] => t = l
        /\ SessionAt[fd][k] = SessionAt[j][l] => j = fd
        /\ SessionAt[fd][k] = SessionAt[fd][u] => k = u
        /\ SessionAt[fd][k] = SessionAt[fd][l] => k = l
    BY <1>0, PlaceNames
  <2>5. CASE From1(q, i, k)
    BY <2>3, <2>4, <2>5, <1>6
  <2>6. CASE From2(q, k, t)
    BY <2>3, <2>4, <2>6, <1>0, <1>6
  <2>7. CASE From3(q, k)
    BY <2>3, <2>4, <2>7, <1>0, <1>6
  <2> QED
    BY <2>2, <2>5, <2>6, <2>7
<1>7. ASSUME NEW p \in P PROVE \E q \in Q : m[q] = p
  <2>1. PICK i \in Nat, k \in Nat : p = HandlerAt[i][k] \/ p = SessionAt[i][k]
    BY <1>3
  <2>2. p = SessionAt[i][k]
    BY <2>1, <1>1
  <2>3. CASE i # fd
    BY <2>2, <2>3, <1>1, <1>4
  <2>4. CASE i = fd
    <3>1. k \in 1 .. L
      BY <2>2, <2>4, <1>2
    <3>2. CASE k <= done
      <4>1. k \in 1 .. done /\ 1 \in Nat
        BY <3>1, <3>2, <1>0
      <4> QED
        BY <4>1, <1>1, <1>4, <2>2, <2>4
    <3>3. CASE k > done
      <4>1. k - done \in Nat /\ k - done \in 1 .. L - done /\ (k - done) + done = k
        BY <3>1, <3>3, <1>0
      <4>2. SessionAt[fd][k - done] \in Q
        BY <4>1, <1>2
      <4>3. m[SessionAt[fd][k - done]] = SessionAt[fd][(k - done) + done]
        BY <4>1, <4>2, <1>4
      <4> QED
        BY <4>1, <4>2, <4>3, <2>2, <2>4
    <3> QED
      BY <3>1, <3>2, <3>3, <1>0
  <2> QED
    BY <2>3, <2>4
<1>8. Moves(P, id, Q, jd, m, {})
  BY <1>5, <1>6, <1>7 DEF Moves
<1> QED
  BY <1>8

\* A handler that takes the first buffers of a chain keeps each in one place.
LEMMA SplitInOnePlace ==
    ASSUME NEW kind, NEW hs, NEW cs, Holders(hs, kind, cs), NEW ht, NEW ct, Holders(ht, kind, ct),
           NEW fd, NEW L, NEW done, SplitOff(hs, cs, ht, ct, kind, fd, L, done),
           NEW pool, InOnePlace(pool, hs, kind, cs)
    PROVE  InOnePlace(pool, ht, kind, ct)
<1>1. PlacesShape(hs, kind, cs, Places(hs, kind, cs), IdAt(hs, kind, cs))
  BY PlacesAre
<1>2. PlacesShape(ht, kind, ct, Places(ht, kind, ct), IdAt(ht, kind, ct))
  BY PlacesAre
<1>3. PICK m : Moves(Places(hs, kind, cs), IdAt(hs, kind, cs), Places(ht, kind, ct), IdAt(ht, kind, ct), m, {})
  BY <1>1, <1>2, SplitMoves
<1> QED
  BY <1>3, KeptInOnePlace

\* The session fd goes and its chain with it.
Released(hs, cs, ht, ct, kind, fd) ==
    /\ fd \in Nat /\ fd \in DOMAIN cs /\ DOMAIN cs[fd] \subseteq Nat /\ DOMAIN ct = DOMAIN cs \ {fd}
    /\ \A f \in DOMAIN ct : ct[f] = cs[f]
    /\ \A i \in Nat : i \in DOMAIN ht /\ ht[i].kind = kind <=> i \in DOMAIN hs /\ hs[i].kind = kind
    /\ \A i \in Nat : i \in DOMAIN hs /\ hs[i].kind = kind => ht[i].rest = hs[i].rest

\* A session that ends leaves the places of its chain.
LEMMA ReleasedMoves ==
    ASSUME NEW kind, NEW hs, NEW ht, NEW cs, NEW ct, NEW P, NEW id, NEW Q, NEW jd,
           PlacesShape(hs, kind, cs, P, id), PlacesShape(ht, kind, ct, Q, jd),
           NEW fd, Released(hs, cs, ht, ct, kind, fd)
    PROVE  \E m : Moves(P, id, Q, jd, m, Ids(cs[fd]))
<1>0. fd \in Nat /\ fd \in DOMAIN cs /\ fd \notin DOMAIN ct
  BY DEF Released
<1>1. ASSUME NEW f \in Nat, NEW k \in Nat
      PROVE  /\ SessionAt[f][k] \in Q <=> f # fd /\ SessionAt[f][k] \in P
             /\ SessionAt[f][k] \in Q => jd[SessionAt[f][k]] = id[SessionAt[f][k]]
             /\ HandlerAt[f][k] \in Q <=> HandlerAt[f][k] \in P
             /\ HandlerAt[f][k] \in Q => jd[HandlerAt[f][k]] = id[HandlerAt[f][k]]
  <2>1. /\ SessionAt[f][k] \in P <=> f \in DOMAIN cs /\ k \in DOMAIN cs[f]
        /\ SessionAt[f][k] \in P => id[SessionAt[f][k]] = cs[f][k].id
        /\ HandlerAt[f][k] \in P <=> f \in DOMAIN hs /\ hs[f].kind = kind /\ k \in DOMAIN hs[f].rest
        /\ HandlerAt[f][k] \in P => id[HandlerAt[f][k]] = hs[f].rest[k].id
    BY DEF PlacesShape
  <2>2. /\ SessionAt[f][k] \in Q <=> f \in DOMAIN ct /\ k \in DOMAIN ct[f]
        /\ SessionAt[f][k] \in Q => jd[SessionAt[f][k]] = ct[f][k].id
        /\ HandlerAt[f][k] \in Q <=> f \in DOMAIN ht /\ ht[f].kind = kind /\ k \in DOMAIN ht[f].rest
        /\ HandlerAt[f][k] \in Q => jd[HandlerAt[f][k]] = ht[f].rest[k].id
    BY DEF PlacesShape
  <2>3. (f \in DOMAIN ct <=> f # fd /\ f \in DOMAIN cs) /\ (f \in DOMAIN ct => ct[f] = cs[f])
    BY DEF Released
  <2>4. /\ f \in DOMAIN ht /\ ht[f].kind = kind <=> f \in DOMAIN hs /\ hs[f].kind = kind
        /\ f \in DOMAIN hs /\ hs[f].kind = kind => ht[f].rest = hs[f].rest
    BY DEF Released
  <2> QED
    BY <2>1, <2>2, <2>3, <2>4
<1>2. \A p \in P \cup Q : \E i, k \in Nat : p = HandlerAt[i][k] \/ p = SessionAt[i][k]
  BY DEF PlacesShape
<1> DEFINE m == [q \in Q |-> q]
<1>3. ASSUME NEW q \in Q PROVE q \in P /\ jd[q] = id[q]
  <2>1. PICK i \in Nat, k \in Nat : q = HandlerAt[i][k] \/ q = SessionAt[i][k]
    BY <1>2
  <2> QED
    BY <2>1, <1>1
<1>4. ASSUME NEW k \in DOMAIN cs[fd]
      PROVE  SessionAt[fd][k] \in P /\ SessionAt[fd][k] \notin Q /\ id[SessionAt[fd][k]] = cs[fd][k].id
  <2>1. k \in Nat
    BY DEF Released
  <2>2. /\ SessionAt[fd][k] \in P <=> fd \in DOMAIN cs /\ k \in DOMAIN cs[fd]
        /\ SessionAt[fd][k] \in P => id[SessionAt[fd][k]] = cs[fd][k].id
    BY <1>0, <2>1 DEF PlacesShape
  <2>3. SessionAt[fd][k] \notin Q
    BY <1>0, <1>1, <2>1
  <2> QED
    BY <1>0, <2>2, <2>3
<1>5. ASSUME NEW p \in P, p \notin Q PROVE \E k \in DOMAIN cs[fd] : p = SessionAt[fd][k] /\ id[p] = cs[fd][k].id
  <2>1. PICK i \in Nat, k \in Nat : p = HandlerAt[i][k] \/ p = SessionAt[i][k]
    BY <1>2
  <2>2. p = SessionAt[fd][k]
    BY <2>1, <1>1, <1>5
  <2>3. k \in DOMAIN cs[fd] /\ id[p] = cs[fd][k].id
    BY <2>2, <1>0 DEF PlacesShape
  <2> QED
    BY <2>2, <2>3
<1>6. \A x : x \in Ids(cs[fd]) <=> \E p \in P : id[p] = x /\ \A q \in Q : m[q] # p
  <2> SUFFICES ASSUME NEW x PROVE x \in Ids(cs[fd]) <=> \E p \in P : id[p] = x /\ p \notin Q
    OBVIOUS
  <2>1. x \in Ids(cs[fd]) <=> \E k \in DOMAIN cs[fd] : x = cs[fd][k].id
    BY DEF Ids
  <2> QED
    BY <2>1, <1>4, <1>5
<1>7. Moves(P, id, Q, jd, m, Ids(cs[fd]))
  <2>1. \A q \in Q : m[q] \in P /\ jd[q] = id[m[q]]
    BY <1>3
  <2>2. \A q, r \in Q : m[q] = m[r] => q = r
    OBVIOUS
  <2> HIDE DEF m
  <2> QED
    BY <2>1, <2>2, <1>6 DEF Moves
<1> QED
  BY <1>7

\* ClearSessionAndBuffer puts back all buffers of a chain: each stays in one place.
LEMMA ReleasedInOnePlace ==
    ASSUME NEW kind, NEW hs, NEW cs, Holders(hs, kind, cs), NEW ht, NEW ct, Holders(ht, kind, ct),
           NEW fd, Released(hs, cs, ht, ct, kind, fd), NEW pool, InOnePlace(pool, hs, kind, cs)
    PROVE  InOnePlace(PutIntoPool(pool, Ids(cs[fd])), ht, kind, ct)
<1>1. PlacesShape(hs, kind, cs, Places(hs, kind, cs), IdAt(hs, kind, cs))
  BY PlacesAre
<1>2. PlacesShape(ht, kind, ct, Places(ht, kind, ct), IdAt(ht, kind, ct))
  BY PlacesAre
<1>3. PICK m : Moves(Places(hs, kind, cs), IdAt(hs, kind, cs), Places(ht, kind, ct), IdAt(ht, kind, ct), m,
                     Ids(cs[fd]))
  BY <1>1, <1>2, ReleasedMoves
<1> QED
  BY <1>3, MovedInOnePlace

\* A buffer named x is appended to the chain of fd.
Extended(cs, ct, fd, x) ==
    /\ fd \in Nat /\ fd \in DOMAIN cs /\ DOMAIN ct = DOMAIN cs
    /\ \A f \in DOMAIN cs : f # fd => ct[f] = cs[f]
    /\ \E L \in Nat :
          /\ DOMAIN cs[fd] = 1 .. L /\ DOMAIN ct[fd] = 1 .. L + 1
          /\ \A k \in 1 .. L : ct[fd][k] = cs[fd][k]
          /\ ct[fd][L + 1].id = x

\* GetFromPool takes a free buffer, or a new one when none is free.
LEMMA TakenIs ==
    ASSUME NEW pool \in PoolSet
    PROVE  IF pool.free = {} THEN Taken(pool) = pool.all + 1 ELSE Taken(pool) \in pool.free
<1>1. CASE pool.free = {}
  BY <1>1 DEF Taken
<1>2. CASE pool.free # {}
  <2>1. pool.free \subseteq Nat
    BY DEF PoolSet
  <2>2. \E x \in pool.free : \A y \in pool.free : x <= y
    BY <1>2, <2>1, LeastExists
  <2>3. Min(pool.free) \in pool.free
    BY <2>2 DEF Min
  <2> QED
    BY <1>2, <2>3 DEF Taken
<1> QED
  BY <1>1, <1>2

\* AsyncRead and AsyncWrite append the buffer they took: each is in one place.
LEMMA ExtendedInOnePlace ==
    ASSUME NEW kind, NEW hs, NEW cs, Holders(hs, kind, cs), NEW ct, Holders(hs, kind, ct),
           NEW pool \in PoolSet, NEW fd, NEW x, x = Taken(pool), Extended(cs, ct, fd, x), InOnePlace(pool, hs, kind, cs)
    PROVE  InOnePlace(GetFromPool(pool), hs, kind, ct)
<1>1. PICK P, id : PlacesShape(hs, kind, cs, P, id) /\ Apart(pool.free, pool.all, P, id)
  BY PlacesAre, InOnePlaceApart
<1> DEFINE Q == Places(hs, kind, ct)
           jd == IdAt(hs, kind, ct)
<1>2. PlacesShape(hs, kind, ct, Q, jd)
  BY PlacesAre
<1> HIDE DEF Q, jd
<1>3. PICK L \in Nat : /\ DOMAIN cs[fd] = 1 .. L /\ DOMAIN ct[fd] = 1 .. L + 1
                       /\ \A k \in 1 .. L : ct[fd][k] = cs[fd][k]
                       /\ ct[fd][L + 1].id = x
  BY DEF Extended
<1>4. fd \in Nat /\ fd \in DOMAIN cs /\ fd \in DOMAIN ct /\ L + 1 \in Nat
  BY DEF Extended
<1> DEFINE new == SessionAt[fd][L + 1]
<1>5. ASSUME NEW f \in Nat, NEW k \in Nat
      PROVE  /\ SessionAt[f][k] \in Q <=> SessionAt[f][k] \in P \/ (f = fd /\ k = L + 1)
             /\ SessionAt[f][k] \in P => jd[SessionAt[f][k]] = id[SessionAt[f][k]]
             /\ HandlerAt[f][k] \in Q <=> HandlerAt[f][k] \in P
             /\ HandlerAt[f][k] \in P => jd[HandlerAt[f][k]] = id[HandlerAt[f][k]]
  <2>1. /\ SessionAt[f][k] \in P <=> f \in DOMAIN cs /\ k \in DOMAIN cs[f]
        /\ SessionAt[f][k] \in P => id[SessionAt[f][k]] = cs[f][k].id
        /\ HandlerAt[f][k] \in P <=> f \in DOMAIN hs /\ hs[f].kind = kind /\ k \in DOMAIN hs[f].rest
        /\ HandlerAt[f][k] \in P => id[HandlerAt[f][k]] = hs[f].rest[k].id
    BY <1>1 DEF PlacesShape
  <2>2. /\ SessionAt[f][k] \in Q <=> f \in DOMAIN ct /\ k \in DOMAIN ct[f]
        /\ SessionAt[f][k] \in Q => jd[SessionAt[f][k]] = ct[f][k].id
        /\ HandlerAt[f][k] \in Q <=> f \in DOMAIN hs /\ hs[f].kind = kind /\ k \in DOMAIN hs[f].rest
        /\ HandlerAt[f][k] \in Q => jd[HandlerAt[f][k]] = hs[f].rest[k].id
    BY <1>2 DEF PlacesShape
  <2>3. (f \in DOMAIN ct <=> f \in DOMAIN cs) /\ (f \in DOMAIN cs /\ f # fd => ct[f] = cs[f])
    BY DEF Extended
  <2>4. CASE f = fd
    <3>1. k \in 1 .. L + 1 <=> k \in 1 .. L \/ k = L + 1
      OBVIOUS
    <3>2. k \in 1 .. L => ct[f][k] = cs[f][k]
      BY <1>3, <2>4
    <3>3. f \in DOMAIN cs /\ f \in DOMAIN ct /\ DOMAIN cs[f] = 1 .. L /\ DOMAIN ct[f] = 1 .. L + 1
      BY <1>3, <1>4, <2>4
    <3> QED
      BY <2>1, <2>2, <2>4, <3>1, <3>2, <3>3
  <2>5. CASE f # fd
    BY <2>1, <2>2, <2>3, <2>5
  <2> QED
    BY <2>4, <2>5
<1>6. \A p \in P \cup Q : \E i, k \in Nat : p = HandlerAt[i][k] \/ p = SessionAt[i][k]
  BY <1>1, <1>2 DEF PlacesShape
<1>7. new \notin P
  <2>1. SessionAt[fd][L + 1] \in P => L + 1 \in DOMAIN cs[fd]
    BY <1>1, <1>4 DEF PlacesShape
  <2> QED
    BY <2>1, <1>3
<1>8. new \in Q /\ jd[new] = Taken(pool)
  <2>1. new \in Q
    BY <1>4, <1>5
  <2>2. jd[new] = ct[fd][L + 1].id
    BY <2>1, <1>2, <1>4 DEF PlacesShape
  <2> QED
    BY <2>1, <2>2, <1>3
<1>9. ASSUME NEW p PROVE p \in Q <=> p \in P \cup {new}
  <2>1. ASSUME NEW i \in Nat, NEW k \in Nat, p = HandlerAt[i][k] \/ p = SessionAt[i][k]
        PROVE  p \in Q <=> p \in P \cup {new}
    <3>1. HandlerAt[i][k] # new
      BY <1>4, PlaceNames
    <3>2. SessionAt[i][k] = new <=> i = fd /\ k = L + 1
      BY <1>4, PlaceNames
    <3> QED
      BY <2>1, <3>1, <3>2, <1>5
  <2> QED
    BY <2>1, <1>6, <1>8
<1>10. \A p \in P : jd[p] = id[p]
  BY <1>5, <1>6
<1>11. IF pool.free = {} THEN jd[new] = pool.all + 1 ELSE jd[new] \in pool.free
  BY <1>8, TakenIs
<1>12. pool.all \in Nat
  BY DEF PoolSet
<1> HIDE DEF new
<1>13. Apart(pool.free \ {jd[new]}, IF pool.free = {} THEN pool.all + 1 ELSE pool.all, P \cup {new}, jd)
  BY <1>1, <1>7, <1>10, <1>11, <1>12, ApartGrows
<1>14. P \cup {new} = Q
  BY <1>9
<1>15. /\ GetFromPool(pool).free = pool.free \ {jd[new]}
       /\ GetFromPool(pool).all = IF pool.free = {} THEN pool.all + 1 ELSE pool.all
  BY <1>8 DEF GetFromPool
<1>16. Apart(GetFromPool(pool).free, GetFromPool(pool).all, Q, jd)
  BY <1>13, <1>14, <1>15
<1> QED
  BY <1>16, InOnePlaceApart DEF Q, jd

------------------------------------------------------------------------------
(* The buffers of the server. *)

ReadChains == [fd \in Live |-> clients[fd].rb]
WriteChains == [fd \in Live |-> clients[fd].wb]

\* Handlers and chains of their types are what the lemmas on places ask for.
LEMMA ChainsHeld ==
    ASSUME NEW handlers \in Seq(FrameSet), NEW live, live \subseteq Nat, NEW chains \in [live -> Seq(Buffer)],
           NEW kind, \A i \in 1 .. Len(handlers) : handlers[i].kind = kind => handlers[i].rest \in Seq(Buffer)
    PROVE  Holders(handlers, kind, chains)
BY DEF Holders

\* The server's handlers and chains are what the lemmas on places ask for.
LEMMA ServerHolders ==
    TypeInv /\ FrameInv => Holders(stack, "read", ReadChains) /\ Holders(stack, "write", WriteChains)
<1> SUFFICES ASSUME TypeInv, FrameInv
             PROVE  Holders(stack, "read", ReadChains) /\ Holders(stack, "write", WriteChains)
  OBVIOUS
<1>1. stack \in Seq(FrameSet) /\ Live \subseteq Nat
  BY ServerAssumption DEF TypeInv
<1>2. ReadChains \in [Live -> Seq(Buffer)] /\ WriteChains \in [Live -> Seq(Buffer)]
  BY SessionType DEF ReadChains, WriteChains
<1>3. \A i \in 1 .. Len(stack) : stack[i].kind \in {"read", "write"} => stack[i].rest \in Seq(Buffer)
  BY DEF FrameInv
<1> QED
  BY <1>1, <1>2, <1>3, ChainsHeld

\* So are those after a step.
LEMMA ServerHoldersNext ==
    TypeInv' /\ FrameInv' => Holders(stack, "read", ReadChains)' /\ Holders(stack, "write", WriteChains)'
BY ServerHolders, PTL

SameHandlers(kind) ==
    /\ \A i \in Nat : i \in DOMAIN stack' /\ stack'[i].kind = kind <=> i \in DOMAIN stack /\ stack[i].kind = kind
    /\ \A i \in Nat : i \in DOMAIN stack /\ stack[i].kind = kind => stack'[i].rest = stack[i].rest

\* A step that changes no read buffer, nor who holds it, keeps each in one place.
LEMMA ReadsKept ==
    ASSUME TypeInv, FrameInv, TypeInv', FrameInv', InOnePlace(rbPool, stack, "read", ReadChains),
           rbPool' = rbPool, SameHandlers("read"),
           \A f, k \in Nat : f \in Live' /\ k \in DOMAIN clients'[f].rb <=> f \in Live /\ k \in DOMAIN clients[f].rb,
           \A f, k \in Nat : f \in Live /\ k \in DOMAIN clients[f].rb => clients'[f].rb[k] = clients[f].rb[k]
    PROVE  InOnePlace(rbPool, stack, "read", ReadChains)'
<1>1. Holders(stack, "read", ReadChains) /\ Holders(stack', "read", ReadChains')
  BY ServerHolders, ServerHoldersNext
<1>2. ASSUME NEW f \in Nat, NEW k \in Nat
      PROVE  /\ f \in DOMAIN ReadChains' /\ k \in DOMAIN (ReadChains'[f]) <=> f \in DOMAIN ReadChains /\ k \in DOMAIN ReadChains[f]
             /\ f \in DOMAIN ReadChains /\ k \in DOMAIN ReadChains[f] => ReadChains'[f][k] = ReadChains[f][k]
  BY DEF ReadChains
<1>3. InOnePlace(rbPool, stack', "read", ReadChains')
  BY <1>1, <1>2, SameInOnePlace DEF SameHandlers
<1> QED
  BY <1>3

\* A step that changes no write buffer, nor who holds it, keeps each in one place.
LEMMA WritesKept ==
    ASSUME TypeInv, FrameInv, TypeInv', FrameInv', InOnePlace(wbPool, stack, "write", WriteChains),
           wbPool' = wbPool, SameHandlers("write"),
           \A f, k \in Nat : f \in Live' /\ k \in DOMAIN clients'[f].wb <=> f \in Live /\ k \in DOMAIN clients[f].wb,
           \A f, k \in Nat : f \in Live /\ k \in DOMAIN clients[f].wb => clients'[f].wb[k] = clients[f].wb[k]
    PROVE  InOnePlace(wbPool, stack, "write", WriteChains)'
<1>1. Holders(stack, "write", WriteChains) /\ Holders(stack', "write", WriteChains')
  BY ServerHolders, ServerHoldersNext
<1>2. ASSUME NEW f \in Nat, NEW k \in Nat
      PROVE  /\ f \in DOMAIN WriteChains' /\ k \in DOMAIN (WriteChains'[f]) <=> f \in DOMAIN WriteChains /\ k \in DOMAIN WriteChains[f]
             /\ f \in DOMAIN WriteChains /\ k \in DOMAIN WriteChains[f] => WriteChains'[f][k] = WriteChains[f][k]
  BY DEF WriteChains
<1>3. InOnePlace(wbPool, stack', "write", WriteChains')
  BY <1>1, <1>2, SameInOnePlace DEF SameHandlers
<1> QED
  BY <1>3

\* BuffersInOnePlace in terms of the read chains and the write chains.
LEMMA BuffersAre ==
    BuffersInOnePlace <=> InOnePlace(rbPool, stack, "read", ReadChains) /\ InOnePlace(wbPool, stack, "write", WriteChains)
BY DEF BuffersInOnePlace, ReadChains, WriteChains

\* The same after a step.
LEMMA BuffersAreNext ==
    BuffersInOnePlace' <=> InOnePlace(rbPool, stack, "read", ReadChains)' /\ InOnePlace(wbPool, stack, "write", WriteChains)'
BY BuffersAre, PTL

\* A step that changes no chain and no handler that holds buffers keeps each in one place.
LEMMA BuffersKept ==
    ASSUME TypeInv, FrameInv, TypeInv', FrameInv', BuffersInOnePlace, rbPool' = rbPool, wbPool' = wbPool,
           SameHandlers("read"), SameHandlers("write"),
           Live \subseteq Live', \A f \in Live : clients'[f].rb = clients[f].rb /\ clients'[f].wb = clients[f].wb,
           \A f \in Live' \ Live : clients'[f].rb = << >> /\ clients'[f].wb = << >>
    PROVE  BuffersInOnePlace'
<1>0. InOnePlace(rbPool, stack, "read", ReadChains) /\ InOnePlace(wbPool, stack, "write", WriteChains)
  BY BuffersAre
<1>1. ASSUME NEW f \in Nat, NEW k \in Nat
      PROVE  /\ f \in Live' /\ k \in DOMAIN clients'[f].rb <=> f \in Live /\ k \in DOMAIN clients[f].rb
             /\ f \in Live /\ k \in DOMAIN clients[f].rb => clients'[f].rb[k] = clients[f].rb[k]
             /\ f \in Live' /\ k \in DOMAIN clients'[f].wb <=> f \in Live /\ k \in DOMAIN clients[f].wb
             /\ f \in Live /\ k \in DOMAIN clients[f].wb => clients'[f].wb[k] = clients[f].wb[k]
  <2>1. CASE f \in Live
    BY <2>1
  <2>2. CASE f \in Live' \ Live
    <3>1. DOMAIN << >> = {}
      OBVIOUS
    <3> QED
      BY <2>2, <3>1
  <2>3. CASE f \notin Live'
    BY <2>3
  <2> QED
    BY <2>1, <2>2, <2>3
<1>2. InOnePlace(rbPool, stack, "read", ReadChains)'
  BY <1>0, <1>1, ReadsKept
<1>3. InOnePlace(wbPool, stack, "write", WriteChains)'
  BY <1>0, <1>1, WritesKept
<1> QED
  BY <1>2, <1>3, BuffersAreNext

\* A handler that is called is as FrameInv says, and disturbs no handler of another kind.
LEMMA PushFrames ==
    ASSUME TypeInv, FrameInv, NEW frame \in FrameSet, Push(frame), Live' = Live, frame.kind # "accept",
           stack # << >> => frame.kind = "close",
           frame.kind \in {"read", "write"} => frame.rest \in Seq(Buffer) \ {<< >>} /\ frame.conn \in Conn,
           frame.kind \in {"close", "error"} => frame.fd \in Live /\ ~Closing(frame.fd)
    PROVE  /\ FrameInv' /\ stack' \in Seq(FrameSet)
           /\ \A kind : kind # frame.kind => SameHandlers(kind)
<1>1. stack \in Seq(FrameSet)
  BY DEF TypeInv
<1>2. /\ stack' \in Seq(FrameSet) /\ Len(stack') = Len(stack) + 1 /\ Len(stack) \in Nat
      /\ \A i \in 1 .. Len(stack) : stack'[i] = stack[i]
      /\ stack'[Len(stack) + 1] = frame
  BY <1>1, PushKeeps
<1>3. DOMAIN stack = 1 .. Len(stack) /\ DOMAIN stack' = 1 .. Len(stack) + 1
  BY <1>1, <1>2, LenProperties
<1>4. 1 .. Len(stack) + 1 = (1 .. Len(stack)) \cup {Len(stack) + 1} /\ Len(stack) + 1 \notin 1 .. Len(stack)
  BY <1>2
<1>5. ASSUME NEW i \in 1 .. Len(stack)
      PROVE  /\ i > 1 => stack[i].kind = "close"
             /\ stack[i].kind = "accept" => stack[i].listen \in Listener /\ stack[i].rest \in Seq(Accepted)
             /\ stack[i].kind \in {"read", "write"} =>
                    stack[i].rest \in Seq(Buffer) \ {<< >>} /\ stack[i].conn \in Conn
             /\ stack[i].kind \in {"close", "error"} =>
                    /\ stack[i].fd \in Live
                    /\ \A j \in 1 .. Len(stack) :
                           stack[j].kind \in {"close", "error"} /\ stack[j].fd = stack[i].fd => j = i
  BY DEF FrameInv
<1>6. \A i \in 1 .. Len(stack) : stack[i].kind \in {"close", "error"} /\ frame.kind \in {"close", "error"} => stack[i].fd # frame.fd
  BY <1>3 DEF Closing
<1>7. Len(stack) + 1 > 1 => frame.kind = "close"
  <2>1. Len(stack) # 0 => stack # << >>
    BY EmptySeq
  <2> QED
    BY <1>2, <2>1
<1>8. ASSUME NEW i \in 1 .. Len(stack')
      PROVE  /\ i > 1 => stack'[i].kind = "close"
             /\ stack'[i].kind = "accept" => stack'[i].listen \in Listener /\ stack'[i].rest \in Seq(Accepted)
             /\ stack'[i].kind \in {"read", "write"} =>
                    stack'[i].rest \in Seq(Buffer) \ {<< >>} /\ stack'[i].conn \in Conn
             /\ stack'[i].kind \in {"close", "error"} =>
                    /\ stack'[i].fd \in Live
                    /\ \A j \in 1 .. Len(stack') :
                           stack'[j].kind \in {"close", "error"} /\ stack'[j].fd = stack'[i].fd => j = i
  <2>1. CASE i \in 1 .. Len(stack)
    BY <2>1, <1>2, <1>4, <1>5, <1>6
  <2>2. CASE i = Len(stack) + 1
    BY <2>2, <1>2, <1>4, <1>6, <1>7
  <2> QED
    BY <2>1, <2>2, <1>2, <1>4
<1>9. FrameInv'
  BY <1>8 DEF FrameInv
<1>10. ASSUME NEW kind, kind # frame.kind PROVE SameHandlers(kind)
  BY <1>2, <1>3, <1>4, <1>10 DEF SameHandlers
<1> QED
  BY <1>2, <1>9, <1>10

\* A handler that returns leaves the others as they are.
LEMMA PopFrames ==
    ASSUME TypeInv, FrameInv, stack # << >>, Top.kind # "accept", Pop, \A fd : Closing(fd)' => fd \in Live'
    PROVE  /\ FrameInv' /\ stack' \in Seq(FrameSet)
           /\ \A kind : kind # Top.kind => SameHandlers(kind)
<1>1. stack \in Seq(FrameSet)
  BY DEF TypeInv
<1>2. /\ stack' \in Seq(FrameSet) /\ Len(stack') = Len(stack) - 1 /\ Len(stack) \in Nat \ {0}
      /\ \A i \in 1 .. Len(stack) - 1 : stack'[i] = stack[i]
      /\ Top = stack[Len(stack)]
  BY <1>1, PopKeeps
<1>3. DOMAIN stack = 1 .. Len(stack) /\ DOMAIN stack' = 1 .. Len(stack) - 1
  BY <1>1, <1>2, LenProperties
<1>4. 1 .. Len(stack) = (1 .. Len(stack) - 1) \cup {Len(stack)} /\ Len(stack) \notin 1 .. Len(stack) - 1
  BY <1>2
<1>5. ASSUME NEW i \in 1 .. Len(stack)
      PROVE  /\ i > 1 => stack[i].kind = "close"
             /\ stack[i].kind = "accept" => stack[i].listen \in Listener /\ stack[i].rest \in Seq(Accepted)
             /\ stack[i].kind \in {"read", "write"} =>
                    stack[i].rest \in Seq(Buffer) \ {<< >>} /\ stack[i].conn \in Conn
             /\ stack[i].kind \in {"close", "error"} =>
                    \A j \in 1 .. Len(stack) :
                           stack[j].kind \in {"close", "error"} /\ stack[j].fd = stack[i].fd => j = i
  BY DEF FrameInv
<1>6. ASSUME NEW i \in 1 .. Len(stack'), stack'[i].kind \in {"close", "error"} PROVE stack'[i].fd \in Live'
  <2>1. PICK fd : fd = stack'[i].fd
    OBVIOUS
  <2>2. Closing(fd)'
    BY <1>2, <1>3, <1>6, <2>1 DEF Closing
  <2> QED
    BY <2>1, <2>2
<1>7. ASSUME NEW i \in 1 .. Len(stack')
      PROVE  /\ i > 1 => stack'[i].kind = "close"
             /\ stack'[i].kind = "accept" => stack'[i].listen \in Listener /\ stack'[i].rest \in Seq(Accepted)
             /\ stack'[i].kind \in {"read", "write"} =>
                    stack'[i].rest \in Seq(Buffer) \ {<< >>} /\ stack'[i].conn \in Conn
             /\ stack'[i].kind \in {"close", "error"} =>
                    /\ stack'[i].fd \in Live'
                    /\ \A j \in 1 .. Len(stack') :
                           stack'[j].kind \in {"close", "error"} /\ stack'[j].fd = stack'[i].fd => j = i
  <2>1. i \in 1 .. Len(stack) /\ stack'[i] = stack[i]
    BY <1>2, <1>4
  <2>2. \A j \in 1 .. Len(stack') : j \in 1 .. Len(stack) /\ stack'[j] = stack[j]
    BY <1>2, <1>4
  <2> QED
    BY <2>1, <2>2, <1>5, <1>6
<1>8. FrameInv'
  BY <1>7 DEF FrameInv
<1>9. ASSUME NEW kind, kind # Top.kind PROVE SameHandlers(kind)
  BY <1>2, <1>3, <1>4, <1>9 DEF SameHandlers
<1> QED
  BY <1>2, <1>8, <1>9

\* A handler of another kind than read and write comes or goes, and nothing else happens.
LEMMA StackStep ==
    ASSUME ServerInv, UNCHANGED <<serverVars, events, loop, stop, calls, backlog, made, peer>>,
           FrameInv', stack' \in Seq(FrameSet), SameHandlers("read"), SameHandlers("write"),
           Pending' = Pending, \A l : Accepting(l)' <=> Accepting(l), \A fd : Closing(fd)' <=> Closing(fd)
    PROVE  ServerInv'
<1> USE DEF ServerInv
<1>1. /\ clients' = clients /\ conns' = conns /\ interest' = interest /\ rbPool' = rbPool /\ wbPool' = wbPool
      /\ events' = events /\ loop' = loop /\ stop' = stop /\ calls' = calls
      /\ backlog' = backlog /\ made' = made /\ peer' = peer /\ Live' = Live
  BY DEF serverVars, Live
<1>2. TypeInv' /\ ChainInv'
  BY <1>1 DEF TypeInv, ChainInv
<1>3. SameSessions
  BY <1>1 DEF SameSessions
<1>4. ConnInv' /\ PendingInv' /\ \A l : Sessions(l)' = Sessions(l)
  BY <1>1, <1>3, ConnKeeps
<1>5. CountInv'
  BY <1>1, <1>4, CountKeeps
<1>6. InterestInv'
  BY <1>1 DEF InterestInv, InterestMatches
<1>7. BuffersInOnePlace'
  BY <1>1, <1>2, BuffersKept
<1> QED
  BY <1>2, <1>4, <1>5, <1>6, <1>7

\* OnTimeout keeps the invariant.
LEMMA OnTimeoutKeeps == ASSUME ServerInv, OnTimeout PROVE ServerInv'
<1> DEFINE frame == Frame("timeout", 0, 0, 0, << >>)
<1>1. TypeInv /\ FrameInv /\ stack \in Seq(FrameSet) /\ Push(frame) /\ stack = << >>
      /\ UNCHANGED <<serverVars, events, loop, stop, calls, backlog, made, peer>>
  BY DEF ServerInv, TypeInv, OnTimeout, Idle
<1>2. frame \in FrameSet /\ frame.kind = "timeout"
  <2>1. << >> \in Seq(Buffer)
    OBVIOUS
  <2> QED
    BY <2>1 DEF Frame, FrameSet
<1>3. Live' = Live
  BY <1>1 DEF serverVars, Live
<1> HIDE DEF frame
<1>4. FrameInv' /\ stack' \in Seq(FrameSet) /\ \A kind : kind # "timeout" => SameHandlers(kind)
  BY <1>1, <1>2, <1>3, PushFrames
<1>5. Pending' = Pending /\ (\A l : Accepting(l)' <=> Accepting(l)) /\ \A fd : Closing(fd)' <=> Closing(fd)
  BY <1>1, <1>2, PushKeeps
<1> QED
  BY <1>1, <1>4, <1>5, StackStep

\* The return from OnTimeout keeps the invariant.
LEMMA TimeoutReturnsKeeps == ASSUME ServerInv, TimeoutReturns PROVE ServerInv'
<1>1. /\ TypeInv /\ FrameInv /\ stack \in Seq(FrameSet) /\ Pop /\ stack # << >> /\ Top.kind = "timeout"
      /\ UNCHANGED <<serverVars, events, loop, stop, calls, backlog, made, peer>>
  BY DEF ServerInv, TypeInv, TimeoutReturns
<1>2. Live' = Live
  BY <1>1 DEF serverVars, Live
<1>3. Pending' = Pending /\ (\A l : Accepting(l)' <=> Accepting(l)) /\ \A fd : Closing(fd)' <=> Closing(fd)
  BY <1>1, PopKeeps
<1>4. \A fd : Closing(fd) => fd \in Live
  BY <1>1, LenProperties DEF Closing, FrameInv
<1>5. FrameInv' /\ stack' \in Seq(FrameSet) /\ \A kind : kind # "timeout" => SameHandlers(kind)
  BY <1>1, <1>2, <1>3, <1>4, PopFrames
<1> QED
  BY <1>1, <1>3, <1>5, StackStep

\* The concatenations of the first sequences of a sequence of sequences exist.
LEMMA ConcatExists ==
    ASSUME NEW S, NEW s \in Seq(Seq(S))
    PROVE  \E h \in [0 .. Len(s) -> Seq(S)] : h[0] = << >> /\ \A i \in 1 .. Len(s) : h[i] = h[i - 1] \o s[i]
<1> DEFINE Joins(m, h) == h[0] = << >> /\ \A i \in 1 .. m : h[i] = h[i - 1] \o s[i]
           T == {m \in Nat : m <= Len(s) => \E h \in [0 .. m -> Seq(S)] : Joins(m, h)}
<1>0. Len(s) \in Nat /\ \A i \in 1 .. Len(s) : s[i] \in Seq(S)
  BY LenProperties, ElementOfSeq
<1>1. 0 \in T
  <2>1. [i \in 0 .. 0 |-> << >>] \in [0 .. 0 -> Seq(S)] /\ Joins(0, [i \in 0 .. 0 |-> << >>])
    OBVIOUS
  <2> QED
    BY <2>1
<1>2. ASSUME NEW m \in Nat, m \in T PROVE m + 1 \in T
  <2>0. m + 1 \in Nat
    OBVIOUS
  <2> SUFFICES ASSUME m + 1 <= Len(s) PROVE \E h \in [0 .. m + 1 -> Seq(S)] : Joins(m + 1, h)
    BY <2>0, Zenon
  <2>1. PICK h \in [0 .. m -> Seq(S)] : Joins(m, h)
    <3> HIDE DEF Joins
    <3>1. m <= Len(s)
      BY <1>0
    <3> QED
      BY <1>2, <3>1
  <2>2. m \in 0 .. m /\ h[m] \in Seq(S) /\ s[m + 1] \in Seq(S)
    BY <1>0, <2>1
  <2> DEFINE last == h[m] \o s[m + 1]
             g == [i \in 0 .. m + 1 |-> IF i = m + 1 THEN last ELSE h[i]]
  <2>3. last \in Seq(S)
    BY <2>2, ConcatProperties
  <2>4. g[m + 1] = last /\ \A i \in 0 .. m : g[i] = h[i]
    OBVIOUS
  <2>5. g \in [0 .. m + 1 -> Seq(S)]
    <3> HIDE DEF last
    <3> QED
      BY <2>1, <2>3
  <2>6. g[0] = << >>
    BY <2>1, <2>4
  <2>7. ASSUME NEW i \in 1 .. m + 1 PROVE g[i] = g[i - 1] \o s[i]
    <3>1. CASE i = m + 1
      <4>1. i - 1 = m
        BY <3>1
      <4>2. g[i - 1] = h[m]
        BY <4>1, <2>4
      <4> HIDE DEF g
      <4> QED
        BY <3>1, <4>2, <2>4
    <3>2. CASE i # m + 1
      <4>1. i \in 1 .. m /\ i - 1 \in 0 .. m /\ i \in 0 .. m
        BY <3>2
      <4>2. g[i] = h[i] /\ g[i - 1] = h[i - 1]
        BY <4>1, <2>4
      <4>3. h[i] = h[i - 1] \o s[i]
        BY <4>1, <2>1
      <4> HIDE DEF g
      <4> QED
        BY <4>2, <4>3
    <3> QED
      BY <3>1, <3>2
  <2> HIDE DEF g
  <2> QED
    BY <2>5, <2>6, <2>7
<1>3. Len(s) \in T
  <2> HIDE DEF T
  <2> QED
    BY <1>0, <1>1, <1>2, NatAll
<1>4. \E h \in [0 .. Len(s) -> Seq(S)] : Joins(Len(s), h)
  <2> HIDE DEF Joins
  <2> QED
    BY <1>0, <1>3
<1> QED
  BY <1>4

\* Flattening sequences over S gives a sequence over S.
LEMMA FlattenType == ASSUME NEW S, NEW s \in Seq(Seq(S)) PROVE FlattenSeq(s) \in Seq(S)
<1>1. PICK h \in [0 .. Len(s) -> Seq(S)] : h[0] = << >> /\ \A i \in 1 .. Len(s) : h[i] = h[i - 1] \o s[i]
  BY ConcatExists
<1>2. FlattenSeq(s) = h[Len(s)]
  BY <1>1, FlattenIs
<1>3. Len(s) \in 0 .. Len(s)
  BY LenProperties
<1> QED
  BY <1>2, <1>3

\* A sequence of one element.
LEMMA OneType == ASSUME NEW S, NEW e \in S PROVE <<e>> \in Seq(S)
OBVIOUS

\* The demultiplexer makes accept events of a listener and the other events of a session.
LEMMA ClassifiedType ==
    ASSUME NEW listening, NEW reported, NEW E,
           IF listening THEN "CFEV_ACCEPT" \in E ELSE {"CFEV_READ", "CFEV_WRITE", "CFEV_CLOSE", "CFEV_ERROR"} \subseteq E
    PROVE  Classified(listening, reported) \in Seq(E)
<1> DEFINE r == IF "in" \in reported THEN <<"CFEV_READ">> ELSE << >>
           w == IF "out" \in reported THEN <<"CFEV_WRITE">> ELSE << >>
           c == IF "rdhup" \in reported THEN <<"CFEV_CLOSE">> ELSE << >>
<1>1. CASE listening
  BY <1>1, OneType DEF Classified
<1>2. CASE ~listening
  <2>0. << >> \in Seq(E)
    OBVIOUS
  <2>1. "CFEV_READ" \in E /\ "CFEV_WRITE" \in E /\ "CFEV_CLOSE" \in E /\ "CFEV_ERROR" \in E
    BY <1>2
  <2>2. <<"CFEV_READ">> \in Seq(E) /\ <<"CFEV_WRITE">> \in Seq(E) /\ <<"CFEV_CLOSE">> \in Seq(E) /\ <<"CFEV_ERROR">> \in Seq(E)
    BY <2>1, OneType, Zenon
  <2>3. r \in Seq(E) /\ w \in Seq(E) /\ c \in Seq(E)
    BY <2>0, <2>2, Zenon
  <2>4. Classified(listening, reported) = IF "err" \in reported THEN <<"CFEV_ERROR">> ELSE r \o w \o c
    BY <1>2 DEF Classified
  <2>5. r \o w \o c \in Seq(E)
    <3> HIDE DEF r, w, c
    <3>1. r \o w \in Seq(E)
      BY <2>3, ConcatProperties
    <3> QED
      BY <2>3, <3>1, ConcatProperties
  <2> HIDE DEF r, w, c
  <2> QED
    BY <2>2, <2>4, <2>5, Zenon
<1> QED
  BY <1>1, <1>2

\* The events of one descriptor have their type.
LEMMA EventsType ==
    ASSUME NEW x \in Listener \cup Fd, NEW writable
    PROVE  EventsOf(x, writable) \in Seq(Event)
<1> DEFINE reported == IF x \in Listener THEN {} ELSE Reported(x, writable)
           evs == Classified(x \in Listener, reported)
           E == IF x \in Listener THEN {"CFEV_ACCEPT"} ELSE {"CFEV_READ", "CFEV_WRITE", "CFEV_CLOSE", "CFEV_ERROR"}
<1>1. evs \in Seq(E)
  <2>1. IF x \in Listener THEN "CFEV_ACCEPT" \in E ELSE {"CFEV_READ", "CFEV_WRITE", "CFEV_CLOSE", "CFEV_ERROR"} \subseteq E
    OBVIOUS
  <2> HIDE DEF reported, E
  <2> QED
    BY <2>1, ClassifiedType
<1> HIDE DEF evs
<1>2. Len(evs) \in Nat /\ DOMAIN evs = 1 .. Len(evs) /\ \A i \in 1 .. Len(evs) : evs[i] \in E
  BY <1>1, LenProperties, ElementOfSeq
<1>3. EventsOf(x, writable) = [i \in DOMAIN evs |-> [fd |-> x, ev |-> evs[i]]]
  BY DEF EventsOf, evs
<1>4. \A e \in E : [fd |-> x, ev |-> e] \in Event
  BY DEF Event
<1> HIDE DEF E
<1> QED
  BY <1>2, <1>3, <1>4

\* WaitEvent keeps the invariant: it only fills the batch.
LEMMA WaitEventKeeps == ASSUME ServerInv, WaitEvent PROVE ServerInv'
<1> DEFINE Ready(writable) == Acceptable \cup {fd \in Live : Reported(fd, writable) # {}}
<1>0. UNCHANGED <<serverVars, stack, loop, stop, calls, backlog, made, peer>>
  BY DEF WaitEvent
<1>1. PICK writable, batch : /\ batch \in Batches(Ready(writable), MaxEvents)
                             /\ events' = FlattenSeq([i \in DOMAIN batch |-> EventsOf(batch[i], writable)])
  BY DEF WaitEvent
<1>2. Ready(writable) \subseteq Listener \cup Fd
  BY DEF ServerInv, TypeInv, Acceptable
<1> HIDE DEF Ready
<1>3. Cardinality(Ready(writable)) \in Nat
  <2>1. IsFiniteSet(Listener \cup Fd)
    BY ServerAssumption, FS_Union
  <2> QED
    BY <1>2, <2>1, FS_Subset, FS_CardinalityType
<1>4. PICK n \in Nat : batch \in [1 .. n -> Ready(writable)]
  BY <1>1, <1>3, ServerAssumption DEF Batches
<1> DEFINE s == [i \in DOMAIN batch |-> EventsOf(batch[i], writable)]
<1>5. s \in Seq(Seq(Event))
  <2>1. DOMAIN batch = 1 .. n
    BY <1>4
  <2>2. \A i \in 1 .. n : EventsOf(batch[i], writable) \in Seq(Event)
    BY <1>2, <1>4, EventsType
  <2> QED
    BY <2>1, <2>2
<1>6. events' \in Seq(Event)
  <2> HIDE DEF s
  <2>1. events' = FlattenSeq(s)
    BY <1>1 DEF s
  <2> QED
    BY <1>5, <2>1, FlattenType
<1> QED
  BY <1>0, <1>6, QuietStep DEF ServerInv, TypeInv

\* Leaving the loop, by Stop, a signal or an exception, and steps of nobody keep the invariant.
LEMMA LoopKeeps ==
    ASSUME ServerInv, Interrupt \/ LeaveLoop \/ Throw \/ Stop \/ UNCHANGED vars
    PROVE  ServerInv'
<1>1. UNCHANGED <<serverVars, stack, backlog, made, peer, events>>
  BY DEF Interrupt, LeaveLoop, Throw, Stop, CanCall, vars, loopVars
<1>2. loop' \in {"run", "stopped", "interrupted", "threw"} /\ stop' \in BOOLEAN /\ calls' \in Nat
  <2>0. loop \in {"run", "stopped", "interrupted", "threw"} /\ stop \in BOOLEAN /\ calls \in Nat
    BY DEF ServerInv, TypeInv
  <2>1. CASE Interrupt \/ LeaveLoop
    BY <2>0, <2>1 DEF Interrupt, LeaveLoop
  <2>2. CASE Throw
    BY <2>0, <2>2 DEF Throw
  <2>3. CASE Stop
    BY <2>0, <2>3 DEF Stop, CanCall
  <2>4. CASE UNCHANGED vars
    BY <2>0, <2>4 DEF vars, loopVars
  <2> QED
    BY <2>1, <2>2, <2>3, <2>4
<1> QED
  BY <1>1, <1>2, QuietStep DEF ServerInv, TypeInv

\* The parts of a peer have their types.
LEMMA PeerType ==
    ASSUME NEW p \in PeerSet
    PROVE  /\ p.sent \in Nat /\ p.taken \in Nat /\ p.queued \in Nat
           /\ p.delivered \in Seq(Nat) /\ p.wire \in Seq(Nat)
           /\ \A n \in Nat : /\ [p EXCEPT !.sent = n] \in PeerSet
                           /\ [p EXCEPT !.taken = n] \in PeerSet
                           /\ [p EXCEPT !.queued = n] \in PeerSet
           /\ \A s \in Seq(Nat) : /\ [p EXCEPT !.delivered = s] \in PeerSet
                                /\ [p EXCEPT !.wire = s] \in PeerSet
           /\ [p EXCEPT !.fin = TRUE] \in PeerSet /\ [p EXCEPT !.rst = TRUE] \in PeerSet
           /\ \A n : /\ [p EXCEPT !.sent = n].sent = n /\ [p EXCEPT !.sent = n].taken = p.taken
                    /\ [p EXCEPT !.sent = n].fin = p.fin
                    /\ [p EXCEPT !.fin = n].sent = p.sent /\ [p EXCEPT !.fin = n].taken = p.taken
                    /\ [p EXCEPT !.fin = n].fin = n
                    /\ [p EXCEPT !.rst = n].sent = p.sent /\ [p EXCEPT !.rst = n].taken = p.taken
                    /\ [p EXCEPT !.rst = n].fin = p.fin
BY DEF PeerSet

\* What a peer sends, and that it finishes or resets, keeps the invariant.
LEMMA PeersKeep ==
    ASSUME ServerInv, NEW c \in Conn, Send(c) \/ Finish(c) \/ Reset(c)
    PROVE  ServerInv'
<1>1. UNCHANGED <<serverVars, stack, backlog, made, events, loop, stop, calls>>
  BY DEF Send, Finish, Reset, PeerActs, Outside, loopVars
<1>2. peer \in [Conn -> PeerSet] /\ \A d \in Conn : peer[d].taken <= peer[d].sent
  BY DEF ServerInv, TypeInv
<1>3. PICK p \in PeerSet : peer' = [peer EXCEPT ![c] = p] /\ p.taken <= p.sent /\ (peer[c].fin => p.fin)
  <2>0. peer[c] \in PeerSet /\ peer[c].taken <= peer[c].sent /\ peer[c].taken \in Nat /\ peer[c].sent \in Nat
    BY <1>2, PeerType
  <2>1. CASE Send(c)
    <3> DEFINE p == [peer[c] EXCEPT !.sent = peer[c].sent + 1]
    <3>1. peer' = [peer EXCEPT ![c] = p]
      BY <2>1 DEF Send
    <3>2. peer[c].sent + 1 \in Nat
      BY <2>0
    <3>3. p \in PeerSet /\ p.sent = peer[c].sent + 1 /\ p.taken = peer[c].taken /\ p.fin = peer[c].fin
      BY <2>0, <3>2, PeerType
    <3> HIDE DEF p
    <3>4. (peer[c].fin => p.fin) /\ p.taken <= p.sent
      BY <2>0, <3>3
    <3> QED
      BY <3>1, <3>3, <3>4, Zenon
  <2>2. CASE Finish(c)
    <3> DEFINE p == [peer[c] EXCEPT !.fin = TRUE]
    <3>1. peer' = [peer EXCEPT ![c] = p]
      BY <2>2 DEF Finish
    <3>2. p \in PeerSet /\ p.sent = peer[c].sent /\ p.taken = peer[c].taken /\ p.fin
      BY <2>0, PeerType
    <3> HIDE DEF p
    <3>3. (peer[c].fin => p.fin) /\ p.taken <= p.sent
      BY <2>0, <3>2
    <3> QED
      BY <3>1, <3>2, <3>3, Zenon
  <2>3. CASE Reset(c)
    <3> DEFINE p == [peer[c] EXCEPT !.rst = TRUE]
    <3>1. peer' = [peer EXCEPT ![c] = p]
      BY <2>3 DEF Reset
    <3>2. p \in PeerSet /\ p.sent = peer[c].sent /\ p.taken = peer[c].taken /\ p.fin = peer[c].fin
      BY <2>0, PeerType
    <3> HIDE DEF p
    <3> QED
      BY <2>0, <3>1, <3>2
  <2> QED
    BY <2>1, <2>2, <2>3
<1>4. /\ peer' \in [Conn -> PeerSet] /\ \A d \in Conn : peer'[d].taken <= peer'[d].sent
      /\ \A d \in Conn : peer[d].fin => peer'[d].fin
  BY <1>2, <1>3
<1> QED
  BY <1>1, <1>4, QuietStep DEF ServerInv, TypeInv

\* Each connection has one session at most, so a count of sessions stays below CounterMod.
LEMMA SessionsFew ==
    TypeInv /\ ConnInv => \A l \in Listener : /\ IsFiniteSet(Sessions(l))
                                              /\ Cardinality(Sessions(l)) \in 0 .. CounterMod - 1
<1> SUFFICES ASSUME TypeInv, ConnInv, NEW l \in Listener
             PROVE  IsFiniteSet(Sessions(l)) /\ Cardinality(Sessions(l)) \in 0 .. CounterMod - 1
  OBVIOUS
<1> DEFINE f == [fd \in Sessions(l) |-> clients[fd].conn]
<1>1. \A fd \in Sessions(l) : fd \in Live /\ clients[fd].conn \in Conn
  BY SessionType DEF Sessions
<1>2. f \in Injection(Sessions(l), Conn)
  <2>1. f \in [Sessions(l) -> Conn]
    BY <1>1
  <2>2. ASSUME NEW a \in Sessions(l), NEW b \in Sessions(l), f[a] = f[b] PROVE a = b
    <3>1. clients[a].conn = clients[b].conn
      BY <2>2
    <3> QED
      BY <3>1, <1>1 DEF ConnInv
  <2> HIDE DEF f
  <2> QED
    BY <2>1, <2>2 DEF Injection, IsInjective
<1>3. IsFiniteSet(Conn) /\ Cardinality(Conn) = MaxMade
  <2>1. MaxMade \in Nat
    BY ServerAssumption
  <2>2. IsFiniteSet(1 .. MaxMade) /\ Cardinality(1 .. MaxMade) = IF 1 > MaxMade THEN 0 ELSE MaxMade - 1 + 1
    BY <2>1, FS_Interval
  <2> QED
    BY <2>1, <2>2 DEF Conn
<1> HIDE DEF f
<1>4. IsFiniteSet(Sessions(l)) /\ Cardinality(Sessions(l)) <= MaxMade
  BY <1>2, <1>3, FS_Injection
<1>5. Cardinality(Sessions(l)) \in Nat
  BY <1>4, FS_CardinalityType
<1> QED
  BY <1>4, <1>5, ServerAssumption

\* The same after a step.
LEMMA SessionsFewNext ==
    TypeInv' /\ ConnInv' => (\A l \in Listener : /\ IsFiniteSet(Sessions(l))
                                                 /\ Cardinality(Sessions(l)) \in 0 .. CounterMod - 1)'
BY SessionsFew, PTL

\* One more and one less, modulo CounterMod.
LEMMA ModSteps ==
    ASSUME NEW x \in 0 .. CounterMod - 1
    PROVE  /\ (x + 1) % CounterMod = IF x = CounterMod - 1 THEN 0 ELSE x + 1
           /\ (x - 1) % CounterMod = IF x = 0 THEN CounterMod - 1 ELSE x - 1
<1>1. CounterMod \in Nat \ {0}
  BY ServerAssumption
<1>2. \A m \in Nat \ {0} : \A y \in 0 .. m - 1 : y % m = y
  OBVIOUS
<1>3. \A m \in Nat \ {0} : m % m = 0 /\ (0 - 1) % m = m - 1
  OBVIOUS
<1>4. CounterMod - 1 >= 0 /\ x \in Int /\ 0 <= x /\ x <= CounterMod - 1
  BY <1>1
<1>5. (x + 1) % CounterMod = IF x = CounterMod - 1 THEN 0 ELSE x + 1
  <2>1. CASE x = CounterMod - 1
    <3>1. x + 1 = CounterMod
      BY <1>1, <2>1
    <3>2. CounterMod % CounterMod = 0
      BY <1>1, <1>3
    <3> QED
      BY <2>1, <3>1, <3>2
  <2>2. CASE x # CounterMod - 1
    <3>1. x + 1 \in 0 .. CounterMod - 1
      BY <1>1, <1>4, <2>2
    <3>2. (x + 1) % CounterMod = x + 1
      BY <1>1, <1>2, <3>1, Zenon
    <3> QED
      BY <2>2, <3>2
  <2> QED
    BY <2>1, <2>2
<1>6. (x - 1) % CounterMod = IF x = 0 THEN CounterMod - 1 ELSE x - 1
  <2>1. CASE x = 0
    <3>1. (0 - 1) % CounterMod = CounterMod - 1
      BY <1>1, <1>3, Zenon
    <3> QED
      BY <2>1, <3>1
  <2>2. CASE x # 0
    <3>1. x - 1 \in 0 .. CounterMod - 1
      BY <1>1, <1>4, <2>2
    <3>2. (x - 1) % CounterMod = x - 1
      BY <1>1, <1>2, <3>1, Zenon
    <3> QED
      BY <2>2, <3>2
  <2> QED
    BY <2>1, <2>2
<1> QED
  BY <1>5, <1>6

\* A connection is made, or another process accepts one.
LEMMA BacklogStep ==
    ASSUME ServerInv, UNCHANGED <<serverVars, loopVars, peer>>,
           backlog' \in [Listener -> Seq(Nat)], made' \in 0 .. MaxMade, ConnInv', PendingInv'
    PROVE  ServerInv'
<1> USE DEF ServerInv
<1>1. /\ clients' = clients /\ conns' = conns /\ interest' = interest /\ rbPool' = rbPool /\ wbPool' = wbPool
      /\ events' = events /\ loop' = loop /\ stop' = stop /\ calls' = calls
      /\ stack' = stack /\ peer' = peer /\ Live' = Live
  BY DEF serverVars, loopVars, Live
<1>2. TypeInv' /\ ChainInv' /\ FrameInv'
  BY <1>1 DEF TypeInv, ChainInv, FrameInv
<1>3. (\A l : Accepting(l)' <=> Accepting(l)) /\ \A l : Sessions(l)' = Sessions(l)
  BY <1>1 DEF Accepting, Sessions
<1>4. CountInv'
  BY <1>1, <1>3, CountKeeps
<1>5. InterestInv'
  BY <1>1 DEF InterestInv, InterestMatches, Closing
<1>6. BuffersInOnePlace'
  BY <1>1, Zenon DEF BuffersInOnePlace
<1> QED
  BY <1>2, <1>4, <1>5, <1>6

\* A new connection keeps the invariant: its number is new.
LEMMA ConnectKeeps == ASSUME ServerInv, NEW l \in Listener, Connect(l) PROVE ServerInv'
<1>1. /\ UNCHANGED <<serverVars, loopVars, peer>> /\ made' = made + 1 /\ made < MaxMade
      /\ backlog' = [backlog EXCEPT ![l] = Append(backlog[l], made + 1)]
  BY DEF Connect, Outside
<1>2. made \in Nat /\ made + 1 \in Nat /\ made' \in 0 .. MaxMade
  BY <1>1, ServerAssumption DEF ServerInv, TypeInv
<1>3. \A m \in Listener : backlog[m] \in Seq(Nat) /\ Len(backlog[m]) \in Nat
  BY LenProperties DEF ServerInv, TypeInv
<1> DEFINE n == Len(backlog[l])
<1>4. /\ Append(backlog[l], made + 1) \in Seq(Nat) /\ Len(Append(backlog[l], made + 1)) = n + 1
      /\ \A i \in 1 .. n : Append(backlog[l], made + 1)[i] = backlog[l][i]
      /\ Append(backlog[l], made + 1)[n + 1] = made + 1
  BY <1>2, <1>3, AppendProperties
<1>5. backlog' \in [Listener -> Seq(Nat)]
  BY <1>1, <1>4 DEF ServerInv, TypeInv
<1>6. backlog'[l] = Append(backlog[l], made + 1) /\ \A m \in Listener : m # l => backlog'[m] = backlog[m]
  BY <1>1 DEF ServerInv, TypeInv
<1>7. ASSUME NEW m \in Listener, NEW i \in 1 .. Len(backlog'[m])
      PROVE  \/ i \in 1 .. Len(backlog[m]) /\ backlog'[m][i] = backlog[m][i]
             \/ m = l /\ i = n + 1 /\ backlog'[m][i] = made + 1
  <2>1. CASE m = l
    <3>1. 1 .. n + 1 = (1 .. n) \cup {n + 1}
      BY <1>3
    <3> QED
      BY <2>1, <3>1, <1>4, <1>6
  <2>2. CASE m # l
    BY <2>2, <1>6
  <2> QED
    BY <2>1, <2>2
<1> HIDE DEF n
<1>8. Live' = Live /\ Pending' = Pending /\ clients' = clients
  BY <1>1 DEF serverVars, loopVars, Live, Pending
<1>9. ConnInv /\ PendingInv
  BY DEF ServerInv
<1>10. \A fd \in Live : clients[fd].conn <= made /\ clients[fd].conn \in Nat
  BY <1>9, SessionType DEF ServerInv, ConnInv
<1>11. \A m \in Listener : \A i \in 1 .. Len(backlog[m]) : backlog[m][i] \in 1 .. made
  BY <1>9 DEF ConnInv
<1>12. ConnInv'
  <2>1. \A fd \in Live : clients[fd].conn <= made'
    BY <1>1, <1>2, <1>10
  <2>2. ASSUME NEW m \in Listener, NEW i \in 1 .. Len(backlog'[m]), NEW o \in Listener, NEW j \in 1 .. Len(backlog'[o]),
               backlog'[o][j] = backlog'[m][i]
        PROVE  o = m /\ j = i
    <3>1. CASE i \in 1 .. Len(backlog[m]) /\ j \in 1 .. Len(backlog[o]) /\ backlog'[m][i] = backlog[m][i] /\ backlog'[o][j] = backlog[o][j]
      BY <1>9, <2>2, <3>1 DEF ConnInv
    <3>2. made + 1 \notin 1 .. made
      BY <1>2
    <3> QED
      BY <3>1, <3>2, <2>2, <1>7, <1>11
  <2>3. ASSUME NEW m \in Listener, NEW i \in 1 .. Len(backlog'[m])
        PROVE  backlog'[m][i] \in 1 .. made' /\ \A fd \in Live : clients[fd].conn # backlog'[m][i]
    <3>1. CASE i \in 1 .. Len(backlog[m]) /\ backlog'[m][i] = backlog[m][i]
      BY <1>1, <1>2, <1>9, <3>1 DEF ConnInv
    <3>2. CASE backlog'[m][i] = made + 1
      BY <1>1, <1>2, <1>10, <3>2
    <3> QED
      BY <3>1, <3>2, <1>7
  <2>4. \A f, g \in Live : clients[f].conn = clients[g].conn => f = g
    BY <1>9 DEF ConnInv
  <2> QED
    BY <1>8, <2>1, <2>2, <2>3, <2>4 DEF ConnInv
<1>13. PendingInv'
  <2> SUFFICES ASSUME NEW i \in 1 .. Len(Pending)
               PROVE  /\ Pending[i].fd \in Fd \ Live
                      /\ Pending[i].conn \in 1 .. made'
                      /\ \A fd \in Live : clients[fd].conn # Pending[i].conn
                      /\ \A m \in Listener : \A j \in 1 .. Len(backlog'[m]) : backlog'[m][j] # Pending[i].conn
                      /\ \A j \in 1 .. Len(Pending) :
                             Pending[j].fd = Pending[i].fd \/ Pending[j].conn = Pending[i].conn => j = i
    BY <1>8 DEF PendingInv, NewSockets
  <2>1. /\ Pending[i].fd \in Fd \ Live
        /\ Pending[i].conn \in 1 .. made
        /\ \A fd \in Live : clients[fd].conn # Pending[i].conn
        /\ \A m \in Listener : \A j \in 1 .. Len(backlog[m]) : backlog[m][j] # Pending[i].conn
        /\ \A j \in 1 .. Len(Pending) :
               Pending[j].fd = Pending[i].fd \/ Pending[j].conn = Pending[i].conn => j = i
    BY <1>9 DEF PendingInv, NewSockets
  <2>2. Pending[i].conn \in 1 .. made' /\ Pending[i].conn # made + 1
    BY <2>1, <1>1, <1>2
  <2> QED
    BY <2>1, <2>2, <1>7
<1> QED
  BY <1>1, <1>2, <1>5, <1>12, <1>13, BacklogStep

\* A connection that another process accepts leaves its backlog: the invariant is kept.
LEMMA AcceptedElsewhereKeeps == ASSUME ServerInv, NEW l \in Listener, AcceptedElsewhere(l) PROVE ServerInv'
<1>1. /\ UNCHANGED <<serverVars, loopVars, peer>> /\ made' = made /\ backlog[l] # << >>
      /\ backlog' = [backlog EXCEPT ![l] = Tail(backlog[l])]
  BY DEF AcceptedElsewhere, Outside
<1>2. backlog \in [Listener -> Seq(Nat)] /\ made' \in 0 .. MaxMade
  BY <1>1 DEF ServerInv, TypeInv
<1>3. \A m \in Listener : backlog[m] \in Seq(Nat) /\ Len(backlog[m]) \in Nat
  BY <1>2, LenProperties
<1>4. /\ Tail(backlog[l]) \in Seq(Nat) /\ Len(Tail(backlog[l])) = Len(backlog[l]) - 1
      /\ \A i \in 1 .. Len(Tail(backlog[l])) : Tail(backlog[l])[i] = backlog[l][i + 1]
  BY <1>1, <1>3, HeadTailProperties
<1>5. backlog' \in [Listener -> Seq(Nat)]
  BY <1>1, <1>2, <1>4
<1>6. backlog'[l] = Tail(backlog[l]) /\ \A m \in Listener : m # l => backlog'[m] = backlog[m]
  BY <1>1, <1>2
<1> DEFINE At(m, i) == IF m = l THEN i + 1 ELSE i
<1>7. ASSUME NEW m \in Listener, NEW i \in 1 .. Len(backlog'[m])
      PROVE  At(m, i) \in 1 .. Len(backlog[m]) /\ backlog'[m][i] = backlog[m][At(m, i)]
  <2>1. CASE m = l
    <3>1. backlog'[m] = Tail(backlog[l]) /\ Len(backlog'[m]) = Len(backlog[l]) - 1
      BY <2>1, <1>4, <1>6
    <3>2. i \in 1 .. Len(Tail(backlog[l])) /\ At(m, i) = i + 1 /\ i + 1 \in 1 .. Len(backlog[l])
      BY <2>1, <3>1, <1>3
    <3> QED
      BY <2>1, <3>1, <3>2, <1>4
  <2>2. CASE m # l
    BY <2>2, <1>6
  <2> QED
    BY <2>1, <2>2
<1>8. \A m \in Listener : \A i, j \in 1 .. Len(backlog'[m]) : At(m, i) = At(m, j) => i = j
  OBVIOUS
<1> HIDE DEF At
<1>9. Live' = Live /\ Pending' = Pending /\ clients' = clients
  BY <1>1 DEF serverVars, loopVars, Live, Pending
<1>10. ConnInv /\ PendingInv
  BY DEF ServerInv
<1>11. ConnInv'
  <2>1. ASSUME NEW m \in Listener, NEW i \in 1 .. Len(backlog'[m])
        PROVE  backlog'[m][i] \in 1 .. made' /\ \A fd \in Live : clients[fd].conn # backlog'[m][i]
    BY <1>1, <1>7, <1>10 DEF ConnInv
  <2>2. ASSUME NEW m \in Listener, NEW i \in 1 .. Len(backlog'[m]), NEW o \in Listener, NEW j \in 1 .. Len(backlog'[o]),
               backlog'[o][j] = backlog'[m][i]
        PROVE  o = m /\ j = i
    <3>1. At(m, i) \in 1 .. Len(backlog[m]) /\ At(o, j) \in 1 .. Len(backlog[o]) /\ backlog[o][At(o, j)] = backlog[m][At(m, i)]
      BY <1>7, <2>2
    <3>2. o = m /\ At(o, j) = At(m, i)
      BY <3>1, <1>10 DEF ConnInv
    <3> QED
      BY <3>2, <1>8
  <2>3. /\ \A fd \in Live : clients[fd].conn <= made'
        /\ \A f, g \in Live : clients[f].conn = clients[g].conn => f = g
    BY <1>1, <1>10 DEF ConnInv
  <2> QED
    BY <1>9, <2>1, <2>2, <2>3 DEF ConnInv
<1>12. PendingInv'
  <2> SUFFICES ASSUME NEW i \in 1 .. Len(Pending)
               PROVE  /\ Pending[i].fd \in Fd \ Live
                      /\ Pending[i].conn \in 1 .. made'
                      /\ \A fd \in Live : clients[fd].conn # Pending[i].conn
                      /\ \A m \in Listener : \A j \in 1 .. Len(backlog'[m]) : backlog'[m][j] # Pending[i].conn
                      /\ \A j \in 1 .. Len(Pending) :
                             Pending[j].fd = Pending[i].fd \/ Pending[j].conn = Pending[i].conn => j = i
    BY <1>9 DEF PendingInv, NewSockets
  <2>1. /\ Pending[i].fd \in Fd \ Live
        /\ Pending[i].conn \in 1 .. made'
        /\ \A fd \in Live : clients[fd].conn # Pending[i].conn
        /\ \A m \in Listener : \A j \in 1 .. Len(backlog[m]) : backlog[m][j] # Pending[i].conn
        /\ \A j \in 1 .. Len(Pending) :
               Pending[j].fd = Pending[i].fd \/ Pending[j].conn = Pending[i].conn => j = i
    BY <1>1, <1>10 DEF PendingInv, NewSockets
  <2>2. ASSUME NEW m \in Listener, NEW j \in 1 .. Len(backlog'[m]) PROVE backlog'[m][j] # Pending[i].conn
    <3>1. At(m, j) \in 1 .. Len(backlog[m]) /\ backlog'[m][j] = backlog[m][At(m, j)]
      BY <1>7
    <3>2. backlog[m][At(m, j)] # Pending[i].conn
      BY <2>1, <3>1, Zenon
    <3> QED
      BY <3>1, <3>2
  <2> QED
    BY <2>1, <2>2
<1> QED
  BY <1>1, <1>2, <1>5, <1>11, <1>12, BacklogStep

\* One of the accepted sockets becomes a session; no other handler is waiting.
LEMMA AddKeeps ==
    ASSUME ServerInv, NEW l \in Listener, NEW sockets \in Seq(Accepted) \ {<< >>},
           \A i \in 1 .. Len(stack) : stack[i].kind = "accept" /\ stack[i].listen = l,
           NewSockets(sockets, backlog'), AddNewConn(<< >>, l, sockets),
           backlog' \in [Listener -> Seq(Nat)],
           \A m \in Listener : backlog'[m] = backlog[m] \/ backlog'[m] = << >>,
           conns' \in [Listener -> 0 .. CounterMod - 1], conns'[l] = Cardinality(Sessions(l)),
           \A m \in Listener : m # l => conns'[m] = conns[m],
           interest[l] = {} => MaxConns[l] > 0 /\ Cardinality(Sessions(l)) >= MaxConns[l],
           UNCHANGED <<rbPool, wbPool, loop, stop, calls, made, peer>>, events' \in Seq(Event)
    PROVE  ServerInv'
<1> DEFINE s == sockets[1]
           new == [conn |-> s.conn, listen |-> l, rb |-> << >>, wb |-> << >>]
           frame == Frame("accept", s.fd, s.conn, l, Tail(sockets))
<1>1. Len(sockets) \in Nat \ {0} /\ 1 \in 1 .. Len(sockets) /\ s \in Accepted
  BY EmptySeq, LenProperties, ElementOfSeq
<1>2. /\ s.fd \in Fd /\ s.fd \notin Live /\ s.conn \in 1 .. made /\ \A fd \in Live : clients[fd].conn # s.conn
      /\ \A m \in Listener : \A j \in 1 .. Len(backlog'[m]) : backlog'[m][j] # s.conn
      /\ \A j \in 1 .. Len(sockets) : sockets[j].fd = s.fd \/ sockets[j].conn = s.conn => j = 1
  BY <1>1, Zenon DEF NewSockets
<1>3. s.conn \in Conn /\ s.conn \in Nat /\ made \in Nat /\ s.fd \in Nat /\ s.fd \notin Listener
  <2>1. s.conn \in Conn
    BY <1>1 DEF Accepted
  <2>2. made \in Nat
    BY ServerAssumption DEF ServerInv, TypeInv
  <2>3. s.conn \in Nat
    BY <2>1, ServerAssumption DEF Conn
  <2>4. s.fd \in Nat /\ s.fd \notin Listener
    BY <1>2, ServerAssumption
  <2> QED
    BY <2>1, <2>2, <2>3, <2>4
<1>4. new \in Session
  <2>1. << >> \in Seq(Buffer)
    OBVIOUS
  <2> QED
    BY <2>1, <1>3 DEF Session
<1>5. /\ Tail(sockets) \in Seq(Accepted) /\ Len(Tail(sockets)) = Len(sockets) - 1
      /\ \A i \in 1 .. Len(Tail(sockets)) : Tail(sockets)[i] = sockets[i + 1]
  BY HeadTailProperties
<1>6. frame \in FrameSet /\ frame.kind = "accept" /\ frame.listen = l /\ frame.rest = Tail(sockets)
  BY <1>3, <1>5 DEF Frame, FrameSet
<1>7. /\ clients' = [fd \in Live \cup {s.fd} |-> IF fd = s.fd THEN new ELSE clients[fd]]
      /\ interest' = AddConn(interest, s.fd, {})
      /\ stack' = Append(<< >>, frame)
  BY Zenon DEF AddNewConn
<1>8. /\ Live' = Live \cup {s.fd} /\ clients'[s.fd] = new
      /\ \A fd \in Live : clients'[fd] = clients[fd] /\ fd # s.fd
  BY <1>2, <1>7 DEF Live
<1>9. clients'[s.fd].conn = s.conn /\ clients'[s.fd].listen = l /\ clients'[s.fd].rb = << >> /\ clients'[s.fd].wb = << >>
  BY <1>8
<1>10. stack' \in Seq(FrameSet) /\ Len(stack') = 1 /\ stack'[1] = frame /\ stack' # << >> /\ DOMAIN stack' = {1}
  <2> HIDE DEF frame
  <2>1. << >> \in Seq(FrameSet) /\ Len(<< >>) = 0
    OBVIOUS
  <2>2. /\ Append(<< >>, frame) \in Seq(FrameSet) /\ Len(Append(<< >>, frame)) = Len(<< >>) + 1
        /\ Append(<< >>, frame)[Len(<< >>) + 1] = frame
    BY <1>6, <2>1, AppendProperties
  <2>3. stack' \in Seq(FrameSet) /\ Len(stack') = 1 /\ stack'[1] = frame
    BY <1>7, <2>1, <2>2
  <2>4. DOMAIN stack' = 1 .. 1
    BY <2>3, LenProperties
  <2>5. 1 .. 1 = {1}
    OBVIOUS
  <2>6. stack' # << >>
    <3>1. Len(stack') # 0
      BY <2>3
    <3> QED
      BY <2>1, <3>1, Zenon
  <2> QED
    BY <2>3, <2>4, <2>5, <2>6, Zenon
<1>11. interest[s.fd] = {} /\ interest \in [Listener \cup Fd -> SUBSET Conditions]
  BY <1>2 DEF ServerInv, InterestInv, TypeInv
<1>12. interest' = [interest EXCEPT ![s.fd] = {"rdhup"}]
  BY <1>7, <1>11 DEF AddConn
<1>13. /\ interest' \in [Listener \cup Fd -> SUBSET Conditions] /\ interest'[s.fd] = {"rdhup"}
       /\ \A x \in Listener \cup Fd : x # s.fd => interest'[x] = interest[x]
  BY <1>2, <1>11, <1>12 DEF Conditions
<1> HIDE DEF s, new, frame
<1>14. TypeInv /\ ChainInv /\ FrameInv /\ ConnInv /\ InterestInv /\ CountInv /\ BuffersInOnePlace
  BY DEF ServerInv
<1>15. stack \in Seq(FrameSet) /\ DOMAIN stack = 1 .. Len(stack) /\ DOMAIN stack \subseteq Nat
  BY <1>14, LenProperties DEF TypeInv
<1>16. TypeInv'
  <2>1. clients' \in [Live \cup {s.fd} -> Session]
    BY <1>4, <1>7, <1>8, <1>14 DEF TypeInv
  <2> QED
    BY <1>2, <1>8, <1>10, <1>13, <1>14, <2>1 DEF TypeInv
<1>17. FrameInv'
  <2> SUFFICES ASSUME NEW i \in 1 .. Len(stack')
               PROVE  /\ i > 1 => stack'[i].kind = "close"
                      /\ stack'[i].kind = "accept" => stack'[i].listen \in Listener /\ stack'[i].rest \in Seq(Accepted)
                      /\ stack'[i].kind \notin {"read", "write", "close", "error"}
    BY DEF FrameInv
  <2>1. i = 1 /\ stack'[i] = frame
    BY <1>10
  <2>2. stack'[i].kind = "accept" /\ stack'[i].listen = l /\ stack'[i].rest \in Seq(Accepted)
    BY <1>5, <1>6, <2>1
  <2>3. ~ (i > 1)
    BY <2>1
  <2> QED
    BY <2>2, <2>3
<1>18. ChainInv'
  <2>1. Fits(<< >>)
    BY DEF Fits
  <2>2. \A fd \in Live' : Fits(clients'[fd].rb)
    BY <1>8, <1>9, <1>14, <2>1 DEF ChainInv
  <2> QED
    BY <2>2 DEF ChainInv, Fits
<1>19. \A m \in Listener : \A i \in 1 .. Len(backlog'[m]) : i \in 1 .. Len(backlog[m]) /\ backlog'[m][i] = backlog[m][i]
  <2>1. ASSUME NEW m \in Listener, NEW i \in 1 .. Len(backlog'[m]) PROVE i \in 1 .. Len(backlog[m]) /\ backlog'[m][i] = backlog[m][i]
    <3>1. CASE backlog'[m] = backlog[m]
      BY <2>1, <3>1
    <3>2. CASE backlog'[m] = << >>
      <4>1. Len(backlog'[m]) = 0
        BY <3>2
      <4> QED
        BY <2>1, <4>1
    <3> QED
      BY <3>1, <3>2
  <2> QED
    BY <2>1
<1>20. ConnInv'
  <2>1. \A fd \in Live' : clients'[fd].conn <= made'
    <3>1. made' = made /\ s.conn <= made /\ \A fd \in Live : clients[fd].conn <= made
      BY <1>2, <1>3, <1>14 DEF ConnInv
    <3>2. ASSUME NEW fd \in Live' PROVE clients'[fd].conn <= made
      <4>1. CASE fd = s.fd
        BY <1>9, <3>1, <4>1, Zenon
      <4>2. CASE fd # s.fd
        <5>1. fd \in Live /\ clients'[fd] = clients[fd]
          BY <1>8, <4>2
        <5> QED
          BY <3>1, <5>1, Zenon
      <4> QED
        BY <4>1, <4>2
    <3> QED
      BY <3>1, <3>2, Zenon
  <2>2. \A f, g \in Live' : clients'[f].conn = clients'[g].conn => f = g
    <3>1. \A f, g \in Live : clients[f].conn = clients[g].conn => f = g
      BY <1>14 DEF ConnInv
    <3>2. \A f \in Live : clients'[f].conn = clients[f].conn /\ clients[f].conn # s.conn
      BY <1>2, <1>8
    <3> QED
      BY <1>8, <1>9, <3>1, <3>2
  <2>3. ASSUME NEW m \in Listener, NEW i \in 1 .. Len(backlog'[m])
        PROVE  /\ backlog'[m][i] \in 1 .. made'
               /\ \A fd \in Live' : clients'[fd].conn # backlog'[m][i]
               /\ \A o \in Listener : \A j \in 1 .. Len(backlog'[o]) : backlog'[o][j] = backlog'[m][i] => o = m /\ j = i
    <3>1. i \in 1 .. Len(backlog[m]) /\ backlog'[m][i] = backlog[m][i]
      BY <1>19
    <3>2. /\ backlog[m][i] \in 1 .. made
          /\ \A fd \in Live : clients[fd].conn # backlog[m][i]
          /\ \A o \in Listener : \A j \in 1 .. Len(backlog[o]) : backlog[o][j] = backlog[m][i] => o = m /\ j = i
      BY <1>14, <3>1 DEF ConnInv
    <3>3. backlog'[m][i] # s.conn
      BY <1>2
    <3>4. \A fd \in Live' : clients'[fd].conn # backlog'[m][i]
      BY <1>8, <1>9, <3>1, <3>2, <3>3
    <3>5. ASSUME NEW o \in Listener, NEW j \in 1 .. Len(backlog'[o]), backlog'[o][j] = backlog'[m][i] PROVE o = m /\ j = i
      <4>1. j \in 1 .. Len(backlog[o]) /\ backlog'[o][j] = backlog[o][j]
        BY <1>19
      <4> QED
        BY <3>1, <3>2, <3>5, <4>1
    <3> QED
      BY <3>1, <3>2, <3>4, <3>5
  <2> QED
    BY <2>1, <2>2, <2>3 DEF ConnInv
<1>21. PendingInv'
  <2>0. PICK tail : /\ tail = Tail(sockets) /\ Len(tail) = Len(sockets) - 1
                    /\ \A i \in 1 .. Len(tail) : tail[i] = sockets[i + 1]
    BY <1>5
  <2>1. Pending' = tail
    BY <1>6, <1>10, <2>0 DEF Pending
  <2>2. ASSUME NEW i \in 1 .. Len(tail)
        PROVE  /\ tail[i].fd \in Fd \ Live'
               /\ tail[i].conn \in 1 .. made'
               /\ \A fd \in Live' : clients'[fd].conn # tail[i].conn
               /\ \A m \in Listener : \A j \in 1 .. Len(backlog'[m]) : backlog'[m][j] # tail[i].conn
               /\ \A j \in 1 .. Len(tail) :
                      tail[j].fd = tail[i].fd \/ tail[j].conn = tail[i].conn => j = i
    <3>1. i + 1 \in 1 .. Len(sockets) /\ i + 1 # 1 /\ tail[i] = sockets[i + 1]
      BY <1>1, <2>0
    <3>2. /\ sockets[i + 1].fd \in Fd \ Live
          /\ sockets[i + 1].conn \in 1 .. made
          /\ \A fd \in Live : clients[fd].conn # sockets[i + 1].conn
          /\ \A m \in Listener : \A j \in 1 .. Len(backlog'[m]) : backlog'[m][j] # sockets[i + 1].conn
          /\ \A j \in 1 .. Len(sockets) :
                sockets[j].fd = sockets[i + 1].fd \/ sockets[j].conn = sockets[i + 1].conn => j = i + 1
      BY <3>1, Zenon DEF NewSockets
    <3>3. sockets[i + 1].fd # s.fd /\ sockets[i + 1].conn # s.conn
      BY <1>2, <3>1
    <3>4. \A j \in 1 .. Len(tail) : j + 1 \in 1 .. Len(sockets) /\ tail[j] = sockets[j + 1]
      BY <1>1, <2>0
    <3>5. ASSUME NEW j \in 1 .. Len(tail),
                 tail[j].fd = tail[i].fd \/ tail[j].conn = tail[i].conn
          PROVE  j = i
      <4>1. j + 1 = i + 1
        BY <3>1, <3>2, <3>4, <3>5
      <4> QED
        BY <4>1
    <3>6. \A fd \in Live' : clients'[fd].conn # sockets[i + 1].conn
      BY <1>8, <1>9, <3>2, <3>3
    <3>7. tail[i].fd \in Fd \ Live'
      BY <1>8, <3>1, <3>2, <3>3
    <3>8. tail[i].conn \in 1 .. made'
      BY <1>8, <3>1, <3>2
    <3>9. \A m \in Listener : \A j \in 1 .. Len(backlog'[m]) : backlog'[m][j] # tail[i].conn
      BY <1>8, <3>1, <3>2
    <3> QED
      BY <3>1, <3>5, <3>6, <3>7, <3>8, <3>9, Zenon
  <2> QED
    BY <2>1, <2>2 DEF PendingInv, NewSockets
<1>22. \A fd : ~Closing(fd) /\ ~Closing(fd)'
  BY <1>6, <1>10, <1>15 DEF Closing
<1>23. InterestInv'
  <2>1. \A x \in Listener \cup Fd : interest'[x] # {} => "rdhup" \in interest'[x]
    BY <1>13, <1>14 DEF InterestInv
  <2>2. \A fd \in Fd \ Live' : interest'[fd] = {}
    BY <1>8, <1>13, <1>14 DEF InterestInv
  <2>3. ASSUME NEW fd \in Live'
        PROVE  /\ interest'[fd] # {}
               /\ "out" \in interest'[fd] <=> clients'[fd].wb # << >>
               /\ "in" \in interest'[fd] => clients'[fd].rb # << >>
               /\ clients'[fd].rb # << >> /\ "in" \notin interest'[fd] => peer'[clients'[fd].conn].fin
    <3>1. CASE fd = s.fd
      BY <1>9, <1>13, <3>1
    <3>2. CASE fd # s.fd
      <4>1. fd \in Live /\ fd \in Listener \cup Fd
        BY <1>8, <3>2, <1>14 DEF TypeInv
      <4>2. interest'[fd] = interest[fd] /\ clients'[fd] = clients[fd]
        BY <1>8, <1>13, <3>2, <4>1
      <4> QED
        BY <1>14, <1>22, <4>1, <4>2 DEF InterestInv, InterestMatches
    <3> QED
      BY <3>1, <3>2
  <2> QED
    BY <1>22, <2>1, <2>2, <2>3 DEF InterestInv, InterestMatches
<1>24. CountInv'
  <2> DEFINE n == Cardinality(Sessions(l))
  <2>1. IsFiniteSet(Sessions(l)) /\ n \in Nat
    BY <1>14, SessionsFew
  <2>2. Sessions(l)' = Sessions(l) \cup {s.fd} /\ \A m \in Listener : m # l => Sessions(m)' = Sessions(m)
    BY <1>8, <1>9 DEF Sessions
  <2>3. s.fd \notin Sessions(l)
    BY <1>2 DEF Sessions
  <2>4. Cardinality(Sessions(l)') = n + 1
    BY <2>1, <2>2, <2>3, FS_AddElement
  <2>5. Accepting(l)' /\ \A m : m # l => ~Accepting(m)' /\ ~Accepting(m)
    BY <1>6, <1>10, <1>15 DEF Accepting
  <2>6. \A m \in Listener : interest'[m] = interest[m]
    BY <1>3, <1>13
  <2>7. ASSUME NEW m \in Listener
        PROVE  IF Accepting(m)'
               THEN /\ conns'[m] = IF Cardinality(Sessions(m)') = 0 THEN CounterMod - 1 ELSE Cardinality(Sessions(m)') - 1
                    /\ interest'[m] = {} => MaxConns[m] > 0 /\ Cardinality(Sessions(m)') - 1 >= MaxConns[m]
               ELSE /\ conns'[m] = Cardinality(Sessions(m)')
                    /\ interest'[m] # {} <=> MaxConns[m] = 0 \/ Cardinality(Sessions(m)') < MaxConns[m]
    <3>1. CASE m = l
      <4>1. Cardinality(Sessions(m)') # 0 /\ Cardinality(Sessions(m)') - 1 = n
        <5>1. Cardinality(Sessions(m)') = n + 1
          BY <2>4, <3>1
        <5> HIDE DEF n
        <5> QED
          BY <2>1, <5>1
      <4> QED
        BY <2>5, <2>6, <3>1, <4>1
    <3>2. CASE m # l
      <4>1. /\ conns[m] = Cardinality(Sessions(m))
            /\ interest[m] # {} <=> MaxConns[m] = 0 \/ Cardinality(Sessions(m)) < MaxConns[m]
        BY <1>14, <2>5, <3>2 DEF CountInv
      <4> QED
        BY <2>2, <2>5, <2>6, <3>2, <4>1
    <3> QED
      BY <3>1, <3>2
  <2> QED
    BY <2>7, Zenon DEF CountInv
<1>25. BuffersInOnePlace'
  <2>1. SameHandlers("read") /\ SameHandlers("write")
    BY <1>6, <1>10, <1>15 DEF SameHandlers
  <2> QED
    BY <1>8, <1>9, <1>14, <1>16, <1>17, <2>1, BuffersKept
<1> QED
  BY <1>16, <1>17, <1>18, <1>20, <1>21, <1>23, <1>24, <1>25 DEF ServerInv

\* The lowest descriptors are different ones.
LEMMA LowestApart ==
    ASSUME NEW fds, fds \subseteq Nat, NEW n \in Nat, NEW f \in Lowest(fds, n)
    PROVE  f \in [1 .. n -> fds] /\ \A i, j \in 1 .. n : f[i] = f[j] => i = j
<1>1. /\ f \in [1 .. n -> fds]
      /\ \A i \in 1 .. n : {x \in fds : x < f[i]} = {f[j] : j \in 1 .. i - 1}
  BY DEF Lowest
<1>2. ASSUME NEW i \in 1 .. n, NEW j \in 1 .. n, i < j PROVE f[i] # f[j]
  <2>1. i \in 1 .. j - 1
    BY <1>2
  <2>2. f[i] \in {x \in fds : x < f[j]}
    BY <1>1, <2>1, Zenon
  <2>3. f[i] \in Nat /\ f[j] \in Nat /\ f[i] < f[j]
    BY <1>1, <2>2
  <2> QED
    BY <2>3
<1>3. ASSUME NEW i \in 1 .. n, NEW j \in 1 .. n, f[i] = f[j] PROVE i = j
  <2>1. ~ (i < j) /\ ~ (j < i)
    BY <1>2, <1>3
  <2> QED
    BY <2>1
<1> QED
  BY <1>1, <1>3

\* The event at the head of the batch and the rest of the batch.
LEMMA NextEvent ==
    ASSUME TypeInv, events # << >>
    PROVE  /\ Head(events) \in Event /\ Tail(events) \in Seq(Event)
           /\ Head(events).ev = "CFEV_ACCEPT" => NextFd \in Listener
           /\ Head(events).ev # "CFEV_ACCEPT" => NextFd \in Fd
<1>1. Head(events) \in Event /\ Tail(events) \in Seq(Event)
  BY HeadTailProperties DEF TypeInv
<1> QED
  BY <1>1 DEF Event, NextFd

\* What AcceptAsync brings: sockets for all connections of l that wait, each with a free descriptor.
LEMMA AcceptsAll ==
    ASSUME TypeInv, ConnInv, stack = << >>, NEW l \in Listener, backlog[l] # << >>,
           NEW free \in Lowest(Fd \ Live, Len(backlog[l])),
           AddNewConn(stack, l, [i \in DOMAIN backlog[l] |-> [fd |-> free[i], conn |-> backlog[l][i]]]),
           backlog' = [backlog EXCEPT ![l] = << >>]
    PROVE  \E sockets \in Seq(Accepted) \ {<< >>} :
              /\ NewSockets(sockets, backlog') /\ AddNewConn(<< >>, l, sockets)
              /\ backlog' \in [Listener -> Seq(Nat)] /\ backlog'[l] = << >>
              /\ \A m \in Listener : m # l => backlog'[m] = backlog[m]
              /\ Len(sockets) = Len(backlog[l]) /\ \A i \in 1 .. Len(backlog[l]) : sockets[i].conn = backlog[l][i]
<1> DEFINE n == Len(backlog[l])
           sockets == [i \in DOMAIN backlog[l] |-> [fd |-> free[i], conn |-> backlog[l][i]]]
<1>1. backlog \in [Listener -> Seq(Nat)] /\ backlog[l] \in Seq(Nat) /\ n \in Nat \ {0} /\ DOMAIN backlog[l] = 1 .. n
  <2>1. backlog \in [Listener -> Seq(Nat)]
    BY DEF TypeInv
  <2>2. backlog[l] \in Seq(Nat)
    BY <2>1
  <2>3. n \in Nat /\ DOMAIN backlog[l] = 1 .. n
    BY <2>2, LenProperties
  <2>4. n # 0
    BY <2>2, EmptySeq
  <2> QED
    BY <2>1, <2>2, <2>3, <2>4
<1>2. backlog' \in [Listener -> Seq(Nat)] /\ backlog'[l] = << >> /\ \A m \in Listener : m # l => backlog'[m] = backlog[m]
  BY <1>1
<1>3. free \in [1 .. n -> Fd \ Live] /\ \A i, j \in 1 .. n : free[i] = free[j] => i = j
  <2>1. Fd \ Live \subseteq Nat
    BY ServerAssumption
  <2>2. n \in Nat /\ free \in Lowest(Fd \ Live, n)
    BY <1>1, Zenon
  <2> QED
    BY <2>1, <2>2, LowestApart, Zenon
<1>4. \A i \in 1 .. n : /\ backlog[l][i] \in 1 .. made
                        /\ \A fd \in Live : clients[fd].conn # backlog[l][i]
                        /\ \A m \in Listener : \A j \in 1 .. Len(backlog[m]) : backlog[m][j] = backlog[l][i] => m = l /\ j = i
  BY DEF ConnInv
<1>5. made \in Nat /\ 1 .. made \subseteq Conn
  BY ServerAssumption DEF TypeInv, Conn
<1>6. /\ sockets \in Seq(Accepted) /\ Len(sockets) = n /\ sockets # << >>
      /\ \A i \in 1 .. n : sockets[i].fd = free[i] /\ sockets[i].conn = backlog[l][i]
  <2>1. sockets = [i \in 1 .. n |-> [fd |-> free[i], conn |-> backlog[l][i]]]
    BY <1>1
  <2>2. \A i \in 1 .. n : [fd |-> free[i], conn |-> backlog[l][i]] \in Accepted
    BY <1>3, <1>4, <1>5 DEF Accepted
  <2>3. sockets \in [1 .. n -> Accepted]
    BY <2>1, <2>2
  <2>4. \A i \in 1 .. n : sockets[i].fd = free[i] /\ sockets[i].conn = backlog[l][i]
    BY <2>1
  <2> HIDE DEF sockets
  <2>5. sockets \in Seq(Accepted)
    <3>1. n \in Nat
      BY <1>1
    <3> HIDE DEF n
    <3> QED
      BY <2>3, <3>1
  <2>6. Len(sockets) = n
    BY <1>1, <2>3, <2>5, LenProperties
  <2> QED
    BY <1>1, <2>4, <2>5, <2>6, EmptySeq
<1>7. NewSockets(sockets, backlog')
  <2> SUFFICES ASSUME NEW i \in 1 .. n
               PROVE  /\ sockets[i].fd \in Fd \ Live
                      /\ sockets[i].conn \in 1 .. made
                      /\ \A fd \in Live : clients[fd].conn # sockets[i].conn
                      /\ \A m \in Listener : \A j \in 1 .. Len(backlog'[m]) : backlog'[m][j] # sockets[i].conn
                      /\ \A j \in 1 .. n :
                            sockets[j].fd = sockets[i].fd \/ sockets[j].conn = sockets[i].conn => j = i
    <3> HIDE DEF sockets
    <3> QED
      BY <1>6 DEF NewSockets
  <2> HIDE DEF sockets
  <2>1. sockets[i].fd = free[i] /\ sockets[i].conn = backlog[l][i]
    BY <1>6
  <2>2. /\ backlog[l][i] \in 1 .. made
        /\ \A fd \in Live : clients[fd].conn # backlog[l][i]
    BY <1>4
  <2>3. ASSUME NEW m \in Listener, NEW j \in 1 .. Len(backlog'[m]) PROVE backlog'[m][j] # backlog[l][i]
    <3>1. m # l
      <4>1. Len(<< >>) = 0 /\ 1 .. 0 = {}
        OBVIOUS
      <4> QED
        BY <1>2, <4>1, <2>3
    <3>2. backlog'[m] = backlog[m]
      BY <1>2, <3>1
    <3> QED
      BY <1>4, <3>1, <3>2
  <2>4. ASSUME NEW j \in 1 .. n, sockets[j].fd = sockets[i].fd \/ sockets[j].conn = sockets[i].conn PROVE j = i
    <3>1. sockets[j].fd = free[j] /\ sockets[j].conn = backlog[l][j]
      BY <1>6
    <3> QED
      BY <1>3, <1>4, <2>1, <2>4, <3>1
  <2> QED
    BY <1>3, <2>1, <2>2, <2>3, <2>4
<1>8. AddNewConn(<< >>, l, sockets)
  OBVIOUS
<1> HIDE DEF sockets
<1> QED
  BY <1>2, <1>6, <1>7, <1>8

\* OnAccept keeps the invariant: the whole backlog is taken and the first socket becomes a
\* session.
LEMMA OnAcceptKeeps == ASSUME ServerInv, OnAccept PROVE ServerInv'
<1> DEFINE l == NextFd
<1>1. /\ stack = << >> /\ events # << >> /\ Head(events).ev = "CFEV_ACCEPT"
      /\ events' = Tail(events) /\ UNCHANGED <<conns, rbPool, wbPool, loop, stop, calls, made, peer>>
  BY DEF OnAccept, NextIs, Idle
<1>2. TypeInv /\ ConnInv /\ CountInv
  BY DEF ServerInv
<1>3. l \in Listener /\ events' \in Seq(Event)
  BY <1>1, <1>2, NextEvent
<1>4. CASE backlog[l] = << >> /\ UNCHANGED <<clients, interest, stack, backlog>>
  <2>1. /\ loop' \in {"run", "stopped", "interrupted", "threw"} /\ stop' \in BOOLEAN /\ calls' \in Nat
        /\ peer' \in [Conn -> PeerSet] /\ \A c \in Conn : peer'[c].taken <= peer'[c].sent
        /\ \A c \in Conn : peer[c].fin => peer'[c].fin
    BY <1>1, <1>2 DEF TypeInv
  <2>2. UNCHANGED <<serverVars, stack, backlog, made>>
    BY <1>1, <1>4 DEF serverVars
  <2> QED
    BY <1>3, <2>1, <2>2, QuietStep
<1>5. CASE /\ backlog[l] # << >>
           /\ \E free \in Lowest(Fd \ Live, Len(backlog[l])) :
                AddNewConn(stack, l, [i \in DOMAIN backlog[l] |-> [fd |-> free[i], conn |-> backlog[l][i]]])
           /\ backlog' = [backlog EXCEPT ![l] = << >>]
  <2>1. PICK free \in Lowest(Fd \ Live, Len(backlog[l])) :
                AddNewConn(stack, l, [i \in DOMAIN backlog[l] |-> [fd |-> free[i], conn |-> backlog[l][i]]])
    BY <1>5
  <2> HIDE DEF l
  <2>2. PICK sockets \in Seq(Accepted) \ {<< >>} :
              /\ NewSockets(sockets, backlog') /\ AddNewConn(<< >>, l, sockets)
              /\ backlog' \in [Listener -> Seq(Nat)] /\ backlog'[l] = << >>
              /\ \A m \in Listener : m # l => backlog'[m] = backlog[m]
    BY <1>1, <1>2, <1>3, <1>5, <2>1, AcceptsAll
  <2>3. \A m \in Listener : backlog'[m] = backlog[m] \/ backlog'[m] = << >>
    BY <2>2
  <2>4. ~Accepting(l)
    <3>1. DOMAIN stack = {}
      BY <1>1
    <3> QED
      BY <3>1 DEF Accepting
  <2>5. /\ conns[l] = Cardinality(Sessions(l))
        /\ interest[l] # {} <=> MaxConns[l] = 0 \/ Cardinality(Sessions(l)) < MaxConns[l]
    BY <1>2, <1>3, <2>4 DEF CountInv
  <2>6. interest[l] = {} => MaxConns[l] > 0 /\ Cardinality(Sessions(l)) >= MaxConns[l]
    <3>1. MaxConns[l] \in Nat
      BY <1>3, ServerAssumption
    <3>2. Cardinality(Sessions(l)) \in 0 .. CounterMod - 1
      BY <1>2, <1>3, SessionsFew
    <3>3. Cardinality(Sessions(l)) \in Nat
      BY <3>2, ServerAssumption
    <3> QED
      BY <2>5, <3>1, <3>3
  <2>7. conns' \in [Listener -> 0 .. CounterMod - 1] /\ conns' = conns /\ conns'[l] = Cardinality(Sessions(l))
    BY <1>1, <1>2, <2>5 DEF TypeInv
  <2>8. \A i \in 1 .. Len(stack) : stack[i].kind = "accept" /\ stack[i].listen = l
    <3>1. Len(<< >>) = 0 /\ 1 .. 0 = {}
      OBVIOUS
    <3> QED
      BY <1>1, <3>1
  <2>9. UNCHANGED <<rbPool, wbPool, loop, stop, calls, made, peer>>
    BY <1>1
  <2> QED
    BY <1>3, <2>2, <2>3, <2>5, <2>6, <2>7, <2>8, <2>9, AddKeeps
<1> QED
  BY <1>4, <1>5 DEF OnAccept

\* The innermost handler is the only one, unless AsyncClose called it.
LEMMA OnlyHandler ==
    ASSUME TypeInv, FrameInv, stack # << >>, Top.kind # "close"
    PROVE  Len(stack) = 1 /\ Top = stack[1]
<1>1. Len(stack) \in Nat \ {0} /\ Top = stack[Len(stack)] /\ Len(stack) \in 1 .. Len(stack)
  BY StackTop DEF TypeInv
<1>2. Len(stack) > 1 => stack[Len(stack)].kind = "close"
  BY <1>1 DEF FrameInv
<1>3. ~ (Len(stack) > 1)
  BY <1>1, <1>2
<1>4. \A k \in Nat \ {0} : ~ (k > 1) => k = 1
  OBVIOUS
<1>5. Len(stack) = 1
  BY <1>1, <1>3, <1>4, Zenon
<1> QED
  BY <1>1, <1>5

\* The return from OnAcceptComplete keeps the invariant: the session is counted, and the
\* next one is added or the limit is looked at.
LEMMA AcceptReturnsKeeps == ASSUME ServerInv, AcceptReturns PROVE ServerInv'
<1> DEFINE l == Top.listen
           n == Cardinality(Sessions(l))
<1>1. /\ stack # << >> /\ Top.kind = "accept" /\ conns' = [conns EXCEPT ![l] = (conns[l] + 1) % CounterMod]
      /\ UNCHANGED <<rbPool, wbPool, events, loop, stop, calls, backlog, made, peer>>
  BY DEF AcceptReturns
<1>2. TypeInv /\ ChainInv /\ FrameInv /\ ConnInv /\ PendingInv /\ InterestInv /\ CountInv /\ BuffersInOnePlace
  BY DEF ServerInv
<1>3. stack \in Seq(FrameSet) /\ events \in Seq(Event) /\ backlog \in [Listener -> Seq(Nat)]
  BY <1>2 DEF TypeInv
<1>4. Len(stack) = 1 /\ Top = stack[1] /\ l \in Listener /\ Top.rest \in Seq(Accepted)
  <2>1. Len(stack) = 1 /\ Top = stack[1]
    BY <1>1, <1>2, OnlyHandler
  <2>2. stack[1].kind = "accept" => stack[1].listen \in Listener /\ stack[1].rest \in Seq(Accepted)
    BY <1>2, <2>1 DEF FrameInv
  <2> QED
    BY <1>1, <2>1, <2>2
<1>5. Front(stack) = << >>
  <2>1. Front(stack) \in Seq(FrameSet) /\ Len(Front(stack)) = 0
    BY <1>1, <1>3, <1>4, StackTop
  <2> QED
    BY <2>1, EmptySeq
<1>6. Pending = Top.rest
  BY <1>1, <1>4 DEF Pending
<1>7. DOMAIN stack = {1}
  <2>1. DOMAIN stack = 1 .. 1
    BY <1>3, <1>4, LenProperties
  <2> QED
    BY <2>1
<1>8. Accepting(l) /\ (\A m : m # l => ~Accepting(m)) /\ \A fd : ~Closing(fd)
  BY <1>1, <1>4, <1>7 DEF Accepting, Closing
<1>9. /\ conns[l] = IF n = 0 THEN CounterMod - 1 ELSE n - 1
      /\ interest[l] = {} => MaxConns[l] > 0 /\ n - 1 >= MaxConns[l]
  BY <1>2, <1>4, <1>8 DEF CountInv
<1>10. n \in 0 .. CounterMod - 1
  BY <1>2, <1>4, SessionsFew
<1>11. conns \in [Listener -> 0 .. CounterMod - 1] /\ CounterMod \in Nat /\ MaxConns[l] \in Nat
  BY <1>2, <1>4, ServerAssumption DEF TypeInv
<1>12. (conns[l] + 1) % CounterMod = n
  <2>1. conns[l] \in 0 .. CounterMod - 1
    BY <1>4, <1>11
  <2>2. (conns[l] + 1) % CounterMod = IF conns[l] = CounterMod - 1 THEN 0 ELSE conns[l] + 1
    BY <2>1, ModSteps
  <2> HIDE DEF n
  <2> QED
    BY <2>2, <1>9, <1>10, <1>11
<1>13. /\ conns' \in [Listener -> 0 .. CounterMod - 1] /\ conns'[l] = n
       /\ \A m \in Listener : m # l => conns'[m] = conns[m]
  <2> HIDE DEF n, l
  <2> QED
    BY <1>1, <1>4, <1>10, <1>11, <1>12
<1>14. CASE Top.rest # << >> /\ AddNewConn(Front(stack), l, Top.rest)
  <2>1. Top.rest \in Seq(Accepted) \ {<< >>} /\ AddNewConn(<< >>, l, Top.rest)
    BY <1>4, <1>5, <1>14
  <2>2. NewSockets(Top.rest, backlog')
    BY <1>1, <1>2, <1>6 DEF PendingInv
  <2>3. \A i \in 1 .. Len(stack) : stack[i].kind = "accept" /\ stack[i].listen = l
    BY <1>1, <1>4
  <2>4. interest[l] = {} => MaxConns[l] > 0 /\ n >= MaxConns[l]
    <3> HIDE DEF n
    <3> QED
      BY <1>9, <1>10, <1>11
  <2>5. /\ backlog' \in [Listener -> Seq(Nat)] /\ \A m \in Listener : backlog'[m] = backlog[m] \/ backlog'[m] = << >>
        /\ events' \in Seq(Event) /\ UNCHANGED <<rbPool, wbPool, loop, stop, calls, made, peer>>
    BY <1>1, <1>3
  <2> QED
    BY <1>4, <1>13, <2>1, <2>2, <2>3, <2>4, <2>5, AddKeeps
<1>15. CASE /\ Top.rest = << >> /\ Pop /\ UNCHANGED clients
            /\ interest' = CheckMaxConnection(interest, l, conns'[l], TRUE)
  <2>1. stack' = << >> /\ DOMAIN stack' = {} /\ Len(stack') = 0
    BY <1>5, <1>15 DEF Pop
  <2>2. Live' = Live /\ Pending' = Pending /\ clients' = clients
    BY <1>6, <1>15, <2>1 DEF Live, Pending
  <2>3. interest \in [Listener \cup Fd -> SUBSET Conditions] /\ l \in Listener \cup Fd
    BY <1>2, <1>4 DEF TypeInv
  <2>4. /\ interest' \in [Listener \cup Fd -> SUBSET Conditions]
        /\ \A x \in Listener \cup Fd : x # l => interest'[x] = interest[x]
        /\ interest'[l] = IF MaxConns[l] > 0 /\ n >= MaxConns[l] THEN {} ELSE interest[l]
    <3>1. interest' = IF MaxConns[l] > 0 /\ n >= MaxConns[l] THEN [interest EXCEPT ![l] = {}] ELSE interest
      BY <1>13, <1>15 DEF CheckMaxConnection, DelConn
    <3> HIDE DEF n, l
    <3> QED
      BY <2>3, <3>1
  <2>5. TypeInv'
    BY <1>1, <1>2, <1>13, <2>1, <2>2, <2>4, EmptySeq DEF TypeInv
  <2>6. ChainInv' /\ FrameInv'
    <3>1. 1 .. 0 = {}
      OBVIOUS
    <3> QED
      BY <1>2, <2>1, <2>2, <3>1 DEF ChainInv, FrameInv
  <2>7. SameSessions
    BY <2>2 DEF SameSessions
  <2>8. ConnInv' /\ PendingInv' /\ \A m : Sessions(m)' = Sessions(m)
    BY <1>1, <1>2, <2>2, <2>7, ConnKeeps
  <2>9. (\A fd : ~Closing(fd)') /\ \A m : ~Accepting(m)'
    BY <2>1 DEF Closing, Accepting
  <2>10. InterestInv'
    <3>1. \A fd \in Fd : fd # l
      BY <1>4, ServerAssumption
    <3>2. \A fd \in Fd : interest'[fd] = interest[fd]
      BY <2>4, <3>1
    <3>3. \A x \in Listener \cup Fd : interest'[x] # {} => "rdhup" \in interest'[x]
      BY <1>2, <2>4 DEF InterestInv
    <3>4. InterestMatches'
      <4>1. \A fd \in Live : fd \in Fd
        BY <1>2 DEF TypeInv
      <4> QED
        BY <1>1, <1>2, <1>8, <2>2, <3>2, <4>1 DEF InterestInv, InterestMatches
    <3> QED
      BY <1>2, <2>2, <2>9, <3>2, <3>3, <3>4 DEF InterestInv
  <2>11. CountInv'
    <3>1. ASSUME NEW m \in Listener
          PROVE  /\ conns'[m] = Cardinality(Sessions(m))
                 /\ interest'[m] # {} <=> MaxConns[m] = 0 \/ Cardinality(Sessions(m)) < MaxConns[m]
      <4>1. CASE m = l
        <5>1. interest'[l] # {} <=> MaxConns[l] = 0 \/ n < MaxConns[l]
          <6> HIDE DEF n
          <6> QED
            BY <1>9, <1>10, <1>11, <2>4
        <5> QED
          BY <4>1, <5>1, <1>13
      <4>2. CASE m # l
        <5>1. /\ conns[m] = Cardinality(Sessions(m))
              /\ interest[m] # {} <=> MaxConns[m] = 0 \/ Cardinality(Sessions(m)) < MaxConns[m]
          BY <1>2, <1>8, <4>2 DEF CountInv
        <5> QED
          BY <1>13, <2>4, <4>2, <5>1
      <4> QED
        BY <4>1, <4>2
    <3> QED
      BY <2>8, <2>9, <3>1, Zenon DEF CountInv
  <2>12. SameHandlers("read") /\ SameHandlers("write")
    BY <1>1, <1>4, <1>7, <2>1 DEF SameHandlers
  <2>13. BuffersInOnePlace'
    BY <1>1, <1>2, <2>2, <2>5, <2>6, <2>12, BuffersKept
  <2> QED
    BY <2>5, <2>6, <2>8, <2>10, <2>11, <2>13 DEF ServerInv
<1> QED
  BY <1>14, <1>15 DEF AcceptReturns

\* The free buffers of a pool are some of all its buffers.
LEMMA PlacedFree ==
    ASSUME NEW pool, NEW handlers, NEW kind, NEW chains, InOnePlace(pool, handlers, kind, chains)
    PROVE  pool.free \subseteq 1 .. pool.all
BY Zenon DEF InOnePlace

\* A pool that buffers are put back into is a pool.
LEMMA PutType ==
    ASSUME NEW pool \in PoolSet, NEW ids, ids \subseteq Nat
    PROVE  PutIntoPool(pool, ids) \in PoolSet
BY DEF PutIntoPool, PoolSet

\* A handler that reads or writes hands its first buffer back and goes on, or returns.
LEMMA HandBack ==
    ASSUME TypeInv, FrameInv, stack # << >>, Top.kind \in {"read", "write"}, Live' = Live,
           IF Len(Top.rest) > 1 THEN stack' = [stack EXCEPT ![Len(stack)].rest = Tail(@)] ELSE Pop
    PROVE  /\ FrameInv' /\ stack' \in Seq(FrameSet) /\ \A kind : kind # Top.kind => SameHandlers(kind)
           /\ Pending' = Pending /\ (\A l : Accepting(l)' <=> Accepting(l)) /\ \A fd : Closing(fd)' <=> Closing(fd)
           /\ Top = stack[Len(stack)] /\ Top.conn \in Conn
           /\ Top.rest \in Seq(Buffer) /\ Top.rest # << >> /\ Top.rest[1] \in Buffer
           /\ \A i \in 1 .. Len(stack) - 1 : stack'[i] = stack[i]
           /\ IF Len(Top.rest) > 1
              THEN Len(stack') = Len(stack) /\ stack'[Len(stack)].kind = Top.kind /\ stack'[Len(stack)].rest = Tail(Top.rest)
              ELSE Len(stack') = Len(stack) - 1
<1>1. stack \in Seq(FrameSet) /\ DOMAIN stack = 1 .. Len(stack)
  BY LenProperties DEF TypeInv
<1>2. Len(stack) \in Nat \ {0} /\ Top = stack[Len(stack)] /\ Len(stack) \in 1 .. Len(stack) /\ Top \in FrameSet
  BY <1>1, StackTop
<1>3. Top.rest \in Seq(Buffer) /\ Top.rest # << >> /\ Top.conn \in Conn
  BY <1>2 DEF FrameInv
<1>4. Top.rest[1] \in Buffer /\ Len(Top.rest) \in Nat \ {0} /\ Tail(Top.rest) \in Seq(Buffer) /\ Len(Tail(Top.rest)) = Len(Top.rest) - 1
  <2>1. Len(Top.rest) \in Nat \ {0}
    BY <1>3, EmptySeq
  <2>2. 1 \in 1 .. Len(Top.rest)
    BY <2>1
  <2> QED
    BY <1>3, <2>1, <2>2, ElementOfSeq, HeadTailProperties
<1>5. CASE Len(Top.rest) > 1
  <2>1. stack' = [stack EXCEPT ![Len(stack)].rest = Tail(Top.rest)]
    BY <1>2, <1>5
  <2> DEFINE rest == Tail(Top.rest)
  <2>2. rest \in Seq(Buffer) /\ rest # << >> /\ stack' = [stack EXCEPT ![Len(stack)].rest = rest]
    <3>1. Len(rest) # 0
      <4>1. \A k \in Nat \ {0} : k > 1 => k - 1 # 0
        OBVIOUS
      <4> QED
        BY <1>4, <1>5, <4>1, Zenon
    <3>2. Len(<< >>) = 0
      OBVIOUS
    <3> QED
      BY <1>4, <2>1, <3>1, <3>2, Zenon
  <2> HIDE DEF rest
  <2>3. /\ stack' \in Seq(FrameSet) /\ Len(stack') = Len(stack)
        /\ \A i \in 1 .. Len(stack) - 1 : stack'[i] = stack[i]
        /\ stack'[Len(stack)] = [Top EXCEPT !.rest = rest]
        /\ Pending' = Pending /\ (\A l : Accepting(l)' <=> Accepting(l)) /\ \A fd : Closing(fd)' <=> Closing(fd)
    BY <1>1, <2>2, RestKeeps
  <2>4. LET f == stack'[Len(stack)] IN
        f.kind = Top.kind /\ f.rest = rest /\ f.conn = Top.conn /\ f.fd = Top.fd
    BY <1>2, <2>3 DEF FrameSet
  <2>5. 1 .. Len(stack) = (1 .. Len(stack) - 1) \cup {Len(stack)} /\ Len(stack) \notin 1 .. Len(stack) - 1
    BY <1>2
  <2>6. ASSUME NEW i \in 1 .. Len(stack)
        PROVE  /\ stack'[i].kind = stack[i].kind /\ stack'[i].fd = stack[i].fd /\ stack'[i].conn = stack[i].conn
               /\ i # Len(stack) => stack'[i] = stack[i]
    BY <1>2, <2>3, <2>4, <2>5
  <2>7. FrameInv'
    <3> SUFFICES ASSUME NEW i \in 1 .. Len(stack')
                 PROVE  /\ i > 1 => stack'[i].kind = "close"
                        /\ stack'[i].kind = "accept" => stack'[i].listen \in Listener /\ stack'[i].rest \in Seq(Accepted)
                        /\ stack'[i].kind \in {"read", "write"} =>
                               stack'[i].rest \in Seq(Buffer) \ {<< >>} /\ stack'[i].conn \in Conn
                        /\ stack'[i].kind \in {"close", "error"} =>
                               /\ stack'[i].fd \in Live'
                               /\ \A j \in 1 .. Len(stack') :
                                      stack'[j].kind \in {"close", "error"} /\ stack'[j].fd = stack'[i].fd => j = i
      BY DEF FrameInv
    <3>1. i \in 1 .. Len(stack)
      BY <2>3
    <3>2. /\ i > 1 => stack[i].kind = "close"
          /\ stack[i].kind = "accept" => stack[i].listen \in Listener /\ stack[i].rest \in Seq(Accepted)
          /\ stack[i].kind \in {"read", "write"} =>
                 stack[i].rest \in Seq(Buffer) \ {<< >>} /\ stack[i].conn \in Conn
          /\ stack[i].kind \in {"close", "error"} =>
                 /\ stack[i].fd \in Live
                 /\ \A j \in 1 .. Len(stack) :
                        stack[j].kind \in {"close", "error"} /\ stack[j].fd = stack[i].fd => j = i
      BY <3>1 DEF FrameInv
    <3>3. stack'[i].kind \in {"close", "error"} =>
             /\ stack'[i].fd \in Live'
             /\ \A j \in 1 .. Len(stack') :
                    stack'[j].kind \in {"close", "error"} /\ stack'[j].fd = stack'[i].fd => j = i
      BY <2>3, <2>6, <3>1, <3>2
    <3>4. CASE i = Len(stack)
      BY <1>2, <2>2, <2>4, <2>6, <3>1, <3>2, <3>3, <3>4
    <3>5. CASE i # Len(stack)
      BY <2>6, <3>1, <3>2, <3>3, <3>5
    <3> QED
      BY <3>4, <3>5
  <2>8. ASSUME NEW kind, kind # Top.kind PROVE SameHandlers(kind)
    <3>1. DOMAIN stack' = DOMAIN stack
      BY <1>1, <2>3, LenProperties
    <3> QED
      BY <1>1, <1>2, <2>6, <2>8, <3>1 DEF SameHandlers
  <2> QED
    BY <1>2, <1>3, <1>4, <1>5, <2>3, <2>4, <2>7, <2>8 DEF rest
<1>6. CASE ~ (Len(Top.rest) > 1)
  <2>1. Pop
    BY <1>6
  <2>2. /\ stack' \in Seq(FrameSet) /\ Len(stack') = Len(stack) - 1
        /\ \A i \in 1 .. Len(stack) - 1 : stack'[i] = stack[i]
        /\ Pending' = Pending /\ (\A l : Accepting(l)' <=> Accepting(l)) /\ \A fd : Closing(fd)' <=> Closing(fd)
    BY <1>1, <2>1, PopKeeps
  <2>3. \A fd : Closing(fd) => fd \in Live
    BY <1>1 DEF Closing, FrameInv
  <2>4. FrameInv' /\ \A kind : kind # Top.kind => SameHandlers(kind)
    BY <2>1, <2>2, <2>3, PopFrames
  <2> QED
    BY <1>2, <1>3, <1>4, <1>6, <2>2, <2>4
<1> QED
  BY <1>5, <1>6

\* What a buffer that goes back leaves of the invariant.
LEMMA ReturnStep ==
    ASSUME ServerInv, UNCHANGED <<clients, conns, interest, events, loop, stop, calls, backlog, made>>,
           peer' \in [Conn -> PeerSet],
           \A c \in Conn : peer'[c].taken = peer[c].taken /\ peer'[c].sent = peer[c].sent /\ peer'[c].fin = peer[c].fin,
           rbPool' \in PoolSet, rbPool'.free \subseteq 1 .. rbPool'.all,
           wbPool' \in PoolSet, wbPool'.free \subseteq 1 .. wbPool'.all,
           FrameInv', stack' \in Seq(FrameSet),
           Pending' = Pending, \A l : Accepting(l)' <=> Accepting(l), \A fd : Closing(fd)' <=> Closing(fd)
    PROVE  TypeInv' /\ ChainInv' /\ ConnInv' /\ PendingInv' /\ InterestInv' /\ CountInv'
<1> USE DEF ServerInv
<1>1. /\ clients' = clients /\ conns' = conns /\ interest' = interest
      /\ events' = events /\ loop' = loop /\ stop' = stop /\ calls' = calls
      /\ backlog' = backlog /\ made' = made /\ Live' = Live
  BY DEF Live
<1>2. TypeInv' /\ ChainInv'
  BY <1>1 DEF TypeInv, ChainInv
<1>3. SameSessions
  BY <1>1 DEF SameSessions
<1>4. ConnInv' /\ PendingInv' /\ \A l : Sessions(l)' = Sessions(l)
  BY <1>1, <1>3, ConnKeeps
<1>5. CountInv'
  BY <1>1, <1>4, CountKeeps
<1>6. InterestInv'
  <2>1. \A fd \in Live : peer'[clients[fd].conn].fin = peer[clients[fd].conn].fin
    BY SessionType
  <2> QED
    BY <1>1, <2>1 DEF InterestInv, InterestMatches
<1> QED
  BY <1>2, <1>4, <1>5, <1>6

\* The return from OnReadComplete keeps the invariant.
LEMMA ReadReturnsKeeps == ASSUME ServerInv, ReadReturns PROVE ServerInv'
<1>1. /\ stack # << >> /\ Top.kind = "read"
      /\ peer' = [peer EXCEPT ![Top.conn].delivered = @ \o Top.rest[1].data]
      /\ rbPool' = PutIntoPool(rbPool, {Top.rest[1].id}) /\ wbPool' = wbPool
      /\ IF Len(Top.rest) > 1 THEN stack' = [stack EXCEPT ![Len(stack)].rest = Tail(@)] ELSE Pop
      /\ UNCHANGED <<clients, conns, interest, events, loop, stop, calls, backlog, made>>
  BY DEF ReadReturns
<1>2. TypeInv /\ FrameInv /\ BuffersInOnePlace
  BY DEF ServerInv
<1>3. Live' = Live
  BY <1>1 DEF Live
<1>4. /\ FrameInv' /\ stack' \in Seq(FrameSet) /\ \A kind : kind # "read" => SameHandlers(kind)
      /\ Pending' = Pending /\ (\A l : Accepting(l)' <=> Accepting(l)) /\ \A fd : Closing(fd)' <=> Closing(fd)
      /\ Top = stack[Len(stack)] /\ Top.conn \in Conn
      /\ Top.rest \in Seq(Buffer) /\ Top.rest # << >> /\ Top.rest[1] \in Buffer
      /\ \A i \in 1 .. Len(stack) - 1 : stack'[i] = stack[i]
      /\ IF Len(Top.rest) > 1
         THEN Len(stack') = Len(stack) /\ stack'[Len(stack)].kind = "read" /\ stack'[Len(stack)].rest = Tail(Top.rest)
         ELSE Len(stack') = Len(stack) - 1
  BY <1>1, <1>2, <1>3, HandBack
<1>5. Top.rest[1].id \in Nat /\ Top.rest[1].data \in Seq(Nat)
  BY <1>4 DEF Buffer
<1>6. Holders(stack, "read", ReadChains)
  BY <1>2, ServerHolders
<1>7. ReadChains' = ReadChains
  BY <1>1 DEF ReadChains, Live
<1>8. Holders(stack', "read", ReadChains)
  <2>1. ReadChains \in [Live -> Seq(Buffer)] /\ Live \subseteq Nat
    BY <1>2, SessionType DEF ReadChains
  <2>2. \A i \in 1 .. Len(stack') : stack'[i].kind = "read" => stack'[i].rest \in Seq(Buffer)
    BY <1>4 DEF FrameInv
  <2> QED
    BY <1>4, <2>1, <2>2, ChainsHeld
<1>9. InOnePlace(rbPool', stack', "read", ReadChains)
  <2>1. InOnePlace(rbPool, stack, "read", ReadChains)
    BY <1>2, BuffersAre
  <2>2. stack[Len(stack)].kind = "read" /\ stack[Len(stack)].rest # << >>
    BY <1>1, <1>4
  <2>3. IF Len(stack[Len(stack)].rest) > 1
        THEN /\ Len(stack') = Len(stack) /\ stack'[Len(stack)].kind = "read"
             /\ stack'[Len(stack)].rest = Tail(stack[Len(stack)].rest)
        ELSE Len(stack') = Len(stack) - 1
    BY <1>4
  <2>4. InOnePlace(PutIntoPool(rbPool, {stack[Len(stack)].rest[1].id}), stack', "read", ReadChains)
    BY <1>1, <1>4, <1>6, <1>8, <2>1, <2>2, <2>3, HandedInOnePlace
  <2> QED
    BY <1>1, <1>4, <2>4
<1>10. rbPool' \in PoolSet /\ rbPool'.free \subseteq 1 .. rbPool'.all
  <2>1. rbPool \in PoolSet /\ {Top.rest[1].id} \subseteq Nat
    BY <1>2, <1>5 DEF TypeInv
  <2> QED
    BY <1>1, <1>9, <2>1, PutType, PlacedFree
<1>11. /\ peer' \in [Conn -> PeerSet]
       /\ \A c \in Conn : peer'[c].taken = peer[c].taken /\ peer'[c].sent = peer[c].sent /\ peer'[c].fin = peer[c].fin
  <2>1. peer \in [Conn -> PeerSet] /\ peer[Top.conn] \in PeerSet
    BY <1>2, <1>4 DEF TypeInv
  <2> DEFINE s == peer[Top.conn].delivered \o Top.rest[1].data
             p == [peer[Top.conn] EXCEPT !.delivered = s]
  <2>2. s \in Seq(Nat)
    BY <1>5, <2>1, PeerType, ConcatProperties
  <2>3. p \in PeerSet /\ p.taken = peer[Top.conn].taken /\ p.sent = peer[Top.conn].sent /\ p.fin = peer[Top.conn].fin
    <3> HIDE DEF s
    <3> QED
      BY <2>1, <2>2, PeerType DEF PeerSet
  <2>4. peer' = [peer EXCEPT ![Top.conn] = p]
    BY <1>1
  <2> HIDE DEF p
  <2> QED
    BY <1>4, <2>1, <2>3, <2>4
<1>12. wbPool' \in PoolSet /\ wbPool'.free \subseteq 1 .. wbPool'.all
  BY <1>1, <1>2 DEF TypeInv
<1>13. TypeInv' /\ ChainInv' /\ ConnInv' /\ PendingInv' /\ InterestInv' /\ CountInv'
  BY <1>1, <1>4, <1>10, <1>11, <1>12, ReturnStep
<1>14. BuffersInOnePlace'
  <2>1. InOnePlace(rbPool, stack, "read", ReadChains)'
    BY <1>7, <1>9
  <2>2. SameHandlers("write") /\ InOnePlace(wbPool, stack, "write", WriteChains)
    BY <1>2, <1>4, BuffersAre
  <2>3. InOnePlace(wbPool, stack, "write", WriteChains)'
    BY <1>1, <1>2, <1>3, <1>4, <1>13, <2>2, WritesKept
  <2> QED
    BY <2>1, <2>3, BuffersAreNext
<1> QED
  BY <1>4, <1>13, <1>14 DEF ServerInv

\* The return from OnWriteComplete keeps the invariant.
LEMMA WriteReturnsKeeps == ASSUME ServerInv, WriteReturns PROVE ServerInv'
<1>1. /\ stack # << >> /\ Top.kind = "write"
      /\ wbPool' = PutIntoPool(wbPool, {Top.rest[1].id}) /\ rbPool' = rbPool
      /\ IF Len(Top.rest) > 1 THEN stack' = [stack EXCEPT ![Len(stack)].rest = Tail(@)] ELSE Pop
      /\ UNCHANGED <<clients, conns, interest, events, loop, stop, calls, backlog, made, peer>>
  BY DEF WriteReturns
<1>2. TypeInv /\ FrameInv /\ BuffersInOnePlace
  BY DEF ServerInv
<1>3. Live' = Live
  BY <1>1 DEF Live
<1>4. /\ FrameInv' /\ stack' \in Seq(FrameSet) /\ \A kind : kind # "write" => SameHandlers(kind)
      /\ Pending' = Pending /\ (\A l : Accepting(l)' <=> Accepting(l)) /\ \A fd : Closing(fd)' <=> Closing(fd)
      /\ Top = stack[Len(stack)] /\ Top.conn \in Conn
      /\ Top.rest \in Seq(Buffer) /\ Top.rest # << >> /\ Top.rest[1] \in Buffer
      /\ \A i \in 1 .. Len(stack) - 1 : stack'[i] = stack[i]
      /\ IF Len(Top.rest) > 1
         THEN Len(stack') = Len(stack) /\ stack'[Len(stack)].kind = "write" /\ stack'[Len(stack)].rest = Tail(Top.rest)
         ELSE Len(stack') = Len(stack) - 1
  BY <1>1, <1>2, <1>3, HandBack
<1>5. Top.rest[1].id \in Nat
  BY <1>4 DEF Buffer
<1>6. Holders(stack, "write", WriteChains)
  BY <1>2, ServerHolders
<1>7. WriteChains' = WriteChains
  BY <1>1 DEF WriteChains, Live
<1>8. Holders(stack', "write", WriteChains)
  <2>1. WriteChains \in [Live -> Seq(Buffer)] /\ Live \subseteq Nat
    BY <1>2, SessionType DEF WriteChains
  <2>2. \A i \in 1 .. Len(stack') : stack'[i].kind = "write" => stack'[i].rest \in Seq(Buffer)
    BY <1>4 DEF FrameInv
  <2> QED
    BY <1>4, <2>1, <2>2, ChainsHeld
<1>9. InOnePlace(wbPool', stack', "write", WriteChains)
  <2>1. InOnePlace(wbPool, stack, "write", WriteChains)
    BY <1>2, BuffersAre
  <2>2. stack[Len(stack)].kind = "write" /\ stack[Len(stack)].rest # << >>
    BY <1>1, <1>4
  <2>3. IF Len(stack[Len(stack)].rest) > 1
        THEN /\ Len(stack') = Len(stack) /\ stack'[Len(stack)].kind = "write"
             /\ stack'[Len(stack)].rest = Tail(stack[Len(stack)].rest)
        ELSE Len(stack') = Len(stack) - 1
    BY <1>4
  <2>4. InOnePlace(PutIntoPool(wbPool, {stack[Len(stack)].rest[1].id}), stack', "write", WriteChains)
    BY <1>1, <1>4, <1>6, <1>8, <2>1, <2>2, <2>3, HandedInOnePlace
  <2> QED
    BY <1>1, <1>4, <2>4
<1>10. wbPool' \in PoolSet /\ wbPool'.free \subseteq 1 .. wbPool'.all
  <2>1. wbPool \in PoolSet /\ {Top.rest[1].id} \subseteq Nat
    BY <1>2, <1>5 DEF TypeInv
  <2> QED
    BY <1>1, <1>9, <2>1, PutType, PlacedFree
<1>11. /\ peer' \in [Conn -> PeerSet] /\ rbPool' \in PoolSet /\ rbPool'.free \subseteq 1 .. rbPool'.all
       /\ \A c \in Conn : peer'[c].taken = peer[c].taken /\ peer'[c].sent = peer[c].sent /\ peer'[c].fin = peer[c].fin
  BY <1>1, <1>2 DEF TypeInv
<1>12. TypeInv' /\ ChainInv' /\ ConnInv' /\ PendingInv' /\ InterestInv' /\ CountInv'
  BY <1>1, <1>4, <1>10, <1>11, ReturnStep
<1>13. BuffersInOnePlace'
  <2>1. InOnePlace(wbPool, stack, "write", WriteChains)'
    BY <1>7, <1>9
  <2>2. SameHandlers("read") /\ InOnePlace(rbPool, stack, "read", ReadChains)
    BY <1>2, <1>4, BuffersAre
  <2>3. InOnePlace(rbPool, stack, "read", ReadChains)'
    BY <1>1, <1>2, <1>3, <1>4, <1>12, <2>2, ReadsKept
  <2> QED
    BY <2>1, <2>3, BuffersAreNext
<1> QED
  BY <1>4, <1>12, <1>13 DEF ServerInv

\* OnClose, OnError or AsyncClose for a session that is not being closed.
LEMMA EndKeeps ==
    ASSUME ServerInv, NEW fd \in Live, NEW kind \in {"close", "error"}, ~Closing(fd),
           stack # << >> => kind = "close", End(kind, fd),
           events' \in Seq(Event), calls' \in Nat, UNCHANGED <<loop, stop, backlog, made, peer>>
    PROVE  ServerInv'
<1> DEFINE frame == Frame(kind, fd, clients[fd].conn, clients[fd].listen, << >>)
<1>1. /\ interest' = [interest EXCEPT ![fd] = {}] /\ Push(frame)
      /\ clients' = clients /\ conns' = conns /\ rbPool' = rbPool /\ wbPool' = wbPool
  BY DEF End, DelConn
<1>2. TypeInv /\ ChainInv /\ FrameInv /\ ConnInv /\ PendingInv /\ InterestInv /\ CountInv /\ BuffersInOnePlace
  BY DEF ServerInv
<1>3. stack \in Seq(FrameSet) /\ Live' = Live
  BY <1>1, <1>2 DEF TypeInv, Live
<1>4. /\ fd \in Fd /\ fd \notin Listener /\ fd \in Nat /\ clients[fd].conn \in Nat
      /\ clients[fd].listen \in Listener
  BY <1>2, SessionType
<1>5. frame \in FrameSet /\ frame.kind = kind /\ frame.fd = fd
  <2>1. << >> \in Seq(Buffer)
    OBVIOUS
  <2> QED
    BY <1>4, <2>1 DEF Frame, FrameSet
<1> HIDE DEF frame
<1>6. /\ FrameInv' /\ stack' \in Seq(FrameSet)
      /\ \A k : k # frame.kind => SameHandlers(k)
  BY <1>1, <1>2, <1>3, <1>5, PushFrames
<1>7. /\ Pending' = Pending /\ \A l : Accepting(l)' <=> Accepting(l)
      /\ \A g : Closing(g)' <=> Closing(g) \/ (frame.kind \in {"close", "error"} /\ frame.fd = g)
  BY <1>1, <1>3, <1>5, PushKeeps
<1>8. \A g : Closing(g)' <=> Closing(g) \/ g = fd
  BY <1>5, <1>7
<1>9. /\ interest' \in [Listener \cup Fd -> SUBSET Conditions] /\ interest'[fd] = {}
      /\ \A x \in Listener \cup Fd : x # fd => interest'[x] = interest[x]
  BY <1>1, <1>2, <1>4 DEF TypeInv
<1>10. TypeInv' /\ ChainInv'
  BY <1>1, <1>2, <1>3, <1>6, <1>9 DEF TypeInv, ChainInv
<1>11. SameSessions
  BY <1>1, <1>3 DEF SameSessions
<1>12. ConnInv' /\ PendingInv' /\ \A l : Sessions(l)' = Sessions(l)
  BY <1>2, <1>7, <1>11, ConnKeeps
<1>13. CountInv'
  <2>1. \A l \in Listener : interest'[l] = interest[l]
    BY <1>4, <1>9
  <2> QED
    BY <1>1, <1>2, <1>7, <1>12, <2>1, CountKeeps
<1>14. InterestInv'
  <2>1. \A x \in Listener \cup Fd : interest'[x] # {} => "rdhup" \in interest'[x]
    BY <1>2, <1>9 DEF InterestInv
  <2>2. \A g \in Fd \ Live : interest'[g] = {}
    BY <1>2, <1>9 DEF InterestInv
  <2>3. \A g \in Live : Closing(g)' => interest'[g] = {}
    BY <1>2, <1>8, <1>9 DEF InterestInv, TypeInv
  <2>4. \A g \in Live : ~Closing(g)' => ~Closing(g) /\ interest'[g] = interest[g]
    BY <1>2, <1>8, <1>9 DEF TypeInv
  <2>5. InterestMatches'
    BY <1>1, <1>2, <1>3, <2>4 DEF InterestInv, InterestMatches
  <2> QED
    BY <1>3, <2>1, <2>2, <2>3, <2>5 DEF InterestInv
<1>15. BuffersInOnePlace'
  <2>1. SameHandlers("read") /\ SameHandlers("write")
    BY <1>5, <1>6
  <2> QED
    BY <1>1, <1>2, <1>3, <1>6, <1>10, <2>1, BuffersKept
<1> QED
  BY <1>6, <1>10, <1>12, <1>13, <1>14, <1>15 DEF ServerInv

\* OnClose and OnError keep the invariant.
LEMMA OnCloseOrErrorKeeps == ASSUME ServerInv, OnCloseOrError PROVE ServerInv'
<1>1. stack = << >> /\ events # << >> /\ Head(events).ev # "CFEV_ACCEPT"
  BY DEF OnCloseOrError, NextIs, Idle
<1>2. CASE NextFd \notin Live
  BY <1>2, LoopKeeps DEF OnCloseOrError
<1>3. CASE NextFd \in Live
  <2> DEFINE kind == IF Head(events).ev = "CFEV_CLOSE" THEN "close" ELSE "error"
  <2>1. End(kind, NextFd) /\ events' = Tail(events) /\ UNCHANGED <<loop, stop, calls, backlog, made, peer>>
    BY <1>3 DEF OnCloseOrError
  <2>2. TypeInv
    BY DEF ServerInv
  <2>3. events' \in Seq(Event) /\ calls' \in Nat
    BY <1>1, <2>1, <2>2, NextEvent DEF TypeInv
  <2>4. ~Closing(NextFd)
    BY <1>1 DEF Closing
  <2>5. kind \in {"close", "error"}
    OBVIOUS
  <2> HIDE DEF kind
  <2> QED
    BY <1>1, <1>3, <2>1, <2>3, <2>4, <2>5, EndKeeps
<1> QED
  BY <1>2, <1>3

\* AsyncClose keeps the invariant: the application closes no session that is being closed.
LEMMA AsyncCloseKeeps == ASSUME ServerInv, NEW fd \in Live, AsyncClose(fd) PROVE ServerInv'
<1>1. /\ ~Closing(fd) /\ End("close", fd) /\ calls' = calls + 1
      /\ UNCHANGED <<loop, events, stop, backlog, made, peer>>
  BY DEF AsyncClose, CanCall
<1>2. events' \in Seq(Event) /\ calls' \in Nat
  BY <1>1 DEF ServerInv, TypeInv
<1> QED
  BY <1>1, <1>2, EndKeeps

\* OnCloseComplete or OnErrorComplete returns for fd: ClearSessionAndBuffer.
LEMMA SessionEnds ==
    ASSUME ServerInv, EndReturns, NEW fd, fd = Top.fd, NEW l, l = clients[fd].listen
    PROVE  ServerInv'
<1> DEFINE n == Cardinality(Sessions(l))
<1>1. stack # << >> /\ Top.kind \in {"close", "error"}
  BY DEF EndReturns
<1>2. TypeInv /\ ChainInv /\ FrameInv /\ ConnInv /\ PendingInv /\ InterestInv /\ CountInv /\ BuffersInOnePlace
  BY DEF ServerInv
<1>3. stack \in Seq(FrameSet) /\ DOMAIN stack = 1 .. Len(stack)
  BY <1>2, LenProperties DEF TypeInv
<1>4. Len(stack) \in Nat \ {0} /\ Top = stack[Len(stack)] /\ Len(stack) \in 1 .. Len(stack)
  BY <1>1, <1>3, StackTop
<1>5. /\ fd \in Live
      /\ \A j \in 1 .. Len(stack) : stack[j].kind \in {"close", "error"} /\ stack[j].fd = fd => j = Len(stack)
  BY <1>1, <1>2, <1>4 DEF FrameInv
<1>6. /\ clients' = [f \in Live \ {fd} |-> clients[f]]
      /\ conns' = [conns EXCEPT ![l] = (conns[l] - 1) % CounterMod]
      /\ interest' = CheckMaxConnection(interest, l, conns'[l], FALSE)
      /\ rbPool' = PutIntoPool(rbPool, Ids(clients[fd].rb)) /\ wbPool' = PutIntoPool(wbPool, Ids(clients[fd].wb))
      /\ Pop /\ UNCHANGED <<events, loop, stop, calls, backlog, made, peer>>
  BY <1>5 DEF EndReturns, ClearSessionAndBuffer
<1>7. /\ fd \in Fd /\ fd \in Nat /\ l \in Listener /\ fd # l /\ clients[fd].rb \in Seq(Buffer) /\ clients[fd].wb \in Seq(Buffer)
  BY <1>2, <1>5, SessionType
<1>8. Live' = Live \ {fd} /\ \A f \in Live' : clients'[f] = clients[f]
  BY <1>6 DEF Live
<1>9. /\ stack' \in Seq(FrameSet) /\ Len(stack') = Len(stack) - 1
      /\ \A i \in 1 .. Len(stack) - 1 : stack'[i] = stack[i]
      /\ Pending' = Pending /\ \A m : Accepting(m)' <=> Accepting(m)
      /\ \A g : Closing(g) <=> Closing(g)' \/ (Top.kind \in {"close", "error"} /\ Top.fd = g)
  BY <1>1, <1>3, <1>6, PopKeeps
<1>10. \A g : Closing(g) <=> Closing(g)' \/ g = fd
  BY <1>1, <1>9
<1>11. \A g : Closing(g)' => g \in Live'
  <2>1. \A g : Closing(g) => g \in Live
    BY <1>2, <1>3 DEF Closing, FrameInv
  <2>2. ~Closing(fd)'
    <3> SUFFICES ASSUME Closing(fd)' PROVE FALSE
      OBVIOUS
    <3>1. DOMAIN stack' = 1 .. Len(stack) - 1
      BY <1>9, LenProperties
    <3>2. PICK i \in 1 .. Len(stack) - 1 : stack'[i].kind \in {"close", "error"} /\ stack'[i].fd = fd
      BY <3>1 DEF Closing
    <3>3. i \in 1 .. Len(stack) /\ i # Len(stack) /\ stack'[i] = stack[i]
      BY <1>4, <1>9
    <3> QED
      BY <1>5, <3>2, <3>3
  <2> QED
    BY <1>8, <1>10, <2>1, <2>2
<1>12. FrameInv' /\ \A k : k # Top.kind => SameHandlers(k)
  BY <1>1, <1>2, <1>6, <1>11, PopFrames
<1>13. SameHandlers("read") /\ SameHandlers("write")
  BY <1>1, <1>12
<1>14. IsFiniteSet(Sessions(l)) /\ n \in 1 .. CounterMod - 1
  <2>1. IsFiniteSet(Sessions(l)) /\ n \in 0 .. CounterMod - 1
    BY <1>2, <1>7, SessionsFew
  <2>2. fd \in Sessions(l)
    BY <1>5 DEF Sessions
  <2>3. n # 0
    BY <2>1, <2>2, FS_EmptySet
  <2> HIDE DEF n
  <2> QED
    BY <2>1, <2>3
<1>15. /\ Sessions(l)' = Sessions(l) \ {fd} /\ Cardinality(Sessions(l)') = n - 1
       /\ \A m \in Listener : m # l => Sessions(m)' = Sessions(m)
  <2>1. Sessions(l)' = Sessions(l) \ {fd} /\ \A m \in Listener : m # l => Sessions(m)' = Sessions(m)
    BY <1>8 DEF Sessions
  <2>2. fd \in Sessions(l)
    BY <1>5 DEF Sessions
  <2> QED
    BY <1>14, <2>1, <2>2, FS_RemoveElement
<1>16. conns \in [Listener -> 0 .. CounterMod - 1] /\ CounterMod \in Nat /\ MaxConns[l] \in Nat
  BY <1>2, <1>7, ServerAssumption DEF TypeInv
<1>17. /\ conns' \in [Listener -> 0 .. CounterMod - 1]
       /\ conns'[l] = IF conns[l] = 0 THEN CounterMod - 1 ELSE conns[l] - 1
       /\ \A m \in Listener : m # l => conns'[m] = conns[m]
  <2>1. conns[l] \in 0 .. CounterMod - 1
    BY <1>7, <1>16
  <2>2. (conns[l] - 1) % CounterMod = IF conns[l] = 0 THEN CounterMod - 1 ELSE conns[l] - 1
    BY <2>1, ModSteps
  <2>3. (IF conns[l] = 0 THEN CounterMod - 1 ELSE conns[l] - 1) \in 0 .. CounterMod - 1
    BY <1>16, <2>1
  <2> QED
    BY <1>6, <1>7, <1>16, <2>2, <2>3
<1>18. interest \in [Listener \cup Fd -> SUBSET Conditions] /\ l \in Listener \cup Fd
  BY <1>2, <1>7 DEF TypeInv
<1>19. /\ interest' \in [Listener \cup Fd -> SUBSET Conditions]
       /\ \A x \in Listener \cup Fd : x # l => interest'[x] = interest[x]
       /\ interest'[l] # {} <=> interest[l] # {} \/ (MaxConns[l] > 0 /\ conns'[l] < MaxConns[l])
       /\ interest'[l] # {} => "rdhup" \in interest'[l] \/ interest'[l] = interest[l]
  <2>1. interest' = IF MaxConns[l] > 0 /\ conns'[l] < MaxConns[l] /\ interest[l] = {}
                    THEN [interest EXCEPT ![l] = {"rdhup", "in"}] ELSE interest
    <3>1. {"rdhup"} \cup {"in"} = {"rdhup", "in"}
      OBVIOUS
    <3> QED
      BY <1>6, <3>1 DEF CheckMaxConnection, AddConn
  <2> QED
    BY <1>18, <2>1 DEF Conditions
<1>20. clients' \in [Live' -> Session]
  <2>1. clients \in [Live -> Session]
    BY <1>2 DEF TypeInv
  <2> QED
    BY <1>6, <1>8, <2>1
<1>21. Ids(clients[fd].rb) \subseteq Nat /\ Ids(clients[fd].wb) \subseteq Nat
  <2>1. ASSUME NEW chain \in Seq(Buffer) PROVE Ids(chain) \subseteq Nat
    BY BufferType, LenProperties DEF Ids
  <2> QED
    BY <1>7, <2>1
<1>22. /\ Holders(stack, "read", ReadChains) /\ Holders(stack', "read", ReadChains')
       /\ Holders(stack, "write", WriteChains) /\ Holders(stack', "write", WriteChains')
  <2>1. Holders(stack, "read", ReadChains) /\ Holders(stack, "write", WriteChains)
    BY <1>2, ServerHolders
  <2>2. \A f \in Live' : clients'[f].rb \in Seq(Buffer) /\ clients'[f].wb \in Seq(Buffer)
    BY <1>20 DEF Session
  <2>3. Live' \subseteq Nat
    BY <1>2, <1>8, ServerAssumption DEF TypeInv
  <2>4. ReadChains' \in [Live' -> Seq(Buffer)] /\ WriteChains' \in [Live' -> Seq(Buffer)]
    BY <2>2 DEF ReadChains, WriteChains
  <2>5. \A i \in 1 .. Len(stack') : stack'[i].kind \in {"read", "write"} => stack'[i].rest \in Seq(Buffer)
    BY <1>12 DEF FrameInv
  <2> QED
    BY <1>9, <2>1, <2>3, <2>4, <2>5, ChainsHeld
<1>23. /\ Released(stack, ReadChains, stack', ReadChains', "read", fd)
       /\ ReadChains[fd] = clients[fd].rb
  <2>1. DOMAIN clients[fd].rb \subseteq Nat
    BY <1>7, LenProperties
  <2>2. /\ DOMAIN ReadChains = Live /\ DOMAIN ReadChains' = Live' /\ ReadChains[fd] = clients[fd].rb
        /\ \A f \in Live' : ReadChains'[f] = ReadChains[f]
    BY <1>5, <1>8 DEF ReadChains
  <2> QED
    BY <1>5, <1>7, <1>8, <1>13, <2>1, <2>2 DEF Released, SameHandlers
<1>24. /\ Released(stack, WriteChains, stack', WriteChains', "write", fd)
       /\ WriteChains[fd] = clients[fd].wb
  <2>1. DOMAIN clients[fd].wb \subseteq Nat
    BY <1>7, LenProperties
  <2>2. /\ DOMAIN WriteChains = Live /\ DOMAIN WriteChains' = Live' /\ WriteChains[fd] = clients[fd].wb
        /\ \A f \in Live' : WriteChains'[f] = WriteChains[f]
    BY <1>5, <1>8 DEF WriteChains
  <2> QED
    BY <1>5, <1>7, <1>8, <1>13, <2>1, <2>2 DEF Released, SameHandlers
<1>25. InOnePlace(rbPool', stack', "read", ReadChains') /\ InOnePlace(wbPool', stack', "write", WriteChains')
  <2>1. InOnePlace(rbPool, stack, "read", ReadChains) /\ InOnePlace(wbPool, stack, "write", WriteChains)
    BY <1>2, BuffersAre
  <2>2. InOnePlace(PutIntoPool(rbPool, Ids(ReadChains[fd])), stack', "read", ReadChains')
    BY <1>22, <1>23, <2>1, ReleasedInOnePlace
  <2>3. InOnePlace(PutIntoPool(wbPool, Ids(WriteChains[fd])), stack', "write", WriteChains')
    BY <1>22, <1>24, <2>1, ReleasedInOnePlace
  <2> QED
    BY <1>6, <1>23, <1>24, <2>2, <2>3
<1>26. /\ rbPool' \in PoolSet /\ rbPool'.free \subseteq 1 .. rbPool'.all
       /\ wbPool' \in PoolSet /\ wbPool'.free \subseteq 1 .. wbPool'.all
  <2>1. rbPool \in PoolSet /\ wbPool \in PoolSet
    BY <1>2 DEF TypeInv
  <2> QED
    BY <1>6, <1>21, <1>25, <2>1, PutType, PlacedFree
<1>27. TypeInv'
  BY <1>2, <1>6, <1>8, <1>9, <1>17, <1>19, <1>20, <1>26 DEF TypeInv
<1>28. ChainInv'
  BY <1>2, <1>8 DEF ChainInv
<1>29. ConnInv' /\ PendingInv'
  BY <1>2, <1>6, <1>8, <1>9 DEF ConnInv, PendingInv, NewSockets
<1>30. BuffersInOnePlace'
  BY <1>25, BuffersAreNext
<1>31. InterestInv'
  <2>1. \A x \in Listener \cup Fd : interest'[x] # {} => "rdhup" \in interest'[x]
    BY <1>2, <1>19 DEF InterestInv
  <2>2. \A g \in Fd : g # l /\ interest'[g] = interest[g]
    BY <1>7, <1>19, ServerAssumption
  <2>3. \A g \in Fd \ Live' : interest'[g] = {}
    BY <1>2, <1>5, <1>8, <1>10, <2>2 DEF InterestInv
  <2>4. \A g \in Live' : g \in Live /\ g \in Fd /\ (Closing(g)' <=> Closing(g))
    BY <1>2, <1>8, <1>10 DEF TypeInv
  <2>5. \A g \in Live' : Closing(g)' => interest'[g] = {}
    BY <1>2, <2>2, <2>4 DEF InterestInv
  <2>6. InterestMatches'
    <3>1. ASSUME NEW g \in Live', ~Closing(g)'
          PROVE  /\ interest'[g] # {}
                 /\ "out" \in interest'[g] <=> clients'[g].wb # << >>
                 /\ "in" \in interest'[g] => clients'[g].rb # << >>
                 /\ clients'[g].rb # << >> /\ "in" \notin interest'[g] => peer'[clients'[g].conn].fin
      <4>1. g \in Live /\ ~Closing(g) /\ interest'[g] = interest[g] /\ clients'[g] = clients[g] /\ peer' = peer
        BY <1>6, <1>8, <2>2, <2>4, <3>1
      <4>2. /\ interest[g] # {}
            /\ "out" \in interest[g] <=> clients[g].wb # << >>
            /\ "in" \in interest[g] => clients[g].rb # << >>
            /\ clients[g].rb # << >> /\ "in" \notin interest[g] => peer[clients[g].conn].fin
        BY <1>2, <4>1 DEF InterestInv, InterestMatches
      <4> QED
        BY <4>1, <4>2
    <3> QED
      BY <3>1 DEF InterestMatches
  <2> QED
    BY <2>1, <2>3, <2>5, <2>6 DEF InterestInv
<1>32. CountInv'
  <2>1. ASSUME NEW m \in Listener
        PROVE  IF Accepting(m)'
               THEN /\ conns'[m] = IF Cardinality(Sessions(m)') = 0 THEN CounterMod - 1 ELSE Cardinality(Sessions(m)') - 1
                    /\ interest'[m] = {} => MaxConns[m] > 0 /\ Cardinality(Sessions(m)') - 1 >= MaxConns[m]
               ELSE /\ conns'[m] = Cardinality(Sessions(m)')
                    /\ interest'[m] # {} <=> MaxConns[m] = 0 \/ Cardinality(Sessions(m)') < MaxConns[m]
    <3>0. IF Accepting(m)
          THEN /\ conns[m] = IF Cardinality(Sessions(m)) = 0 THEN CounterMod - 1 ELSE Cardinality(Sessions(m)) - 1
               /\ interest[m] = {} => MaxConns[m] > 0 /\ Cardinality(Sessions(m)) - 1 >= MaxConns[m]
          ELSE /\ conns[m] = Cardinality(Sessions(m))
               /\ interest[m] # {} <=> MaxConns[m] = 0 \/ Cardinality(Sessions(m)) < MaxConns[m]
      BY <1>2, Zenon DEF CountInv
    <3>1. CASE m # l
      BY <3>0, <3>1, <1>9, <1>15, <1>17, <1>19
    <3>2. CASE m = l /\ Accepting(l)
      <4>1. /\ conns[l] = n - 1
            /\ interest[l] = {} => MaxConns[l] > 0 /\ n - 1 >= MaxConns[l]
        BY <1>14, <3>0, <3>2
      <4> HIDE DEF n
      <4>2. conns'[l] = IF n - 1 = 0 THEN CounterMod - 1 ELSE n - 1 - 1
        BY <1>14, <1>17, <4>1
      <4>3. interest'[l] = {} => MaxConns[l] > 0 /\ n - 1 - 1 >= MaxConns[l]
        BY <1>14, <1>16, <1>19, <4>1, <4>2
      <4> QED
        BY <1>9, <1>15, <3>2, <4>2, <4>3
    <3>3. CASE m = l /\ ~Accepting(l)
      <4>1. /\ conns[l] = n
            /\ interest[l] # {} <=> MaxConns[l] = 0 \/ n < MaxConns[l]
        BY <3>0, <3>3
      <4> HIDE DEF n
      <4>2. conns'[l] = n - 1
        BY <1>14, <1>17, <4>1
      <4>3. interest'[l] # {} <=> MaxConns[l] = 0 \/ n - 1 < MaxConns[l]
        BY <1>14, <1>16, <1>19, <4>1, <4>2
      <4> QED
        BY <1>9, <1>15, <3>3, <4>2, <4>3
    <3> QED
      BY <3>1, <3>2, <3>3
  <2> QED
    BY <2>1, Zenon DEF CountInv
<1> QED
  BY <1>12, <1>27, <1>28, <1>29, <1>30, <1>31, <1>32 DEF ServerInv

\* The return from OnCloseComplete or OnErrorComplete keeps the invariant.
LEMMA EndReturnsKeeps == ASSUME ServerInv, EndReturns PROVE ServerInv'
<1>1. PICK fd : fd = Top.fd
  OBVIOUS
<1>2. PICK l : l = clients[fd].listen
  OBVIOUS
<1> QED
  BY <1>1, <1>2, SessionEnds

\* A step that changes chains, pools and interests and no session comes or goes.
LEMMA ChainStep ==
    ASSUME ServerInv, SameSessions, clients' \in [Live -> Session], UNCHANGED <<conns, backlog, made, loop, stop>>,
           events' \in Seq(Event), calls' \in Nat, FrameInv', stack' \in Seq(FrameSet),
           Pending' = Pending, \A l : Accepting(l)' <=> Accepting(l),
           peer' \in [Conn -> PeerSet], \A c \in Conn : peer'[c].taken <= peer'[c].sent,
           rbPool' \in PoolSet, rbPool'.free \subseteq 1 .. rbPool'.all,
           wbPool' \in PoolSet, wbPool'.free \subseteq 1 .. wbPool'.all,
           interest' \in [Listener \cup Fd -> SUBSET Conditions], \A l \in Listener : interest'[l] = interest[l]
    PROVE  TypeInv' /\ ConnInv' /\ PendingInv' /\ CountInv'
<1> USE DEF ServerInv
<1>1. Live' = Live
  BY DEF SameSessions
<1>2. TypeInv'
  BY <1>1 DEF TypeInv
<1>3. ConnInv' /\ PendingInv' /\ \A l : Sessions(l)' = Sessions(l)
  BY ConnKeeps
<1>4. CountInv'
  BY <1>3, CountKeeps
<1> QED
  BY <1>2, <1>3, <1>4

\* The interest of one session and what it needs change.
LEMMA InterestStep ==
    ASSUME TypeInv, InterestInv, SameSessions, NEW fd \in Live,
           \A f \in Live : f # fd => clients'[f] = clients[f],
           \A c \in Conn : peer[c].fin => peer'[c].fin,
           \A f \in Live : Closing(f)' <=> Closing(f),
           \A x \in Listener \cup Fd : x # fd => interest'[x] = interest[x],
           interest'[fd] # {} => "rdhup" \in interest'[fd],
           IF Closing(fd) THEN interest'[fd] = {}
           ELSE /\ interest'[fd] # {}
                /\ "out" \in interest'[fd] <=> clients'[fd].wb # << >>
                /\ "in" \in interest'[fd] => clients'[fd].rb # << >>
                /\ clients'[fd].rb # << >> /\ "in" \notin interest'[fd] => peer'[clients[fd].conn].fin
    PROVE  InterestInv'
<1>1. Live' = Live /\ Live \subseteq Fd /\ \A f \in Live : clients'[f].conn = clients[f].conn /\ clients[f].conn \in Conn
  BY SessionType DEF SameSessions
<1>2. \A x \in Listener \cup Fd : interest'[x] # {} => "rdhup" \in interest'[x]
  BY DEF InterestInv
<1>3. \A f \in Fd \ Live : interest'[f] = {}
  BY DEF InterestInv
<1>4. \A f \in Live : Closing(f)' => interest'[f] = {}
  BY <1>1 DEF InterestInv
<1>5. ASSUME NEW f \in Live, ~Closing(f)
      PROVE  /\ interest'[f] # {}
             /\ "out" \in interest'[f] <=> clients'[f].wb # << >>
             /\ "in" \in interest'[f] => clients'[f].rb # << >>
             /\ clients'[f].rb # << >> /\ "in" \notin interest'[f] => peer'[clients'[f].conn].fin
  <2>1. CASE f = fd
    BY <1>1, <1>5, <2>1
  <2>2. CASE f # fd
    <3>1. interest'[f] = interest[f] /\ clients'[f] = clients[f] /\ clients[f].conn \in Conn
      BY <1>1, <2>2
    <3>2. /\ interest[f] # {}
          /\ "out" \in interest[f] <=> clients[f].wb # << >>
          /\ "in" \in interest[f] => clients[f].rb # << >>
          /\ clients[f].rb # << >> /\ "in" \notin interest[f] => peer[clients[f].conn].fin
      BY <1>5 DEF InterestInv, InterestMatches
    <3> QED
      BY <3>1, <3>2
  <2> QED
    BY <2>1, <2>2
<1>6. InterestMatches'
  BY <1>1, <1>5 DEF InterestMatches
<1> QED
  BY <1>1, <1>2, <1>3, <1>4, <1>6 DEF InterestInv

\* Consecutive numbers as a sequence.
LEMMA FromType ==
    ASSUME NEW first \in Nat, NEW n \in Nat
    PROVE  From(first, n) \in Seq(Nat) /\ Len(From(first, n)) = n /\ \A i \in 1 .. n : From(first, n)[i] = first + i - 1
<1> DEFINE f == [i \in 1 .. n |-> first + i - 1]
<1>1. f \in [1 .. n -> Nat]
  OBVIOUS
<1>2. \A i \in 1 .. n : f[i] = first + i - 1
  OBVIOUS
<1> HIDE DEF f
<1>3. f \in Seq(Nat)
  BY <1>1
<1>4. Len(f) = n
  BY <1>1, <1>3, LenProperties
<1> QED
  BY <1>2, <1>3, <1>4 DEF From, f

\* What is taken from a pool, and what is left, have their types.
LEMMA TakenType ==
    ASSUME NEW pool \in PoolSet
    PROVE  Taken(pool) \in Nat /\ GetFromPool(pool) \in PoolSet
<1>1. Taken(pool) \in Nat
  BY TakenIs DEF PoolSet
<1> QED
  BY <1>1 DEF GetFromPool, PoolSet

\* AddEvent adds to the interest of a registered descriptor and touches no other.
LEMMA AddEventIs ==
    ASSUME TypeInv, NEW fd \in Live, NEW ev \in {"in", "out"}, interest' = AddEvent(interest, fd, ev)
    PROVE  /\ interest' \in [Listener \cup Fd -> SUBSET Conditions]
           /\ \A x \in Listener \cup Fd : x # fd => interest'[x] = interest[x]
           /\ \A l \in Listener : interest'[l] = interest[l]
           /\ interest'[fd] = IF interest[fd] = {} THEN {} ELSE interest[fd] \cup {ev}
<1>1. interest \in [Listener \cup Fd -> SUBSET Conditions] /\ fd \in Listener \cup Fd /\ fd \notin Listener
  BY SessionType DEF TypeInv
<1>2. interest' = IF interest[fd] = {} THEN interest ELSE [interest EXCEPT ![fd] = interest[fd] \cup {ev}]
  BY DEF AddEvent
<1> QED
  BY <1>1, <1>2 DEF Conditions

\* AsyncRead keeps the invariant.
LEMMA AsyncReadKeeps == ASSUME ServerInv, NEW fd \in Live, NEW n \in ReadSize, AsyncRead(fd, n) PROVE ServerInv'
<1> DEFINE b == GetReadBuffer(n)
           chain == Append(clients[fd].rb, b)
           L == Len(clients[fd].rb)
<1>1. /\ clients' = [clients EXCEPT ![fd].rb = chain]
      /\ rbPool' = GetFromPool(rbPool) /\ wbPool' = wbPool /\ interest' = AddEvent(interest, fd, "in") /\ calls' = calls + 1
      /\ UNCHANGED <<conns, stack, stop, peer, loop, events, backlog, made>>
  BY DEF AsyncRead, CanCall
<1>2. TypeInv /\ ChainInv /\ FrameInv /\ ConnInv /\ PendingInv /\ InterestInv /\ CountInv /\ BuffersInOnePlace
  BY DEF ServerInv
<1>3. clients[fd].rb \in Seq(Buffer) /\ L \in Nat /\ fd \in Nat /\ n \in Nat /\ rbPool \in PoolSet
  BY <1>2, SessionType, LenProperties, ServerAssumption DEF TypeInv
<1>4. b \in Buffer /\ b.id = Taken(rbPool) /\ b.data = << >> /\ b.total = n
  <2>1. Taken(rbPool) \in Nat /\ << >> \in Seq(Nat)
    BY <1>3, TakenType
  <2> QED
    BY <1>3, <2>1 DEF GetReadBuffer, Buffer
<1> HIDE DEF b
<1>5. /\ chain \in Seq(Buffer) /\ Len(chain) = L + 1 /\ chain[L + 1] = b
      /\ \A i \in 1 .. L : chain[i] = clients[fd].rb[i]
  BY <1>3, <1>4, AppendProperties
<1>6. DOMAIN chain = 1 .. L + 1 /\ DOMAIN clients[fd].rb = 1 .. L /\ 1 .. L + 1 = (1 .. L) \cup {L + 1} /\ chain # << >>
  <2>1. Len(chain) # 0 /\ Len(<< >>) = 0
    <3> HIDE DEF chain, L
    <3> QED
      BY <1>3, <1>5
  <2>2. chain # << >>
    BY <2>1, Zenon
  <2> HIDE DEF chain
  <2> QED
    BY <1>3, <1>5, <2>2, LenProperties
<1> HIDE DEF chain
<1>7. /\ Live' = Live /\ clients' \in [Live -> Session]
      /\ \A f \in Live : /\ clients'[f].conn = clients[f].conn /\ clients'[f].listen = clients[f].listen
                         /\ clients'[f].wb = clients[f].wb
                         /\ clients'[f].rb = IF f = fd THEN chain ELSE clients[f].rb
  BY <1>1, <1>2, <1>5, ReadsChanged
<1>8. SameSessions /\ \A f \in Live : f # fd => clients'[f] = clients[f]
  BY <1>1, <1>2, <1>7 DEF SameSessions, TypeInv
<1>9. ChainInv'
  <2>1. Fits(chain)
    <3>1. Fits(clients[fd].rb)
      BY <1>2 DEF ChainInv
    <3>2. Len(b.data) <= b.total
      BY <1>3, <1>4
    <3> QED
      BY <1>5, <1>6, <3>1, <3>2 DEF Fits
  <2> QED
    BY <1>2, <1>7, <2>1 DEF ChainInv
<1>10. FrameInv' /\ stack' \in Seq(FrameSet) /\ Pending' = Pending /\ (\A l : Accepting(l)' <=> Accepting(l)) /\ \A f : Closing(f)' <=> Closing(f)
  BY <1>1, <1>2, <1>7 DEF FrameInv, TypeInv, Pending, Accepting, Closing
<1>11. /\ Holders(stack, "read", ReadChains) /\ Holders(stack, "read", ReadChains')
  <2>1. ReadChains' \in [Live -> Seq(Buffer)] /\ Live \subseteq Nat
    BY <1>2, <1>7, ServerAssumption DEF ReadChains, TypeInv, Session
  <2>2. \A i \in 1 .. Len(stack) : stack[i].kind = "read" => stack[i].rest \in Seq(Buffer)
    BY <1>2 DEF FrameInv
  <2> QED
    BY <1>2, <2>1, <2>2, ServerHolders, ChainsHeld DEF TypeInv
<1>12. Extended(ReadChains, ReadChains', fd, Taken(rbPool))
  <2>1. /\ DOMAIN ReadChains = Live /\ DOMAIN ReadChains' = Live /\ ReadChains[fd] = clients[fd].rb /\ ReadChains'[fd] = chain
        /\ \A f \in Live : f # fd => ReadChains'[f] = ReadChains[f]
    BY <1>7 DEF ReadChains
  <2>2. L \in Nat /\ DOMAIN ReadChains[fd] = 1 .. L /\ DOMAIN ReadChains'[fd] = 1 .. L + 1
        /\ (\A k \in 1 .. L : ReadChains'[fd][k] = ReadChains[fd][k])
        /\ ReadChains'[fd][L + 1].id = Taken(rbPool)
    BY <1>3, <1>4, <1>5, <1>6, <2>1
  <2> HIDE DEF L
  <2> QED
    BY <1>3, <2>1, <2>2 DEF Extended
<1>13. InOnePlace(rbPool', stack, "read", ReadChains')
  <2>1. InOnePlace(rbPool, stack, "read", ReadChains)
    BY <1>2, BuffersAre
  <2>2. PICK x : x = Taken(rbPool)
    OBVIOUS
  <2>3. Extended(ReadChains, ReadChains', fd, x)
    BY <1>12, <2>2
  <2>4. InOnePlace(GetFromPool(rbPool), stack, "read", ReadChains')
    BY <1>3, <1>11, <2>1, <2>2, <2>3, ExtendedInOnePlace
  <2> QED
    BY <1>1, <2>4
<1>14. /\ rbPool' \in PoolSet /\ rbPool'.free \subseteq 1 .. rbPool'.all
       /\ wbPool' \in PoolSet /\ wbPool'.free \subseteq 1 .. wbPool'.all
  BY <1>1, <1>2, <1>3, <1>13, TakenType, PlacedFree DEF TypeInv
<1>15. /\ interest' \in [Listener \cup Fd -> SUBSET Conditions]
       /\ \A x \in Listener \cup Fd : x # fd => interest'[x] = interest[x]
       /\ \A l \in Listener : interest'[l] = interest[l]
       /\ interest'[fd] = IF interest[fd] = {} THEN {} ELSE interest[fd] \cup {"in"}
  BY <1>1, <1>2, AddEventIs
<1>16. TypeInv' /\ ConnInv' /\ PendingInv' /\ CountInv'
  <2>1. /\ events' \in Seq(Event) /\ calls' \in Nat /\ peer' \in [Conn -> PeerSet]
        /\ \A c \in Conn : peer'[c].taken <= peer'[c].sent
    BY <1>1, <1>2 DEF TypeInv
  <2> QED
    BY <1>1, <1>7, <1>8, <1>10, <1>14, <1>15, <2>1, ChainStep
<1>17. InterestInv'
  <2>1. IF Closing(fd) THEN interest'[fd] = {}
        ELSE /\ interest'[fd] # {}
             /\ "out" \in interest'[fd] <=> clients'[fd].wb # << >>
             /\ "in" \in interest'[fd] => clients'[fd].rb # << >>
             /\ clients'[fd].rb # << >> /\ "in" \notin interest'[fd] => peer'[clients[fd].conn].fin
    BY <1>2, <1>6, <1>7, <1>15 DEF InterestInv, InterestMatches
  <2>2. interest'[fd] # {} => "rdhup" \in interest'[fd]
    <3>1. fd \in Fd
      BY <1>2, SessionType
    <3> QED
      BY <1>2, <1>15, <3>1 DEF InterestInv
  <2>3. \A c \in Conn : peer[c].fin => peer'[c].fin
    BY <1>1
  <2> QED
    BY <1>2, <1>8, <1>10, <1>15, <2>1, <2>2, <2>3, InterestStep
<1>18. BuffersInOnePlace'
  <2>1. InOnePlace(rbPool, stack, "read", ReadChains)'
    BY <1>1, <1>13
  <2>2. SameHandlers("write")
    BY <1>1 DEF SameHandlers
  <2>3. InOnePlace(wbPool, stack, "write", WriteChains)
    BY <1>2, BuffersAre
  <2>4. InOnePlace(wbPool, stack, "write", WriteChains)'
    BY <1>1, <1>2, <1>7, <1>10, <1>16, <2>2, <2>3, WritesKept
  <2> QED
    BY <2>1, <2>4, BuffersAreNext
<1> QED
  BY <1>9, <1>10, <1>16, <1>17, <1>18 DEF ServerInv

\* AsyncWrite keeps the invariant.
LEMMA AsyncWriteKeeps == ASSUME ServerInv, NEW fd \in Live, NEW n \in WriteSize, AsyncWrite(fd, n) PROVE ServerInv'
<1> DEFINE c == clients[fd].conn
           b == GetWriteBuffer(peer[c].queued + 1, n)
           chain == Append(clients[fd].wb, b)
           L == Len(clients[fd].wb)
<1>1. /\ clients' = [clients EXCEPT ![fd].wb = chain]
      /\ wbPool' = GetFromPool(wbPool) /\ rbPool' = rbPool /\ interest' = AddEvent(interest, fd, "out") /\ calls' = calls + 1
      /\ peer' = [peer EXCEPT ![c].queued = @ + n] /\ UNCHANGED <<conns, stack, stop, loop, events, backlog, made>>
  BY DEF AsyncWrite, CanCall
<1>2. TypeInv /\ ChainInv /\ FrameInv /\ ConnInv /\ PendingInv /\ InterestInv /\ CountInv /\ BuffersInOnePlace
  BY DEF ServerInv
<1>3. clients[fd].wb \in Seq(Buffer) /\ L \in Nat /\ fd \in Nat /\ n \in Nat /\ wbPool \in PoolSet
  BY <1>2, SessionType, LenProperties, ServerAssumption DEF TypeInv
<1>4. b \in Buffer /\ b.id = Taken(wbPool)
  <2>1. peer[c].queued + 1 \in Nat
    <3>1. peer[c] \in PeerSet
      BY <1>2, SessionType
    <3> HIDE DEF c
    <3>2. peer[c].queued \in Nat
      BY <3>1, PeerType
    <3> QED
      BY <3>2
  <2>2. Taken(wbPool) \in Nat /\ From(peer[c].queued + 1, n) \in Seq(Nat)
    BY <1>3, <2>1, TakenType, FromType
  <2> QED
    BY <1>3, <2>2 DEF GetWriteBuffer, SetBuffer, Buffer
<1> HIDE DEF b
<1>5. /\ chain \in Seq(Buffer) /\ Len(chain) = L + 1 /\ chain[L + 1] = b
      /\ \A i \in 1 .. L : chain[i] = clients[fd].wb[i]
  BY <1>3, <1>4, AppendProperties
<1>6. DOMAIN chain = 1 .. L + 1 /\ DOMAIN clients[fd].wb = 1 .. L /\ 1 .. L + 1 = (1 .. L) \cup {L + 1} /\ chain # << >>
  <2>1. Len(chain) # 0 /\ Len(<< >>) = 0
    <3> HIDE DEF chain, L
    <3> QED
      BY <1>3, <1>5
  <2>2. chain # << >>
    BY <2>1, Zenon
  <2> HIDE DEF chain
  <2> QED
    BY <1>3, <1>5, <2>2, LenProperties
<1> HIDE DEF chain
<1>7. /\ Live' = Live /\ clients' \in [Live -> Session]
      /\ \A f \in Live : /\ clients'[f].conn = clients[f].conn /\ clients'[f].listen = clients[f].listen
                         /\ clients'[f].rb = clients[f].rb
                         /\ clients'[f].wb = IF f = fd THEN chain ELSE clients[f].wb
  BY <1>1, <1>2, <1>5, WritesChanged
<1>8. SameSessions /\ \A f \in Live : f # fd => clients'[f] = clients[f]
  BY <1>1, <1>2, <1>7 DEF SameSessions, TypeInv
<1>9. ChainInv'
  BY <1>2, <1>7 DEF ChainInv
<1>10. FrameInv' /\ stack' \in Seq(FrameSet) /\ Pending' = Pending /\ (\A l : Accepting(l)' <=> Accepting(l)) /\ \A f : Closing(f)' <=> Closing(f)
  BY <1>1, <1>2, <1>7 DEF FrameInv, TypeInv, Pending, Accepting, Closing
<1>11. /\ Holders(stack, "write", WriteChains) /\ Holders(stack, "write", WriteChains')
  <2>1. WriteChains' \in [Live -> Seq(Buffer)] /\ Live \subseteq Nat
    BY <1>2, <1>7, ServerAssumption DEF WriteChains, TypeInv, Session
  <2>2. \A i \in 1 .. Len(stack) : stack[i].kind = "write" => stack[i].rest \in Seq(Buffer)
    BY <1>2 DEF FrameInv
  <2> QED
    BY <1>2, <2>1, <2>2, ServerHolders, ChainsHeld DEF TypeInv
<1>12. Extended(WriteChains, WriteChains', fd, Taken(wbPool))
  <2>1. /\ DOMAIN WriteChains = Live /\ DOMAIN WriteChains' = Live /\ WriteChains[fd] = clients[fd].wb /\ WriteChains'[fd] = chain
        /\ \A f \in Live : f # fd => WriteChains'[f] = WriteChains[f]
    BY <1>7 DEF WriteChains
  <2>2. L \in Nat /\ DOMAIN WriteChains[fd] = 1 .. L /\ DOMAIN WriteChains'[fd] = 1 .. L + 1
        /\ (\A k \in 1 .. L : WriteChains'[fd][k] = WriteChains[fd][k])
        /\ WriteChains'[fd][L + 1].id = Taken(wbPool)
    BY <1>3, <1>4, <1>5, <1>6, <2>1
  <2> HIDE DEF L
  <2> QED
    BY <1>3, <2>1, <2>2 DEF Extended
<1>13. InOnePlace(wbPool', stack, "write", WriteChains')
  <2>1. InOnePlace(wbPool, stack, "write", WriteChains)
    BY <1>2, BuffersAre
  <2>2. PICK x : x = Taken(wbPool)
    OBVIOUS
  <2>3. Extended(WriteChains, WriteChains', fd, x)
    BY <1>12, <2>2
  <2>4. InOnePlace(GetFromPool(wbPool), stack, "write", WriteChains')
    BY <1>3, <1>11, <2>1, <2>2, <2>3, ExtendedInOnePlace
  <2> QED
    BY <1>1, <2>4
<1> HIDE DEF c
<1>14. /\ peer' \in [Conn -> PeerSet] /\ \A d \in Conn : peer'[d].taken <= peer'[d].sent
       /\ \A d \in Conn : peer'[d].fin = peer[d].fin
  <2>1. peer \in [Conn -> PeerSet] /\ c \in Conn /\ peer[c] \in PeerSet /\ \A d \in Conn : peer[d].taken <= peer[d].sent
    BY <1>2, SessionType DEF TypeInv, c
  <2> DEFINE q == peer[c].queued + n
             p == [peer[c] EXCEPT !.queued = q]
  <2>2. q \in Nat
    <3>1. peer[c].queued \in Nat
      BY <2>1, PeerType
    <3> QED
      BY <1>3, <3>1
  <2>3. p \in PeerSet /\ p.taken = peer[c].taken /\ p.sent = peer[c].sent /\ p.fin = peer[c].fin
    <3> HIDE DEF q
    <3> QED
      BY <2>1, <2>2, PeerType DEF PeerSet
  <2>4. peer' = [peer EXCEPT ![c] = p]
    BY <1>1
  <2> HIDE DEF p
  <2> QED
    BY <2>1, <2>3, <2>4
<1>15. /\ wbPool' \in PoolSet /\ wbPool'.free \subseteq 1 .. wbPool'.all
       /\ rbPool' \in PoolSet /\ rbPool'.free \subseteq 1 .. rbPool'.all
  BY <1>1, <1>2, <1>3, <1>13, TakenType, PlacedFree DEF TypeInv
<1>16. /\ interest' \in [Listener \cup Fd -> SUBSET Conditions]
       /\ \A x \in Listener \cup Fd : x # fd => interest'[x] = interest[x]
       /\ \A l \in Listener : interest'[l] = interest[l]
       /\ interest'[fd] = IF interest[fd] = {} THEN {} ELSE interest[fd] \cup {"out"}
  BY <1>1, <1>2, AddEventIs
<1>17. TypeInv' /\ ConnInv' /\ PendingInv' /\ CountInv'
  <2>1. events' \in Seq(Event) /\ calls' \in Nat
    BY <1>1, <1>2 DEF TypeInv
  <2> QED
    BY <1>1, <1>7, <1>8, <1>10, <1>15, <1>16, <1>14, <2>1, ChainStep
<1>18. InterestInv'
  <2>1. IF Closing(fd) THEN interest'[fd] = {}
        ELSE /\ interest'[fd] # {}
             /\ "out" \in interest'[fd] <=> clients'[fd].wb # << >>
             /\ "in" \in interest'[fd] => clients'[fd].rb # << >>
             /\ clients'[fd].rb # << >> /\ "in" \notin interest'[fd] => peer'[clients[fd].conn].fin
    <3>1. clients[fd].conn \in Conn
      BY <1>2, SessionType
    <3> QED
      BY <1>2, <1>6, <1>7, <1>16, <1>14, <3>1 DEF InterestInv, InterestMatches
  <2>2. interest'[fd] # {} => "rdhup" \in interest'[fd]
    <3>1. fd \in Fd
      BY <1>2, SessionType
    <3> QED
      BY <1>2, <1>16, <3>1 DEF InterestInv
  <2>3. \A d \in Conn : peer[d].fin => peer'[d].fin
    BY <1>14
  <2> QED
    BY <1>2, <1>8, <1>10, <1>16, <2>1, <2>2, <2>3, InterestStep
<1>19. BuffersInOnePlace'
  <2>1. InOnePlace(wbPool, stack, "write", WriteChains)'
    BY <1>1, <1>13
  <2>2. SameHandlers("read")
    BY <1>1 DEF SameHandlers
  <2>3. InOnePlace(rbPool, stack, "read", ReadChains)
    BY <1>2, BuffersAre
  <2>4. InOnePlace(rbPool, stack, "read", ReadChains)'
    BY <1>1, <1>2, <1>7, <1>10, <1>17, <2>2, <2>3, ReadsKept
  <2> QED
    BY <2>1, <2>4, BuffersAreNext
<1> QED
  BY <1>9, <1>10, <1>17, <1>18, <1>19 DEF ServerInv

\* Some of the numbers from 1 to L are at most L.
LEMMA CountIn ==
    ASSUME NEW L \in Nat, NEW S, S \subseteq 1 .. L
    PROVE  Cardinality(S) \in 0 .. L
<1>1. IsFiniteSet(1 .. L) /\ Cardinality(1 .. L) = L
  BY FS_Interval
<1>2. IsFiniteSet(S) /\ Cardinality(S) <= L
  BY <1>1, FS_Subset
<1> QED
  BY <1>2, FS_CardinalityType

\* A chain cut after its first k buffers.
LEMMA SplitChain ==
    ASSUME NEW chain \in Seq(Buffer), NEW k \in 0 .. Len(chain)
    PROVE  /\ SubSeq(chain, 1, k) \in Seq(Buffer) /\ Len(SubSeq(chain, 1, k)) = k
           /\ \A i \in 1 .. k : SubSeq(chain, 1, k)[i] = chain[i]
           /\ SubSeq(chain, k + 1, Len(chain)) \in Seq(Buffer) /\ Len(SubSeq(chain, k + 1, Len(chain))) = Len(chain) - k
           /\ \A i \in 1 .. Len(chain) - k : SubSeq(chain, k + 1, Len(chain))[i] = chain[i + k]
<1> DEFINE L == Len(chain)
<1>1. L \in Nat /\ \A i \in 1 .. L : chain[i] \in Buffer
  BY LenProperties, ElementOfSeq
<1> HIDE DEF L
<1>2. k \in Nat /\ k <= L
  BY <1>1 DEF L
<1>3. /\ SubSeq(chain, 1, k) \in Seq(Buffer)
      /\ Len(SubSeq(chain, 1, k)) = IF 1 <= k THEN k - 1 + 1 ELSE 0
      /\ \A i \in 1 .. k - 1 + 1 : SubSeq(chain, 1, k)[i] = chain[1 + i - 1]
  <2>1. \A i \in 1 .. k : chain[i] \in Buffer
    BY <1>1, <1>2
  <2> QED
    BY <1>2, <2>1, SubSeqProperties
<1>4. /\ SubSeq(chain, k + 1, L) \in Seq(Buffer)
      /\ Len(SubSeq(chain, k + 1, L)) = IF k + 1 <= L THEN L - (k + 1) + 1 ELSE 0
      /\ \A i \in 1 .. L - (k + 1) + 1 : SubSeq(chain, k + 1, L)[i] = chain[k + 1 + i - 1]
  <2>1. \A i \in k + 1 .. L : chain[i] \in Buffer
    BY <1>1, <1>2
  <2>2. k + 1 \in Int /\ L \in Int
    BY <1>1, <1>2
  <2> QED
    BY <2>1, <2>2, SubSeqProperties
<1>5. (IF 1 <= k THEN k - 1 + 1 ELSE 0) = k /\ (IF k + 1 <= L THEN L - (k + 1) + 1 ELSE 0) = L - k
  BY <1>1, <1>2
<1>6. /\ k - 1 + 1 = k /\ L - (k + 1) + 1 = L - k
      /\ \A i \in 1 .. k : 1 + i - 1 = i
      /\ \A i \in 1 .. L - k : k + 1 + i - 1 = i + k
  BY <1>1, <1>2
<1> QED
  BY <1>3, <1>4, <1>5, <1>6 DEF L

\* The buffers filled are those of chain, with the n bytes from first on added.
ReceivedInto(chain, first, n, filled) ==
    \A i \in 1 .. Len(chain) :
        LET before == RoomTo(chain)[i - 1]
            room   == chain[i].total - Len(chain[i].data)
            into   == Smaller(n - Smaller(n, before), room)
        IN  /\ filled[i].total = chain[i].total
            /\ before \in Nat /\ room \in Nat /\ RoomTo(chain)[i] = before + room
            /\ filled[i].data = chain[i].data \o From(first + before, into)

\* The buffers sent are those of chain, without the first n bytes.
SentFrom(chain, n, sent) ==
    \A i \in 1 .. Len(chain) :
        LET before == DataTo(chain)[i - 1]
        IN  /\ before \in Nat /\ DataTo(chain)[i] = before + Len(chain[i].data)
            /\ sent[i].data = SubSeq(chain[i].data, n - Smaller(n, before) + 1, Len(chain[i].data))

\* What Received makes of a chain.
LEMMA ReceivedIs ==
    ASSUME NEW chain \in Seq(Buffer), Fits(chain), NEW first \in Nat, NEW n \in Nat, NEW filled,
           filled = Received(chain, first, n)
    PROVE  /\ filled \in Seq(Buffer) /\ Len(filled) = Len(chain) /\ Fits(filled)
           /\ \A i \in 1 .. Len(chain) : filled[i].id = chain[i].id
           /\ ReceivedInto(chain, first, n, filled)
<1> DEFINE L == Len(chain)
           R == RoomTo(chain)
           into(i) == Smaller(n - Smaller(n, R[i - 1]), R[i] - R[i - 1])
           new(i) == [chain[i] EXCEPT !.data = chain[i].data \o From(first + R[i - 1], into(i))]
<1>1. L \in Nat /\ DOMAIN chain = 1 .. L
  BY LenProperties
<1>2. filled = [i \in 1 .. L |-> new(i)]
  BY <1>1 DEF Received
<1>3. R \in [0 .. L -> Nat] /\ RoomSums(chain, R)
  BY RoomToSums
<1> HIDE DEF R, L
<1>4. ASSUME NEW i \in 1 .. L
      PROVE  /\ R[i - 1] \in Nat /\ chain[i].total - Len(chain[i].data) \in Nat
             /\ R[i] = R[i - 1] + (chain[i].total - Len(chain[i].data))
             /\ R[i] - R[i - 1] = chain[i].total - Len(chain[i].data)
             /\ new(i) \in Buffer /\ new(i).id = chain[i].id /\ new(i).total = chain[i].total
             /\ new(i).data = chain[i].data \o From(first + R[i - 1], into(i))
             /\ Len(new(i).data) <= new(i).total
  <2>1. i - 1 \in 0 .. L /\ i \in 0 .. L /\ i \in 1 .. Len(chain)
    BY <1>1 DEF L
  <2>2. R[i - 1] \in Nat /\ R[i] \in Nat
    BY <1>3, <2>1
  <2>3. /\ chain[i] \in Buffer /\ chain[i].data \in Seq(Nat) /\ Len(chain[i].data) \in Nat /\ chain[i].total \in Nat
        /\ Len(chain[i].data) <= chain[i].total
    BY <2>1, BufferType DEF Fits
  <2>4. R[i] = R[i - 1] + (chain[i].total - Len(chain[i].data))
    BY <1>3, <2>1 DEF RoomSums
  <2>5. chain[i].total - Len(chain[i].data) \in Nat /\ R[i] - R[i - 1] = chain[i].total - Len(chain[i].data)
    <3>1. PICK x, y, z, t : x = R[i - 1] /\ y = chain[i].total /\ z = Len(chain[i].data) /\ t = R[i]
      OBVIOUS
    <3>2. x \in Nat /\ y \in Nat /\ z \in Nat /\ t \in Nat /\ z <= y /\ t = x + (y - z)
      BY <2>2, <2>3, <2>4, <3>1, Zenon
    <3>3. y - z \in Nat /\ t - x = y - z
      BY <3>2
    <3> QED
      BY <3>1, <3>3, Zenon
  <2>6. into(i) \in Nat /\ into(i) <= chain[i].total - Len(chain[i].data)
    BY <2>2, <2>5 DEF Smaller
  <2> HIDE DEF into
  <2>7. /\ From(first + R[i - 1], into(i)) \in Seq(Nat) /\ Len(From(first + R[i - 1], into(i))) = into(i)
    <3>1. first + R[i - 1] \in Nat
      BY <2>2
    <3> QED
      BY <2>6, <3>1, FromType, Zenon
  <2> DEFINE d == chain[i].data \o From(first + R[i - 1], into(i))
  <2>8. d \in Seq(Nat) /\ Len(d) = Len(chain[i].data) + into(i)
    <3> DEFINE e == From(first + R[i - 1], into(i))
    <3>1. e \in Seq(Nat) /\ Len(e) = into(i)
      BY <2>7
    <3> HIDE DEF e
    <3>2. chain[i].data \o e \in Seq(Nat) /\ Len(chain[i].data \o e) = Len(chain[i].data) + Len(e)
      BY <2>3, <3>1, ConcatProperties
    <3> QED
      BY <3>1, <3>2, Zenon DEF e
  <2>9. new(i) = [chain[i] EXCEPT !.data = d]
    OBVIOUS
  <2> HIDE DEF d, new
  <2>10. new(i) \in Buffer /\ new(i).id = chain[i].id /\ new(i).total = chain[i].total /\ new(i).data = d
    BY <2>3, <2>8, <2>9 DEF Buffer
  <2>11. Len(new(i).data) <= new(i).total
    <3>1. \A x, y, z \in Nat : z <= y - x => x + z <= y
      OBVIOUS
    <3> QED
      BY <2>3, <2>6, <2>8, <2>10, <3>1, Zenon
  <2> QED
    BY <2>2, <2>4, <2>5, <2>10, <2>11 DEF d
<1> HIDE DEF new
<1>5. \A i \in 1 .. L : filled[i] = new(i) /\ filled[i] \in Buffer
  BY <1>2, <1>4
<1>6. filled \in [1 .. L -> Buffer]
  BY <1>2, <1>5
<1>7. filled \in Seq(Buffer) /\ Len(filled) = L
  <2>1. filled \in Seq(Buffer)
    BY <1>1, <1>6
  <2> QED
    BY <1>1, <1>6, <2>1, LenProperties
<1>8. Fits(filled)
  BY <1>4, <1>5, <1>7 DEF Fits
<1>9. ASSUME NEW i \in 1 .. Len(chain)
      PROVE  /\ filled[i].id = chain[i].id /\ filled[i].total = chain[i].total
             /\ R[i - 1] \in Nat /\ chain[i].total - Len(chain[i].data) \in Nat
             /\ R[i] = R[i - 1] + (chain[i].total - Len(chain[i].data))
             /\ filled[i].data = chain[i].data \o From(first + R[i - 1], Smaller(n - Smaller(n, R[i - 1]), chain[i].total - Len(chain[i].data)))
  <2>1. i \in 1 .. L
    BY DEF L
  <2> QED
    BY <1>4, <1>5, <2>1
<1>10. \A i \in 1 .. Len(chain) : filled[i].id = chain[i].id
  BY <1>9
<1>11. ReceivedInto(chain, first, n, filled)
  BY <1>9, Zenon DEF ReceivedInto, R
<1> QED
  BY <1>7, <1>8, <1>10, <1>11, Zenon DEF L

\* What Sent makes of a chain.
LEMMA SentIs ==
    ASSUME NEW chain \in Seq(Buffer), NEW n \in Nat, NEW sent, sent = Sent(chain, n)
    PROVE  /\ sent \in Seq(Buffer) /\ Len(sent) = Len(chain)
           /\ \A i \in 1 .. Len(chain) : sent[i].id = chain[i].id
           /\ SentFrom(chain, n, sent)
<1> DEFINE L == Len(chain)
           D == DataTo(chain)
           new(i) == [chain[i] EXCEPT !.data = SubSeq(chain[i].data, n - Smaller(n, D[i - 1]) + 1, Len(chain[i].data))]
<1>1. L \in Nat /\ DOMAIN chain = 1 .. L
  BY LenProperties
<1>2. sent = [i \in 1 .. L |-> new(i)]
  BY <1>1 DEF Sent
<1>3. D \in [0 .. L -> Nat] /\ DataSums(chain, D)
  BY DataToSums
<1> HIDE DEF D, L
<1>4. ASSUME NEW i \in 1 .. L
      PROVE  /\ D[i - 1] \in Nat /\ D[i] = D[i - 1] + Len(chain[i].data)
             /\ new(i) \in Buffer /\ new(i).id = chain[i].id /\ new(i).total = chain[i].total
             /\ new(i).data = SubSeq(chain[i].data, n - Smaller(n, D[i - 1]) + 1, Len(chain[i].data))
  <2>1. i - 1 \in 0 .. L /\ i \in 0 .. L /\ i \in 1 .. Len(chain)
    BY <1>1 DEF L
  <2>2. D[i - 1] \in Nat
    BY <1>3, <2>1
  <2>3. chain[i] \in Buffer /\ chain[i].data \in Seq(Nat) /\ Len(chain[i].data) \in Nat
    BY <2>1, BufferType
  <2>4. D[i] = D[i - 1] + Len(chain[i].data)
    BY <1>3, <2>1 DEF DataSums
  <2> DEFINE m == n - Smaller(n, D[i - 1]) + 1
             d == SubSeq(chain[i].data, m, Len(chain[i].data))
  <2>5. m \in Nat \ {0}
    BY <2>2 DEF Smaller
  <2> HIDE DEF m
  <2>6. d \in Seq(Nat)
    <3>1. \A k \in m .. Len(chain[i].data) : chain[i].data[k] \in Nat
      BY <2>3, <2>5, ElementOfSeq
    <3> QED
      BY <2>3, <2>5, <3>1, SubSeqProperties
  <2>7. new(i) = [chain[i] EXCEPT !.data = d]
    BY DEF m
  <2> HIDE DEF d, new
  <2>8. new(i) \in Buffer /\ new(i).id = chain[i].id /\ new(i).total = chain[i].total /\ new(i).data = d
    BY <2>3, <2>6, <2>7 DEF Buffer
  <2> QED
    BY <2>2, <2>4, <2>8 DEF d, m
<1> HIDE DEF new
<1>5. \A i \in 1 .. L : sent[i] = new(i) /\ sent[i] \in Buffer
  BY <1>2, <1>4
<1>6. sent \in [1 .. L -> Buffer]
  BY <1>2, <1>5
<1>7. sent \in Seq(Buffer) /\ Len(sent) = L
  <2>1. sent \in Seq(Buffer)
    BY <1>1, <1>6
  <2> QED
    BY <1>1, <1>6, <2>1, LenProperties
<1>8. ASSUME NEW i \in 1 .. Len(chain)
      PROVE  /\ sent[i].id = chain[i].id /\ sent[i].total = chain[i].total
             /\ D[i - 1] \in Nat /\ D[i] = D[i - 1] + Len(chain[i].data)
             /\ sent[i].data = SubSeq(chain[i].data, n - Smaller(n, D[i - 1]) + 1, Len(chain[i].data))
  <2>1. i \in 1 .. L
    BY DEF L
  <2> QED
    BY <1>4, <1>5, <2>1
<1>9. \A i \in 1 .. Len(chain) : sent[i].id = chain[i].id
  BY <1>8
<1>10. SentFrom(chain, n, sent)
  BY <1>8, Zenon DEF SentFrom, D
<1> QED
  BY <1>7, <1>9, <1>10, Zenon DEF L

\* The outermost handler hands over the first buffers of a chain, if there are any.
LEMMA HandOver ==
    ASSUME TypeInv, FrameInv, stack = << >>, Live' = Live, NEW kind \in {"read", "write"},
           NEW fd \in Live, NEW c \in Conn, NEW l \in Listener, NEW rest \in Seq(Buffer), NEW k \in Nat, Len(rest) = k,
           IF k > 0 THEN Push(Frame(kind, fd, c, l, rest)) ELSE UNCHANGED stack
    PROVE  /\ FrameInv' /\ stack' \in Seq(FrameSet) /\ \A other : other # kind => SameHandlers(other)
           /\ Pending' = Pending /\ (\A m : Accepting(m)' <=> Accepting(m)) /\ \A g : Closing(g)' <=> Closing(g)
           /\ DOMAIN stack = {}
           /\ IF k = 0 THEN DOMAIN stack' = {} ELSE DOMAIN stack' = {1} /\ stack'[1].kind = kind /\ stack'[1].rest = rest
<1>0. stack \in Seq(FrameSet) /\ DOMAIN stack = {}
  BY DEF TypeInv
<1>1. CASE k > 0
  <2> DEFINE frame == Frame(kind, fd, c, l, rest)
  <2>1. fd \in Nat /\ c \in Nat
    BY SessionType, ServerAssumption DEF Conn
  <2>2. frame \in FrameSet /\ frame.kind = kind /\ frame.rest = rest /\ frame.conn = c
    BY <2>1 DEF Frame, FrameSet
  <2>3. rest # << >>
    <3>1. Len(<< >>) = 0
      OBVIOUS
    <3> QED
      BY <1>1, <3>1
  <2>4. Push(frame)
    BY <1>1
  <2> HIDE DEF frame
  <2>5. FrameInv' /\ stack' \in Seq(FrameSet) /\ \A other : other # frame.kind => SameHandlers(other)
    BY <2>2, <2>3, <2>4, PushFrames
  <2>6. /\ Len(stack') = Len(stack) + 1 /\ stack'[Len(stack) + 1] = frame
        /\ Pending' = Pending /\ \A m : Accepting(m)' <=> Accepting(m)
        /\ \A g : Closing(g)' <=> Closing(g) \/ (frame.kind \in {"close", "error"} /\ frame.fd = g)
    BY <1>0, <2>2, <2>4, PushKeeps
  <2>7. Len(stack) = 0
    OBVIOUS
  <2>8. Len(stack') = 1 /\ stack'[1] = frame
    BY <2>6, <2>7
  <2>9. DOMAIN stack' = {1}
    <3>1. DOMAIN stack' = 1 .. 1
      BY <2>5, <2>8, LenProperties
    <3> QED
      BY <3>1
  <2> QED
    BY <1>0, <1>1, <2>2, <2>5, <2>6, <2>8, <2>9
<1>2. CASE k = 0
  <2>1. stack' = stack
    BY <1>2
  <2> QED
    BY <1>0, <1>2, <2>1 DEF FrameInv, SameHandlers, Pending, Accepting, Closing
<1> QED
  BY <1>1, <1>2

\* Those entries of a growing function that are at most n are the first ones.
LEMMA PrefixCount ==
    ASSUME NEW L \in Nat, NEW D \in [0 .. L -> Nat], \A i \in 0 .. L : \A j \in i .. L : D[i] <= D[j],
           NEW n \in Nat, D[0] <= n, NEW count, count = Cardinality({i \in 1 .. L : D[i] <= n})
    PROVE  count \in 0 .. L /\ (\A i \in 0 .. count : D[i] <= n) /\ \A i \in count + 1 .. L : n < D[i]
<1> DEFINE T == {i \in 0 .. L : n < D[i]}
<1>1. CASE T = {}
  <2>1. \A i \in 0 .. L : D[i] <= n
    <3>1. \A i \in 0 .. L : D[i] \in Nat /\ ~(n < D[i])
      BY <1>1
    <3>2. \A x \in Nat : ~(n < x) => x <= n
      OBVIOUS
    <3> QED
      BY <3>1, <3>2
  <2>2. {i \in 1 .. L : D[i] <= n} = 1 .. L
    BY <2>1
  <2>3. Cardinality(1 .. L) = L
    BY FS_Interval
  <2>4. L \in 0 .. L /\ L + 1 .. L = {}
    OBVIOUS
  <2> QED
    BY <2>1, <2>2, <2>3, <2>4, Zenon
<1>2. CASE T # {}
  <2>1. PICK m \in T : \A y \in T : m <= y
    <3>1. T \subseteq Nat
      OBVIOUS
    <3> HIDE DEF T
    <3> QED
      BY <1>2, <3>1, LeastExists
  <2>2. m \in 1 .. L /\ n < D[m]
    <3>1. m \in 0 .. L /\ n < D[m]
      BY <2>1
    <3>2. m # 0
      <4>1. D[0] \in Nat
        OBVIOUS
      <4> QED
        BY <3>1, <4>1
    <3> QED
      BY <3>1, <3>2
  <2>3. PICK k : k = m - 1 /\ k \in Nat /\ m = k + 1 /\ k \in 0 .. L
    BY <2>2
  <2>4. ASSUME NEW i \in 0 .. k PROVE D[i] <= n
    <3>1. i \in 0 .. L /\ ~(m <= i)
      BY <2>2, <2>3
    <3>2. i \notin T
      BY <2>1, <3>1
    <3>3. ~(n < D[i]) /\ D[i] \in Nat
      BY <3>1, <3>2
    <3> QED
      BY <3>3
  <2>5. ASSUME NEW i \in k + 1 .. L PROVE n < D[i]
    <3>1. m \in 0 .. L /\ i \in m .. L /\ i \in 0 .. L
      BY <2>2, <2>3
    <3>2. D[m] <= D[i] /\ D[m] \in Nat /\ D[i] \in Nat
      BY <3>1
    <3> QED
      BY <2>2, <3>2
  <2>6. {i \in 1 .. L : D[i] <= n} = 1 .. k
    <3>1. ASSUME NEW i \in 1 .. L PROVE D[i] <= n <=> i \in 1 .. k
      <4>1. D[i] \in Nat
        OBVIOUS
      <4>2. CASE i <= k
        BY <2>3, <2>4, <4>2
      <4>3. CASE ~(i <= k)
        <5>1. i \in k + 1 .. L
          BY <2>3, <4>3
        <5>2. n < D[i]
          BY <2>5, <5>1
        <5> QED
          BY <4>1, <4>3, <5>2
      <4> QED
        BY <4>2, <4>3
    <3>2. 1 .. k \subseteq 1 .. L
      BY <2>3
    <3> QED
      BY <3>1, <3>2
  <2>7. Cardinality(1 .. k) = k
    BY <2>3, FS_Interval
  <2> QED
    BY <2>3, <2>4, <2>5, <2>6, <2>7
<1> QED
  BY <1>1, <1>2

\* OnRead receives n bytes for fd, which fill the first done buffers of its chain.
Reads(fd, c, chain, L, n, done, filled, rest, kept) ==
    /\ c = clients[fd].conn /\ chain = clients[fd].rb /\ L = Len(chain)
    /\ filled = Received(chain, peer[c].taken + 1, n)
    /\ rest = SubSeq(filled, 1, done) /\ kept = SubSeq(filled, done + 1, L)
    /\ clients' = [clients EXCEPT ![fd].rb = kept]
    /\ peer' = [peer EXCEPT ![c].taken = @ + n]
    /\ interest' = IF L > 0 /\ (done = L \/ peer[c].fin) THEN DelEvent(interest, fd, "in") ELSE interest
    /\ IF done > 0 THEN Push(Frame("read", fd, c, clients[fd].listen, rest)) ELSE UNCHANGED stack
    /\ UNCHANGED <<conns, rbPool, wbPool, loop, stop, calls, backlog, made>>

\* What OnRead does to a session keeps the invariant.
LEMMA ReadStep ==
    ASSUME ServerInv, stack = << >>, NEW fd \in Live, NEW c, NEW chain, NEW L, NEW n \in Nat, NEW done \in 0 .. L,
           NEW filled, NEW rest, NEW kept, Reads(fd, c, chain, L, n, done, filled, rest, kept),
           n <= peer[c].sent - peer[c].taken, events' \in Seq(Event)
    PROVE  ServerInv'
<1>a. c = clients[fd].conn /\ chain = clients[fd].rb /\ L = Len(chain)
  BY DEF Reads
<1>b. filled = Received(chain, peer[c].taken + 1, n) /\ rest = SubSeq(filled, 1, done) /\ kept = SubSeq(filled, done + 1, L)
  BY DEF Reads
<1>c. clients' = [clients EXCEPT ![fd].rb = kept]
  BY DEF Reads
<1>d. peer' = [peer EXCEPT ![c].taken = @ + n]
  BY DEF Reads
<1>e. interest' = IF L > 0 /\ (done = L \/ peer[c].fin) THEN DelEvent(interest, fd, "in") ELSE interest
  BY DEF Reads
<1>f. IF done > 0 THEN Push(Frame("read", fd, c, clients[fd].listen, rest)) ELSE UNCHANGED stack
  BY DEF Reads
<1>g. UNCHANGED <<conns, rbPool, wbPool, loop, stop, calls, backlog, made>>
  BY DEF Reads
<1>1. TypeInv /\ ChainInv /\ FrameInv /\ ConnInv /\ PendingInv /\ InterestInv /\ CountInv /\ BuffersInOnePlace
  BY DEF ServerInv
<1>2. /\ c \in Conn /\ chain \in Seq(Buffer) /\ fd \in Fd /\ fd \in Nat /\ fd \notin Listener /\ clients[fd].listen \in Listener
      /\ peer[c] \in PeerSet /\ interest[fd] \in SUBSET Conditions
  BY <1>1, <1>a, SessionType
<1>3. peer[c].taken \in Nat /\ peer[c].sent \in Nat /\ L \in Nat /\ done \in Nat /\ done <= L
  <2>1. L \in Nat
    BY <1>2, <1>a, LenProperties
  <2>2. peer[c].taken \in Nat /\ peer[c].sent \in Nat
    BY <1>2, PeerType
  <2> QED
    BY <2>1, <2>2
<1>4. /\ filled \in Seq(Buffer) /\ Len(filled) = L /\ Fits(filled)
      /\ \A i \in 1 .. L : filled[i].id = chain[i].id
  <2>1. Fits(chain)
    BY <1>1, <1>a DEF ChainInv
  <2>2. PICK first : first = peer[c].taken + 1 /\ first \in Nat
    BY <1>3
  <2>3. filled = Received(chain, first, n)
    BY <1>b, <2>2, Zenon
  <2>4. /\ filled \in Seq(Buffer) /\ Len(filled) = Len(chain) /\ Fits(filled)
        /\ \A i \in 1 .. Len(chain) : filled[i].id = chain[i].id
    BY <1>2, <2>1, <2>2, <2>3, ReceivedIs
  <2> QED
    BY <1>a, <2>4, Zenon
<1>5. /\ rest \in Seq(Buffer) /\ Len(rest) = done /\ \A i \in 1 .. done : rest[i] = filled[i]
      /\ kept \in Seq(Buffer) /\ Len(kept) = L - done /\ \A i \in 1 .. L - done : kept[i] = filled[i + done]
  BY <1>4, <1>b, SplitChain
<1>8. /\ Live' = Live /\ clients' \in [Live -> Session]
      /\ \A f \in Live : /\ clients'[f].conn = clients[f].conn /\ clients'[f].listen = clients[f].listen
                         /\ clients'[f].wb = clients[f].wb
                         /\ clients'[f].rb = IF f = fd THEN kept ELSE clients[f].rb
  BY <1>1, <1>5, <1>c, ReadsChanged
<1>9. SameSessions /\ \A f \in Live : f # fd => clients'[f] = clients[f]
  BY <1>1, <1>c, <1>8 DEF SameSessions, TypeInv
<1>10. /\ FrameInv' /\ stack' \in Seq(FrameSet) /\ \A other : other # "read" => SameHandlers(other)
       /\ Pending' = Pending /\ (\A m : Accepting(m)' <=> Accepting(m)) /\ \A g : Closing(g)' <=> Closing(g)
       /\ DOMAIN stack = {}
       /\ IF done = 0 THEN DOMAIN stack' = {} ELSE DOMAIN stack' = {1} /\ stack'[1].kind = "read" /\ stack'[1].rest = rest
  <2>1. PICK l : l = clients[fd].listen
    OBVIOUS
  <2>2. IF done > 0 THEN Push(Frame("read", fd, c, l, rest)) ELSE UNCHANGED stack
    BY <1>f, <2>1, Zenon
  <2>3. TypeInv /\ FrameInv /\ Live' = Live
    BY <1>1, <1>8, Zenon
  <2>4. c \in Conn /\ l \in Listener /\ rest \in Seq(Buffer) /\ done \in Nat /\ Len(rest) = done
    BY <1>2, <1>3, <1>5, <2>1, Zenon
  <2> QED
    BY <2>2, <2>3, <2>4, HandOver
<1>11. ChainInv'
  <2>1. Fits(kept)
    <3>1. ASSUME NEW i \in 1 .. L - done PROVE Len(kept[i].data) <= kept[i].total
      <4>1. i + done \in 1 .. Len(filled) /\ kept[i] = filled[i + done]
        BY <1>3, <1>4, <1>5
      <4> QED
        BY <1>4, <4>1 DEF Fits
    <3> QED
      BY <1>5, <3>1 DEF Fits
  <2> QED
    BY <1>1, <1>8, <2>1 DEF ChainInv
<1>12. /\ peer' \in [Conn -> PeerSet] /\ \A d \in Conn : peer'[d].taken <= peer'[d].sent
       /\ \A d \in Conn : peer'[d].fin = peer[d].fin
  <2>1. peer \in [Conn -> PeerSet] /\ \A d \in Conn : peer[d].taken <= peer[d].sent
    BY <1>1 DEF TypeInv
  <2> DEFINE q == peer[c].taken + n
             p == [peer[c] EXCEPT !.taken = q]
  <2>2. q \in Nat /\ q <= peer[c].sent
    BY <1>3
  <2>3. peer' = [peer EXCEPT ![c] = p]
    BY <1>d
  <2> HIDE DEF q
  <2>4. p \in PeerSet /\ p.taken = q /\ p.sent = peer[c].sent /\ p.fin = peer[c].fin
    BY <1>2, <2>2, PeerType DEF PeerSet
  <2> HIDE DEF p
  <2> QED
    BY <1>2, <2>1, <2>2, <2>3, <2>4
<1>13. interest \in [Listener \cup Fd -> SUBSET Conditions]
  BY <1>1 DEF TypeInv
<1>14. /\ interest' \in [Listener \cup Fd -> SUBSET Conditions]
       /\ \A x \in Listener \cup Fd : x # fd => interest'[x] = interest[x]
       /\ \A l \in Listener : interest'[l] = interest[l]
       /\ interest'[fd] = IF L > 0 /\ (done = L \/ peer[c].fin) THEN interest[fd] \ {"in"} ELSE interest[fd]
  BY <1>2, <1>13, <1>e DEF DelEvent
<1>15. TypeInv' /\ ConnInv' /\ PendingInv' /\ CountInv'
  <2>1. /\ rbPool' \in PoolSet /\ rbPool'.free \subseteq 1 .. rbPool'.all
        /\ wbPool' \in PoolSet /\ wbPool'.free \subseteq 1 .. wbPool'.all /\ calls' \in Nat
    BY <1>1, <1>g DEF TypeInv
  <2> QED
    BY <1>g, <1>8, <1>9, <1>10, <1>12, <1>14, <2>1, ChainStep
<1>16. ~Closing(fd)
  BY <1>10 DEF Closing
<1>17. InterestInv'
  <2>1. /\ interest[fd] # {} /\ "rdhup" \in interest[fd]
        /\ "out" \in interest[fd] <=> clients[fd].wb # << >>
        /\ "in" \in interest[fd] => chain # << >>
        /\ chain # << >> /\ "in" \notin interest[fd] => peer[c].fin
    BY <1>1, <1>2, <1>16, <1>a DEF InterestInv, InterestMatches
  <2>2. (chain # << >> => L > 0) /\ (kept = << >> => L - done = 0) /\ (L - done = 0 => kept = << >>)
    <3>1. (chain # << >> => L > 0) /\ (kept # << >> => Len(kept) > 0)
      BY <1>2, <1>5, <1>a, EmptySeq
    <3>2. Len(<< >>) = 0
      OBVIOUS
    <3> QED
      BY <1>5, <3>1, <3>2
  <2>3. L > 0 => chain # << >>
    <3>1. Len(<< >>) = 0
      OBVIOUS
    <3> QED
      BY <1>a, <3>1
  <2>4. done = L <=> L - done = 0
    BY <1>3
  <2>5. "rdhup" \in interest'[fd] /\ ("out" \in interest'[fd] <=> "out" \in interest[fd])
    BY <1>14, <2>1
  <2>6. "in" \in interest'[fd] => kept # << >>
    BY <1>3, <1>14, <2>1, <2>2, <2>4
  <2>7. kept # << >> /\ "in" \notin interest'[fd] => peer[c].fin
    BY <1>3, <1>14, <2>1, <2>2, <2>3, <2>4
  <2>8. IF Closing(fd) THEN interest'[fd] = {}
        ELSE /\ interest'[fd] # {}
             /\ "out" \in interest'[fd] <=> clients'[fd].wb # << >>
             /\ "in" \in interest'[fd] => clients'[fd].rb # << >>
             /\ clients'[fd].rb # << >> /\ "in" \notin interest'[fd] => peer'[clients[fd].conn].fin
    BY <1>2, <1>8, <1>12, <1>16, <1>a, <2>1, <2>5, <2>6, <2>7
  <2> QED
    BY <1>1, <1>9, <1>10, <1>12, <1>14, <2>5, <2>8, InterestStep
<1>18. Holders(stack, "read", ReadChains) /\ Holders(stack', "read", ReadChains')
  BY <1>1, <1>10, <1>15, ServerHolders, ServerHoldersNext
<1>19. SplitOff(stack, ReadChains, stack', ReadChains', "read", fd, L, done)
  <2>1. /\ DOMAIN ReadChains = Live /\ DOMAIN ReadChains' = Live /\ ReadChains[fd] = chain /\ ReadChains'[fd] = kept
        /\ \A f \in Live : f # fd => ReadChains'[f] = ReadChains[f]
    BY <1>8, <1>a DEF ReadChains
  <2>2. DOMAIN chain = 1 .. L /\ DOMAIN kept = 1 .. L - done /\ DOMAIN rest = 1 .. done
    BY <1>2, <1>5, <1>a, LenProperties
  <2>3. ASSUME NEW k \in 1 .. L - done PROVE kept[k].id = chain[k + done].id
    <3>1. k + done \in 1 .. L
      BY <1>3
    <3> QED
      BY <1>4, <1>5, <3>1
  <2>4. ASSUME NEW k \in 1 .. done PROVE rest[k].id = chain[k].id
    <3>1. k \in 1 .. L
      BY <1>3
    <3> QED
      BY <1>4, <1>5, <3>1
  <2> QED
    BY <1>2, <1>3, <1>10, <2>1, <2>2, <2>3, <2>4 DEF SplitOff
<1>20. BuffersInOnePlace'
  <2>1. InOnePlace(rbPool, stack, "read", ReadChains) /\ InOnePlace(wbPool, stack, "write", WriteChains)
    BY <1>1, BuffersAre
  <2>2. InOnePlace(rbPool, stack', "read", ReadChains')
    BY <1>18, <1>19, <2>1, SplitInOnePlace
  <2>3. InOnePlace(rbPool, stack, "read", ReadChains)'
    BY <1>g, <2>2
  <2>4. InOnePlace(wbPool, stack, "write", WriteChains)'
    BY <1>1, <1>8, <1>10, <1>15, <1>g, <2>1, WritesKept
  <2> QED
    BY <2>3, <2>4, BuffersAreNext
<1> QED
  BY <1>10, <1>11, <1>15, <1>17, <1>20 DEF ServerInv

\* n bytes fill the first k of the L buffers of a chain, and no more of them.
Fills(chain, L, n, k) ==
    /\ n <= RoomTo(chain)[L]
    /\ \A i \in 0 .. k : RoomTo(chain)[i] <= n
    /\ \A i \in k + 1 .. L : n < RoomTo(chain)[i]

\* OnRead, unless it throws, is such a step.
LEMMA OnReadReads ==
    ASSUME ServerInv, OnRead, ~Throw
    PROVE  /\ stack = << >> /\ NextFd \in Live /\ events' \in Seq(Event)
           /\ \E c, chain, L, n, done, filled, rest, kept :
                 /\ Reads(NextFd, c, chain, L, n, done, filled, rest, kept)
                 /\ n \in Nat /\ n <= peer[c].sent - peer[c].taken
                 /\ done \in 0 .. L /\ Fills(chain, L, n, done)
<1>1. stack = << >> /\ events # << >> /\ Head(events).ev = "CFEV_READ"
  BY DEF OnRead, NextIs, Idle
<1>2. TypeInv /\ ChainInv
  BY DEF ServerInv
<1>3. NextFd \in Live
  BY DEF OnRead
<1> DEFINE c == clients[NextFd].conn
           chain == clients[NextFd].rb
           L == Len(chain)
           n == Smaller(peer[c].sent - peer[c].taken, RoomTo(chain)[L])
           done == Cardinality({i \in 1 .. L : RoomTo(chain)[i] <= n})
           filled == Received(chain, peer[c].taken + 1, n)
<1>4. /\ Reads(NextFd, c, chain, L, n, done, filled, SubSeq(filled, 1, done), SubSeq(filled, done + 1, L))
      /\ events' = Tail(events)
  BY <1>3, Zenon DEF OnRead, Reads
<1>5. chain \in Seq(Buffer) /\ Fits(chain) /\ peer[c] \in PeerSet /\ c \in Conn
  BY <1>2, <1>3, SessionType DEF ChainInv
<1>6. PICK R : /\ R = RoomTo(chain) /\ R \in [0 .. L -> Nat] /\ R[0] = 0
               /\ \A i \in 0 .. L : \A j \in i .. L : R[i] <= R[j]
  BY <1>5, RoomToSums DEF RoomSums
<1>7. L \in Nat /\ R[L] \in Nat
  <2>1. L \in Nat
    BY <1>5, LenProperties
  <2> QED
    BY <1>6, <2>1
<1>8. n \in Nat /\ n <= peer[c].sent - peer[c].taken /\ n <= R[L]
  <2>1. peer[c].sent \in Nat /\ peer[c].taken \in Nat /\ peer[c].taken <= peer[c].sent
    BY <1>2, <1>5, PeerType DEF TypeInv
  <2>2. PICK x, s, t : x = R[L] /\ s = peer[c].sent /\ t = peer[c].taken
    OBVIOUS
  <2>3. x \in Nat /\ s \in Nat /\ t \in Nat /\ t <= s
    BY <1>7, <2>1, <2>2, Zenon
  <2>4. PICK m : m = Smaller(s - t, x)
    OBVIOUS
  <2>5. m \in Nat /\ m <= s - t /\ m <= x
    BY <2>3, <2>4 DEF Smaller
  <2>6. n = m
    BY <1>6, <2>2, <2>4, Zenon
  <2> QED
    BY <2>2, <2>5, <2>6, Zenon
<1>9. PICK k, m : k = done /\ m = n
  OBVIOUS
<1>10. k = Cardinality({i \in 1 .. L : R[i] <= m}) /\ m \in Nat /\ R[0] <= m /\ m <= R[L]
  <2>1. done = Cardinality({i \in 1 .. L : R[i] <= n})
    BY <1>6
  <2> HIDE DEF c, chain, L, n, done, filled
  <2>2. R[0] <= n
    BY <1>6, <1>8
  <2> QED
    BY <1>8, <1>9, <2>1, <2>2
<1> HIDE DEF c, chain, L, n, done, filled
<1>11. k \in 0 .. L /\ (\A i \in 0 .. k : R[i] <= m) /\ \A i \in k + 1 .. L : m < R[i]
  BY <1>6, <1>7, <1>10, PrefixCount
<1>12. Fills(chain, L, m, k)
  BY <1>6, <1>10, <1>11, Zenon DEF Fills
<1>13. events' \in Seq(Event)
  BY <1>1, <1>2, <1>4, NextEvent
<1> QED
  BY <1>1, <1>3, <1>4, <1>8, <1>9, <1>11, <1>12, <1>13, Zenon

\* OnRead keeps the invariant.
LEMMA OnReadKeeps == ASSUME ServerInv, OnRead PROVE ServerInv'
<1>1. CASE Throw
  BY <1>1, LoopKeeps
<1>2. CASE ~Throw
  <2>1. stack = << >> /\ NextFd \in Live /\ events' \in Seq(Event)
    BY <1>2, OnReadReads
  <2>2. PICK c, chain, L, n, done, filled, rest, kept :
              /\ Reads(NextFd, c, chain, L, n, done, filled, rest, kept)
              /\ n \in Nat /\ n <= peer[c].sent - peer[c].taken
              /\ done \in 0 .. L /\ Fills(chain, L, n, done)
    BY <1>2, OnReadReads, Zenon
  <2>3. n \in Nat /\ done \in 0 .. L
    BY <2>2
  <2>4. Reads(NextFd, c, chain, L, n, done, filled, rest, kept) /\ n <= peer[c].sent - peer[c].taken
    BY <2>2, Zenon
  <2> QED
    BY <2>1, <2>3, <2>4, ReadStep, Zenon
<1> QED
  BY <1>1, <1>2

\* OnWrite sends the bytes out, n of them, for fd; they empty the first done buffers of its chain.
Writes(fd, c, chain, L, n, done, sent, rest, kept, out) ==
    /\ c = clients[fd].conn /\ chain = clients[fd].wb /\ L = Len(chain)
    /\ sent = Sent(chain, n)
    /\ rest = SubSeq(sent, 1, done) /\ kept = SubSeq(sent, done + 1, L)
    /\ clients' = [clients EXCEPT ![fd].wb = kept]
    /\ peer' = [peer EXCEPT ![c].wire = @ \o out]
    /\ interest' = IF L > 0 /\ done = L THEN DelEvent(interest, fd, "out") ELSE interest
    /\ IF done > 0 THEN Push(Frame("write", fd, c, clients[fd].listen, rest)) ELSE UNCHANGED stack
    /\ UNCHANGED <<conns, rbPool, wbPool, loop, stop, calls, backlog, made>>

\* What OnWrite does to a session keeps the invariant.
LEMMA WriteStep ==
    ASSUME ServerInv, stack = << >>, NEW fd \in Live, NEW c, NEW chain, NEW L, NEW n \in Nat, NEW done \in 0 .. L,
           NEW sent, NEW rest, NEW kept, NEW out \in Seq(Nat), Writes(fd, c, chain, L, n, done, sent, rest, kept, out),
           events' \in Seq(Event)
    PROVE  ServerInv'
<1>a. c = clients[fd].conn /\ chain = clients[fd].wb /\ L = Len(chain)
  BY DEF Writes
<1>b. sent = Sent(chain, n) /\ rest = SubSeq(sent, 1, done) /\ kept = SubSeq(sent, done + 1, L)
  BY DEF Writes
<1>c. clients' = [clients EXCEPT ![fd].wb = kept]
  BY DEF Writes
<1>d. peer' = [peer EXCEPT ![c].wire = @ \o out]
  BY DEF Writes
<1>e. interest' = IF L > 0 /\ done = L THEN DelEvent(interest, fd, "out") ELSE interest
  BY DEF Writes
<1>f. IF done > 0 THEN Push(Frame("write", fd, c, clients[fd].listen, rest)) ELSE UNCHANGED stack
  BY DEF Writes
<1>g. UNCHANGED <<conns, rbPool, wbPool, loop, stop, calls, backlog, made>>
  BY DEF Writes
<1>1. TypeInv /\ ChainInv /\ FrameInv /\ ConnInv /\ PendingInv /\ InterestInv /\ CountInv /\ BuffersInOnePlace
  BY DEF ServerInv
<1>2. /\ c \in Conn /\ chain \in Seq(Buffer) /\ fd \in Fd /\ fd \in Nat /\ fd \notin Listener /\ clients[fd].listen \in Listener
      /\ peer[c] \in PeerSet /\ interest[fd] \in SUBSET Conditions
  BY <1>1, <1>a, SessionType
<1>3. peer[c].taken \in Nat /\ peer[c].sent \in Nat /\ L \in Nat /\ done \in Nat /\ done <= L
  <2>1. L \in Nat
    BY <1>2, <1>a, LenProperties
  <2>2. peer[c].taken \in Nat /\ peer[c].sent \in Nat
    BY <1>2, PeerType
  <2> QED
    BY <2>1, <2>2
<1>4. sent \in Seq(Buffer) /\ Len(sent) = L /\ \A i \in 1 .. L : sent[i].id = chain[i].id
  BY <1>2, <1>a, <1>b, SentIs
<1>5. /\ rest \in Seq(Buffer) /\ Len(rest) = done /\ \A i \in 1 .. done : rest[i] = sent[i]
      /\ kept \in Seq(Buffer) /\ Len(kept) = L - done /\ \A i \in 1 .. L - done : kept[i] = sent[i + done]
  BY <1>4, <1>b, SplitChain
<1>8. /\ Live' = Live /\ clients' \in [Live -> Session]
      /\ \A f \in Live : /\ clients'[f].conn = clients[f].conn /\ clients'[f].listen = clients[f].listen
                         /\ clients'[f].rb = clients[f].rb
                         /\ clients'[f].wb = IF f = fd THEN kept ELSE clients[f].wb
  BY <1>1, <1>5, <1>c, WritesChanged
<1>9. SameSessions /\ \A f \in Live : f # fd => clients'[f] = clients[f]
  BY <1>1, <1>c, <1>8 DEF SameSessions, TypeInv
<1>10. /\ FrameInv' /\ stack' \in Seq(FrameSet) /\ \A other : other # "write" => SameHandlers(other)
       /\ Pending' = Pending /\ (\A m : Accepting(m)' <=> Accepting(m)) /\ \A g : Closing(g)' <=> Closing(g)
       /\ DOMAIN stack = {}
       /\ IF done = 0 THEN DOMAIN stack' = {} ELSE DOMAIN stack' = {1} /\ stack'[1].kind = "write" /\ stack'[1].rest = rest
  <2>1. PICK l : l = clients[fd].listen
    OBVIOUS
  <2>2. IF done > 0 THEN Push(Frame("write", fd, c, l, rest)) ELSE UNCHANGED stack
    BY <1>f, <2>1, Zenon
  <2>3. TypeInv /\ FrameInv /\ Live' = Live
    BY <1>1, <1>8, Zenon
  <2>4. c \in Conn /\ l \in Listener /\ rest \in Seq(Buffer) /\ done \in Nat /\ Len(rest) = done
    BY <1>2, <1>3, <1>5, <2>1, Zenon
  <2> QED
    BY <2>2, <2>3, <2>4, HandOver
<1>11. ChainInv'
  BY <1>1, <1>8 DEF ChainInv
<1>12. /\ peer' \in [Conn -> PeerSet] /\ \A d \in Conn : peer'[d].taken <= peer'[d].sent
       /\ \A d \in Conn : peer'[d].fin = peer[d].fin
  <2>1. peer \in [Conn -> PeerSet] /\ \A d \in Conn : peer[d].taken <= peer[d].sent
    BY <1>1 DEF TypeInv
  <2> DEFINE w == peer[c].wire \o out
             p == [peer[c] EXCEPT !.wire = w]
  <2>2. w \in Seq(Nat)
    <3>1. peer[c].wire \in Seq(Nat)
      BY <1>2, PeerType
    <3> QED
      BY <3>1, ConcatProperties
  <2>3. peer' = [peer EXCEPT ![c] = p]
    BY <1>d
  <2> HIDE DEF w
  <2>4. p \in PeerSet /\ p.taken = peer[c].taken /\ p.sent = peer[c].sent /\ p.fin = peer[c].fin
    BY <1>2, <2>2, PeerType DEF PeerSet
  <2> HIDE DEF p
  <2> QED
    BY <1>2, <2>1, <2>3, <2>4
<1>13. interest \in [Listener \cup Fd -> SUBSET Conditions]
  BY <1>1 DEF TypeInv
<1>14. /\ interest' \in [Listener \cup Fd -> SUBSET Conditions]
       /\ \A x \in Listener \cup Fd : x # fd => interest'[x] = interest[x]
       /\ \A l \in Listener : interest'[l] = interest[l]
       /\ interest'[fd] = IF L > 0 /\ done = L THEN interest[fd] \ {"out"} ELSE interest[fd]
  BY <1>2, <1>13, <1>e DEF DelEvent
<1>15. TypeInv' /\ ConnInv' /\ PendingInv' /\ CountInv'
  <2>1. /\ rbPool' \in PoolSet /\ rbPool'.free \subseteq 1 .. rbPool'.all
        /\ wbPool' \in PoolSet /\ wbPool'.free \subseteq 1 .. wbPool'.all /\ calls' \in Nat
    BY <1>1, <1>g DEF TypeInv
  <2> QED
    BY <1>g, <1>8, <1>9, <1>10, <1>12, <1>14, <2>1, ChainStep
<1>16. ~Closing(fd)
  BY <1>10 DEF Closing
<1>17. InterestInv'
  <2>1. /\ interest[fd] # {} /\ "rdhup" \in interest[fd]
        /\ "out" \in interest[fd] <=> chain # << >>
        /\ "in" \in interest[fd] => clients[fd].rb # << >>
        /\ clients[fd].rb # << >> /\ "in" \notin interest[fd] => peer[c].fin
    BY <1>1, <1>2, <1>16, <1>a DEF InterestInv, InterestMatches
  <2>2. (chain # << >> <=> L > 0) /\ (kept # << >> <=> L - done > 0)
    <3>1. (chain # << >> => L > 0) /\ (kept # << >> => Len(kept) > 0)
      BY <1>2, <1>5, <1>a, EmptySeq
    <3>2. Len(<< >>) = 0
      OBVIOUS
    <3>3. (chain = << >> => L = 0) /\ (kept = << >> => L - done = 0)
      BY <1>5, <1>a, <3>2, Zenon
    <3>4. (L > 0 => L # 0) /\ (L - done > 0 => L - done # 0)
      BY <1>3
    <3> QED
      BY <1>5, <3>1, <3>3, <3>4, Zenon
  <2>3. L - done > 0 <=> L > 0 /\ done # L
    BY <1>3
  <2>4. "rdhup" \in interest'[fd] /\ ("in" \in interest'[fd] <=> "in" \in interest[fd])
    BY <1>14, <2>1
  <2>5. "out" \in interest'[fd] <=> kept # << >>
    BY <1>14, <2>1, <2>2, <2>3
  <2>6. IF Closing(fd) THEN interest'[fd] = {}
        ELSE /\ interest'[fd] # {}
             /\ "out" \in interest'[fd] <=> clients'[fd].wb # << >>
             /\ "in" \in interest'[fd] => clients'[fd].rb # << >>
             /\ clients'[fd].rb # << >> /\ "in" \notin interest'[fd] => peer'[clients[fd].conn].fin
    BY <1>2, <1>8, <1>12, <1>16, <1>a, <2>1, <2>4, <2>5
  <2> QED
    BY <1>1, <1>9, <1>10, <1>12, <1>14, <2>4, <2>6, InterestStep
<1>18. Holders(stack, "write", WriteChains) /\ Holders(stack', "write", WriteChains')
  BY <1>1, <1>10, <1>15, ServerHolders, ServerHoldersNext
<1>19. SplitOff(stack, WriteChains, stack', WriteChains', "write", fd, L, done)
  <2>1. /\ DOMAIN WriteChains = Live /\ DOMAIN WriteChains' = Live /\ WriteChains[fd] = chain /\ WriteChains'[fd] = kept
        /\ \A f \in Live : f # fd => WriteChains'[f] = WriteChains[f]
    BY <1>8, <1>a DEF WriteChains
  <2>2. DOMAIN chain = 1 .. L /\ DOMAIN kept = 1 .. L - done /\ DOMAIN rest = 1 .. done
    BY <1>2, <1>5, <1>a, LenProperties
  <2>3. ASSUME NEW k \in 1 .. L - done PROVE kept[k].id = chain[k + done].id
    <3>1. k + done \in 1 .. L
      BY <1>3
    <3> QED
      BY <1>4, <1>5, <3>1
  <2>4. ASSUME NEW k \in 1 .. done PROVE rest[k].id = chain[k].id
    <3>1. k \in 1 .. L
      BY <1>3
    <3> QED
      BY <1>4, <1>5, <3>1
  <2> QED
    BY <1>2, <1>3, <1>10, <2>1, <2>2, <2>3, <2>4 DEF SplitOff
<1>20. BuffersInOnePlace'
  <2>1. InOnePlace(rbPool, stack, "read", ReadChains) /\ InOnePlace(wbPool, stack, "write", WriteChains)
    BY <1>1, BuffersAre
  <2>2. InOnePlace(wbPool, stack', "write", WriteChains')
    BY <1>18, <1>19, <2>1, SplitInOnePlace
  <2>3. InOnePlace(wbPool, stack, "write", WriteChains)'
    BY <1>g, <2>2
  <2>4. InOnePlace(rbPool, stack, "read", ReadChains)'
    BY <1>1, <1>8, <1>10, <1>15, <1>g, <2>1, ReadsKept
  <2> QED
    BY <2>3, <2>4, BuffersAreNext
<1> QED
  BY <1>10, <1>11, <1>15, <1>17, <1>20 DEF ServerInv

\* The data of a chain are as many bytes as DataTo counts.
LEMMA BytesAre ==
    ASSUME NEW chain \in Seq(Buffer)
    PROVE  Bytes(chain) \in Seq(Nat) /\ Len(Bytes(chain)) = DataTo(chain)[Len(chain)]
<1>1. PICK L : L = Len(chain) /\ L \in Nat /\ DOMAIN chain = 1 .. L
  BY LenProperties
<1>2. PICK s : s = [i \in DOMAIN chain |-> chain[i].data]
  OBVIOUS
<1>3. s \in Seq(Seq(Nat)) /\ Len(s) = L /\ \A i \in 1 .. L : s[i] = chain[i].data
  <2>1. \A i \in 1 .. L : chain[i].data \in Seq(Nat)
    BY <1>1, BufferType
  <2>2. s \in [1 .. L -> Seq(Nat)]
    BY <1>1, <1>2, <2>1
  <2>3. s \in Seq(Seq(Nat))
    BY <1>1, <2>2
  <2> QED
    BY <1>1, <1>2, <2>2, <2>3, LenProperties
<1>4. PICK h \in [0 .. L -> Seq(Nat)] : h[0] = << >> /\ \A i \in 1 .. L : h[i] = h[i - 1] \o s[i]
  BY <1>3, ConcatExists
<1>5. FlattenSeq(s) = h[L]
  BY <1>3, <1>4, FlattenIs
<1> DEFINE k == [i \in 0 .. L |-> Len(h[i])]
<1>6. k \in [0 .. L -> Int]
  BY <1>4, LenProperties
<1>7. DataSums(chain, k)
  <2>1. k[0] = 0
    <3>1. Len(<< >>) = 0
      OBVIOUS
    <3> QED
      BY <1>1, <1>4, <3>1
  <2>2. ASSUME NEW i \in 1 .. L PROVE k[i] = k[i - 1] + Len(chain[i].data)
    <3>1. PICK j : j = i - 1 /\ j \in 0 .. L /\ i \in 0 .. L
      BY <1>1
    <3>2. h[i] = h[j] \o s[i] /\ h[j] \in Seq(Nat) /\ s[i] \in Seq(Nat)
      BY <1>3, <1>4, <3>1, ElementOfSeq
    <3>3. Len(h[i]) = Len(h[j]) + Len(s[i])
      BY <3>2, ConcatProperties
    <3> QED
      BY <1>3, <3>1, <3>3
  <2> QED
    BY <1>1, <2>1, <2>2 DEF DataSums
<1>8. DataTo(chain) = k
  <2> HIDE DEF k
  <2> QED
    BY <1>1, <1>6, <1>7, DataToIs
<1>9. Bytes(chain) = h[L]
  BY <1>2, <1>5 DEF Bytes
<1>10. L \in 0 .. L
  BY <1>1
<1> QED
  BY <1>1, <1>4, <1>8, <1>9, <1>10

\* n bytes empty the first k of the L buffers of a chain, and no more of them.
Empties(chain, L, n, k) ==
    /\ n <= DataTo(chain)[L]
    /\ \A i \in 0 .. k : DataTo(chain)[i] <= n
    /\ \A i \in k + 1 .. L : n < DataTo(chain)[i]

\* The buffers that n bytes empty are the first ones, as many as the count of OnWrite.
LEMMA EmptiesCount ==
    ASSUME NEW chain \in Seq(Buffer), NEW n \in Nat, n <= DataTo(chain)[Len(chain)],
           NEW k, k = Cardinality({i \in 1 .. Len(chain) : DataTo(chain)[i] <= n})
    PROVE  k \in 0 .. Len(chain) /\ Empties(chain, Len(chain), n, k)
<1>1. PICK L, D : /\ L = Len(chain) /\ L \in Nat /\ D = DataTo(chain) /\ D \in [0 .. L -> Nat] /\ D[0] = 0
                  /\ \A i \in 0 .. L : \A j \in i .. L : D[i] <= D[j]
  BY DataToSums, LenProperties DEF DataSums
<1>2. k = Cardinality({i \in 1 .. L : D[i] <= n}) /\ D[0] <= n /\ n <= D[L]
  BY <1>1
<1>3. k \in 0 .. L /\ (\A i \in 0 .. k : D[i] <= n) /\ \A i \in k + 1 .. L : n < D[i]
  <2>1. L \in Nat /\ D \in [0 .. L -> Nat] /\ \A i \in 0 .. L : \A j \in i .. L : D[i] <= D[j]
    BY <1>1
  <2>2. PICK x : x = Cardinality({i \in 1 .. L : D[i] <= n})
    OBVIOUS
  <2>3. x \in 0 .. L /\ (\A i \in 0 .. x : D[i] <= n) /\ \A i \in x + 1 .. L : n < D[i]
    BY <1>2, <2>1, <2>2, PrefixCount
  <2>4. x = k
    BY <1>2, <2>2
  <2> QED
    BY <2>3, <2>4, Zenon
<1> QED
  BY <1>1, <1>2, <1>3, Zenon DEF Empties

\* OnWrite, unless it throws, is such a step.
LEMMA OnWriteWrites ==
    ASSUME ServerInv, OnWrite, ~Throw
    PROVE  /\ stack = << >> /\ NextFd \in Live /\ events' \in Seq(Event)
           /\ \E c, chain, L, n, done, sent, rest, kept, out :
                 /\ Writes(NextFd, c, chain, L, n, done, sent, rest, kept, out)
                 /\ n \in Nat /\ done \in 0 .. L /\ Empties(chain, L, n, done)
                 /\ out = SubSeq(Bytes(chain), 1, n) /\ out \in Seq(Nat)
<1>1. stack = << >> /\ events # << >> /\ Head(events).ev = "CFEV_WRITE"
  BY DEF OnWrite, NextIs, Idle
<1>2. TypeInv
  BY DEF ServerInv
<1>3. NextFd \in Live
  BY DEF OnWrite
<1> DEFINE c == clients[NextFd].conn
           chain == clients[NextFd].wb
           L == Len(chain)
           all == DataTo(chain)[L]
           done(n) == Cardinality({i \in 1 .. L : DataTo(chain)[i] <= n})
           sent(n) == Sent(chain, n)
           out(n) == SubSeq(Bytes(chain), 1, n)
<1>4. PICK n \in Smaller(1, all) .. all :
          /\ Writes(NextFd, c, chain, L, n, done(n), sent(n), SubSeq(sent(n), 1, done(n)), SubSeq(sent(n), done(n) + 1, L), out(n))
          /\ events' = Tail(events)
  BY <1>3, Zenon DEF OnWrite, Writes
<1>5. chain \in Seq(Buffer)
  BY <1>2, <1>3, SessionType
<1>6. L \in Nat /\ all \in Nat
  <2>1. L \in Nat /\ L \in 0 .. Len(chain)
    BY <1>5, LenProperties
  <2> QED
    BY <1>5, <2>1, DataToSums
<1>7. n \in Nat /\ n <= all
  <2> HIDE DEF all
  <2> QED
    BY <1>6 DEF Smaller
<1>8. done(n) \in 0 .. L /\ Empties(chain, L, n, done(n))
  BY <1>5, <1>7, EmptiesCount
<1>9. out(n) \in Seq(Nat)
  <2>1. PICK b : b = Bytes(chain) /\ b \in Seq(Nat) /\ Len(b) = all
    BY <1>5, BytesAre
  <2>2. \A i \in 1 .. n : b[i] \in Nat
    <3> HIDE DEF all
    <3> QED
      BY <1>6, <1>7, <2>1, ElementOfSeq
  <2>3. SubSeq(b, 1, n) \in Seq(Nat)
    BY <1>7, <2>2, SubSeqProperties
  <2> QED
    BY <2>1, <2>3
<1> HIDE DEF c, chain, L, done, sent, out, all
<1>10. events' \in Seq(Event)
  BY <1>1, <1>2, <1>4, NextEvent
<1>11. out(n) = SubSeq(Bytes(chain), 1, n)
  BY DEF out
<1> QED
  BY <1>1, <1>3, <1>4, <1>7, <1>8, <1>9, <1>10, <1>11, Zenon

\* OnWrite keeps the invariant.
LEMMA OnWriteKeeps == ASSUME ServerInv, OnWrite PROVE ServerInv'
<1>1. CASE Throw
  BY <1>1, LoopKeeps
<1>2. CASE ~Throw
  <2>1. stack = << >> /\ NextFd \in Live /\ events' \in Seq(Event)
    BY <1>2, OnWriteWrites
  <2>2. PICK c, chain, L, n, done, sent, rest, kept, out :
              /\ Writes(NextFd, c, chain, L, n, done, sent, rest, kept, out)
              /\ n \in Nat /\ done \in 0 .. L /\ Empties(chain, L, n, done)
              /\ out = SubSeq(Bytes(chain), 1, n) /\ out \in Seq(Nat)
    BY <1>2, OnWriteWrites, Zenon
  <2>3. n \in Nat /\ done \in 0 .. L /\ out \in Seq(Nat)
    BY <2>2
  <2>4. Writes(NextFd, c, chain, L, n, done, sent, rest, kept, out)
    BY <2>2, Zenon
  <2> QED
    BY <2>1, <2>3, <2>4, WriteStep, Zenon
<1> QED
  BY <1>1, <1>2

\* A server that was just made satisfies the invariant.
LEMMA InitHolds == ASSUME Init PROVE ServerInv
<1>1. Live = {} /\ clients = << >> /\ stack = << >> /\ events = << >>
  BY DEF Init, Live
<1>2. TypeInv
  <2>1. /\ << >> \in Seq(Event) /\ << >> \in Seq(FrameSet) /\ << >> \in Seq(Nat)
        /\ 0 \in 0 .. CounterMod - 1 /\ 0 \in 0 .. MaxMade
    BY ServerAssumption
  <2>2. clients \in [Live -> Session]
    BY <1>1
  <2>3. conns \in [Listener -> 0 .. CounterMod - 1] /\ backlog \in [Listener -> Seq(Nat)]
    BY <2>1 DEF Init, ListenInfo
  <2>4. interest \in [Listener \cup Fd -> SUBSET Conditions]
    BY DEF Init, Watched, Conditions
  <2>5. /\ rbPool \in PoolSet /\ rbPool.free \subseteq 1 .. rbPool.all
        /\ wbPool \in PoolSet /\ wbPool.free \subseteq 1 .. wbPool.all
    BY ServerAssumption DEF Init, Pool, PoolSet
  <2>6. peer \in [Conn -> PeerSet] /\ \A c \in Conn : peer[c].taken <= peer[c].sent
    BY <2>1 DEF Init, NewPeer, PeerSet
  <2>7. loop \in {"run", "stopped", "interrupted", "threw"} /\ stop \in BOOLEAN /\ calls \in Nat /\ made \in 0 .. MaxMade
    BY <2>1 DEF Init
  <2> QED
    BY <1>1, <2>1, <2>2, <2>3, <2>4, <2>5, <2>6, <2>7 DEF TypeInv
<1>3. ChainInv
  BY <1>1 DEF ChainInv
<1>4. Len(stack) = 0 /\ DOMAIN stack = {} /\ Pending = << >>
  BY <1>1 DEF Pending
<1>5. FrameInv
  BY <1>4 DEF FrameInv
<1>6. \A l \in Listener : backlog[l] = << >> /\ Len(backlog[l]) = 0
  BY DEF Init
<1>7. ConnInv
  BY <1>1, <1>6 DEF ConnInv
<1>8. PendingInv
  BY <1>4 DEF PendingInv, NewSockets
<1>9. (\A l : ~Accepting(l)) /\ \A fd : ~Closing(fd)
  BY <1>4 DEF Accepting, Closing
<1>10. /\ \A x \in Listener \cup Fd : interest[x] # {} => "rdhup" \in interest[x]
       /\ \A fd \in Fd : interest[fd] = {}
       /\ \A l \in Listener : interest[l] # {}
  BY ServerAssumption DEF Init, Watched
<1>11. InterestInv
  BY <1>1, <1>10 DEF InterestInv, InterestMatches
<1>12. CountInv
  <2>1. ASSUME NEW l \in Listener PROVE Cardinality(Sessions(l)) = 0
    BY <1>1, FS_EmptySet DEF Sessions
  <2>2. \A l \in Listener : conns[l] = 0 /\ MaxConns[l] \in Nat
    BY ServerAssumption DEF Init, ListenInfo
  <2>3. ASSUME NEW l \in Listener PROVE interest[l] # {} <=> MaxConns[l] = 0 \/ 0 < MaxConns[l]
    BY <1>10, <2>2
  <2> QED
    BY <1>9, <2>1, <2>2, <2>3 DEF CountInv
<1>13. BuffersInOnePlace
  <2>1. ASSUME NEW kind, NEW chains, DOMAIN chains = {}, NEW pool, pool = Pool PROVE InOnePlace(pool, stack, kind, chains)
    <3>1. {<<"handler", i>> : i \in {j \in DOMAIN stack : stack[j].kind = kind}} \cup {<<"session", fd>> : fd \in DOMAIN chains} = {}
      BY <1>4, <2>1
    <3>2. pool.free = 1 .. pool.all
      BY <2>1 DEF Pool
    <3> QED
      BY <3>1, <3>2 DEF InOnePlace
  <2> QED
    BY <1>1, <2>1 DEF BuffersInOnePlace, Init
<1> QED
  BY <1>2, <1>3, <1>5, <1>7, <1>8, <1>11, <1>12, <1>13 DEF ServerInv

\* Every step keeps the invariant.
LEMMA NextKeeps == ASSUME ServerInv, [Next]_vars PROVE ServerInv'
<1>1. CASE WaitEvent
  BY <1>1, WaitEventKeeps
<1>2. CASE OnTimeout
  BY <1>2, OnTimeoutKeeps
<1>3. CASE Interrupt \/ LeaveLoop \/ Stop \/ UNCHANGED vars
  BY <1>3, LoopKeeps
<1>4. CASE OnAccept
  BY <1>4, OnAcceptKeeps
<1>5. CASE OnRead
  BY <1>5, OnReadKeeps
<1>6. CASE OnWrite
  BY <1>6, OnWriteKeeps
<1>7. CASE OnCloseOrError
  BY <1>7, OnCloseOrErrorKeeps
<1>8. CASE AcceptReturns
  BY <1>8, AcceptReturnsKeeps
<1>9. CASE ReadReturns
  BY <1>9, ReadReturnsKeeps
<1>10. CASE WriteReturns
  BY <1>10, WriteReturnsKeeps
<1>11. CASE EndReturns
  BY <1>11, EndReturnsKeeps
<1>12. CASE TimeoutReturns
  BY <1>12, TimeoutReturnsKeeps
<1>13. ASSUME NEW fd \in Live, NEW n \in ReadSize, AsyncRead(fd, n) PROVE ServerInv'
  BY <1>13, AsyncReadKeeps
<1>14. ASSUME NEW fd \in Live, NEW n \in WriteSize, AsyncWrite(fd, n) PROVE ServerInv'
  BY <1>14, AsyncWriteKeeps
<1>15. ASSUME NEW fd \in Live, AsyncClose(fd) PROVE ServerInv'
  BY <1>15, AsyncCloseKeeps
<1>16. ASSUME NEW l \in Listener, Connect(l) PROVE ServerInv'
  BY <1>16, ConnectKeeps
<1>17. ASSUME NEW l \in Listener, AcceptedElsewhere(l) PROVE ServerInv'
  BY <1>17, AcceptedElsewhereKeeps
<1>18. ASSUME NEW c \in Conn, Send(c) \/ Finish(c) \/ Reset(c) PROVE ServerInv'
  BY <1>18, PeersKeep
<1>19. CASE Server
  BY <1>1, <1>2, <1>3, <1>4, <1>5, <1>6, <1>7, <1>8, <1>9, <1>10, <1>11, <1>12, <1>19, Zenon DEF Server
<1>20. CASE Application
  BY <1>3, <1>13, <1>14, <1>15, <1>20, Zenon DEF Application
<1>21. CASE Peers
  BY <1>16, <1>17, <1>18, <1>21, Zenon DEF Peers
<1>22. CASE Ended \/ UNCHANGED vars
  BY <1>3, <1>22, Zenon DEF Ended
<1> QED
  BY <1>19, <1>20, <1>21, <1>22, Zenon DEF Next

\* The invariant holds in every behaviour.
LEMMA InvariantAlways == Spec => []ServerInv
<1>1. Init => ServerInv
  BY InitHolds
<1>2. ServerInv /\ [Next]_vars => ServerInv'
  BY NextKeeps
<1> QED
  BY <1>1, <1>2, PTL DEF Spec

\* The invariant implies that sessions are counted and listeners armed.
LEMMA CountHolds == ServerInv => ConnsCounted /\ ListenerArmed
<1> SUFFICES ASSUME ServerInv PROVE ConnsCounted /\ ListenerArmed
  OBVIOUS
<1>1. TypeInv /\ CountInv
  BY DEF ServerInv
<1>2. ASSUME NEW l \in Listener
      PROVE (conns[l] + IF Accepting(l) THEN 1 ELSE 0) % CounterMod = Cardinality({fd \in Live : clients[fd].listen = l})
  <2>1. PICK n, m : n = Cardinality(Sessions(l)) /\ m = conns[l]
    OBVIOUS
  <2>2. n \in 0 .. CounterMod - 1 /\ m \in 0 .. CounterMod - 1 /\ CounterMod \in Nat
    BY <1>1, <2>1, SessionsFew, ServerAssumption DEF ServerInv, TypeInv
  <2>3. CASE Accepting(l)
    <3>1. m = IF n = 0 THEN CounterMod - 1 ELSE n - 1
      BY <1>1, <2>1, <2>3, Zenon DEF CountInv
    <3>2. (m + 1) % CounterMod = n
      BY <2>2, <3>1, ModSteps
    <3> QED
      BY <2>1, <2>3, <3>2, Zenon DEF Sessions
  <2>4. CASE ~Accepting(l)
    <3>1. m = n
      BY <1>1, <2>1, <2>4, Zenon DEF CountInv
    <3>2. (m + 0) % CounterMod = n
      <4>1. \A k \in Nat : \A y \in 0 .. k - 1 : (y + 0) % k = y
        OBVIOUS
      <4> QED
        BY <2>2, <3>1, <4>1, Zenon
    <3> QED
      BY <2>1, <2>4, <3>2, Zenon DEF Sessions
  <2> QED
    BY <2>3, <2>4
<1>3. ListenerArmed
  BY <1>1 DEF CountInv, ListenerArmed
<1> QED
  BY <1>2, <1>3 DEF ConnsCounted

\* The server fits together (cl_event_handler.cpp): currentconns of a listener is, modulo
\* its width, the number of its sessions, though callbacks close sessions while others are
\* being accepted; a listener is registered exactly while it has room; and all of the
\* state has its type.
THEOREM ServerCorrect == Spec => []ServerOK
<1>1. ServerInv => ServerTypeOK
  <2> SUFFICES ASSUME TypeInv PROVE ServerTypeOK
    BY DEF ServerInv
  <2>1. \A fd \in Live : clients[fd].conn \in Conn /\ clients[fd].listen \in Listener
    BY SessionType
  <2>2. \A i \in DOMAIN events : events[i].fd \in Listener \cup Fd
    <3>1. \A i \in DOMAIN events : events[i] \in Event
      BY LenProperties, ElementOfSeq DEF TypeInv
    <3> QED
      BY <3>1 DEF Event
  <2>3. rbPool.all \in Nat /\ wbPool.all \in Nat
    BY DEF TypeInv, PoolSet
  <2> QED
    BY <2>1, <2>2, <2>3 DEF TypeInv, ServerTypeOK
<1>2. ServerInv => ServerOK
  BY <1>1, CountHolds DEF ServerOK
<1> QED
  BY <1>2, InvariantAlways, PTL

\* A session that is not being closed is registered for writability exactly as long as
\* something waits to be written, and for data as long as a read waits and its peer has
\* not finished, in whatever order handlers, callbacks and peers act (OnRead, OnWrite,
\* AsyncRead and AsyncWrite of cl_event_handler.cpp).
THEOREM SessionsWatched == Spec => []InterestMatches
<1>1. ServerInv => InterestMatches
  BY DEF ServerInv, InterestInv
<1> QED
  BY <1>1, InvariantAlways, PTL

\* Each buffer of the two pools is free, in one chain of one session or held by the one
\* handler that is handing it over: none is lost and none is put back twice, also when a
\* callback closes its own session (GetFromPool and PutIntoPool of cl_buffer).
THEOREM NoBufferLost == Spec => []BuffersInOnePlace
<1>1. ServerInv => BuffersInOnePlace
  BY DEF ServerInv
<1> QED
  BY <1>1, InvariantAlways, PTL
==============================================================================
