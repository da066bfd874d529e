-------------------------- MODULE EventServerOrder --------------------------
(***************************************************************************)
(* The bytes of a connection stay in order, from AsyncWrite to the socket  *)
(* and from the socket to OnReadComplete, for any number of connections,   *)
(* any sizes of buffers, and receives and sends of any length.             *)
(*                                                                         *)
(* OrderInv states it buffer by buffer, since the handlers move buffers: a *)
(* chain is a Run if each buffer has the bytes that follow those of the    *)
(* buffers before it.  What was received is a run of what the application  *)
(* has, then what it is being handed, then the chain of pending reads; of  *)
(* this chain only the first buffer has data (OnlyFirst), so that buffers  *)
(* are full before later ones get any; and a connection that nobody has    *)
(* served is untouched.                                                    *)
(***************************************************************************)
EXTENDS EventServerProofs

------------------------------------------------------------------------------
(* Bytes in order. *)

\* How many bytes the chain has.
Size(chain) == DataTo(chain)[Len(chain)]

\* The data of the chain are the consecutive bytes from first on.
Run(chain, first) ==
    \A i \in 1 .. Len(chain) : chain[i].data = From(first + DataTo(chain)[i - 1], Len(chain[i].data))

\* Two sequences are equal that have the same length and elements.
LEMMA SameSeq ==
    ASSUME NEW S, NEW s \in Seq(S), NEW t \in Seq(S), Len(s) = Len(t), \A i \in 1 .. Len(s) : s[i] = t[i]
    PROVE  s = t
BY SeqEqual

\* Consecutive runs of numbers join.
LEMMA FromJoins ==
    ASSUME NEW a \in Nat, NEW m \in Nat, NEW n \in Nat
    PROVE  From(a, m) \o From(a + m, n) = From(a, m + n)
<1>1. PICK s, t, u : s = From(a, m) /\ t = From(a + m, n) /\ u = From(a, m + n)
  OBVIOUS
<1>2. /\ s \in Seq(Nat) /\ Len(s) = m /\ \A i \in 1 .. m : s[i] = a + i - 1
      /\ u \in Seq(Nat) /\ Len(u) = m + n /\ \A i \in 1 .. m + n : u[i] = a + i - 1
  <2>1. s \in Seq(Nat) /\ Len(s) = m /\ \A i \in 1 .. m : s[i] = a + i - 1
    BY <1>1, FromType
  <2>2. PICK q : q = m + n /\ q \in Nat
    OBVIOUS
  <2>3. u = From(a, q)
    BY <1>1, <2>2
  <2>4. u \in Seq(Nat) /\ Len(u) = q /\ \A i \in 1 .. q : u[i] = a + i - 1
    BY <2>2, <2>3, FromType
  <2> QED
    BY <2>1, <2>2, <2>4
<1>3. t \in Seq(Nat) /\ Len(t) = n /\ \A i \in 1 .. n : t[i] = (a + m) + i - 1
  <2>1. PICK b : b = a + m /\ b \in Nat
    OBVIOUS
  <2>2. t = From(b, n)
    BY <1>1, <2>1
  <2>3. t \in Seq(Nat) /\ Len(t) = n /\ \A i \in 1 .. n : t[i] = b + i - 1
    BY <2>1, <2>2, FromType
  <2> QED
    BY <2>1, <2>3
<1>4. /\ s \o t \in Seq(Nat) /\ Len(s \o t) = m + n
      /\ \A i \in 1 .. m + n : (s \o t)[i] = IF i <= m THEN s[i] ELSE t[i - m]
  BY <1>2, <1>3, ConcatProperties
<1>5. PICK w : w = s \o t
  OBVIOUS
<1>6. ASSUME NEW i \in 1 .. m + n PROVE w[i] = u[i]
  <2>1. u[i] = a + i - 1 /\ w[i] = IF i <= m THEN s[i] ELSE t[i - m]
    BY <1>2, <1>4, <1>5
  <2>2. CASE i <= m
    <3>1. i \in 1 .. m
      BY <2>2
    <3> QED
      BY <1>2, <2>1, <2>2, <3>1
  <2>3. CASE ~(i <= m)
    <3>1. i - m \in 1 .. n /\ (a + m) + (i - m) - 1 = a + i - 1
      BY <2>3
    <3>2. t[i - m] = (a + m) + (i - m) - 1
      BY <1>3, <3>1
    <3> QED
      BY <2>1, <2>3, <3>1, <3>2
  <2> QED
    BY <2>2, <2>3
<1>7. w = u
  BY <1>2, <1>4, <1>5, <1>6, SameSeq
<1> QED
  BY <1>1, <1>5, <1>7

\* Those from 1 on, in particular.
LEMMA FromOneJoins ==
    ASSUME NEW m \in Nat, NEW n \in Nat
    PROVE  From(1, m) \o From(1 + m, n) = From(1, m + n)
BY FromJoins

\* No numbers at all are the same wherever they start.
LEMMA FromNone == ASSUME NEW a \in Nat PROVE From(a, 0) = << >>
<1>1. From(a, 0) \in Seq(Nat) /\ Len(From(a, 0)) = 0
  BY FromType
<1> QED
  BY <1>1, EmptySeq

\* A run of numbers cut: from its k-th on, and up to it.
LEMMA FromCut ==
    ASSUME NEW a \in Nat, NEW n \in Nat, NEW k \in 0 .. n
    PROVE  /\ SubSeq(From(a, n), k + 1, n) = From(a + k, n - k)
           /\ SubSeq(From(a, n), 1, k) = From(a, k)
<1>1. PICK s : s = From(a, n) /\ s \in Seq(Nat) /\ Len(s) = n /\ \A i \in 1 .. n : s[i] = a + i - 1
  BY FromType
<1>2. k \in Nat /\ n - k \in Nat /\ a + k \in Nat /\ k <= n
  OBVIOUS
<1>3. PICK u : u = From(a + k, n - k) /\ u \in Seq(Nat) /\ Len(u) = n - k /\ \A i \in 1 .. n - k : u[i] = (a + k) + i - 1
  <2>1. PICK x, y : x = a + k /\ y = n - k /\ x \in Nat /\ y \in Nat
    BY <1>2
  <2>2. From(x, y) \in Seq(Nat) /\ Len(From(x, y)) = y /\ \A i \in 1 .. y : From(x, y)[i] = x + i - 1
    BY <2>1, FromType
  <2> QED
    BY <2>1, <2>2
<1>4. PICK v : v = From(a, k) /\ v \in Seq(Nat) /\ Len(v) = k /\ \A i \in 1 .. k : v[i] = a + i - 1
  BY <1>2, FromType
<1>5. SubSeq(s, k + 1, n) = u
  <2>1. \A i \in k + 1 .. n : s[i] \in Nat
    BY <1>1, <1>2
  <2>2. /\ SubSeq(s, k + 1, n) \in Seq(Nat)
        /\ Len(SubSeq(s, k + 1, n)) = IF k + 1 <= n THEN n - (k + 1) + 1 ELSE 0
        /\ \A i \in 1 .. n - (k + 1) + 1 : SubSeq(s, k + 1, n)[i] = s[k + 1 + i - 1]
    BY <1>2, <2>1, SubSeqProperties
  <2>3. PICK w : w = SubSeq(s, k + 1, n)
    OBVIOUS
  <2>4. Len(w) = n - k
    BY <1>2, <2>2, <2>3
  <2>5. ASSUME NEW i \in 1 .. n - k PROVE w[i] = u[i]
    <3>1. i \in 1 .. n - (k + 1) + 1 /\ k + 1 + i - 1 = k + i /\ k + i \in 1 .. n /\ a + (k + i) - 1 = (a + k) + i - 1
      BY <1>2
    <3>2. w[i] = s[k + i]
      BY <2>2, <2>3, <3>1
    <3> QED
      BY <1>1, <1>3, <3>1, <3>2
  <2>6. w = u
    BY <1>3, <2>2, <2>3, <2>4, <2>5, SameSeq
  <2> QED
    BY <2>3, <2>6
<1>6. SubSeq(s, 1, k) = v
  <2>1. \A i \in 1 .. k : s[i] \in Nat
    BY <1>1, <1>2
  <2>2. /\ SubSeq(s, 1, k) \in Seq(Nat)
        /\ Len(SubSeq(s, 1, k)) = IF 1 <= k THEN k - 1 + 1 ELSE 0
        /\ \A i \in 1 .. k - 1 + 1 : SubSeq(s, 1, k)[i] = s[1 + i - 1]
    BY <1>2, <2>1, SubSeqProperties
  <2>3. PICK w : w = SubSeq(s, 1, k)
    OBVIOUS
  <2>4. Len(w) = k
    BY <1>2, <2>2, <2>3
  <2>5. ASSUME NEW i \in 1 .. k PROVE w[i] = v[i]
    <3>1. i \in 1 .. k - 1 + 1 /\ 1 + i - 1 = i /\ i \in 1 .. n
      BY <1>2
    <3>2. w[i] = s[i]
      BY <2>2, <2>3, <3>1
    <3> QED
      BY <1>1, <1>4, <3>1, <3>2
  <2>6. w = v
    BY <1>4, <2>2, <2>3, <2>4, <2>5, SameSeq
  <2> QED
    BY <2>3, <2>6
<1> QED
  BY <1>1, <1>3, <1>4, <1>5, <1>6, Zenon

\* The bytes of a chain that is a run.
LEMMA RunBytes ==
    ASSUME NEW chain \in Seq(Buffer), NEW first \in Nat, Run(chain, first)
    PROVE  Bytes(chain) = From(first, Size(chain)) /\ Size(chain) \in Nat
<1>1. PICK L : L = Len(chain) /\ L \in Nat /\ DOMAIN chain = 1 .. L
  BY LenProperties
<1>2. PICK D : D = DataTo(chain) /\ D \in [0 .. L -> Nat] /\ DataSums(chain, D)
  BY <1>1, DataToSums
<1>3. PICK s : s = [i \in DOMAIN chain |-> chain[i].data]
  OBVIOUS
<1>4. s \in Seq(Seq(Nat)) /\ Len(s) = L /\ \A i \in 1 .. L : s[i] = chain[i].data
  <2>1. \A i \in 1 .. L : chain[i].data \in Seq(Nat)
    BY <1>1, BufferType
  <2>2. s \in [1 .. L -> Seq(Nat)]
    BY <1>1, <1>3, <2>1
  <2>3. s \in Seq(Seq(Nat))
    BY <1>1, <2>2
  <2> QED
    BY <1>1, <1>3, <2>2, <2>3, LenProperties
<1>5. PICK h : h = [i \in 0 .. L |-> From(first, D[i])]
  OBVIOUS
<1>6. h \in [0 .. L -> Seq(Nat)]
  <2>1. ASSUME NEW i \in 0 .. L PROVE From(first, D[i]) \in Seq(Nat)
    <3>1. D[i] \in Nat
      BY <1>2
    <3> QED
      BY <3>1, FromType
  <2> QED
    BY <1>5, <2>1
<1>7. h[0] = << >>
  <2>1. D[0] = 0 /\ 0 \in 0 .. L
    BY <1>1, <1>2 DEF DataSums
  <2>2. h[0] = From(first, 0)
    BY <1>5, <2>1
  <2> QED
    BY <2>2, FromNone
<1>8. ASSUME NEW i \in 1 .. L PROVE h[i] = h[i - 1] \o s[i]
  <2>0. i - 1 \in 0 .. L /\ i \in 0 .. L /\ Len(chain[i].data) \in Nat
    BY <1>1, BufferType
  <2>1. PICK j, n : j = i - 1 /\ n = Len(chain[i].data) /\ j \in 0 .. L /\ i \in 0 .. L /\ n \in Nat
    BY <2>0
  <2>2. D[i] = D[j] + n /\ D[j] \in Nat
    BY <1>1, <1>2, <2>1 DEF DataSums
  <2>3. s[i] = From(first + D[j], n)
    BY <1>1, <1>2, <1>4, <2>1 DEF Run
  <2>4. From(first, D[j]) \o From(first + D[j], n) = From(first, D[j] + n)
    BY <2>1, <2>2, FromJoins
  <2>5. h[i] = From(first, D[j] + n) /\ h[j] = From(first, D[j])
    BY <1>5, <2>1, <2>2
  <2> QED
    BY <2>1, <2>3, <2>4, <2>5, Zenon
<1>9. FlattenSeq(s) = h[Len(s)]
  BY <1>4, <1>6, <1>7, <1>8, FlattenIs
<1>10. h[L] = From(first, D[L]) /\ D[L] \in Nat
  BY <1>1, <1>2, <1>5
<1> QED
  BY <1>1, <1>2, <1>3, <1>4, <1>9, <1>10, Zenon DEF Bytes, Size

\* DataTo of a chain of L buffers.
Sums(chain, L, D) ==
    /\ L = Len(chain) /\ L \in Nat /\ D = DataTo(chain) /\ D \in [0 .. L -> Nat]
    /\ D[0] = 0 /\ \A i \in 1 .. L : D[i] = D[i - 1] + Len(chain[i].data)
    /\ Size(chain) = D[L] /\ \A i \in 0 .. L : D[i] <= D[L]

\* A chain has as many bytes as its buffers together.
LEMMA SumsOf ==
    ASSUME NEW chain \in Seq(Buffer)
    PROVE  \E L, D : Sums(chain, L, D)
<1>1. PICK L : L = Len(chain) /\ L \in Nat
  BY LenProperties
<1>2. PICK D : /\ D = DataTo(chain) /\ D \in [0 .. L -> Nat] /\ DataSums(chain, D)
               /\ \A i \in 0 .. L : \A j \in i .. L : D[i] <= D[j]
  BY <1>1, DataToSums
<1>3. \A i \in 0 .. L : L \in i .. L
  BY <1>1
<1>4. Size(chain) = D[L]
  BY <1>1, <1>2 DEF Size
<1>5. D[0] = 0 /\ \A i \in 1 .. L : D[i] = D[i - 1] + Len(chain[i].data)
  BY <1>1, <1>2 DEF DataSums
<1>6. \A i \in 0 .. L : D[i] <= D[L]
  BY <1>2, <1>3
<1> QED
  BY <1>1, <1>2, <1>4, <1>5, <1>6 DEF Sums

\* E adds up the data of the chain.
Adds(chain, L, E) ==
    /\ L = Len(chain) /\ E \in [0 .. L -> Nat]
    /\ E[0] = 0 /\ \A i \in 1 .. L : E[i] = E[i - 1] + Len(chain[i].data)

\* Whatever adds up the data of a chain of L buffers is DataTo.
LEMMA SumsAre ==
    ASSUME NEW chain \in Seq(Buffer), NEW L, NEW E, Adds(chain, L, E)
    PROVE  DataTo(chain) = E /\ Size(chain) = E[L]
<1>0. L = Len(chain)
  BY DEF Adds
<1>1. E \in [0 .. Len(chain) -> Int] /\ DataSums(chain, E)
  BY DEF DataSums, Adds
<1>2. DataTo(chain) = E
  BY <1>1, DataToIs
<1> QED
  BY <1>0, <1>2 DEF Size

\* An empty chain is a run that starts anywhere.
LEMMA EmptyRun == ASSUME NEW first PROVE Run(<< >>, first) /\ Size(<< >>) = 0
<1>1. << >> \in Seq(Buffer) /\ Len(<< >>) = 0
  OBVIOUS
<1>2. PICK L, D : Sums(<< >>, L, D)
  BY <1>1, SumsOf
<1>3. Size(<< >>) = 0
  BY <1>1, <1>2 DEF Sums
<1>4. 1 .. 0 = {}
  OBVIOUS
<1> QED
  BY <1>1, <1>3, <1>4 DEF Run

\* A chain is cut after its first k buffers.
Cut(chain, k, rest, kept) ==
    /\ rest \in Seq(Buffer) /\ Len(rest) = k /\ \A i \in 1 .. k : rest[i] = chain[i]
    /\ kept \in Seq(Buffer) /\ Len(kept) = Len(chain) - k /\ \A i \in 1 .. Len(chain) - k : kept[i] = chain[i + k]

\* A run cut after k buffers is two runs.
LEMMA SplitRun ==
    ASSUME NEW chain \in Seq(Buffer), NEW first \in Nat, Run(chain, first), NEW k \in 0 .. Len(chain),
           NEW rest, NEW kept, Cut(chain, k, rest, kept), NEW d, d = DataTo(chain)[k]
    PROVE  /\ d \in Nat /\ Size(chain) \in Nat /\ d <= Size(chain)
           /\ Run(rest, first) /\ Size(rest) = d
           /\ Run(kept, first + d) /\ Size(kept) = Size(chain) - d
<1> rest \in Seq(Buffer) /\ Len(rest) = k /\ \A i \in 1 .. k : rest[i] = chain[i]
  BY DEF Cut
<1> kept \in Seq(Buffer) /\ Len(kept) = Len(chain) - k /\ \A i \in 1 .. Len(chain) - k : kept[i] = chain[i + k]
  BY DEF Cut
<1>1. PICK L, D : Sums(chain, L, D)
  BY SumsOf
<1>2. /\ L = Len(chain) /\ L \in Nat /\ D = DataTo(chain) /\ D \in [0 .. L -> Nat] /\ D[0] = 0
      /\ \A i \in 1 .. L : D[i] = D[i - 1] + Len(chain[i].data)
      /\ Size(chain) = D[L] /\ \A i \in 0 .. L : D[i] <= D[L]
  BY <1>1 DEF Sums
<1>3. k \in Nat /\ k \in 0 .. L /\ d = D[k] /\ d \in Nat /\ D[L] \in Nat /\ d <= D[L] /\ k <= L
  <2>1. k \in Nat /\ k \in 0 .. L /\ k <= L /\ L \in 0 .. L
    BY <1>2
  <2>2. d = D[k]
    BY <1>2
  <2>3. D[k] \in Nat /\ D[L] \in Nat /\ D[k] <= D[L]
    BY <1>2, <2>1
  <2> QED
    BY <2>1, <2>2, <2>3
<1>4. \A i \in 1 .. L : chain[i].data = From(first + D[i - 1], Len(chain[i].data))
  BY <1>2 DEF Run
<1>5. Run(rest, first) /\ Size(rest) = d
  <2>1. PICK E : E = [i \in 0 .. k |-> D[i]]
    OBVIOUS
  <2>2. E \in [0 .. k -> Nat] /\ \A i \in 0 .. k : E[i] = D[i]
    <3>1. \A i \in 0 .. k : i \in 0 .. L
      BY <1>2, <1>3
    <3> QED
      BY <1>2, <2>1, <3>1
  <2>3. E[0] = 0 /\ E[k] = d
    BY <1>2, <1>3, <2>2
  <2>4. ASSUME NEW i \in 1 .. k PROVE E[i] = E[i - 1] + Len(rest[i].data) /\ rest[i].data = From(first + E[i - 1], Len(rest[i].data))
    <3>1. i \in 1 .. L /\ i \in 0 .. k /\ i - 1 \in 0 .. k
      BY <1>2, <1>3
    <3>2. E[i] = D[i] /\ E[i - 1] = D[i - 1] /\ rest[i] = chain[i]
      BY <2>2, <3>1
    <3>3. D[i] = D[i - 1] + Len(chain[i].data) /\ chain[i].data = From(first + D[i - 1], Len(chain[i].data))
      BY <1>2, <1>4, <3>1
    <3> QED
      BY <3>2, <3>3, Zenon
  <2>5. DataTo(rest) = E /\ Size(rest) = E[k]
    <3>1. Adds(rest, k, E)
      BY <2>2, <2>3, <2>4 DEF Adds
    <3> QED
      BY <3>1, SumsAre
  <2> QED
    BY <2>3, <2>4, <2>5, Zenon DEF Run
<1>6. Run(kept, first + d) /\ Size(kept) = D[L] - d
  <2>1. PICK m : m = L - k /\ m \in Nat
    BY <1>2, <1>3
  <2>2. PICK E : E = [i \in 0 .. m |-> D[i + k] - d]
    OBVIOUS
  <2>3. ASSUME NEW i \in 0 .. m PROVE i + k \in 0 .. L /\ E[i] = D[i + k] - d /\ D[i + k] \in Nat /\ d <= D[i + k]
    <3>1. i + k \in 0 .. L /\ k <= i + k
      BY <1>2, <1>3, <2>1
    <3>2. \A a \in 0 .. L : \A b \in a .. L : D[a] <= D[b]
      BY <1>2, DataToSums
    <3>3. i + k \in k .. L
      BY <1>3, <3>1
    <3>4. D[k] <= D[i + k]
      BY <1>3, <3>2, <3>3, Zenon
    <3> QED
      BY <1>2, <1>3, <2>2, <3>1, <3>4
  <2>4. E \in [0 .. m -> Nat]
    <3>1. ASSUME NEW i \in 0 .. m PROVE D[i + k] - d \in Nat
      BY <1>3, <2>3
    <3> QED
      BY <2>2, <3>1
  <2>5. E[0] = 0 /\ E[m] = D[L] - d
    <3>1. 0 \in 0 .. m /\ m \in 0 .. m /\ 0 + k = k /\ m + k = L
      BY <1>2, <1>3, <2>1
    <3>2. E[0] = D[k] - d /\ E[m] = D[L] - d
      BY <2>3, <3>1
    <3> QED
      BY <1>3, <3>2
  <2>6. ASSUME NEW i \in 1 .. m PROVE E[i] = E[i - 1] + Len(kept[i].data) /\ kept[i].data = From((first + d) + E[i - 1], Len(kept[i].data))
    <3>1. PICK j, n : j = i + k /\ n = Len(kept[i].data)
      OBVIOUS
    <3>2. /\ i \in 0 .. m /\ i - 1 \in 0 .. m /\ j \in 1 .. L /\ (i - 1) + k = j - 1 /\ i \in 1 .. Len(chain) - k
      BY <1>2, <1>3, <2>1, <3>1
    <3>3. kept[i] = chain[j]
      BY <3>1, <3>2
    <3>4. n = Len(chain[j].data) /\ n \in Nat
      BY <1>2, <3>1, <3>2, <3>3, BufferType
    <3>5. PICK x, y : x = D[j - 1] /\ y = D[j]
      OBVIOUS
    <3>6. E[i - 1] = x - d /\ E[i] = y - d /\ x \in Nat /\ y \in Nat /\ d <= x
      BY <2>3, <3>1, <3>2, <3>5
    <3>7. y = x + n /\ kept[i].data = From(first + x, n)
      BY <1>2, <1>4, <3>2, <3>3, <3>4, <3>5, Zenon
    <3>8. first + x = (first + d) + (x - d) /\ y - d = (x - d) + n
      <4>1. x \in Nat /\ d \in Nat /\ n \in Nat /\ y = x + n
        BY <1>3, <3>4, <3>6, <3>7
      <4> QED
        BY <4>1
    <3> QED
      BY <3>1, <3>6, <3>7, <3>8, Zenon
  <2>7. m = Len(kept)
    BY <1>2, <2>1
  <2>8. DataTo(kept) = E /\ Size(kept) = E[m]
    <3>1. Adds(kept, m, E)
      BY <2>4, <2>5, <2>6, <2>7, Zenon DEF Adds
    <3> QED
      BY <3>1, SumsAre
  <2> QED
    BY <2>5, <2>6, <2>7, <2>8, Zenon DEF Run
<1> QED
  BY <1>2, <1>3, <1>5, <1>6, Zenon

\* A run goes on with a buffer that has the next bytes.
LEMMA AppendRun ==
    ASSUME NEW chain \in Seq(Buffer), NEW first \in Nat, Run(chain, first), NEW b \in Buffer,
           b.data = From(first + Size(chain), Len(b.data)), NEW both, both = Append(chain, b)
    PROVE  Run(both, first) /\ Size(both) = Size(chain) + Len(b.data) /\ Size(chain) \in Nat
<1>1. PICK L, D : Sums(chain, L, D)
  BY SumsOf
<1>2. /\ L = Len(chain) /\ L \in Nat /\ D = DataTo(chain) /\ D \in [0 .. L -> Nat] /\ D[0] = 0
      /\ \A i \in 1 .. L : D[i] = D[i - 1] + Len(chain[i].data)
      /\ Size(chain) = D[L]
  BY <1>1 DEF Sums
<1>3. /\ both \in Seq(Buffer) /\ Len(both) = L + 1 /\ both[L + 1] = b
      /\ \A i \in 1 .. L : both[i] = chain[i]
  BY <1>2, AppendProperties
<1>4. PICK n : n = Len(b.data) /\ n \in Nat
  BY LenProperties DEF Buffer
<1>5. PICK E : E = [i \in 0 .. L + 1 |-> IF i = L + 1 THEN D[L] + n ELSE D[i]]
  OBVIOUS
<1>6. /\ E[L + 1] = D[L] + n /\ D[L] \in Nat
      /\ \A i \in 0 .. L : E[i] = D[i]
  BY <1>2, <1>5
<1>7. E \in [0 .. L + 1 -> Nat]
  BY <1>2, <1>4, <1>5
<1>8. \A i \in 1 .. L : chain[i].data = From(first + D[i - 1], Len(chain[i].data))
  BY <1>2 DEF Run
<1>9. ASSUME NEW i \in 1 .. L + 1
      PROVE  E[i] = E[i - 1] + Len(both[i].data) /\ both[i].data = From(first + E[i - 1], Len(both[i].data))
  <2>1. CASE i = L + 1
    <3>1. i - 1 = L /\ L \in 0 .. L
      BY <1>2, <2>1
    <3>2. E[i - 1] = D[L] /\ both[i] = b /\ E[i] = D[L] + n
      BY <1>3, <1>6, <2>1, <3>1
    <3> QED
      BY <1>2, <1>4, <3>2, Zenon
  <2>2. CASE i # L + 1
    <3>1. i \in 1 .. L /\ i \in 0 .. L /\ i - 1 \in 0 .. L
      BY <1>2, <2>2
    <3>2. E[i] = D[i] /\ E[i - 1] = D[i - 1] /\ both[i] = chain[i]
      BY <1>3, <1>6, <3>1
    <3>3. D[i] = D[i - 1] + Len(chain[i].data) /\ chain[i].data = From(first + D[i - 1], Len(chain[i].data))
      BY <1>2, <1>8, <3>1
    <3> QED
      BY <3>2, <3>3, Zenon
  <2> QED
    BY <2>1, <2>2
<1>10. PICK M : M = L + 1 /\ M = Len(both) /\ E \in [0 .. M -> Nat] /\ E[M] = D[L] + n
  BY <1>3, <1>6, <1>7
<1>11. E[0] = 0
  BY <1>2, <1>6
<1>12. DataTo(both) = E /\ Size(both) = E[M]
  <2>1. Adds(both, M, E)
    BY <1>9, <1>10, <1>11, Zenon DEF Adds
  <2> QED
    BY <1>3, <2>1, SumsAre
<1>13. Run(both, first)
  BY <1>9, <1>10, <1>12, Zenon DEF Run
<1> QED
  BY <1>2, <1>4, <1>6, <1>10, <1>12, <1>13, Zenon

\* Only the first buffer of a chain of pending reads has data.
OnlyFirst(chain) == \A i \in 2 .. Len(chain) : chain[i].data = << >>

\* n bytes received into a chain of pending reads that is a run go on with it.
LEMMA ReceivedRun ==
    ASSUME NEW chain \in Seq(Buffer), Fits(chain), NEW first \in Nat, Run(chain, first), OnlyFirst(chain),
           NEW n \in Nat, n <= RoomTo(chain)[Len(chain)], NEW next, next = first + Size(chain),
           NEW filled, filled = Received(chain, next, n)
    PROVE  /\ Run(filled, first) /\ Size(filled) = Size(chain) + n /\ Size(chain) \in Nat
           /\ \A i \in 2 .. Len(chain) : n < RoomTo(chain)[i - 1] => filled[i].data = << >>
<1>1. PICK L, D : Sums(chain, L, D)
  BY SumsOf
<1>2. /\ L = Len(chain) /\ L \in Nat /\ D = DataTo(chain) /\ D \in [0 .. L -> Nat] /\ D[0] = 0
      /\ \A i \in 1 .. L : D[i] = D[i - 1] + Len(chain[i].data)
      /\ Size(chain) = D[L]
  BY <1>1 DEF Sums
<1>3. PICK S : S = Size(chain) /\ S \in Nat /\ next = first + S /\ next \in Nat
  <2>1. L \in 0 .. L
    BY <1>2
  <2> QED
    BY <1>2, <2>1
<1>4. filled \in Seq(Buffer) /\ Len(filled) = L /\ ReceivedInto(chain, next, n, filled)
  BY <1>2, <1>3, ReceivedIs
<1>5. PICK R : /\ R = RoomTo(chain) /\ R \in [0 .. L -> Nat] /\ RoomSums(chain, R) /\ R[0] = 0 /\ n <= R[L]
  <2>1. RoomTo(chain) \in [0 .. L -> Nat] /\ RoomSums(chain, RoomTo(chain))
    BY <1>2, RoomToSums
  <2> QED
    BY <1>2, <2>1 DEF RoomSums
<1>6. ASSUME NEW i \in 1 .. L
      PROVE  \E b, r, m, g : /\ b = R[i - 1] /\ b \in Nat /\ r \in Nat /\ R[i] = b + r
                             /\ m = Smaller(n - Smaller(n, b), r)
                             /\ g = From(next + b, m) /\ filled[i].data = chain[i].data \o g
  <2>1. PICK b, r : b = RoomTo(chain)[i - 1] /\ r = chain[i].total - Len(chain[i].data)
    OBVIOUS
  <2>2. i \in 1 .. Len(chain)
    BY <1>2
  <2>3. /\ b \in Nat /\ r \in Nat /\ RoomTo(chain)[i] = b + r
        /\ filled[i].data = chain[i].data \o From(next + b, Smaller(n - Smaller(n, b), r))
    BY <1>4, <2>1, <2>2, Zenon DEF ReceivedInto
  <2>4. b = R[i - 1] /\ R[i] = b + r
    BY <1>5, <2>1, <2>3, Zenon
  <2>5. PICK m : m = Smaller(n - Smaller(n, b), r)
    OBVIOUS
  <2>6. PICK g : g = From(next + b, m)
    OBVIOUS
  <2> QED
    BY <2>3, <2>4, <2>5, <2>6, Zenon
<1>7. ASSUME NEW i \in 2 .. L PROVE chain[i].data = << >>
  BY <1>2 DEF OnlyFirst
\* All data are in the first buffer.
<1>8. \A i \in 1 .. L : D[i] = S
  <2> DEFINE T == {j \in Nat : j + 1 <= L => D[j + 1] = D[1]}
  <2>1. 0 \in T
    OBVIOUS
  <2>2. ASSUME NEW j \in Nat, j \in T PROVE j + 1 \in T
    <3> SUFFICES ASSUME (j + 1) + 1 <= L PROVE D[(j + 1) + 1] = D[1]
      OBVIOUS
    <3>1. PICK i : i = (j + 1) + 1 /\ i \in 2 .. L /\ i \in 1 .. L /\ i - 1 = j + 1
      BY <1>2
    <3>2. Len(chain[i].data) = 0
      <4>1. chain[i].data = << >>
        BY <1>7, <3>1
      <4>2. Len(<< >>) = 0
        OBVIOUS
      <4> QED
        BY <4>1, <4>2
    <3>3. D[i] = D[i - 1] + 0
      BY <1>2, <3>1, <3>2
    <3>4. D[j + 1] = D[1] /\ D[j + 1] \in Nat
      BY <1>2, <2>2, <3>1
    <3> QED
      BY <3>1, <3>3, <3>4
  <2> HIDE DEF T
  <2>3. Nat \subseteq T
    BY <2>1, <2>2, NatAll
  <2>4. ASSUME NEW i \in 1 .. L PROVE D[i] = D[1]
    <3>1. i - 1 \in Nat /\ (i - 1) + 1 = i /\ i <= L
      BY <1>2
    <3>2. i - 1 \in T
      BY <2>3, <3>1
    <3>3. (i - 1) + 1 <= L => D[(i - 1) + 1] = D[1]
      BY <3>2 DEF T
    <3> QED
      BY <3>1, <3>3
  <2>5. ASSUME L # 0 PROVE L \in 1 .. L
    BY <1>2, <2>5
  <2> QED
    BY <1>2, <1>3, <2>4, <2>5
<1>9. PICK E : E = [i \in 0 .. L |-> IF i = 0 THEN 0 ELSE S + Smaller(n, R[i])]
  OBVIOUS
<1>10. E[0] = 0 /\ (\A i \in 1 .. L : E[i] = S + Smaller(n, R[i])) /\ E \in [0 .. L -> Nat]
  <2>1. ASSUME NEW i \in 0 .. L PROVE S + Smaller(n, R[i]) \in Nat
    <3>1. R[i] \in Nat
      BY <1>5
    <3>2. Smaller(n, R[i]) \in Nat
      BY <3>1 DEF Smaller
    <3> QED
      BY <1>3, <3>2
  <2> HIDE DEF Smaller
  <2> QED
    BY <1>2, <1>9, <2>1
<1>11. ASSUME NEW i \in 1 .. L
       PROVE  /\ E[i] = E[i - 1] + Len(filled[i].data) /\ filled[i].data = From(first + E[i - 1], Len(filled[i].data))
              /\ i # 1 /\ n < R[i - 1] => filled[i].data = << >>
  <2>1. PICK b, r, m, g : /\ b = R[i - 1] /\ b \in Nat /\ r \in Nat /\ R[i] = b + r
                          /\ m = Smaller(n - Smaller(n, b), r)
                          /\ g = From(next + b, m) /\ filled[i].data = chain[i].data \o g
    BY <1>6
  <2>2. PICK o : o = Smaller(n, b)
    OBVIOUS
  <2>a. b \in Nat /\ r \in Nat /\ m = Smaller(n - Smaller(n, b), r)
    BY <2>1, Zenon
  <2>b. /\ m \in Nat /\ m <= r /\ o \in Nat /\ o + m = Smaller(n, b + r)
        /\ (m # 0 => o = b) /\ (n < b => m = 0)
    BY <2>2, <2>a DEF Smaller
  <2>3. /\ m \in Nat /\ m <= r /\ o \in Nat /\ o + m = Smaller(n, R[i])
        /\ (m # 0 => o = b) /\ (n < b => m = 0)
    BY <2>1, <2>b, Zenon
  <2>4. E[i] = S + (o + m)
    BY <1>10, <2>3
  <2>5. g \in Seq(Nat) /\ Len(g) = m /\ (m = 0 => g = << >>)
    <3>0. next \in Nat /\ b \in Nat
      BY <1>3, <2>1, Zenon
    <3>1. PICK x : x = next + b /\ x \in Nat
      BY <3>0
    <3>2. g = From(x, m)
      BY <2>1, <3>1
    <3> QED
      BY <2>3, <3>1, <3>2, FromType, FromNone
  <2>6. CASE i = 1
    <3>1. b = 0 /\ o = 0
      <4>1. i - 1 = 0
        BY <2>6
      <4>2. b = 0
        BY <1>5, <2>1, <4>1
      <4> QED
        BY <2>2, <4>2 DEF Smaller
    <3>2. D[1] = S /\ D[1] = D[0] + Len(chain[1].data) /\ chain[1].data = From(first + D[0], Len(chain[1].data))
      <4>1. D[i] = S /\ D[i] = D[i - 1] + Len(chain[i].data) /\ chain[i].data = From(first + D[i - 1], Len(chain[i].data))
        BY <1>2, <1>8 DEF Run
      <4>2. i - 1 = 0
        BY <2>6
      <4> QED
        BY <2>6, <4>1, <4>2, Zenon
    <3>3. chain[1].data = From(first, S)
      <4>1. PICK y : y = Len(chain[1].data) /\ y \in Nat
        BY <1>2, <2>6, BufferType
      <4>2. S = y /\ chain[1].data = From(first + 0, y)
        BY <1>2, <3>2, <4>1
      <4>3. first + 0 = first
        OBVIOUS
      <4> QED
        BY <4>2, <4>3
    <3>4. next + b = first + S
      BY <1>3, <3>1
    <3>5. g = From(first + S, m)
      BY <2>1, <3>4, Zenon
    <3>6. From(first, S) \o From(first + S, m) = From(first, S + m)
      BY <1>3, <2>3, FromJoins
    <3>7. filled[i].data = From(first, S + m)
      BY <2>1, <2>6, <3>3, <3>5, <3>6, Zenon
    <3>8. Len(filled[i].data) = S + m
      <4>1. PICK y : y = S + m /\ y \in Nat
        BY <1>3, <2>3
      <4>2. Len(From(first, y)) = y
        BY <4>1, FromType
      <4> QED
        BY <3>7, <4>1, <4>2, Zenon
    <3>9. E[i - 1] = 0 /\ E[i] = S + m /\ first + E[i - 1] = first /\ 0 + (S + m) = S + m
      <4>1. i - 1 = 0
        BY <2>6
      <4>2. E[i - 1] = 0
        BY <1>10, <4>1
      <4>3. E[i] = 0 + (S + m)
        BY <1>3, <2>3, <2>4, <3>1, <4>2
      <4>4. first \in Nat /\ S + m \in Nat
        BY <1>3, <2>3
      <4> QED
        BY <4>2, <4>3, <4>4
    <3> QED
      BY <2>6, <3>7, <3>8, <3>9, Zenon
  <2>7. CASE i # 1
    <3>1. i \in 2 .. L /\ i - 1 \in 1 .. L
      BY <1>2, <2>7
    <3>2. filled[i].data = g
      <4>1. chain[i].data = << >>
        BY <1>7, <3>1
      <4> QED
        BY <2>1, <2>5, <4>1, ConcatEmptySeq
    <3>3. E[i - 1] = S + o
      BY <1>10, <2>1, <2>2, <3>1
    <3>4. E[i] = E[i - 1] + m
      BY <1>3, <2>3, <2>4, <3>3
    <3>5. g = From(first + E[i - 1], m)
      <4>1. CASE m = 0
        <5>1. PICK x : x = first + E[i - 1] /\ x \in Nat
          BY <1>3, <2>3, <3>3
        <5> QED
          BY <2>5, <4>1, <5>1, FromNone
      <4>2. CASE m # 0
        <5>0. o = b /\ b \in Nat
          BY <2>1, <2>3, <4>2, Zenon
        <5>1. first + E[i - 1] = next + b
          <6>1. first + (S + b) = (first + S) + b
            BY <1>3, <5>0
          <6> QED
            BY <1>3, <3>3, <5>0, <6>1, Zenon
        <5> QED
          BY <2>1, <5>1, Zenon
      <4> QED
        BY <4>1, <4>2
    <3> QED
      BY <2>1, <2>3, <2>5, <3>2, <3>4, <3>5, Zenon
  <2> QED
    BY <2>6, <2>7, Zenon
<1>12. Adds(filled, L, E)
  BY <1>4, <1>10, <1>11 DEF Adds
<1>13. DataTo(filled) = E /\ Size(filled) = E[L]
  BY <1>4, <1>12, SumsAre
<1>14. E[L] = S + n
  <2>1. CASE L = 0
    BY <1>2, <1>3, <1>5, <1>10, <2>1
  <2>2. CASE L # 0
    <3>1. L \in 1 .. L /\ R[L] \in Nat
      BY <1>2, <1>5, <2>2
    <3>2. Smaller(n, R[L]) = n
      BY <1>5, <3>1 DEF Smaller
    <3> QED
      BY <1>10, <3>1, <3>2
  <2> QED
    BY <2>1, <2>2
<1>15. Run(filled, first)
  BY <1>4, <1>11, <1>13, Zenon DEF Run
<1>16. ASSUME NEW i \in 2 .. Len(chain), n < RoomTo(chain)[i - 1] PROVE filled[i].data = << >>
  <2>1. i \in 1 .. L /\ i # 1
    BY <1>2
  <2> QED
    BY <1>5, <1>11, <1>16, <2>1
<1> QED
  BY <1>3, <1>13, <1>14, <1>15, <1>16, Zenon

\* A chain that is a run, without its first n bytes, is the run of the others.
LEMMA SentRun ==
    ASSUME NEW chain \in Seq(Buffer), NEW first \in Nat, Run(chain, first), NEW n \in Nat, n <= Size(chain),
           NEW sent, sent = Sent(chain, n)
    PROVE  /\ Run(sent, first + n) /\ Size(sent) = Size(chain) - n /\ Size(chain) \in Nat
           /\ \A k \in 0 .. Len(chain) : DataTo(chain)[k] <= n => DataTo(sent)[k] = 0
<1>1. PICK L, D : Sums(chain, L, D)
  BY SumsOf
<1>2. /\ L = Len(chain) /\ L \in Nat /\ D = DataTo(chain) /\ D \in [0 .. L -> Nat] /\ D[0] = 0
      /\ \A i \in 1 .. L : D[i] = D[i - 1] + Len(chain[i].data)
      /\ Size(chain) = D[L] /\ D[L] \in Nat
  <2>1. L \in Nat
    BY <1>1 DEF Sums
  <2>2. L \in 0 .. L
    BY <2>1
  <2> QED
    BY <1>1, <2>2 DEF Sums
<1>3. sent \in Seq(Buffer) /\ Len(sent) = L /\ SentFrom(chain, n, sent)
  BY <1>2, SentIs
<1>4. PICK E : E = [i \in 0 .. L |-> D[i] - Smaller(n, D[i])]
  OBVIOUS
<1>5. ASSUME NEW i \in 0 .. L
      PROVE  /\ E[i] = D[i] - Smaller(n, D[i]) /\ E[i] \in Nat /\ D[i] \in Nat
             /\ (D[i] <= n => E[i] = 0) /\ (n <= D[i] => E[i] = D[i] - n)
  <2>1. D[i] \in Nat
    BY <1>2
  <2>2. E[i] = D[i] - Smaller(n, D[i])
    BY <1>4
  <2>3. PICK x : x = D[i]
    OBVIOUS
  <2> QED
    BY <2>1, <2>2, <2>3 DEF Smaller
<1>6. E \in [0 .. L -> Nat]
  <2>1. ASSUME NEW i \in 0 .. L PROVE D[i] - Smaller(n, D[i]) \in Nat
    BY <1>5
  <2> QED
    BY <1>4, <2>1
<1>7. ASSUME NEW i \in 1 .. L
      PROVE  E[i] = E[i - 1] + Len(sent[i].data) /\ sent[i].data = From((first + n) + E[i - 1], Len(sent[i].data))
  <2>1. PICK b, l : b = D[i - 1] /\ l = Len(chain[i].data)
    OBVIOUS
  <2>2. i - 1 \in 0 .. L /\ i \in 0 .. L
    BY <1>2
  <2>3. b \in Nat /\ l \in Nat /\ D[i] = b + l
    BY <1>2, <2>1, <2>2, BufferType
  <2>4. chain[i].data = From(first + b, l)
    BY <1>2, <2>1 DEF Run
  <2>5. PICK k : k = n - Smaller(n, b)
    OBVIOUS
  <2>6. k \in Nat /\ (n <= b => k = 0) /\ (b <= n => k = n - b)
    BY <2>3, <2>5 DEF Smaller
  <2>7. sent[i].data = SubSeq(From(first + b, l), k + 1, l)
    <3>1. sent[i].data = SubSeq(chain[i].data, n - Smaller(n, b) + 1, l)
      BY <1>2, <1>3, <2>1, Zenon DEF SentFrom
    <3> QED
      BY <2>4, <2>5, <3>1, Zenon
  <2>8. PICK x : x = first + b /\ x \in Nat
    BY <2>3
  <2>9. E[i - 1] = b - Smaller(n, b) /\ E[i] = (b + l) - Smaller(n, b + l)
    BY <1>5, <2>1, <2>2, <2>3
  <2>10. CASE k <= l
    <3>1. sent[i].data = From(x + k, l - k)
      <4>1. k \in 0 .. l
        BY <2>3, <2>6, <2>10
      <4> QED
        BY <2>3, <2>7, <2>8, <4>1, FromCut
    <3>2. PICK y : y = x + k /\ y \in Nat /\ l - k \in Nat
      BY <2>3, <2>6, <2>8, <2>10
    <3>3. Len(sent[i].data) = l - k
      BY <3>1, <3>2, FromType
    <3>4. E[i - 1] + (l - k) = E[i]
      BY <2>3, <2>5, <2>9, <2>10 DEF Smaller
    <3>5. CASE l = k
      <4>1. PICK z : z = (first + n) + E[i - 1] /\ z \in Nat
        BY <1>5, <2>2
      <4>2. l - k = 0
        BY <2>3, <3>5
      <4>3. From(y, 0) = << >> /\ From(z, 0) = << >>
        BY <3>2, <4>1, FromNone
      <4>4. sent[i].data = From(z, l - k)
        BY <3>1, <3>2, <4>2, <4>3, Zenon
      <4> QED
        BY <3>3, <3>4, <4>1, <4>4, Zenon
    <3>6. CASE l # k
      <4>1. x + k = (first + n) + E[i - 1]
        BY <2>3, <2>5, <2>8, <2>9, <2>10, <3>6 DEF Smaller
      <4> QED
        BY <3>1, <3>3, <3>4, <4>1, Zenon
    <3> QED
      BY <3>5, <3>6
  <2>11. CASE ~(k <= l)
    <3>1. sent[i].data = << >>
      <4>1. PICK s : s = From(x, l) /\ s \in Seq(Nat) /\ Len(s) = l
        BY <2>3, <2>8, FromType
      <4>2. k + 1 \in Int /\ l \in Int /\ ~(k + 1 <= l)
        BY <2>3, <2>6, <2>11
      <4>3. \A j \in k + 1 .. l : s[j] \in Nat
        BY <4>2
      <4>4. SubSeq(s, k + 1, l) \in Seq(Nat) /\ Len(SubSeq(s, k + 1, l)) = 0
        BY <4>2, <4>3, SubSeqProperties
      <4>5. SubSeq(s, k + 1, l) = << >>
        BY <4>4, EmptySeq
      <4> QED
        BY <2>7, <2>8, <4>1, <4>5
    <3>2. Len(sent[i].data) = 0
      <4>1. Len(<< >>) = 0
        OBVIOUS
      <4> QED
        BY <3>1, <4>1
    <3>3. E[i - 1] = 0 /\ E[i] = 0
      BY <2>3, <2>5, <2>9, <2>11 DEF Smaller
    <3>4. PICK z : z = (first + n) + E[i - 1] /\ z \in Nat
      BY <3>3
    <3>5. From(z, 0) = << >>
      BY <3>4, FromNone
    <3>6. E[i] = E[i - 1] + 0
      BY <3>3
    <3> QED
      BY <3>1, <3>2, <3>4, <3>5, <3>6, Zenon
  <2> QED
    BY <2>10, <2>11
<1>8. E[0] = 0
  <2>1. 0 \in 0 .. L /\ D[0] <= n
    BY <1>2
  <2> QED
    BY <1>5, <2>1
<1>9. Adds(sent, L, E)
  BY <1>3, <1>6, <1>7, <1>8 DEF Adds
<1>10. DataTo(sent) = E /\ Size(sent) = E[L]
  BY <1>3, <1>9, SumsAre
<1>11. E[L] = D[L] - n
  <2>1. L \in 0 .. L /\ n <= D[L]
    BY <1>2
  <2> QED
    BY <1>5, <2>1
<1>12. Run(sent, first + n)
  BY <1>3, <1>7, <1>10, Zenon DEF Run
<1>13. \A k \in 0 .. Len(chain) : DataTo(chain)[k] <= n => DataTo(sent)[k] = 0
  BY <1>2, <1>5, <1>10
<1> QED
  BY <1>2, <1>10, <1>11, <1>12, <1>13, Zenon

------------------------------------------------------------------------------
(* The order of what is read and written: the invariant. *)

\* What OnRead took for connection c and still has to hand over: only the outermost
\* handler reads.
Reading(handlers, c) ==
    IF handlers # << >> /\ handlers[1].kind = "read" /\ handlers[1].conn = c THEN handlers[1].rest ELSE << >>

\* Nobody has served connection c yet.
Fresh(c) == \/ c > made
            \/ \E l \in Listener : \E i \in 1 .. Len(backlog[l]) : backlog[l][i] = c
            \/ \E i \in 1 .. Len(Pending) : Pending[i].conn = c

Untouched(p) == p.taken = 0 /\ p.queued = 0 /\ p.delivered = << >> /\ p.wire = << >>

\* What was sent of p is what was queued first, and the chain waiting is the rest.
Written(p) == p.wire = From(1, Len(p.wire))
Writing(p, chain) == Run(chain, Len(p.wire) + 1) /\ Len(p.wire) + Size(chain) = p.queued

\* What the application has of p, what it is being handed, and what the chain of reads got.
Delivered(p, reading) == p.delivered = From(1, Len(p.delivered)) /\ Run(reading, Len(p.delivered) + 1)
Receiving(p, reading, chain) ==
    /\ Run(chain, (Len(p.delivered) + Size(reading)) + 1) /\ OnlyFirst(chain)
    /\ (Len(p.delivered) + Size(reading)) + Size(chain) = p.taken

OrderInv ==
    /\ \A c \in Conn : Written(peer[c]) /\ Delivered(peer[c], Reading(stack, c))
    /\ \A fd \in Live : /\ Writing(peer[clients[fd].conn], clients[fd].wb)
                        /\ Receiving(peer[clients[fd].conn], Reading(stack, clients[fd].conn), clients[fd].rb)
    /\ \A c \in Conn : Fresh(c) => Untouched(peer[c]) /\ Reading(stack, c) = << >>

\* What the invariant says of one peer depends on these of its parts.
SamePeer(p, q) == p.taken = q.taken /\ p.queued = q.queued /\ p.delivered = q.delivered /\ p.wire = q.wire

\* It holds of peers that are the same in these.
LEMMA PeerSame ==
    ASSUME NEW p, NEW q, SamePeer(p, q)
    PROVE  /\ Untouched(p) => Untouched(q)
           /\ Written(p) => Written(q)
           /\ \A chain : Writing(p, chain) => Writing(q, chain)
           /\ \A reading : Delivered(p, reading) => Delivered(q, reading)
           /\ \A reading, chain : Receiving(p, reading, chain) => Receiving(q, reading, chain)
<1> USE DEF SamePeer
<1>1. Untouched(p) => Untouched(q)
  BY DEF Untouched
<1>2. Written(p) => Written(q)
  BY DEF Written
<1>3. ASSUME NEW chain, Writing(p, chain) PROVE Writing(q, chain)
  BY <1>3, Zenon DEF Writing
<1>4. ASSUME NEW reading, Delivered(p, reading) PROVE Delivered(q, reading)
  BY <1>4, Zenon DEF Delivered
<1>5. ASSUME NEW reading, NEW chain, Receiving(p, reading, chain) PROVE Receiving(q, reading, chain)
  BY <1>5, Zenon DEF Receiving
<1> QED
  BY <1>1, <1>2, <1>3, <1>4, <1>5

\* A step that ends sessions, but moves no byte and serves no new connection, keeps the order.
LEMMA OrderKept ==
    ASSUME TypeInv, OrderInv, Live' \subseteq Live,
           \A fd \in Live' : /\ clients'[fd].conn = clients[fd].conn
                             /\ clients'[fd].rb = clients[fd].rb /\ clients'[fd].wb = clients[fd].wb,
           \A c \in Conn : SamePeer(peer[c], peer'[c]),
           \A c \in Conn : Fresh(c)' => Fresh(c),
           \A c \in Conn : Reading(stack', c) = Reading(stack, c)
    PROVE  OrderInv'
<1>1. ASSUME NEW c \in Conn PROVE Written(peer'[c]) /\ Delivered(peer'[c], Reading(stack', c))
  <2>1. Written(peer[c]) /\ Delivered(peer[c], Reading(stack, c)) /\ SamePeer(peer[c], peer'[c]) /\ Reading(stack', c) = Reading(stack, c)
    BY DEF OrderInv
  <2> QED
    BY <2>1, PeerSame, Zenon
<1>2. ASSUME NEW fd \in Live'
      PROVE  /\ Writing(peer'[clients'[fd].conn], clients'[fd].wb)
             /\ Receiving(peer'[clients'[fd].conn], Reading(stack', clients'[fd].conn), clients'[fd].rb)
  <2>1. PICK c : c = clients[fd].conn
    OBVIOUS
  <2>2. fd \in Live /\ c \in Conn
    BY <2>1, SessionType
  <2>3. clients'[fd].conn = c /\ clients'[fd].rb = clients[fd].rb /\ clients'[fd].wb = clients[fd].wb
    BY <2>1
  <2>4. SamePeer(peer[c], peer'[c]) /\ Reading(stack', c) = Reading(stack, c)
    BY <2>2
  <2>5. Writing(peer[c], clients[fd].wb) /\ Receiving(peer[c], Reading(stack, c), clients[fd].rb)
    BY <2>1, <2>2, Zenon DEF OrderInv
  <2>6. Writing(peer'[c], clients[fd].wb) /\ Receiving(peer'[c], Reading(stack', c), clients[fd].rb)
    BY <2>4, <2>5, PeerSame, Zenon
  <2> QED
    BY <2>3, <2>6, Zenon
<1>3. ASSUME NEW c \in Conn, Fresh(c)' PROVE Untouched(peer'[c]) /\ Reading(stack', c) = << >>
  <2>1. Fresh(c) /\ SamePeer(peer[c], peer'[c]) /\ Reading(stack', c) = Reading(stack, c)
    BY <1>3
  <2>2. Untouched(peer[c]) /\ Reading(stack, c) = << >>
    BY <2>1 DEF OrderInv
  <2> QED
    BY <2>1, <2>2, PeerSame
<1> QED
  BY <1>1, <1>2, <1>3, Zenon DEF OrderInv

\* The outermost handler is an OnRead.
ReadFirst(handlers) == handlers # << >> /\ handlers[1].kind = "read"

\* What is being handed over depends on the outermost handler alone.
LEMMA ReadingSame ==
    ASSUME NEW hs, NEW ht, ReadFirst(ht) <=> ReadFirst(hs),
           ReadFirst(hs) => ht[1].conn = hs[1].conn /\ ht[1].rest = hs[1].rest, NEW c
    PROVE  Reading(ht, c) = Reading(hs, c)
<1>1. Reading(hs, c) = IF ReadFirst(hs) /\ hs[1].conn = c THEN hs[1].rest ELSE << >>
  BY DEF Reading, ReadFirst
<1>2. Reading(ht, c) = IF ReadFirst(ht) /\ ht[1].conn = c THEN ht[1].rest ELSE << >>
  BY DEF Reading, ReadFirst
<1> QED
  BY <1>1, <1>2

\* No handler hands anything over.
LEMMA ReadingNone == ASSUME NEW hs, ~ReadFirst(hs), NEW c PROVE Reading(hs, c) = << >>
BY DEF Reading, ReadFirst

\* Another handler begins.
LEMMA PushReading ==
    ASSUME stack \in Seq(FrameSet), NEW frame \in FrameSet, frame.kind # "accept", frame.kind # "read", Push(frame)
    PROVE  \A c : Reading(stack', c) = Reading(stack, c)
<1>1. /\ stack' \in Seq(FrameSet) /\ Len(stack') = Len(stack) + 1 /\ Len(stack) \in Nat
      /\ \A i \in 1 .. Len(stack) : stack'[i] = stack[i]
      /\ stack'[Len(stack) + 1] = frame
  BY PushKeeps
<1>2. stack' # << >>
  BY <1>1, EmptySeq
<1>3. CASE stack = << >>
  <2>1. Len(stack) = 0
    BY <1>3
  <2>2. ~ReadFirst(stack') /\ ~ReadFirst(stack)
    BY <1>1, <1>3, <2>1 DEF ReadFirst
  <2> QED
    BY <2>2, ReadingSame
<1>4. CASE stack # << >>
  <2>1. 1 \in 1 .. Len(stack)
    BY <1>1, <1>4, EmptySeq
  <2>2. stack'[1] = stack[1]
    BY <1>1, <2>1
  <2>3. ReadFirst(stack') <=> ReadFirst(stack)
    BY <1>2, <1>4, <2>2 DEF ReadFirst
  <2> QED
    BY <2>2, <2>3, ReadingSame
<1> QED
  BY <1>3, <1>4

\* The innermost handler, which is no OnRead, is left.
LEMMA FrontReading ==
    ASSUME NEW n \in Nat \ {0}, Len(stack) = n, stack \in Seq(FrameSet), stack[n].kind # "read",
           stack' \in Seq(FrameSet), Len(stack') = n - 1, \A i \in 1 .. n - 1 : stack'[i] = stack[i]
    PROVE  \A c : Reading(stack', c) = Reading(stack, c)
<1>1. CASE n = 1
  <2>1. ~ReadFirst(stack)
    BY <1>1 DEF ReadFirst
  <2>2. Len(stack') = 0
    BY <1>1
  <2>3. ~ReadFirst(stack')
    BY <2>2, EmptySeq DEF ReadFirst
  <2> QED
    BY <2>1, <2>3, ReadingSame
<1>2. CASE n # 1
  <2>1. 1 \in 1 .. n - 1 /\ Len(stack') # 0
    BY <1>2
  <2>2. stack'[1] = stack[1] /\ stack # << >> /\ stack' # << >>
    BY <2>1, EmptySeq
  <2>3. ReadFirst(stack') <=> ReadFirst(stack)
    BY <2>2 DEF ReadFirst
  <2> QED
    BY <2>2, <2>3, ReadingSame
<1> QED
  BY <1>1, <1>2

\* A handler that returns, not one that hands over reads, leaves what is being handed over.
LEMMA PopReading ==
    ASSUME stack \in Seq(FrameSet), stack # << >>, Top.kind # "accept", Top.kind # "read", Pop
    PROVE  \A c : Reading(stack', c) = Reading(stack, c)
<1>1. /\ stack' \in Seq(FrameSet) /\ Len(stack') = Len(stack) - 1 /\ Len(stack) \in Nat \ {0}
      /\ \A i \in 1 .. Len(stack) - 1 : stack'[i] = stack[i]
      /\ Top = stack[Len(stack)]
  BY PopKeeps
<1>2. PICK n : n = Len(stack)
  OBVIOUS
<1> QED
  BY <1>1, <1>2, FrontReading

\* The connections that nobody has served stay so.
LEMMA FreshSame ==
    ASSUME backlog' = backlog, made' = made, Pending' = Pending, NEW c
    PROVE  Fresh(c)' <=> Fresh(c)
BY DEF Fresh

\* A step that moves no byte, with the sessions that stay, keeps the order.
LEMMA QuietOrder ==
    ASSUME TypeInv, OrderInv, backlog' = backlog, made' = made, Pending' = Pending, peer' = peer,
           Live' \subseteq Live, \A fd \in Live' : clients'[fd] = clients[fd],
           \A c : Reading(stack', c) = Reading(stack, c)
    PROVE  OrderInv'
<1>1. \A c \in Conn : SamePeer(peer[c], peer'[c])
  BY DEF SamePeer
<1>2. \A c \in Conn : Fresh(c)' => Fresh(c)
  BY FreshSame
<1>3. \A fd \in Live' : /\ clients'[fd].conn = clients[fd].conn
                        /\ clients'[fd].rb = clients[fd].rb /\ clients'[fd].wb = clients[fd].wb
  OBVIOUS
<1>4. \A c \in Conn : Reading(stack', c) = Reading(stack, c)
  OBVIOUS
<1> QED
  BY <1>1, <1>2, <1>3, <1>4, OrderKept

\* The loop and the peers.
LEMMA StillOrder ==
    ASSUME ServerInv, OrderInv, clients' = clients, stack' = stack, backlog' = backlog, made' = made,
           \A c \in Conn : SamePeer(peer[c], peer'[c])
    PROVE  OrderInv'
<1>1. TypeInv /\ Live' = Live /\ Pending' = Pending
  BY DEF ServerInv, Live, Pending
<1>2. \A c \in Conn : Fresh(c)' => Fresh(c)
  BY <1>1, FreshSame
<1>3. \A fd \in Live' : /\ clients'[fd].conn = clients[fd].conn
                        /\ clients'[fd].rb = clients[fd].rb /\ clients'[fd].wb = clients[fd].wb
  OBVIOUS
<1>4. \A c \in Conn : Reading(stack', c) = Reading(stack, c)
  OBVIOUS
<1> QED
  BY <1>1, <1>2, <1>3, <1>4, OrderKept

\* Waiting, leaving the loop, an exception, Stop and steps of nobody keep the order.
LEMMA LoopOrder ==
    ASSUME ServerInv, OrderInv, WaitEvent \/ Interrupt \/ LeaveLoop \/ Throw \/ Stop \/ UNCHANGED vars
    PROVE  OrderInv'
<1>1. clients' = clients /\ stack' = stack /\ backlog' = backlog /\ made' = made /\ peer' = peer
  BY DEF WaitEvent, Interrupt, LeaveLoop, Throw, Stop, CanCall, vars, serverVars, loopVars
<1>2. \A c \in Conn : SamePeer(peer[c], peer'[c])
  BY <1>1 DEF SamePeer
<1> QED
  BY <1>1, <1>2, StillOrder

\* What a peer sends, and that it finishes or resets, keeps the order: nothing received or
\* sent changes.
LEMMA PeersOrder ==
    ASSUME ServerInv, OrderInv, NEW d \in Conn, Send(d) \/ Finish(d) \/ Reset(d)
    PROVE  OrderInv'
<1>1. clients' = clients /\ stack' = stack /\ backlog' = backlog /\ made' = made
  BY DEF Send, Finish, Reset, PeerActs, Outside, serverVars, loopVars
<1>2. peer \in [Conn -> PeerSet]
  BY DEF ServerInv, TypeInv
<1>3. \E n : peer' = [peer EXCEPT ![d].sent = n] \/ peer' = [peer EXCEPT ![d].fin = n] \/ peer' = [peer EXCEPT ![d].rst = n]
  BY Zenon DEF Send, Finish, Reset
<1>4. PICK n : peer' = [peer EXCEPT ![d].sent = n] \/ peer' = [peer EXCEPT ![d].fin = n] \/ peer' = [peer EXCEPT ![d].rst = n]
  BY <1>3
<1>5. ASSUME NEW c \in Conn PROVE SamePeer(peer[c], peer'[c])
  <2>1. /\ peer[c] \in PeerSet
        /\ \/ peer'[c] = peer[c] \/ peer'[c] = [peer[c] EXCEPT !.sent = n]
           \/ peer'[c] = [peer[c] EXCEPT !.fin = n] \/ peer'[c] = [peer[c] EXCEPT !.rst = n]
    BY <1>2, <1>4
  <2> QED
    BY <2>1 DEF SamePeer, PeerSet
<1> QED
  BY <1>1, <1>5, StillOrder

\* A new connection keeps the order: its number is fresh and stays so.
LEMMA ConnectOrder ==
    ASSUME ServerInv, OrderInv, NEW l \in Listener, Connect(l)
    PROVE  OrderInv'
<1>1. /\ clients' = clients /\ stack' = stack /\ peer' = peer /\ made' = made + 1
      /\ backlog' = [backlog EXCEPT ![l] = Append(backlog[l], made + 1)]
  BY DEF Connect, Outside, serverVars, loopVars
<1>2. TypeInv /\ Live' = Live /\ Pending' = Pending /\ made \in Nat /\ backlog \in [Listener -> Seq(Nat)]
  <2>1. TypeInv /\ made \in 0 .. MaxMade /\ backlog \in [Listener -> Seq(Nat)]
    BY DEF ServerInv, TypeInv
  <2>2. Live' = Live /\ Pending' = Pending
    BY <1>1 DEF Live, Pending
  <2>3. MaxMade \in Nat
    BY ServerAssumption
  <2> QED
    BY <2>1, <2>2, <2>3
<1>3. ASSUME NEW c \in Conn, Fresh(c)' PROVE Fresh(c)
  <2>1. c \in Nat
    BY DEF Conn
  <2>2. CASE c > made'
    <3>1. c > made
      BY <1>1, <1>2, <2>1, <2>2
    <3> QED
      BY <3>1 DEF Fresh
  <2>3. ASSUME NEW m \in Listener, NEW i \in 1 .. Len(backlog'[m]), backlog'[m][i] = c PROVE Fresh(c)
    <3>1. CASE m # l
      <4>1. backlog'[m] = backlog[m]
        BY <1>1, <1>2, <3>1
      <4> QED
        BY <2>3, <4>1 DEF Fresh
    <3>2. CASE m = l
      <4>1. PICK s, n : s = backlog[l] /\ s \in Seq(Nat) /\ n = Len(s) /\ n \in Nat
        BY <1>2, LenProperties
      <4>2. backlog'[l] = Append(s, made + 1)
        BY <1>1, <1>2, <4>1
      <4>3. /\ Len(Append(s, made + 1)) = n + 1 /\ Append(s, made + 1)[n + 1] = made + 1
            /\ \A j \in 1 .. n : Append(s, made + 1)[j] = s[j]
        BY <1>2, <4>1, AppendProperties
      <4>4. CASE i \in 1 .. n
        <5>1. s[i] = c
          BY <2>3, <3>2, <4>2, <4>3, <4>4
        <5> QED
          BY <4>1, <4>4, <5>1 DEF Fresh
      <4>5. CASE i = n + 1
        <5>1. c = made + 1
          BY <2>3, <3>2, <4>2, <4>3, <4>5
        <5>2. c > made
          BY <1>2, <5>1
        <5> QED
          BY <5>2 DEF Fresh
      <4> QED
        BY <3>2, <4>1, <4>2, <4>3, <4>4, <4>5
    <3> QED
      BY <3>1, <3>2
  <2>4. ASSUME NEW i \in 1 .. Len(Pending), Pending[i].conn = c PROVE Fresh(c)
    BY <2>4 DEF Fresh
  <2> QED
    BY <1>2, <1>3, <2>2, <2>3, <2>4, Zenon DEF Fresh
<1>4. \A c \in Conn : SamePeer(peer[c], peer'[c])
  BY <1>1 DEF SamePeer
<1>5. /\ \A fd \in Live' : /\ clients'[fd].conn = clients[fd].conn
                           /\ clients'[fd].rb = clients[fd].rb /\ clients'[fd].wb = clients[fd].wb
      /\ Live' \subseteq Live /\ \A c \in Conn : Reading(stack', c) = Reading(stack, c)
  BY <1>1, <1>2
<1> QED
  BY <1>2, <1>3, <1>4, <1>5, OrderKept

\* A connection that another process accepts keeps the order: no connection becomes fresh.
LEMMA AcceptedElsewhereOrder ==
    ASSUME ServerInv, OrderInv, NEW l \in Listener, AcceptedElsewhere(l)
    PROVE  OrderInv'
<1>1. /\ clients' = clients /\ stack' = stack /\ peer' = peer /\ made' = made /\ backlog[l] # << >>
      /\ backlog' = [backlog EXCEPT ![l] = Tail(backlog[l])]
  BY DEF AcceptedElsewhere, Outside, serverVars, loopVars
<1>2. TypeInv /\ Live' = Live /\ Pending' = Pending /\ backlog \in [Listener -> Seq(Nat)]
  BY <1>1 DEF ServerInv, Live, Pending, TypeInv
<1>3. ASSUME NEW c \in Conn, Fresh(c)' PROVE Fresh(c)
  <2>1. CASE c > made'
    BY <1>1, <2>1 DEF Fresh
  <2>2. ASSUME NEW m \in Listener, NEW i \in 1 .. Len(backlog'[m]), backlog'[m][i] = c PROVE Fresh(c)
    <3>1. CASE m # l
      <4>1. backlog'[m] = backlog[m]
        BY <1>1, <1>2, <3>1
      <4> QED
        BY <2>2, <4>1 DEF Fresh
    <3>2. CASE m = l
      <4>1. PICK s, n : s = backlog[l] /\ s \in Seq(Nat) /\ s # << >> /\ n = Len(s) /\ n \in Nat
        BY <1>1, <1>2, LenProperties
      <4>2. backlog'[l] = Tail(s)
        BY <1>1, <1>2, <4>1
      <4>3. Len(Tail(s)) = n - 1 /\ \A j \in 1 .. n - 1 : Tail(s)[j] = s[j + 1]
        BY <4>1, HeadTailProperties
      <4>4. i \in 1 .. n - 1 /\ i + 1 \in 1 .. n /\ s[i + 1] = c
        BY <2>2, <3>2, <4>1, <4>2, <4>3
      <4> QED
        BY <4>1, <4>4 DEF Fresh
    <3> QED
      BY <3>1, <3>2
  <2>3. ASSUME NEW i \in 1 .. Len(Pending), Pending[i].conn = c PROVE Fresh(c)
    BY <2>3 DEF Fresh
  <2> QED
    BY <1>2, <1>3, <2>1, <2>2, <2>3, Zenon DEF Fresh
<1>4. \A c \in Conn : SamePeer(peer[c], peer'[c])
  BY <1>1 DEF SamePeer
<1>5. /\ \A fd \in Live' : /\ clients'[fd].conn = clients[fd].conn
                           /\ clients'[fd].rb = clients[fd].rb /\ clients'[fd].wb = clients[fd].wb
      /\ Live' \subseteq Live /\ \A c \in Conn : Reading(stack', c) = Reading(stack, c)
  BY <1>1, <1>2
<1> QED
  BY <1>2, <1>3, <1>4, <1>5, OrderKept

\* OnTimeout and its return keep the order.
LEMMA TimeoutOrder == ASSUME ServerInv, OrderInv, OnTimeout \/ TimeoutReturns PROVE OrderInv'
<1>1. TypeInv /\ stack \in Seq(FrameSet)
  BY DEF ServerInv, TypeInv
<1>2. UNCHANGED <<serverVars, backlog, made, peer>>
  BY DEF OnTimeout, TimeoutReturns
<1>3. backlog' = backlog /\ made' = made /\ peer' = peer /\ Live' = Live /\ \A fd \in Live : clients'[fd] = clients[fd]
  BY <1>2 DEF serverVars, Live
<1>4. CASE OnTimeout
  <2>1. PICK frame : frame = Frame("timeout", 0, 0, 0, << >>)
    OBVIOUS
  <2>2. << >> \in Seq(Buffer)
    OBVIOUS
  <2>3. frame \in FrameSet /\ frame.kind = "timeout" /\ Push(frame)
    BY <1>4, <2>1, <2>2 DEF Frame, FrameSet, OnTimeout
  <2>4. Pending' = Pending
    BY <1>1, <2>3, PushKeeps
  <2>5. \A c : Reading(stack', c) = Reading(stack, c)
    BY <1>1, <2>3, PushReading
  <2> QED
    BY <1>1, <1>3, <2>4, <2>5, QuietOrder
<1>5. CASE TimeoutReturns
  <2>1. stack # << >> /\ Top.kind = "timeout" /\ Pop
    BY <1>5 DEF TimeoutReturns
  <2>2. Pending' = Pending
    BY <1>1, <2>1, PopKeeps
  <2>3. \A c : Reading(stack', c) = Reading(stack, c)
    BY <1>1, <2>1, PopReading
  <2> QED
    BY <1>1, <1>3, <2>2, <2>3, QuietOrder
<1> QED
  BY <1>4, <1>5

\* The handler that ends a session keeps the order: what the session had received moves no
\* more.
LEMMA EndOrder ==
    ASSUME ServerInv, OrderInv, NEW fd \in Live, NEW kind \in {"close", "error"}, End(kind, fd),
           UNCHANGED <<backlog, made, peer>>
    PROVE  OrderInv'
<1>1. TypeInv /\ stack \in Seq(FrameSet)
  BY DEF ServerInv, TypeInv
<1>2. PICK frame : frame = Frame(kind, fd, clients[fd].conn, clients[fd].listen, << >>)
  OBVIOUS
<1>3. Push(frame) /\ clients' = clients
  BY <1>2 DEF End
<1>4. frame \in FrameSet /\ frame.kind = kind
  <2>1. << >> \in Seq(Buffer)
    OBVIOUS
  <2>2. fd \in Nat /\ clients[fd].conn \in Nat /\ clients[fd].listen \in Listener
    BY <1>1, SessionType
  <2> QED
    BY <1>2, <2>1, <2>2 DEF Frame, FrameSet
<1>5. Pending' = Pending
  BY <1>1, <1>3, <1>4, PushKeeps
<1>6. \A c : Reading(stack', c) = Reading(stack, c)
  BY <1>1, <1>3, <1>4, PushReading
<1>7. Live' = Live /\ \A f \in Live : clients'[f] = clients[f]
  BY <1>3 DEF Live
<1> QED
  BY <1>1, <1>5, <1>6, <1>7, QuietOrder

\* A session that is closed, by an event or by AsyncClose, keeps the order.
LEMMA CloseOrder ==
    ASSUME ServerInv, OrderInv, OnCloseOrError \/ \E fd \in Live : AsyncClose(fd)
    PROVE  OrderInv'
<1>1. CASE OnCloseOrError /\ NextFd \notin Live
  BY <1>1, LoopOrder DEF OnCloseOrError
<1>2. CASE OnCloseOrError /\ NextFd \in Live
  <2>1. PICK kind : kind = IF Head(events).ev = "CFEV_CLOSE" THEN "close" ELSE "error"
    OBVIOUS
  <2>2. End(kind, NextFd) /\ UNCHANGED <<backlog, made, peer>>
    BY <1>2, <2>1 DEF OnCloseOrError
  <2>3. kind \in {"close", "error"}
    BY <2>1
  <2> QED
    BY <1>2, <2>2, <2>3, EndOrder
<1>3. ASSUME NEW fd \in Live, AsyncClose(fd) PROVE OrderInv'
  <2>1. End("close", fd) /\ UNCHANGED <<backlog, made, peer>>
    BY <1>3 DEF AsyncClose, CanCall
  <2> QED
    BY <2>1, EndOrder
<1> QED
  BY <1>1, <1>2, <1>3

\* The return from the close and error handlers, with which the session is gone, keeps the
\* order.
LEMMA EndReturnsOrder == ASSUME ServerInv, OrderInv, EndReturns PROVE OrderInv'
<1>1. TypeInv /\ stack \in Seq(FrameSet) /\ stack # << >> /\ Top.kind \in {"close", "error"}
  BY DEF ServerInv, TypeInv, EndReturns
<1>2. CASE Top.fd \notin Live
  BY <1>2, LoopOrder DEF EndReturns
<1>3. CASE Top.fd \in Live
  <2>1. /\ clients' = [f \in Live \ {Top.fd} |-> clients[f]]
        /\ Pop /\ UNCHANGED <<backlog, made, peer>>
    BY <1>3 DEF EndReturns, ClearSessionAndBuffer
  <2>2. Live' \subseteq Live /\ \A f \in Live' : clients'[f] = clients[f]
    BY <2>1 DEF Live
  <2>3. Pending' = Pending
    BY <1>1, <2>1, PopKeeps
  <2>4. \A c : Reading(stack', c) = Reading(stack, c)
    BY <1>1, <2>1, PopReading
  <2> QED
    BY <1>1, <2>1, <2>2, <2>3, <2>4, QuietOrder
<1> QED
  BY <1>2, <1>3

\* The return from OnWriteComplete keeps the order: the buffer that was sent goes back to
\* the pool.
LEMMA WriteReturnsOrder == ASSUME ServerInv, OrderInv, WriteReturns PROVE OrderInv'
<1>1. TypeInv /\ FrameInv /\ stack \in Seq(FrameSet)
  BY DEF ServerInv, TypeInv
<1>2. /\ stack # << >> /\ Top.kind = "write" /\ UNCHANGED <<clients, backlog, made, peer>>
      /\ IF Len(Top.rest) > 1 THEN stack' = [stack EXCEPT ![Len(stack)].rest = Tail(@)] ELSE Pop
  BY DEF WriteReturns
<1>3. Live' = Live /\ \A fd \in Live : clients'[fd] = clients[fd]
  BY <1>2 DEF Live
<1>4. /\ stack' \in Seq(FrameSet) /\ Pending' = Pending /\ Top = stack[Len(stack)]
      /\ \A i \in 1 .. Len(stack) - 1 : stack'[i] = stack[i]
      /\ IF Len(Top.rest) > 1
         THEN Len(stack') = Len(stack) /\ stack'[Len(stack)].kind = "write"
         ELSE Len(stack') = Len(stack) - 1
  BY <1>1, <1>2, <1>3, HandBack
<1>5. PICK n : n = Len(stack) /\ n \in Nat \ {0}
  BY <1>1, <1>2, StackTop
<1>6. stack[n].kind = "write" /\ \A i \in 1 .. n - 1 : stack'[i] = stack[i]
  BY <1>2, <1>4, <1>5
<1>7. \A c : Reading(stack', c) = Reading(stack, c)
  <2>1. CASE Len(Top.rest) > 1
    <3>1. Len(stack') = n /\ stack'[n].kind = "write"
      BY <1>4, <1>5, <2>1
    <3>2. CASE n = 1
      <4>1. ~ReadFirst(stack) /\ ~ReadFirst(stack')
        BY <1>6, <3>1, <3>2 DEF ReadFirst
      <4> QED
        BY <4>1, ReadingSame
    <3>3. CASE n # 1
      <4>1. 1 \in 1 .. n - 1
        BY <1>5, <3>3
      <4>2. stack'[1] = stack[1] /\ stack # << >> /\ stack' # << >>
        BY <1>2, <1>5, <1>6, <3>1, <4>1, EmptySeq
      <4>3. ReadFirst(stack') <=> ReadFirst(stack)
        BY <4>2 DEF ReadFirst
      <4> QED
        BY <4>2, <4>3, ReadingSame
    <3> QED
      BY <3>2, <3>3
  <2>2. CASE ~(Len(Top.rest) > 1)
    <3>1. Len(stack') = n - 1
      BY <1>4, <1>5, <2>2
    <3> QED
      BY <1>1, <1>4, <1>5, <1>6, <3>1, FrontReading
  <2> QED
    BY <2>1, <2>2
<1> QED
  BY <1>1, <1>2, <1>3, <1>4, <1>7, QuietOrder

\* One of the accepted sockets, whose connection nobody has served, becomes a session.
LEMMA AddOrder ==
    ASSUME ServerInv, OrderInv, NEW l \in Listener, NEW sockets \in Seq(Accepted) \ {<< >>},
           NewSockets(sockets, backlog'), AddNewConn(<< >>, l, sockets), ~ReadFirst(stack),
           \A i \in 1 .. Len(sockets) : Fresh(sockets[i].conn),
           \A m \in Listener : \A i \in 1 .. Len(backlog'[m]) : Fresh(backlog'[m][i]),
           UNCHANGED <<made, peer>>
    PROVE  OrderInv'
<1>1. PICK n, s : n = Len(sockets) /\ n \in Nat \ {0} /\ 1 \in 1 .. n /\ s = sockets[1] /\ s \in Accepted
  BY EmptySeq, LenProperties, ElementOfSeq
<1>2. s.fd \notin Live /\ s.conn \in Conn /\ Fresh(s.conn) /\ s.fd \in Nat
  BY <1>1, ServerAssumption DEF NewSockets, Accepted
<1>3. PICK frame, rest : rest = Tail(sockets) /\ frame = Frame("accept", s.fd, s.conn, l, rest)
  OBVIOUS
<1>4. rest \in Seq(Accepted) /\ Len(rest) = n - 1 /\ \A i \in 1 .. n - 1 : rest[i] = sockets[i + 1]
  BY <1>1, <1>3, HeadTailProperties
<1>5. frame.kind = "accept" /\ frame.rest = rest /\ frame \in FrameSet
  <2>1. s.conn \in Nat
    BY <1>2 DEF Conn
  <2> QED
    BY <1>2, <1>3, <1>4, <2>1 DEF Frame, FrameSet
<1>6. /\ clients' = [fd \in Live \cup {s.fd} |->
                        IF fd = s.fd THEN [conn |-> s.conn, listen |-> l, rb |-> << >>, wb |-> << >>] ELSE clients[fd]]
      /\ stack' = Append(<< >>, frame)
  BY <1>1, <1>3, Zenon DEF AddNewConn
<1>7. /\ Live' = Live \cup {s.fd} /\ clients'[s.fd].conn = s.conn
      /\ clients'[s.fd].rb = << >> /\ clients'[s.fd].wb = << >>
      /\ \A fd \in Live : clients'[fd] = clients[fd]
  BY <1>2, <1>6 DEF Live
<1>8. stack' # << >> /\ stack'[1] = frame
  <2>1. << >> \in Seq(FrameSet) /\ Len(<< >>) = 0
    OBVIOUS
  <2>2. /\ Len(Append(<< >>, frame)) = Len(<< >>) + 1
        /\ Append(<< >>, frame)[Len(<< >>) + 1] = frame
    BY <1>5, <2>1, AppendProperties
  <2>3. Len(stack') = 1 /\ stack'[1] = frame
    BY <1>6, <2>1, <2>2
  <2>4. Len(stack') # 0
    BY <2>3
  <2> QED
    BY <2>1, <2>3, <2>4, Zenon
<1>9. Pending' = rest
  BY <1>5, <1>8 DEF Pending
<1>10. \A c : Reading(stack', c) = << >> /\ Reading(stack, c) = << >>
  <2>1. ~ReadFirst(stack')
    BY <1>5, <1>8 DEF ReadFirst
  <2> QED
    BY <2>1, ReadingNone
<1>11. ASSUME NEW c \in Conn, Fresh(c)' PROVE Fresh(c)
  <2>1. CASE c > made'
    BY <2>1 DEF Fresh
  <2>2. ASSUME NEW m \in Listener, NEW i \in 1 .. Len(backlog'[m]), backlog'[m][i] = c PROVE Fresh(c)
    BY <2>2
  <2>3. ASSUME NEW i \in 1 .. Len(rest), rest[i].conn = c PROVE Fresh(c)
    <3>1. i + 1 \in 1 .. n /\ rest[i] = sockets[i + 1]
      BY <1>1, <1>4
    <3> QED
      BY <1>1, <2>3, <3>1
  <2> QED
    BY <1>9, <1>11, <2>1, <2>2, <2>3, Zenon DEF Fresh
<1>12. \A c \in Conn : Written(peer'[c]) /\ Delivered(peer'[c], Reading(stack', c))
  <2>1. \A c \in Conn : Written(peer[c]) /\ Delivered(peer[c], Reading(stack, c))
    BY Zenon DEF OrderInv
  <2> QED
    BY <1>10, <2>1
<1>13. ASSUME NEW fd \in Live'
       PROVE  /\ Writing(peer'[clients'[fd].conn], clients'[fd].wb)
              /\ Receiving(peer'[clients'[fd].conn], Reading(stack', clients'[fd].conn), clients'[fd].rb)
  <2>1. CASE fd \in Live
    <3>1. /\ Writing(peer[clients[fd].conn], clients[fd].wb)
          /\ Receiving(peer[clients[fd].conn], Reading(stack, clients[fd].conn), clients[fd].rb)
      BY <2>1, Zenon DEF OrderInv
    <3>2. clients'[fd] = clients[fd] /\ peer' = peer
      BY <1>7, <2>1
    <3> QED
      BY <1>10, <3>1, <3>2
  <2>2. CASE fd = s.fd
    <3>1. PICK p : p = peer[s.conn]
      OBVIOUS
    <3>2. p.taken = 0 /\ p.queued = 0 /\ p.delivered = << >> /\ p.wire = << >>
      BY <1>2, <3>1, Zenon DEF OrderInv, Untouched
    <3>3. Len(<< >>) = 0 /\ Size(<< >>) = 0 /\ Run(<< >>, Len(p.wire) + 1)
          /\ Run(<< >>, (Len(p.delivered) + Size(<< >>)) + 1)
      BY EmptyRun
    <3>4. OnlyFirst(<< >>)
      BY <3>3 DEF OnlyFirst
    <3>5. Writing(p, << >>)
      BY <3>2, <3>3 DEF Writing
    <3>6. Receiving(p, << >>, << >>)
      BY <3>2, <3>3, <3>4 DEF Receiving
    <3>7. peer'[clients'[fd].conn] = p /\ clients'[fd].wb = << >> /\ clients'[fd].rb = << >>
          /\ Reading(stack', clients'[fd].conn) = << >>
      BY <1>7, <1>10, <2>2, <3>1
    <3> QED
      BY <3>5, <3>6, <3>7, Zenon
  <2> QED
    BY <1>7, <2>1, <2>2
<1>14. ASSUME NEW c \in Conn, Fresh(c)' PROVE Untouched(peer'[c]) /\ Reading(stack', c) = << >>
  <2>1. Fresh(c)
    BY <1>11, <1>14
  <2>2. Untouched(peer[c])
    BY <2>1, Zenon DEF OrderInv
  <2> QED
    BY <1>10, <2>2
<1> QED
  BY <1>12, <1>13, <1>14, Zenon DEF OrderInv

\* OnAccept keeps the order: the new session's chains are empty and its connection is
\* untouched.
LEMMA OnAcceptOrder == ASSUME ServerInv, OrderInv, OnAccept PROVE OrderInv'
<1> DEFINE l == NextFd
<1>1. stack = << >> /\ events # << >> /\ Head(events).ev = "CFEV_ACCEPT" /\ UNCHANGED <<made, peer>>
  BY DEF OnAccept, NextIs, Idle
<1>2. TypeInv /\ ConnInv
  BY DEF ServerInv
<1>3. l \in Listener
  BY <1>1, <1>2, NextEvent
<1>4. CASE backlog[l] = << >> /\ UNCHANGED <<clients, interest, stack, backlog>>
  <2>1. \A c \in Conn : SamePeer(peer[c], peer'[c])
    BY <1>1 DEF SamePeer
  <2> QED
    BY <1>1, <1>4, <2>1, StillOrder
<1>5. CASE /\ backlog[l] # << >>
           /\ \E free \in Lowest(Fd \ Live, Len(backlog[l])) :
                AddNewConn(stack, l, [i \in DOMAIN backlog[l] |-> [fd |-> free[i], conn |-> backlog[l][i]]])
           /\ backlog' = [backlog EXCEPT ![l] = << >>]
  <2>1. PICK free \in Lowest(Fd \ Live, Len(backlog[l])) :
                AddNewConn(stack, l, [i \in DOMAIN backlog[l] |-> [fd |-> free[i], conn |-> backlog[l][i]]])
    BY <1>5
  <2> HIDE DEF l
  <2>2. PICK sockets \in Seq(Accepted) \ {<< >>} :
              /\ NewSockets(sockets, backlog') /\ AddNewConn(<< >>, l, sockets)
              /\ backlog'[l] = << >> /\ \A m \in Listener : m # l => backlog'[m] = backlog[m]
              /\ Len(sockets) = Len(backlog[l]) /\ \A i \in 1 .. Len(backlog[l]) : sockets[i].conn = backlog[l][i]
    BY <1>1, <1>2, <1>3, <1>5, <2>1, AcceptsAll
  <2>3. \A m \in Listener : \A i \in 1 .. Len(backlog[m]) : Fresh(backlog[m][i])
    BY Zenon DEF Fresh
  <2>4. \A i \in 1 .. Len(sockets) : Fresh(sockets[i].conn)
    BY <1>3, <2>2, <2>3
  <2>5. ASSUME NEW m \in Listener, NEW i \in 1 .. Len(backlog'[m]) PROVE Fresh(backlog'[m][i])
    <3>1. m # l
      <4>1. Len(<< >>) = 0 /\ 1 .. 0 = {}
        OBVIOUS
      <4> QED
        BY <2>2, <2>5, <4>1
    <3> QED
      BY <2>2, <2>3, <2>5, <3>1
  <2>6. ~ReadFirst(stack)
    BY <1>1 DEF ReadFirst
  <2> QED
    BY <1>1, <1>3, <2>2, <2>4, <2>5, <2>6, AddOrder
<1> QED
  BY <1>4, <1>5 DEF OnAccept

\* The return from OnAcceptComplete keeps the order: the next session's connection is
\* untouched.
LEMMA AcceptReturnsOrder == ASSUME ServerInv, OrderInv, AcceptReturns PROVE OrderInv'
<1> DEFINE l == Top.listen
<1>1. stack # << >> /\ Top.kind = "accept" /\ UNCHANGED <<backlog, made, peer>>
  BY DEF AcceptReturns
<1>2. TypeInv /\ FrameInv /\ PendingInv /\ stack \in Seq(FrameSet)
  BY DEF ServerInv, TypeInv
<1>3. Len(stack) = 1 /\ Top = stack[1]
  BY <1>1, <1>2, OnlyHandler
<1>4. l \in Listener /\ Top.rest \in Seq(Accepted)
  BY <1>1, <1>2, <1>3 DEF FrameInv
<1>5. Front(stack) = << >>
  <2>1. Front(stack) \in Seq(FrameSet) /\ Len(Front(stack)) = 0
    BY <1>1, <1>2, <1>3, StackTop
  <2> QED
    BY <2>1, EmptySeq
<1>6. Pending = Top.rest
  BY <1>1, <1>3 DEF Pending
<1>7. ~ReadFirst(stack)
  BY <1>1, <1>3 DEF ReadFirst
<1>8. CASE Top.rest # << >> /\ AddNewConn(Front(stack), l, Top.rest)
  <2>1. Top.rest \in Seq(Accepted) \ {<< >>} /\ AddNewConn(<< >>, l, Top.rest)
    BY <1>4, <1>5, <1>8
  <2>2. NewSockets(Top.rest, backlog')
    BY <1>1, <1>2, <1>6 DEF PendingInv
  <2>3. \A i \in 1 .. Len(Top.rest) : Fresh(Top.rest[i].conn)
    BY <1>6, Zenon DEF Fresh
  <2>4. \A m \in Listener : \A i \in 1 .. Len(backlog'[m]) : Fresh(backlog'[m][i])
    BY <1>1, Zenon DEF Fresh
  <2> HIDE DEF l
  <2> QED
    BY <1>1, <1>4, <1>7, <2>1, <2>2, <2>3, <2>4, AddOrder
<1>9. CASE Top.rest = << >> /\ Pop /\ UNCHANGED clients
  <2>1. stack' = << >>
    BY <1>5, <1>9 DEF Pop
  <2>2. Pending = << >> /\ Pending' = << >>
    BY <1>6, <1>9, <2>1 DEF Pending
  <2>3. ~ReadFirst(stack')
    BY <2>1 DEF ReadFirst
  <2>4. \A c : Reading(stack', c) = Reading(stack, c)
    BY <1>7, <2>3, ReadingNone
  <2>5. Live' = Live /\ \A fd \in Live : clients'[fd] = clients[fd]
    BY <1>9 DEF Live
  <2> QED
    BY <1>1, <1>2, <2>2, <2>4, <2>5, QuietOrder
<1> QED
  BY <1>8, <1>9 DEF AcceptReturns

\* What is being handed over is a chain of buffers.
LEMMA ReadingType == ASSUME TypeInv, FrameInv, NEW c PROVE Reading(stack, c) \in Seq(Buffer)
<1>1. << >> \in Seq(Buffer)
  OBVIOUS
<1>2. CASE ReadFirst(stack)
  <2>1. 1 \in 1 .. Len(stack)
    <3>1. Len(stack) \in Nat /\ Len(stack) # 0
      BY <1>2, EmptySeq, LenProperties DEF ReadFirst, TypeInv
    <3> QED
      BY <3>1
  <2>2. stack[1].rest \in Seq(Buffer)
    BY <1>2, <2>1 DEF FrameInv, ReadFirst
  <2> QED
    BY <1>1, <2>2 DEF Reading
<1>3. CASE ~ReadFirst(stack)
  BY <1>1, <1>3, ReadingNone
<1> QED
  BY <1>2, <1>3

\* The connection of a session is served.
LEMMA ServedNotFresh ==
    ASSUME TypeInv, ConnInv, PendingInv, NEW fd \in Live
    PROVE  ~Fresh(clients[fd].conn)
<1>1. PICK c, m : c = clients[fd].conn /\ m = made
  OBVIOUS
<1>2. c \in Nat /\ m \in Nat /\ c <= m
  BY <1>1, SessionType, ServerAssumption DEF TypeInv, ConnInv
<1>3. ~(c > m)
  BY <1>2
<1>4. \A l \in Listener : \A i \in 1 .. Len(backlog[l]) : backlog[l][i] # c
  BY <1>1 DEF ConnInv
<1>5. \A i \in 1 .. Len(Pending) : Pending[i].conn # c
  BY <1>1 DEF PendingInv, NewSockets
<1> QED
  BY <1>1, <1>3, <1>4, <1>5, Zenon DEF Fresh

\* The order is kept by a step for one session that moves bytes of its connection only.
LEMMA SessionOrder ==
    ASSUME ServerInv, OrderInv, NEW fd \in Live, NEW c, c = clients[fd].conn,
           Live' = Live, \A f \in Live : f # fd => clients'[f] = clients[f], clients'[fd].conn = c,
           backlog' = backlog, made' = made, Pending' = Pending,
           \A d \in Conn : d # c => peer'[d] = peer[d] /\ Reading(stack', d) = Reading(stack, d),
           NEW p, p = peer'[c], NEW reading, reading = Reading(stack', c),
           Written(p), Delivered(p, reading), Writing(p, clients'[fd].wb), Receiving(p, reading, clients'[fd].rb)
    PROVE  OrderInv'
<1>1. TypeInv /\ ConnInv /\ PendingInv
  BY DEF ServerInv
<1>2. ~Fresh(c) /\ c \in Conn
  BY <1>1, ServedNotFresh, SessionType
<1>3. ASSUME NEW d \in Conn PROVE Written(peer'[d]) /\ Delivered(peer'[d], Reading(stack', d))
  <2>1. CASE d = c
    BY <2>1
  <2>2. CASE d # c
    <3>1. Written(peer[d]) /\ Delivered(peer[d], Reading(stack, d))
      BY Zenon DEF OrderInv
    <3> QED
      BY <2>2, <3>1
  <2> QED
    BY <2>1, <2>2
<1>4. ASSUME NEW f \in Live'
      PROVE  /\ Writing(peer'[clients'[f].conn], clients'[f].wb)
             /\ Receiving(peer'[clients'[f].conn], Reading(stack', clients'[f].conn), clients'[f].rb)
  <2>1. CASE f = fd
    BY <2>1
  <2>2. CASE f # fd
    <3>1. f \in Live /\ clients'[f] = clients[f]
      BY <2>2
    <3>2. PICK d : d = clients[f].conn
      OBVIOUS
    <3>3. d # c
      BY <1>1, <2>2, <3>1, <3>2 DEF ConnInv
    <3>4. d \in Conn
      BY <1>1, <3>1, <3>2, SessionType
    <3>5. peer'[d] = peer[d] /\ Reading(stack', d) = Reading(stack, d)
      BY <3>3, <3>4
    <3>6. Writing(peer[d], clients[f].wb) /\ Receiving(peer[d], Reading(stack, d), clients[f].rb)
      BY <3>1, <3>2, Zenon DEF OrderInv
    <3> QED
      BY <3>1, <3>2, <3>5, <3>6, Zenon
  <2> QED
    BY <2>1, <2>2
<1>5. ASSUME NEW d \in Conn, Fresh(d)' PROVE Untouched(peer'[d]) /\ Reading(stack', d) = << >>
  <2>1. Fresh(d)
    BY <1>5, FreshSame
  <2>2. d # c
    BY <1>2, <2>1
  <2>3. Untouched(peer[d]) /\ Reading(stack, d) = << >>
    BY <2>1, Zenon DEF OrderInv
  <2> QED
    BY <2>2, <2>3
<1> QED
  BY <1>3, <1>4, <1>5, Zenon DEF OrderInv

\* The order that the invariant states for one session, and the types of its parts.
SessionOrdered(fd, c, p, m, w, reading, q) ==
    /\ c = clients[fd].conn /\ c \in Conn /\ p = peer[c] /\ p \in PeerSet
    /\ m = Len(p.delivered) /\ m \in Nat /\ w = Len(p.wire) /\ w \in Nat
    /\ reading = Reading(stack, c) /\ reading \in Seq(Buffer) /\ q = m + Size(reading) /\ q \in Nat
    /\ Written(p) /\ Delivered(p, reading) /\ Writing(p, clients[fd].wb) /\ Receiving(p, reading, clients[fd].rb)

\* A session has the parts and the order that the invariant states.
LEMMA SessionOf ==
    ASSUME ServerInv, OrderInv, NEW fd \in Live
    PROVE  \E c, p, m, w, reading, q : SessionOrdered(fd, c, p, m, w, reading, q)
<1>1. TypeInv /\ FrameInv
  BY DEF ServerInv
<1>2. PICK c, p, reading : c = clients[fd].conn /\ p = peer[c] /\ reading = Reading(stack, c)
  OBVIOUS
<1>3. c \in Conn /\ p \in PeerSet
  BY <1>1, <1>2, SessionType
<1>4. reading \in Seq(Buffer)
  BY <1>1, <1>2, ReadingType
<1>5. Size(reading) \in Nat
  <2>1. PICK L, D : Sums(reading, L, D)
    BY <1>4, SumsOf
  <2>2. L \in Nat /\ D \in [0 .. L -> Nat] /\ Size(reading) = D[L]
    BY <2>1 DEF Sums
  <2> QED
    BY <2>2
<1>6. p.delivered \in Seq(Nat) /\ p.wire \in Seq(Nat)
  BY <1>3, PeerType
<1>7. PICK m, w, s : m = Len(p.delivered) /\ w = Len(p.wire) /\ s = Size(reading)
  OBVIOUS
<1>8. m \in Nat /\ w \in Nat /\ s \in Nat
  BY <1>5, <1>6, <1>7, LenProperties
<1>9. m + s \in Nat
  BY <1>8
<1>10. Written(p) /\ Delivered(p, reading)
  BY <1>2, <1>3, Zenon DEF OrderInv
<1>11. Writing(p, clients[fd].wb) /\ Receiving(p, reading, clients[fd].rb)
  BY <1>2, Zenon DEF OrderInv
<1>12. SessionOrdered(fd, c, p, m, w, reading, m + s)
  BY <1>2, <1>3, <1>4, <1>7, <1>8, <1>9, <1>10, <1>11, Zenon DEF SessionOrdered
<1> QED
  BY <1>12, Zenon

\* AsyncRead keeps the order: it appends a buffer without data.
LEMMA AsyncReadOrder ==
    ASSUME ServerInv, OrderInv, NEW fd \in Live, NEW n \in ReadSize, AsyncRead(fd, n)
    PROVE  OrderInv'
<1>1. PICK b, chain : b = GetReadBuffer(n) /\ chain = Append(clients[fd].rb, b)
  OBVIOUS
<1>2. clients' = [clients EXCEPT ![fd].rb = chain] /\ UNCHANGED <<stack, peer, backlog, made>>
  BY <1>1 DEF AsyncRead, CanCall
<1>3. TypeInv /\ clients[fd].rb \in Seq(Buffer)
  BY SessionType DEF ServerInv
<1>4. b \in Buffer /\ b.data = << >>
  <2>1. Taken(rbPool) \in Nat /\ << >> \in Seq(Nat)
    BY <1>3, TakenType DEF TypeInv
  <2>2. n \in Nat
    BY ServerAssumption
  <2> QED
    BY <1>1, <2>1, <2>2 DEF GetReadBuffer, Buffer
<1>5. PICK old, L : old = clients[fd].rb /\ old \in Seq(Buffer) /\ L = Len(old) /\ L \in Nat
  BY <1>3, LenProperties
<1>6. /\ chain \in Seq(Buffer) /\ Len(chain) = L + 1 /\ chain[L + 1] = b /\ \A i \in 1 .. L : chain[i] = old[i]
  BY <1>1, <1>4, <1>5, AppendProperties
<1>7. /\ Live' = Live /\ clients'[fd].conn = clients[fd].conn /\ clients'[fd].wb = clients[fd].wb
      /\ clients'[fd].rb = chain
  <2>1. /\ Live' = Live
        /\ \A f \in Live : /\ clients'[f].conn = clients[f].conn /\ clients'[f].wb = clients[f].wb
                           /\ clients'[f].rb = IF f = fd THEN chain ELSE clients[f].rb
    BY <1>2, <1>3, <1>6, ReadsChanged
  <2> QED
    BY <2>1
<1>8. \A f \in Live : f # fd => clients'[f] = clients[f]
  BY <1>2, <1>3 DEF TypeInv
<1>9. PICK c, p, m, w, reading, q : SessionOrdered(fd, c, p, m, w, reading, q)
  BY SessionOf
<1>10. /\ c = clients[fd].conn /\ p = peer[c] /\ m = Len(p.delivered) /\ reading = Reading(stack, c) /\ q = m + Size(reading)
       /\ q \in Nat /\ Written(p) /\ Delivered(p, reading) /\ Writing(p, clients[fd].wb) /\ Receiving(p, reading, old)
  BY <1>5, <1>9, Zenon DEF SessionOrdered
<1>11. Run(old, q + 1) /\ OnlyFirst(old) /\ q + Size(old) = p.taken
  BY <1>10, Zenon DEF Receiving
<1>12. Run(chain, q + 1) /\ Size(chain) = Size(old)
  <2>1. PICK s : s = Size(old)
    OBVIOUS
  <2>2. PICK k, D : Sums(old, k, D)
    BY <1>5, SumsOf
  <2>3. s \in Nat
    <3>1. k \in Nat /\ D \in [0 .. k -> Nat] /\ s = D[k]
      BY <2>1, <2>2 DEF Sums
    <3> QED
      BY <3>1
  <2>4. PICK first : first = q + 1 /\ first \in Nat /\ first + s \in Nat
    BY <1>10, <2>3
  <2>5. From(first + s, 0) = << >>
    BY <2>4, FromNone
  <2>6. Len(b.data) = 0
    BY <1>4
  <2>7. b.data = From(first + Size(old), Len(b.data))
    BY <1>4, <2>1, <2>5, <2>6
  <2>8. Run(old, first)
    BY <1>11, <2>4
  <2>9. chain = Append(old, b)
    BY <1>1, <1>5
  <2>10. Run(chain, first) /\ Size(chain) = Size(old) + Len(b.data) /\ Size(old) \in Nat
    <3>1. b \in Buffer
      BY <1>4
    <3>2. old \in Seq(Buffer)
      BY <1>5
    <3>3. first \in Nat
      BY <2>4
    <3> QED
      BY <2>7, <2>8, <2>9, <3>1, <3>2, <3>3, AppendRun, Zenon
  <2> QED
    BY <2>4, <2>6, <2>10
<1>13. OnlyFirst(chain)
  <2>1. ASSUME NEW i \in 2 .. L + 1 PROVE chain[i].data = << >>
    <3>1. CASE i = L + 1
      BY <1>4, <1>6, <3>1
    <3>2. CASE i # L + 1
      <4>1. i \in 2 .. L /\ i \in 1 .. L
        BY <1>5, <3>2
      <4> QED
        BY <1>5, <1>6, <1>11, <4>1 DEF OnlyFirst
    <3> QED
      BY <3>1, <3>2
  <2> QED
    BY <1>6, <2>1 DEF OnlyFirst
<1>14. Receiving(p, reading, chain)
  BY <1>10, <1>11, <1>12, <1>13, Zenon DEF Receiving
<1>15. Pending' = Pending /\ \A d : peer'[d] = peer[d] /\ Reading(stack', d) = Reading(stack, d)
  BY <1>2 DEF Pending
<1>16. p = peer'[c] /\ reading = Reading(stack', c) /\ clients'[fd].conn = c /\ backlog' = backlog /\ made' = made
  BY <1>2, <1>7, <1>10, <1>15
<1>17. Writing(p, clients'[fd].wb) /\ Receiving(p, reading, clients'[fd].rb)
  BY <1>7, <1>10, <1>14
<1> QED
  BY <1>7, <1>8, <1>10, <1>15, <1>16, <1>17, SessionOrder

\* AsyncWrite keeps the order: it appends a buffer with the bytes queued next.
LEMMA AsyncWriteOrder ==
    ASSUME ServerInv, OrderInv, NEW fd \in Live, NEW n \in WriteSize, AsyncWrite(fd, n)
    PROVE  OrderInv'
<1>1. PICK c, p, m, w, reading, q : SessionOrdered(fd, c, p, m, w, reading, q)
  BY SessionOf
<1>2. /\ c = clients[fd].conn /\ c \in Conn /\ p = peer[c] /\ p \in PeerSet /\ w = Len(p.wire) /\ w \in Nat
      /\ reading = Reading(stack, c)
      /\ Written(p) /\ Delivered(p, reading) /\ Writing(p, clients[fd].wb) /\ Receiving(p, reading, clients[fd].rb)
  BY <1>1, Zenon DEF SessionOrdered
<1>3. PICK queued : queued = p.queued /\ queued \in Nat
  BY <1>2, PeerType
<1>4. n \in Nat
  BY ServerAssumption
<1>5. PICK b, chain : b = GetWriteBuffer(queued + 1, n) /\ chain = Append(clients[fd].wb, b)
  OBVIOUS
<1>6. /\ clients' = [clients EXCEPT ![fd].wb = chain] /\ peer' = [peer EXCEPT ![c].queued = @ + n]
      /\ UNCHANGED <<stack, backlog, made>>
  BY <1>2, <1>3, <1>5 DEF AsyncWrite, CanCall
<1>7. TypeInv
  BY DEF ServerInv
<1>8. PICK old : old = clients[fd].wb /\ old \in Seq(Buffer)
  BY <1>7, SessionType
<1>9. PICK data : data = From(queued + 1, n) /\ data \in Seq(Nat) /\ Len(data) = n
  <2>1. PICK first : first = queued + 1 /\ first \in Nat
    BY <1>3
  <2> QED
    BY <1>4, <2>1, FromType
<1>10. b \in Buffer /\ b.data = data
  <2>1. Taken(wbPool) \in Nat
    BY <1>7, TakenType DEF TypeInv
  <2>2. b = [id |-> Taken(wbPool), total |-> n, data |-> data]
    BY <1>5, <1>9 DEF GetWriteBuffer, SetBuffer
  <2> QED
    BY <1>4, <1>9, <2>1, <2>2 DEF Buffer
<1>11. chain \in Seq(Buffer) /\ chain = Append(old, b)
  BY <1>5, <1>8, <1>10, AppendProperties
<1>12. /\ Live' = Live
       /\ \A f \in Live : /\ clients'[f].conn = clients[f].conn /\ clients'[f].rb = clients[f].rb
                          /\ clients'[f].wb = IF f = fd THEN chain ELSE clients[f].wb
  BY <1>6, <1>7, <1>11, WritesChanged
<1>13. \A f \in Live : f # fd => clients'[f] = clients[f]
  BY <1>6, <1>7 DEF TypeInv
<1>14. Run(old, w + 1) /\ w + Size(old) = queued
  BY <1>2, <1>3, <1>8, Zenon DEF Writing
<1>15. PICK s : s = Size(old) /\ s \in Nat
  <2>1. PICK k, D : Sums(old, k, D)
    BY <1>8, SumsOf
  <2>2. k \in Nat /\ D \in [0 .. k -> Nat] /\ Size(old) = D[k]
    BY <2>1 DEF Sums
  <2> QED
    BY <2>2
<1>16. Run(chain, w + 1) /\ Size(chain) = s + n
  <2>1. PICK first : first = w + 1 /\ first \in Nat
    BY <1>2
  <2>2. first + s = queued + 1
    BY <1>2, <1>14, <1>15, <2>1
  <2>3. b.data = From(first + Size(old), Len(b.data))
    BY <1>9, <1>10, <1>15, <2>2
  <2>4. Run(old, first)
    BY <1>14, <2>1
  <2>5. b \in Buffer
    BY <1>10
  <2>6. old \in Seq(Buffer)
    BY <1>8
  <2>7. first \in Nat
    BY <2>1
  <2>8. chain = Append(old, b)
    BY <1>11
  <2>9. Run(chain, first) /\ Size(chain) = Size(old) + Len(b.data) /\ Size(old) \in Nat
    BY <2>3, <2>4, <2>5, <2>6, <2>7, <2>8, AppendRun, Zenon
  <2> QED
    BY <1>9, <1>10, <1>15, <2>1, <2>9
<1>17. PICK r : r = [p EXCEPT !.queued = queued + n]
  OBVIOUS
<1>18. r.queued = queued + n /\ r.wire = p.wire /\ r.delivered = p.delivered /\ r.taken = p.taken
  BY <1>2, <1>3, <1>17 DEF PeerSet
<1>19. Written(r) /\ Delivered(r, reading) /\ Receiving(r, reading, clients[fd].rb)
  BY <1>2, <1>18, Zenon DEF Written, Delivered, Receiving
<1>20. Writing(r, chain)
  <2>1. w + s = queued
    BY <1>14, <1>15, Zenon
  <2>2. w + (s + n) = queued + n
    <3>1. w \in Nat /\ n \in Nat /\ s \in Nat
      BY <1>2, <1>4, <1>15
    <3> QED
      BY <2>1, <3>1
  <2> QED
    BY <1>2, <1>16, <1>18, <2>2, Zenon DEF Writing
<1>21. r = peer'[c] /\ \A d \in Conn : d # c => peer'[d] = peer[d]
  BY <1>2, <1>3, <1>6, <1>7, <1>17 DEF TypeInv
<1>22. Pending' = Pending /\ reading = Reading(stack', c) /\ \A d : Reading(stack', d) = Reading(stack, d)
  BY <1>2, <1>6 DEF Pending
<1>23. clients'[fd].conn = c /\ Writing(r, clients'[fd].wb) /\ Receiving(r, reading, clients'[fd].rb)
  BY <1>2, <1>12, <1>19, <1>20
<1> QED
  BY <1>2, <1>6, <1>12, <1>13, <1>19, <1>21, <1>22, <1>23, SessionOrder

\* Of the chain rest, the first buffer's bytes follow the m that got has, and more has them too.
Goes(rest, got, m, more) ==
    /\ rest \in Seq(Buffer) /\ rest # << >> /\ got \in Seq(Nat) /\ m = Len(got) /\ m \in Nat
    /\ got = From(1, m) /\ Run(rest, m + 1) /\ more = got \o rest[1].data

\* What more has is in order, and so is what is left of the chain.
Gone(rest, m, more) ==
    \E k \in Nat : /\ more = From(1, k) /\ Len(more) = k /\ Run(Tail(rest), k + 1)
                   /\ k + Size(Tail(rest)) = m + Size(rest)

\* OnReadComplete returns: the bytes of its buffer are delivered.
LEMMA DeliverRun == ASSUME NEW rest, NEW got, NEW m, NEW more, Goes(rest, got, m, more) PROVE Gone(rest, m, more)
<1> /\ rest \in Seq(Buffer) /\ rest # << >> /\ got \in Seq(Nat) /\ m = Len(got) /\ m \in Nat
    /\ got = From(1, m) /\ Run(rest, m + 1) /\ more = got \o rest[1].data
  BY DEF Goes
<1>1. PICK L, D : Sums(rest, L, D)
  BY SumsOf
<1>2. /\ L = Len(rest) /\ L \in Nat \ {0} /\ D = DataTo(rest) /\ D[0] = 0 /\ D[1] = D[0] + Len(rest[1].data)
      /\ 1 \in 1 .. L /\ D \in [0 .. L -> Nat]
  <2>1. L # 0
    BY <1>1, EmptySeq DEF Sums
  <2> QED
    BY <1>1, <2>1 DEF Sums
<1>3. PICK d : d = D[1] /\ d \in Nat
  BY <1>2
<1>4. Len(rest[1].data) = d /\ rest[1].data = From((m + 1) + 0, d)
  <2>1. rest[1].data = From((m + 1) + DataTo(rest)[0], Len(rest[1].data))
    <3>1. rest[1].data = From((m + 1) + DataTo(rest)[1 - 1], Len(rest[1].data))
      BY <1>2, Zenon DEF Run
    <3>2. 1 - 1 = 0
      OBVIOUS
    <3> QED
      BY <3>1, <3>2
  <2>2. Len(rest[1].data) \in Nat
    BY <1>2, BufferType
  <2>3. Len(rest[1].data) = d
    BY <1>2, <1>3, <2>2
  <2>4. DataTo(rest)[0] = 0
    BY <1>2
  <2> QED
    BY <2>1, <2>3, <2>4, Zenon
<1>5. more = From(1, m + d) /\ Len(more) = m + d /\ m + d \in Nat
  <2>1. (m + 1) + 0 = 1 + m /\ m + d \in Nat
    BY <1>3
  <2>2. more = From(1, m) \o From(1 + m, d)
    BY <1>4, <2>1
  <2>3. From(1, m) \o From(1 + m, d) = From(1, m + d)
    BY <1>3, FromOneJoins
  <2>4. Len(From(1, m + d)) = m + d
    BY <2>1, FromType
  <2> QED
    BY <2>1, <2>2, <2>3, <2>4
<1>6. PICK tail : tail = Tail(rest) /\ tail \in Seq(Buffer)
  BY HeadTailProperties
<1>7. Cut(rest, 1, SubSeq(rest, 1, 1), tail)
  <2>1. 1 \in 0 .. Len(rest)
    BY <1>2
  <2>2. SubSeq(rest, 1, 1) \in Seq(Buffer) /\ Len(SubSeq(rest, 1, 1)) = 1 /\ \A i \in 1 .. 1 : SubSeq(rest, 1, 1)[i] = rest[i]
    BY <2>1, SplitChain
  <2>3. Len(tail) = Len(rest) - 1 /\ \A i \in 1 .. Len(tail) : tail[i] = rest[i + 1]
    BY <1>6, HeadTailProperties
  <2> QED
    BY <1>6, <2>2, <2>3 DEF Cut
<1>8. Run(tail, (m + 1) + d) /\ Size(tail) = Size(rest) - d /\ Size(rest) \in Nat
  <2>1. 1 \in 0 .. Len(rest) /\ d = DataTo(rest)[1]
    BY <1>2, <1>3
  <2>2. PICK first : first = m + 1 /\ first \in Nat
    OBVIOUS
  <2>3. Run(rest, first)
    BY <2>2
  <2>4. Run(tail, first + d) /\ Size(tail) = Size(rest) - d /\ Size(rest) \in Nat
    BY <1>7, <2>1, <2>2, <2>3, SplitRun
  <2> QED
    BY <2>2, <2>4
<1>9. PICK s, t : s = Size(rest) /\ t = Size(tail)
  OBVIOUS
<1>10. (m + 1) + d = (m + d) + 1 /\ (m + d) + t = m + s
  <2>1. s \in Nat /\ t = s - d
    BY <1>8, <1>9, Zenon
  <2>2. \A a, b, e \in Nat : (a + 1) + b = (a + b) + 1 /\ (a + b) + (e - b) = a + e
    OBVIOUS
  <2> QED
    BY <1>3, <2>1, <2>2, Zenon
<1> QED
  BY <1>5, <1>6, <1>8, <1>9, <1>10 DEF Gone

\* The return from OnReadComplete keeps the order: the application has the bytes of its
\* buffer now.
LEMMA ReadReturnsOrder == ASSUME ServerInv, OrderInv, ReadReturns PROVE OrderInv'
<1>1. TypeInv /\ FrameInv /\ ConnInv /\ PendingInv /\ stack \in Seq(FrameSet) /\ peer \in [Conn -> PeerSet]
  BY DEF ServerInv, TypeInv
<1>2. /\ stack # << >> /\ Top.kind = "read" /\ UNCHANGED <<clients, backlog, made>>
      /\ peer' = [peer EXCEPT ![Top.conn].delivered = @ \o Top.rest[1].data]
      /\ IF Len(Top.rest) > 1 THEN stack' = [stack EXCEPT ![Len(stack)].rest = Tail(@)] ELSE Pop
  BY DEF ReadReturns
<1>3. Live' = Live
  BY <1>2 DEF Live
<1>4. /\ stack' \in Seq(FrameSet) /\ Pending' = Pending /\ Top.conn \in Conn
      /\ Top.rest \in Seq(Buffer) /\ Top.rest # << >>
      /\ IF Len(Top.rest) > 1
         THEN Len(stack') = Len(stack) /\ stack'[Len(stack)].kind = "read" /\ stack'[Len(stack)].rest = Tail(Top.rest)
         ELSE Len(stack') = Len(stack) - 1
  BY <1>1, <1>2, <1>3, HandBack
<1>5. Len(stack) = 1 /\ Top = stack[1]
  BY <1>1, <1>2, OnlyHandler
<1>6. PICK c, rest : c = Top.conn /\ rest = Top.rest
  OBVIOUS
<1>7. c \in Conn /\ rest \in Seq(Buffer) /\ rest # << >>
  BY <1>4, <1>6
<1>8. Reading(stack, c) = rest /\ \A d : d # c => Reading(stack, d) = << >>
  BY <1>2, <1>5, <1>6 DEF Reading
<1>9. PICK tail : tail = Tail(rest) /\ tail \in Seq(Buffer) /\ Len(tail) = Len(rest) - 1 /\ Len(rest) \in Nat \ {0}
  <2>1. Tail(rest) \in Seq(Buffer) /\ Len(Tail(rest)) = Len(rest) - 1
    BY <1>7, HeadTailProperties
  <2>2. Len(rest) \in Nat \ {0}
    BY <1>7, EmptySeq, LenProperties
  <2> QED
    BY <2>1, <2>2
<1>10. Reading(stack', c) = tail /\ \A d : d # c => Reading(stack', d) = << >>
  <2>1. CASE Len(rest) > 1
    <3>1. stack' = [stack EXCEPT ![Len(stack)].rest = tail]
      BY <1>2, <1>5, <1>6, <1>9, <2>1
    <3>2. Len(stack') = Len(stack) /\ stack'[Len(stack)] = [Top EXCEPT !.rest = tail]
      BY <1>1, <1>2, <1>9, <3>1, RestKeeps
    <3>3. Top \in FrameSet
      BY <1>1, <1>2, StackTop
    <3>4. stack'[1].kind = "read" /\ stack'[1].conn = c /\ stack'[1].rest = tail
      BY <1>2, <1>5, <1>6, <3>2, <3>3 DEF FrameSet
    <3>5. stack' # << >>
      <4>1. Len(stack') = 1 /\ Len(<< >>) = 0 /\ 1 # 0
        BY <1>5, <3>2
      <4> QED
        BY <4>1, Zenon
    <3> QED
      BY <3>4, <3>5 DEF Reading
  <2>2. CASE ~(Len(rest) > 1)
    <3>1. Len(stack') = 0
      BY <1>4, <1>5, <1>6, <2>2
    <3>2. stack' = << >>
      BY <1>4, <3>1, EmptySeq
    <3>3. Len(tail) = 0
      BY <1>9, <2>2
    <3>4. tail = << >>
      BY <1>9, <3>3, EmptySeq
    <3> QED
      BY <3>2, <3>4 DEF Reading
  <2> QED
    BY <2>1, <2>2
<1>11. PICK p, m, q : p = peer[c] /\ m = Len(p.delivered) /\ q = [p EXCEPT !.delivered = p.delivered \o rest[1].data]
  OBVIOUS
<1>12. p \in PeerSet /\ p.delivered \in Seq(Nat) /\ m \in Nat
  <2>1. p \in PeerSet
    BY <1>1, <1>7, <1>11
  <2> QED
    BY <1>11, <2>1, PeerType, LenProperties
<1>13. q = peer'[c] /\ \A d \in Conn : d # c => peer'[d] = peer[d]
  BY <1>1, <1>2, <1>6, <1>7, <1>11
<1>14. /\ q.delivered = p.delivered \o rest[1].data /\ q.taken = p.taken /\ q.queued = p.queued /\ q.wire = p.wire
  BY <1>11, <1>12 DEF PeerSet
<1>15. Written(p) /\ p.delivered = From(1, m) /\ Run(rest, m + 1)
  <2>1. Written(p) /\ Delivered(p, rest)
    BY <1>7, <1>8, <1>11, Zenon DEF OrderInv
  <2> QED
    BY <1>11, <2>1, Zenon DEF Delivered
<1>16. PICK k \in Nat : /\ q.delivered = From(1, k) /\ Len(q.delivered) = k /\ Run(tail, k + 1)
                        /\ k + Size(tail) = m + Size(rest)
  <2>1. PICK got, more : got = p.delivered /\ more = q.delivered
    OBVIOUS
  <2>2. got \in Seq(Nat) /\ m = Len(got) /\ got = From(1, m) /\ more = got \o rest[1].data
    BY <1>11, <1>12, <1>14, <1>15, <2>1
  <2>3. Goes(rest, got, m, more)
    BY <1>7, <1>12, <1>15, <2>2, Zenon DEF Goes
  <2>4. Gone(rest, m, more)
    BY <2>3, DeliverRun
  <2> QED
    BY <1>9, <2>1, <2>4 DEF Gone
<1>17. Delivered(q, tail) /\ Written(q)
  BY <1>14, <1>15, <1>16, Zenon DEF Delivered, Written
<1>18. ASSUME NEW fd \in Live, clients[fd].conn = c
       PROVE  Writing(q, clients[fd].wb) /\ Receiving(q, tail, clients[fd].rb)
  <2>1. Writing(p, clients[fd].wb) /\ Receiving(p, rest, clients[fd].rb)
    BY <1>8, <1>11, <1>18, Zenon DEF OrderInv
  <2>2. Writing(q, clients[fd].wb)
    BY <1>14, <2>1, Zenon DEF Writing
  <2>3. Len(q.delivered) + Size(tail) = Len(p.delivered) + Size(rest)
    BY <1>11, <1>16, Zenon
  <2>4. Receiving(q, tail, clients[fd].rb)
    BY <1>14, <2>1, <2>3, Zenon DEF Receiving
  <2> QED
    BY <2>2, <2>4
<1>19. ~Fresh(c)
  BY <1>7, <1>8, Zenon DEF OrderInv
<1>20. ASSUME NEW d \in Conn PROVE Written(peer'[d]) /\ Delivered(peer'[d], Reading(stack', d))
  <2>1. CASE d = c
    BY <1>10, <1>13, <1>17, <2>1
  <2>2. CASE d # c
    <3>1. Written(peer[d]) /\ Delivered(peer[d], Reading(stack, d))
      BY Zenon DEF OrderInv
    <3> QED
      BY <1>8, <1>10, <1>13, <2>2, <3>1
  <2> QED
    BY <2>1, <2>2
<1>21. ASSUME NEW f \in Live'
       PROVE  /\ Writing(peer'[clients'[f].conn], clients'[f].wb)
              /\ Receiving(peer'[clients'[f].conn], Reading(stack', clients'[f].conn), clients'[f].rb)
  <2>1. f \in Live /\ clients'[f] = clients[f]
    BY <1>2, <1>3
  <2>2. CASE clients[f].conn = c
    <3>1. Writing(q, clients[f].wb) /\ Receiving(q, tail, clients[f].rb)
      BY <1>18, <2>1, <2>2
    <3> QED
      BY <1>10, <1>13, <2>1, <2>2, <3>1, Zenon
  <2>3. CASE clients[f].conn # c
    <3>1. PICK d : d = clients[f].conn
      OBVIOUS
    <3>2. d \in Conn /\ d # c
      BY <1>1, <2>1, <2>3, <3>1, SessionType
    <3>3. peer'[d] = peer[d] /\ Reading(stack', d) = Reading(stack, d)
      BY <1>8, <1>10, <1>13, <3>2
    <3>4. Writing(peer[d], clients[f].wb) /\ Receiving(peer[d], Reading(stack, d), clients[f].rb)
      BY <2>1, <3>1, Zenon DEF OrderInv
    <3> QED
      BY <2>1, <3>1, <3>3, <3>4, Zenon
  <2> QED
    BY <2>2, <2>3
<1>22. ASSUME NEW d \in Conn, Fresh(d)' PROVE Untouched(peer'[d]) /\ Reading(stack', d) = << >>
  <2>1. Fresh(d)
    BY <1>2, <1>4, <1>22, FreshSame
  <2>2. d # c
    BY <1>19, <2>1
  <2>3. Untouched(peer[d]) /\ Reading(stack, d) = << >>
    BY <2>1, Zenon DEF OrderInv
  <2> QED
    BY <1>10, <1>13, <2>2, <2>3
<1> QED
  BY <1>20, <1>21, <1>22, Zenon DEF OrderInv

\* A chain handed over by the loop is what the session's handler is being handed.
HandsOver(k, rest, fd, c, l) ==
    /\ stack = << >> /\ k \in Nat /\ rest \in Seq(Buffer) /\ Len(rest) = k
    /\ IF k > 0 THEN Push(Frame("read", fd, c, l, rest)) ELSE UNCHANGED stack

\* The buffers that OnRead hands over are what the application is being handed.
LEMMA HandedReading ==
    ASSUME NEW k, NEW rest, NEW fd, NEW c, NEW l, HandsOver(k, rest, fd, c, l)
    PROVE  Reading(stack', c) = rest /\ \A d : d # c => Reading(stack', d) = Reading(stack, d)
<1> /\ stack = << >> /\ k \in Nat /\ rest \in Seq(Buffer) /\ Len(rest) = k
    /\ IF k > 0 THEN Push(Frame("read", fd, c, l, rest)) ELSE UNCHANGED stack
  BY DEF HandsOver
<1>1. \A d : Reading(stack, d) = << >>
  BY DEF Reading
<1>2. CASE k > 0
  <2>1. PICK frame : frame = Frame("read", fd, c, l, rest)
    OBVIOUS
  <2>2. frame.kind = "read" /\ frame.conn = c /\ frame.rest = rest
    BY <2>1 DEF Frame
  <2>3. stack' = << frame >>
    BY <1>2, <2>1 DEF Push
  <2>4. stack'[1] = frame /\ stack' # << >>
    BY <2>3
  <2>5. \A d : Reading(stack', d) = IF d = c THEN rest ELSE << >>
    BY <2>2, <2>4 DEF Reading
  <2> QED
    BY <1>1, <2>5
<1>3. CASE ~(k > 0)
  <2>1. stack' = stack /\ Len(rest) = 0
    BY <1>3
  <2>2. rest = << >>
    BY <2>1, EmptySeq
  <2> QED
    BY <1>1, <2>1, <2>2
<1> QED
  BY <1>2, <1>3

\* What OnRead leaves in the chain of pending reads has data in its first buffer only.
KeptOf(chain, L, n, k, filled, kept) ==
    /\ \A i \in 2 .. L : n < RoomTo(chain)[i - 1] => filled[i].data = << >>
    /\ Len(kept) = L - k /\ \A i \in 1 .. L - k : kept[i] = filled[i + k]

\* What OnRead leaves in the chain of pending reads has data in its first buffer only.
LEMMA KeptOnlyFirst ==
    ASSUME NEW L \in Nat, NEW chain, NEW n, NEW k \in 0 .. L, Fills(chain, L, n, k),
           NEW filled, NEW kept, KeptOf(chain, L, n, k, filled, kept)
    PROVE  OnlyFirst(kept)
<1>0. /\ \A i \in 2 .. L : n < RoomTo(chain)[i - 1] => filled[i].data = << >>
      /\ Len(kept) = L - k /\ \A i \in 1 .. L - k : kept[i] = filled[i + k]
  BY DEF KeptOf
<1>1. L \in Nat /\ k \in Nat /\ k <= L
  OBVIOUS
<1>2. ASSUME NEW i \in 2 .. L - k PROVE kept[i].data = << >>
  <2>1. PICK j : j = i + k
    OBVIOUS
  <2>2. i \in 1 .. L - k /\ j \in 2 .. L /\ j - 1 \in k + 1 .. L
    BY <1>1, <2>1
  <2>3. n < RoomTo(chain)[j - 1]
    BY <2>2, Zenon DEF Fills
  <2>4. filled[j].data = << >>
    BY <1>0, <2>2, <2>3
  <2> QED
    BY <1>0, <2>1, <2>2, <2>4
<1> QED
  BY <1>0, <1>2 DEF OnlyFirst

\* OnRead that receives keeps the order: the bytes received are the next ones, the full
\* buffers the first.
LEMMA ReadStepOrder ==
    ASSUME ServerInv, OrderInv, stack = << >>, NEW fd \in Live, NEW c, NEW chain, NEW L, NEW n \in Nat, NEW done \in 0 .. L,
           NEW filled, NEW rest, NEW kept, Reads(fd, c, chain, L, n, done, filled, rest, kept),
           Fills(chain, L, n, done)
    PROVE  OrderInv'
<1>a. c = clients[fd].conn /\ chain = clients[fd].rb /\ L = Len(chain)
  BY DEF Reads
<1>b. filled = Received(chain, peer[c].taken + 1, n) /\ rest = SubSeq(filled, 1, done) /\ kept = SubSeq(filled, done + 1, L)
  BY DEF Reads
<1>c. clients' = [clients EXCEPT ![fd].rb = kept] /\ peer' = [peer EXCEPT ![c].taken = @ + n] /\ backlog' = backlog /\ made' = made
  BY DEF Reads
<1>d. IF done > 0 THEN Push(Frame("read", fd, c, clients[fd].listen, rest)) ELSE UNCHANGED stack
  BY DEF Reads
<1>1. TypeInv /\ ChainInv /\ FrameInv
  BY DEF ServerInv
<1>2. chain \in Seq(Buffer) /\ Fits(chain) /\ c \in Conn /\ clients[fd].listen \in Listener
  BY <1>1, <1>a, SessionType DEF ChainInv
<1>3. PICK p, m, w, reading, q : SessionOrdered(fd, c, p, m, w, reading, q)
  <2>1. PICK d, p, m, w, reading, q : SessionOrdered(fd, d, p, m, w, reading, q)
    BY SessionOf
  <2>2. d = c
    BY <1>a, <2>1 DEF SessionOrdered
  <2> QED
    BY <2>1, <2>2, Zenon
<1>4. /\ p = peer[c] /\ p \in PeerSet /\ m = Len(p.delivered) /\ m \in Nat
      /\ reading = Reading(stack, c) /\ q = m + Size(reading)
      /\ Written(p) /\ Delivered(p, reading) /\ Writing(p, clients[fd].wb) /\ Receiving(p, reading, chain)
  BY <1>3, <1>a, Zenon DEF SessionOrdered
<1>5. reading = << >> /\ Size(reading) = 0 /\ m + Size(reading) = m
  <2>1. reading = << >>
    BY <1>4 DEF Reading
  <2>2. Size(reading) = 0
    BY <2>1, EmptyRun
  <2> QED
    BY <1>4, <2>1, <2>2
<1>6. PICK t : t = p.taken /\ t \in Nat
  BY <1>4, PeerType
<1>7. Run(chain, m + 1) /\ OnlyFirst(chain) /\ m + Size(chain) = t
  <2>1. Run(chain, (m + Size(reading)) + 1) /\ OnlyFirst(chain) /\ (m + Size(reading)) + Size(chain) = t
    BY <1>4, <1>6, Zenon DEF Receiving
  <2> QED
    BY <1>5, <2>1
<1>8. PICK first : first = m + 1 /\ first \in Nat
  BY <1>4
<1>9. PICK s : s = Size(chain) /\ s \in Nat /\ m + s = t
  <2>1. PICK K, D : Sums(chain, K, D)
    BY <1>2, SumsOf
  <2>2. Size(chain) \in Nat
    BY <2>1 DEF Sums
  <2> QED
    BY <1>7, <2>2
<1>10. PICK next : next = t + 1 /\ next = first + s
  BY <1>4, <1>8, <1>9
<1>11. filled = Received(chain, next, n)
  BY <1>b, <1>4, <1>6, <1>10
<1>12. n <= RoomTo(chain)[L]
  BY DEF Fills
<1>13. /\ Run(filled, first) /\ Size(filled) = s + n
       /\ \A i \in 2 .. L : n < RoomTo(chain)[i - 1] => filled[i].data = << >>
  <2>1. next = first + Size(chain) /\ Run(chain, first) /\ n <= RoomTo(chain)[Len(chain)]
    BY <1>a, <1>7, <1>8, <1>9, <1>10, <1>12
  <2>2. /\ Run(filled, first) /\ Size(filled) = Size(chain) + n
        /\ \A i \in 2 .. Len(chain) : n < RoomTo(chain)[i - 1] => filled[i].data = << >>
    BY <1>2, <1>7, <1>8, <1>11, <2>1, ReceivedRun
  <2> QED
    BY <1>a, <1>9, <2>2
<1>14. filled \in Seq(Buffer) /\ Len(filled) = L
  <2>1. next \in Nat
    BY <1>6, <1>10
  <2> QED
    BY <1>2, <1>a, <1>11, <2>1, ReceivedIs
<1>15. /\ rest \in Seq(Buffer) /\ Len(rest) = done /\ \A i \in 1 .. done : rest[i] = filled[i]
       /\ kept \in Seq(Buffer) /\ Len(kept) = L - done /\ \A i \in 1 .. L - done : kept[i] = filled[i + done]
  BY <1>14, <1>b, SplitChain
<1>16. OnlyFirst(kept)
  <2>1. KeptOf(chain, L, n, done, filled, kept)
    BY <1>13, <1>15, Zenon DEF KeptOf
  <2>2. L \in Nat
    BY <1>2, <1>a, LenProperties
  <2> QED
    BY <2>1, <2>2, KeptOnlyFirst
<1>17. PICK d : /\ d \in Nat /\ Run(rest, first) /\ Size(rest) = d /\ d <= s + n
                /\ Run(kept, first + d) /\ Size(kept) = (s + n) - d
  <2>1. Cut(filled, done, rest, kept) /\ done \in 0 .. Len(filled)
    BY <1>14, <1>15 DEF Cut
  <2>2. PICK d : d = DataTo(filled)[done]
    OBVIOUS
  <2>3. /\ d \in Nat /\ d <= Size(filled) /\ Run(rest, first) /\ Size(rest) = d
        /\ Run(kept, first + d) /\ Size(kept) = Size(filled) - d
    BY <1>8, <1>13, <1>14, <2>1, <2>2, SplitRun
  <2> QED
    BY <1>13, <2>3
<1>18. first + d = (m + d) + 1 /\ (m + d) + ((s + n) - d) = t + n
  <2>2. m \in Nat /\ d \in Nat /\ s \in Nat /\ n \in Nat /\ t \in Nat /\ first = m + 1 /\ m + s = t
    BY <1>4, <1>6, <1>8, <1>9, <1>17
  <2> QED
    BY <2>2
<1>19. PICK r : r = [p EXCEPT !.taken = t + n]
  OBVIOUS
<1>20. r.taken = t + n /\ r.wire = p.wire /\ r.queued = p.queued /\ r.delivered = p.delivered
  BY <1>4, <1>19 DEF PeerSet
<1>21. r = peer'[c] /\ \A x \in Conn : x # c => peer'[x] = peer[x]
  BY <1>1, <1>2, <1>4, <1>6, <1>c, <1>19 DEF TypeInv
<1>22. Written(r) /\ Writing(r, clients[fd].wb)
  BY <1>4, <1>20, Zenon DEF Written, Writing
<1>23. Delivered(r, rest)
  <2>1. p.delivered = From(1, m)
    BY <1>4, Zenon DEF Delivered
  <2>2. Run(rest, m + 1)
    BY <1>8, <1>17
  <2> QED
    BY <1>4, <1>20, <2>1, <2>2, Zenon DEF Delivered
<1>24. Receiving(r, rest, kept)
  BY <1>4, <1>16, <1>17, <1>18, <1>20, Zenon DEF Receiving
<1>25. Reading(stack', c) = rest /\ \A x : x # c => Reading(stack', x) = Reading(stack, x)
  <2>1. done \in Nat
    BY <1>2, <1>a, LenProperties
  <2>2. PICK l : l = clients[fd].listen
    OBVIOUS
  <2>3. IF done > 0 THEN Push(Frame("read", fd, c, l, rest)) ELSE UNCHANGED stack
    BY <1>d, <2>2, Zenon
  <2>4. rest \in Seq(Buffer) /\ Len(rest) = done
    BY <1>15
  <2>5. HandsOver(done, rest, fd, c, l)
    BY <2>1, <2>3, <2>4, Zenon DEF HandsOver
  <2> QED
    BY <2>5, HandedReading
<1>26. /\ Live' = Live
       /\ \A f \in Live : /\ clients'[f].conn = clients[f].conn /\ clients'[f].wb = clients[f].wb
                          /\ clients'[f].rb = IF f = fd THEN kept ELSE clients[f].rb
  BY <1>1, <1>15, <1>c, ReadsChanged
<1>27. \A f \in Live : f # fd => clients'[f] = clients[f]
  BY <1>1, <1>c DEF TypeInv
<1>28. clients'[fd].conn = c /\ Writing(r, clients'[fd].wb) /\ Receiving(r, rest, clients'[fd].rb)
  BY <1>a, <1>22, <1>24, <1>26
<1>29. Pending' = Pending
  <2>1. done \in Nat
    BY <1>2, <1>a, LenProperties
  <2> QED
    BY <1>1, <1>2, <1>15, <1>26, <1>d, <2>1, HandOver
<1> QED
  BY <1>a, <1>c, <1>21, <1>22, <1>23, <1>25, <1>26, <1>27, <1>28, <1>29, SessionOrder

\* OnRead keeps the order.
LEMMA OnReadOrder == ASSUME ServerInv, OrderInv, OnRead PROVE OrderInv'
<1>1. CASE Throw
  BY <1>1, LoopOrder
<1>2. CASE ~Throw
  <2>1. stack = << >> /\ NextFd \in Live
    BY <1>2, OnReadReads
  <2>2. PICK c, chain, L, n, done, filled, rest, kept :
              /\ Reads(NextFd, c, chain, L, n, done, filled, rest, kept)
              /\ n \in Nat /\ n <= peer[c].sent - peer[c].taken
              /\ done \in 0 .. L /\ Fills(chain, L, n, done)
    BY <1>2, OnReadReads, Zenon
  <2>3. n \in Nat /\ done \in 0 .. L
    BY <2>2
  <2>4. Reads(NextFd, c, chain, L, n, done, filled, rest, kept) /\ Fills(chain, L, n, done)
    BY <2>2, Zenon
  <2> QED
    BY <2>1, <2>3, <2>4, ReadStepOrder, Zenon
<1> QED
  BY <1>1, <1>2

\* A chain of writes handed over is no chain of reads.
HandsBack(k, rest, fd, c, l) ==
    /\ stack = << >> /\ k \in Nat
    /\ IF k > 0 THEN Push(Frame("write", fd, c, l, rest)) ELSE UNCHANGED stack

\* While buffers that were sent are handed over, no read is.
LEMMA HandedWriting ==
    ASSUME NEW k, NEW rest, NEW fd, NEW c, NEW l, HandsBack(k, rest, fd, c, l)
    PROVE  \A d : Reading(stack', d) = << >>
<1> stack = << >> /\ k \in Nat /\ IF k > 0 THEN Push(Frame("write", fd, c, l, rest)) ELSE UNCHANGED stack
  BY DEF HandsBack
<1>1. CASE k > 0
  <2>1. PICK frame : frame = Frame("write", fd, c, l, rest)
    OBVIOUS
  <2>2. frame.kind = "write"
    BY <2>1 DEF Frame
  <2>3. stack' = << frame >>
    BY <1>1, <2>1 DEF Push
  <2> QED
    BY <2>2, <2>3 DEF Reading
<1>2. CASE ~(k > 0)
  BY <1>2 DEF Reading
<1> QED
  BY <1>1, <1>2

\* OnWrite that sends keeps the order: what it sends are the first bytes of the chain.
LEMMA WriteStepOrder ==
    ASSUME ServerInv, OrderInv, stack = << >>, NEW fd \in Live, NEW c, NEW chain, NEW L, NEW n \in Nat, NEW done \in 0 .. L,
           NEW sent, NEW rest, NEW kept, NEW out, Writes(fd, c, chain, L, n, done, sent, rest, kept, out),
           Empties(chain, L, n, done), out = SubSeq(Bytes(chain), 1, n)
    PROVE  OrderInv'
<1>a. c = clients[fd].conn /\ chain = clients[fd].wb /\ L = Len(chain)
  BY DEF Writes
<1>b. sent = Sent(chain, n) /\ rest = SubSeq(sent, 1, done) /\ kept = SubSeq(sent, done + 1, L)
  BY DEF Writes
<1>c. clients' = [clients EXCEPT ![fd].wb = kept] /\ peer' = [peer EXCEPT ![c].wire = @ \o out] /\ backlog' = backlog /\ made' = made
  BY DEF Writes
<1>d. IF done > 0 THEN Push(Frame("write", fd, c, clients[fd].listen, rest)) ELSE UNCHANGED stack
  BY DEF Writes
<1>1. TypeInv /\ FrameInv
  BY DEF ServerInv
<1>2. chain \in Seq(Buffer) /\ c \in Conn /\ clients[fd].listen \in Listener
  BY <1>1, <1>a, SessionType
<1>3. PICK p, m, w, reading, q : SessionOrdered(fd, c, p, m, w, reading, q)
  <2>1. PICK d, p, m, w, reading, q : SessionOrdered(fd, d, p, m, w, reading, q)
    BY SessionOf
  <2>2. d = c
    BY <1>a, <2>1 DEF SessionOrdered
  <2> QED
    BY <2>1, <2>2, Zenon
<1>4. /\ p = peer[c] /\ p \in PeerSet /\ w = Len(p.wire) /\ w \in Nat
      /\ reading = Reading(stack, c)
      /\ Written(p) /\ Delivered(p, reading) /\ Writing(p, chain) /\ Receiving(p, reading, clients[fd].rb)
  BY <1>3, <1>a, Zenon DEF SessionOrdered
<1>5. \A d : Reading(stack, d) = << >>
  BY DEF Reading
<1>6. PICK queued : queued = p.queued /\ queued \in Nat
  BY <1>4, PeerType
<1>7. Run(chain, w + 1) /\ w + Size(chain) = queued /\ p.wire = From(1, w)
  BY <1>4, <1>6, Zenon DEF Writing, Written
<1>8. PICK first : first = w + 1 /\ first \in Nat
  BY <1>4
<1>9. PICK s : s = Size(chain) /\ s \in Nat /\ Bytes(chain) = From(first, s)
  <2>1. Run(chain, first)
    BY <1>7, <1>8
  <2> QED
    BY <1>2, <1>8, <2>1, RunBytes
<1>10. n <= s /\ n \in 0 .. s
  <2>1. n <= DataTo(chain)[L]
    BY DEF Empties
  <2> QED
    BY <1>a, <1>9, <2>1 DEF Size
<1>11. out = From(first, n)
  <2>1. first \in Nat /\ s \in Nat /\ n \in 0 .. s
    BY <1>8, <1>9, <1>10
  <2>2. SubSeq(From(first, s), 1, n) = From(first, n)
    BY <2>1, FromCut
  <2>3. Bytes(chain) = From(first, s)
    BY <1>9
  <2> QED
    BY <2>2, <2>3, Zenon
<1>12. PICK wire : wire = p.wire \o out /\ wire = From(1, w + n) /\ Len(wire) = w + n
  <2>1. out = From(1 + w, n)
    BY <1>4, <1>8, <1>11
  <2>2. From(1, w) \o From(1 + w, n) = From(1, w + n)
    BY <1>4, <1>10, FromOneJoins
  <2>3. p.wire \o out = From(1, w + n)
    BY <1>7, <2>1, <2>2, Zenon
  <2>4. w + n \in Nat
    BY <1>4
  <2>5. Len(From(1, w + n)) = w + n
    BY <2>4, FromType
  <2> QED
    BY <2>3, <2>5
<1>13. sent \in Seq(Buffer) /\ Len(sent) = L
  BY <1>2, <1>a, <1>b, SentIs
<1>14. Run(sent, first + n) /\ Size(sent) = s - n /\ \A k \in 0 .. L : DataTo(chain)[k] <= n => DataTo(sent)[k] = 0
  <2>1. Run(chain, first) /\ n <= Size(chain)
    BY <1>7, <1>8, <1>9, <1>10
  <2>2. /\ Run(sent, first + n) /\ Size(sent) = Size(chain) - n
        /\ \A k \in 0 .. Len(chain) : DataTo(chain)[k] <= n => DataTo(sent)[k] = 0
    BY <1>2, <1>8, <1>b, <2>1, SentRun
  <2> QED
    BY <1>9, <1>a, <2>2
<1>15. /\ rest \in Seq(Buffer) /\ Len(rest) = done /\ \A i \in 1 .. done : rest[i] = sent[i]
       /\ kept \in Seq(Buffer) /\ Len(kept) = L - done /\ \A i \in 1 .. L - done : kept[i] = sent[i + done]
  BY <1>13, <1>b, SplitChain
<1>16. done \in Nat
  BY <1>2, <1>a, LenProperties
<1>17. Run(kept, first + n) /\ Size(kept) = s - n
  <2>1. Cut(sent, done, rest, kept) /\ done \in 0 .. Len(sent)
    BY <1>13, <1>15 DEF Cut
  <2>2. done \in 0 .. done
    BY <1>16
  <2>3. DataTo(chain)[done] <= n
    BY <2>2, Zenon DEF Empties
  <2>4. 0 = DataTo(sent)[done]
    BY <1>14, <2>3
  <2>5. PICK a : a = first + n /\ a \in Nat
    BY <1>8
  <2>6. Run(sent, a)
    BY <1>14, <2>5
  <2>7. Run(kept, a + 0) /\ Size(kept) = Size(sent) - 0
    BY <1>13, <2>1, <2>4, <2>5, <2>6, SplitRun
  <2>8. a + 0 = a /\ (s - n) - 0 = s - n
    BY <1>9, <1>10, <2>5
  <2> QED
    BY <1>14, <2>5, <2>7, <2>8
<1>18. PICK r : r = [p EXCEPT !.wire = wire]
  OBVIOUS
<1>19. r.wire = wire /\ r.taken = p.taken /\ r.queued = p.queued /\ r.delivered = p.delivered
  BY <1>4, <1>18 DEF PeerSet
<1>20. r = peer'[c] /\ \A x \in Conn : x # c => peer'[x] = peer[x]
  BY <1>1, <1>2, <1>4, <1>12, <1>c, <1>18 DEF TypeInv
<1>21. Written(r)
  BY <1>12, <1>19, Zenon DEF Written
<1>22. Writing(r, kept)
  <2>1. first + n = (w + n) + 1 /\ (w + n) + (s - n) = queued
    <3>1. w \in Nat /\ s \in Nat /\ first = w + 1
      BY <1>4, <1>8, <1>9
    <3>2. w + s = queued
      BY <1>7, <1>9
    <3> QED
      BY <3>1, <3>2
  <2> QED
    BY <1>6, <1>12, <1>17, <1>19, <2>1, Zenon DEF Writing
<1>23. Delivered(r, reading) /\ Receiving(r, reading, clients[fd].rb)
  BY <1>4, <1>19, Zenon DEF Delivered, Receiving
<1>24. \A x : Reading(stack', x) = << >>
  <2>1. PICK l : l = clients[fd].listen
    OBVIOUS
  <2>2. IF done > 0 THEN Push(Frame("write", fd, c, l, rest)) ELSE UNCHANGED stack
    BY <1>d, <2>1, Zenon
  <2>3. HandsBack(done, rest, fd, c, l)
    BY <1>16, <2>2, Zenon DEF HandsBack
  <2> QED
    BY <2>3, HandedWriting
<1>25. /\ Live' = Live
       /\ \A f \in Live : /\ clients'[f].conn = clients[f].conn /\ clients'[f].rb = clients[f].rb
                          /\ clients'[f].wb = IF f = fd THEN kept ELSE clients[f].wb
  BY <1>1, <1>15, <1>c, WritesChanged
<1>26. \A f \in Live : f # fd => clients'[f] = clients[f]
  BY <1>1, <1>c DEF TypeInv
<1>27. clients'[fd].conn = c /\ Writing(r, clients'[fd].wb) /\ Receiving(r, reading, clients'[fd].rb)
  BY <1>a, <1>22, <1>23, <1>25
<1>28. Pending' = Pending
  BY <1>1, <1>2, <1>15, <1>16, <1>25, <1>d, HandOver
<1>29. reading = Reading(stack', c) /\ \A x : Reading(stack', x) = Reading(stack, x)
  BY <1>4, <1>5, <1>24
<1> QED
  BY <1>a, <1>c, <1>20, <1>21, <1>23, <1>25, <1>26, <1>27, <1>28, <1>29, SessionOrder

\* OnWrite keeps the order.
LEMMA OnWriteOrder == ASSUME ServerInv, OrderInv, OnWrite PROVE OrderInv'
<1>1. CASE Throw
  BY <1>1, LoopOrder
<1>2. CASE ~Throw
  <2>1. stack = << >> /\ NextFd \in Live
    BY <1>2, OnWriteWrites
  <2>2. PICK c, chain, L, n, done, sent, rest, kept, out :
              /\ Writes(NextFd, c, chain, L, n, done, sent, rest, kept, out)
              /\ n \in Nat /\ done \in 0 .. L /\ Empties(chain, L, n, done)
              /\ out = SubSeq(Bytes(chain), 1, n) /\ out \in Seq(Nat)
    BY <1>2, OnWriteWrites, Zenon
  <2>3. n \in Nat /\ done \in 0 .. L
    BY <2>2
  <2>4. Writes(NextFd, c, chain, L, n, done, sent, rest, kept, out) /\ Empties(chain, L, n, done) /\ out = SubSeq(Bytes(chain), 1, n)
    BY <2>2, Zenon
  <2> QED
    BY <2>1, <2>3, <2>4, WriteStepOrder, Zenon
<1> QED
  BY <1>1, <1>2

\* The order holds initially: every connection is untouched.
LEMMA InitOrder == ASSUME Init PROVE OrderInv
<1>1. Live = {} /\ \A c \in Conn : peer[c] = NewPeer
  BY DEF Init, Live
<1>2. \A c : Reading(stack, c) = << >>
  BY DEF Init, Reading
<1>3. From(1, 0) = << >> /\ Len(<< >>) = 0
  BY FromNone
<1>4. ASSUME NEW p, p = NewPeer PROVE Untouched(p) /\ Written(p) /\ Delivered(p, << >>)
  <2>1. p.taken = 0 /\ p.queued = 0 /\ p.delivered = << >> /\ p.wire = << >>
    BY <1>4 DEF NewPeer
  <2>2. Run(<< >>, Len(p.delivered) + 1)
    BY EmptyRun
  <2> QED
    BY <1>3, <2>1, <2>2 DEF Untouched, Written, Delivered
<1> QED
  BY <1>1, <1>2, <1>4 DEF OrderInv

\* Every step of the server, of the application and of the peers keeps the order.
LEMMA NextOrder == ASSUME ServerInv, ServerInv', OrderInv, [Next]_vars PROVE OrderInv'
<1>1. CASE WaitEvent \/ Interrupt \/ LeaveLoop \/ Stop \/ UNCHANGED vars
  BY <1>1, LoopOrder
<1>2. CASE OnTimeout \/ TimeoutReturns
  BY <1>2, TimeoutOrder
<1>3. CASE OnAccept
  BY <1>3, OnAcceptOrder
<1>4. CASE OnRead
  BY <1>4, OnReadOrder
<1>5. CASE OnWrite
  BY <1>5, OnWriteOrder
<1>6. CASE OnCloseOrError \/ \E fd \in Live : AsyncClose(fd)
  BY <1>6, CloseOrder
<1>7. CASE AcceptReturns
  BY <1>7, AcceptReturnsOrder
<1>8. CASE ReadReturns
  BY <1>8, ReadReturnsOrder
<1>9. CASE WriteReturns
  BY <1>9, WriteReturnsOrder
<1>10. CASE EndReturns
  BY <1>10, EndReturnsOrder
<1>11. ASSUME NEW fd \in Live, NEW n \in ReadSize, AsyncRead(fd, n) PROVE OrderInv'
  BY <1>11, AsyncReadOrder
<1>12. ASSUME NEW fd \in Live, NEW n \in WriteSize, AsyncWrite(fd, n) PROVE OrderInv'
  BY <1>12, AsyncWriteOrder
<1>13. ASSUME NEW l \in Listener, Connect(l) PROVE OrderInv'
  BY <1>13, ConnectOrder
<1>14. ASSUME NEW l \in Listener, AcceptedElsewhere(l) PROVE OrderInv'
  BY <1>14, AcceptedElsewhereOrder
<1>15. ASSUME NEW c \in Conn, Send(c) \/ Finish(c) \/ Reset(c) PROVE OrderInv'
  BY <1>15, PeersOrder
<1>16. CASE Server
  BY <1>1, <1>2, <1>3, <1>4, <1>5, <1>6, <1>7, <1>8, <1>9, <1>10, <1>16, Zenon DEF Server
<1>17. CASE Application
  BY <1>1, <1>6, <1>11, <1>12, <1>17, Zenon DEF Application
<1>18. CASE Peers
  BY <1>13, <1>14, <1>15, <1>18, Zenon DEF Peers
<1>19. CASE Ended \/ UNCHANGED vars
  BY <1>1, <1>19, Zenon DEF Ended
<1> QED
  BY <1>16, <1>17, <1>18, <1>19, Zenon DEF Next

\* The order holds always: it is inductive with the invariant of the first part.
LEMMA OrderAlways == Spec => []OrderInv
<1>1. Init => OrderInv
  BY InitOrder
<1>2. ServerInv /\ ServerInv' /\ OrderInv /\ [Next]_vars => OrderInv'
  BY NextOrder
<1> QED
  BY <1>1, <1>2, InvariantAlways, PTL DEF Spec

\* What the handlers on the stack are being handed of a connection is the outermost one's.
LEMMA HandingIs ==
    ASSUME TypeInv, FrameInv, NEW c
    PROVE  Handing("read", c) = Reading(stack, c)
<1>1. PICK L : L = Len(stack) /\ L \in Nat /\ DOMAIN stack = 1 .. L
  BY LenProperties DEF TypeInv
<1>2. PICK s : s = [i \in DOMAIN stack |-> IF stack[i].kind = "read" /\ stack[i].conn = c THEN stack[i].rest ELSE << >>]
  OBVIOUS
<1>3. PICK reading : reading = Reading(stack, c) /\ reading \in Seq(Buffer)
  BY ReadingType
<1>4. L > 0 => s[1] = reading
  <2>1. L > 0 => 1 \in 1 .. L /\ stack # << >>
    BY <1>1
  <2> QED
    BY <1>1, <1>2, <1>3, <2>1 DEF Reading
<1>5. \A i \in 2 .. L : s[i] = << >>
  <2>1. \A i \in 2 .. L : i \in 1 .. L /\ stack[i].kind # "read"
    BY <1>1 DEF FrameInv
  <2> QED
    BY <1>1, <1>2, <2>1
<1>6. L = 0 => reading = << >>
  BY <1>1, <1>3, EmptySeq DEF Reading, TypeInv
<1>7. s \in Seq(Seq(Buffer)) /\ Len(s) = L
  <2>1. ASSUME NEW i \in 1 .. L PROVE s[i] \in Seq(Buffer)
    <3>1. CASE i = 1
      BY <1>1, <1>3, <1>4, <3>1
    <3>2. CASE i # 1
      <4>1. i \in 2 .. L
        BY <1>1, <3>2
      <4>2. s[i] = << >> /\ << >> \in Seq(Buffer)
        BY <1>5, <4>1
      <4> QED
        BY <4>2, Zenon
    <3> QED
      BY <3>1, <3>2
  <2>2. s \in [1 .. L -> Seq(Buffer)]
    BY <1>1, <1>2, <2>1
  <2>3. s \in Seq(Seq(Buffer))
    BY <1>1, <2>2
  <2> QED
    BY <1>1, <2>2, <2>3, LenProperties
<1>8. PICK h : h = [i \in 0 .. L |-> IF i = 0 THEN << >> ELSE reading]
  OBVIOUS
<1>9. h \in [0 .. L -> Seq(Buffer)] /\ h[0] = << >> /\ h[L] = reading
  BY <1>1, <1>3, <1>6, <1>8
<1>10. ASSUME NEW i \in 1 .. L PROVE h[i] = h[i - 1] \o s[i]
  <2>1. h[i] = reading /\ reading \o << >> = reading /\ << >> \o reading = reading
    BY <1>1, <1>3, <1>8
  <2>2. CASE i = 1
    <3>1. h[i - 1] = << >> /\ s[i] = reading
      BY <1>1, <1>4, <1>9, <2>2
    <3> QED
      BY <2>1, <3>1, Zenon
  <2>3. CASE i # 1
    <3>1. i - 1 \in 1 .. L /\ i \in 2 .. L
      BY <1>1, <2>3
    <3>2. h[i - 1] = reading /\ s[i] = << >>
      BY <1>5, <1>8, <3>1
    <3> QED
      BY <2>1, <3>2, Zenon
  <2> QED
    BY <2>2, <2>3
<1>11. FlattenSeq(s) = h[Len(s)]
  BY <1>7, <1>9, <1>10, FlattenIs
<1> QED
  BY <1>2, <1>3, <1>7, <1>9, <1>11, Zenon DEF Handing

\* What the application got of a connection, and the chain that receives for it, are in order.
GotInOrder(c, p, got) ==
    /\ got = From(1, Len(got))
    /\ \A fd \in Live : clients[fd].conn = c => got \o Bytes(clients[fd].rb) = From(1, p.taken)

\* The order and the invariant say that bytes are written and read in order.
LEMMA OrderShows == ASSUME ServerInv, OrderInv PROVE WritesInOrder /\ ReadsInOrder
<1>1. TypeInv /\ FrameInv /\ peer \in [Conn -> PeerSet]
  BY DEF ServerInv, TypeInv
<1>2. ASSUME NEW c \in Conn, NEW p, p = peer[c]
      PROVE  /\ p.wire = From(1, Len(p.wire))
             /\ \A fd \in Live : clients[fd].conn = c => p.wire \o Bytes(clients[fd].wb) = From(1, p.queued)
  <2>1. p.wire = From(1, Len(p.wire))
    BY <1>2, Zenon DEF OrderInv, Written
  <2>2. PICK w : w = Len(p.wire) /\ w \in Nat
    BY <1>1, <1>2, PeerType, LenProperties
  <2>3. ASSUME NEW fd \in Live, clients[fd].conn = c PROVE p.wire \o Bytes(clients[fd].wb) = From(1, p.queued)
    <3>1. PICK chain : chain = clients[fd].wb /\ chain \in Seq(Buffer)
      BY <1>1, SessionType
    <3>2. Run(chain, w + 1) /\ w + Size(chain) = p.queued
      BY <1>2, <2>2, <2>3, <3>1, Zenon DEF OrderInv, Writing
    <3>3. PICK first : first = w + 1 /\ first \in Nat /\ first = 1 + w
      BY <2>2
    <3>4. Bytes(chain) = From(first, Size(chain)) /\ Size(chain) \in Nat
      BY <3>1, <3>2, <3>3, RunBytes
    <3>5. PICK s : s = Size(chain)
      OBVIOUS
    <3>6. From(1, w) \o From(1 + w, s) = From(1, w + s)
      BY <2>2, <3>4, <3>5, FromJoins
    <3> QED
      BY <2>1, <2>2, <3>1, <3>2, <3>3, <3>4, <3>5, <3>6, Zenon
  <2> QED
    BY <2>1, <2>3
<1>3. ASSUME NEW c \in Conn, NEW p, p = peer[c], NEW got, got = p.delivered \o Bytes(Handing("read", c))
      PROVE  GotInOrder(c, p, got)
  <2>1. PICK m : m = Len(p.delivered) /\ m \in Nat
    BY <1>1, <1>3, PeerType, LenProperties
  <2>2. PICK reading : reading = Reading(stack, c) /\ reading \in Seq(Buffer) /\ Handing("read", c) = reading
    BY <1>1, ReadingType, HandingIs
  <2>3. p.delivered = From(1, m) /\ Run(reading, m + 1)
    BY <1>3, <2>1, <2>2, Zenon DEF OrderInv, Delivered
  <2>4. PICK first : first = m + 1 /\ first \in Nat /\ first = 1 + m
    BY <2>1
  <2>5. Bytes(reading) = From(first, Size(reading)) /\ Size(reading) \in Nat
    BY <2>2, <2>3, <2>4, RunBytes
  <2>6. PICK s : s = Size(reading)
    OBVIOUS
  <2>7. From(1, m) \o From(1 + m, s) = From(1, m + s)
    BY <2>1, <2>5, <2>6, FromJoins
  <2>8. got = From(1, m + s)
    BY <1>3, <2>2, <2>3, <2>4, <2>5, <2>6, <2>7, Zenon
  <2>9. PICK q : q = m + s /\ q \in Nat
    BY <2>1, <2>5, <2>6
  <2>10. got = From(1, q) /\ Len(got) = q
    <3>1. Len(From(1, q)) = q
      BY <2>9, FromType
    <3> QED
      BY <2>8, <2>9, <3>1
  <2>11. ASSUME NEW fd \in Live, clients[fd].conn = c PROVE got \o Bytes(clients[fd].rb) = From(1, p.taken)
    <3>1. PICK chain : chain = clients[fd].rb /\ chain \in Seq(Buffer)
      BY <1>1, SessionType
    <3>2. Run(chain, q + 1) /\ q + Size(chain) = p.taken
      BY <1>3, <2>1, <2>2, <2>6, <2>9, <2>11, <3>1, Zenon DEF OrderInv, Receiving
    <3>3. PICK next : next = q + 1 /\ next \in Nat /\ next = 1 + q
      BY <2>9
    <3>4. Bytes(chain) = From(next, Size(chain)) /\ Size(chain) \in Nat
      BY <3>1, <3>2, <3>3, RunBytes
    <3>5. PICK r : r = Size(chain)
      OBVIOUS
    <3>6. From(1, q) \o From(1 + q, r) = From(1, q + r)
      BY <2>9, <3>4, <3>5, FromJoins
    <3> QED
      BY <2>10, <3>1, <3>2, <3>3, <3>4, <3>5, <3>6, Zenon
  <2> QED
    BY <2>10, <2>11, Zenon DEF GotInOrder
<1>4. WritesInOrder
  BY <1>2 DEF WritesInOrder
<1>5. ReadsInOrder
  <2> SUFFICES ASSUME NEW c \in Conn
               PROVE  LET got == peer[c].delivered \o Bytes(Handing("read", c))
                      IN  /\ got = From(1, Len(got))
                          /\ \A fd \in Live : clients[fd].conn = c =>
                                 got \o Bytes(clients[fd].rb) = From(1, peer[c].taken)
    BY Zenon DEF ReadsInOrder
  <2>1. PICK p, got : p = peer[c] /\ got = p.delivered \o Bytes(Handing("read", c))
    OBVIOUS
  <2>2. GotInOrder(c, p, got)
    BY <1>3, <2>1
  <2> QED
    BY <2>1, <2>2, Zenon DEF GotInOrder
<1> QED
  BY <1>4, <1>5

\* What the server sends on a connection are the bytes that the application queued for it
\* with AsyncWrite (cl_event_handler.cpp), in order, none lost and none twice, for any
\* number of sessions, partial sends and closes in any callback.
THEOREM SentInOrder == Spec => []WritesInOrder
<1>1. ServerInv /\ OrderInv => WritesInOrder
  BY OrderShows
<1> QED
  BY <1>1, InvariantAlways, OrderAlways, PTL

\* What the callbacks are handed of a connection are the bytes that its peer sent, in
\* order, none lost and none twice, whatever the buffers and however the bytes arrive.
THEOREM HandedInOrder == Spec => []ReadsInOrder
<1>1. ServerInv /\ OrderInv => ReadsInOrder
  BY OrderShows
<1> QED
  BY <1>1, InvariantAlways, OrderAlways, PTL
==============================================================================
