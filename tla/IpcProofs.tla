------------------------------ MODULE IpcProofs ------------------------------
(***************************************************************************)
(* What processes share through the system, for any number of them.        *)
(*                                                                         *)
(* Message queues: the invariant says what each message of a queue is (its *)
(* number leads to the urgency it was sent with) and in which order the    *)
(* messages stand, so that two of them have two numbers; what is taken out *)
(* is then gone, and what is taken first comes before the rest.            *)
(* Descriptors over a pipe: what the receiver knows is counted.            *)
(* Segments and mapped files: a segment is in the key, or somebody asked   *)
(* to remove it; a file is as long as a constructor saw it, or longer.     *)
(* Sockets: what a transfer has counted is what the client got, and for    *)
(* the sender also what is under way, as long as the client is there; a    *)
(* receiver that poll let through finds bytes or the end.                  *)
(* A circular queue found by name: the invariant follows a creator between *)
(* memset and the end of its constructor: an object that nobody came to    *)
(* early and that no second creator cleared is then used by nobody, so     *)
(* that the new mutex takes nobody's place.                                *)
(***************************************************************************)
EXTENDS ShmQueue, MsgQueues, FdPipe, Segments, Sockets, SequenceTheorems, FiniteSetTheorems,
        WellFoundedInduction, TLAPS

(***************************************************************************)
(* Message queues                                                          *)
(***************************************************************************)

Facilities == {"PosixMsgQ", "SysVMsgQ"}
Wish == [how : {"none", "wait", "timed", "try"}, urgency : Nat]
Message == Nat \X Urgency

MsgTypeInv ==
    /\ facility \in Facilities /\ auto \in [Peer -> BOOLEAN]
    /\ queues \in 0 .. MaxQueue /\ key \in 0 .. queues /\ removed \subseteq 1 .. queues
    /\ content \in [Queue -> Seq(Message)]
    /\ handle \in [Peer -> 0 .. queues] /\ nonblock \in [Peer -> BOOLEAN]
    /\ at \in [Peer -> {"out", "free", "sending", "receiving", "waiting"}]
    /\ want \in [Peer -> Wish]
    /\ sent \in Seq([queue : Queue, urgency : Urgency]) /\ received \in Seq(Nat)

\* The key stands for a queue that is there; only flags take it away from one.
KeyInv ==
    /\ key \notin removed
    /\ \A q \in 1 .. queues : key # q => \E p \in Peer : auto[p]

\* A process has a queue open from its constructor to its destructor, and sends with an urgency.
PeerInv ==
    \A p \in Peer : /\ at[p] = "out" <=> handle[p] = 0
                    /\ at[p] = "sending" => want[p].urgency \in Urgency
                    /\ at[p] = "receiving" /\ facility = "PosixMsgQ" => want[p].urgency = 0

\* Who sleeps finds nothing it wants.
WaitInv == \A p \in Peer : at[p] = "waiting" => \A i \in 1 .. Len(Of(p)) : ~Wants(p, Of(p)[i][2])

\* The messages s were sent to q.
SentTo(s, q) ==
    \A i \in 1 .. Len(s) : /\ s[i][1] \in 1 .. Len(sent)
                           /\ sent[s[i][1]].queue = q /\ sent[s[i][1]].urgency = s[i][2]

\* Message m is received before o.
Before(m, o) == IF facility = "SysVMsgQ" THEN m[1] < o[1]
                ELSE m[2] > o[2] \/ (m[2] = o[2] /\ m[1] < o[1])

Ordered(s) == \A i, j \in 1 .. Len(s) : i < j => Before(s[i], s[j])

\* A queue holds no more than it may, in order, and what was sent to it.
ContentInv ==
    \A q \in Queue : /\ Len(content[q]) <= MaxMsg /\ (q \in removed => content[q] = << >>)
                     /\ SentTo(content[q], q) /\ Ordered(content[q])

\* The number n was received.
Taken(n) == \E i \in 1 .. Len(received) : received[i] = n

\* What was received was sent, is received once, and is in no queue.
TakenInv ==
    /\ \A i \in 1 .. Len(received) : received[i] \in 1 .. Len(sent)
    /\ \A i, j \in 1 .. Len(received) : received[i] = received[j] => i = j
    /\ \A q \in Queue : \A i \in 1 .. Len(content[q]) : ~Taken(content[q][i][1])

\* A message is in s.
In(n, s) == \E i \in 1 .. Len(s) : s[i][1] = n

\* Nothing is lost but with a queue that lost its key.
KeptInv ==
    \A n \in 1 .. Len(sent) :
        LET q == sent[n].queue
        IN /\ q \in 1 .. queues
           /\ In(n, content[q]) \/ Taken(n) \/ key # q

MsgInv == MsgTypeInv /\ KeyInv /\ PeerInv /\ WaitInv /\ ContentInv /\ TakenInv /\ KeptInv

------------------------------------------------------------------------------

\* The sequence r is s with e put behind the first k elements.
Inserted(r, s, k, e) ==
    /\ Len(r) = Len(s) + 1 /\ r[k + 1] = e
    /\ \A i \in 1 .. k : r[i] = s[i]
    /\ \A i \in k + 1 .. Len(s) : r[i + 1] = s[i]

\* The sequence r is s without its element k.
Without(r, s, k) ==
    /\ Len(r) = Len(s) - 1
    /\ \A i \in 1 .. k - 1 : r[i] = s[i]
    /\ \A i \in k .. Len(s) - 1 : r[i] = s[i + 1]

\* The first k elements of a sequence.
LEMMA FirstPart ==
    ASSUME NEW S, NEW s \in Seq(S), NEW k \in Nat, k <= Len(s)
    PROVE  /\ SubSeq(s, 1, k) \in Seq(S) /\ Len(SubSeq(s, 1, k)) = k
           /\ \A i \in 1 .. k : SubSeq(s, 1, k)[i] = s[i]
<1>1. \A i \in 1 .. k : s[i] \in S
  OBVIOUS
<1>2. /\ SubSeq(s, 1, k) \in Seq(S)
      /\ Len(SubSeq(s, 1, k)) = IF 1 <= k THEN k - 1 + 1 ELSE 0
      /\ \A i \in 1 .. k - 1 + 1 : SubSeq(s, 1, k)[i] = s[1 + i - 1]
  BY <1>1, SubSeqProperties
<1>3. PICK r : r = SubSeq(s, 1, k)
  OBVIOUS
<1>4. r \in Seq(S) /\ Len(r) = k
  BY <1>2, <1>3
<1>5. ASSUME NEW i \in 1 .. k PROVE r[i] = s[i]
  <2>1. i \in 1 .. k - 1 + 1 /\ 1 + i - 1 = i
    OBVIOUS
  <2> QED
    BY <1>2, <1>3, <2>1
<1> QED
  BY <1>3, <1>4, <1>5

\* The elements of a sequence behind the first k.
LEMMA LastPart ==
    ASSUME NEW S, NEW s \in Seq(S), NEW k \in Nat, k <= Len(s)
    PROVE  /\ SubSeq(s, k + 1, Len(s)) \in Seq(S) /\ Len(SubSeq(s, k + 1, Len(s))) = Len(s) - k
           /\ \A i \in 1 .. Len(s) - k : SubSeq(s, k + 1, Len(s))[i] = s[k + i]
<1>1. PICK n \in Nat : n = Len(s)
  OBVIOUS
<1>2. \A i \in k + 1 .. n : s[i] \in S
  BY <1>1
<1>3. /\ SubSeq(s, k + 1, n) \in Seq(S)
      /\ Len(SubSeq(s, k + 1, n)) = IF k + 1 <= n THEN n - (k + 1) + 1 ELSE 0
      /\ \A i \in 1 .. n - (k + 1) + 1 : SubSeq(s, k + 1, n)[i] = s[k + 1 + i - 1]
  <2>1. k + 1 \in Int /\ n \in Int
    OBVIOUS
  <2> QED
    BY <1>2, <2>1, SubSeqProperties
<1>4. PICK r : r = SubSeq(s, k + 1, n)
  OBVIOUS
<1>5. r \in Seq(S) /\ Len(r) = n - k
  BY <1>1, <1>3, <1>4
<1>6. ASSUME NEW i \in 1 .. n - k PROVE r[i] = s[k + i]
  <2>1. i \in 1 .. n - (k + 1) + 1 /\ k + 1 + i - 1 = k + i
    OBVIOUS
  <2> QED
    BY <1>3, <1>4, <2>1
<1> QED
  BY <1>1, <1>4, <1>5, <1>6

\* The sequence r is s followed by t.
JoinOf(r, s, t) ==
    /\ Len(r) = Len(s) + Len(t)
    /\ \A i \in 1 .. Len(s) : r[i] = s[i]
    /\ \A i \in 1 .. Len(t) : r[Len(s) + i] = t[i]

\* Concatenation joins.
LEMMA Joined ==
    ASSUME NEW S, NEW s \in Seq(S), NEW t \in Seq(S)
    PROVE  \E r \in Seq(S) : r = s \o t /\ JoinOf(r, s, t)
<1>1. PICK r : r = s \o t
  OBVIOUS
<1>2. PICK m \in Nat, n \in Nat : m = Len(s) /\ n = Len(t)
  OBVIOUS
<1>3. /\ r \in Seq(S) /\ Len(r) = m + n
      /\ \A i \in 1 .. m + n : r[i] = IF i <= m THEN s[i] ELSE t[i - m]
  BY <1>1, <1>2, ConcatProperties
<1>4. \A i \in 1 .. m : r[i] = s[i]
  BY <1>3
<1>5. ASSUME NEW i \in 1 .. n PROVE r[m + i] = t[i]
  <2>1. m + i \in 1 .. m + n /\ ~(m + i <= m) /\ (m + i) - m = i
    OBVIOUS
  <2> QED
    BY <1>3, <2>1
<1>6. JoinOf(r, s, t)
  BY <1>2, <1>3, <1>4, <1>5 DEF JoinOf
<1> QED
  BY <1>1, <1>3, <1>6

\* InsertAt puts one element in.
LEMMA InsertedAt ==
    ASSUME NEW S, NEW s \in Seq(S), NEW e \in S, NEW k \in 0 .. Len(s)
    PROVE  InsertAt(s, k + 1, e) \in Seq(S) /\ Inserted(InsertAt(s, k + 1, e), s, k, e)
<1>1. PICK n \in Nat : n = Len(s)
  OBVIOUS
<1>2. k \in Nat /\ k <= n /\ (k + 1) - 1 = k
  BY <1>1
<1>3. PICK front \in Seq(S) : /\ front = SubSeq(s, 1, k) /\ Len(front) = k
                              /\ \A i \in 1 .. k : front[i] = s[i]
  <2>1. k \in Nat /\ k <= Len(s)
    BY <1>1, <1>2
  <2>2. /\ SubSeq(s, 1, k) \in Seq(S) /\ Len(SubSeq(s, 1, k)) = k
        /\ \A i \in 1 .. k : SubSeq(s, 1, k)[i] = s[i]
    BY <2>1, FirstPart, Zenon
  <2> QED
    BY <2>2, Zenon
<1>4. PICK back \in Seq(S) : /\ back = SubSeq(s, k + 1, Len(s)) /\ Len(back) = n - k
                             /\ \A i \in 1 .. n - k : back[i] = s[k + i]
  <2>1. k \in Nat /\ k <= Len(s)
    BY <1>1, <1>2
  <2>2. /\ SubSeq(s, k + 1, Len(s)) \in Seq(S) /\ Len(SubSeq(s, k + 1, Len(s))) = Len(s) - k
        /\ \A i \in 1 .. Len(s) - k : SubSeq(s, k + 1, Len(s))[i] = s[k + i]
    BY <2>1, LastPart, Zenon
  <2> QED
    BY <1>1, <2>2, Zenon
<1>5. PICK mid \in Seq(S) : mid = front \o <<e>> /\ Len(mid) = k + 1 /\ mid[k + 1] = e
                            /\ \A i \in 1 .. k : mid[i] = front[i]
  <2>1. PICK m \in Seq(S) : m = Append(front, e)
    BY AppendProperties, Zenon
  <2>2. m = front \o <<e>>
    BY <2>1, AppendIsConcat
  <2>3. Len(m) = k + 1 /\ m[k + 1] = e /\ \A i \in 1 .. k : m[i] = front[i]
    BY <1>3, <2>1, AppendProperties
  <2> QED
    BY <2>2, <2>3
<1>6. PICK r \in Seq(S) : r = mid \o back /\ JoinOf(r, mid, back)
  BY Joined, Zenon
<1>7. r = InsertAt(s, k + 1, e)
  BY <1>2, <1>3, <1>4, <1>5, <1>6 DEF InsertAt
<1>8. Len(r) = n + 1 /\ r[k + 1] = e
  <2>1. k + 1 \in 1 .. Len(mid) /\ (k + 1) + (n - k) = n + 1
    BY <1>2, <1>5
  <2> QED
    BY <1>4, <1>5, <1>6, <2>1 DEF JoinOf
<1>9. ASSUME NEW i \in 1 .. k PROVE r[i] = s[i]
  <2>1. i \in 1 .. k + 1
    BY <1>2
  <2> QED
    BY <1>3, <1>5, <1>6, <2>1 DEF JoinOf
<1>10. ASSUME NEW i \in k + 1 .. n PROVE r[i + 1] = s[i]
  <2>1. PICK j \in 1 .. n - k : i = k + j
    <3>1. i - k \in 1 .. n - k /\ i = k + (i - k)
      BY <1>2
    <3> QED
      BY <3>1
  <2>2. (k + 1) + j = i + 1
    BY <1>2, <2>1
  <2>3. r[(k + 1) + j] = back[j] /\ back[j] = s[k + j]
    BY <1>4, <1>5, <1>6 DEF JoinOf
  <2> QED
    BY <2>1, <2>2, <2>3
<1> QED
  BY <1>1, <1>7, <1>8, <1>9, <1>10 DEF Inserted

\* RemoveAt takes one element out.
LEMMA RemovedAt ==
    ASSUME NEW S, NEW s \in Seq(S), NEW k \in 1 .. Len(s)
    PROVE  RemoveAt(s, k) \in Seq(S) /\ Without(RemoveAt(s, k), s, k)
<1>1. PICK n \in Nat : n = Len(s)
  OBVIOUS
<1>2. k \in Nat /\ k <= n /\ k - 1 \in Nat /\ k - 1 <= n
  BY <1>1
<1>3. PICK front \in Seq(S) : /\ front = SubSeq(s, 1, k - 1) /\ Len(front) = k - 1
                              /\ \A i \in 1 .. k - 1 : front[i] = s[i]
  <2>1. k - 1 \in Nat /\ k - 1 <= Len(s)
    BY <1>1, <1>2
  <2>2. /\ SubSeq(s, 1, k - 1) \in Seq(S) /\ Len(SubSeq(s, 1, k - 1)) = k - 1
        /\ \A i \in 1 .. k - 1 : SubSeq(s, 1, k - 1)[i] = s[i]
    BY <2>1, FirstPart, Zenon
  <2> QED
    BY <2>2, Zenon
<1>4. PICK back \in Seq(S) : /\ back = SubSeq(s, k + 1, Len(s)) /\ Len(back) = n - k
                             /\ \A i \in 1 .. n - k : back[i] = s[k + i]
  <2>1. k \in Nat /\ k <= Len(s)
    BY <1>1, <1>2
  <2>2. /\ SubSeq(s, k + 1, Len(s)) \in Seq(S) /\ Len(SubSeq(s, k + 1, Len(s))) = Len(s) - k
        /\ \A i \in 1 .. Len(s) - k : SubSeq(s, k + 1, Len(s))[i] = s[k + i]
    BY <2>1, LastPart, Zenon
  <2> QED
    BY <1>1, <2>2, Zenon
<1>5. PICK r \in Seq(S) : r = front \o back /\ JoinOf(r, front, back)
  BY Joined, Zenon
<1>6. r = RemoveAt(s, k)
  BY <1>3, <1>4, <1>5 DEF RemoveAt
<1>7. Len(r) = n - 1
  <2>1. (k - 1) + (n - k) = n - 1
    BY <1>2
  <2> QED
    BY <1>3, <1>4, <1>5, <2>1 DEF JoinOf
<1>8. ASSUME NEW i \in 1 .. k - 1 PROVE r[i] = s[i]
  BY <1>3, <1>5 DEF JoinOf
<1>9. ASSUME NEW i \in k .. n - 1 PROVE r[i] = s[i + 1]
  <2>1. PICK j \in 1 .. n - k : i = (k - 1) + j /\ i + 1 = k + j
    <3>1. i - (k - 1) \in 1 .. n - k /\ i = (k - 1) + (i - (k - 1)) /\ i + 1 = k + (i - (k - 1))
      BY <1>2
    <3> QED
      BY <3>1
  <2>2. r[(k - 1) + j] = back[j] /\ back[j] = s[k + j]
    BY <1>3, <1>4, <1>5 DEF JoinOf
  <2> QED
    BY <2>1, <2>2
<1> QED
  BY <1>1, <1>6, <1>7, <1>8, <1>9 DEF Without

\* Every element of Inserted is e or one of s, on the same side of e.
LEMMA InsertedFrom ==
    ASSUME NEW S, NEW s \in Seq(S), NEW r \in Seq(S), NEW e, NEW k \in 0 .. Len(s), Inserted(r, s, k, e),
           NEW j \in 1 .. Len(r)
    PROVE  \/ j = k + 1 /\ r[j] = e
           \/ j <= k /\ j \in 1 .. Len(s) /\ r[j] = s[j]
           \/ j > k + 1 /\ j - 1 \in k + 1 .. Len(s) /\ j - 1 \in 1 .. Len(s) /\ r[j] = s[j - 1]
<1>1. Len(s) \in Nat /\ k \in Nat /\ k <= Len(s) /\ Len(r) = Len(s) + 1 /\ j \in Nat /\ j > 0 /\ j <= Len(s) + 1
  BY DEF Inserted
<1>2. CASE j = k + 1
  BY <1>2 DEF Inserted
<1>3. CASE j <= k
  BY <1>1, <1>3 DEF Inserted
<1>4. CASE j > k + 1
  <2>1. j - 1 \in k + 1 .. Len(s) /\ j - 1 \in 1 .. Len(s) /\ (j - 1) + 1 = j
    BY <1>1, <1>4
  <2> QED
    BY <1>4, <2>1 DEF Inserted
<1> QED
  BY <1>1, <1>2, <1>3, <1>4

\* Every element of s but element k is in Without, and nothing else, in the same order.
LEMMA WithoutFrom ==
    ASSUME NEW S, NEW s \in Seq(S), NEW r \in Seq(S), NEW k \in 1 .. Len(s), Without(r, s, k),
           NEW j \in 1 .. Len(r)
    PROVE  \/ j < k /\ j \in 1 .. Len(s) /\ r[j] = s[j]
           \/ j >= k /\ j + 1 \in 1 .. Len(s) /\ r[j] = s[j + 1]
<1>1. Len(s) \in Nat /\ k \in Nat /\ Len(r) = Len(s) - 1 /\ j \in Nat /\ j > 0 /\ j <= Len(s) - 1
  BY DEF Without
<1>2. CASE j < k
  BY <1>1, <1>2 DEF Without
<1>3. CASE j >= k
  BY <1>1, <1>3 DEF Without
<1> QED
  BY <1>1, <1>2, <1>3

\* The parts of a message are numbers.
LEMMA MessageParts ==
    ASSUME NEW m \in Message
    PROVE  m[1] \in Nat /\ m[2] \in Nat /\ m[2] \in Urgency
  BY MsgAssumption DEF Message

\* A message behind those that go before it and before the rest keeps the order.
LEMMA InsertOrdered ==
    ASSUME NEW s \in Seq(Message), NEW r \in Seq(Message), NEW e, NEW k \in 0 .. Len(s), Inserted(r, s, k, e),
           Ordered(s), \A i \in 1 .. k : Before(s[i], e), \A i \in k + 1 .. Len(s) : Before(e, s[i])
    PROVE  Ordered(r)
<1> SUFFICES ASSUME NEW i \in 1 .. Len(r), NEW j \in 1 .. Len(r), i < j PROVE Before(r[i], r[j])
  BY DEF Ordered
<1>1. \/ i = k + 1 /\ r[i] = e
      \/ i <= k /\ i \in 1 .. Len(s) /\ r[i] = s[i]
      \/ i > k + 1 /\ i - 1 \in k + 1 .. Len(s) /\ i - 1 \in 1 .. Len(s) /\ r[i] = s[i - 1]
  BY InsertedFrom
<1>2. \/ j = k + 1 /\ r[j] = e
      \/ j <= k /\ j \in 1 .. Len(s) /\ r[j] = s[j]
      \/ j > k + 1 /\ j - 1 \in k + 1 .. Len(s) /\ j - 1 \in 1 .. Len(s) /\ r[j] = s[j - 1]
  BY InsertedFrom
<1>3. i \in Nat /\ j \in Nat /\ k \in Nat /\ i > 0
  OBVIOUS
<1>4. CASE r[i] = e /\ i = k + 1
  <2>1. j - 1 \in k + 1 .. Len(s) /\ r[j] = s[j - 1]
    BY <1>2, <1>3, <1>4
  <2> QED
    BY <1>4, <2>1
<1>5. CASE r[j] = e /\ j = k + 1
  <2>1. i \in 1 .. k /\ r[i] = s[i]
    BY <1>1, <1>3, <1>5
  <2> QED
    BY <1>5, <2>1
<1>6. CASE i # k + 1 /\ j # k + 1
  <2>1. PICK a \in 1 .. Len(s), b \in 1 .. Len(s) : r[i] = s[a] /\ r[j] = s[b] /\ a < b
    <3>1. CASE i <= k /\ j <= k
      BY <1>1, <1>2, <1>3, <1>6, <3>1
    <3>2. CASE i <= k /\ j > k + 1
      BY <1>1, <1>2, <1>3, <1>6, <3>2
    <3>3. CASE i > k + 1
      <4>1. j > k + 1 /\ i - 1 < j - 1
        BY <1>3, <3>3
      <4> QED
        BY <1>1, <1>2, <1>3, <1>6, <3>3, <4>1
    <3> QED
      BY <1>1, <1>2, <1>3, <1>6, <3>1, <3>2, <3>3
  <2> QED
    BY <2>1 DEF Ordered
<1> QED
  BY <1>1, <1>2, <1>4, <1>5, <1>6

\* Whoever is taken out of a queue, the rest stays in order.
LEMMA WithoutOrdered ==
    ASSUME NEW s \in Seq(Message), NEW r \in Seq(Message), NEW k \in 1 .. Len(s), Without(r, s, k), Ordered(s)
    PROVE  Ordered(r)
<1> SUFFICES ASSUME NEW i \in 1 .. Len(r), NEW j \in 1 .. Len(r), i < j PROVE Before(r[i], r[j])
  BY DEF Ordered
<1>1. \/ i < k /\ i \in 1 .. Len(s) /\ r[i] = s[i]
      \/ i >= k /\ i + 1 \in 1 .. Len(s) /\ r[i] = s[i + 1]
  BY WithoutFrom
<1>2. \/ j < k /\ j \in 1 .. Len(s) /\ r[j] = s[j]
      \/ j >= k /\ j + 1 \in 1 .. Len(s) /\ r[j] = s[j + 1]
  BY WithoutFrom
<1>3. i \in Nat /\ j \in Nat /\ k \in Nat
  OBVIOUS
<1>4. PICK a \in 1 .. Len(s), b \in 1 .. Len(s) : r[i] = s[a] /\ r[j] = s[b] /\ a < b
  BY <1>1, <1>2, <1>3
<1> QED
  BY <1>4 DEF Ordered

------------------------------------------------------------------------------

\* Before the first constructor there is no queue and no message.
LEMMA MsgStart == MsgInit => MsgInv
<1> SUFFICES ASSUME MsgInit PROVE MsgInv
  OBVIOUS
<1>1. /\ facility \in Facilities /\ auto \in [Peer -> BOOLEAN]
      /\ key = 0 /\ queues = 0 /\ removed = {} /\ content = [q \in Queue |-> << >>]
      /\ handle = [p \in Peer |-> 0] /\ nonblock = [p \in Peer |-> FALSE]
      /\ at = [p \in Peer |-> "out"] /\ want = [p \in Peer |-> NoWant]
      /\ sent = << >> /\ received = << >>
  BY DEF MsgInit, Facilities
<1>2. \A S : << >> \in Seq(S)
  BY EmptySeq
<1>3. MsgTypeInv
  <2>1. content \in [Queue -> Seq(Message)] /\ sent \in Seq([queue : Queue, urgency : Urgency]) /\ received \in Seq(Nat)
    BY <1>1, <1>2
  <2>2. want \in [Peer -> Wish]
    BY <1>1 DEF NoWant, Wish
  <2> QED
    BY <1>1, <2>1, <2>2, MsgAssumption DEF MsgTypeInv
<1>4. KeyInv /\ PeerInv /\ WaitInv
  BY <1>1 DEF KeyInv, PeerInv, WaitInv
<1>5. Len(<< >>) = 0 /\ 1 .. 0 = {}
  BY EmptySeq
<1>6. ContentInv
  <2> SUFFICES ASSUME NEW q \in Queue
               PROVE  /\ Len(content[q]) <= MaxMsg /\ (q \in removed => content[q] = << >>)
                      /\ SentTo(content[q], q) /\ Ordered(content[q])
    BY DEF ContentInv
  <2>1. content[q] = << >> /\ Len(content[q]) = 0 /\ 1 .. Len(content[q]) = {}
    BY <1>1, <1>5
  <2> QED
    BY <2>1, MsgAssumption DEF SentTo, Ordered
<1>7. TakenInv
  BY <1>1, <1>5 DEF TakenInv
<1>8. KeptInv
  BY <1>1, <1>5 DEF KeptInv
<1> QED
  BY <1>3, <1>4, <1>6, <1>7, <1>8 DEF MsgInv

\* What a process has open is a queue.
LEMMA OpenQueue ==
    ASSUME MsgInv, NEW p \in Peer, at[p] # "out"
    PROVE  handle[p] \in Queue /\ handle[p] \in 1 .. queues
           /\ content[handle[p]] \in Seq(Message) /\ Len(content[handle[p]]) \in Nat
<1>1. handle[p] \in 0 .. queues /\ handle[p] # 0 /\ queues \in 0 .. MaxQueue
  BY DEF MsgInv, MsgTypeInv, PeerInv
<1>2. handle[p] \in Queue /\ handle[p] \in 1 .. queues
  BY <1>1, MsgAssumption DEF Queue
<1> QED
  BY <1>2 DEF MsgInv, MsgTypeInv

\* Calls that begin, sleep or fail leave the queues as they are.
LEMMA QuietKeeps ==
    ASSUME MsgInv, UNCHANGED <<facility, auto, key, queues, removed, content, handle, sent, received>>,
           nonblock' \in [Peer -> BOOLEAN], want' \in [Peer -> Wish],
           at' \in [Peer -> {"out", "free", "sending", "receiving", "waiting"}], PeerInv', WaitInv'
    PROVE  MsgInv'
<1>1. MsgTypeInv' /\ KeyInv'
  BY DEF MsgInv, MsgTypeInv, KeyInv
<1>2. ContentInv'
  BY DEF MsgInv, ContentInv, SentTo, Ordered, Before
<1>3. TakenInv' /\ KeptInv'
  BY DEF MsgInv, TakenInv, Taken, KeptInv, In
<1> QED
  BY <1>1, <1>2, <1>3 DEF MsgInv

\* Who ends its call is free; the others go on as before.
LEMMA EndsDoes ==
    ASSUME MsgTypeInv, PeerInv, NEW who \in SUBSET Peer, \A p \in who : at[p] # "out", Ends(who),
           handle' = handle, facility' = facility
    PROVE  /\ at' \in [Peer -> {"out", "free", "sending", "receiving", "waiting"}] /\ want' \in [Peer -> Wish]
           /\ PeerInv'
           /\ \A p \in Peer : at'[p] = "waiting" => p \notin who /\ at[p] = "waiting" /\ want'[p] = want[p]
           /\ \A p \in who : at'[p] = "free"
           /\ \A p \in Peer \ who : at'[p] = at[p]
<1>1. /\ at' = [p \in Peer |-> IF p \in who THEN "free" ELSE at[p]]
      /\ want' = [p \in Peer |-> IF p \in who THEN NoWant ELSE want[p]]
  BY DEF Ends
<1>2. NoWant \in Wish
  BY DEF NoWant, Wish
<1>3. want' \in [Peer -> Wish]
  BY <1>1, <1>2 DEF MsgTypeInv
<1>4. at' \in [Peer -> {"out", "free", "sending", "receiving", "waiting"}]
  BY <1>1 DEF MsgTypeInv
<1>5. \A p \in Peer : /\ p \in who => at'[p] = "free"
                      /\ p \notin who => at'[p] = at[p] /\ want'[p] = want[p]
  BY <1>1
<1>6. PeerInv'
  BY <1>5 DEF PeerInv
<1> QED
  BY <1>3, <1>4, <1>5, <1>6

\* Every set of naturals that is not empty has a least element.
LEMMA LeastExists == ASSUME NEW T, T \subseteq Nat, T # {} PROVE \E x \in T : \A y \in T : x <= y
<1> DEFINE R == {ss \in Nat \X Nat : ss[1] < ss[2]}
<1>1. IsWellFoundedOn(R, Nat)
  BY NatLessThanWellFounded DEF OpToRel
<1> HIDE DEF R
<1>2. PICK x \in T : \A y \in T : ~ (<<y, x>> \in R)
  BY <1>1, WFMin
<1>3. ASSUME NEW y \in T PROVE x <= y
  <2>1. x \in Nat /\ y \in Nat /\ ~ (<<y, x>> \in R)
    BY <1>2
  <2>2. ~ (y < x)
    BY <2>1 DEF R
  <2> QED
    BY <2>1, <2>2
<1> QED
  BY <1>3

\* When nothing can be taken nothing in the queue is wanted: else the first wanted one could be.
LEMMA NothingTakeable ==
    ASSUME NEW p \in Peer, Takeable(p) = {}, Len(Of(p)) \in Nat
    PROVE  \A i \in 1 .. Len(Of(p)) : ~Wants(p, Of(p)[i][2])
<1> SUFFICES ASSUME NEW i \in 1 .. Len(Of(p)), Wants(p, Of(p)[i][2]) PROVE FALSE
  OBVIOUS
<1> DEFINE T == {j \in 1 .. Len(Of(p)) : Wants(p, Of(p)[j][2])}
<1>1. T \subseteq Nat /\ T # {}
  OBVIOUS
<1> HIDE DEF T
<1>2. PICK j \in T : \A y \in T : j <= y
  BY <1>1, LeastExists
<1>3. j \in 1 .. Len(Of(p)) /\ Wants(p, Of(p)[j][2])
  BY <1>2 DEF T
<1>4. ASSUME NEW x \in 1 .. j - 1 PROVE ~Wants(p, Of(p)[x][2])
  <2>1. x \in 1 .. Len(Of(p)) /\ ~(j <= x)
    BY <1>3
  <2>2. x \notin T
    BY <1>2, <2>1
  <2> QED
    BY <2>1, <2>2 DEF T
<1>5. j \in Takeable(p)
  BY <1>3, <1>4 DEF Takeable
<1> QED
  BY <1>5

\* Calls that begin.
LEMMA CallsKeep ==
    ASSUME MsgInv, NEW p \in Peer, CallSend(p) \/ CallRecv(p) \/ Setattr(p) PROVE MsgInv'
<1>1. UNCHANGED <<facility, auto, key, queues, removed, content, handle, sent, received>>
  BY DEF CallSend, CallRecv, Setattr, callVars
<1>2. PICK place \in {"free", "sending", "receiving"} :
        at[p] = "free" /\ at' = [at EXCEPT ![p] = place]
        /\ (place = "sending" => want'[p].urgency \in Urgency)
        /\ (place = "receiving" /\ facility = "PosixMsgQ" => want'[p].urgency = 0)
        /\ want' \in [Peer -> Wish] /\ nonblock' \in [Peer -> BOOLEAN]
        /\ (\A q \in Peer \ {p} : want'[q] = want[q])
  <2>1. CASE CallSend(p)
    <3>1. PICK how \in {"wait", "timed", "try"}, u \in Urgency :
             want' = [want EXCEPT ![p] = [how |-> how, urgency |-> u]]
      BY <2>1 DEF CallSend
    <3>2. [how |-> how, urgency |-> u] \in Wish
      BY MsgAssumption DEF Wish
    <3>3. want \in [Peer -> Wish] /\ nonblock \in [Peer -> BOOLEAN]
      BY DEF MsgInv, MsgTypeInv
    <3>4. want' \in [Peer -> Wish] /\ want'[p].urgency = u /\ \A q \in Peer \ {p} : want'[q] = want[q]
      BY <3>1, <3>2, <3>3
    <3>5. at[p] = "free" /\ at' = [at EXCEPT ![p] = "sending"] /\ nonblock' = nonblock
      BY <2>1 DEF CallSend
    <3> QED
      BY <3>3, <3>4, <3>5
  <2>2. CASE CallRecv(p)
    <3>1. PICK how \in {"wait", "timed", "try"}, u \in Nat :
             /\ want' = [want EXCEPT ![p] = [how |-> how, urgency |-> u]]
             /\ facility = "PosixMsgQ" => u = 0
      <4>1. PICK how \in {"wait", "timed", "try"},
                 type \in {0} \cup (IF facility = "PosixMsgQ" THEN {} ELSE Urgency) :
              want' = [want EXCEPT ![p] = [how |-> how, urgency |-> type]]
        BY <2>2 DEF CallRecv
      <4>2. type \in Nat
        BY MsgAssumption
      <4> QED
        BY <4>1, <4>2
    <3>2. [how |-> how, urgency |-> u] \in Wish
      BY DEF Wish
    <3>3. want \in [Peer -> Wish] /\ nonblock \in [Peer -> BOOLEAN]
      BY DEF MsgInv, MsgTypeInv
    <3>4. want' \in [Peer -> Wish] /\ want'[p].urgency = u /\ \A q \in Peer \ {p} : want'[q] = want[q]
      BY <3>1, <3>2, <3>3
    <3>5. at[p] = "free" /\ at' = [at EXCEPT ![p] = "receiving"] /\ nonblock' = nonblock
      BY <2>2 DEF CallRecv
    <3> QED
      BY <3>1, <3>3, <3>4, <3>5
  <2>3. CASE Setattr(p)
    <3>1. at[p] = "free" /\ nonblock' = [nonblock EXCEPT ![p] = ~@] /\ at' = at /\ want' = want
      BY <2>3 DEF Setattr, callVars
    <3>2. at = [at EXCEPT ![p] = "free"]
      BY <3>1 DEF MsgInv, MsgTypeInv
    <3> QED
      BY <3>1, <3>2 DEF MsgInv, MsgTypeInv
  <2> QED
    BY <2>1, <2>2, <2>3
<1>3. /\ at' \in [Peer -> {"out", "free", "sending", "receiving", "waiting"}]
      /\ at'[p] = place /\ \A q \in Peer \ {p} : at'[q] = at[q]
  BY <1>2 DEF MsgInv, MsgTypeInv
<1>4. PeerInv'
  BY <1>1, <1>2, <1>3 DEF MsgInv, PeerInv
<1>5. WaitInv'
  BY <1>1, <1>2, <1>3 DEF MsgInv, WaitInv, Of, Wants
<1> QED
  BY <1>1, <1>2, <1>3, <1>4, <1>5, QuietKeeps

\* Calls that sleep, fail or are interrupted.
LEMMA WaitsKeep ==
    ASSUME MsgInv, NEW p \in Peer, Wait(p) \/ Fails(p) \/ Interrupted(p) PROVE MsgInv'
<1>1. UNCHANGED <<facility, auto, key, queues, removed, content, handle, nonblock, sent, received>>
  BY DEF Wait, Fails, Interrupted
<1>2. CASE Wait(p)
  <2>1. at[p] = "receiving" /\ at' = [at EXCEPT ![p] = "waiting"] /\ want' = want /\ Takeable(p) = {}
    BY <1>2 DEF Wait
  <2>2. /\ at' \in [Peer -> {"out", "free", "sending", "receiving", "waiting"}]
        /\ at'[p] = "waiting" /\ \A q \in Peer \ {p} : at'[q] = at[q]
    BY <2>1 DEF MsgInv, MsgTypeInv
  <2>3. PeerInv'
    BY <1>1, <2>1, <2>2 DEF MsgInv, PeerInv
  <2>4. \A i \in 1 .. Len(Of(p)) : ~Wants(p, Of(p)[i][2])
    BY <2>1, NothingTakeable
  <2>5. WaitInv'
    BY <1>1, <2>1, <2>2, <2>4 DEF MsgInv, WaitInv, Of, Wants
  <2> QED
    BY <1>1, <2>1, <2>2, <2>3, <2>5, QuietKeeps DEF MsgInv, MsgTypeInv
<1>3. CASE Fails(p) \/ Interrupted(p)
  <2>1. at[p] \in {"sending", "receiving", "waiting"} /\ Ends({p})
    BY <1>3 DEF Fails, Interrupted, Blocked
  <2>2. MsgTypeInv /\ PeerInv /\ handle' = handle /\ facility' = facility
    BY <1>1 DEF MsgInv
  <2>3. /\ at' \in [Peer -> {"out", "free", "sending", "receiving", "waiting"}] /\ want' \in [Peer -> Wish]
        /\ PeerInv'
        /\ \A q \in Peer : at'[q] = "waiting" => q \notin {p} /\ at[q] = "waiting" /\ want'[q] = want[q]
    BY <2>1, <2>2, EndsDoes
  <2>4. WaitInv'
    BY <1>1, <2>3 DEF MsgInv, WaitInv, Of, Wants
  <2> QED
    BY <1>1, <2>2, <2>3, <2>4, QuietKeeps DEF MsgTypeInv
<1> QED
  BY <1>2, <1>3

\* The constructor: the queue it makes, if any, is empty, and older ones had lost the key before.
LEMMA ConstructKeeps == ASSUME MsgInv, NEW p \in Peer, Construct(p) PROVE MsgInv'
<1>1. /\ at[p] = "out" /\ MqOpen /\ handle' = [handle EXCEPT ![p] = key']
      /\ nonblock' = [nonblock EXCEPT ![p] = FALSE] /\ at' = [at EXCEPT ![p] = "free"]
      /\ UNCHANGED <<facility, auto, removed, content, want, sent, received>>
  BY DEF Construct
<1>2. /\ queues \in Nat /\ queues' \in 0 .. MaxQueue /\ key' \in 1 .. queues' /\ queues <= queues'
      /\ \/ key' = key /\ queues' = queues
         \/ key = 0 /\ queues' = queues + 1 /\ key' = queues'
      /\ removed \subseteq 1 .. queues /\ handle \in [Peer -> 0 .. queues]
      /\ at \in [Peer -> {"out", "free", "sending", "receiving", "waiting"}]
  <2>1. /\ queues \in 0 .. MaxQueue /\ MaxQueue \in Nat /\ key \in 0 .. queues
        /\ removed \subseteq 1 .. queues /\ handle \in [Peer -> 0 .. queues]
        /\ at \in [Peer -> {"out", "free", "sending", "receiving", "waiting"}]
    BY MsgAssumption DEF MsgInv, MsgTypeInv
  <2>2. queues \in Nat
    BY <2>1
  <2>3. \/ key # 0 /\ key' = key /\ queues' = queues
        \/ key = 0 /\ queues < MaxQueue /\ queues' = queues + 1 /\ key' = queues'
    BY <1>1 DEF MqOpen
  <2>4. queues' \in 0 .. MaxQueue /\ key' \in 1 .. queues' /\ queues <= queues'
    <3>1. CASE key # 0 /\ key' = key /\ queues' = queues
      BY <2>1, <2>2, <3>1
    <3>2. CASE key = 0 /\ queues < MaxQueue /\ queues' = queues + 1 /\ key' = queues'
      BY <2>1, <2>2, <3>2
    <3> QED
      BY <2>3, <3>1, <3>2
  <2>5. \/ key' = key /\ queues' = queues
        \/ key = 0 /\ queues' = queues + 1 /\ key' = queues'
    BY <2>3
  <2> QED
    BY <2>1, <2>2, <2>4, <2>5, Zenon
<1>3. /\ handle'[p] = key' /\ at'[p] = "free" /\ handle' \in [Peer -> 0 .. queues']
      /\ \A q \in Peer \ {p} : handle'[q] = handle[q] /\ at'[q] = at[q]
  BY <1>1, <1>2
<1>4. MsgTypeInv'
  BY <1>1, <1>2, <1>3 DEF MsgInv, MsgTypeInv
<1>5. KeyInv'
  <2>1. key' \notin removed
    <3>1. CASE key' = key
      BY <3>1 DEF MsgInv, KeyInv
    <3>2. CASE key' = queues + 1
      BY <1>2, <3>2
    <3> QED
      BY <1>2, <3>1, <3>2
  <2>2. ASSUME NEW q \in 1 .. queues', key' # q PROVE key # q /\ q \in 1 .. queues
    BY <1>2, <2>2
  <2> QED
    BY <1>1, <2>1, <2>2 DEF MsgInv, KeyInv
<1>6. PeerInv'
  BY <1>1, <1>2, <1>3 DEF MsgInv, PeerInv
<1>7. WaitInv'
  BY <1>1, <1>3 DEF MsgInv, WaitInv, Of, Wants
<1>8. ContentInv'
  BY <1>1 DEF MsgInv, ContentInv, SentTo, Ordered, Before
<1>9. TakenInv'
  BY <1>1 DEF MsgInv, TakenInv, Taken
<1>10. KeptInv'
  <2> SUFFICES ASSUME NEW n \in 1 .. Len(sent)
               PROVE  /\ sent[n].queue \in 1 .. queues'
                      /\ In(n, content[sent[n].queue]) \/ Taken(n) \/ key' # sent[n].queue
    BY <1>1 DEF KeptInv, Taken, In
  <2>1. /\ sent[n].queue \in 1 .. queues
        /\ In(n, content[sent[n].queue]) \/ Taken(n) \/ key # sent[n].queue
    BY DEF MsgInv, KeptInv
  <2>2. key' = sent[n].queue => key' = key
    BY <1>2, <2>1
  <2> QED
    BY <1>2, <2>1, <2>2
<1> QED
  BY <1>4, <1>5, <1>6, <1>7, <1>8, <1>9, <1>10 DEF MsgInv

\* The destructor: what goes, goes with a queue that loses the key.
LEMMA DestructKeeps == ASSUME MsgInv, NEW p \in Peer, Destruct(p) PROVE MsgInv'
<1>1. /\ at[p] = "free" /\ handle' = [handle EXCEPT ![p] = 0] /\ content' = Emptied
      /\ at' = [at EXCEPT ![p] = "out"]
      /\ UNCHANGED <<facility, auto, queues, nonblock, want, sent, received>>
  BY DEF Destruct
<1>2. /\ handle[p] \in 1 .. queues /\ queues \in Nat /\ removed \subseteq 1 .. queues /\ key \in 0 .. queues
      /\ content \in [Queue -> Seq(Message)] /\ handle \in [Peer -> 0 .. queues]
      /\ at \in [Peer -> {"out", "free", "sending", "receiving", "waiting"}]
      /\ key \notin removed /\ facility \in {"PosixMsgQ", "SysVMsgQ"} /\ auto[p] \in BOOLEAN
  <2>1. handle[p] \in 1 .. queues
    BY <1>1, OpenQueue
  <2>2. /\ queues \in 0 .. MaxQueue /\ MaxQueue \in Nat /\ facility \in {"PosixMsgQ", "SysVMsgQ"}
        /\ auto[p] \in BOOLEAN
    BY MsgAssumption DEF MsgInv, MsgTypeInv, Facilities
  <2>3. /\ removed \subseteq 1 .. queues /\ key \in 0 .. queues /\ key \notin removed
        /\ content \in [Queue -> Seq(Message)] /\ handle \in [Peer -> 0 .. queues]
        /\ at \in [Peer -> {"out", "free", "sending", "receiving", "waiting"}]
    BY DEF MsgInv, MsgTypeInv, KeyInv
  <2> QED
    BY <2>1, <2>2, <2>3
<1>3. \/ key' = key /\ removed' = removed
      \/ auto[p] /\ key' = 0 /\ removed' = removed
      \/ auto[p] /\ key' = (IF key = handle[p] THEN 0 ELSE key) /\ removed' = removed \cup {handle[p]}
  <2>1. CASE ~auto[p]
    BY <1>2, <2>1 DEF Destruct
  <2>2. CASE auto[p] /\ facility = "PosixMsgQ"
    BY <1>2, <2>2 DEF Destruct, MqUnlink
  <2>3. CASE auto[p] /\ facility = "SysVMsgQ"
    BY <1>2, <2>3 DEF Destruct, MsgRemove
  <2> QED
    BY <1>2, <2>1, <2>2, <2>3
<1>4. /\ key' \in {0, key} /\ (key' # key => auto[p])
      /\ removed' \subseteq 1 .. queues /\ key' \notin removed'
  <2>1. CASE key' = key /\ removed' = removed
    BY <1>2, <2>1
  <2>2. CASE auto[p] /\ key' = 0 /\ removed' = removed
    BY <1>2, <2>2
  <2>3. CASE auto[p] /\ key' = (IF key = handle[p] THEN 0 ELSE key) /\ removed' = removed \cup {handle[p]}
    <3>1. removed' \subseteq 1 .. queues
      BY <1>2, <2>3
    <3>2. CASE key = handle[p]
      BY <1>2, <2>3, <3>1, <3>2
    <3>3. CASE key # handle[p]
      BY <1>2, <2>3, <3>1, <3>3
    <3> QED
      BY <3>2, <3>3
  <2> QED
    BY <1>3, <2>1, <2>2, <2>3
<1>5. /\ handle'[p] = 0 /\ at'[p] = "out" /\ handle' \in [Peer -> 0 .. queues]
      /\ \A q \in Peer \ {p} : handle'[q] = handle[q] /\ at'[q] = at[q]
      /\ at' \in [Peer -> {"out", "free", "sending", "receiving", "waiting"}]
  BY <1>1, <1>2
<1>6. /\ content' \in [Queue -> Seq(Message)]
      /\ \A q \in Queue : /\ content'[q] = << >> \/ content'[q] = content[q]
                          /\ q \in removed' => content'[q] = << >>
                          /\ content'[q] # content[q] => key' # q
  <2>1. content' = [q \in Queue |-> IF q \in removed' \/ (facility = "PosixMsgQ" /\ key' # q
                                                          /\ \A r \in Peer : handle'[r] # q)
                                    THEN << >> ELSE content[q]]
    BY <1>1 DEF Emptied
  <2>2. << >> \in Seq(Message)
    BY EmptySeq
  <2>3. content' \in [Queue -> Seq(Message)]
    BY <1>2, <2>1, <2>2
  <2> QED
    BY <1>4, <2>1, <2>3
<1>7. MsgTypeInv'
  BY <1>1, <1>2, <1>4, <1>5, <1>6 DEF MsgInv, MsgTypeInv
<1>8. KeyInv'
  <2>1. ASSUME NEW q \in 1 .. queues, key' # q PROVE \E r \in Peer : auto[r]
    <3>1. CASE key = q
      BY <1>4, <2>1, <3>1
    <3>2. CASE key # q
      BY <3>2 DEF MsgInv, KeyInv
    <3> QED
      BY <3>1, <3>2
  <2> QED
    BY <1>1, <1>4, <2>1 DEF KeyInv
<1>9. PeerInv'
  BY <1>1, <1>5 DEF MsgInv, PeerInv
<1>10. \A q \in Queue : \A i \in 1 .. Len(content'[q]) : i \in 1 .. Len(content[q]) /\ content'[q] = content[q]
  <2>1. Len(<< >>) = 0 /\ 1 .. 0 = {}
    BY EmptySeq
  <2> QED
    BY <1>6, <2>1
<1>11. WaitInv'
  <2> SUFFICES ASSUME NEW q \in Peer, at'[q] = "waiting", NEW i \in 1 .. Len(content'[handle'[q]])
               PROVE  ~(want[q].urgency \in {0, content'[handle'[q]][i][2]})
    BY <1>1 DEF WaitInv, Of, Wants
  <2>1. q # p /\ at[q] = "waiting" /\ handle'[q] = handle[q]
    BY <1>5
  <2>2. handle[q] \in Queue
    BY <2>1, OpenQueue
  <2> QED
    BY <1>10, <2>1, <2>2 DEF MsgInv, WaitInv, Of, Wants
<1>12. ContentInv'
  <2> SUFFICES ASSUME NEW q \in Queue
               PROVE  /\ Len(content'[q]) <= MaxMsg /\ (q \in removed' => content'[q] = << >>)
                      /\ SentTo(content'[q], q) /\ Ordered(content'[q])
    BY <1>1 DEF ContentInv, SentTo, Ordered, Before
  <2>1. CASE content'[q] = << >>
    <3>1. Len(content'[q]) = 0
      BY <2>1, EmptySeq
    <3> QED
      BY <2>1, <3>1, MsgAssumption DEF SentTo, Ordered
  <2>2. CASE content'[q] = content[q]
    <3>1. /\ Len(content[q]) <= MaxMsg /\ (q \in removed => content[q] = << >>)
          /\ SentTo(content[q], q) /\ Ordered(content[q])
      BY DEF MsgInv, ContentInv
    <3> QED
      BY <1>6, <2>2, <3>1
  <2> QED
    BY <1>6, <2>1, <2>2
<1>13. TakenInv'
  BY <1>1, <1>10 DEF MsgInv, TakenInv, Taken
<1>14. KeptInv'
  <2> SUFFICES ASSUME NEW n \in 1 .. Len(sent)
               PROVE  /\ sent[n].queue \in 1 .. queues
                      /\ In(n, content'[sent[n].queue]) \/ Taken(n) \/ key' # sent[n].queue
    BY <1>1 DEF KeptInv, Taken, In
  <2>1. /\ sent[n].queue \in 1 .. queues
        /\ In(n, content[sent[n].queue]) \/ Taken(n) \/ key # sent[n].queue
    BY DEF MsgInv, KeptInv
  <2>2. sent[n].queue \in Queue /\ sent[n].queue # 0
    <3>1. queues \in 0 .. MaxQueue /\ MaxQueue \in Nat
      BY MsgAssumption DEF MsgInv, MsgTypeInv
    <3>2. PICK m : m = sent[n].queue
      OBVIOUS
    <3>3. m \in 1 .. queues
      BY <2>1, <3>2
    <3>4. m \in 1 .. MaxQueue /\ m # 0
      BY <3>1, <3>3
    <3> QED
      BY <3>2, <3>4 DEF Queue
  <2>3. key # sent[n].queue => key' # sent[n].queue
    BY <1>4, <2>2
  <2> QED
    BY <1>6, <2>1, <2>2, <2>3
<1> QED
  BY <1>7, <1>8, <1>9, <1>11, <1>12, <1>13, <1>14 DEF MsgInv

------------------------------------------------------------------------------

\* A message that is sent does not change what was sent before.
LEMMA SentGrows ==
    ASSUME MsgInv, NEW e \in [queue : Queue, urgency : Urgency], sent' = Append(sent, e)
    PROVE  /\ Len(sent) \in Nat /\ Len(sent') = Len(sent) + 1
           /\ sent' \in Seq([queue : Queue, urgency : Urgency])
           /\ sent'[Len(sent) + 1] = e /\ \A n \in 1 .. Len(sent) : sent'[n] = sent[n]
           /\ \A n \in 1 .. Len(sent) : n \in 1 .. Len(sent')
           /\ \A n \in 1 .. Len(sent') : n \in 1 .. Len(sent) \/ n = Len(sent) + 1
<1>1. sent \in Seq([queue : Queue, urgency : Urgency])
  BY DEF MsgInv, MsgTypeInv
<1>2. /\ Len(sent) \in Nat /\ Len(sent') = Len(sent) + 1
      /\ sent' \in Seq([queue : Queue, urgency : Urgency])
      /\ sent'[Len(sent) + 1] = e /\ \A n \in 1 .. Len(sent) : sent'[n] = sent[n]
  BY <1>1, AppendProperties
<1> QED
  BY <1>2

\* What a queue holds was still sent to it.
LEMMA SentToGrows ==
    ASSUME MsgInv, NEW e \in [queue : Queue, urgency : Urgency], sent' = Append(sent, e),
           NEW s, NEW q, SentTo(s, q)
    PROVE  SentTo(s, q)'
  BY SentGrows DEF SentTo

\* A number that is received does not change what was received before.
LEMMA ReceivedGrows ==
    ASSUME MsgInv, NEW n \in 1 .. Len(sent), received' = Append(received, n), ~Taken(n),
           \A m \in 1 .. Len(sent) : m \in 1 .. Len(sent')
    PROVE  /\ received' \in Seq(Nat)
           /\ \A m : Taken(m)' <=> Taken(m) \/ m = n
           /\ \A i \in 1 .. Len(received') : received'[i] \in 1 .. Len(sent')
           /\ \A i, j \in 1 .. Len(received') : received'[i] = received'[j] => i = j
<1>1. PICK L \in Nat : L = Len(received)
  BY DEF MsgInv, MsgTypeInv
<1>2. received \in Seq(Nat) /\ n \in Nat
  BY DEF MsgInv, MsgTypeInv
<1>3. /\ received' \in Seq(Nat) /\ Len(received') = L + 1
      /\ received'[L + 1] = n /\ \A i \in 1 .. L : received'[i] = received[i]
  BY <1>1, <1>2, AppendProperties
<1>4. \A i \in 1 .. L + 1 : i \in 1 .. L \/ i = L + 1
  BY <1>1
<1>5. L + 1 \in 1 .. L + 1 /\ \A i \in 1 .. L : i \in 1 .. L + 1
  BY <1>1
<1>6. \A m : Taken(m)' <=> Taken(m) \/ m = n
  BY <1>1, <1>3, <1>4, <1>5 DEF Taken
<1>7. /\ \A i \in 1 .. L : received[i] \in 1 .. Len(sent)
      /\ \A i, j \in 1 .. L : received[i] = received[j] => i = j
      /\ \A i \in 1 .. L : received[i] # n
  BY <1>1 DEF MsgInv, TakenInv, Taken
<1>8. ASSUME NEW i \in 1 .. L + 1 PROVE received'[i] \in 1 .. Len(sent')
  BY <1>3, <1>4, <1>7
<1>9. ASSUME NEW i \in 1 .. L + 1, NEW j \in 1 .. L + 1, received'[i] = received'[j] PROVE i = j
  BY <1>3, <1>4, <1>7, <1>9
<1> QED
  BY <1>3, <1>6, <1>8, <1>9

\* The queue a message is sent to is there, and its place keeps the order: the message is the
\* newest, behind all that are as urgent.
LEMMA PlaceOrders ==
    ASSUME MsgInv, NEW q \in Queue, NEW u \in Urgency, NEW k \in Place(q, u)
    PROVE  /\ k \in 0 .. Len(content[q])
           /\ \A i \in 1 .. k : Before(content[q][i], <<Len(sent) + 1, u>>)
           /\ \A i \in k + 1 .. Len(content[q]) : Before(<<Len(sent) + 1, u>>, content[q][i])
<1>1. PICK s \in Seq(Message) : s = content[q]
  BY DEF MsgInv, MsgTypeInv
<1>2. /\ SentTo(s, q) /\ Ordered(s)
      /\ facility \in {"PosixMsgQ", "SysVMsgQ"} /\ Len(sent) \in Nat
  BY <1>1 DEF MsgInv, MsgTypeInv, ContentInv, Facilities
<1>3. k \in 0 .. Len(s) /\ Len(s) \in Nat /\ k \in Nat /\ u \in Nat
  BY <1>1, MsgAssumption DEF Place
<1>4. PICK e : e = <<Len(sent) + 1, u>>
  OBVIOUS
<1>5. e[1] = Len(sent) + 1 /\ e[2] = u
  BY <1>4
<1>6. \A i \in 1 .. Len(s) : s[i][1] \in Nat /\ s[i][2] \in Nat /\ s[i][1] < e[1]
  <2> SUFFICES ASSUME NEW i \in 1 .. Len(s) PROVE s[i][1] \in Nat /\ s[i][2] \in Nat /\ s[i][1] < e[1]
    OBVIOUS
  <2>1. s[i] \in Message
    OBVIOUS
  <2>2. s[i][1] \in Nat /\ s[i][2] \in Nat
    BY <2>1, MessageParts
  <2>3. s[i][1] \in 1 .. Len(sent)
    BY <1>2 DEF SentTo
  <2> QED
    BY <1>2, <1>5, <2>2, <2>3
<1>7. CASE facility = "SysVMsgQ"
  <2>1. k = Len(s)
    BY <1>1, <1>7 DEF Place
  <2>2. \A i \in 1 .. k : Before(s[i], e)
    BY <1>6, <1>7, <2>1 DEF Before
  <2>3. k + 1 .. Len(s) = {}
    BY <1>3, <2>1
  <2> QED
    BY <1>1, <1>3, <1>4, <2>2, <2>3
<1>8. CASE facility = "PosixMsgQ"
  <2>1. (k = 0 \/ s[k][2] >= u) /\ \A i \in k + 1 .. Len(s) : s[i][2] < u
    BY <1>1, <1>8 DEF Place
  <2>2. ASSUME NEW i \in 1 .. k PROVE Before(s[i], e)
    <3>1. i \in 1 .. Len(s) /\ k \in 1 .. Len(s) /\ s[k][2] >= u
      BY <1>3, <2>1
    <3>2. s[i][2] >= s[k][2]
      <4>1. CASE i = k
        BY <1>6, <3>1, <4>1
      <4>2. CASE i # k
        <5>1. Before(s[i], s[k])
          BY <1>2, <3>1, <4>2 DEF Ordered
        <5>2. s[i][2] > s[k][2] \/ s[i][2] = s[k][2]
          BY <1>8, <5>1 DEF Before
        <5> QED
          BY <1>6, <3>1, <5>2
      <4> QED
        BY <4>1, <4>2
    <3>3. PICK x \in Nat, y \in Nat : x = s[i][2] /\ y = s[k][2]
      BY <1>6, <3>1
    <3>4. x > u \/ x = u
      BY <1>3, <3>1, <3>2, <3>3
    <3> QED
      BY <1>5, <1>6, <1>8, <3>1, <3>3, <3>4 DEF Before
  <2>3. ASSUME NEW i \in k + 1 .. Len(s) PROVE Before(e, s[i])
    <3>1. i \in 1 .. Len(s) /\ s[i][2] < u
      BY <1>3, <2>1
    <3>2. PICK x \in Nat : x = s[i][2]
      BY <1>6, <3>1
    <3>3. u > x
      BY <1>3, <3>1, <3>2
    <3> QED
      BY <1>5, <1>8, <3>2, <3>3 DEF Before
  <2> QED
    BY <1>1, <1>3, <1>4, <2>2, <2>3
<1> QED
  BY <1>2, <1>7, <1>8

\* A message that nobody waits for is put into the queue.
LEMMA PutKeeps ==
    ASSUME MsgInv, NEW p \in Peer, at[p] = "sending", ~Gone(p), Ends({p}),
           NEW u \in Urgency, NEW k \in Place(handle[p], u),
           Waiters(handle[p], u) = {}, Len(content[handle[p]]) < MaxMsg,
           sent' = Append(sent, [queue |-> handle[p], urgency |-> u]),
           content' = [content EXCEPT ![handle[p]] = InsertAt(@, k + 1, <<Len(sent) + 1, u>>)],
           UNCHANGED <<facility, auto, key, queues, removed, handle, nonblock, received>>
    PROVE  MsgInv'
<1>1. PICK q : q = handle[p]
  OBVIOUS
<1>2. q \in Queue /\ q \in 1 .. queues /\ content[q] \in Seq(Message) /\ q \notin removed
  BY <1>1, OpenQueue DEF Gone
<1>3. PICK s \in Seq(Message), n \in {Len(sent) + 1} : s = content[q] /\ n = Len(sent) + 1
  BY <1>2
<1>4. PICK e : e = <<n, u>>
  OBVIOUS
<1>5. PICK m : m = [queue |-> q, urgency |-> u]
  OBVIOUS
<1>6. m \in [queue : Queue, urgency : Urgency] /\ m.queue = q /\ m.urgency = u /\ sent' = Append(sent, m)
  BY <1>1, <1>2, <1>5
<1>7. /\ Len(sent) \in Nat /\ Len(sent') = n /\ sent' \in Seq([queue : Queue, urgency : Urgency])
      /\ sent'[n] = m /\ \A x \in 1 .. Len(sent) : sent'[x] = sent[x]
      /\ \A x \in 1 .. Len(sent) : x \in 1 .. n
      /\ \A x \in 1 .. n : x \in 1 .. Len(sent) \/ x = n
  BY <1>3, <1>6, SentGrows
<1>8. e \in Message /\ e[1] = n /\ e[2] = u /\ n \in Nat /\ n \in 1 .. n
  BY <1>3, <1>4, <1>7 DEF Message
<1>9. k \in 0 .. Len(s)
  BY <1>1, <1>2, <1>3, PlaceOrders
<1>10. PICK r \in Seq(Message) : r = InsertAt(s, k + 1, e) /\ Inserted(r, s, k, e)
  BY <1>8, <1>9, InsertedAt
<1>11. /\ content' \in [Queue -> Seq(Message)] /\ content'[q] = r
       /\ \A x \in Queue \ {q} : content'[x] = content[x]
  <2>1. content \in [Queue -> Seq(Message)]
    BY DEF MsgInv, MsgTypeInv
  <2>2. content' = [content EXCEPT ![q] = r]
    BY <1>1, <1>2, <1>3, <1>4, <1>10, <2>1
  <2> QED
    BY <1>2, <2>1, <2>2
<1>12. \A j \in 1 .. Len(r) : r[j] = e \/ \E i \in 1 .. Len(s) : r[j] = s[i]
  BY <1>9, <1>10, InsertedFrom
<1>13. (\E j \in 1 .. Len(r) : r[j] = e) /\ \A i \in 1 .. Len(s) : \E j \in 1 .. Len(r) : r[j] = s[i]
  <2>1. Len(r) = Len(s) + 1 /\ Len(s) \in Nat /\ k \in Nat /\ k <= Len(s)
    BY <1>9, <1>10 DEF Inserted
  <2>2. k + 1 \in 1 .. Len(r) /\ r[k + 1] = e
    BY <1>10, <2>1 DEF Inserted
  <2>3. ASSUME NEW i \in 1 .. Len(s) PROVE \E j \in 1 .. Len(r) : r[j] = s[i]
    <3>1. CASE i <= k
      <4>1. i \in 1 .. Len(r) /\ r[i] = s[i]
        BY <1>10, <2>1, <3>1 DEF Inserted
      <4> QED
        BY <4>1
    <3>2. CASE i > k
      <4>1. i + 1 \in 1 .. Len(r) /\ r[i + 1] = s[i]
        BY <1>10, <2>1, <3>2 DEF Inserted
      <4> QED
        BY <4>1
    <3> QED
      BY <2>1, <3>1, <3>2
  <2> QED
    BY <2>2, <2>3
<1>14. /\ at' \in [Peer -> {"out", "free", "sending", "receiving", "waiting"}] /\ want' \in [Peer -> Wish]
       /\ PeerInv'
       /\ \A x \in Peer : at'[x] = "waiting" => at[x] = "waiting" /\ want'[x] = want[x]
  BY EndsDoes DEF MsgInv
<1>15. MsgTypeInv' /\ KeyInv'
  BY <1>7, <1>11, <1>14 DEF MsgInv, MsgTypeInv, KeyInv
<1>16. WaitInv'
  <2> SUFFICES ASSUME NEW x \in Peer, at'[x] = "waiting", NEW i \in 1 .. Len(content'[handle[x]])
               PROVE  ~(want'[x].urgency \in {0, content'[handle[x]][i][2]})
    BY DEF WaitInv, Of, Wants
  <2>1. at[x] = "waiting" /\ want'[x] = want[x] /\ handle[x] \in Queue
    BY <1>14, OpenQueue
  <2>2. \A j \in 1 .. Len(content[handle[x]]) : ~(want[x].urgency \in {0, content[handle[x]][j][2]})
    BY <2>1 DEF MsgInv, WaitInv, Of, Wants
  <2>3. CASE handle[x] = q
    <3>1. x \notin Waiters(q, u)
      BY <1>1
    <3>2. ~(want[x].urgency \in {0, u})
      BY <2>1, <2>3, <3>1 DEF Waiters, Wants
    <3>3. i \in 1 .. Len(r)
      BY <1>11, <2>3
    <3>4. r[i] = e \/ \E j \in 1 .. Len(s) : r[i] = s[j]
      BY <1>12, <3>3
    <3>5. CASE r[i] = e
      BY <1>8, <1>11, <2>1, <2>3, <3>2, <3>5
    <3>6. CASE \E j \in 1 .. Len(s) : r[i] = s[j]
      BY <1>3, <1>11, <2>1, <2>2, <2>3, <3>6
    <3> QED
      BY <3>4, <3>5, <3>6
  <2>4. CASE handle[x] # q
    BY <1>11, <2>1, <2>2, <2>4
  <2> QED
    BY <2>3, <2>4
<1>17. ContentInv'
  <2> SUFFICES ASSUME NEW x \in Queue
               PROVE  /\ Len(content'[x]) <= MaxMsg /\ (x \in removed => content'[x] = << >>)
                      /\ SentTo(content[x], x)' /\ Ordered(content[x])'
    BY DEF ContentInv
  <2>1. CASE x = q
    <3>1. Len(r) <= MaxMsg
      <4>1. Len(s) < MaxMsg /\ Len(r) = Len(s) + 1 /\ Len(s) \in Nat
        BY <1>1, <1>3, <1>10 DEF Inserted
      <4> QED
        BY <4>1, MsgAssumption
    <3>2. SentTo(s, q) /\ Ordered(s)
      BY <1>2, <1>3 DEF MsgInv, ContentInv
    <3>3. SentTo(s, q)'
      BY <1>6, <3>2, SentToGrows
    <3>4. SentTo(r, q)'
      <4> SUFFICES ASSUME NEW j \in 1 .. Len(r)
                   PROVE  /\ r[j][1] \in 1 .. Len(sent')
                          /\ sent'[r[j][1]].queue = q /\ sent'[r[j][1]].urgency = r[j][2]
        BY DEF SentTo
      <4>1. CASE r[j] = e
        BY <1>6, <1>7, <1>8, <4>1
      <4>2. CASE \E i \in 1 .. Len(s) : r[j] = s[i]
        BY <3>3, <4>2 DEF SentTo
      <4> QED
        BY <1>12, <4>1, <4>2
    <3>5. /\ \A i \in 1 .. k : Before(s[i], e)
          /\ \A i \in k + 1 .. Len(s) : Before(e, s[i])
      BY <1>1, <1>2, <1>3, <1>4, PlaceOrders
    <3>6. Ordered(r)
      BY <1>9, <1>10, <3>2, <3>5, InsertOrdered
    <3>7. Ordered(r)'
      BY <3>6 DEF Ordered, Before
    <3> QED
      BY <1>2, <1>11, <2>1, <3>1, <3>4, <3>7 DEF SentTo, Ordered
  <2>2. CASE x # q
    <3>1. /\ Len(content[x]) <= MaxMsg /\ (x \in removed => content[x] = << >>)
          /\ SentTo(content[x], x) /\ Ordered(content[x])
      BY DEF MsgInv, ContentInv
    <3>2. content'[x] = content[x]
      BY <1>11, <2>2
    <3>3. PICK y : y = content[x]
      OBVIOUS
    <3>4. SentTo(y, x)'
      BY <1>6, <3>1, <3>3, SentToGrows
    <3>5. Ordered(y)'
      BY <3>1, <3>3 DEF Ordered, Before
    <3>6. content'[x] = y
      BY <3>2, <3>3
    <3>7. SentTo(content[x], x)'
      BY <3>4, <3>6 DEF SentTo
    <3>8. Ordered(content[x])'
      BY <3>5, <3>6 DEF Ordered
    <3> QED
      BY <1>11, <3>1, <3>2, <3>7, <3>8
  <2> QED
    BY <2>1, <2>2
<1>18. TakenInv'
  <2>1. \A x : Taken(x)' <=> Taken(x)
    BY DEF Taken
  <2>2. /\ \A i \in 1 .. Len(received) : received[i] \in 1 .. Len(sent)
        /\ \A i, j \in 1 .. Len(received) : received[i] = received[j] => i = j
        /\ \A x \in Queue : \A i \in 1 .. Len(content[x]) : ~Taken(content[x][i][1])
    BY DEF MsgInv, TakenInv
  <2>3. ~Taken(n)
    <3>1. n \notin 1 .. Len(sent)
      BY <1>3, <1>7
    <3> QED
      BY <2>2, <3>1 DEF Taken
  <2>4. ASSUME NEW x \in Queue, NEW i \in 1 .. Len(content'[x]) PROVE ~Taken(content'[x][i][1])
    <3>1. CASE x = q
      <4>1. r[i] = e \/ \E j \in 1 .. Len(s) : r[i] = s[j]
        BY <1>11, <1>12, <3>1
      <4> QED
        BY <1>2, <1>3, <1>8, <1>11, <2>2, <2>3, <3>1, <4>1
    <3>2. CASE x # q
      BY <1>11, <2>2, <3>2
    <3> QED
      BY <3>1, <3>2
  <2>5. \A i \in 1 .. Len(received) : received[i] \in 1 .. Len(sent')
    BY <1>7, <2>2
  <2> QED
    BY <2>1, <2>2, <2>4, <2>5 DEF TakenInv
<1>19. KeptInv'
  <2> SUFFICES ASSUME NEW x \in 1 .. n
               PROVE  /\ sent'[x].queue \in 1 .. queues
                      /\ In(x, content'[sent'[x].queue]) \/ Taken(x) \/ key # sent'[x].queue
    BY <1>7 DEF KeptInv, Taken, In
  <2>1. CASE x = n
    <3>1. In(n, r)
      BY <1>8, <1>13 DEF In
    <3> QED
      BY <1>2, <1>6, <1>7, <1>11, <2>1, <3>1
  <2>2. CASE x \in 1 .. Len(sent)
    <3>1. PICK y : y = sent[x].queue
      OBVIOUS
    <3>2. y \in 1 .. queues /\ (In(x, content[y]) \/ Taken(x) \/ key # y) /\ y = sent'[x].queue
      BY <1>7, <2>2, <3>1 DEF MsgInv, KeptInv
    <3>3. y \in Queue
      <4>1. queues \in 0 .. MaxQueue /\ MaxQueue \in Nat
        BY MsgAssumption DEF MsgInv, MsgTypeInv
      <4>2. y \in 1 .. queues
        BY <3>2
      <4> QED
        BY <4>1, <4>2 DEF Queue
    <3>4. In(x, content[y]) => In(x, content'[y])
      <4>1. CASE y = q
        <5>1. content[y] = s /\ content'[y] = r
          BY <1>2, <1>3, <1>11, <4>1
        <5>2. ASSUME NEW i \in 1 .. Len(s), s[i][1] = x PROVE In(x, r)
          <6>1. PICK j \in 1 .. Len(r) : r[j] = s[i]
            BY <1>13
          <6> QED
            BY <5>2, <6>1 DEF In
        <5> QED
          BY <5>1, <5>2 DEF In
      <4>2. CASE y # q
        BY <1>11, <3>3, <4>2
      <4> QED
        BY <4>1, <4>2
    <3> QED
      BY <3>2, <3>4
  <2> QED
    BY <1>7, <2>1, <2>2
<1> QED
  BY <1>14, <1>15, <1>16, <1>17, <1>18, <1>19 DEF MsgInv

\* A message that somebody waits for goes to it and never into the queue.
LEMMA HandKeeps ==
    ASSUME MsgInv, NEW p \in Peer, at[p] = "sending", NEW w \in Peer, at[w] = "waiting", Ends({p, w}),
           NEW u \in Urgency,
           sent' = Append(sent, [queue |-> handle[p], urgency |-> u]),
           received' = Append(received, Len(sent) + 1),
           UNCHANGED <<facility, auto, key, queues, removed, handle, nonblock, content>>
    PROVE  MsgInv'
<1>1. PICK q \in Queue : q = handle[p] /\ q \in 1 .. queues
  BY OpenQueue
<1>2. PICK m : m = [queue |-> q, urgency |-> u] /\ m \in [queue : Queue, urgency : Urgency] /\ m.queue = q
  <2>1. PICK m : m = [queue |-> q, urgency |-> u]
    OBVIOUS
  <2>2. m \in [queue : Queue, urgency : Urgency] /\ m.queue = q
    BY <2>1
  <2> QED
    BY <2>1, <2>2
<1>3. sent' = Append(sent, m)
  BY <1>1, <1>2
<1>4. PICK n \in {Len(sent) + 1} : n = Len(sent) + 1
  OBVIOUS
<1>5. /\ Len(sent) \in Nat /\ Len(sent') = n /\ sent' \in Seq([queue : Queue, urgency : Urgency])
      /\ sent'[n] = m /\ \A x \in 1 .. Len(sent) : sent'[x] = sent[x]
      /\ \A x \in 1 .. Len(sent) : x \in 1 .. n
      /\ \A x \in 1 .. n : x \in 1 .. Len(sent) \/ x = n
  BY <1>2, <1>3, <1>4, SentGrows
<1>6. n \in Nat /\ n \in 1 .. n /\ n \notin 1 .. Len(sent)
  BY <1>4, <1>5
<1>7. PICK L \in Nat : L = Len(received)
  BY DEF MsgInv, MsgTypeInv
<1>8. /\ received' \in Seq(Nat) /\ Len(received') = L + 1
      /\ received'[L + 1] = n /\ \A i \in 1 .. L : received'[i] = received[i]
  <2>1. received \in Seq(Nat) /\ received' = Append(received, n)
    BY <1>4 DEF MsgInv, MsgTypeInv
  <2> QED
    BY <1>6, <1>7, <2>1, AppendProperties
<1>9. /\ \A i \in 1 .. L + 1 : i \in 1 .. L \/ i = L + 1
      /\ L + 1 \in 1 .. L + 1 /\ \A i \in 1 .. L : i \in 1 .. L + 1
  BY <1>7
<1>10. /\ \A i \in 1 .. L : received[i] \in 1 .. Len(sent)
       /\ \A i, j \in 1 .. L : received[i] = received[j] => i = j
  BY <1>7 DEF MsgInv, TakenInv
<1>11. \A x : Taken(x)' <=> Taken(x) \/ x = n
  BY <1>7, <1>8, <1>9 DEF Taken
<1>12. /\ at' \in [Peer -> {"out", "free", "sending", "receiving", "waiting"}] /\ want' \in [Peer -> Wish]
       /\ PeerInv'
       /\ \A x \in Peer : at'[x] = "waiting" => at[x] = "waiting" /\ want'[x] = want[x]
  BY EndsDoes DEF MsgInv
<1>13. MsgTypeInv' /\ KeyInv'
  BY <1>5, <1>8, <1>12 DEF MsgInv, MsgTypeInv, KeyInv
<1>14. WaitInv'
  BY <1>12 DEF MsgInv, WaitInv, Of, Wants
<1>15. ContentInv'
  <2> SUFFICES ASSUME NEW x \in Queue
               PROVE  /\ Len(content[x]) <= MaxMsg /\ (x \in removed => content[x] = << >>)
                      /\ SentTo(content[x], x)' /\ Ordered(content[x])'
    BY DEF ContentInv
  <2>1. /\ Len(content[x]) <= MaxMsg /\ (x \in removed => content[x] = << >>)
        /\ SentTo(content[x], x) /\ Ordered(content[x])
    BY DEF MsgInv, ContentInv
  <2>2. PICK y : y = content[x]
    OBVIOUS
  <2>3. SentTo(y, x)'
    BY <1>2, <1>3, <2>1, <2>2, SentToGrows
  <2>4. Ordered(y)'
    <3>1. Ordered(y)
      BY <2>1, <2>2
    <3> QED
      BY <3>1 DEF Ordered, Before
  <2> QED
    BY <2>1, <2>2, <2>3, <2>4 DEF SentTo, Ordered
<1>16. TakenInv'
  <2>1. ASSUME NEW x \in Queue, NEW i \in 1 .. Len(content[x]) PROVE ~Taken(content[x][i][1])'
    <3>1. ~Taken(content[x][i][1])
      BY DEF MsgInv, TakenInv
    <3>2. content[x][i][1] \in 1 .. Len(sent)
      BY DEF MsgInv, ContentInv, SentTo
    <3>3. PICK y : y = content[x][i][1]
      OBVIOUS
    <3>4. ~Taken(y)'
      BY <1>6, <1>11, <3>1, <3>2, <3>3
    <3> QED
      BY <3>3, <3>4 DEF Taken
  <2>2. ASSUME NEW i \in 1 .. L + 1 PROVE received'[i] \in 1 .. n
    BY <1>5, <1>6, <1>8, <1>9, <1>10
  <2>3. ASSUME NEW i \in 1 .. L + 1, NEW j \in 1 .. L + 1, received'[i] = received'[j] PROVE i = j
    BY <1>6, <1>8, <1>9, <1>10, <2>3
  <2> QED
    BY <1>5, <1>8, <2>1, <2>2, <2>3 DEF TakenInv
<1>17. KeptInv'
  <2> SUFFICES ASSUME NEW x \in 1 .. n
               PROVE  /\ sent'[x].queue \in 1 .. queues
                      /\ In(x, content[sent'[x].queue]) \/ Taken(x)' \/ key # sent'[x].queue
    BY <1>5 DEF KeptInv, Taken, In
  <2>1. CASE x = n
    BY <1>1, <1>2, <1>5, <1>11, <2>1
  <2>2. CASE x \in 1 .. Len(sent)
    BY <1>5, <1>11, <2>2 DEF MsgInv, KeptInv
  <2> QED
    BY <1>5, <2>1, <2>2
<1> QED
  BY <1>12, <1>13, <1>14, <1>15, <1>16, <1>17 DEF MsgInv

\* A Send puts its message into the queue or hands it to who waits for it.
LEMMA SendKeeps == ASSUME MsgInv, NEW p \in Peer, Send(p) PROVE MsgInv'
<1>1. at[p] = "sending" /\ ~Gone(p) /\ want[p].urgency \in Urgency
  BY DEF Send, MsgInv, PeerInv
<1>2. PICK u \in Urgency : u = want[p].urgency
  BY <1>1
<1>3. /\ sent' = Append(sent, [queue |-> handle[p], urgency |-> u])
      /\ UNCHANGED <<facility, auto, key, queues, removed, handle, nonblock>>
  BY <1>2 DEF Send
<1>4. CASE /\ Waiters(handle[p], u) = {} /\ Len(content[handle[p]]) < MaxMsg
           /\ \E k \in Place(handle[p], u) :
                content' = [content EXCEPT ![handle[p]] = InsertAt(@, k + 1, <<Len(sent) + 1, u>>)]
           /\ Ends({p}) /\ UNCHANGED received
  BY <1>1, <1>3, <1>4, PutKeeps
<1>5. CASE \E w \in Waiters(handle[p], u) :
              /\ received' = Append(received, Len(sent) + 1)
              /\ Ends({p, w}) /\ UNCHANGED content
  <2>1. PICK w \in Waiters(handle[p], u) :
              /\ received' = Append(received, Len(sent) + 1)
              /\ Ends({p, w}) /\ UNCHANGED content
    BY <1>5
  <2>2. w \in Peer /\ at[w] = "waiting"
    BY DEF Waiters
  <2> QED
    BY <1>1, <1>3, <2>1, <2>2, HandKeeps
<1> QED
  BY <1>2, <1>4, <1>5 DEF Send

\* What is received leaves its queue, and the rest stays.
LEMMA ReceiveKeeps == ASSUME MsgInv, NEW p \in Peer, Receive(p) PROVE MsgInv'
<1>1. PICK q \in Queue : q = handle[p]
  BY OpenQueue DEF Receive
<1>2. PICK s \in Seq(Message) : s = content[q] /\ s = Of(p) /\ SentTo(s, q) /\ Ordered(s)
  BY <1>1 DEF MsgInv, MsgTypeInv, ContentInv, Of
<1>3. PICK k \in 1 .. Len(s) : received' = Append(received, s[k][1])
                               /\ content' = [content EXCEPT ![handle[p]] = RemoveAt(@, k)]
  BY <1>2 DEF Receive, Takeable
<1>4. PICK n \in {s[k][1]} : n = s[k][1]
  OBVIOUS
<1>5. /\ at[p] = "receiving" /\ Ends({p})
      /\ UNCHANGED <<facility, auto, key, queues, removed, handle, nonblock, sent>>
  BY DEF Receive
<1>6. n \in 1 .. Len(sent)
  BY <1>2, <1>4 DEF SentTo
<1>7. ~Taken(n)
  BY <1>2, <1>4 DEF MsgInv, TakenInv
<1>8. /\ received' \in Seq(Nat)
      /\ \A m : Taken(m)' <=> Taken(m) \/ m = n
      /\ \A i \in 1 .. Len(received') : received'[i] \in 1 .. Len(sent')
      /\ \A i, j \in 1 .. Len(received') : received'[i] = received'[j] => i = j
  BY <1>3, <1>4, <1>5, <1>6, <1>7, ReceivedGrows
<1>9. PICK r \in Seq(Message) : r = RemoveAt(s, k) /\ Without(r, s, k)
  BY RemovedAt
<1>10. /\ content' \in [Queue -> Seq(Message)] /\ content'[q] = r
       /\ \A x \in Queue \ {q} : content'[x] = content[x]
  <2>1. content \in [Queue -> Seq(Message)]
    BY DEF MsgInv, MsgTypeInv
  <2>2. content' = [content EXCEPT ![q] = r]
    BY <1>1, <1>2, <1>3, <1>9, <2>1
  <2> QED
    BY <2>1, <2>2
<1>11. Len(s) \in Nat /\ k \in Nat /\ Len(r) = Len(s) - 1
  BY <1>9 DEF Without
<1>12. \A j \in 1 .. Len(r) : \E i \in 1 .. Len(s) : i # k /\ r[j] = s[i]
  <2> SUFFICES ASSUME NEW j \in 1 .. Len(r) PROVE \E i \in 1 .. Len(s) : i # k /\ r[j] = s[i]
    OBVIOUS
  <2>1. \/ j < k /\ j \in 1 .. Len(s) /\ r[j] = s[j]
        \/ j >= k /\ j + 1 \in 1 .. Len(s) /\ r[j] = s[j + 1]
    BY <1>9, WithoutFrom
  <2> QED
    BY <1>11, <2>1
<1>13. \A i \in 1 .. Len(s) : i = k \/ \E j \in 1 .. Len(r) : r[j] = s[i]
  <2> SUFFICES ASSUME NEW i \in 1 .. Len(s), i # k PROVE \E j \in 1 .. Len(r) : r[j] = s[i]
    OBVIOUS
  <2>1. CASE i < k
    <3>1. i \in 1 .. k - 1 /\ i \in 1 .. Len(r)
      BY <1>11, <2>1
    <3> QED
      BY <1>9, <3>1 DEF Without
  <2>2. CASE i > k
    <3>1. i - 1 \in k .. Len(s) - 1 /\ i - 1 \in 1 .. Len(r) /\ (i - 1) + 1 = i
      BY <1>11, <2>2
    <3>2. r[i - 1] = s[(i - 1) + 1]
      BY <1>9, <3>1 DEF Without
    <3> QED
      BY <3>1, <3>2
  <2> QED
    BY <1>11, <2>1, <2>2
\* Two messages of a queue have two numbers: with one number they would be sent alike, and
\* neither comes before the other.
<1>14. \A i \in 1 .. Len(s) : i # k => s[i][1] # n
  <2> SUFFICES ASSUME NEW i \in 1 .. Len(s), i # k, s[i][1] = s[k][1] PROVE FALSE
    BY <1>4
  <2>1. s[i][2] = s[k][2]
    BY <1>2 DEF SentTo
  <2>2. s[i] \in Message /\ s[k] \in Message
    OBVIOUS
  <2>3. s[i][1] \in Nat /\ s[i][2] \in Nat
    BY <2>2, MessageParts
  <2>4. Before(s[i], s[k]) \/ Before(s[k], s[i])
    BY <1>2, <1>11 DEF Ordered
  <2>5. PICK x \in Nat, y \in Nat : x = s[i][1] /\ x = s[k][1] /\ y = s[i][2] /\ y = s[k][2]
    BY <2>1, <2>3
  <2>6. (x < x) \/ (y > y)
    BY <2>4, <2>5 DEF Before
  <2> QED
    BY <2>6
<1>15. /\ at' \in [Peer -> {"out", "free", "sending", "receiving", "waiting"}] /\ want' \in [Peer -> Wish]
       /\ PeerInv'
       /\ \A x \in Peer : at'[x] = "waiting" => at[x] = "waiting" /\ want'[x] = want[x]
  BY <1>5, EndsDoes DEF MsgInv
<1>16. MsgTypeInv' /\ KeyInv'
  BY <1>5, <1>8, <1>10, <1>15 DEF MsgInv, MsgTypeInv, KeyInv
<1>17. WaitInv'
  <2> SUFFICES ASSUME NEW x \in Peer, at'[x] = "waiting", NEW i \in 1 .. Len(content'[handle[x]])
               PROVE  ~(want'[x].urgency \in {0, content'[handle[x]][i][2]})
    BY <1>5 DEF WaitInv, Of, Wants
  <2>1. at[x] = "waiting" /\ want'[x] = want[x] /\ handle[x] \in Queue
    BY <1>15, OpenQueue
  <2>2. \A j \in 1 .. Len(content[handle[x]]) : ~(want[x].urgency \in {0, content[handle[x]][j][2]})
    BY <2>1 DEF MsgInv, WaitInv, Of, Wants
  <2>3. CASE handle[x] = q
    <3>1. i \in 1 .. Len(r)
      BY <1>10, <2>3
    <3>2. PICK j \in 1 .. Len(s) : r[i] = s[j]
      BY <1>12, <3>1
    <3> QED
      BY <1>2, <1>10, <2>1, <2>2, <2>3, <3>2
  <2>4. CASE handle[x] # q
    BY <1>10, <2>1, <2>2, <2>4
  <2> QED
    BY <2>3, <2>4
<1>18. ContentInv'
  <2> SUFFICES ASSUME NEW x \in Queue
               PROVE  /\ Len(content'[x]) <= MaxMsg /\ (x \in removed => content'[x] = << >>)
                      /\ SentTo(content'[x], x) /\ Ordered(content'[x])
    BY <1>5 DEF ContentInv, SentTo, Ordered, Before
  <2>1. /\ Len(content[x]) <= MaxMsg /\ (x \in removed => content[x] = << >>)
        /\ SentTo(content[x], x) /\ Ordered(content[x])
    BY DEF MsgInv, ContentInv
  <2>2. CASE x = q
    <3>1. Len(r) <= MaxMsg
      <4>1. Len(s) <= MaxMsg
        BY <1>2, <2>1, <2>2
      <4> QED
        BY <1>11, <4>1, MsgAssumption
    <3>2. x \notin removed
      BY <1>1, <2>2 DEF Receive, Gone
    <3>3. SentTo(r, q)
      BY <1>2, <1>12 DEF SentTo
    <3>4. Ordered(r)
      BY <1>2, <1>9, WithoutOrdered
    <3> QED
      BY <1>10, <2>2, <3>1, <3>2, <3>3, <3>4
  <2>3. CASE x # q
    BY <1>10, <2>1, <2>3
  <2> QED
    BY <2>2, <2>3
<1>19. TakenInv'
  <2>1. ASSUME NEW x \in Queue, NEW i \in 1 .. Len(content'[x]), NEW j \in 1 .. Len(received')
        PROVE  received'[j] # content'[x][i][1]
    <3>1. PICK m : m = content'[x][i][1]
      OBVIOUS
    <3>2. ~Taken(m) /\ m # n
      <4>1. CASE x = q
        <5>1. i \in 1 .. Len(r)
          BY <1>10, <4>1
        <5>2. PICK h \in 1 .. Len(s) : h # k /\ r[i] = s[h]
          BY <1>12, <5>1
        <5>3. m = s[h][1]
          BY <1>10, <3>1, <4>1, <5>2
        <5>4. ~Taken(s[h][1])
          BY <1>2 DEF MsgInv, TakenInv
        <5> QED
          BY <1>14, <5>2, <5>3, <5>4
      <4>2. CASE x # q
        <5>1. i \in 1 .. Len(content[x]) /\ m = content[x][i][1]
          BY <1>10, <3>1, <4>2
        <5>2. ~Taken(m)
          BY <5>1 DEF MsgInv, TakenInv
        <5>3. sent[m].queue = x
          BY <5>1 DEF MsgInv, ContentInv, SentTo
        <5>4. sent[n].queue = q
          BY <1>2, <1>4 DEF SentTo
        <5> QED
          BY <4>2, <5>2, <5>3, <5>4
      <4> QED
        BY <4>1, <4>2
    <3>3. ~Taken(m)'
      BY <1>8, <3>2
    <3> QED
      BY <3>1, <3>3 DEF Taken
  <2> QED
    BY <1>8, <2>1 DEF TakenInv, Taken
<1>20. KeptInv'
  <2> SUFFICES ASSUME NEW x \in 1 .. Len(sent)
               PROVE  /\ sent[x].queue \in 1 .. queues
                      /\ In(x, content'[sent[x].queue]) \/ Taken(x)' \/ key # sent[x].queue
    BY <1>5 DEF KeptInv, Taken, In
  <2>1. PICK y : y = sent[x].queue
    OBVIOUS
  <2>2. y \in 1 .. queues /\ (In(x, content[y]) \/ Taken(x) \/ key # y)
    BY <2>1 DEF MsgInv, KeptInv
  <2>3. y \in Queue
    <3>1. queues \in 0 .. MaxQueue /\ MaxQueue \in Nat /\ y \in 1 .. queues
      BY <2>2, MsgAssumption DEF MsgInv, MsgTypeInv
    <3> QED
      BY <3>1 DEF Queue
  <2>4. In(x, content[y]) => In(x, content'[y]) \/ x = n
    <3>1. CASE y = q
      <4>1. content[y] = s /\ content'[y] = r
        BY <1>2, <1>10, <3>1
      <4>2. ASSUME NEW i \in 1 .. Len(s), s[i][1] = x, x # n PROVE In(x, r)
        <5>1. i # k
          BY <1>4, <4>2
        <5>2. PICK j \in 1 .. Len(r) : r[j] = s[i]
          BY <1>13, <5>1
        <5> QED
          BY <4>2, <5>2 DEF In
      <4> QED
        BY <4>1, <4>2 DEF In
    <3>2. CASE y # q
      BY <1>10, <2>3, <3>2
    <3> QED
      BY <3>1, <3>2
  <2> QED
    BY <1>8, <2>1, <2>2, <2>4
<1> QED
  BY <1>15, <1>16, <1>17, <1>18, <1>19, <1>20 DEF MsgInv

\* Every step keeps the invariant.
LEMMA MsgStep == MsgInv /\ [MsgNext]_queueVars => MsgInv'
<1> SUFFICES ASSUME MsgInv, [MsgNext]_queueVars PROVE MsgInv'
  OBVIOUS
<1>1. CASE MsgNext
  BY <1>1, CallsKeep, WaitsKeep, ConstructKeeps, DestructKeeps, SendKeeps, ReceiveKeeps DEF MsgNext, CallStep
<1>2. CASE UNCHANGED queueVars
  <2>1. UNCHANGED <<facility, auto, key, queues, removed, content, handle, nonblock, at, want, sent, received>>
    BY <1>2 DEF queueVars, callVars
  <2>2. PeerInv' /\ WaitInv'
    BY <2>1 DEF MsgInv, PeerInv, WaitInv, Of, Wants
  <2> QED
    BY <2>1, <2>2, QuietKeeps DEF MsgInv, MsgTypeInv
<1> QED
  BY <1>1, <1>2

\* The invariant of PosixMsgQ and SysVMsgQ.
LEMMA MsgInvariant == MsgSpec => []MsgInv
  BY MsgStart, MsgStep, PTL DEF MsgSpec

\* Processes and message queues agree: nobody sleeps for a message that is there, a queue that
\* is gone holds nothing, and no message is lost or received twice.
THEOREM MessagesKept == MsgSpec => []QueuesOK
<1>1. MsgInv => QueuesOK
  <2> SUFFICES ASSUME MsgInv PROVE QueuesOK
    OBVIOUS
  <2>1. key \in 0 .. queues /\ key \notin removed
    BY DEF MsgInv, MsgTypeInv, KeyInv
  <2>2. \A p \in Peer : /\ handle[p] \in 0 .. queues
                        /\ at[p] = "out" <=> handle[p] = 0
                        /\ at[p] = "waiting" => \A i \in 1 .. Len(Of(p)) : ~Wants(p, Of(p)[i][2])
    BY DEF MsgInv, MsgTypeInv, PeerInv, WaitInv
  <2>3. \A q \in Queue : Len(content[q]) <= MaxMsg /\ (q \in removed => content[q] = << >>)
    BY DEF MsgInv, ContentInv
  <2>4. ASSUME NEW n \in 1 .. Len(sent)
        PROVE  /\ In(n, content[sent[n].queue]) => ~Taken(n)
               /\ \A i, j \in 1 .. Len(received) : received[i] = n /\ received[j] = n => i = j
               /\ In(n, content[sent[n].queue]) \/ Taken(n) \/ (key # sent[n].queue /\ \E p \in Peer : auto[p])
    <3>1. PICK q : q = sent[n].queue
      OBVIOUS
    <3>2. q \in 1 .. queues /\ (In(n, content[q]) \/ Taken(n) \/ key # q)
      BY <3>1 DEF MsgInv, KeptInv
    <3>3. q \in Queue
      <4>1. queues \in 0 .. MaxQueue /\ MaxQueue \in Nat /\ q \in 1 .. queues
        BY <3>2, MsgAssumption DEF MsgInv, MsgTypeInv
      <4> QED
        BY <4>1 DEF Queue
    <3>4. In(n, content[q]) => ~Taken(n)
      BY <3>3 DEF MsgInv, TakenInv, In
    <3>5. key # q => \E p \in Peer : auto[p]
      BY <3>2 DEF MsgInv, KeyInv
    <3>6. \A i, j \in 1 .. Len(received) : received[i] = n /\ received[j] = n => i = j
      BY DEF MsgInv, TakenInv
    <3> QED
      BY <3>1, <3>2, <3>4, <3>5, <3>6
  <2>5. ASSUME NEW n \in 1 .. Len(sent)
        PROVE  LET taken == {i \in 1 .. Len(received) : received[i] = n}
                   q     == sent[n].queue
               IN /\ n \in Numbers(content[q]) => taken = {}
                  /\ \A i, j \in taken : i = j
                  /\ n \in Numbers(content[q]) \/ taken # {} \/ (key # q /\ \E p \in Peer : auto[p])
    <3>1. n \in Numbers(content[sent[n].queue]) <=> In(n, content[sent[n].queue])
      BY DEF Numbers, In
    <3>2. {i \in 1 .. Len(received) : received[i] = n} # {} <=> Taken(n)
      BY DEF Taken
    <3>3. \A i, j \in {i \in 1 .. Len(received) : received[i] = n} : i = j
      BY <2>4
    <3> QED
      BY <2>4, <3>1, <3>2, <3>3, Zenon
  <2>6. KeptUntilTaken
    BY <2>5, Zenon DEF KeptUntilTaken
  <2> QED
    BY <2>1, <2>2, <2>3, <2>6 DEF QueuesOK
<1> QED
  BY <1>1, MsgInvariant, PTL

\* What TakesTheFirst says of a step and a process.
TakesFirst(p) ==
    at[p] = "receiving" /\ Len(received') > Len(received) /\ at'[p] = "free" =>
        LET m == <<Last(received'), sent[Last(received')].urgency>>
        IN /\ Wants(p, m[2])
           /\ \A i \in 1 .. Len(Of(p)) :
                LET o == Of(p)[i]
                IN IF facility = "PosixMsgQ" THEN o[2] < m[2] \/ (o[2] = m[2] /\ o[1] >= m[1])
                   ELSE Wants(p, o[2]) => o[1] >= m[1]

\* A step that makes p receive something and end its call is its own Receive.
LEMMA OwnReceive ==
    ASSUME MsgInv, MsgNext, NEW p \in Peer,
           at[p] = "receiving", Len(received') > Len(received), at'[p] = "free"
    PROVE  Receive(p)
<1>1. PICK r \in Peer : \/ CallStep(r) \/ CallSend(r) \/ CallRecv(r) \/ Interrupted(r)
                        \/ Construct(r) \/ Destruct(r) \/ Setattr(r)
  BY DEF MsgNext
<1>2. received' # received
  <2>1. Len(received) \in Nat
    BY DEF MsgInv, MsgTypeInv
  <2> QED
    BY <2>1
<1>3. Send(r) \/ Receive(r)
  BY <1>1, <1>2 DEF CallStep, CallSend, CallRecv, Interrupted, Construct, Destruct, Setattr, Wait, Fails
<1>4. CASE Send(r)
  <2>1. PICK w \in Peer : at[w] = "waiting" /\ Ends({r, w}) /\ at[r] = "sending"
    BY <1>2, <1>4 DEF Send, Waiters
  <2>2. p \notin {r, w}
    BY <2>1
  <2>3. at'[p] = at[p]
    BY <2>1, <2>2 DEF Ends
  <2> QED
    BY <2>3
<1>5. CASE Receive(r)
  <2>1. Ends({r})
    BY <1>5 DEF Receive
  <2>2. p # r => at'[p] = at[p]
    BY <2>1 DEF Ends
  <2> QED
    BY <1>5, <2>2
<1> QED
  BY <1>3, <1>4, <1>5

\* What a Receive takes is the first its queue has for it: the queue is ordered.
LEMMA ReceivesFirst == ASSUME MsgInv, NEW p \in Peer, Receive(p) PROVE TakesFirst(p)
<1>1. PICK q \in Queue : q = handle[p]
  BY OpenQueue DEF Receive
<1>2. PICK s \in Seq(Message) : s = Of(p) /\ SentTo(s, q) /\ Ordered(s)
  BY <1>1 DEF MsgInv, MsgTypeInv, ContentInv, Of
<1>3. PICK k \in 1 .. Len(s) : /\ received' = Append(received, s[k][1])
                               /\ Wants(p, s[k][2]) /\ \A j \in 1 .. k - 1 : ~Wants(p, s[j][2])
  BY <1>2 DEF Receive, Takeable
<1>4. \A i \in 1 .. Len(s) : s[i][1] \in Nat /\ s[i][2] \in Nat
  <2> SUFFICES ASSUME NEW i \in 1 .. Len(s) PROVE s[i][1] \in Nat /\ s[i][2] \in Nat
    OBVIOUS
  <2>1. s[i] \in Message
    OBVIOUS
  <2> QED
    BY <2>1, MessageParts
<1>5. Last(received') = s[k][1]
  <2>1. received \in Seq(Nat)
    BY DEF MsgInv, MsgTypeInv
  <2> QED
    BY <1>3, <1>4, <2>1, AppendProperties DEF Last
<1>6. sent[s[k][1]].urgency = s[k][2]
  BY <1>2 DEF SentTo
<1>7. PICK m : m = <<Last(received'), sent[Last(received')].urgency>>
  OBVIOUS
<1>8. m[1] = s[k][1] /\ m[2] = s[k][2]
  BY <1>5, <1>6, <1>7
<1>9. facility \in {"PosixMsgQ", "SysVMsgQ"} /\ (facility = "PosixMsgQ" => want[p].urgency = 0)
  BY DEF MsgInv, MsgTypeInv, PeerInv, Facilities, Receive
<1>10. ASSUME NEW i \in 1 .. Len(s)
       PROVE  IF facility = "PosixMsgQ" THEN s[i][2] < m[2] \/ (s[i][2] = m[2] /\ s[i][1] >= m[1])
              ELSE Wants(p, s[i][2]) => s[i][1] >= m[1]
  <2>1. PICK x \in Nat, y \in Nat, a \in Nat, b \in Nat :
           x = s[i][1] /\ y = s[i][2] /\ a = m[1] /\ b = m[2]
    BY <1>4, <1>8
  <2>2. i < k => ~Wants(p, s[i][2])
    <3>1. i < k => i \in 1 .. k - 1
      OBVIOUS
    <3> QED
      BY <1>3, <3>1
  <2>3. i > k => Before(s[k], s[i])
    BY <1>2 DEF Ordered
  <2>4. i = k => x = a /\ y = b
    BY <1>8, <2>1
  <2>5. CASE facility = "SysVMsgQ"
    <3>1. i > k => a < x
      BY <1>8, <2>1, <2>3, <2>5 DEF Before
    <3>2. i < k \/ i >= k
      OBVIOUS
    <3>3. i >= k => x >= a
      BY <2>4, <3>1
    <3>4. Wants(p, s[i][2]) => x >= a
      BY <2>2, <3>2, <3>3
    <3> QED
      BY <2>1, <2>5, <3>4
  <2>6. CASE facility = "PosixMsgQ"
    <3>1. Wants(p, s[i][2])
      BY <1>9, <2>6 DEF Wants
    <3>2. ~(i < k)
      BY <2>2, <3>1
    <3>3. i > k => b > y \/ (b = y /\ a < x)
      BY <1>8, <2>1, <2>3, <2>6 DEF Before
    <3>4. i = k \/ i > k
      BY <3>2
    <3>5. y < b \/ (y = b /\ x >= a)
      BY <2>4, <3>3, <3>4
    <3> QED
      BY <2>1, <2>6, <3>5
  <2> QED
    BY <1>9, <2>5, <2>6
<1>11. Wants(p, m[2])
  BY <1>3, <1>8
<1> QED
  BY <1>2, <1>7, <1>10, <1>11 DEF TakesFirst

\* Who receives gets the oldest message of the greatest priority (POSIX), or the oldest of the
\* type it asked for (System V), however senders and receivers interleave.
THEOREM FirstTaken == MsgSpec => TakesTheFirst
<1>1. MsgInv /\ [MsgNext]_queueVars => [\A p \in Peer : TakesFirst(p)]_queueVars
  <2> SUFFICES ASSUME MsgInv, MsgNext, NEW p \in Peer PROVE TakesFirst(p)
    OBVIOUS
  <2>1. CASE at[p] = "receiving" /\ Len(received') > Len(received) /\ at'[p] = "free"
    BY <2>1, OwnReceive, ReceivesFirst
  <2>2. CASE ~(at[p] = "receiving" /\ Len(received') > Len(received) /\ at'[p] = "free")
    BY <2>2 DEF TakesFirst
  <2> QED
    BY <2>1, <2>2
<1> QED
  BY <1>1, MsgInvariant, PTL DEF MsgSpec, TakesTheFirst, TakesFirst

(***************************************************************************)
(* Descriptors over a pipe                                                 *)
(***************************************************************************)

PipeTypeInv ==
    /\ holds \subseteq File /\ passing \in Seq(Seq(File)) /\ has \in Seq(File)
    /\ Len(has) <= MaxOpen /\ known \in Nat /\ miscounted \in BOOLEAN

\* What the receiver does not know of it has miscounted.
CountedInv == ~miscounted => Len(has) <= known

PipeInv == PipeTypeInv /\ CountedInv /\ ToldIsOpen /\ AskedIsTold

\* The control buffer always has room for the descriptors it was made for.
LEMMA RoomEnough ==
    ASSUME NEW n \in 1 .. SumMax
    PROVE  Room(n) \in Nat /\ Room(n) >= n
BY PipeAssumption DEF Room

\* What is appended to a sequence is a suffix of it.
LEMMA SuffixOfConcat ==
    ASSUME NEW S, NEW s \in Seq(S), NEW t \in Seq(S)
    PROVE  IsSuffix(t, s \o t)
<1> DEFINE c == s \o t
<1>1. c \in Seq(S) /\ Len(c) = Len(s) + Len(t) /\ Len(s) \in Nat /\ Len(t) \in Nat
      /\ \A i \in 1 .. Len(t) : c[Len(s) + i] = t[i]
  <2>1. c \in Seq(S) /\ Len(c) = Len(s) + Len(t) /\ Len(s) \in Nat /\ Len(t) \in Nat
    BY ConcatProperties, LenProperties
  <2>2. ASSUME NEW i \in 1 .. Len(t) PROVE c[Len(s) + i] = t[i]
    BY <2>1, ConcatProperties
  <2> QED
    BY <2>1, <2>2
<1> HIDE DEF c
<1> DEFINE rt == Reverse(t)
           rc == Reverse(c)
<1>2. /\ rt = [i \in 1 .. Len(t) |-> t[(Len(t) - i) + 1]]
      /\ rc = [i \in 1 .. Len(c) |-> c[(Len(c) - i) + 1]]
  BY DEF Reverse
<1>3. rt \in Seq(S) /\ Len(rt) = Len(t) /\ \A i \in 1 .. Len(t) : rt[i] = t[(Len(t) - i) + 1]
  <2>1. \A i \in 1 .. Len(t) : t[(Len(t) - i) + 1] \in S
    BY <1>1
  <2>2. rt \in [1 .. Len(t) -> S]
    BY <1>2, <2>1
  <2> QED
    BY <1>1, <1>2, <2>2
<1>4. rc \in Seq(S) /\ Len(rc) = Len(c) /\ \A i \in 1 .. Len(c) : rc[i] = c[(Len(c) - i) + 1]
  <2>1. \A i \in 1 .. Len(c) : c[(Len(c) - i) + 1] \in S
    BY <1>1
  <2>2. rc \in [1 .. Len(c) -> S]
    BY <1>2, <2>1
  <2> QED
    BY <1>1, <1>2, <2>2
<1> HIDE DEF rt, rc
<1>5. ASSUME NEW i \in 1 .. Len(t) PROVE rt[i] = rc[i]
  <2>1. (Len(t) - i) + 1 \in 1 .. Len(t) /\ i \in 1 .. Len(c) /\ (Len(c) - i) + 1 = Len(s) + ((Len(t) - i) + 1)
    BY <1>1
  <2> QED
    BY <1>1, <1>3, <1>4, <2>1
<1>6. SubSeq(rt, 1, Len(rt)) = SubSeq(rc, 1, Len(rt))
  <2>1. Len(rt) <= Len(rc) /\ Len(rt) \in Nat
    BY <1>1, <1>3, <1>4
  <2>2. /\ SubSeq(rt, 1, Len(rt)) \in Seq(S) /\ SubSeq(rc, 1, Len(rt)) \in Seq(S)
        /\ Len(SubSeq(rt, 1, Len(rt))) = Len(rt) /\ Len(SubSeq(rc, 1, Len(rt))) = Len(rt)
        /\ \A i \in 1 .. Len(rt) : SubSeq(rt, 1, Len(rt))[i] = rt[i] /\ SubSeq(rc, 1, Len(rt))[i] = rc[i]
    BY <1>3, <1>4, <2>1
  <2> QED
    BY <1>3, <1>5, <2>2, SeqEqual
<1> QED
  BY <1>1, <1>3, <1>4, <1>6 DEF IsSuffix, IsPrefix, rt, rc, c

\* Whatever room recvmsg finds, the files it opens are the first of the message, and all
\* of them if there is room.
LEMMA InstalledPrefix ==
    ASSUME NEW fds \in Seq(File), NEW room \in Nat
    PROVE  /\ Installed(fds, room) \in Seq(File) /\ IsPrefix(Installed(fds, room), fds)
           /\ Len(Installed(fds, room)) <= room
           /\ room >= Len(fds) => Installed(fds, room) = fds
<1>1. PICK n \in 0 .. Len(fds) : /\ Installed(fds, room) = SubSeq(fds, 1, n)
                                 /\ (room >= Len(fds) => n = Len(fds)) /\ n <= room
  BY DEF Installed
<1> DEFINE came == SubSeq(fds, 1, n)
<1>2. came \in Seq(File) /\ Len(came) = n
  BY <1>1
<1>3. SubSeq(came, 1, n) = came
  BY <1>2
<1>4. n = Len(fds) => came = fds
  BY <1>2
<1> QED
  BY <1>1, <1>2, <1>3, <1>4 DEF IsPrefix

\* The constructor of SocketpairPipe.
LEMMA PipeStart == PipeInit => PipeInv
<1> SUFFICES ASSUME PipeInit PROVE PipeInv
  OBVIOUS
<1>1. /\ holds \subseteq File /\ passing = << >> /\ has = << >> /\ answer = << >>
      /\ due = FALSE /\ known = 0 /\ miscounted = FALSE
  BY DEF PipeInit
<1>2. PipeTypeInv
  <2>1. passing \in Seq(Seq(File)) /\ has \in Seq(File) /\ Len(has) <= MaxOpen
    BY <1>1, EmptySeq, PipeAssumption
  <2> QED
    BY <1>1, <2>1 DEF PipeTypeInv
<1>3. CountedInv /\ ToldIsOpen /\ AskedIsTold
  BY <1>1 DEF CountedInv, ToldIsOpen, AskedIsTold
<1> QED
  BY <1>2, <1>3 DEF PipeInv

\* What can be sent is an array of files.
LEMMA SendFdsKeeps == ASSUME PipeInv, SendFds PROVE PipeInv'
<1>1. PICK fds \in Arrays : passing' = Append(passing, fds) \/ passing' = passing
  BY DEF SendFds
<1>2. fds \in Seq(File)
  BY <1>1 DEF Arrays, PipeInv, PipeTypeInv
<1>3. UNCHANGED <<holds, has, answer, arrived, due, known, miscounted>>
  BY DEF SendFds
<1>4. passing' \in Seq(Seq(File))
  BY <1>1, <1>2 DEF PipeInv, PipeTypeInv
<1> QED
  BY <1>3, <1>4 DEF PipeInv, PipeTypeInv, CountedInv, ToldIsOpen, AskedIsTold

\* Told of as many files as came: the receiver knows them all.  Otherwise it was not due to
\* be told, for with places for them all the files of an array it asked for are opened.
LEMMA RecvFdsKeeps == ASSUME PipeInv, RecvFds PROVE PipeInv'
<1>1. PICK count \in 1 .. MaxArray, k \in 1 .. Len(passing), whole \in BOOLEAN :
        LET places == MaxOpen - Len(has)
            array  == passing[k]
            came   == Installed(array, Fitting(count, places))
            behind == SubSeq(passing, k + 1, Len(passing))
        IN /\ count <= SumMax
           /\ passing' = IF whole THEN behind ELSE << << >> >> \o behind
           /\ has' = has \o came
           /\ answer' = Told(came, count)
           /\ arrived' = array
           /\ due' = (count = Len(array) /\ places >= Len(array))
           /\ known' = IF answer' = <<"none">> THEN known ELSE known + Len(answer')
           /\ miscounted' = (miscounted \/ (array # << >> /\ ~due'))
  BY DEF RecvFds
<1> DEFINE array  == passing[k]
           places == MaxOpen - Len(has)
           room   == Fitting(count, places)
           came   == Installed(array, room)
           behind == SubSeq(passing, k + 1, Len(passing))
<1>2. /\ count <= SumMax /\ passing' = (IF whole THEN behind ELSE << << >> >> \o behind)
      /\ has' = has \o came /\ answer' = Told(came, count) /\ arrived' = array
      /\ due' = (count = Len(array) /\ places >= Len(array))
      /\ known' = (IF answer' = <<"none">> THEN known ELSE known + Len(answer'))
      /\ miscounted' = (miscounted \/ (array # << >> /\ ~due'))
  BY <1>1
<1>3. /\ count \in 1 .. SumMax /\ count \in Nat /\ holds' = holds
  BY <1>2, PipeAssumption DEF RecvFds
<1>4. /\ passing \in Seq(Seq(File)) /\ has \in Seq(File) /\ Len(has) \in Nat /\ known \in Nat
      /\ miscounted \in BOOLEAN /\ holds \subseteq File /\ Len(has) <= MaxOpen
  BY DEF PipeInv, PipeTypeInv
<1> HIDE DEF array, places, room, came, behind
<1>5. array \in Seq(File) /\ behind \in Seq(Seq(File)) /\ places \in Nat
  BY <1>4, PipeAssumption DEF array, places, behind
<1>6. passing' \in Seq(Seq(File))
  <2>1. << << >> >> \in Seq(Seq(File))
    BY EmptySeq
  <2>2. << << >> >> \o behind \in Seq(Seq(File))
    BY <1>5, <2>1, ConcatProperties
  <2> QED
    BY <1>2, <1>5, <2>2
<1>7. room \in Nat /\ room <= places /\ (places >= count => room >= count)
  <2>1. Room(count) \in Nat /\ Room(count) >= count
    BY <1>3, RoomEnough
  <2> QED
    BY <1>3, <1>5, <2>1, PipeAssumption DEF room, Fitting
<1>8. /\ came \in Seq(File) /\ IsPrefix(came, array) /\ Len(came) <= places
      /\ room >= Len(array) => came = array
  <2>1. /\ came \in Seq(File) /\ IsPrefix(came, array) /\ Len(came) <= room
        /\ room >= Len(array) => came = array
    BY <1>5, <1>7, InstalledPrefix DEF came
  <2>2. Len(came) \in Nat
    BY <2>1
  <2> QED
    BY <1>5, <1>7, <2>1, <2>2
<1>9. /\ has' \in Seq(File) /\ Len(has') = Len(has) + Len(came) /\ Len(came) \in Nat
      /\ Len(has') <= MaxOpen
  <2>1. has' \in Seq(File) /\ Len(has') = Len(has) + Len(came) /\ Len(came) \in Nat
    BY <1>2, <1>4, <1>8, ConcatProperties, LenProperties
  <2> QED
    BY <1>4, <1>8, <2>1, PipeAssumption DEF places
<1>10. due' => came = array /\ Len(came) = count
  <2>1. Len(array) \in Nat
    BY <1>5
  <2> QED
    BY <1>2, <1>3, <1>5, <1>7, <1>8, <2>1
<1>11. CASE Len(came) = count
  <2>1. answer' = came
    BY <1>2, <1>11 DEF Told
  <2>2. came # <<"none">>
    BY <1>3, <1>8, <1>11, PipeAssumption
  <2>3. known' = known + Len(came)
    BY <1>2, <2>1, <2>2
  <2>4. ToldIsOpen' /\ AskedIsTold'
    BY <1>2, <1>4, <1>8, <1>10, <2>1, SuffixOfConcat DEF ToldIsOpen, AskedIsTold
  <2>5. miscounted' \in BOOLEAN /\ (~miscounted' => ~miscounted)
    BY <1>2, <1>4
  <2>6. ~miscounted => Len(has) <= known
    BY DEF PipeInv, CountedInv
  <2>7. CountedInv' /\ known' \in Nat
    BY <1>4, <1>9, <2>3, <2>5, <2>6 DEF CountedInv
  <2> QED
    BY <1>2, <1>3, <1>4, <1>6, <1>9, <2>4, <2>5, <2>7 DEF PipeInv, PipeTypeInv
<1>12. CASE Len(came) # count
  <2>1. answer' = <<"none">> /\ known' = known /\ ~due'
    BY <1>2, <1>10, <1>12 DEF Told
  <2>2. ToldIsOpen' /\ AskedIsTold'
    BY <2>1 DEF ToldIsOpen, AskedIsTold
  <2>3. miscounted' \in BOOLEAN /\ (~miscounted' => ~miscounted /\ array = << >>)
    BY <1>2, <1>4, <2>1
  <2>4. array = << >> => Len(came) = 0
    <3>1. array = << >> => Len(array) = 0
      BY EmptySeq
    <3> QED
      BY <1>7, <1>8, <3>1
  <2>5. ~miscounted' => Len(has') = Len(has)
    BY <1>4, <1>9, <2>3, <2>4
  <2>6. CountedInv'
    BY <2>1, <2>3, <2>5 DEF PipeInv, CountedInv
  <2>7. PipeTypeInv'
    BY <1>2, <1>3, <1>4, <1>6, <1>9, <2>1, <2>3 DEF PipeInv, PipeTypeInv
  <2> QED
    BY <2>2, <2>6, <2>7, Zenon DEF PipeInv
<1> QED
  BY <1>11, <1>12

\* Every step keeps the invariant.
LEMMA PipeStep == PipeInv /\ [PipeNext]_pipeVars => PipeInv'
<1> SUFFICES ASSUME PipeInv, [PipeNext]_pipeVars PROVE PipeInv'
  OBVIOUS
<1>1. CASE CloseFile
  BY <1>1 DEF CloseFile, PipeInv, PipeTypeInv, CountedInv, ToldIsOpen, AskedIsTold
<1>2. CASE ClosePipe
  <2>1. passing' \in {passing, << >>} /\ UNCHANGED <<holds, has, answer, arrived, due, known, miscounted>>
    BY <1>2 DEF ClosePipe
  <2>2. passing' \in Seq(Seq(File))
    BY <2>1, EmptySeq DEF PipeInv, PipeTypeInv
  <2> QED
    BY <2>1, <2>2 DEF PipeInv, PipeTypeInv, CountedInv, ToldIsOpen, AskedIsTold
<1>3. CASE UNCHANGED pipeVars
  BY <1>3 DEF pipeVars, PipeInv, PipeTypeInv, CountedInv, ToldIsOpen, AskedIsTold
<1> QED
  BY <1>1, <1>2, <1>3, SendFdsKeeps, RecvFdsKeeps DEF PipeNext

\* What RecvFds tells of is open and is what was sent, in its order; if it asked for as many
\* as were sent, and the receiver has places for them, it tells of all; and a descriptor is
\* forgotten only by a RecvFds that asked for another number or had no places.
THEOREM FilesPassed == PipeSpec => []PipeOK
<1>1. PipeInv => PipeOK
  BY LenProperties DEF PipeInv, PipeTypeInv, CountedInv, PipeOK, NoneForgotten
<1> QED
  BY <1>1, PipeStart, PipeStep, PTL DEF PipeSpec

(***************************************************************************)
(* Segments and mapped files                                               *)
(***************************************************************************)

\* Segments and processes agree: the key stands for a segment that was not removed, and
\* who is past the shmget of a SysVShM holds the number of one with room for what it asked.
SegmentInv ==
    /\ memory \in {"segment", "file"}
    /\ segments \in 0 .. MaxSegment /\ segmentOf \in 0 .. segments /\ segmentOf \notin doomed
    /\ bytes \in [Segment -> Nat]
    /\ phase \in [Sharer -> {"out", "got", "using", "opened", "checked", "sized"}]
    /\ shmid \in [Sharer -> 0 .. segments]
    /\ asks \in [Sharer -> Bytes]
    /\ doomed \subseteq 1 .. segments
    /\ \A p \in Sharer : /\ phase[p] = "got" => memory = "segment"
                         /\ phase[p] \in {"opened", "checked", "sized"} => memory = "file"
                         /\ shmid[p] # 0 <=> memory = "segment" /\ phase[p] # "out"
                         /\ shmid[p] # 0 => asks[p] <= bytes[shmid[p]]

\* From fstat on a constructor knows a length the file has not fallen below, from its
\* ftruncate on the file is as long as it asked for, unless the file was overtaken.
FileInv ==
    /\ fileLength \in Nat /\ stSize \in [Sharer -> Nat] /\ overtaken \in BOOLEAN
    /\ \A p \in Sharer :
          /\ phase[p] = "checked" => stSize[p] <= fileLength \/ overtaken
          /\ memory = "file" /\ phase[p] \in {"sized", "using"} => asks[p] <= fileLength \/ overtaken

ShareInv == SegmentInv /\ FoundByKey /\ NoneLeftAttached /\ FileInv

\* The first step of the induction.
LEMMA ShareStart == ShareInit => ShareInv
<1> SUFFICES ASSUME ShareInit PROVE ShareInv
  OBVIOUS
<1>1. SegmentInv
  BY SegmentsAssumption DEF ShareInit, SegmentInv, Segment
<1>2. FoundByKey /\ NoneLeftAttached /\ FileInv
  BY DEF ShareInit, FoundByKey, NoneLeftAttached, FileInv
<1> QED
  BY <1>1, <1>2 DEF ShareInv

\* A step of p moves only p.
LEMMA MovesOnly ==
    ASSUME SegmentInv, NEW p \in Sharer, NEW from, NEW to, Moves(p, from, to)
    PROVE  phase[p] = from /\ phase'[p] = to /\ \A q \in Sharer \ {p} : phase'[q] = phase[q]
  BY DEF Moves, SegmentInv

\* shmget: a new segment is as large as asked for, and the old ones keep their size.
LEMMA ShmGetKeeps == ASSUME ShareInv, NEW p \in Sharer, ShmGet(p) PROVE ShareInv'
<1>1. /\ memory = "segment" /\ Moves(p, "out", "got")
      /\ shmid' = [shmid EXCEPT ![p] = segmentOf']
      /\ UNCHANGED <<memory, autoDetach, doomed, attachments, asked, asks>>
      /\ UNCHANGED <<fileLength, stSize, overtaken>>
  BY DEF ShmGet, fileVars
<1>2. SegmentInv
  BY DEF ShareInv
<1>3. phase[p] = "out" /\ phase'[p] = "got" /\ \A q \in Sharer \ {p} : phase'[q] = phase[q]
  BY <1>1, <1>2, MovesOnly
<1>4. shmid[p] = 0 /\ shmid'[p] = segmentOf' /\ \A q \in Sharer \ {p} : shmid'[q] = shmid[q]
  BY <1>1, <1>2, <1>3 DEF SegmentInv
<1>5. /\ segments' \in 0 .. MaxSegment /\ segmentOf' \in 1 .. segments' /\ segmentOf' \notin doomed
      /\ segments <= segments' /\ bytes' \in [Segment -> Nat]
      /\ asks[p] <= bytes'[segmentOf']
      /\ \A s \in 1 .. segments : bytes'[s] = bytes[s]
      /\ segmentOf' = segmentOf \/ segmentOf = 0
  <2>1. /\ segments \in 0 .. MaxSegment /\ segmentOf \in 0 .. segments /\ segmentOf \notin doomed
        /\ bytes \in [1 .. MaxSegment -> Nat] /\ doomed \subseteq 1 .. segments
        /\ asks[p] \in Nat /\ MaxSegment \in Nat
    BY <1>2, SegmentsAssumption DEF SegmentInv, Segment
  <2>2. CASE segments < MaxSegment /\ segmentOf = 0 /\ segments' = segments + 1 /\ segmentOf' = segments'
             /\ bytes' = [bytes EXCEPT ![segments'] = asks[p]]
    <3>1. segments' \in 1 .. MaxSegment /\ segments' \notin 1 .. segments /\ segments <= segments'
      BY <2>1, <2>2
    <3>2. segmentOf' \in 1 .. segments' /\ segmentOf' \notin doomed
      BY <2>1, <2>2, <3>1
    <3>3. bytes' \in [1 .. MaxSegment -> Nat] /\ bytes'[segments'] = asks[p]
          /\ \A s \in 1 .. segments : bytes'[s] = bytes[s]
      BY <2>1, <2>2, <3>1
    <3> QED
      BY <2>1, <2>2, <3>1, <3>2, <3>3 DEF Segment
  <2>3. CASE segmentOf # 0 /\ bytes[segmentOf] >= asks[p] /\ UNCHANGED <<segments, segmentOf, bytes>>
    BY <2>1, <2>3 DEF Segment
  <2> QED
    BY <2>2, <2>3 DEF ShmGet
<1>6. /\ shmid' \in [Sharer -> 0 .. segments']
      /\ phase' \in [Sharer -> {"out", "got", "using", "opened", "checked", "sized"}]
  BY <1>1, <1>2, <1>5 DEF SegmentInv, Moves
<1>7. ASSUME NEW q \in Sharer
      PROVE  /\ phase'[q] = "got" => memory = "segment"
             /\ phase'[q] \in {"opened", "checked", "sized"} => memory = "file"
             /\ shmid'[q] # 0 <=> memory = "segment" /\ phase'[q] # "out"
             /\ shmid'[q] # 0 => asks[q] <= bytes'[shmid'[q]]
  <2>1. CASE q = p
    BY <1>1, <1>3, <1>4, <1>5, <2>1
  <2>2. CASE q # p
    BY <1>2, <1>3, <1>4, <1>5, <2>2 DEF SegmentInv
  <2> QED
    BY <2>1, <2>2
<1>8. SegmentInv'
  BY <1>1, <1>2, <1>5, <1>6, <1>7, SegmentsAssumption DEF SegmentInv
<1>9. FoundByKey'
  BY <1>1, <1>2, <1>3, <1>4, <1>5 DEF ShareInv, FoundByKey, SegmentInv
<1>10. NoneLeftAttached'
  BY <1>1, <1>4 DEF ShareInv, NoneLeftAttached, Segment
<1>11. FileInv'
  BY <1>1, <1>3 DEF ShareInv, FileInv
<1> QED
  BY <1>8, <1>9, <1>10, <1>11 DEF ShareInv

\* shmat: the constructor ends with the segment attached, or without a segment.
LEMMA ShmAtKeeps == ASSUME ShareInv, NEW p \in Sharer, ShmAt(p) PROVE ShareInv'
<1>1. /\ UNCHANGED <<memory, autoDetach, segmentOf, segments, bytes, doomed, asked, asks>>
      /\ UNCHANGED <<fileLength, stSize, overtaken>>
      /\ \/ Moves(p, "got", "using") /\ attachments' = attachments \cup {<<p, shmid[p]>>} /\ shmid' = shmid
         \/ Moves(p, "got", "out") /\ Attached(shmid[p]) = {} /\ shmid' = [shmid EXCEPT ![p] = 0]
            /\ attachments' = attachments
  BY DEF ShmAt, fileVars, Freed
<1>2. SegmentInv
  BY DEF ShareInv
<1>3. CASE Moves(p, "got", "using") /\ attachments' = attachments \cup {<<p, shmid[p]>>} /\ shmid' = shmid
  <2>1. phase[p] = "got" /\ phase'[p] = "using" /\ \A q \in Sharer \ {p} : phase'[q] = phase[q]
    BY <1>2, <1>3, MovesOnly
  <2>2. SegmentInv'
    BY <1>1, <1>2, <1>3, <2>1 DEF SegmentInv, Moves
  <2>3. FoundByKey' /\ NoneLeftAttached'
    BY <1>1, <1>3, <2>1 DEF ShareInv, FoundByKey, NoneLeftAttached
  <2>4. FileInv'
    BY <1>1, <1>2, <2>1 DEF ShareInv, FileInv, SegmentInv
  <2> QED
    BY <2>2, <2>3, <2>4 DEF ShareInv
<1>4. CASE Moves(p, "got", "out") /\ Attached(shmid[p]) = {} /\ shmid' = [shmid EXCEPT ![p] = 0]
           /\ attachments' = attachments
  <2>1. phase[p] = "got" /\ phase'[p] = "out" /\ \A q \in Sharer \ {p} : phase'[q] = phase[q]
    BY <1>2, <1>4, MovesOnly
  <2>2. shmid'[p] = 0 /\ \A q \in Sharer \ {p} : shmid'[q] = shmid[q]
    BY <1>2, <1>4 DEF SegmentInv
  <2>3. SegmentInv'
    BY <1>1, <1>2, <1>4, <2>1, <2>2 DEF SegmentInv, Moves
  <2>4. FoundByKey'
    BY <1>1, <2>1, <2>2 DEF ShareInv, FoundByKey
  <2>5. NoneLeftAttached'
    BY <1>1, <1>4, <2>2 DEF ShareInv, NoneLeftAttached, Attached
  <2>6. FileInv'
    BY <1>1, <2>1 DEF ShareInv, FileInv
  <2> QED
    BY <2>3, <2>4, <2>5, <2>6 DEF ShareInv
<1> QED
  BY <1>1, <1>3, <1>4

\* IPC_RMID by p: the key may be freed, and who has the segment is told by asked.
LEMMA RmidDoes ==
    ASSUME SegmentInv, NEW p \in Sharer, shmid[p] # 0, Rmid(p)
    PROVE  /\ segmentOf' \in 0 .. segments /\ segmentOf' \notin doomed'
           /\ doomed' \subseteq 1 .. segments
           /\ segmentOf' = segmentOf \/ segmentOf = shmid[p]
<1>1. shmid[p] \in 1 .. segments /\ segments \in Nat /\ segmentOf \in 0 .. segments
  BY SegmentsAssumption DEF SegmentInv
<1>2. segmentOf \notin doomed /\ doomed \subseteq 1 .. segments /\ 0 \notin 1 .. segments
  BY DEF SegmentInv
<1>3. CASE doomed' = doomed /\ segmentOf' = segmentOf
  BY <1>1, <1>2, <1>3
<1>4. CASE doomed' = doomed \cup {shmid[p]} /\ segmentOf' = IF segmentOf = shmid[p] THEN 0 ELSE segmentOf
  <2>1. CASE segmentOf = shmid[p]
    <3>1. segmentOf' = 0 /\ doomed' \subseteq 1 .. segments
      BY <1>1, <1>2, <1>4, <2>1
    <3> QED
      BY <1>1, <1>2, <2>1, <3>1
  <2>2. CASE segmentOf # shmid[p]
    BY <1>1, <1>2, <1>4, <2>2
  <2> QED
    BY <2>1, <2>2
<1>5. CASE Freed(shmid[p])
  BY <1>3, <1>5 DEF Rmid
<1>6. CASE ~Freed(shmid[p])
  BY <1>4, <1>6 DEF Rmid
<1> QED
  BY <1>5, <1>6

\* Detach takes an attachment away.
LEMMA DetachKeeps == ASSUME ShareInv, NEW p \in Sharer, Detach(p) PROVE ShareInv'
<1>1. /\ attachments' = attachments \ {<<p, shmid[p]>>}
      /\ UNCHANGED <<memory, autoDetach, segmentOf, segments, bytes, doomed, asked, asks, shmid, phase>>
      /\ UNCHANGED <<fileLength, stSize, overtaken>>
  BY DEF Detach, ShmDt, fileVars
<1> QED
  BY <1>1 DEF ShareInv, SegmentInv, FoundByKey, NoneLeftAttached, FileInv

\* Remove is remembered in asked.
LEMMA RemoveKeeps == ASSUME ShareInv, NEW p \in Sharer, RemoveSegment(p) PROVE ShareInv'
<1>1. /\ memory = "segment" /\ phase[p] = "using" /\ Rmid(p) /\ asked' = asked \cup {shmid[p]}
      /\ UNCHANGED <<memory, autoDetach, segments, bytes, attachments, asks, shmid, phase>>
      /\ UNCHANGED <<fileLength, stSize, overtaken>>
  BY DEF RemoveSegment, fileVars
<1>2. SegmentInv /\ shmid[p] # 0
  BY <1>1 DEF ShareInv, SegmentInv
<1>3. /\ segmentOf' \in 0 .. segments /\ segmentOf' \notin doomed'
      /\ doomed' \subseteq 1 .. segments
      /\ segmentOf' = segmentOf \/ segmentOf = shmid[p]
  BY <1>1, <1>2, RmidDoes
<1>4. SegmentInv'
  BY <1>1, <1>2, <1>3 DEF SegmentInv
<1>5. FoundByKey'
  BY <1>1, <1>3 DEF ShareInv, FoundByKey
<1>6. NoneLeftAttached' /\ FileInv'
  BY <1>1 DEF ShareInv, NoneLeftAttached, FileInv
<1> QED
  BY <1>4, <1>5, <1>6 DEF ShareInv

\* The destructor: what was attached with _autoDetach goes, the others stay.
LEMMA LeaveKeeps == ASSUME ShareInv, NEW p \in Sharer, LeaveSegment(p) PROVE ShareInv'
<1>1. /\ memory = "segment" /\ Moves(p, "using", "out")
      /\ IF autoDetach[p] THEN attachments' = attachments \ {<<p, shmid[p]>>} ELSE attachments' = attachments
      /\ \/ Rmid(p) /\ asked' = asked \cup {shmid[p]}
         \/ UNCHANGED <<doomed, segmentOf, asked>>
      /\ shmid' = [shmid EXCEPT ![p] = 0]
      /\ UNCHANGED <<memory, autoDetach, segments, bytes, asks>>
      /\ UNCHANGED <<fileLength, stSize, overtaken>>
  BY DEF LeaveSegment, ShmDt, fileVars
<1>2. SegmentInv
  BY DEF ShareInv
<1>3. phase[p] = "using" /\ phase'[p] = "out" /\ \A q \in Sharer \ {p} : phase'[q] = phase[q]
  BY <1>1, <1>2, MovesOnly
<1>4. shmid[p] # 0 /\ shmid'[p] = 0 /\ \A q \in Sharer \ {p} : shmid'[q] = shmid[q]
  BY <1>1, <1>2, <1>3 DEF SegmentInv
<1>5. /\ segmentOf' \in 0 .. segments /\ segmentOf' \notin doomed'
      /\ doomed' \subseteq 1 .. segments /\ asked \subseteq asked'
      /\ segmentOf' = segmentOf \/ (segmentOf = shmid[p] /\ shmid[p] \in asked')
  <2>1. CASE Rmid(p) /\ asked' = asked \cup {shmid[p]}
    BY <1>2, <1>4, <2>1, RmidDoes
  <2>2. CASE UNCHANGED <<doomed, segmentOf, asked>>
    BY <1>2, <2>2 DEF SegmentInv
  <2> QED
    BY <1>1, <2>1, <2>2
<1>6. SegmentInv'
  BY <1>1, <1>2, <1>3, <1>4, <1>5 DEF SegmentInv, Moves
<1>7. FoundByKey'
  BY <1>1, <1>3, <1>4, <1>5 DEF ShareInv, FoundByKey
<1>8. NoneLeftAttached'
  BY <1>1, <1>4 DEF ShareInv, NoneLeftAttached
<1>9. FileInv'
  BY <1>1, <1>3 DEF ShareInv, FileInv
<1> QED
  BY <1>6, <1>7, <1>8, <1>9 DEF ShareInv

\* The steps of a MemMappedFile: the file only grows, or its constructor was overtaken.
LEMMA FileKeeps ==
    ASSUME ShareInv, NEW p \in Sharer,
           CloseZero(p) \/ OpenFile(p) \/ Fstat(p) \/ Enlarge(p) \/ MapFile(p) \/ UnmapFile(p)
    PROVE  ShareInv'
<1>1. /\ UNCHANGED <<memory, autoDetach, segmentOf, segments, bytes, doomed, attachments, shmid, asked, asks>>
      /\ \/ UNCHANGED phase
         \/ Moves(p, "out", "opened") /\ memory = "file"
         \/ Moves(p, "opened", "checked")
         \/ Moves(p, "checked", "sized") \/ Moves(p, "sized", "using")
         \/ Moves(p, "using", "out") /\ memory = "file"
  BY DEF CloseZero, OpenFile, Fstat, Enlarge, MapFile, UnmapFile, segVars
<1>2. SegmentInv
  BY DEF ShareInv
<1>3. /\ \A q \in Sharer \ {p} : phase'[q] = phase[q]
      /\ phase'[p] = phase[p] \/ memory = "file"
      /\ phase'[p] \in {"opened", "checked", "sized", "using", "out", phase[p]}
      /\ phase' \in [Sharer -> {"out", "got", "using", "opened", "checked", "sized"}]
  <2>1. CASE UNCHANGED phase
    BY <1>2, <2>1 DEF SegmentInv
  <2>2. CASE Moves(p, "out", "opened") /\ memory = "file"
    BY <1>2, <2>2, MovesOnly DEF SegmentInv, Moves
  <2>3. CASE Moves(p, "opened", "checked")
    BY <1>2, <2>3, MovesOnly DEF SegmentInv, Moves
  <2>4. CASE Moves(p, "checked", "sized")
    BY <1>2, <2>4, MovesOnly DEF SegmentInv, Moves
  <2>5. CASE Moves(p, "sized", "using")
    BY <1>2, <2>5, MovesOnly DEF SegmentInv, Moves
  <2>6. CASE Moves(p, "using", "out") /\ memory = "file"
    BY <1>2, <2>6, MovesOnly DEF SegmentInv, Moves
  <2> QED
    BY <1>1, <2>1, <2>2, <2>3, <2>4, <2>5, <2>6
<1>4. SegmentInv'
  BY <1>1, <1>2, <1>3 DEF SegmentInv
<1>5. FoundByKey' /\ NoneLeftAttached'
  BY <1>1, <1>2, <1>3 DEF ShareInv, FoundByKey, NoneLeftAttached, SegmentInv
<1>6. FileInv'
  <2>1. CASE Enlarge(p)
    <3>1. Moves(p, "checked", "sized") /\ stSize' = stSize
          /\ IF stSize[p] < asks[p]
             THEN fileLength' = asks[p] /\ overtaken' = (overtaken \/ stSize[p] # fileLength)
             ELSE UNCHANGED <<fileLength, overtaken>>
      BY <2>1 DEF Enlarge
    <3>2. phase[p] = "checked" /\ phase'[p] = "sized"
      BY <1>2, <3>1, MovesOnly
    <3>3. asks[p] \in Nat /\ stSize[p] \in Nat /\ fileLength \in Nat
          /\ (stSize[p] <= fileLength \/ overtaken)
      BY <1>2, <3>2, SegmentsAssumption DEF ShareInv, SegmentInv, FileInv
    <3>4. /\ fileLength' \in Nat /\ (fileLength <= fileLength' \/ overtaken')
          /\ (asks[p] <= fileLength' \/ overtaken') /\ (overtaken => overtaken') /\ overtaken' \in BOOLEAN
      <4>1. overtaken \in BOOLEAN
        BY DEF ShareInv, FileInv
      <4>2. CASE stSize[p] < asks[p]
        <5>1. fileLength' = asks[p] /\ (overtaken' <=> overtaken \/ stSize[p] # fileLength) /\ overtaken' \in BOOLEAN
          BY <3>1, <4>1, <4>2
        <5>2. CASE stSize[p] = fileLength
          BY <3>3, <4>2, <5>1, <5>2
        <5>3. CASE stSize[p] # fileLength
          BY <3>3, <5>1, <5>3
        <5> QED
          BY <5>2, <5>3
      <4>3. CASE ~(stSize[p] < asks[p])
        BY <3>1, <3>3, <4>1, <4>3
      <4> QED
        BY <4>2, <4>3
    <3>5. ASSUME NEW q \in Sharer
          PROVE  /\ phase'[q] = "checked" => stSize'[q] <= fileLength' \/ overtaken'
                 /\ memory' = "file" /\ phase'[q] \in {"sized", "using"} => asks'[q] <= fileLength' \/ overtaken'
      <4>1. CASE q = p
        BY <1>1, <3>2, <3>4, <4>1
      <4>2. CASE q # p
        <5>1. asks[q] \in Nat /\ stSize[q] \in Nat /\ phase'[q] = phase[q]
          BY <1>2, <1>3, <4>2, SegmentsAssumption DEF ShareInv, SegmentInv, FileInv
        <5>2. /\ phase[q] = "checked" => stSize[q] <= fileLength \/ overtaken
              /\ memory = "file" /\ phase[q] \in {"sized", "using"} => asks[q] <= fileLength \/ overtaken
          BY DEF ShareInv, FileInv
        <5> QED
          BY <1>1, <3>1, <3>3, <3>4, <5>1, <5>2
      <4> QED
        BY <4>1, <4>2
    <3> QED
      BY <3>1, <3>4, <3>5 DEF FileInv, ShareInv
  <2>2. CASE Fstat(p)
    <3>1. Moves(p, "opened", "checked") /\ stSize' = [stSize EXCEPT ![p] = fileLength]
          /\ UNCHANGED <<fileLength, overtaken>>
      BY <2>2 DEF Fstat
    <3>2. phase'[p] = "checked"
      BY <1>2, <3>1, MovesOnly
    <3> QED
      BY <1>1, <1>3, <3>1, <3>2 DEF ShareInv, FileInv
  <2>3. CASE ~Enlarge(p) /\ ~Fstat(p)
    <3>1. UNCHANGED <<fileLength, stSize, overtaken>>
      BY <2>3 DEF CloseZero, OpenFile, MapFile, UnmapFile, fileVars
    <3>2. \/ UNCHANGED phase \/ Moves(p, "out", "opened")
          \/ Moves(p, "sized", "using") \/ Moves(p, "using", "out")
      BY <2>3 DEF CloseZero, OpenFile, MapFile, UnmapFile
    <3>3. phase'[p] = phase[p] \/ phase'[p] \in {"opened", "out"} \/ (phase[p] = "sized" /\ phase'[p] = "using")
      BY <1>2, <3>2, MovesOnly
    <3> QED
      BY <1>1, <1>3, <3>1, <3>3 DEF ShareInv, FileInv
  <2> QED
    BY <2>1, <2>2, <2>3
<1> QED
  BY <1>4, <1>5, <1>6 DEF ShareInv

\* Every step keeps the invariant.
LEMMA ShareStep == ShareInv /\ [ShareNext]_sharedVars => ShareInv'
<1> SUFFICES ASSUME ShareInv, [ShareNext]_sharedVars PROVE ShareInv'
  OBVIOUS
<1>1. CASE ShareNext
  BY <1>1, ShmGetKeeps, ShmAtKeeps, DetachKeeps, RemoveKeeps, LeaveKeeps, FileKeeps DEF ShareNext
<1>2. CASE UNCHANGED sharedVars
  BY <1>2 DEF sharedVars, segVars, fileVars, ShareInv, SegmentInv, FoundByKey, NoneLeftAttached, FileInv
<1> QED
  BY <1>1, <1>2

\* The invariant of SysVShM and MemMappedFile.
LEMMA ShareInvariant == ShareSpec => []ShareInv
  BY ShareStart, ShareStep, PTL DEF ShareSpec

\* Who uses a SysVShM has a segment with the bytes it asked for, newcomers find the same one
\* by its key, and a segment stays attached only if its user left without _autoDetach.
THEOREM SegmentsShared == ShareSpec => []SegmentsOK
<1>1. ShareInv => SegmentsOK
  BY DEF ShareInv, SegmentInv, SegmentsOK
<1> QED
  BY <1>1, ShareInvariant, PTL

\* A mapped file is as long as its mappings, unless it changed between fstat and ftruncate
\* of a constructor of MemMappedFile.
THEOREM MappingsHeld == ShareSpec => []FileHoldsMapping
<1>1. ShareInv => FileHoldsMapping
  BY DEF ShareInv, FileInv, FileHoldsMapping
<1> QED
  BY <1>1, ShareInvariant, PTL

(***************************************************************************)
(* A circular queue found by name                                          *)
(***************************************************************************)

Places == {"out", "opened", "sized", "cleared", "attached", "inside", "killed"}

TypeInv ==
    /\ made \in 0 .. MaxObject /\ name \in 0 .. made
    /\ length \in [Object -> Size \cup {0}]
    /\ stage \in [Object -> {"zero", "cleared", "ready"}]
    /\ owner \in [Object -> Process \cup {NoProcess}]
    /\ pc \in [Process -> Places]
    /\ object \in [Process -> 0 .. made]
    /\ size \in [Process -> Size \cup {0}]
    /\ \A p \in Process : object[p] = 0 <=> pc[p] \in {"out", "killed"}

\* The objects whose users were warned by nobody.
Spoilt == early \cup rebuilt

\* Who uses a queue, or found it as a user, found it ready.
ReadyInv ==
    \A p \in Process :
        Using(p) \/ (p \in User /\ object[p] # 0) => object[p] \in Spoilt \/ stage[object[p]] = "ready"

\* Who is inside owns the mutex.
OwnerInv == \A p \in Process : pc[p] = "inside" => object[p] \in Spoilt \/ owner[object[p]] = p

\* While a creator makes mutex and fields nobody else has got that far.
BuildInv ==
    \A q \in Process :
        pc[q] = "cleared" =>
            \/ object[q] \in Spoilt
            \/ /\ stage[object[q]] = "cleared"
               /\ \A p \in Process \ {q} : object[p] = object[q] => p \in Creator /\ pc[p] \in {"opened", "sized"}

\* What is mapped is there.
LengthInv ==
    \A p \in Process :
        pc[p] \in {"sized", "cleared", "attached", "inside"} =>
            size[p] <= length[object[p]] \/ object[p] \in shrunk

ShmInv == TypeInv /\ ReadyInv /\ OwnerInv /\ BuildInv /\ LengthInv

USE ShmAssumption

------------------------------------------------------------------------------

\* Before the first constructor there is no object.
LEMMA ShmStart == Init => ShmInv
<1> SUFFICES ASSUME Init PROVE ShmInv
  OBVIOUS
<1>1. TypeInv
  BY DEF Init, TypeInv, Places, Object, Process
<1>2. ReadyInv /\ OwnerInv /\ BuildInv /\ LengthInv
  BY DEF Init, ReadyInv, OwnerInv, BuildInv, LengthInv, Using, Process
<1> QED
  BY <1>1, <1>2 DEF ShmInv

\* A process that has an object open has one that was made.
LEMMA ObjectMade ==
    ASSUME TypeInv, NEW p \in Process, object[p] # 0
    PROVE  object[p] \in Object /\ length[object[p]] \in Nat /\ size[p] \in Nat
<1>1. object[p] \in 0 .. made /\ made \in 0 .. MaxObject
  BY DEF TypeInv
<1>2. object[p] \in Object
  BY <1>1 DEF Object
<1>3. length[object[p]] \in Size \cup {0} /\ size[p] \in Size \cup {0}
  BY <1>2 DEF TypeInv
<1>4. ASSUME NEW z \in Size \cup {0} PROVE z \in Nat
  <2>1. Size \subseteq Nat
    OBVIOUS
  <2> QED
    BY <2>1
<1>5. length[object[p]] \in Nat
  BY <1>3, <1>4
<1>6. size[p] \in Nat
  BY <1>3, <1>4
<1> QED
  BY <1>2, <1>5, <1>6

\* shm_open.
LEMMA OpenKeeps == ASSUME ShmInv, NEW p \in Process, Open(p) PROVE ShmInv'
<1>1. PICK z \in Size : size' = [size EXCEPT ![p] = z]
  BY DEF Open
<1>2. /\ pc[p] = "out" /\ pc' = [pc EXCEPT ![p] = "opened"]
      /\ object' = [object EXCEPT ![p] = name']
      /\ early' = IF p \in User /\ stage[name] # "ready" THEN early \cup {name} ELSE early
      /\ UNCHANGED <<length, stage, owner, rebuilt, shrunk>>
  BY DEF Open, Goto
<1>3. /\ made' \in 0 .. MaxObject /\ made <= made' /\ name' \in 1 .. made'
      /\ name = 0 => p \in Creator
      /\ name # 0 => name' = name
  BY DEF Open, ShmOpen, ShmInv, TypeInv
<1>4. \A q \in Process \ {p} : pc'[q] = pc[q] /\ object'[q] = object[q] /\ size'[q] = size[q]
  BY <1>1, <1>2 DEF ShmInv, TypeInv
<1>5. pc'[p] = "opened" /\ object'[p] = name' /\ object'[p] # 0
  BY <1>2, <1>3 DEF ShmInv, TypeInv
<1>6. TypeInv'
  <2>1. object' \in [Process -> 0 .. made']
    BY <1>2, <1>3 DEF ShmInv, TypeInv
  <2>2. \A q \in Process : object'[q] = 0 <=> pc'[q] \in {"out", "killed"}
    BY <1>4, <1>5 DEF ShmInv, TypeInv
  <2> QED
    BY <1>1, <1>2, <1>3, <2>1, <2>2 DEF ShmInv, TypeInv, Places
<1>7. Spoilt \subseteq Spoilt'
  BY <1>2 DEF Spoilt
<1>8. ReadyInv'
  <2>1. p \in User => object'[p] \in Spoilt' \/ stage'[object'[p]] = "ready"
    BY <1>2, <1>3, <1>5 DEF Spoilt
  <2> QED
    BY <1>2, <1>4, <1>5, <1>7, <2>1 DEF ShmInv, ReadyInv, Using
<1>9. OwnerInv' /\ LengthInv'
  BY <1>2, <1>4, <1>5, <1>7 DEF ShmInv, OwnerInv, LengthInv
<1>10. BuildInv'
  <2> SUFFICES ASSUME NEW q \in Process, pc'[q] = "cleared", object'[q] \notin Spoilt'
               PROVE  /\ stage'[object'[q]] = "cleared"
                      /\ \A r \in Process \ {q} : object'[r] = object'[q] =>
                             r \in Creator /\ pc'[r] \in {"opened", "sized"}
    BY DEF BuildInv
  <2>1. q # p /\ pc[q] = "cleared" /\ object'[q] = object[q]
    BY <1>4, <1>5
  <2>2. /\ stage[object[q]] = "cleared"
        /\ \A r \in Process \ {q} : object[r] = object[q] => r \in Creator /\ pc[r] \in {"opened", "sized"}
    BY <2>1, <1>7 DEF ShmInv, BuildInv
  <2>3. object'[p] = object[q] => p \in Creator
    BY <1>2, <1>3, <1>5, <2>1, <2>2 DEF Spoilt, Process
  <2> QED
    BY <1>2, <1>4, <1>5, <2>1, <2>2, <2>3
<1> QED
  BY <1>6, <1>8, <1>9, <1>10 DEF ShmInv

\* ftruncate: who has a longer piece mapped is known to have lost some of it.
LEMMA FtruncateKeeps == ASSUME ShmInv, NEW p \in Process, Ftruncate(p) PROVE ShmInv'
<1>1. /\ pc[p] = "opened" /\ pc' = [pc EXCEPT ![p] = "sized"]
      /\ length' = [length EXCEPT ![object[p]] = size[p]]
      /\ shrunk' = IF size[p] < length[object[p]] THEN shrunk \cup {object[p]} ELSE shrunk
      /\ UNCHANGED <<name, made, stage, owner, object, size, early, rebuilt>>
  BY DEF Ftruncate, Goto
<1>2. TypeInv'
  BY <1>1, ObjectMade DEF ShmInv, TypeInv, Places
<1>3. ReadyInv' /\ OwnerInv' /\ BuildInv'
  BY <1>1 DEF ShmInv, TypeInv, ReadyInv, OwnerInv, BuildInv, Using, Spoilt, Process
<1>4. LengthInv'
  <2> SUFFICES ASSUME NEW q \in Process, pc'[q] \in {"sized", "cleared", "attached", "inside"}
               PROVE  size[q] <= length'[object[q]] \/ object[q] \in shrunk'
    BY <1>1 DEF LengthInv
  <2>1. object[p] \in Object /\ length[object[p]] \in Nat /\ size[p] \in Nat
    BY <1>1, ObjectMade DEF ShmInv, TypeInv
  <2>2. CASE q = p
    BY <1>1, <2>1, <2>2 DEF ShmInv, TypeInv
  <2>3. CASE q # p
    <3>1. pc[q] \in {"sized", "cleared", "attached", "inside"}
      BY <1>1, <2>3 DEF ShmInv, TypeInv
    <3>2. size[q] <= length[object[q]] \/ object[q] \in shrunk
      BY <3>1 DEF ShmInv, LengthInv
    <3>3. object[q] \in Object /\ length[object[q]] \in Nat /\ size[q] \in Nat
      BY <3>1, ObjectMade DEF ShmInv, TypeInv
    <3>4. CASE object[q] = object[p]
      BY <1>1, <2>1, <3>2, <3>3, <3>4 DEF ShmInv, TypeInv
    <3>5. CASE object[q] # object[p]
      BY <1>1, <3>2, <3>5 DEF ShmInv, TypeInv
    <3> QED
      BY <3>4, <3>5
  <2> QED
    BY <2>2, <2>3
<1> QED
  BY <1>2, <1>3, <1>4 DEF ShmInv

\* A process goes, and the name with it or not.
LEMMA GoneKeeps ==
    ASSUME ShmInv, NEW p \in Process, NEW place \in {"out", "killed"},
           pc' = [pc EXCEPT ![p] = place], object' = [object EXCEPT ![p] = 0],
           size' = [size EXCEPT ![p] = 0], name' \in {0, name},
           UNCHANGED <<made, length, stage, owner, early, rebuilt, shrunk>>
    PROVE  ShmInv'
<1>1. pc'[p] = place /\ object'[p] = 0
      /\ \A q \in Process \ {p} : pc'[q] = pc[q] /\ object'[q] = object[q] /\ size'[q] = size[q]
  BY DEF ShmInv, TypeInv
<1>2. TypeInv'
  <2>1. \A q \in Process : object'[q] = 0 <=> pc'[q] \in {"out", "killed"}
    BY <1>1 DEF ShmInv, TypeInv
  <2> QED
    BY <2>1 DEF ShmInv, TypeInv, Places
<1>3. ReadyInv' /\ OwnerInv' /\ LengthInv'
  BY <1>1 DEF ShmInv, ReadyInv, OwnerInv, LengthInv, Using, Spoilt
<1>4. BuildInv'
  <2> SUFFICES ASSUME NEW q \in Process, pc'[q] = "cleared", object'[q] \notin Spoilt'
               PROVE  /\ stage'[object'[q]] = "cleared"
                      /\ \A r \in Process \ {q} : object'[r] = object'[q] =>
                             r \in Creator /\ pc'[r] \in {"opened", "sized"}
    BY DEF BuildInv
  <2>1. q # p /\ object'[q] = object[q] /\ object[q] # 0
    BY <1>1 DEF ShmInv, TypeInv
  <2> QED
    BY <1>1, <2>1 DEF ShmInv, BuildInv, Spoilt
<1> QED
  BY <1>2, <1>3, <1>4 DEF ShmInv

\* The ways a process leaves: too small a size, the destructor, a kill.
LEMMA LeavesKeep ==
    ASSUME ShmInv, NEW p \in Process, TooSmall(p) \/ Destroy(p) \/ Kill(p) PROVE ShmInv'
<1>1. CASE TooSmall(p)
  BY <1>1, GoneKeeps DEF TooSmall, Release, ShmUnlink, Goto
<1>2. CASE Destroy(p)
  BY <1>2, GoneKeeps DEF Destroy, Release, ShmUnlink, Goto
<1>3. CASE Kill(p)
  BY <1>3, GoneKeeps DEF Kill, Goto, shmVars, history
<1> QED
  BY <1>1, <1>2, <1>3

\* memset, with others there or not.
LEMMA ClearKeeps == ASSUME ShmInv, NEW p \in Process, Clear(p) PROVE ShmInv'
<1> DEFINE o == object[p]
<1>1. /\ pc[p] = "sized" /\ pc' = [pc EXCEPT ![p] = "cleared"]
      /\ stage' = [stage EXCEPT ![o] = "cleared"]
      /\ owner' = [owner EXCEPT ![o] = NoProcess]
      /\ rebuilt' = IF HasOpen(o) # {p} THEN rebuilt \cup {o} ELSE rebuilt
      /\ UNCHANGED <<name, made, length, object, size, early, shrunk>> /\ p \in Creator
  BY DEF Clear, Goto
<1>2. TypeInv'
  BY <1>1 DEF ShmInv, TypeInv, Places
<1>3. LengthInv'
  BY <1>1 DEF ShmInv, TypeInv, LengthInv
<1>4. o \in Object /\ pc'[p] = "cleared"
      /\ \A q \in Process \ {p} : pc'[q] = pc[q]
  BY <1>1, ObjectMade DEF ShmInv, TypeInv
<1>5. o \notin Spoilt' => \A q \in Process \ {p} : object[q] # o
  BY <1>1 DEF Spoilt, HasOpen
<1>6. \A x \in Object \ {o} : stage'[x] = stage[x] /\ owner'[x] = owner[x]
  BY <1>1 DEF ShmInv, TypeInv
<1>7. stage'[o] = "cleared" /\ Spoilt \subseteq Spoilt'
  BY <1>1, <1>4 DEF ShmInv, TypeInv, Spoilt
<1>8. \A q \in Process : object[q] # 0 => object[q] \in Object
  BY ObjectMade DEF ShmInv
<1>9. ReadyInv'
  <2> SUFFICES ASSUME NEW q \in Process, Using(q)' \/ (q \in User /\ object[q] # 0),
                      object[q] \notin Spoilt'
               PROVE  stage'[object[q]] = "ready"
    BY <1>1 DEF ReadyInv
  <2>1. q # p
    BY <1>1, <1>4 DEF Using
  <2>2. (Using(q) \/ (q \in User /\ object[q] # 0)) /\ object[q] # o
    BY <1>1, <1>4, <1>5, <2>1 DEF Using
  <2>3. object[q] # 0
    BY <2>2 DEF Using, ShmInv, TypeInv
  <2> QED
    BY <1>6, <1>7, <1>8, <2>2, <2>3 DEF ShmInv, ReadyInv
<1>10. OwnerInv'
  <2> SUFFICES ASSUME NEW q \in Process, pc'[q] = "inside", object[q] \notin Spoilt'
               PROVE  owner'[object[q]] = q
    BY <1>1 DEF OwnerInv
  <2>1. q # p /\ pc[q] = "inside" /\ object[q] # o /\ object[q] # 0
    BY <1>4, <1>5 DEF ShmInv, TypeInv
  <2> QED
    BY <1>6, <1>7, <1>8, <2>1 DEF ShmInv, OwnerInv
<1>11. BuildInv'
  <2> SUFFICES ASSUME NEW q \in Process, pc'[q] = "cleared", object[q] \notin Spoilt'
               PROVE  /\ stage'[object[q]] = "cleared"
                      /\ \A r \in Process \ {q} : object[r] = object[q] =>
                             r \in Creator /\ pc'[r] \in {"opened", "sized"}
    BY <1>1 DEF BuildInv
  <2>1. CASE q = p
    BY <1>5, <1>7, <2>1
  <2>2. CASE q # p
    <3>1. pc[q] = "cleared" /\ object[q] # o /\ object[q] # 0
      BY <1>4, <1>5, <2>2 DEF ShmInv, TypeInv
    <3> QED
      BY <1>4, <1>6, <1>7, <1>8, <3>1 DEF ShmInv, BuildInv
  <2> QED
    BY <2>1, <2>2
<1> QED
  BY <1>2, <1>3, <1>9, <1>10, <1>11 DEF ShmInv

\* The mutex is made: nobody holds it in a queue that is not spoilt.
LEMMA BuildKeeps == ASSUME ShmInv, NEW p \in Process, Build(p) PROVE ShmInv'
<1> DEFINE o == object[p]
<1>1. /\ pc[p] = "cleared" /\ pc' = [pc EXCEPT ![p] = "attached"]
      /\ stage' = [stage EXCEPT ![o] = "ready"]
      /\ owner' = [owner EXCEPT ![o] = NoProcess]
      /\ UNCHANGED <<name, made, length, object, size, early, rebuilt, shrunk>>
  BY DEF Build, Goto, history
<1>2. TypeInv'
  BY <1>1 DEF ShmInv, TypeInv, Places
<1>3. LengthInv'
  BY <1>1 DEF ShmInv, TypeInv, LengthInv
<1>4. o \in Object /\ pc'[p] = "attached" /\ (\A q \in Process \ {p} : pc'[q] = pc[q]) /\ Spoilt' = Spoilt
  BY <1>1, ObjectMade DEF ShmInv, TypeInv, Spoilt
<1>5. ReadyInv'
  BY <1>1, <1>4 DEF ShmInv, TypeInv, ReadyInv, Using
<1>6. o \notin Spoilt => \A q \in Process \ {p} : object[q] = o => pc[q] \in {"opened", "sized"}
  BY <1>1 DEF ShmInv, BuildInv
<1>7. \A x \in Object \ {o} : stage'[x] = stage[x] /\ owner'[x] = owner[x]
  BY <1>1 DEF ShmInv, TypeInv
<1>8. \A q \in Process : object[q] # 0 => object[q] \in Object
  BY ObjectMade DEF ShmInv
<1>9. OwnerInv'
  <2> SUFFICES ASSUME NEW q \in Process, pc'[q] = "inside", object[q] \notin Spoilt
               PROVE  owner'[object[q]] = q
    BY <1>1, <1>4 DEF OwnerInv
  <2>1. q # p /\ pc[q] = "inside" /\ object[q] # o /\ object[q] # 0
    BY <1>4, <1>6 DEF ShmInv, TypeInv
  <2> QED
    BY <1>7, <1>8, <2>1 DEF ShmInv, OwnerInv
<1>10. BuildInv'
  <2> SUFFICES ASSUME NEW q \in Process, pc'[q] = "cleared", object[q] \notin Spoilt
               PROVE  /\ stage'[object[q]] = "cleared"
                      /\ \A r \in Process \ {q} : object[r] = object[q] =>
                             r \in Creator /\ pc'[r] \in {"opened", "sized"}
    BY <1>1, <1>4 DEF BuildInv
  <2>1. q # p /\ pc[q] = "cleared" /\ object[q] # o /\ object[q] # 0
    BY <1>4, <1>6 DEF ShmInv, TypeInv
  <2> QED
    BY <1>4, <1>7, <1>8, <2>1 DEF ShmInv, BuildInv
<1> QED
  BY <1>2, <1>3, <1>5, <1>9, <1>10 DEF ShmInv

\* A user attaches, a call takes the mutex and gives it back.
LEMMA UsesKeep ==
    ASSUME ShmInv, NEW p \in Process, Attach(p) \/ Enter(p) \/ Exit(p) PROVE ShmInv'
<1> DEFINE o == object[p]
<1>1. PICK place \in {"attached", "inside"} :
        /\ pc' = [pc EXCEPT ![p] = place] /\ pc[p] \in {"sized", "attached", "inside"}
        /\ pc[p] = "sized" => p \in User
        /\ \/ pc[p] = "sized" /\ place = "attached" /\ owner' = owner
           \/ pc[p] = "attached" /\ place = "inside" /\ owner' = [owner EXCEPT ![o] = p] /\ owner[o] = NoProcess
           \/ pc[p] = "inside" /\ place = "attached" /\ owner' = [owner EXCEPT ![o] = NoProcess]
        /\ UNCHANGED <<name, made, length, stage, object, size, early, rebuilt, shrunk>>
  BY DEF Attach, Enter, Exit, Goto, shmVars, history, Process
<1>2. o \in Object /\ o # 0 /\ pc'[p] = place /\ (\A q \in Process \ {p} : pc'[q] = pc[q]) /\ Spoilt' = Spoilt
  BY <1>1, ObjectMade DEF ShmInv, TypeInv, Spoilt
<1>3. TypeInv'
  BY <1>1, <1>2 DEF ShmInv, TypeInv, Places
<1>4. LengthInv' /\ ReadyInv'
  BY <1>1, <1>2 DEF ShmInv, LengthInv, ReadyInv, Using
<1>5. BuildInv'
  <2> SUFFICES ASSUME NEW q \in Process, pc'[q] = "cleared", object[q] \notin Spoilt
               PROVE  /\ stage[object[q]] = "cleared"
                      /\ \A r \in Process \ {q} : object[r] = object[q] =>
                             r \in Creator /\ pc'[r] \in {"opened", "sized"}
    BY <1>1, <1>2 DEF BuildInv
  <2>1. q # p /\ pc[q] = "cleared"
    BY <1>2
  <2>2. p \in Creator /\ pc[p] \in {"opened", "sized"} => FALSE
    BY <1>1
  <2> QED
    BY <1>2, <2>1, <2>2 DEF ShmInv, BuildInv
<1>6. OwnerInv'
  <2> SUFFICES ASSUME NEW q \in Process, pc'[q] = "inside", object[q] \notin Spoilt
               PROVE  owner'[object[q]] = q
    BY <1>1, <1>2 DEF OwnerInv
  <2>1. CASE q = p
    BY <1>1, <1>2, <2>1 DEF ShmInv, TypeInv
  <2>2. CASE q # p
    <3>1. pc[q] = "inside" /\ owner[object[q]] = q /\ q # NoProcess
      BY <1>2, <2>2 DEF ShmInv, OwnerInv, Process
    <3>2. object[q] = o => pc[p] = "sized"
      BY <1>1, <2>2, <3>1 DEF ShmInv, OwnerInv
    <3>3. CASE pc[p] = "sized"
      BY <1>1, <3>1, <3>3
    <3>4. CASE object[q] # o
      <4>1. object[q] \in Object
        BY <3>1, ObjectMade DEF ShmInv, TypeInv
      <4> QED
        BY <1>1, <3>1, <3>4, <4>1 DEF ShmInv, TypeInv
    <3> QED
      BY <3>2, <3>3, <3>4
  <2> QED
    BY <2>1, <2>2
<1> QED
  BY <1>3, <1>4, <1>5, <1>6 DEF ShmInv

\* Every step keeps the invariant.
LEMMA ShmStep == ShmInv /\ [Next]_vars => ShmInv'
<1> SUFFICES ASSUME ShmInv, [Next]_vars PROVE ShmInv'
  OBVIOUS
<1>1. ASSUME NEW p \in Process, Step(p) \/ Open(p) \/ Destroy(p) \/ Kill(p) PROVE ShmInv'
  BY <1>1, OpenKeeps, FtruncateKeeps, LeavesKeep, ClearKeeps, BuildKeeps, UsesKeep DEF Step
<1>2. CASE UNCHANGED vars
  BY <1>2 DEF vars, shmVars, history, ShmInv, TypeInv, ReadyInv, OwnerInv, BuildInv, LengthInv, Using, Spoilt
<1> QED
  BY <1>1, <1>2 DEF Next

\* A queue is used only when it is ready and by one process at a time, unless a
\* user came early or a second creator cleared it.
THEOREM QueueMadeOnce == Spec => []ShmOK
<1>1. ShmInv => ShmOK
  <2> SUFFICES ASSUME ShmInv PROVE ShmOK
    OBVIOUS
  <2>1. UsesReadyQueue /\ OneInside
    BY DEF ShmInv, ReadyInv, OwnerInv, UsesReadyQueue, OneInside, Spoilt
  <2> QED
    BY <2>1 DEF ShmOK, ShmInv, TypeInv
<1> QED
  BY <1>1, ShmStart, ShmStep, PTL DEF Spec

\* No access to a queue lies behind the end of its object, unless a constructor
\* came with a smaller memSize.
THEOREM MemoryIsThere == Spec => []MemoryThere
<1>1. ShmInv => MemoryThere
  <2> SUFFICES ASSUME ShmInv, NEW p \in Process, Using(p), size[p] > length[object[p]]
               PROVE  object[p] \in shrunk
    BY DEF MemoryThere
  <2>1. length[object[p]] \in Nat /\ size[p] \in Nat
    BY ObjectMade DEF ShmInv, TypeInv, Using
  <2>2. size[p] <= length[object[p]] \/ object[p] \in shrunk
    BY DEF ShmInv, LengthInv, Using
  <2> QED
    BY <2>1, <2>2
<1> QED
  BY <1>1, ShmStart, ShmStep, PTL DEF Spec

(***************************************************************************)
(* Sockets                                                                 *)
(***************************************************************************)

\* What a transfer has moved, in this call and before it.
Moved(tr) == tr.start + tr.hasDone + tr.part

\* A call that is under way has told nothing; what it has moved and is to move is in the buffer.
TransferInv(tr) ==
    /\ tr \in Transfer
    /\ tr.pc # "out" => tr.told = "none"
    /\ tr.pc # "move" => tr.part = 0 /\ tr.left = 0
    /\ Moved(tr) + tr.left <= Total
    /\ tr.told = "true" => tr.start + tr.hasDone = Total

SocketsTypeInv ==
    /\ blocking \in BOOLEAN /\ segsize \in Nat
    /\ connects \in Nat
    /\ link \in [Conn -> {"none", "pending", "accepted", "held", "dropped"}]
    /\ socket \in [Conn -> {"none", "open", "shut", "closed"}]
    /\ open \in [Conn -> BOOLEAN]
    /\ wire \in [Conn -> Seq(Nat)] /\ got \in [Conn -> Seq(Nat)]
    /\ others \in 0 .. MaxOther
    /\ send \in [Conn -> Transfer] /\ recv \in [Conn -> Transfer]

\* The connections are made one after the other, and have a Socket once they are accepted.
LinkInv ==
    \A c \in Conn :
        /\ c > connects => link[c] = "none"
        /\ link[c] = "accepted" <=> socket[c] # "none"
        /\ link[c] = "none" => /\ ~open[c] /\ wire[c] = <<>> /\ got[c] = <<>>
                               /\ send[c] = NoTransfer /\ recv[c] = NoTransfer

\* The spare descriptor is where AcceptAsync is.
ReserveInv ==
    /\ acceptor \in {"idle", "accept", "spare", "holding", "reopen", "reopen_break"}
    /\ ~gaveUp => \/ acceptor = "idle" /\ nullfd \in {"unset", "open", "missing"}
                  \/ acceptor = "accept" /\ nullfd \in {"open", "missing"}
                  \/ acceptor \in {"spare", "reopen", "reopen_break"} /\ nullfd = "closed"
                  \/ acceptor = "holding" /\ nullfd = "client"

\* What was received, g, and what is under way behind it, w, are the first bytes of
\* the buffer.
Stream(g, w) == /\ \A i \in 1 .. Len(g) : g[i] = i
                /\ \A i \in 1 .. Len(w) : w[i] = Len(g) + i

HasEnded(linked, sock) == sock \in {"shut", "closed"} \/ linked = "dropped"

\* One connection: its link, the server's Socket, the client's end, the bytes received
\* and under way, and the two transfers.
StreamAt(linked, sock, there, g, w, s, r) ==
    /\ TransferInv(s) /\ TransferInv(r) /\ r.part = 0
    /\ Moved(r) = Len(g)
    /\ there => Moved(s) = Len(g) + Len(w)
    /\ ~there => w = <<>> /\ r.pc = "out"
    /\ sock # "open" => s.pc = "out"
    /\ r.pc = "move" => w # <<>> \/ HasEnded(linked, sock)
    /\ r.told = "peerClosed" =>
           linked = "dropped" \/ (sock \in {"shut", "closed"} /\ Len(g) = s.start + s.hasDone)
    /\ Len(w) <= Capacity
    /\ Stream(g, w)

StreamInv == \A c \in Conn : StreamAt(link[c], socket[c], open[c], got[c], wire[c], send[c], recv[c])

SocketsInv == SocketsTypeInv /\ LinkInv /\ ReserveInv /\ Used <= MaxFd /\ StreamInv

\* The least of some numbers is one of them.
LEMMA MinIsLeast ==
  ASSUME NEW T, T \subseteq Nat, T # {}
  PROVE  Min(T) \in T /\ \A y \in T : Min(T) <= y
<1>1. \E x \in T : \A y \in T : x <= y
  BY LeastExists
<1> QED
  BY <1>1 DEF Min

\* The lesser of two numbers.
LEMMA MinOfTwo ==
  ASSUME NEW a \in Nat, NEW b \in Nat
  PROVE  Min({a, b}) \in Nat /\ Min({a, b}) <= a /\ Min({a, b}) <= b
<1>1. Min({a, b}) \in {a, b} /\ \A y \in {a, b} : Min({a, b}) <= y
  BY MinIsLeast
<1> QED
  BY <1>1

\* What the types of a transfer's parts are.
LEMMA TransferParts ==
  ASSUME NEW tr, TransferInv(tr)
  PROVE  /\ tr \in Transfer
         /\ tr.start \in Nat /\ tr.hasDone \in Nat /\ tr.part \in Nat /\ tr.left \in Nat
         /\ tr.start <= Total /\ tr.hasDone <= Total /\ tr.part <= Total /\ tr.left <= Total
         /\ tr.pc \in {"out", "wait", "move"} /\ tr.limited \in BOOLEAN
         /\ tr.start + tr.hasDone + tr.part + tr.left <= Total
         /\ Moved(tr) = tr.start + tr.hasDone + tr.part
         /\ tr.told \in {"none", "true", "false", "threw", "peerClosed"}
         /\ tr.pc # "out" => tr.told = "none"
         /\ tr.pc # "move" => tr.part = 0 /\ tr.left = 0
         /\ tr.told = "true" => tr.start + tr.hasDone = Total
<1>1. Total \in Nat
  BY SocketsAssumption
<1> QED
  BY <1>1 DEF TransferInv, Transfer, Moved

\* No transfer yet.
LEMMA NoTransferYet == TransferInv(NoTransfer) /\ Moved(NoTransfer) = 0 /\ NoTransfer.pc = "out"
                       /\ NoTransfer.told = "none" /\ NoTransfer.part = 0
<1>1. Total \in Nat
  BY SocketsAssumption
<1> QED
  BY <1>1 DEF TransferInv, Transfer, Moved, NoTransfer

\* A call begins where the last one ended.
LEMMA CallBegins ==
  ASSUME NEW tr, TransferInv(tr), MayCall(tr), NEW limited \in BOOLEAN
  PROVE  LET new == Call(tr, limited)
         IN /\ TransferInv(new) /\ Moved(new) = Moved(tr) /\ new.part = 0
            /\ new.pc \in {"out", "wait"} /\ new.told \in {"none", "true"}
<1> DEFINE new   == Call(tr, limited)
           start == tr.start + tr.hasDone
<1>1. Total \in Nat
  BY SocketsAssumption
<1>2. /\ tr \in Transfer /\ tr.start \in Nat /\ tr.hasDone \in Nat /\ tr.part = 0 /\ tr.left = 0
      /\ start <= Total /\ Moved(tr) = start /\ tr.pc = "out" /\ tr.limited \in BOOLEAN
  <2>1. tr.pc = "out"
    BY DEF MayCall
  <2> QED
    BY <2>1, <1>1, TransferParts
<1>4. start \in 0 .. Total /\ 0 \in 0 .. Total
  BY <1>1, <1>2
<1>3. /\ new \in Transfer /\ new.start = start /\ new.hasDone = 0 /\ new.part = 0 /\ new.left = 0
      /\ new.pc = (IF start = Total THEN "out" ELSE "wait")
      /\ new.told = (IF start = Total THEN "true" ELSE "none")
  BY <1>2, <1>4 DEF Call, Transfer
<1> HIDE DEF new
<1>5. /\ TransferInv(new) /\ Moved(new) = Moved(tr) /\ new.part = 0
      /\ new.pc \in {"out", "wait"} /\ new.told \in {"none", "true"}
  BY <1>1, <1>2, <1>3, <1>4 DEF TransferInv, Moved
<1> QED
  BY <1>5 DEF new

\* A piece is what is left, or less.
LEMMA PieceReady ==
  ASSUME NEW tr, TransferInv(tr), tr.pc = "wait", segsize \in Nat
  PROVE  LET new == Ready(tr)
         IN /\ TransferInv(new) /\ Moved(new) = Moved(tr) /\ new.part = 0
            /\ new.pc = "move" /\ new.told = "none"
<1> DEFINE new  == Ready(tr)
           rest == Total - tr.start - tr.hasDone
           left == IF segsize > 0 /\ segsize < rest THEN segsize ELSE rest
<1>1. Total \in Nat
  BY SocketsAssumption
<1>2. /\ tr \in Transfer /\ tr.start \in Nat /\ tr.hasDone \in Nat /\ tr.part = 0 /\ tr.left = 0
      /\ tr.start + tr.hasDone <= Total /\ Moved(tr) = tr.start + tr.hasDone /\ tr.limited \in BOOLEAN
      /\ tr.told = "none" /\ tr.start <= Total /\ tr.hasDone <= Total
  BY <1>1, TransferParts
<1>4. left \in 0 .. Total /\ tr.start + tr.hasDone + 0 + left <= Total /\ 0 \in 0 .. Total
  BY <1>1, <1>2
<1>0. new = [tr EXCEPT !.pc = "move", !.part = 0, !.left = left]
  BY DEF Ready
<1> HIDE DEF left, new
<1>3. /\ new \in Transfer /\ new.pc = "move" /\ new.start = tr.start /\ new.hasDone = tr.hasDone
      /\ new.part = 0 /\ new.left = left /\ new.told = tr.told
  BY <1>0, <1>2, <1>4 DEF Transfer
<1>5. new \in Transfer
  BY <1>3
<1>6. Moved(new) = tr.start + tr.hasDone /\ Moved(new) + new.left <= Total
  BY <1>1, <1>2, <1>3, <1>4 DEF Moved
<1>7. /\ TransferInv(new) /\ Moved(new) = Moved(tr) /\ new.part = 0
      /\ new.pc = "move" /\ new.told = "none"
  BY <1>2, <1>3, <1>5, <1>6 DEF TransferInv
<1> QED
  BY <1>7 DEF new

\* A call ends with no part of a piece uncounted.
LEMMA CallEnds ==
  ASSUME NEW tr, TransferInv(tr), tr.part = 0,
         NEW told \in {"none", "true", "false", "threw", "peerClosed"},
         told = "true" => tr.start + tr.hasDone = Total
  PROVE  LET new == Finished(tr, told)
         IN /\ TransferInv(new) /\ Moved(new) = Moved(tr) /\ new.part = 0
            /\ new.pc = "out" /\ new.told = told
            /\ new.start = tr.start /\ new.hasDone = tr.hasDone
<1> DEFINE new == Finished(tr, told)
<1>1. Total \in Nat
  BY SocketsAssumption
<1>2. /\ tr \in Transfer /\ tr.start \in Nat /\ tr.hasDone \in Nat
      /\ tr.start + tr.hasDone <= Total /\ Moved(tr) = tr.start + tr.hasDone
      /\ tr.start <= Total /\ tr.hasDone <= Total
  BY <1>1, TransferParts
<1>4. 0 \in 0 .. Total
  BY <1>1
<1>3. /\ new \in Transfer /\ new.pc = "out" /\ new.start = tr.start /\ new.hasDone = tr.hasDone
      /\ new.part = 0 /\ new.left = 0 /\ new.told = told
  BY <1>2, <1>4 DEF Finished, Transfer
<1>5. new \in Transfer
  BY <1>3
<1> HIDE DEF new
<1>6. Moved(new) = tr.start + tr.hasDone /\ Moved(new) + new.left <= Total
  BY <1>1, <1>2, <1>3 DEF Moved
<1>7. /\ TransferInv(new) /\ Moved(new) = Moved(tr) /\ new.part = 0
      /\ new.pc = "out" /\ new.told = told
      /\ new.start = tr.start /\ new.hasDone = tr.hasDone
  BY <1>2, <1>3, <1>5, <1>6 DEF TransferInv
<1> QED
  BY <1>7 DEF new

\* After a piece it is counted, whether the call goes on or not.
LEMMA PieceCounted ==
  ASSUME NEW tr, TransferInv(tr), tr.pc = "move", NEW k \in Nat, tr.start + tr.hasDone + k <= Total,
         NEW new \in AfterPiece(tr, k)
  PROVE  /\ TransferInv(new) /\ Moved(new) = tr.start + tr.hasDone + k /\ new.part = 0
         /\ new.pc \in {"out", "wait"} /\ new.told \in {"none", "true", "false"}
<1> DEFINE next == [tr EXCEPT !.hasDone = @ + k, !.limited = TRUE, !.pc = "wait", !.part = 0, !.left = 0]
<1>1. Total \in Nat
  BY SocketsAssumption
<1>2. /\ tr \in Transfer /\ tr.start \in Nat /\ tr.hasDone \in Nat /\ tr.told = "none"
      /\ tr.start <= Total /\ tr.hasDone <= Total
  BY <1>1, TransferParts
<1>4. tr.hasDone + k \in 0 .. Total /\ 0 \in 0 .. Total
  BY <1>1, <1>2
<1>3. /\ next \in Transfer /\ next.pc = "wait" /\ next.start = tr.start
      /\ next.hasDone = tr.hasDone + k /\ next.part = 0 /\ next.left = 0 /\ next.told = "none"
  BY <1>2, <1>4 DEF Transfer
<1>5. next \in Transfer
  BY <1>3
<1>6. Moved(next) = tr.start + tr.hasDone + k /\ Moved(next) + next.left <= Total
  BY <1>1, <1>2, <1>3 DEF Moved
<1>7. TransferInv(next) /\ next.part = 0 /\ next.pc = "wait" /\ next.told = "none"
      /\ next.start + next.hasDone = Moved(next)
  BY <1>1, <1>2, <1>3, <1>5, <1>6 DEF TransferInv
<1>8. \/ new = Finished(next, "false")
      \/ next.start + next.hasDone = Total /\ new = Finished(next, "true")
      \/ new = next
  BY DEF AfterPiece
<1> HIDE DEF next
<1>9. CASE new = next
  BY <1>6, <1>7, <1>9
<1>10. CASE new = Finished(next, "false")
  BY <1>6, <1>7, <1>10, CallEnds
<1>11. CASE next.start + next.hasDone = Total /\ new = Finished(next, "true")
  BY <1>6, <1>7, <1>11, CallEnds
<1> QED
  BY <1>8, <1>9, <1>10, <1>11

-----------------------------------------------------------------------------
(* One connection. *)

\* The parts of StreamAt that are about numbers.
LEMMA StreamParts ==
  ASSUME NEW linked, NEW sock, NEW there, NEW g \in Seq(Nat), NEW w \in Seq(Nat), NEW s, NEW r,
         StreamAt(linked, sock, there, g, w, s, r)
  PROVE  /\ TransferInv(s) /\ TransferInv(r) /\ r.part = 0
         /\ r.start + r.hasDone = Len(g) /\ r.start \in Nat /\ r.hasDone \in Nat
         /\ s.start \in Nat /\ s.hasDone \in Nat /\ s.part \in Nat /\ s.left \in Nat
         /\ Len(g) \in Nat /\ Len(w) \in Nat /\ Len(w) <= Capacity
         /\ there => s.start + s.hasDone + s.part = Len(g) + Len(w)
         /\ s.start + s.hasDone + s.part + s.left <= Total
         /\ r.start + r.hasDone + r.left <= Total
<1>1. TransferInv(s) /\ TransferInv(r) /\ r.part = 0 /\ Moved(r) = Len(g) /\ Len(w) <= Capacity
      /\ (there => Moved(s) = Len(g) + Len(w))
  BY DEF StreamAt
<1>2. Total \in Nat /\ Len(g) \in Nat /\ Len(w) \in Nat
  BY SocketsAssumption
<1>3. /\ s.start \in Nat /\ s.hasDone \in Nat /\ s.part \in Nat /\ s.left \in Nat
      /\ s.start + s.hasDone + s.part + s.left <= Total /\ Moved(s) = s.start + s.hasDone + s.part
  BY <1>1, TransferParts
<1>4. /\ r.start \in Nat /\ r.hasDone \in Nat /\ r.left \in Nat
      /\ r.start + r.hasDone + r.part + r.left <= Total /\ Moved(r) = r.start + r.hasDone + r.part
  BY <1>1, TransferParts
<1>5. r.start + r.hasDone = Len(g) /\ r.start + r.hasDone + r.left <= Total
  BY <1>1, <1>4
<1> QED
  BY <1>1, <1>2, <1>3, <1>4, <1>5

\* Two sequences of numbers, one after the other.
LEMMA NatsJoin ==
  ASSUME NEW a \in Seq(Nat), NEW b \in Seq(Nat)
  PROVE  /\ a \o b \in Seq(Nat) /\ Len(a \o b) = Len(a) + Len(b)
         /\ \A i \in 1 .. Len(a) + Len(b) : (a \o b)[i] = IF i <= Len(a) THEN a[i] ELSE b[i - Len(a)]
BY ConcatProperties

\* Bytes written are the next ones.
LEMMA StreamGrows ==
  ASSUME NEW g \in Seq(Nat), NEW w \in Seq(Nat), Stream(g, w), NEW k \in Nat
  PROVE  LET new == w \o [i \in 1 .. k |-> Len(g) + Len(w) + i]
         IN new \in Seq(Nat) /\ Len(new) = Len(w) + k /\ Stream(g, new)
<1> DEFINE piece == [i \in 1 .. k |-> Len(g) + Len(w) + i]
           new   == w \o piece
<1>1. Len(g) \in Nat /\ Len(w) \in Nat
  OBVIOUS
<1>2. piece \in Seq(Nat) /\ Len(piece) = k /\ \A i \in 1 .. k : piece[i] = Len(g) + Len(w) + i
  <2>1. piece \in [1 .. k -> Nat]
    BY <1>1
  <2> QED
    BY <2>1, <1>1
<1> HIDE DEF piece
<1>3. /\ new \in Seq(Nat) /\ Len(new) = Len(w) + k
      /\ \A i \in 1 .. Len(w) + k : new[i] = IF i <= Len(w) THEN w[i] ELSE piece[i - Len(w)]
  <2>1. /\ new \in Seq(Nat) /\ Len(new) = Len(w) + Len(piece)
        /\ \A i \in 1 .. Len(w) + Len(piece) :
               new[i] = IF i <= Len(w) THEN w[i] ELSE piece[i - Len(w)]
    BY <1>2, NatsJoin
  <2> QED
    BY <1>2, <2>1
<1>4. ASSUME NEW i \in 1 .. Len(w) + k PROVE new[i] = Len(g) + i
  <2>1. CASE i <= Len(w)
    BY <2>1, <1>1, <1>3 DEF Stream
  <2>2. CASE i > Len(w)
    <3>1. i - Len(w) \in 1 .. k /\ ~ (i <= Len(w)) /\ Len(w) + (i - Len(w)) = i
      BY <2>2, <1>1
    <3>2. new[i] = piece[i - Len(w)]
      BY <3>1, <1>3
    <3>3. piece[i - Len(w)] = Len(g) + Len(w) + (i - Len(w))
      BY <3>1, <1>2
    <3>4. Len(g) + Len(w) + (i - Len(w)) = Len(g) + i
      BY <1>1
    <3> QED
      BY <3>2, <3>3, <3>4
  <2>3. i <= Len(w) \/ i > Len(w)
    BY <1>1
  <2> QED
    BY <2>1, <2>2, <2>3
<1> HIDE DEF new
<1>5. Stream(g, new)
  BY <1>3, <1>4 DEF Stream
<1> QED
  BY <1>3, <1>5 DEF new, piece

\* Bytes read go from one sequence to the other.
LEMMA StreamMoves ==
  ASSUME NEW g \in Seq(Nat), NEW w \in Seq(Nat), Stream(g, w), NEW k \in 1 .. Len(w)
  PROVE  LET g2 == g \o SubSeq(w, 1, k)
             w2 == SubSeq(w, k + 1, Len(w))
         IN /\ g2 \in Seq(Nat) /\ Len(g2) = Len(g) + k
            /\ w2 \in Seq(Nat) /\ Len(w2) = Len(w) - k
            /\ Stream(g2, w2)
<1> DEFINE piece == SubSeq(w, 1, k)
           g2    == g \o piece
           w2    == SubSeq(w, k + 1, Len(w))
<1>1. Len(g) \in Nat /\ Len(w) \in Nat /\ k \in Nat /\ 1 <= k /\ k <= Len(w)
  OBVIOUS
<1>2. piece \in Seq(Nat) /\ Len(piece) = k /\ \A i \in 1 .. k : piece[i] = w[i]
  BY FirstPart
<1>3. w2 \in Seq(Nat) /\ Len(w2) = Len(w) - k /\ \A i \in 1 .. Len(w) - k : w2[i] = w[k + i]
  BY <1>1, LastPart
<1> HIDE DEF piece, w2
<1>4. /\ g2 \in Seq(Nat) /\ Len(g2) = Len(g) + k
      /\ \A i \in 1 .. Len(g) + k : g2[i] = IF i <= Len(g) THEN g[i] ELSE piece[i - Len(g)]
  <2>1. /\ g2 \in Seq(Nat) /\ Len(g2) = Len(g) + Len(piece)
        /\ \A i \in 1 .. Len(g) + Len(piece) :
               g2[i] = IF i <= Len(g) THEN g[i] ELSE piece[i - Len(g)]
    BY <1>2, NatsJoin
  <2> QED
    BY <1>2, <2>1
<1>5. ASSUME NEW i \in 1 .. Len(g) + k PROVE g2[i] = i
  <2>1. CASE i <= Len(g)
    BY <2>1, <1>1, <1>4 DEF Stream
  <2>2. CASE i > Len(g)
    <3>1. i - Len(g) \in 1 .. k /\ i - Len(g) \in 1 .. Len(w) /\ ~ (i <= Len(g)) /\ Len(g) + (i - Len(g)) = i
      BY <2>2, <1>1
    <3>2. g2[i] = piece[i - Len(g)]
      BY <3>1, <1>4
    <3>3. piece[i - Len(g)] = w[i - Len(g)]
      BY <3>1, <1>2
    <3>4. w[i - Len(g)] = Len(g) + (i - Len(g))
      BY <3>1 DEF Stream
    <3> QED
      BY <3>1, <3>2, <3>3, <3>4
  <2>3. i <= Len(g) \/ i > Len(g)
    BY <1>1
  <2> QED
    BY <2>1, <2>2, <2>3
<1>6. ASSUME NEW i \in 1 .. Len(w) - k PROVE w2[i] = Len(g) + k + i
  <2>1. k + i \in 1 .. Len(w) /\ Len(g) + (k + i) = Len(g) + k + i
    BY <1>1
  <2> QED
    BY <2>1, <1>3 DEF Stream
<1> HIDE DEF g2
<1>7. Stream(g2, w2)
  BY <1>3, <1>4, <1>5, <1>6 DEF Stream
<1> QED
  BY <1>3, <1>4, <1>7 DEF g2, w2, piece

\* What other operations do to the link and the Socket leaves the bytes as they are.
LEMMA StreamStays ==
  ASSUME NEW linked, NEW sock, NEW there \in BOOLEAN, NEW g, NEW w, NEW s, NEW r,
         StreamAt(linked, sock, there, g, w, s, r),
         NEW at2, NEW object2,
         at2 = linked \/ linked # "dropped",
         object2 = sock \/ sock = "none" \/ (sock \in {"open", "shut"} /\ s.pc = "out"
                                                   /\ object2 \in {"shut", "closed"})
  PROVE  StreamAt(at2, object2, there, g, w, s, r)
BY DEF StreamAt, HasEnded

\* The sender's transfer, and the bytes under way, change.
LEMMA SenderMoves ==
  ASSUME NEW linked, NEW sock, NEW there \in BOOLEAN, NEW g \in Seq(Nat), NEW w \in Seq(Nat), NEW s, NEW r,
         StreamAt(linked, sock, there, g, w, s, r),
         NEW w2 \in Seq(Nat), NEW s2, TransferInv(s2), sock = "open",
         Stream(g, w2), Len(w2) <= Capacity, w # <<>> => w2 # <<>>,
         there => Moved(s2) = Len(g) + Len(w2),
         ~there => w2 = <<>>
  PROVE  StreamAt(linked, sock, there, g, w2, s2, r)
BY DEF StreamAt, HasEnded

\* The receiver's transfer changes.
LEMMA ReceiverMoves ==
  ASSUME NEW linked, NEW sock, NEW there \in BOOLEAN, NEW g \in Seq(Nat), NEW w \in Seq(Nat), NEW s, NEW r,
         StreamAt(linked, sock, there, g, w, s, r), there,
         NEW r2, TransferInv(r2), r2.part = 0, Moved(r2) = Moved(r),
         r2.pc = "move" => w # <<>> \/ HasEnded(linked, sock),
         r2.told # "peerClosed"
  PROVE  StreamAt(linked, sock, there, g, w, s, r2)
BY DEF StreamAt

\* The receiver finds the end of the stream.
LEMMA ReceiverEnds ==
  ASSUME NEW linked, NEW sock, NEW there \in BOOLEAN, NEW g \in Seq(Nat), NEW w \in Seq(Nat), NEW s, NEW r,
         StreamAt(linked, sock, there, g, w, s, r), w = <<>>, r.pc = "move"
  PROVE  StreamAt(linked, sock, there, g, w, s, Finished(r, "peerClosed"))
<1> DEFINE r2 == Finished(r, "peerClosed")
<1>1. Len(w) = 0
  BY EmptySeq
<1>2. there /\ HasEnded(linked, sock)
  BY DEF StreamAt
<1>7. /\ TransferInv(r) /\ TransferInv(s) /\ r.part = 0 /\ s.start \in Nat /\ s.hasDone \in Nat
      /\ s.part \in Nat /\ Len(g) \in Nat /\ (there => s.start + s.hasDone + s.part = Len(g) + Len(w))
  <2>1. TransferInv(r) /\ TransferInv(s) /\ r.part = 0 /\ (there => Moved(s) = Len(g) + Len(w))
    BY DEF StreamAt
  <2>2. Len(g) \in Nat
    OBVIOUS
  <2> QED
    BY <2>1, <2>2, TransferParts
<1>3. TransferInv(r) /\ TransferInv(s) /\ r.part = 0 /\ s.start \in Nat /\ s.hasDone \in Nat
      /\ Len(g) \in Nat /\ s.start + s.hasDone + s.part = Len(g)
  BY <1>1, <1>2, <1>7
<1>4. TransferInv(r2) /\ r2.part = 0 /\ Moved(r2) = Moved(r) /\ r2.pc = "out" /\ r2.told = "peerClosed"
  BY <1>3, CallEnds
<1>5. sock \in {"shut", "closed"} => Len(g) = s.start + s.hasDone
  <2>1. SUFFICES ASSUME sock \in {"shut", "closed"} PROVE s.part = 0
    BY <1>3
  <2>2. s.pc = "out"
    BY <2>1 DEF StreamAt
  <2> QED
    BY <2>2, <1>3, TransferParts
<1> HIDE DEF r2
<1>6. StreamAt(linked, sock, there, g, w, s, r2)
  BY <1>2, <1>4, <1>5 DEF StreamAt, HasEnded
<1> QED
  BY <1>6 DEF r2

\* The client closes its end.
LEMMA ClientCloses ==
  ASSUME NEW linked, NEW sock, NEW there \in BOOLEAN, NEW g \in Seq(Nat), NEW w \in Seq(Nat), NEW s, NEW r,
         StreamAt(linked, sock, there, g, w, s, r), r.pc = "out"
  PROVE  StreamAt(linked, sock, FALSE, g, <<>>, s, r)
<1>1. << >> \in Seq(Nat) /\ Len(<< >>) = 0 /\ Capacity \in Nat
  BY EmptySeq, SocketsAssumption
<1>2. Stream(g, <<>>)
  BY <1>1 DEF StreamAt, Stream
<1> QED
  BY <1>1, <1>2 DEF StreamAt

-----------------------------------------------------------------------------
(* The transfers. *)

LEMMA SocketsStart == SocketsInit => SocketsInv
<1> SUFFICES ASSUME SocketsInit PROVE SocketsInv
  OBVIOUS
<1> USE DEF SocketsInit
<1>1. Sum \in Nat /\ Total \in Nat /\ Capacity \in Nat /\ SegSize \subseteq Nat /\ MaxOther \in Nat /\ MaxFd \in Nat
      /\ MaxOther <= MaxFd
  BY SocketsAssumption
<1>2. TransferInv(NoTransfer) /\ Moved(NoTransfer) = 0 /\ NoTransfer.pc = "out" /\ NoTransfer.told = "none"
      /\ NoTransfer.part = 0 /\ NoTransfer \in Transfer
  BY NoTransferYet DEF TransferInv
<1>3. << >> \in Seq(Nat) /\ Len(<< >>) = 0
  BY EmptySeq
<1>4. SocketsTypeInv
  BY <1>1, <1>2, <1>3 DEF SocketsTypeInv
<1>5. LinkInv
  BY <1>1 DEF LinkInv, Conn
<1>6. ReserveInv
  BY DEF ReserveInv
<1>7. Used <= MaxFd
  <2>1. {c \in Conn : socket[c] \in {"open", "shut"}} = {}
    OBVIOUS
  <2>2. Cardinality({c \in Conn : socket[c] \in {"open", "shut"}}) = 0
    BY <2>1, FS_EmptySet
  <2>3. others \in Nat /\ others <= MaxFd
    BY <1>1
  <2> QED
    BY <2>2, <2>3, <1>1 DEF Used
<1>8. Stream(<<>>, <<>>)
  BY <1>3 DEF Stream
<1>9. StreamAt("none", "none", FALSE, <<>>, <<>>, NoTransfer, NoTransfer)
  BY <1>1, <1>2, <1>3, <1>8 DEF StreamAt
<1>10. StreamInv
  BY <1>9 DEF StreamInv
<1> QED
  BY <1>4, <1>5, <1>6, <1>7, <1>10 DEF SocketsInv

\* What is so of one connection.
LEMMA AtConn ==
  ASSUME SocketsInv, NEW c \in Conn
  PROVE  /\ StreamAt(link[c], socket[c], open[c], got[c], wire[c], send[c], recv[c])
         /\ open[c] \in BOOLEAN /\ got[c] \in Seq(Nat) /\ wire[c] \in Seq(Nat)
         /\ send[c] \in Transfer /\ recv[c] \in Transfer
         /\ TransferInv(send[c]) /\ TransferInv(recv[c])
         /\ segsize \in Nat
         /\ link[c] = "accepted" <=> socket[c] # "none"
         /\ link[c] = "none" => /\ ~open[c] /\ wire[c] = <<>> /\ got[c] = <<>>
                                /\ send[c] = NoTransfer /\ recv[c] = NoTransfer
<1>1. StreamAt(link[c], socket[c], open[c], got[c], wire[c], send[c], recv[c])
  BY DEF SocketsInv, StreamInv
<1> QED
  BY <1>1 DEF SocketsInv, SocketsTypeInv, LinkInv, StreamAt

\* A step of a transfer on connection c changes nothing else.
TransferOnly(c) ==
    /\ UNCHANGED <<modes, listening, connects, link, socket, open, others, acceptVars>>
    /\ \A d \in Conn : d # c => /\ got'[d] = got[d] /\ wire'[d] = wire[d]
                                /\ send'[d] = send[d] /\ recv'[d] = recv[d]

LEMMA TransferKeeps ==
  ASSUME SocketsInv, NEW c \in Conn, TransferOnly(c), link[c] # "none",
         got' \in [Conn -> Seq(Nat)], wire' \in [Conn -> Seq(Nat)],
         send' \in [Conn -> Transfer], recv' \in [Conn -> Transfer],
         StreamAt(link[c], socket[c], open[c], got'[c], wire'[c], send'[c], recv'[c])
  PROVE  SocketsInv'
<1>1. /\ UNCHANGED <<blocking, segsize, connects, link, socket, open, others, nullfd, acceptor, gaveUp>>
      /\ \A d \in Conn : d # c => /\ got'[d] = got[d] /\ wire'[d] = wire[d]
                                  /\ send'[d] = send[d] /\ recv'[d] = recv[d]
  BY DEF TransferOnly, modes, acceptVars
<1>2. SocketsTypeInv'
  BY <1>1 DEF SocketsInv, SocketsTypeInv
<1>3. LinkInv'
  <2>1. \A d \in Conn : /\ d > connects => link[d] = "none"
                        /\ link[d] = "accepted" <=> socket[d] # "none"
                        /\ link[d] = "none" => /\ ~open[d] /\ wire[d] = <<>> /\ got[d] = <<>>
                                               /\ send[d] = NoTransfer /\ recv[d] = NoTransfer
    BY DEF SocketsInv, LinkInv
  <2> QED
    BY <1>1, <2>1 DEF LinkInv
<1>4. ReserveInv'
  BY <1>1 DEF SocketsInv, ReserveInv
<1>5. (Used <= MaxFd)'
  BY <1>1 DEF SocketsInv, Used
<1>6. \A d \in Conn : StreamAt(link[d], socket[d], open[d], got[d], wire[d], send[d], recv[d])
  BY DEF SocketsInv, StreamInv
<1>7. \A d \in Conn : StreamAt(link'[d], socket'[d], open'[d], got'[d], wire'[d], send'[d], recv'[d])
  BY <1>1, <1>6
<1>8. StreamInv'
  BY <1>7 DEF StreamInv
<1> QED
  BY <1>2, <1>3, <1>4, <1>5, <1>8 DEF SocketsInv

\* The sender's transfer changes, and perhaps the bytes under way.
LEMMA SendChanges ==
  ASSUME SocketsInv, NEW c \in Conn, socket[c] = "open",
         UNCHANGED <<sendUnchanged, socket, open, got, recv>>,
         NEW w \in Seq(Nat), wire' = [wire EXCEPT ![c] = w], Len(w) <= Capacity,
         Stream(got[c], w), wire[c] # <<>> => w # <<>>,
         NEW s, TransferInv(s), send' = [send EXCEPT ![c] = s],
         open[c] => Moved(s) = Len(got[c]) + Len(w), ~open[c] => w = <<>>
  PROVE  SocketsInv'
<1>1. /\ StreamAt(link[c], socket[c], open[c], got[c], wire[c], send[c], recv[c])
      /\ open[c] \in BOOLEAN /\ got[c] \in Seq(Nat) /\ wire[c] \in Seq(Nat) /\ link[c] = "accepted"
  BY AtConn
<1>2. StreamAt(link[c], socket[c], open[c], got[c], w, s, recv[c])
  BY <1>1, SenderMoves
<1>3. s \in Transfer
  BY DEF TransferInv
<1>4. /\ send \in [Conn -> Transfer] /\ recv \in [Conn -> Transfer]
      /\ got \in [Conn -> Seq(Nat)] /\ wire \in [Conn -> Seq(Nat)]
  BY DEF SocketsInv, SocketsTypeInv
<1>5. /\ send' \in [Conn -> Transfer] /\ wire' \in [Conn -> Seq(Nat)] /\ send'[c] = s /\ wire'[c] = w
      /\ got' = got /\ recv' = recv
      /\ \A d \in Conn : d # c => wire'[d] = wire[d] /\ send'[d] = send[d]
  BY <1>3, <1>4
<1>6. TransferOnly(c)
  BY <1>5 DEF TransferOnly, sendUnchanged
<1>7. StreamAt(link[c], socket[c], open[c], got'[c], wire'[c], send'[c], recv'[c])
  BY <1>2, <1>5
<1> QED
  BY <1>1, <1>4, <1>5, <1>6, <1>7, TransferKeeps

\* The sender's transfer changes, the bytes do not.
LEMMA SendGoesOn ==
  ASSUME SocketsInv, NEW c \in Conn, socket[c] = "open",
         UNCHANGED <<sendUnchanged, socket, open, wire, got, recv>>,
         NEW s, TransferInv(s), Moved(s) = Moved(send[c]), send' = [send EXCEPT ![c] = s]
  PROVE  SocketsInv'
<1>1. /\ StreamAt(link[c], socket[c], open[c], got[c], wire[c], send[c], recv[c]) /\ wire[c] \in Seq(Nat)
  BY AtConn
<1>2. /\ Len(wire[c]) <= Capacity /\ Stream(got[c], wire[c])
      /\ (open[c] => Moved(send[c]) = Len(got[c]) + Len(wire[c])) /\ (~open[c] => wire[c] = <<>>)
  BY <1>1 DEF StreamAt
<1>3. wire' = [wire EXCEPT ![c] = wire[c]]
  BY DEF SocketsInv, SocketsTypeInv
<1> QED
  BY <1>1, <1>2, <1>3, SendChanges

\* The receiver's transfer changes, the bytes do not.
LEMMA RecvGoesOn ==
  ASSUME SocketsInv, NEW c \in Conn, open[c],
         UNCHANGED <<sendUnchanged, socket, open, wire, got, send>>,
         NEW r, TransferInv(r), r.part = 0, Moved(r) = Moved(recv[c]), r.told # "peerClosed",
         r.pc = "move" => wire[c] # <<>> \/ HasEnded(link[c], socket[c]), recv' = [recv EXCEPT ![c] = r]
  PROVE  SocketsInv'
<1>1. /\ StreamAt(link[c], socket[c], open[c], got[c], wire[c], send[c], recv[c])
      /\ open[c] \in BOOLEAN /\ got[c] \in Seq(Nat) /\ wire[c] \in Seq(Nat) /\ link[c] # "none"
  BY AtConn
<1>2. StreamAt(link[c], socket[c], open[c], got[c], wire[c], send[c], r)
  BY <1>1, ReceiverMoves
<1>3. r \in Transfer
  BY DEF TransferInv
<1>4. /\ send \in [Conn -> Transfer] /\ recv \in [Conn -> Transfer]
      /\ got \in [Conn -> Seq(Nat)] /\ wire \in [Conn -> Seq(Nat)]
  BY DEF SocketsInv, SocketsTypeInv
<1>5. /\ recv' \in [Conn -> Transfer] /\ recv'[c] = r /\ got' = got /\ send' = send /\ wire' = wire
      /\ \A d \in Conn : d # c => recv'[d] = recv[d]
  BY <1>3, <1>4
<1>6. TransferOnly(c)
  BY <1>5 DEF TransferOnly, sendUnchanged
<1>7. StreamAt(link[c], socket[c], open[c], got'[c], wire'[c], send'[c], recv'[c])
  BY <1>2, <1>5
<1> QED
  BY <1>1, <1>4, <1>5, <1>6, <1>7, TransferKeeps

LEMMA SendCallKeeps == ASSUME SocketsInv, NEW c \in Conn, SendCall(c) PROVE SocketsInv'
<1>1. PICK limited \in BOOLEAN : send' = [send EXCEPT ![c] = Call(send[c], limited)]
  BY DEF SendCall
<1>2. TransferInv(send[c])
  BY AtConn
<1>3. TransferInv(Call(send[c], limited)) /\ Moved(Call(send[c], limited)) = Moved(send[c])
  BY <1>2, CallBegins DEF SendCall
<1> QED
  BY <1>1, <1>3, SendGoesOn DEF SendCall

\* A call of the sender has an open Socket.
LEMMA SenderHasSocket ==
  ASSUME SocketsInv, NEW c \in Conn, send[c].pc # "out"
  PROVE  socket[c] = "open" /\ TransferInv(send[c])
<1>1. StreamAt(link[c], socket[c], open[c], got[c], wire[c], send[c], recv[c])
  BY AtConn
<1> QED
  BY <1>1 DEF StreamAt

LEMMA SendReadyKeeps == ASSUME SocketsInv, NEW c \in Conn, SendReady(c) PROVE SocketsInv'
<1>1. /\ send[c].pc = "wait" /\ send' = [send EXCEPT ![c] = Ready(send[c])]
      /\ UNCHANGED <<sendUnchanged, socket, open, wire, got, recv>>
  BY DEF SendReady
<1>2. TransferInv(send[c]) /\ socket[c] = "open" /\ segsize \in Nat
  BY <1>1, SenderHasSocket, AtConn
<1>3. TransferInv(Ready(send[c])) /\ Moved(Ready(send[c])) = Moved(send[c])
  BY <1>1, <1>2, PieceReady
<1> QED
  BY <1>1, <1>2, <1>3, SendGoesOn

LEMMA SendTimeoutKeeps == ASSUME SocketsInv, NEW c \in Conn, SendTimeout(c) PROVE SocketsInv'
<1>1. /\ send[c].pc = "wait" /\ send' = [send EXCEPT ![c] = Finished(send[c], "false")]
      /\ UNCHANGED <<sendUnchanged, socket, open, wire, got, recv>>
  BY DEF SendTimeout
<1>2. TransferInv(send[c]) /\ socket[c] = "open" /\ send[c].part = 0
  BY <1>1, SenderHasSocket, TransferParts
<1>3. TransferInv(Finished(send[c], "false")) /\ Moved(Finished(send[c], "false")) = Moved(send[c])
  BY <1>1, <1>2, CallEnds
<1> QED
  BY <1>1, <1>2, <1>3, SendGoesOn

LEMMA SendInterruptedKeeps == ASSUME SocketsInv, NEW c \in Conn, SendInterrupted(c) PROVE SocketsInv'
<1>1. /\ send[c].pc = "wait" /\ send' = [send EXCEPT ![c] = Finished(send[c], "threw")]
      /\ UNCHANGED <<sendUnchanged, socket, open, wire, got, recv>>
  BY DEF SendInterrupted
<1>2. TransferInv(send[c]) /\ socket[c] = "open" /\ send[c].part = 0
  BY <1>1, SenderHasSocket, TransferParts
<1>3. TransferInv(Finished(send[c], "threw")) /\ Moved(Finished(send[c], "threw")) = Moved(send[c])
  BY <1>1, <1>2, CallEnds
<1> QED
  BY <1>1, <1>2, <1>3, SendGoesOn

LEMMA WriteFailsKeeps == ASSUME SocketsInv, NEW c \in Conn, WriteFails(c) PROVE SocketsInv'
<1>1. /\ send[c].pc = "move" /\ UNCHANGED <<sendUnchanged, socket, open, wire, got, recv>>
  BY DEF WriteFails
<1>2. /\ TransferInv(send[c]) /\ socket[c] = "open"
      /\ send[c].start \in Nat /\ send[c].hasDone \in Nat /\ send[c].part \in Nat /\ send[c].left \in Nat
      /\ send[c].start + send[c].hasDone + send[c].part + send[c].left <= Total
      /\ Moved(send[c]) = send[c].start + send[c].hasDone + send[c].part
  BY <1>1, SenderHasSocket, TransferParts
<1>3. CASE send[c].part > 0
  <2>1. PICK s \in AfterPiece(send[c], send[c].part) : send' = [send EXCEPT ![c] = s]
    BY <1>3 DEF WriteFails
  <2>2. send[c].start + send[c].hasDone + send[c].part <= Total
    BY <1>2, SocketsAssumption
  <2>3. TransferInv(s) /\ Moved(s) = Moved(send[c])
    BY <1>1, <1>2, <2>2, PieceCounted
  <2> QED
    BY <1>1, <1>2, <2>1, <2>3, SendGoesOn
<1>4. CASE ~ (send[c].part > 0)
  <2>1. send' = [send EXCEPT ![c] = Finished(send[c], "threw")]
    BY <1>4 DEF WriteFails
  <2>2. send[c].part = 0
    BY <1>2, <1>4
  <2>3. TransferInv(Finished(send[c], "threw")) /\ Moved(Finished(send[c], "threw")) = Moved(send[c])
    BY <1>2, <2>2, CallEnds
  <2> QED
    BY <1>1, <1>2, <2>1, <2>3, SendGoesOn
<1> QED
  BY <1>3, <1>4

\* A part of what is to be moved.
LEMMA PartSums ==
  ASSUME NEW a \in Nat, NEW b \in Nat, NEW p \in Nat, NEW l \in Nat, NEW k \in Nat, NEW n \in Nat,
         a + b + p + l <= n, k <= l
  PROVE  /\ p + k \in 0 .. n /\ l - k \in 0 .. n /\ p + k \in Nat
         /\ a + b + (p + k) <= n /\ a + b + (p + k) = a + b + p + k
         /\ a + b + (p + k) + (l - k) <= n
OBVIOUS

\* A write appends the bytes that follow those moved before.
LEMMA WriteKeeps == ASSUME SocketsInv, NEW c \in Conn, Write(c) PROVE SocketsInv'
<1> DEFINE tr == send[c]
           offset == tr.start + tr.hasDone + tr.part
<1>1. /\ tr.pc = "move" /\ open[c] /\ UNCHANGED <<sendUnchanged, socket, open, got, recv>>
  BY DEF Write
<1>3. /\ StreamAt(link[c], socket[c], open[c], got[c], wire[c], tr, recv[c])
      /\ got[c] \in Seq(Nat) /\ wire[c] \in Seq(Nat) /\ tr \in Transfer /\ TransferInv(tr) /\ socket[c] = "open"
  BY <1>1, AtConn, SenderHasSocket
<1>4. /\ tr.start \in Nat /\ tr.hasDone \in Nat /\ tr.part \in Nat /\ tr.left \in Nat
      /\ tr.start + tr.hasDone + tr.part + tr.left <= Total /\ Moved(tr) = offset /\ tr.told = "none"
      /\ tr.start <= Total /\ tr.hasDone <= Total /\ tr.part <= Total /\ tr.left <= Total
  BY <1>1, <1>3, TransferParts
<1>5. /\ Len(wire[c]) <= Capacity /\ Stream(got[c], wire[c]) /\ Moved(tr) = Len(got[c]) + Len(wire[c])
  BY <1>1, <1>3 DEF StreamAt
<1>6. Capacity \in Nat /\ Total \in Nat /\ Len(wire[c]) \in Nat /\ Len(got[c]) \in Nat
  BY <1>3, SocketsAssumption
<1>2. PICK k \in Nat :
        /\ 1 <= k /\ k <= tr.left /\ k <= Capacity - Len(wire[c])
        /\ wire' = [wire EXCEPT ![c] = wire[c] \o [i \in 1 .. k |-> offset + i]]
        /\ IF blocking /\ k < tr.left
           THEN send' = [send EXCEPT ![c].part = @ + k, ![c].left = @ - k]
           ELSE \E next \in AfterPiece(tr, tr.part + k) : send' = [send EXCEPT ![c] = next]
  <2>1. Capacity - Len(wire[c]) \in Nat
    BY <1>5, <1>6
  <2>2. 1 .. Min({tr.left, Capacity - Len(wire[c])}) \subseteq
          {k \in Nat : 1 <= k /\ k <= tr.left /\ k <= Capacity - Len(wire[c])}
    <3> DEFINE m == Min({tr.left, Capacity - Len(wire[c])})
    <3>1. m \in Nat /\ m <= tr.left /\ m <= Capacity - Len(wire[c])
      BY <1>4, <2>1, MinOfTwo
    <3> HIDE DEF m, tr
    <3>2. 1 .. m \subseteq {k \in Nat : 1 <= k /\ k <= tr.left /\ k <= Capacity - Len(wire[c])}
      BY <1>4, <2>1, <3>1
    <3> QED
      BY <3>2 DEF m
  <2>3. \E k \in 1 .. Min({tr.left, Capacity - Len(wire[c])}) :
          /\ wire' = [wire EXCEPT ![c] = wire[c] \o [i \in 1 .. k |-> offset + i]]
          /\ IF blocking /\ k < tr.left
             THEN send' = [send EXCEPT ![c].part = @ + k, ![c].left = @ - k]
             ELSE \E next \in AfterPiece(tr, tr.part + k) : send' = [send EXCEPT ![c] = next]
    BY DEF Write
  <2> HIDE DEF tr, offset
  <2> QED
    BY <2>2, <2>3
<1>7. k \in Nat /\ 1 <= k /\ k <= tr.left /\ k <= Capacity - Len(wire[c])
  BY <1>2
<1>15. /\ tr.part + k \in 0 .. Total /\ tr.left - k \in 0 .. Total /\ tr.part + k \in Nat
       /\ tr.start + tr.hasDone + (tr.part + k) <= Total /\ tr.start + tr.hasDone + (tr.part + k) = offset + k
       /\ tr.start + tr.hasDone + (tr.part + k) + (tr.left - k) <= Total
  <2> DEFINE a == tr.start
             b == tr.hasDone
             p == tr.part
             l == tr.left
  <2>1. /\ a \in Nat /\ b \in Nat /\ p \in Nat /\ l \in Nat /\ k \in Nat /\ Total \in Nat
        /\ a + b + p + l <= Total /\ k <= l /\ offset = a + b + p
    BY <1>4, <1>6, <1>7
  <2> HIDE DEF a, b, p, l, offset
  <2>2. /\ p + k \in 0 .. Total /\ l - k \in 0 .. Total /\ p + k \in Nat
        /\ a + b + (p + k) <= Total /\ a + b + (p + k) = offset + k
        /\ a + b + (p + k) + (l - k) <= Total
    BY <2>1, PartSums
  <2> QED
    BY <2>2 DEF a, b, p, l
<1> DEFINE w == wire[c] \o [i \in 1 .. k |-> offset + i]
<1>8. w \in Seq(Nat) /\ Len(w) = Len(wire[c]) + k /\ Stream(got[c], w)
  <2>1. w = wire[c] \o [i \in 1 .. k |-> Len(got[c]) + Len(wire[c]) + i]
    BY <1>4, <1>5
  <2>2. Stream(got[c], wire[c]) /\ got[c] \in Seq(Nat) /\ wire[c] \in Seq(Nat) /\ k \in Nat
    BY <1>3, <1>5, <1>7
  <2> HIDE DEF w, offset, tr
  <2> QED
    BY <2>1, <2>2, StreamGrows
<1>9. Len(w) <= Capacity /\ Len(w) # 0
  BY <1>5, <1>6, <1>7, <1>8
<1>10. w # <<>>
  BY <1>9, EmptySeq
<1>11. \E s : TransferInv(s) /\ Moved(s) = offset + k /\ send' = [send EXCEPT ![c] = s]
  <2>1. CASE blocking /\ k < tr.left
    <3> DEFINE s == [tr EXCEPT !.part = @ + k, !.left = @ - k]
    <3>1. send' = [send EXCEPT ![c] = s]
      <4>1. send \in [Conn -> Transfer] /\ send' = [send EXCEPT ![c].part = @ + k, ![c].left = @ - k]
        BY <1>2, <2>1 DEF SocketsInv, SocketsTypeInv
      <4> QED
        BY <4>1, <1>3
    <3>2. tr.part + k \in 0 .. Total /\ tr.left - k \in 0 .. Total
      BY <1>15
    <3>3. /\ s \in Transfer /\ s.start = tr.start /\ s.hasDone = tr.hasDone /\ s.part = tr.part + k
          /\ s.left = tr.left - k /\ s.pc = "move" /\ s.told = "none"
      BY <1>1, <1>3, <1>4, <3>2 DEF Transfer
    <3> HIDE DEF s
    <3>4. Moved(s) = offset + k /\ Moved(s) + s.left <= Total
      BY <1>15, <3>3 DEF Moved
    <3>5. TransferInv(s)
      BY <3>3, <3>4 DEF TransferInv
    <3> QED
      BY <3>1, <3>4, <3>5
  <2>2. CASE ~ (blocking /\ k < tr.left)
    <3>1. PICK s \in AfterPiece(tr, tr.part + k) : send' = [send EXCEPT ![c] = s]
      BY <1>2, <2>2
    <3>2. tr.part + k \in Nat /\ tr.start + tr.hasDone + (tr.part + k) <= Total
          /\ tr.start + tr.hasDone + (tr.part + k) = offset + k
      BY <1>15
    <3>3. TransferInv(s) /\ Moved(s) = offset + k
      BY <1>1, <1>3, <3>2, PieceCounted
    <3> QED
      BY <3>1, <3>3
  <2> QED
    BY <2>1, <2>2
<1>12. PICK s : TransferInv(s) /\ Moved(s) = offset + k /\ send' = [send EXCEPT ![c] = s]
  BY <1>11
<1>13. Moved(s) = Len(got[c]) + Len(w)
  <2> DEFINE a == Len(got[c])
             b == Len(wire[c])
             y == Len(w)
             z == Moved(s)
  <2>1. offset = a + b /\ y = b + k /\ z = offset + k /\ a \in Nat /\ b \in Nat /\ k \in Nat
    BY <1>4, <1>5, <1>6, <1>7, <1>8, <1>12
  <2> HIDE DEF offset, a, b, y, z
  <2>2. z = a + y
    BY <2>1
  <2> QED
    BY <2>2 DEF a, y, z
<1>14. wire' = [wire EXCEPT ![c] = w]
  BY <1>2
<1> HIDE DEF w, offset
<1> QED
  BY <1>1, <1>3, <1>8, <1>9, <1>10, <1>12, <1>13, <1>14, SendChanges

\* A call of the receiver has its end open.
LEMMA ReceiverIsOpen ==
  ASSUME SocketsInv, NEW c \in Conn, recv[c].pc # "out"
  PROVE  open[c] /\ TransferInv(recv[c]) /\ recv[c].part = 0
<1>1. StreamAt(link[c], socket[c], open[c], got[c], wire[c], send[c], recv[c])
  BY AtConn
<1> QED
  BY <1>1 DEF StreamAt

LEMMA RecvCallKeeps == ASSUME SocketsInv, NEW c \in Conn, RecvCall(c) PROVE SocketsInv'
<1>1. /\ open[c] /\ MayCall(recv[c]) /\ UNCHANGED <<sendUnchanged, socket, open, wire, got, send>>
  BY DEF RecvCall
<1>2. PICK limited \in BOOLEAN : recv' = [recv EXCEPT ![c] = Call(recv[c], limited)]
  BY DEF RecvCall
<1> DEFINE r == Call(recv[c], limited)
<1>3. TransferInv(recv[c])
  BY AtConn
<1>4. TransferInv(r) /\ Moved(r) = Moved(recv[c]) /\ r.part = 0 /\ r.pc \in {"out", "wait"} /\ r.told \in {"none", "true"}
  BY <1>1, <1>3, CallBegins
<1> HIDE DEF r
<1>5. recv' = [recv EXCEPT ![c] = r] /\ r.pc # "move" /\ r.told # "peerClosed"
  BY <1>2, <1>4 DEF r
<1> QED
  BY <1>1, <1>4, <1>5, RecvGoesOn

LEMMA RecvReadyKeeps == ASSUME SocketsInv, NEW c \in Conn, RecvReady(c) PROVE SocketsInv'
<1> DEFINE r == Ready(recv[c])
<1>1. /\ recv[c].pc = "wait" /\ UNCHANGED <<sendUnchanged, socket, open, wire, got, send>>
      /\ (wire[c] # <<>> \/ HasEnded(link[c], socket[c])) /\ recv' = [recv EXCEPT ![c] = r]
  BY DEF RecvReady, Ended, HasEnded
<1>2. TransferInv(recv[c]) /\ open[c] /\ segsize \in Nat
  BY <1>1, ReceiverIsOpen, AtConn
<1>3. TransferInv(r) /\ Moved(r) = Moved(recv[c]) /\ r.part = 0 /\ r.told = "none"
  BY <1>1, <1>2, PieceReady
<1>4. recv' = [recv EXCEPT ![c] = r] /\ r.told # "peerClosed"
  BY <1>1, <1>3 DEF RecvReady
<1> HIDE DEF r
<1> QED
  BY <1>1, <1>2, <1>3, <1>4, RecvGoesOn

LEMMA RecvTimeoutKeeps == ASSUME SocketsInv, NEW c \in Conn, RecvTimeout(c) PROVE SocketsInv'
<1> DEFINE r == Finished(recv[c], "false")
<1>1. /\ recv[c].pc = "wait" /\ UNCHANGED <<sendUnchanged, socket, open, wire, got, send>>
      /\ recv' = [recv EXCEPT ![c] = r]
  BY DEF RecvTimeout
<1>2. TransferInv(recv[c]) /\ open[c] /\ recv[c].part = 0
  BY <1>1, ReceiverIsOpen
<1>3. TransferInv(r) /\ Moved(r) = Moved(recv[c]) /\ r.part = 0 /\ r.told = "false" /\ r.pc = "out"
  BY <1>1, <1>2, CallEnds
<1> HIDE DEF r
<1> QED
  BY <1>1, <1>2, <1>3, RecvGoesOn

LEMMA RecvInterruptedKeeps == ASSUME SocketsInv, NEW c \in Conn, RecvInterrupted(c) PROVE SocketsInv'
<1> DEFINE r == Finished(recv[c], "threw")
<1>1. /\ recv[c].pc = "wait" /\ UNCHANGED <<sendUnchanged, socket, open, wire, got, send>>
      /\ recv' = [recv EXCEPT ![c] = r]
  BY DEF RecvInterrupted
<1>2. TransferInv(recv[c]) /\ open[c] /\ recv[c].part = 0
  BY <1>1, ReceiverIsOpen
<1>3. TransferInv(r) /\ Moved(r) = Moved(recv[c]) /\ r.part = 0 /\ r.told = "threw" /\ r.pc = "out"
  BY <1>1, <1>2, CallEnds
<1> HIDE DEF r
<1> QED
  BY <1>1, <1>2, <1>3, RecvGoesOn

\* A read takes the oldest bytes under way.
LEMMA ReadKeeps == ASSUME SocketsInv, NEW c \in Conn, Read(c) PROVE SocketsInv'
<1> DEFINE tr == recv[c]
<1>1. /\ tr.pc = "move" /\ wire[c] # <<>> /\ UNCHANGED <<sendUnchanged, socket, open, send>>
  BY DEF Read
<1>3. /\ StreamAt(link[c], socket[c], open[c], got[c], wire[c], send[c], tr)
      /\ got[c] \in Seq(Nat) /\ wire[c] \in Seq(Nat) /\ TransferInv(tr) /\ open[c] /\ tr.part = 0
      /\ link[c] # "none"
  BY <1>1, AtConn, ReceiverIsOpen
<1>4. /\ tr.start \in Nat /\ tr.hasDone \in Nat /\ tr.left \in Nat
      /\ tr.start + tr.hasDone + tr.left <= Total /\ tr.start + tr.hasDone = Len(got[c])
      /\ Len(got[c]) \in Nat /\ Len(wire[c]) \in Nat /\ Len(wire[c]) <= Capacity
  <2>1. Moved(tr) = Len(got[c]) /\ Len(wire[c]) <= Capacity
    BY <1>3 DEF StreamAt
  <2>2. Len(got[c]) \in Nat /\ Len(wire[c]) \in Nat /\ Total \in Nat
    BY <1>3, SocketsAssumption
  <2> QED
    BY <1>3, <2>1, <2>2, TransferParts
<1>2. PICK k \in 1 .. Len(wire[c]) :
        /\ k <= tr.left
        /\ got' = [got EXCEPT ![c] = got[c] \o SubSeq(wire[c], 1, k)]
        /\ wire' = [wire EXCEPT ![c] = SubSeq(wire[c], k + 1, Len(wire[c]))]
        /\ \E next \in AfterPiece(tr, k) : recv' = [recv EXCEPT ![c] = next]
  <2>1. 1 .. Min({tr.left, Len(wire[c])}) \subseteq {k \in 1 .. Len(wire[c]) : k <= tr.left}
    <3> DEFINE m == Min({tr.left, Len(wire[c])})
    <3>1. m \in Nat /\ m <= tr.left /\ m <= Len(wire[c])
      BY <1>4, MinOfTwo
    <3> HIDE DEF m, tr
    <3>2. 1 .. m \subseteq {k \in 1 .. Len(wire[c]) : k <= tr.left}
      BY <1>4, <3>1
    <3> QED
      BY <3>2 DEF m
  <2>2. \E k \in 1 .. Min({tr.left, Len(wire[c])}) :
          /\ got' = [got EXCEPT ![c] = got[c] \o SubSeq(wire[c], 1, k)]
          /\ wire' = [wire EXCEPT ![c] = SubSeq(wire[c], k + 1, Len(wire[c]))]
          /\ \E next \in AfterPiece(tr, k) : recv' = [recv EXCEPT ![c] = next]
    BY DEF Read
  <2> HIDE DEF tr
  <2> QED
    BY <2>1, <2>2
<1>5. k \in 1 .. Len(wire[c]) /\ k \in Nat /\ k <= tr.left /\ k <= Len(wire[c])
  BY <1>2
<1> DEFINE g == got[c] \o SubSeq(wire[c], 1, k)
           w == SubSeq(wire[c], k + 1, Len(wire[c]))
<1>6. /\ g \in Seq(Nat) /\ Len(g) = Len(got[c]) + k
      /\ w \in Seq(Nat) /\ Len(w) = Len(wire[c]) - k
      /\ Stream(g, w)
  <2>1. Stream(got[c], wire[c])
    BY <1>3 DEF StreamAt
  <2> QED
    BY <1>3, <1>5, <2>1, StreamMoves
<1>7. PICK r \in AfterPiece(tr, k) : recv' = [recv EXCEPT ![c] = r]
  BY <1>2
<1>8. /\ TransferInv(r) /\ Moved(r) = Len(got[c]) + k /\ r.part = 0
      /\ r.pc \in {"out", "wait"} /\ r.told \in {"none", "true", "false"}
  <2> HIDE DEF tr, g, w
  <2>1. tr.start + tr.hasDone + k <= Total /\ tr.start + tr.hasDone + k = Len(got[c]) + k
    BY <1>4, <1>5, SocketsAssumption
  <2> QED
    BY <1>1, <1>3, <1>5, <2>1, PieceCounted
<1>9. got' = [got EXCEPT ![c] = g] /\ wire' = [wire EXCEPT ![c] = w]
  BY <1>2
<1> HIDE DEF g, w, tr
<1>10. Len(w) <= Capacity /\ Len(g) + Len(w) = Len(got[c]) + Len(wire[c]) /\ Moved(r) = Len(g)
  <2>1. /\ Len(g) = Len(got[c]) + k /\ Len(w) = Len(wire[c]) - k /\ Moved(r) = Len(got[c]) + k
        /\ Len(got[c]) \in Nat /\ Len(wire[c]) \in Nat /\ Len(wire[c]) <= Capacity /\ k \in Nat
    BY <1>4, <1>5, <1>6, <1>8
  <2>2. Capacity \in Nat
    BY SocketsAssumption
  <2> DEFINE a == Len(got[c])
             b == Len(wire[c])
             x == Len(g)
             y == Len(w)
             z == Moved(r)
  <2>3. x = a + k /\ y = b - k /\ z = a + k /\ a \in Nat /\ b \in Nat /\ b <= Capacity /\ k \in Nat
    BY <2>1
  <2> HIDE DEF a, b, x, y, z
  <2>4. y <= Capacity /\ x + y = a + b /\ z = x
    BY <2>2, <2>3
  <2> QED
    BY <2>4 DEF a, b, x, y, z
<1>11. StreamAt(link[c], socket[c], open[c], g, w, send[c], r)
  <2>1. /\ TransferInv(send[c]) /\ Moved(send[c]) = Len(got[c]) + Len(wire[c])
        /\ (socket[c] # "open" => send[c].pc = "out")
    BY <1>3 DEF StreamAt
  <2> QED
    BY <2>1, <1>3, <1>6, <1>8, <1>10 DEF StreamAt
<1>12. /\ send \in [Conn -> Transfer] /\ recv \in [Conn -> Transfer]
       /\ got \in [Conn -> Seq(Nat)] /\ wire \in [Conn -> Seq(Nat)]
  BY DEF SocketsInv, SocketsTypeInv
<1>13. r \in Transfer
  BY <1>8 DEF TransferInv
<1>14. /\ recv' \in [Conn -> Transfer] /\ got' \in [Conn -> Seq(Nat)] /\ wire' \in [Conn -> Seq(Nat)] /\ send' = send
       /\ recv'[c] = r /\ got'[c] = g /\ wire'[c] = w
       /\ \A d \in Conn : d # c => recv'[d] = recv[d] /\ got'[d] = got[d] /\ wire'[d] = wire[d]
  BY <1>1, <1>6, <1>7, <1>9, <1>12, <1>13
<1>15. TransferOnly(c)
  BY <1>1, <1>14 DEF TransferOnly, sendUnchanged
<1>16. StreamAt(link[c], socket[c], open[c], got'[c], wire'[c], send'[c], recv'[c])
  BY <1>11, <1>14
<1> QED
  BY <1>3, <1>12, <1>14, <1>15, <1>16, TransferKeeps

LEMMA ReadEndKeeps == ASSUME SocketsInv, NEW c \in Conn, ReadEnd(c) PROVE SocketsInv'
<1> DEFINE r == Finished(recv[c], "peerClosed")
<1>1. /\ recv[c].pc = "move" /\ wire[c] = <<>> /\ recv' = [recv EXCEPT ![c] = r]
      /\ UNCHANGED <<sendUnchanged, socket, open, wire, got, send>>
  BY DEF ReadEnd
<1>2. /\ StreamAt(link[c], socket[c], open[c], got[c], wire[c], send[c], recv[c])
      /\ open[c] \in BOOLEAN /\ got[c] \in Seq(Nat) /\ wire[c] \in Seq(Nat)
      /\ TransferInv(recv[c]) /\ open[c] /\ recv[c].part = 0 /\ link[c] # "none"
  BY <1>1, AtConn, ReceiverIsOpen
<1>3. StreamAt(link[c], socket[c], open[c], got[c], wire[c], send[c], r)
  BY <1>1, <1>2, ReceiverEnds
<1>4. r \in Transfer
  BY <1>2, CallEnds DEF TransferInv
<1> HIDE DEF r
<1>5. /\ send \in [Conn -> Transfer] /\ recv \in [Conn -> Transfer]
      /\ got \in [Conn -> Seq(Nat)] /\ wire \in [Conn -> Seq(Nat)]
  BY DEF SocketsInv, SocketsTypeInv
<1>6. /\ recv' \in [Conn -> Transfer] /\ recv'[c] = r /\ got' = got /\ send' = send /\ wire' = wire
      /\ \A d \in Conn : d # c => recv'[d] = recv[d]
  BY <1>1, <1>4, <1>5
<1>7. TransferOnly(c)
  BY <1>1, <1>6 DEF TransferOnly, sendUnchanged
<1>8. StreamAt(link[c], socket[c], open[c], got'[c], wire'[c], send'[c], recv'[c])
  BY <1>3, <1>6
<1> QED
  BY <1>2, <1>5, <1>6, <1>7, <1>8, TransferKeeps

-----------------------------------------------------------------------------
(* The two ends, and AcceptAsync. *)

\* The server's sockets, and its spare descriptor.
Opened(objects) == {c \in Conn : objects[c] \in {"open", "shut"}}
Spare(fd) == IF fd \in {"open", "client"} THEN 1 ELSE 0

LEMMA OpenedCount ==
  ASSUME NEW objects
  PROVE  IsFiniteSet(Opened(objects)) /\ Cardinality(Opened(objects)) \in Nat
<1>1. Sum \in Nat
  BY SocketsAssumption
<1>2. IsFiniteSet(Conn)
  BY <1>1, FS_Interval DEF Conn
<1>3. Opened(objects) \subseteq Conn
  BY DEF Opened
<1> QED
  BY <1>2, <1>3, FS_Subset, FS_CardinalityType

LEMMA UsedIs ==
  ASSUME SocketsInv
  PROVE  /\ others \in Nat /\ MaxFd \in Nat /\ Spare(nullfd) \in {0, 1}
         /\ Cardinality(Opened(socket)) \in Nat
         /\ Used = others + Cardinality(Opened(socket)) + Spare(nullfd)
         /\ others + Cardinality(Opened(socket)) + Spare(nullfd) <= MaxFd
<1>1. Used = others + Cardinality(Opened(socket)) + Spare(nullfd)
  BY DEF Used, Opened, Spare
<1>2. others \in Nat /\ MaxFd \in Nat
  BY SocketsAssumption DEF SocketsInv, SocketsTypeInv
<1> QED
  BY <1>1, <1>2, OpenedCount DEF Spare, SocketsInv

\* A Socket is shut down or destroyed.
LEMMA SocketLeaves ==
  ASSUME SocketsInv, NEW c \in Conn, socket[c] \in {"open", "shut"}, send[c].pc = "out",
         NEW sock \in {"shut", "closed"}, socket' = [socket EXCEPT ![c] = sock],
         UNCHANGED <<sendUnchanged, open, wire, got, send, recv>>
  PROVE  SocketsInv'
<1>1. /\ UNCHANGED <<blocking, segsize, listening, connects, link, others, nullfd, acceptor, gaveUp>>
      /\ UNCHANGED <<open, wire, got, send, recv>>
  BY DEF sendUnchanged, modes, acceptVars
<1>2. /\ socket' \in [Conn -> {"none", "open", "shut", "closed"}] /\ socket'[c] = sock
      /\ \A d \in Conn : d # c => socket'[d] = socket[d]
  BY DEF SocketsInv, SocketsTypeInv
<1>3. SocketsTypeInv'
  BY <1>1, <1>2 DEF SocketsInv, SocketsTypeInv
<1>4. LinkInv'
  <2>1. \A d \in Conn : socket'[d] # "none" <=> socket[d] # "none"
    BY <1>2
  <2> QED
    BY <1>1, <2>1 DEF SocketsInv, LinkInv
<1>5. ReserveInv'
  BY <1>1 DEF SocketsInv, ReserveInv
<1>6. (Used <= MaxFd)'
  <2>1. Opened(socket') \subseteq Opened(socket)
    BY <1>2 DEF Opened
  <2>2. Cardinality(Opened(socket')) <= Cardinality(Opened(socket))
    BY <2>1, OpenedCount, FS_Subset
  <2>3. Used' = others + Cardinality(Opened(socket')) + Spare(nullfd)
    BY <1>1 DEF Used, Opened, Spare
  <2>4. Cardinality(Opened(socket')) \in Nat
    BY OpenedCount
  <2> QED
    BY <2>2, <2>3, <2>4, UsedIs
<1>7. StreamInv'
  <2>1. ASSUME NEW d \in Conn
        PROVE  StreamAt(link'[d], socket'[d], open'[d], got'[d], wire'[d], send'[d], recv'[d])
    <3>1. StreamAt(link[d], socket[d], open[d], got[d], wire[d], send[d], recv[d]) /\ open[d] \in BOOLEAN
      BY AtConn
    <3>2. \/ socket'[d] = socket[d]
          \/ socket[d] \in {"open", "shut"} /\ send[d].pc = "out" /\ socket'[d] \in {"shut", "closed"}
      BY <1>2
    <3>3. StreamAt(link[d], socket'[d], open[d], got[d], wire[d], send[d], recv[d])
      BY <3>1, <3>2, StreamStays
    <3> QED
      BY <1>1, <3>3
  <2> QED
    BY <2>1 DEF StreamInv
<1> QED
  BY <1>3, <1>4, <1>5, <1>6, <1>7 DEF SocketsInv

LEMMA CloseClientKeeps == ASSUME SocketsInv, NEW c \in Conn, CloseClient(c) PROVE SocketsInv'
<1>1. /\ UNCHANGED <<blocking, segsize, listening, connects, link, others, nullfd, acceptor, gaveUp>>
      /\ UNCHANGED <<socket, got, send, recv>>
      /\ open[c] /\ recv[c].pc = "out"
      /\ open' = [open EXCEPT ![c] = FALSE] /\ wire' = [wire EXCEPT ![c] = <<>>]
  BY DEF CloseClient, sendUnchanged, modes, acceptVars
<1>2. << >> \in Seq(Nat)
  BY EmptySeq
<1>3. /\ open' \in [Conn -> BOOLEAN] /\ wire' \in [Conn -> Seq(Nat)] /\ open'[c] = FALSE /\ wire'[c] = <<>>
      /\ \A d \in Conn : d # c => open'[d] = open[d] /\ wire'[d] = wire[d]
  BY <1>1, <1>2 DEF SocketsInv, SocketsTypeInv
<1>4. SocketsTypeInv'
  BY <1>1, <1>3 DEF SocketsInv, SocketsTypeInv
<1>5. LinkInv'
  <2>1. \A d \in Conn : (~open[d] => ~open'[d]) /\ (wire[d] = <<>> => wire'[d] = <<>>)
    BY <1>3
  <2> QED
    BY <1>1, <2>1 DEF SocketsInv, LinkInv
<1>6. ReserveInv'
  BY <1>1 DEF SocketsInv, ReserveInv
<1>7. (Used <= MaxFd)'
  BY <1>1 DEF SocketsInv, Used
<1>8. StreamInv'
  <2>1. ASSUME NEW d \in Conn
        PROVE  StreamAt(link'[d], socket'[d], open'[d], got'[d], wire'[d], send'[d], recv'[d])
    <3>1. /\ StreamAt(link[d], socket[d], open[d], got[d], wire[d], send[d], recv[d]) /\ open[d] \in BOOLEAN
          /\ got[d] \in Seq(Nat) /\ wire[d] \in Seq(Nat)
      BY AtConn
    <3>2. CASE d = c
      <4>1. StreamAt(link[d], socket[d], FALSE, got[d], <<>>, send[d], recv[d])
        BY <1>1, <3>1, <3>2, ClientCloses
      <4> QED
        BY <1>1, <1>3, <3>2, <4>1
    <3>3. CASE d # c
      BY <1>1, <1>3, <3>1, <3>3
    <3> QED
      BY <3>2, <3>3
  <2> QED
    BY <2>1 DEF StreamInv
<1> QED
  BY <1>4, <1>5, <1>6, <1>7, <1>8 DEF SocketsInv

\* The listener changes, or others' files: no connection does.
LEMMA OthersKeep ==
  ASSUME SocketsInv, CreateServerSocket \/ Others
  PROVE  SocketsInv'
<1>1. /\ UNCHANGED <<blocking, segsize, connects, link, nullfd, acceptor, gaveUp>>
      /\ UNCHANGED <<open, socket, wire, got, send, recv>>
      /\ \/ others' = others
         \/ others < MaxOther /\ HasFree /\ others' = others + 1
         \/ others > 0 /\ others' = others - 1
  BY DEF CreateServerSocket, Others, modes, clientVars, acceptVars
<1>2. others \in 0 .. MaxOther /\ MaxOther \in Nat
  BY SocketsAssumption DEF SocketsInv, SocketsTypeInv
<1>3. others' \in 0 .. MaxOther
  BY <1>1, <1>2
<1>4. SocketsTypeInv'
  BY <1>1, <1>3 DEF SocketsInv, SocketsTypeInv
<1>5. LinkInv'
  BY <1>1 DEF SocketsInv, LinkInv
<1>6. ReserveInv'
  BY <1>1 DEF SocketsInv, ReserveInv
<1>7. (Used <= MaxFd)'
  <2>1. Used' = others' + Cardinality(Opened(socket)) + Spare(nullfd)
    BY <1>1 DEF Used, Opened, Spare
  <2>2. HasFree => others + Cardinality(Opened(socket)) + Spare(nullfd) < MaxFd
    BY UsedIs DEF HasFree
  <2> QED
    BY <1>1, <1>2, <2>1, <2>2, UsedIs
<1>8. StreamInv'
  BY <1>1 DEF SocketsInv, StreamInv
<1> QED
  BY <1>4, <1>5, <1>6, <1>7, <1>8 DEF SocketsInv

LEMMA ConnectKeeps == ASSUME SocketsInv, ConnectToServer PROVE SocketsInv'
<1>1. /\ UNCHANGED <<blocking, segsize, others, nullfd, acceptor, gaveUp>>
      /\ UNCHANGED <<socket, wire, got, send, recv>> /\ connects < Sum
  BY DEF ConnectToServer, modes, acceptVars
<1>2. Sum \in Nat /\ connects \in Nat /\ Capacity \in Nat
  BY SocketsAssumption DEF SocketsInv, SocketsTypeInv
<1>3. ReserveInv'
  BY <1>1 DEF SocketsInv, ReserveInv
<1>4. (Used <= MaxFd)'
  BY <1>1 DEF SocketsInv, Used
<1>5. CASE connects' = Sum + 1 /\ UNCHANGED <<link, open>>
  <2>1. SocketsTypeInv'
    BY <1>1, <1>2, <1>5 DEF SocketsInv, SocketsTypeInv
  <2>2. \A d \in Conn : ~ (d > connects')
    BY <1>2, <1>5 DEF Conn
  <2>3. LinkInv'
    BY <1>1, <1>5, <2>2 DEF SocketsInv, LinkInv
  <2>4. StreamInv'
    BY <1>1, <1>5 DEF SocketsInv, StreamInv
  <2> QED
    BY <1>3, <1>4, <2>1, <2>3, <2>4 DEF SocketsInv
<1>6. CASE /\ connects' = connects + 1
           /\ link' = [link EXCEPT ![connects'] = "pending"] /\ open' = [open EXCEPT ![connects'] = TRUE]
  <2> DEFINE n == connects + 1
  <2>1. n \in Conn /\ n > connects
    BY <1>1, <1>2 DEF Conn
  <2>2. /\ link \in [Conn -> {"none", "pending", "accepted", "held", "dropped"}] /\ open \in [Conn -> BOOLEAN]
    BY DEF SocketsInv, SocketsTypeInv
  <2>3. link[n] = "none" /\ socket[n] = "none"
    BY <2>1, AtConn DEF SocketsInv, LinkInv
  <2>4. wire[n] = <<>> /\ got[n] = <<>> /\ send[n] = NoTransfer /\ recv[n] = NoTransfer
    BY <2>1, <2>3, AtConn
  <2> HIDE DEF n
  <2>5. /\ link' \in [Conn -> {"none", "pending", "accepted", "held", "dropped"}] /\ open' \in [Conn -> BOOLEAN]
        /\ link'[n] = "pending" /\ open'[n] = TRUE
        /\ \A d \in Conn : d # n => link'[d] = link[d] /\ open'[d] = open[d]
    BY <1>6, <2>1, <2>2 DEF n
  <2>6. SocketsTypeInv'
    BY <1>1, <1>2, <1>6, <2>5 DEF SocketsInv, SocketsTypeInv
  <2>7. LinkInv'
    <3>1. ASSUME NEW d \in Conn
          PROVE  /\ d > connects' => link'[d] = "none"
                 /\ link'[d] = "accepted" <=> socket'[d] # "none"
                 /\ link'[d] = "none" => /\ ~open'[d] /\ wire'[d] = <<>> /\ got'[d] = <<>>
                                         /\ send'[d] = NoTransfer /\ recv'[d] = NoTransfer
      <4>1. CASE d = n
        <5>1. ~ (d > connects')
          BY <1>2, <1>6, <4>1 DEF n
        <5> QED
          BY <1>1, <2>3, <2>5, <4>1, <5>1
      <4>2. CASE d # n
        <5>1. d > connects' => d > connects
          BY <1>2, <1>6 DEF Conn
        <5>2. d > connects => link[d] = "none"
          BY DEF SocketsInv, LinkInv
        <5> QED
          BY <1>1, <2>5, <4>2, <5>1, <5>2, AtConn
      <4> QED
        BY <4>1, <4>2
    <3> QED
      BY <3>1 DEF LinkInv
  <2>8. StreamAt("pending", "none", TRUE, <<>>, <<>>, NoTransfer, NoTransfer)
    <3>1. Stream(<<>>, <<>>) /\ Len(<< >>) = 0
      BY EmptySeq DEF Stream
    <3> QED
      BY <1>2, <3>1, NoTransferYet DEF StreamAt
  <2>9. ASSUME NEW d \in Conn
        PROVE  StreamAt(link'[d], socket'[d], open'[d], got'[d], wire'[d], send'[d], recv'[d])
    <3>1. CASE d = n
      BY <1>1, <2>3, <2>4, <2>5, <2>8, <3>1
    <3>2. CASE d # n
      <4>1. StreamAt(link[d], socket[d], open[d], got[d], wire[d], send[d], recv[d])
        BY AtConn
      <4> QED
        BY <1>1, <2>5, <3>2, <4>1
    <3> QED
      BY <3>1, <3>2
  <2>10. StreamInv'
    BY <2>9 DEF StreamInv
  <2> QED
    BY <1>3, <1>4, <2>6, <2>7, <2>10 DEF SocketsInv
<1> QED
  BY <1>5, <1>6 DEF ConnectToServer

\* The first in the backlog is one of it.
LEMMA NextIsPending == ASSUME Pending # {} PROVE NextPending \in Conn /\ link[NextPending] = "pending"
<1>1. Pending \subseteq Nat
  BY DEF Pending, Conn
<1>2. NextPending \in Pending
  BY <1>1, MinIsLeast DEF NextPending
<1> QED
  BY <1>2 DEF Pending

\* A connection that waited is taken: it gets a Socket, or the spare descriptor.
LEMMA TakenKeeps ==
  ASSUME SocketsInv, UNCHANGED acceptUnchanged,
         NEW n \in Conn, link[n] = "pending", NEW linked, linked = "accepted" \/ linked = "held",
         link' = [link EXCEPT ![n] = linked],
         socket' = [socket EXCEPT ![n] = IF linked = "accepted" THEN "open" ELSE @]
  PROVE  SocketsTypeInv' /\ LinkInv' /\ StreamInv'
<1>1. UNCHANGED <<blocking, segsize, listening, connects, open, wire, got, others, send, recv>>
  BY DEF acceptUnchanged, modes, clientVars
<1>2. /\ link \in [Conn -> {"none", "pending", "accepted", "held", "dropped"}]
      /\ socket \in [Conn -> {"none", "open", "shut", "closed"}] /\ socket[n] = "none"
  BY AtConn DEF SocketsInv, SocketsTypeInv
<1>3. /\ link' \in [Conn -> {"none", "pending", "accepted", "held", "dropped"}]
      /\ socket' \in [Conn -> {"none", "open", "shut", "closed"}]
      /\ link'[n] = linked /\ socket'[n] = (IF linked = "accepted" THEN "open" ELSE "none")
      /\ \A d \in Conn : d # n => link'[d] = link[d] /\ socket'[d] = socket[d]
  BY <1>2
<1>4. SocketsTypeInv'
  BY <1>1, <1>3 DEF SocketsInv, SocketsTypeInv
<1>5. LinkInv'
  <2>1. \A d \in Conn : /\ link'[d] = "none" <=> link[d] = "none"
                        /\ link'[d] = "accepted" <=> socket'[d] # "none"
    BY <1>3, AtConn
  <2> QED
    BY <1>1, <2>1 DEF SocketsInv, LinkInv
<1>6. ASSUME NEW d \in Conn
      PROVE  StreamAt(link'[d], socket'[d], open'[d], got'[d], wire'[d], send'[d], recv'[d])
  <2>1. StreamAt(link[d], socket[d], open[d], got[d], wire[d], send[d], recv[d]) /\ open[d] \in BOOLEAN
    BY AtConn
  <2>2. /\ link'[d] = link[d] \/ link[d] # "dropped"
        /\ socket'[d] = socket[d] \/ socket[d] = "none"
    BY <1>2, <1>3
  <2>3. StreamAt(link'[d], socket'[d], open[d], got[d], wire[d], send[d], recv[d])
    BY <2>1, <2>2, StreamStays
  <2> QED
    BY <1>1, <2>3
<1>7. StreamInv'
  BY <1>6 DEF StreamInv
<1> QED
  BY <1>4, <1>5, <1>7

LEMMA AcceptKeeps == ASSUME SocketsInv, Accept PROVE SocketsInv'
<1>1. /\ HasFree /\ Pending # {} /\ UNCHANGED <<acceptUnchanged, acceptVars>>
      /\ link' = [link EXCEPT ![NextPending] = "accepted"]
      /\ socket' = [socket EXCEPT ![NextPending] = "open"]
  BY DEF Accept
<1> DEFINE n == NextPending
<1>2. n \in Conn /\ link[n] = "pending"
  BY <1>1, NextIsPending
<1> HIDE DEF n
<1>3. link' = [link EXCEPT ![n] = "accepted"] /\ socket' = [socket EXCEPT ![n] = "open"]
  BY <1>1 DEF n
<1>4. SocketsTypeInv' /\ LinkInv' /\ StreamInv'
  BY <1>1, <1>2, <1>3, TakenKeeps
<1>5. UNCHANGED <<others, nullfd, acceptor, gaveUp>>
  BY <1>1 DEF acceptUnchanged, acceptVars
<1>6. ReserveInv'
  BY <1>5 DEF SocketsInv, ReserveInv
<1>7. (Used <= MaxFd)'
  <2>1. Opened(socket') \subseteq Opened(socket) \cup {n}
    <3>1. socket \in [Conn -> {"none", "open", "shut", "closed"}]
      BY DEF SocketsInv, SocketsTypeInv
    <3> QED
      BY <1>2, <1>3, <3>1 DEF Opened
  <2>2. IsFiniteSet(Opened(socket) \cup {n}) /\ Cardinality(Opened(socket) \cup {n}) <= Cardinality(Opened(socket)) + 1
    <3>1. IsFiniteSet(Opened(socket)) /\ Cardinality(Opened(socket)) \in Nat
      BY OpenedCount
    <3> QED
      BY <3>1, FS_AddElement
  <2>3. Cardinality(Opened(socket')) <= Cardinality(Opened(socket) \cup {n})
    BY <2>1, <2>2, FS_Subset
  <2>4. Used' = others + Cardinality(Opened(socket')) + Spare(nullfd)
    BY <1>5 DEF Used, Opened, Spare
  <2>5. Cardinality(Opened(socket')) \in Nat /\ Cardinality(Opened(socket) \cup {n}) \in Nat
    BY <2>2, OpenedCount, FS_CardinalityType
  <2>6. others + Cardinality(Opened(socket)) + Spare(nullfd) < MaxFd
    BY <1>1, UsedIs DEF HasFree
  <2> QED
    BY <2>2, <2>3, <2>4, <2>5, <2>6, UsedIs
<1> QED
  BY <1>4, <1>6, <1>7 DEF SocketsInv

\* A step of AcceptAsync that touches no connection and keeps the count of descriptors.
LEMMA ReserveMoves ==
  ASSUME SocketsInv, UNCHANGED <<acceptUnchanged, link, socket>>, ReserveInv',
         Spare(nullfd') = 0 \/ nullfd' = nullfd \/ HasFree
  PROVE  SocketsInv'
<1>1. UNCHANGED <<blocking, segsize, listening, connects, open, link, socket, wire, got, others, send, recv>>
  BY DEF acceptUnchanged, modes, clientVars
<1>2. SocketsTypeInv'
  BY <1>1 DEF SocketsInv, SocketsTypeInv
<1>3. LinkInv'
  BY <1>1 DEF SocketsInv, LinkInv
<1>4. StreamInv'
  BY <1>1 DEF SocketsInv, StreamInv
<1>5. (Used <= MaxFd)'
  <2>1. Used' = others + Cardinality(Opened(socket)) + Spare(nullfd')
    BY <1>1 DEF Used, Opened, Spare
  <2>2. Spare(nullfd') \in {0, 1}
    BY DEF Spare
  <2>3. HasFree => others + Cardinality(Opened(socket)) + Spare(nullfd) < MaxFd
    BY UsedIs DEF HasFree
  <2> QED
    BY <2>1, <2>2, <2>3, UsedIs
<1> QED
  BY <1>2, <1>3, <1>4, <1>5 DEF SocketsInv

LEMMA AcceptStepKeeps == ASSUME SocketsInv, AcceptStep PROVE SocketsInv'
<1>1. ReserveInv
  BY DEF SocketsInv
<1>2. CASE CallAccept
  <2>1. ReserveInv'
    BY <1>1, <1>2 DEF ReserveInv, CallAccept
  <2> QED
    BY <1>2, <2>1, ReserveMoves DEF CallAccept, Spare
<1>3. CASE NothingToAccept
  <2>1. ReserveInv'
    BY <1>1, <1>3 DEF ReserveInv, NothingToAccept
  <2> QED
    BY <1>3, <2>1, ReserveMoves DEF NothingToAccept
<1>4. CASE NoDescriptor
  <2>1. ReserveInv'
    BY <1>1, <1>4 DEF ReserveInv, NoDescriptor
  <2> QED
    BY <1>4, <2>1, ReserveMoves DEF NoDescriptor, Spare
<1>5. CASE SpareAccept
  <2>1. ReserveInv'
    BY <1>1, <1>5 DEF ReserveInv, SpareAccept, Throw
  <2>2. CASE UNCHANGED <<link, nullfd>>
    BY <1>5, <2>1, <2>2, ReserveMoves DEF SpareAccept
  <2>3. CASE HasFree /\ Pending # {} /\ link' = [link EXCEPT ![NextPending] = "held"] /\ nullfd' = "client"
    <3> DEFINE n == NextPending
    <3>1. n \in Conn /\ link[n] = "pending"
      BY <2>3, NextIsPending
    <3>2. UNCHANGED <<acceptUnchanged, socket>> /\ others' = others
      BY <1>5 DEF SpareAccept, acceptUnchanged
    <3> HIDE DEF n
    <3>3. socket' = [socket EXCEPT ![n] = IF "held" = "accepted" THEN "open" ELSE @]
      BY <3>2 DEF SocketsInv, SocketsTypeInv
    <3>4. SocketsTypeInv' /\ LinkInv' /\ StreamInv'
      <4>1. link' = [link EXCEPT ![n] = "held"]
        BY <2>3 DEF n
      <4> QED
        BY <3>1, <3>2, <3>3, <4>1, TakenKeeps
    <3>5. (Used <= MaxFd)'
      <4>1. Used' = others + Cardinality(Opened(socket)) + Spare(nullfd')
        BY <3>2 DEF Used, Opened, Spare
      <4>2. Spare(nullfd') \in {0, 1}
        BY DEF Spare
      <4>3. others + Cardinality(Opened(socket)) + Spare(nullfd) < MaxFd
        BY <2>3, UsedIs DEF HasFree
      <4> QED
        BY <4>1, <4>2, <4>3, UsedIs
    <3> QED
      BY <2>1, <3>4, <3>5 DEF SocketsInv
  <2> QED
    BY <1>5, <2>2, <2>3 DEF SpareAccept
<1>6. CASE CloseSpare
  <2>1. ReserveInv'
    BY <1>1, <1>6 DEF ReserveInv, CloseSpare
  <2>2. /\ UNCHANGED <<blocking, segsize, listening, connects, open, socket, wire, got, others, send, recv>>
        /\ link' = [c \in Conn |-> IF link[c] = "held" THEN "dropped" ELSE link[c]] /\ nullfd' = "closed"
    BY <1>6 DEF CloseSpare, acceptUnchanged, modes, clientVars
  <2>3. link' \in [Conn -> {"none", "pending", "accepted", "held", "dropped"}]
    BY <2>2 DEF SocketsInv, SocketsTypeInv
  <2>4. SocketsTypeInv'
    BY <2>2, <2>3 DEF SocketsInv, SocketsTypeInv
  <2>5. \A d \in Conn : link'[d] = IF link[d] = "held" THEN "dropped" ELSE link[d]
    BY <2>2
  <2>6. LinkInv'
    BY <2>2, <2>5 DEF SocketsInv, LinkInv
  <2>7. (Used <= MaxFd)'
    <3>1. Used' = others + Cardinality(Opened(socket)) + 0
      BY <2>2 DEF Used, Opened
    <3> QED
      BY <3>1, UsedIs
  <2>8. ASSUME NEW d \in Conn
        PROVE  StreamAt(link'[d], socket'[d], open'[d], got'[d], wire'[d], send'[d], recv'[d])
    <3>1. StreamAt(link[d], socket[d], open[d], got[d], wire[d], send[d], recv[d]) /\ open[d] \in BOOLEAN
      BY AtConn
    <3>2. link'[d] = link[d] \/ link[d] # "dropped"
      BY <2>5
    <3>3. StreamAt(link'[d], socket[d], open[d], got[d], wire[d], send[d], recv[d])
      BY <3>1, <3>2, StreamStays
    <3> QED
      BY <2>2, <3>3
  <2>9. StreamInv'
    BY <2>8 DEF StreamInv
  <2> QED
    BY <2>1, <2>4, <2>6, <2>7, <2>9 DEF SocketsInv
<1>7. CASE Reopen
  <2>1. ReserveInv'
    BY <1>1, <1>7 DEF ReserveInv, Reopen, Throw
  <2> QED
    BY <1>7, <2>1, ReserveMoves DEF Reopen
<1> QED
  BY <1>2, <1>3, <1>4, <1>5, <1>6, <1>7, AcceptKeeps DEF AcceptStep

LEMMA SocketsStep == SocketsInv /\ [SocketsNext]_socketsVars => SocketsInv'
<1> SUFFICES ASSUME SocketsInv, [SocketsNext]_socketsVars PROVE SocketsInv'
  OBVIOUS
<1>0. Talking \subseteq Conn
  BY SocketsAssumption DEF Conn
<1>1. CASE CreateServerSocket \/ Others
  BY <1>1, OthersKeep
<1>2. CASE ConnectToServer
  BY <1>2, ConnectKeeps
<1>3. CASE AcceptStep
  BY <1>3, AcceptStepKeeps
<1>4. ASSUME NEW c \in Talking, SendStep(c) \/ SendCall(c) \/ SendInterrupted(c) PROVE SocketsInv'
  BY <1>0, <1>4, SendCallKeeps, SendReadyKeeps, SendTimeoutKeeps, SendInterruptedKeeps, WriteKeeps,
     WriteFailsKeeps DEF SendStep
<1>5. ASSUME NEW c \in Talking, RecvStep(c) \/ RecvCall(c) \/ RecvInterrupted(c) PROVE SocketsInv'
  BY <1>0, <1>5, RecvCallKeeps, RecvReadyKeeps, RecvTimeoutKeeps, RecvInterruptedKeeps, ReadKeeps,
     ReadEndKeeps DEF RecvStep
<1>6. ASSUME NEW c \in Conn, Shutdown(c) PROVE SocketsInv'
  <2>1. "shut" \in {"shut", "closed"} /\ socket[c] \in {"open", "shut"}
    BY <1>6 DEF Shutdown
  <2> QED
    BY <1>6, <2>1, SocketLeaves DEF Shutdown
<1>7. ASSUME NEW c \in Conn, DestroySocket(c) PROVE SocketsInv'
  BY <1>7, SocketLeaves DEF DestroySocket
<1>8. ASSUME NEW c \in Conn, CloseClient(c) PROVE SocketsInv'
  BY <1>8, CloseClientKeeps
<1>9. CASE UNCHANGED socketsVars
  <2>1. /\ UNCHANGED <<blocking, segsize, connects, link, others, nullfd, acceptor, gaveUp>>
        /\ UNCHANGED <<open, socket, wire, got, send, recv>>
    BY <1>9 DEF socketsVars, modes, clientVars, acceptVars
  <2> QED
    BY <2>1 DEF SocketsInv, SocketsTypeInv, LinkInv, ReserveInv, Used, StreamInv
<1> QED
  BY <1>1, <1>2, <1>3, <1>4, <1>5, <1>6, <1>7, <1>8, <1>9 DEF SocketsNext

LEMMA SocketsInvariant == SocketsSpec => []SocketsInv
<1> QED
  BY SocketsStart, SocketsStep, PTL DEF SocketsSpec

\* What a call of SendSegmentSync or RecvSegmentSync tells is true, a descriptor in use
\* is one that the process may have, and AcceptAsync has its spare one between its calls.
THEOREM CallsTellTruth == SocketsSpec => []SocketsOK
<1>1. SocketsInv => SocketsOK
  <2> SUFFICES ASSUME SocketsInv PROVE SocketsOK
    OBVIOUS
  <2>1. /\ send \in [Conn -> Transfer] /\ recv \in [Conn -> Transfer] /\ Used <= MaxFd
    BY DEF SocketsInv, SocketsTypeInv
  <2>2. ASSUME NEW c \in Conn
        PROVE  /\ Len(wire[c]) <= Capacity /\ (link[c] = "accepted" <=> socket[c] # "none")
               /\ recv[c].start + recv[c].hasDone = Len(got[c])
               /\ (open[c] /\ send[c].pc = "out" =>
                      send[c].start + send[c].hasDone = Len(got[c]) + Len(wire[c]))
               /\ (send[c].told = "true" => send[c].start + send[c].hasDone = Total)
               /\ (recv[c].told = "true" => Len(got[c]) = Total)
               /\ (recv[c].told = "peerClosed" =>
                      link[c] = "dropped" \/ Len(got[c]) = send[c].start + send[c].hasDone)
    <3>1. /\ StreamAt(link[c], socket[c], open[c], got[c], wire[c], send[c], recv[c])
          /\ TransferInv(send[c]) /\ TransferInv(recv[c]) /\ (link[c] = "accepted" <=> socket[c] # "none")
          /\ got[c] \in Seq(Nat) /\ wire[c] \in Seq(Nat)
      BY AtConn
    <3>2. /\ Len(wire[c]) <= Capacity /\ recv[c].part = 0 /\ Moved(recv[c]) = Len(got[c])
          /\ (open[c] => Moved(send[c]) = Len(got[c]) + Len(wire[c]))
          /\ (recv[c].told = "peerClosed" =>
                      link[c] = "dropped" \/ Len(got[c]) = send[c].start + send[c].hasDone)
      BY <3>1 DEF StreamAt
    <3>3. /\ recv[c].start \in Nat /\ recv[c].hasDone \in Nat
          /\ Moved(recv[c]) = recv[c].start + recv[c].hasDone + recv[c].part
          /\ (recv[c].told = "true" => recv[c].start + recv[c].hasDone = Total)
      BY <3>1, TransferParts
    <3>4. /\ send[c].start \in Nat /\ send[c].hasDone \in Nat
          /\ Moved(send[c]) = send[c].start + send[c].hasDone + send[c].part
          /\ (send[c].pc = "out" => send[c].part = 0)
          /\ (send[c].told = "true" => send[c].start + send[c].hasDone = Total)
      BY <3>1, TransferParts
    <3>5. recv[c].start + recv[c].hasDone = Len(got[c])
      BY <3>2, <3>3
    <3>6. ASSUME open[c], send[c].pc = "out"
          PROVE  send[c].start + send[c].hasDone = Len(got[c]) + Len(wire[c])
      <4> DEFINE m == Moved(send[c])
                 n == send[c].start + send[c].hasDone
                 l == Len(got[c]) + Len(wire[c])
      <4>1. m = n + send[c].part /\ send[c].part = 0 /\ n \in Nat
        BY <3>4, <3>6
      <4>2. m = l
        BY <3>2, <3>6
      <4> HIDE DEF m, n, l
      <4>3. n = l
        BY <4>1, <4>2
      <4> QED
        BY <4>3 DEF n, l
    <3>7. recv[c].told = "true" => Len(got[c]) = Total
      BY <3>3, <3>5
    <3> QED
      BY <3>1, <3>2, <3>4, <3>5, <3>6, <3>7
  <2>3. ReserveKept
    BY DEF ReserveKept, SocketsInv, ReserveInv
  <2> QED
    BY <2>1, <2>2, <2>3 DEF SocketsOK, HasDoneIsTrue, TrueMeansAll
<1> QED
  BY <1>1, SocketsInvariant, PTL

\* The client gets the bytes of the server's buffer in their order, each once, over any
\* number of pieces, timeouts and repeated calls.
THEOREM SegmentInOrder == SocketsSpec => []StreamInOrder
<1>1. SocketsInv => StreamInOrder
  <2> SUFFICES ASSUME SocketsInv, NEW c \in Conn, NEW i \in 1 .. Len(got[c] \o wire[c])
               PROVE  (got[c] \o wire[c])[i] = i
    BY DEF StreamInOrder
  <2> DEFINE g == got[c]
             w == wire[c]
  <2>1. g \in Seq(Nat) /\ w \in Seq(Nat) /\ StreamAt(link[c], socket[c], open[c], g, w, send[c], recv[c])
    BY AtConn
  <2>2. Stream(g, w)
    BY <2>1 DEF StreamAt
  <2> HIDE DEF g, w
  <2>3. /\ Len(g \o w) = Len(g) + Len(w)
        /\ \A j \in 1 .. Len(g) + Len(w) : (g \o w)[j] = IF j <= Len(g) THEN g[j] ELSE w[j - Len(g)]
    BY <2>1, ConcatProperties
  <2>8. i \in 1 .. Len(g \o w)
    BY DEF g, w
  <2>4. i \in 1 .. Len(g) + Len(w) /\ Len(g) \in Nat /\ Len(w) \in Nat
    BY <2>1, <2>3, <2>8
  <2>5. CASE i <= Len(g)
    <3>1. i \in 1 .. Len(g)
      BY <2>4, <2>5
    <3>2. g[i] = i
      BY <2>2, <3>1 DEF Stream
    <3> QED
      BY <2>3, <2>4, <2>5, <3>2 DEF g, w
  <2>6. CASE i > Len(g)
    <3>1. i - Len(g) \in 1 .. Len(w) /\ ~ (i <= Len(g)) /\ Len(g) + (i - Len(g)) = i
      BY <2>4, <2>6
    <3>2. w[i - Len(g)] = Len(g) + (i - Len(g))
      BY <2>2, <3>1 DEF Stream
    <3> QED
      BY <2>3, <2>4, <3>1, <3>2 DEF g, w
  <2>7. i <= Len(g) \/ i > Len(g)
    BY <2>4
  <2> QED
    BY <2>5, <2>6, <2>7
<1> QED
  BY <1>1, SocketsInvariant, PTL

=============================================================================
