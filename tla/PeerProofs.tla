----------------------------- MODULE PeerProofs -----------------------------
(***************************************************************************)
(* Proofs about the programs of groups G12, 3 and 2: what an ACK confirms, *)
(* why no client ever closes its window, why old ACKs do not harm G12's    *)
(* server; then what the steps of all programs have in common, and the     *)
(* types.                                                                  *)
(***************************************************************************)
EXTENDS PeerTransfer, FiniteSetTheorems, SequenceTheorems,
        WellFoundedInduction, TLAPS

-----------------------------------------------------------------------------
\* What an ACK confirms.

LEMMA NumbersType == SeqCount \in Nat /\ SeqCount >= 2 /\ RecvWindow \in Nat /\ RecvWindow >= 1
BY NumbersAssumption

LEMMA ModUnique ==
    ASSUME NEW q \in Int, NEW r \in SeqNums, NEW x \in Int, x = q * SeqCount + r
    PROVE  x % SeqCount = r
<1> DEFINE p == x \div SeqCount
           t == x % SeqCount
<1> SUFFICES t = r
  OBVIOUS
<1>1. p \in Int /\ t \in SeqNums /\ x = p * SeqCount + t
  BY NumbersType DEF SeqNums
<1> HIDE DEF p, t
<1>2. /\ SeqCount \in Nat /\ SeqCount > 0
      /\ (p - q) * SeqCount = r - t
      /\ r - t < SeqCount /\ t - r < SeqCount
  BY <1>1, NumbersType DEF SeqNums
<1>3. CASE p - q >= 1
  <2>1. (p - q) * SeqCount >= SeqCount
    BY <1>1, <1>2, <1>3
  <2> QED
    BY <1>1, <1>2, <2>1 DEF SeqNums
<1>4. CASE q - p >= 1
  <2>1. (q - p) * SeqCount >= SeqCount
    BY <1>1, <1>2, <1>4
  <2>2. (q - p) * SeqCount = t - r
    BY <1>1, <1>2 DEF SeqNums
  <2> QED
    BY <1>1, <1>2, <2>1, <2>2 DEF SeqNums
<1>5. CASE p = q
  BY <1>1, <1>2, <1>5 DEF SeqNums
<1> QED
  BY <1>1, <1>3, <1>4, <1>5

\* How far ahead of packet b the number of packet a seems to be.
LEMMA AheadExact ==
    ASSUME NEW a \in Nat, NEW b \in Nat, a - b < SeqCount, b - a < SeqCount
    PROVE  Ahead(b, a % SeqCount) = IF a >= b THEN a - b ELSE a - b + SeqCount
<1> DEFINE q == a \div SeqCount
           s == a % SeqCount
<1>1. q \in Int /\ s \in SeqNums /\ a = q * SeqCount + s
  BY NumbersType DEF SeqNums
<1> HIDE DEF q, s
<1>2. q * SeqCount \in Int /\ (-q) * SeqCount = -(q * SeqCount)
      /\ (-q - 1) * SeqCount = -(q * SeqCount) - SeqCount
  BY <1>1, NumbersType
<1>3. CASE a >= b
  <2>1. /\ a - b \in SeqNums /\ s - b \in Int /\ -q \in Int
        /\ s - b = (-q) * SeqCount + (a - b)
    BY <1>1, <1>2, <1>3, NumbersType DEF SeqNums
  <2> QED
    BY <1>3, <2>1, ModUnique DEF Ahead, s
<1>4. CASE a < b
  <2>1. /\ a - b + SeqCount \in SeqNums /\ s - b \in Int /\ -q - 1 \in Int
        /\ s - b = (-q - 1) * SeqCount + (a - b + SeqCount)
    BY <1>1, <1>2, <1>4, NumbersType DEF SeqNums
  <2> QED
    BY <1>4, <2>1, ModUnique DEF Ahead, s
<1> QED
  BY <1>3, <1>4

(***************************************************************************)
(* G12/src/server.py:64-70: an ACK of packet a, new or old, is taken for   *)
(* what it is as long as fewer than 2048 packets separate it from the last *)
(* one sent: base becomes a, or stays where it is.                         *)
(***************************************************************************)
THEOREM G12AckExact ==
    ASSUME NEW a \in Nat, NEW b \in Nat, NEW n \in Nat,
           a <= n, b <= n, n - a < SeqCount, n - b < SeqCount
    PROVE  G12Confirmed(b, n, a % SeqCount) = Most(a, b)
<1> DEFINE d == Ahead(b, a % SeqCount)
<1>1. d = IF a >= b THEN a - b ELSE a - b + SeqCount
  <2>1. a - b < SeqCount /\ b - a < SeqCount
    BY NumbersType
  <2> QED
    BY <2>1, AheadExact
<1>2. G12Confirmed(b, n, a % SeqCount) = IF d <= n - b THEN b + d ELSE b
  BY DEF G12Confirmed
<1> HIDE DEF d
<1>3. (IF d <= n - b THEN b + d ELSE b) = Most(a, b)
  BY <1>1, NumbersType DEF Most
<1> QED
  BY <1>2, <1>3

(***************************************************************************)
(* 3/src/server.py:16 and 2/src/server.py:85: over a path that does not    *)
(* reorder an ACK is never older than base, and is taken for what it is.   *)
(***************************************************************************)
THEOREM NewAckExact ==
    ASSUME NEW a \in Nat, NEW b \in Nat, NEW n \in Nat,
           b <= a, a - b < SeqCount
    PROVE  /\ a <= Chunks => G3Confirmed(b, a % SeqCount) = a
           /\ a <= n => G2Confirmed(b, n, a % SeqCount) = a
<1> DEFINE d == Ahead(b, a % SeqCount)
<1>1. d = a - b
  <2>1. b - a < SeqCount /\ a >= b
    BY NumbersType
  <2>2. d = IF a >= b THEN a - b ELSE a - b + SeqCount
    BY <2>1, AheadExact
  <2> QED
    BY <2>1, <2>2
<1>2. /\ G3Confirmed(b, a % SeqCount) = Least(b + d, Chunks)
      /\ G2Confirmed(b, n, a % SeqCount) = Least(b + d, n)
  BY DEF G3Confirmed, G2Confirmed
<1> HIDE DEF d
<1>3. b + d = a
  BY <1>1
<1> QED
  BY <1>2, <1>3, Zenon DEF Least

(***************************************************************************)
(* But an ACK that a newer one has overtaken confirms, for group 3's       *)
(* server, everything up to nearly 2048 packets ahead of it, and for group *)
(* 2's everything that is in flight.                                       *)
(***************************************************************************)
THEOREM OldAckConfirmsTooMuch ==
    ASSUME NEW a \in Nat, NEW b \in Nat, NEW n \in Nat,
           a < b, b <= n, n - a <= SeqCount, b - a < SeqCount
    PROVE  /\ G3Confirmed(b, a % SeqCount) = Least(a + SeqCount, Chunks)
           /\ G2Confirmed(b, n, a % SeqCount) = n
<1> DEFINE d == Ahead(b, a % SeqCount)
<1>1. d = a - b + SeqCount
  <2>1. a - b < SeqCount /\ ~ (a >= b)
    BY NumbersType
  <2>2. d = IF a >= b THEN a - b ELSE a - b + SeqCount
    BY <2>1, AheadExact
  <2> QED
    BY <2>1, <2>2
<1>2. /\ G3Confirmed(b, a % SeqCount) = Least(b + d, Chunks)
      /\ G2Confirmed(b, n, a % SeqCount) = Least(b + d, n)
  BY DEF G3Confirmed, G2Confirmed
<1> HIDE DEF d
<1>3. b + d = a + SeqCount
  BY <1>1, NumbersType
<1>4. Least(a + SeqCount, n) = n
  BY NumbersType DEF Least
<1> QED
  BY <1>2, <1>3, <1>4
-----------------------------------------------------------------------------
\* The sequences of datagrams.

LEMMA RemoveAtType ==
    ASSUME NEW S, NEW q \in Seq(S), NEW i \in DOMAIN q
    PROVE  RemoveAt(q, i) \in Seq(S) /\ q[i] \in S
<1>1. Len(q) \in Nat /\ DOMAIN q = 1 .. Len(q) /\ i \in 1 .. Len(q)
  BY LenProperties
<1>2. \A j \in 1 .. Len(q) : q[j] \in S
  BY ElementOfSeq
<1>3. SubSeq(q, 1, i - 1) \in Seq(S)
  <2>1. 1 \in Int /\ i - 1 \in Int /\ \A j \in 1 .. i - 1 : q[j] \in S
    BY <1>1, <1>2
  <2> QED
    BY <2>1, SubSeqProperties
<1>4. SubSeq(q, i + 1, Len(q)) \in Seq(S)
  <2>1. i + 1 \in Int /\ Len(q) \in Int /\ \A j \in i + 1 .. Len(q) : q[j] \in S
    BY <1>1, <1>2
  <2> QED
    BY <2>1, SubSeqProperties
<1>5. SubSeq(q, 1, i - 1) \o SubSeq(q, i + 1, Len(q)) \in Seq(S)
  BY <1>3, <1>4, ConcatProperties
<1> QED
  BY <1>1, <1>2, <1>5 DEF RemoveAt

LEMMA RemoveAtElements ==
    ASSUME NEW S, NEW q \in Seq(S), NEW i \in DOMAIN q
    PROVE  /\ RemoveAt(q, i) \in Seq(S) /\ Len(RemoveAt(q, i)) = Len(q) - 1
           /\ \A j \in 1 .. Len(q) - 1 : RemoveAt(q, i)[j] = q[IF j < i THEN j ELSE j + 1]
<1>1. Len(q) \in Nat /\ DOMAIN q = 1 .. Len(q) /\ i \in 1 .. Len(q)
  BY LenProperties
<1> DEFINE a == SubSeq(q, 1, i - 1)
           b == SubSeq(q, i + 1, Len(q))
<1>2. /\ a \in Seq(S) /\ Len(a) = i - 1
      /\ \A j \in 1 .. i - 1 : a[j] = q[j]
  <2>1. 1 \in Int /\ i - 1 \in Int /\ \A j \in 1 .. i - 1 : q[j] \in S
    BY <1>1, ElementOfSeq
  <2>2. /\ a \in Seq(S) /\ Len(a) = IF 1 <= i - 1 THEN (i - 1) - 1 + 1 ELSE 0
        /\ \A j \in 1 .. (i - 1) - 1 + 1 : a[j] = q[1 + j - 1]
    BY <2>1, SubSeqProperties
  <2> QED
    BY <1>1, <2>2
<1>3. /\ b \in Seq(S) /\ Len(b) = Len(q) - i
      /\ \A j \in 1 .. Len(q) - i : b[j] = q[i + j]
  <2>1. i + 1 \in Int /\ Len(q) \in Int /\ \A j \in i + 1 .. Len(q) : q[j] \in S
    BY <1>1, ElementOfSeq
  <2>2. /\ b \in Seq(S) /\ Len(b) = IF i + 1 <= Len(q) THEN Len(q) - (i + 1) + 1 ELSE 0
        /\ \A j \in 1 .. Len(q) - (i + 1) + 1 : b[j] = q[(i + 1) + j - 1]
    BY <2>1, SubSeqProperties
  <2> QED
    BY <1>1, <2>2
<1>4. RemoveAt(q, i) = a \o b
  BY DEF RemoveAt
<1> HIDE DEF a, b
<1>5. /\ a \o b \in Seq(S) /\ Len(a \o b) = Len(a) + Len(b)
      /\ \A j \in 1 .. Len(a) + Len(b) : (a \o b)[j] = IF j <= Len(a) THEN a[j] ELSE b[j - Len(a)]
  BY <1>2, <1>3, ConcatProperties
<1>6. ASSUME NEW j \in 1 .. Len(q) - 1
      PROVE  (a \o b)[j] = q[IF j < i THEN j ELSE j + 1]
  <2>1. (a \o b)[j] = IF j <= i - 1 THEN a[j] ELSE b[j - (i - 1)]
    BY <1>1, <1>2, <1>3, <1>5
  <2>2. CASE j < i
    <3>1. j <= i - 1 /\ j \in 1 .. i - 1
      BY <1>1, <2>2
    <3> QED
      BY <1>2, <2>1, <2>2, <3>1
  <2>3. CASE ~ (j < i)
    <3>1. ~ (j <= i - 1) /\ j - (i - 1) \in 1 .. Len(q) - i /\ i + (j - (i - 1)) = j + 1
      BY <1>1, <2>3
    <3> QED
      BY <1>3, <2>1, <2>3, <3>1
  <2> QED
    BY <2>2, <2>3
<1> QED
  BY <1>1, <1>2, <1>3, <1>4, <1>5, <1>6

LEMMA SentType ==
    ASSUME NEW S, NEW q \in Seq(S), NEW ds \in Seq(S)
    PROVE  Sent(q, ds) \in Seq(S)
<1> DEFINE all == q \o ds
           n == IF Len(all) <= Room THEN Len(all) ELSE Room
<1>1. all \in Seq(S)
  BY ConcatProperties
<1>2. Len(all) \in Nat /\ \A j \in 1 .. Len(all) : all[j] \in S
  BY <1>1, LenProperties, ElementOfSeq
<1>3. n \in Int /\ n <= Len(all)
  BY <1>2, NumbersAssumption
<1>4. Sent(q, ds) = SubSeq(all, 1, n)
  BY DEF Sent
<1> HIDE DEF all, n
<1>5. \A j \in 1 .. n : all[j] \in S
  BY <1>2, <1>3
<1>6. SubSeq(all, 1, n) \in Seq(S)
  BY <1>3, <1>5, SubSeqProperties
<1> QED
  BY <1>4, <1>6

LEMMA OneSent ==
    ASSUME NEW S, NEW q \in Seq(S), NEW d \in S
    PROVE  Sent(q, <<d>>) \in Seq(S)
<1>1. <<d>> \in Seq(S)
  OBVIOUS
<1> QED
  BY <1>1, SentType

LEMMA ModType == \A i \in Int : i % SeqCount \in SeqNums
BY NumbersType DEF SeqNums

LEMMA DataType ==
    ASSUME NEW i \in Nat, NEW p \in Payloads
    PROVE  Data(i % SeqCount, p) \in DownDatagrams
BY ModType DEF Data, DownDatagrams

LEMMA PacketType == \A i \in Nat : Packet(i) \in DownDatagrams
<1> SUFFICES ASSUME NEW i \in Nat PROVE Packet(i) \in DownDatagrams
  OBVIOUS
<1>1. (IF i < Chunks THEN i ELSE EOF) \in Payloads
  BY DEF Payloads
<1> QED
  BY <1>1, DataType DEF Packet

LEMMA FunctionIsSeq ==
    ASSUME NEW S, NEW n \in Nat, NEW f \in [1 .. n -> S]
    PROVE  f \in Seq(S)
BY SeqDef

LEMMA PacketsType ==
    ASSUME NEW is \in Seq(Nat)
    PROVE  Packets(is) \in Seq(DownDatagrams)
<1>1. Len(is) \in Nat /\ DOMAIN is = 1 .. Len(is) /\ \A k \in 1 .. Len(is) : is[k] \in Nat
  BY LenProperties, ElementOfSeq
<1>2. Packets(is) \in [1 .. Len(is) -> DownDatagrams]
  BY <1>1, PacketType DEF Packets
<1> QED
  BY <1>1, <1>2, FunctionIsSeq

LEMMA AscendingType ==
    ASSUME NEW S \in SUBSET Nat, IsFiniteSet(S), NEW again \in Ascending(S)
    PROVE  Packets(again) \in Seq(DownDatagrams)
<1>1. Cardinality(S) \in Nat
  BY FS_CardinalityType
<1>2. again \in [1 .. Cardinality(S) -> Nat]
  BY DEF Ascending
<1>3. again \in Seq(Nat)
  BY <1>1, <1>2, FunctionIsSeq
<1> QED
  BY <1>3, PacketsType

LEMMA NewType ==
    ASSUME next_seq \in Nat, NEW n \in Nat
    PROVE  Packets(New(n)) \in Seq(DownDatagrams)
<1>1. CASE n - next_seq \in Nat
  <2>1. New(n) \in [1 .. n - next_seq -> Nat]
    BY <1>1 DEF New
  <2>2. New(n) \in Seq(Nat)
    BY <1>1, <2>1, FunctionIsSeq
  <2> QED
    BY <2>2, PacketsType
<1>2. CASE n - next_seq \notin Nat
  <2>1. 1 .. n - next_seq = 1 .. 0
    BY <1>2
  <2>2. New(n) \in [1 .. 0 -> Nat]
    BY <2>1 DEF New
  <2>3. New(n) \in Seq(Nat)
    BY <2>2, FunctionIsSeq
  <2> QED
    BY <2>3, PacketsType
<1> QED
  BY <1>1, <1>2

-----------------------------------------------------------------------------
\* The client's buffer.

\* The packets that may be held ahead of packet e.
AheadOf(e) == e + 1 .. e + RecvWindow - 1

LEMMA FreeType ==
    ASSUME NEW e \in Nat, NEW buf, DOMAIN buf \subseteq AheadOf(e)
    PROVE  Free(buf) \in 1 .. RecvWindow
<1> DEFINE all == e + 1 .. e + RecvWindow - 1
           held == DOMAIN buf
<1>1. IsFiniteSet(all) /\ Cardinality(all) = RecvWindow - 1
  <2>1. e + 1 \in Int /\ e + RecvWindow - 1 \in Int
    BY NumbersType
  <2>2. /\ IsFiniteSet(all)
        /\ Cardinality(all) = IF e + 1 > e + RecvWindow - 1 THEN 0
                              ELSE (e + RecvWindow - 1) - (e + 1) + 1
    BY <2>1, FS_Interval
  <2> QED
    BY <2>2, NumbersType
<1>2. held \in SUBSET all
  BY DEF AheadOf
<1> HIDE DEF all, held
<1>3. IsFiniteSet(held) /\ Cardinality(held) <= Cardinality(all)
  BY <1>1, <1>2, FS_Subset
<1>4. Cardinality(held) \in Nat
  BY <1>3, FS_CardinalityType
<1>5. Free(buf) = RecvWindow - Cardinality(held)
  BY DEF Free, held
<1> QED
  BY <1>1, <1>3, <1>4, <1>5, NumbersType

LEMMA LeastMissing ==
    ASSUME NEW T \in SUBSET Nat, T # {}
    PROVE  \E i \in T : \A j \in T : i <= j
<1>1. PICK i \in T : \A j \in T : ~ (<<j, i>> \in OpToRel(<, Nat))
  BY NatLessThanWellFounded, WFMin
<1>2. ASSUME NEW j \in T
      PROVE  i <= j
  <2>1. ~ (<<j, i>> \in {ss \in Nat \X Nat : ss[1] < ss[2]})
    BY <1>1, <1>2, Zenon DEF OpToRel
  <2>2. j \in Nat /\ i \in Nat
    OBVIOUS
  <2>3. ~ (j < i)
    BY <2>1, <2>2
  <2> QED
    BY <2>2, <2>3
<1> QED
  BY <1>2

LEMMA FirstMissingType ==
    ASSUME expected \in Nat, NEW buf,
           DOMAIN buf \subseteq expected .. expected + RecvWindow - 1
    PROVE  /\ FirstMissing(buf) \in Nat /\ FirstMissing(buf) >= expected
           /\ FirstMissing(buf) \notin DOMAIN buf
           /\ \A j \in expected .. FirstMissing(buf) - 1 : j \in DOMAIN buf
<1> DEFINE T == {i \in expected .. expected + SeqCount : i \notin DOMAIN buf}
           First(i) == i \notin DOMAIN buf /\ \A j \in expected .. i - 1 : j \in DOMAIN buf
<1>1. expected + RecvWindow \in T
  <2>1. expected + RecvWindow \notin DOMAIN buf
    BY NumbersType
  <2> QED
    BY <2>1, NumbersType, NumbersAssumption
<1>2. T \in SUBSET Nat
  BY NumbersType
<1>3. PICK i \in T : \A j \in T : i <= j
  BY <1>1, <1>2, LeastMissing
<1>4. First(i)
  <2>1. \A j \in expected .. i - 1 : j \in DOMAIN buf
    BY <1>2, <1>3, NumbersType
  <2> QED
    BY <1>3, <2>1
<1>5. i \in expected .. expected + SeqCount
  BY <1>3
<1>6. FirstMissing(buf) = CHOOSE k \in expected .. expected + SeqCount : First(k)
  BY DEF FirstMissing
<1> HIDE DEF First, T
<1>7. FirstMissing(buf) \in expected .. expected + SeqCount /\ First(FirstMissing(buf))
  BY <1>4, <1>5, <1>6
<1> QED
  BY <1>7, NumbersType DEF First

\* What is left in the buffer is within a window of the packet expected.
LEMMA ReassembledHeld ==
    ASSUME expected \in Nat, NEW buf,
           DOMAIN buf \subseteq expected .. expected + RecvWindow - 1, Reassembled(buf)
    PROVE  expected' \in Nat /\ DOMAIN buffer' \subseteq AheadOf(expected')
<1>1. expected' = FirstMissing(buf) /\ DOMAIN buffer' = {j \in DOMAIN buf : j >= expected'}
  BY DEF Reassembled
<1>2. expected' \in Nat /\ expected' >= expected /\ expected' \notin DOMAIN buf
  BY <1>1, FirstMissingType
<1>3. ASSUME NEW j \in DOMAIN buffer'
      PROVE  j \in AheadOf(expected')
  <2>1. j \in expected .. expected + RecvWindow - 1 /\ j >= expected' /\ j # expected'
    BY <1>1, <1>2
  <2> QED
    BY <1>2, <2>1, NumbersType DEF AheadOf
<1> QED
  BY <1>2, <1>3

LEMMA StoredHeld ==
    ASSUME expected \in Nat, DOMAIN buffer \subseteq AheadOf(expected),
           NEW s \in SeqNums, NEW p
    PROVE  DOMAIN (IF InWindow(s) THEN Stored(s, p) ELSE buffer)
             \subseteq expected .. expected + RecvWindow - 1
<1>1. AheadOf(expected) \subseteq expected .. expected + RecvWindow - 1
  BY NumbersType DEF AheadOf
<1>2. CASE InWindow(s)
  <2>1. Distance(s) \in Nat /\ Distance(s) < RecvWindow
    BY <1>2, ModType, NumbersType DEF Distance, InWindow, SeqNums
  <2>2. expected + Distance(s) \in expected .. expected + RecvWindow - 1
    BY <2>1, NumbersType
  <2>3. DOMAIN Stored(s, p) = DOMAIN buffer \cup {expected + Distance(s)}
    BY DEF Stored
  <2> QED
    BY <1>1, <1>2, <2>2, <2>3
<1> QED
  BY <1>1, <1>2

-----------------------------------------------------------------------------
(***************************************************************************)
(* The invariant: every ACK on its way to the server, or in its queue,     *)
(* advertises a window that is not closed, because the client's buffer     *)
(* never holds the packet expected next.  The types of the datagrams and   *)
(* of the server's variables are what makes this inductive.                *)
(***************************************************************************)
OpenAcks == [type : {"ACK"}, seq : SeqNums, window : 1 .. RecvWindow]
OpenUp == {Get, Bad, CutGet} \cup OpenAcks

PathInv == setup \in Setups /\ up \in Seq(OpenUp) /\ down \in Seq(DownDatagrams)
ClientInv == expected \in Nat /\ DOMAIN buffer \subseteq AheadOf(expected)
SenderInv ==
    /\ base \in Nat /\ next_seq \in Nat /\ window \in 1 .. RecvWindow
    /\ in_flight \in SUBSET Nat /\ IsFiniteSet(in_flight)
ServerInv == SenderInv /\ queue \in Seq(OpenAcks)

PeerInv == PathInv /\ ClientInv /\ ServerInv

\* What a client's step must establish.
ClientKeeps == up' \in Seq(OpenUp) /\ down' \in Seq(DownDatagrams) /\ ClientInv'

LEMMA ReadsType ==
    ASSUME PathInv, NEW d, Reads(d)
    PROVE  d \in DownDatagrams /\ down' \in Seq(DownDatagrams)
<1>1. PICK i \in DOMAIN down : down[i] = d /\ down' = RemoveAt(down, i)
  BY DEF Reads, Arrives, Arriving
<1> QED
  BY <1>1, RemoveAtType DEF PathInv

LEMMA DataSeq ==
    ASSUME NEW s, NEW p, Data(s, p) \in DownDatagrams
    PROVE  s \in SeqNums
BY DEF Data, DownDatagrams, Acks, Bad

LEMMA SendsAck ==
    ASSUME PathInv, NEW n \in Int, NEW w \in 1 .. RecvWindow
    PROVE  Sent(up, <<Ack(n % SeqCount, w)>>) \in Seq(OpenUp)
<1>1. Ack(n % SeqCount, w) \in OpenUp
  BY ModType DEF Ack, OpenUp, OpenAcks
<1> QED
  BY <1>1, OneSent DEF PathInv

LEMMA SendsGet == PathInv => Sent(up, <<Get>>) \in Seq(OpenUp)
<1>1. Get \in OpenUp
  BY DEF OpenUp
<1> QED
  BY <1>1, OneSent DEF PathInv

\* A packet of the file is kept and acknowledged.
LEMMA KeepsAndAcks ==
    ASSUME PathInv, expected \in Nat, NEW buf,
           DOMAIN buf \subseteq expected .. expected + RecvWindow - 1,
           Reassembled(buf), SendAck(expected', buffer')
    PROVE  ClientInv' /\ up' \in Seq(OpenUp)
<1>1. expected' \in Nat /\ DOMAIN buffer' \subseteq AheadOf(expected')
  BY ReassembledHeld
<1>2. Free(buffer') \in 1 .. RecvWindow
  BY <1>1, FreeType
<1>3. Sent(up, <<Ack(expected' % SeqCount, Free(buffer'))>>) \in Seq(OpenUp)
  BY <1>1, <1>2, SendsAck
<1> QED
  BY <1>1, <1>3 DEF ClientInv, SendAck

LEMMA G12ClientKeeps ==
    ASSUME PathInv, ClientInv, NEW d,
           \/ G12Ignore(d)
           \/ d.type = "DATA" /\ G12Data(d.seq, d.payload)
           \/ G12Timeout(serving)
    PROVE  ClientKeeps
<1>1. CASE G12Ignore(d)
  <2>1. down' \in Seq(DownDatagrams)
    BY <1>1, ReadsType DEF G12Ignore
  <2> QED
    BY <1>1, <2>1 DEF G12Ignore, clientVars, ClientKeeps, ClientInv, PathInv
<1>2. CASE G12Timeout(serving)
  <2>1. up' \in Seq(OpenUp)
    BY <1>2, SendsGet DEF G12Timeout, PathInv
  <2> QED
    BY <1>2, <2>1 DEF G12Timeout, receiver, ClientKeeps, ClientInv, PathInv
<1>3. CASE d.type = "DATA" /\ G12Data(d.seq, d.payload)
  <2> DEFINE s == d.seq
             p == d.payload
             buf == IF InWindow(s) THEN Stored(s, p) ELSE buffer
  <2>1. down' \in Seq(DownDatagrams) /\ s \in SeqNums
    BY <1>3, ReadsType, DataSeq DEF G12Data
  <2>2. \/ /\ up' = Sent(up, <<Ack((s + 1) % SeqCount, RecvWindow)>>)
           /\ UNCHANGED receiver
        \/ Reassembled(buf) /\ SendAck(expected', buffer')
    BY <1>3 DEF G12Data
  <2> HIDE DEF s, p
  <2>3. CASE up' = Sent(up, <<Ack((s + 1) % SeqCount, RecvWindow)>>) /\ UNCHANGED receiver
    <3>1. s + 1 \in Int /\ RecvWindow \in 1 .. RecvWindow
      BY <2>1, NumbersType DEF SeqNums
    <3>2. up' \in Seq(OpenUp)
      BY <2>3, <3>1, SendsAck
    <3> QED
      BY <2>1, <2>3, <3>2 DEF receiver, ClientKeeps, ClientInv
  <2>4. CASE Reassembled(buf) /\ SendAck(expected', buffer')
    <3>1. expected \in Nat /\ DOMAIN buf \subseteq expected .. expected + RecvWindow - 1
      BY <2>1, StoredHeld DEF ClientInv
    <3> HIDE DEF buf
    <3>2. ClientInv' /\ up' \in Seq(OpenUp)
      BY <2>4, <3>1, KeepsAndAcks
    <3> QED
      BY <2>1, <3>2 DEF ClientKeeps
  <2> QED
    BY <2>2, <2>3, <2>4
<1> QED
  BY <1>1, <1>2, <1>3

LEMMA G3ClientKeeps ==
    ASSUME PathInv, ClientInv, NEW d,
           \/ G3Answer(d) \/ G3Ignore(d)
           \/ d.type = "DATA" /\ G3Data(d.seq, d.payload)
           \/ G3Timeout
    PROVE  ClientKeeps
<1>1. ASSUME G3AsksAgain
      PROVE  up' \in Seq(OpenUp) /\ ClientInv'
  BY <1>1, SendsGet DEF G3AsksAgain, receiver, PathInv, ClientInv
<1>2. CASE G3Answer(d)
  <2>1. down' \in Seq(DownDatagrams)
    BY <1>2, ReadsType DEF G3Answer
  <2>2. up' \in Seq(OpenUp) /\ ClientInv'
    BY <1>1, <1>2 DEF G3Answer, receiver, PathInv, ClientInv
  <2> QED
    BY <2>1, <2>2 DEF ClientKeeps
<1>3. CASE G3Ignore(d)
  <2>1. down' \in Seq(DownDatagrams)
    BY <1>3, ReadsType DEF G3Ignore
  <2> QED
    BY <1>3, <2>1 DEF G3Ignore, clientVars, ClientKeeps, ClientInv, PathInv
<1>4. CASE G3Timeout
  <2>1. CASE G3AsksAgain
    BY <1>1, <1>4, <2>1 DEF G3Timeout, ClientKeeps, PathInv
  <2>2. CASE SendAck(expected, buffer) /\ UNCHANGED clientVars
    <3>1. Free(buffer) \in 1 .. RecvWindow
      BY FreeType DEF ClientInv
    <3>2. up' \in Seq(OpenUp)
      BY <2>2, <3>1, SendsAck DEF SendAck, ClientInv
    <3> QED
      BY <1>4, <2>2, <3>2 DEF G3Timeout, clientVars, ClientKeeps, ClientInv, PathInv
  <2> QED
    BY <1>4, <2>1, <2>2 DEF G3Timeout
<1>5. CASE d.type = "DATA" /\ G3Data(d.seq, d.payload)
  <2> DEFINE s == d.seq
             p == d.payload
  <2>1. down' \in Seq(DownDatagrams) /\ s \in SeqNums
    BY <1>5, ReadsType, DataSeq DEF G3Data
  <2>2. \/ up' = Sent(up, <<G3FinalAck>>) /\ UNCHANGED receiver
        \/ UNCHANGED <<up, receiver>>
        \/ InWindow(s) /\ Reassembled(Stored(s, p)) /\ SendAck(expected', buffer')
    BY <1>5 DEF G3Data
  <2> HIDE DEF s, p
  <2>3. CASE up' = Sent(up, <<G3FinalAck>>) /\ UNCHANGED receiver
    <3>1. Free(buffer) \in 1 .. RecvWindow /\ expected + 1 \in Int
      BY FreeType DEF ClientInv
    <3>2. up' \in Seq(OpenUp)
      BY <2>3, <3>1, SendsAck DEF G3FinalAck
    <3> QED
      BY <2>1, <2>3, <3>2 DEF receiver, ClientKeeps, ClientInv
  <2>4. CASE UNCHANGED <<up, receiver>>
    BY <2>1, <2>4 DEF receiver, ClientKeeps, ClientInv, PathInv
  <2>5. CASE InWindow(s) /\ Reassembled(Stored(s, p)) /\ SendAck(expected', buffer')
    <3> DEFINE buf == Stored(s, p)
    <3>1. DOMAIN (IF InWindow(s) THEN buf ELSE buffer) \subseteq expected .. expected + RecvWindow - 1
      BY <2>1, StoredHeld DEF ClientInv
    <3>2. expected \in Nat /\ DOMAIN buf \subseteq expected .. expected + RecvWindow - 1
      BY <2>5, <3>1 DEF ClientInv
    <3>3. Reassembled(buf) /\ SendAck(expected', buffer')
      BY <2>5
    <3> HIDE DEF buf
    <3>4. ClientInv' /\ up' \in Seq(OpenUp)
      BY <3>2, <3>3, KeepsAndAcks
    <3> QED
      BY <2>1, <3>4 DEF ClientKeeps
  <2> QED
    BY <2>2, <2>3, <2>4, <2>5
<1> QED
  BY <1>2, <1>3, <1>4, <1>5

LEMMA G2ClientKeeps ==
    ASSUME PathInv, ClientInv, NEW d,
           \/ G2Ignore(d)
           \/ d.type = "DATA" /\ G2Data(d.seq, d.payload)
           \/ G2Timeout(serving)
    PROVE  ClientKeeps
<1>1. CASE G2Ignore(d)
  <2>1. down' \in Seq(DownDatagrams)
    BY <1>1, ReadsType DEF G2Ignore
  <2> QED
    BY <1>1, <2>1 DEF G2Ignore, receiver, ClientKeeps, ClientInv, PathInv
<1>2. CASE G2Timeout(serving)
  <2>1. up' \in Seq(OpenUp)
    BY <1>2, SendsGet DEF G2Timeout, PathInv
  <2> QED
    BY <1>2, <2>1 DEF G2Timeout, receiver, ClientKeeps, ClientInv, PathInv
<1>3. CASE d.type = "DATA" /\ G2Data(d.seq, d.payload)
  <2> DEFINE s == d.seq
             p == d.payload
             buf == IF InWindow(s) THEN Stored(s, p) ELSE buffer
  <2>1. down' \in Seq(DownDatagrams) /\ s \in SeqNums
    BY <1>3, ReadsType, DataSeq DEF G2Data
  <2>2. \/ UNCHANGED <<up, receiver>>
        \/ Reassembled(buf) /\ SendAck(expected', buffer')
    BY <1>3 DEF G2Data
  <2> HIDE DEF s, p
  <2>3. CASE UNCHANGED <<up, receiver>>
    BY <2>1, <2>3 DEF receiver, ClientKeeps, ClientInv, PathInv
  <2>4. CASE Reassembled(buf) /\ SendAck(expected', buffer')
    <3>1. expected \in Nat /\ DOMAIN buf \subseteq expected .. expected + RecvWindow - 1
      BY <2>1, StoredHeld DEF ClientInv
    <3> HIDE DEF buf
    <3>2. ClientInv' /\ up' \in Seq(OpenUp)
      BY <2>4, <3>1, KeepsAndAcks
    <3> QED
      BY <2>1, <3>2 DEF ClientKeeps
  <2> QED
    BY <2>2, <2>3, <2>4
<1> QED
  BY <1>1, <1>2, <1>3

LEMMA ClientStepKeeps == PeerInv /\ ClientStep => PeerInv'
<1> SUFFICES ASSUME PeerInv, ClientStep
             PROVE  PeerInv'
  OBVIOUS
<1> USE DEF PeerInv
<1>1. ASSUME NEW d, ClientReads(d)
      PROVE  ClientKeeps
  BY <1>1, G12ClientKeeps, G3ClientKeeps, G2ClientKeeps DEF ClientReads
<1>2. ASSUME ClientWaits
      PROVE  ClientKeeps
  BY <1>2, G12ClientKeeps, G3ClientKeeps, G2ClientKeeps DEF ClientWaits
<1>3. ClientKeeps /\ UNCHANGED <<setup, serverVars>>
  BY <1>1, <1>2 DEF ClientStep
<1> QED
  BY <1>3 DEF ClientKeeps, PathInv, ServerInv, SenderInv, serverVars, sender

-----------------------------------------------------------------------------
\* The server's steps.

\* What a server's step must establish.
ServerKeeps == up' \in Seq(OpenUp) /\ down' \in Seq(DownDatagrams) /\ ServerInv'

LEMMA ReceivesType ==
    ASSUME PathInv, NEW d, Receives(d)
    PROVE  /\ up' \in Seq(OpenUp)
           /\ d.type = "ACK" => d \in OpenAcks
           /\ d.type = "GET" => d.window \in 1 .. RecvWindow
<1>1. PICK i \in DOMAIN up : up[i] = d /\ up' = RemoveAt(up, i)
  BY DEF Receives, Arrives, Arriving
<1>2. d \in OpenUp /\ up' \in Seq(OpenUp)
  BY <1>1, RemoveAtType DEF PathInv
<1>3. /\ Get.type = "GET" /\ Get.window = RecvWindow /\ Bad.type = "BAD" /\ CutGet.type = "CUT"
      /\ \A a \in OpenAcks : a.type = "ACK"
  BY DEF Get, Bad, CutGet, OpenAcks
<1> QED
  BY <1>2, <1>3, NumbersType DEF OpenUp

LEMMA ReceivesUp ==
    ASSUME NEW T, up \in Seq(T), NEW d, Receives(d)
    PROVE  d \in T /\ up' \in Seq(T) /\ Len(up') <= Len(up)
<1>1. PICK i \in DOMAIN up : up[i] = d /\ up' = RemoveAt(up, i)
  BY DEF Receives, Arrives, Arriving
<1>2. up' \in Seq(T) /\ Len(up') = Len(up) - 1 /\ d \in T
  BY <1>1, RemoveAtElements, RemoveAtType
<1>3. Len(up) \in Nat
  BY LenProperties
<1> QED
  BY <1>2, <1>3

LEMMA OpenAckType ==
    ASSUME NEW d \in OpenAcks
    PROVE  d.seq \in SeqNums /\ d.window \in 1 .. RecvWindow
BY DEF OpenAcks

LEMMA ChunksType == PathInv => Chunks \in Nat /\ G12Count \in Nat
BY SetupsAssumption DEF PathInv, Chunks, G12Count

LEMMA IntervalSubset ==
    ASSUME NEW a \in Nat, NEW b \in Int, NEW S, S \subseteq a .. b
    PROVE  S \in SUBSET Nat /\ IsFiniteSet(S)
<1>1. IsFiniteSet(a .. b) /\ S \in SUBSET (a .. b)
  BY FS_Interval
<1>2. IsFiniteSet(S)
  BY <1>1, FS_Subset
<1> QED
  BY <1>1, <1>2

LEMMA SendsDown ==
    ASSUME PathInv, NEW ds \in Seq(DownDatagrams)
    PROVE  Sent(down, ds) \in Seq(DownDatagrams)
BY SentType DEF PathInv

LEMMA AheadType ==
    ASSUME NEW b \in Nat, NEW s \in SeqNums
    PROVE  Ahead(b, s) \in Nat
BY ModType, NumbersType DEF Ahead, SeqNums

LEMMA MostLeastType ==
    ASSUME NEW a \in Nat, NEW b \in Nat, NEW c \in Nat
    PROVE  Least(a, b) \in Nat /\ Most(c, Least(a, b)) \in Nat /\ Most(a, b) \in Nat
BY DEF Least, Most

LEMMA ResendsDown ==
    ASSUME PathInv, next_seq \in Nat, NEW n \in Nat,
           NEW expired \in SUBSET Nat, IsFiniteSet(expired), NEW again \in Ascending(expired)
    PROVE  Packets(again) \o Packets(New(n)) \in Seq(DownDatagrams)
<1>1. Packets(again) \in Seq(DownDatagrams) /\ Packets(New(n)) \in Seq(DownDatagrams)
  BY AscendingType, NewType
<1> QED
  BY <1>1, ConcatProperties

LEMMA ReturnKeeps ==
    ASSUME NEW state, Return(state)
    PROVE  SenderInv'
BY NumbersType, FS_EmptySet DEF Return, SenderInv

LEMMA G12TurnKeeps ==
    ASSUME PathInv, next_seq \in Nat, NEW b \in Nat, NEW w \in 1 .. RecvWindow,
           NEW expired, G12Turn(b, w, expired)
    PROVE  down' \in Seq(DownDatagrams) /\ SenderInv'
<1>1. G12Filled(b, next_seq, w) \in Nat
  <2>1. b + w \in Nat /\ G12Count \in Nat
    BY ChunksType, NumbersType
  <2> QED
    BY <2>1, MostLeastType DEF G12Filled
<1>2. next_seq' \in Nat /\ base' = b /\ window' = w /\ in_flight' = b .. next_seq' - 1
  BY <1>1 DEF G12Turn
<1>3. in_flight' \in SUBSET Nat /\ IsFiniteSet(in_flight')
  <2>1. next_seq' - 1 \in Int /\ in_flight' \subseteq b .. next_seq' - 1
    BY <1>2
  <2> QED
    BY <2>1, IntervalSubset
<1>4. expired \in SUBSET Nat /\ IsFiniteSet(expired)
  <2>1. next_seq - 1 \in Int /\ expired \subseteq b .. next_seq - 1
    BY DEF G12Turn
  <2> QED
    BY <2>1, IntervalSubset
<1>5. PICK again \in Ascending(expired) :
        down' = Sent(down, Packets(again) \o Packets(New(next_seq')))
  BY DEF G12Turn
<1>6. down' \in Seq(DownDatagrams)
  BY <1>2, <1>4, <1>5, ResendsDown, SendsDown
<1> QED
  BY <1>2, <1>3, <1>6 DEF SenderInv

LEMMA NoFileType == NoFile \in DownDatagrams
BY NumbersType DEF NoFile, Data, DownDatagrams, Payloads, SeqNums

LEMMA G12ServerKeeps ==
    ASSUME PathInv, ServerInv, NEW d, NEW expired,
           \/ G12Get(d) \/ G12Enqueue(d) \/ G12Drop(d)
           \/ G12Ack(expired) \/ G12Empty(expired)
    PROVE  ServerKeeps
<1> USE DEF ServerInv
<1>1. CASE G12Get(d)
  <2>1. up' \in Seq(OpenUp)
    BY <1>1, ReceivesType DEF G12Get
  <2>2. CASE serving = "idle" /\ setup.chunks # Missing
    <3>1. /\ next_seq' = 1 /\ in_flight' = {0} /\ down' = Sent(down, <<Packet(0)>>)
          /\ UNCHANGED <<base, window, queue>>
      BY <1>1, <2>2 DEF G12Get
    <3>2. down' \in Seq(DownDatagrams)
      BY <3>1, PacketType, OneSent DEF PathInv
    <3>3. IsFiniteSet(in_flight')
      BY <3>1, FS_Singleton
    <3> QED
      BY <2>1, <3>1, <3>2, <3>3 DEF ServerKeeps, SenderInv
  <2>3. CASE serving = "idle" /\ setup.chunks = Missing
    <3>1. down' = Sent(down, <<NoFile>>) /\ UNCHANGED <<queue, sender>>
      BY <1>1, <2>3 DEF G12Get
    <3>2. down' \in Seq(DownDatagrams)
      BY <3>1, NoFileType, OneSent DEF PathInv
    <3> QED
      BY <2>1, <3>1, <3>2 DEF ServerKeeps, SenderInv, sender
  <2>4. CASE serving # "idle"
    BY <1>1, <2>1, <2>4 DEF G12Get, ServerKeeps, PathInv, SenderInv, serverVars, sender
  <2> QED
    BY <2>2, <2>3, <2>4
<1>2. CASE G12Enqueue(d)
  <2>1. up' \in Seq(OpenUp) /\ d \in OpenAcks
    BY <1>2, ReceivesType DEF G12Enqueue
  <2>2. Append(queue, d) \in Seq(OpenAcks)
    BY <2>1
  <2> QED
    BY <1>2, <2>1, <2>2 DEF G12Enqueue, ServerKeeps, PathInv, SenderInv, sender
<1>3. CASE G12Drop(d)
  <2>1. up' \in Seq(OpenUp)
    BY <1>3, ReceivesType DEF G12Drop
  <2> QED
    BY <1>3, <2>1 DEF G12Drop, ServerKeeps, PathInv, SenderInv, serverVars, sender
<1>4. CASE G12Ack(expired)
  <2> DEFINE b == G12Confirmed(base, next_seq, Head(queue).seq)
  <2>1. Head(queue) \in OpenAcks /\ Tail(queue) \in Seq(OpenAcks)
    BY <1>4, HeadTailProperties DEF G12Ack
  <2>2. Head(queue).seq \in SeqNums /\ Head(queue).window \in 1 .. RecvWindow
    BY <2>1, OpenAckType
  <2>3. b \in Nat
    <3>1. Ahead(base, Head(queue).seq) \in Nat /\ base \in Nat
      BY <2>2, AheadType DEF SenderInv
    <3> QED
      BY <3>1 DEF G12Confirmed
  <2>4. up' \in Seq(OpenUp)
    BY <1>4 DEF G12Ack, PathInv
  <2>5. CASE Return("over") /\ queue' = <<>> /\ UNCHANGED down
    BY <2>4, <2>5, ReturnKeeps DEF ServerKeeps, PathInv
  <2>6. CASE G12Turn(b, Head(queue).window, expired) /\ queue' = Tail(queue)
    <3> HIDE DEF b
    <3>1. down' \in Seq(DownDatagrams) /\ SenderInv'
      BY <2>2, <2>3, <2>6, G12TurnKeeps DEF SenderInv
    <3> QED
      BY <2>1, <2>4, <2>6, <3>1 DEF ServerKeeps
  <2> QED
    BY <1>4, <2>5, <2>6 DEF G12Ack
<1>5. CASE G12Empty(expired)
  <2>1. down' \in Seq(DownDatagrams) /\ SenderInv'
    BY <1>5, G12TurnKeeps DEF G12Empty, SenderInv
  <2> QED
    BY <1>5, <2>1 DEF G12Empty, ServerKeeps, PathInv
<1> QED
  BY <1>1, <1>2, <1>3, <1>4, <1>5

LEMMA RepliesDown ==
    ASSUME PathInv
    PROVE  GetReply \in DownDatagrams /\ EndPacket \in DownDatagrams
<1>1. Chunks % SeqCount \in SeqNums /\ 1 % SeqCount \in SeqNums
  BY ChunksType, ModType
<1> QED
  BY <1>1, NumbersType
  DEF GetReply, EndPacket, Ack, Data, DownDatagrams, Acks, Payloads

LEMMA G3TurnKeeps ==
    ASSUME PathInv, next_seq \in Nat, NEW ahead \in Seq(DownDatagrams), NEW b \in Nat,
           NEW w \in 1 .. RecvWindow, NEW kept \in SUBSET Nat, IsFiniteSet(kept),
           NEW expired, G3Turn(ahead, b, w, kept, expired)
    PROVE  down' \in Seq(DownDatagrams) /\ SenderInv'
<1> DEFINE n == G3Filled(b, next_seq, w)
           end == IF b >= Chunks THEN <<EndPacket>> ELSE <<>>
<1>1. n \in Nat
  <2>1. b + w \in Nat /\ Chunks \in Nat
    BY ChunksType, NumbersType
  <2> QED
    BY <2>1, MostLeastType DEF G3Filled
<1>2. /\ next_seq' = n /\ base' = b /\ window' = w
      /\ in_flight' = kept \cup (next_seq .. n - 1)
      /\ expired \subseteq kept
  BY DEF G3Turn
<1>3. PICK again \in Ascending(expired) :
        down' = Sent(down, ahead \o Packets(again) \o Packets(New(n)) \o end)
  BY DEF G3Turn
<1>4. end \in Seq(DownDatagrams)
  BY RepliesDown
<1> HIDE DEF n, end
<1>5. in_flight' \in SUBSET Nat /\ IsFiniteSet(in_flight')
  <2>1. n - 1 \in Int
    BY <1>1
  <2>2. (next_seq .. n - 1) \in SUBSET Nat /\ IsFiniteSet(next_seq .. n - 1)
    BY <2>1, IntervalSubset
  <2>3. IsFiniteSet(kept \cup (next_seq .. n - 1))
    BY <2>2, FS_Union
  <2> QED
    BY <1>2, <2>2, <2>3
<1>6. expired \in SUBSET Nat /\ IsFiniteSet(expired)
  <2>1. IsFiniteSet(expired)
    BY <1>2, FS_Subset
  <2> QED
    BY <1>2, <2>1
<1>7. down' \in Seq(DownDatagrams)
  <2>1. Packets(again) \in Seq(DownDatagrams) /\ Packets(New(n)) \in Seq(DownDatagrams)
    BY <1>1, <1>6, AscendingType, NewType
  <2>2. ahead \o Packets(again) \in Seq(DownDatagrams)
    BY <2>1, ConcatProperties
  <2>3. ahead \o Packets(again) \o Packets(New(n)) \in Seq(DownDatagrams)
    BY <2>1, <2>2, ConcatProperties
  <2>4. ahead \o Packets(again) \o Packets(New(n)) \o end \in Seq(DownDatagrams)
    BY <1>4, <2>3, ConcatProperties
  <2> QED
    BY <1>3, <2>4, SendsDown
<1> QED
  BY <1>1, <1>2, <1>5, <1>7 DEF SenderInv

\* The empty packet is sent again, or the server returns.
LEMMA G3EndAgainKeeps ==
    ASSUME PathInv, ServerInv, G3EndAgain
    PROVE  down' \in Seq(DownDatagrams) /\ ServerInv'
<1>1. CASE Return("idle") /\ UNCHANGED <<down, queue>>
  BY <1>1, ReturnKeeps DEF PathInv, ServerInv
<1>2. CASE /\ down' = Sent(down, <<EndPacket>>)
           /\ UNCHANGED <<queue, base, next_seq, window, in_flight>>
  <2>1. down' \in Seq(DownDatagrams)
    BY <1>2, RepliesDown, OneSent DEF PathInv
  <2> QED
    BY <1>2, <2>1 DEF ServerInv, SenderInv
<1> QED
  BY <1>1, <1>2 DEF G3EndAgain

LEMMA G3ServerKeeps ==
    ASSUME PathInv, ServerInv, NEW d, NEW expired,
           \/ G3Get(d) \/ G3Drop(d) \/ G3Ack(d) \/ G3Skip(d) \/ G3EndAck(d)
           \/ G3Expire(expired) \/ G3EndTimeout
    PROVE  ServerKeeps
<1> USE DEF ServerInv
<1>0. down \in Seq(DownDatagrams) /\ up \in Seq(OpenUp)
  BY DEF PathInv
<1>1. CASE G3Get(d)
  <2>1. up' \in Seq(OpenUp) /\ Most(1, d.window) \in 1 .. RecvWindow
    BY <1>1, ReceivesType, NumbersType DEF G3Get, Most
  <2>2. <<GetReply>> \in Seq(DownDatagrams)
    BY RepliesDown
  <2>3. {} \in SUBSET Nat /\ IsFiniteSet({})
    BY FS_EmptySet
  <2>4. G3Turn(<<GetReply>>, 0, Most(1, d.window), {}, {}) /\ queue' = queue
    BY <1>1 DEF G3Get, G3Turn
  <2>5. down' \in Seq(DownDatagrams) /\ SenderInv'
    BY <2>1, <2>2, <2>3, <2>4, G3TurnKeeps DEF SenderInv
  <2> QED
    BY <2>1, <2>4, <2>5 DEF ServerKeeps
<1>2. CASE G3Drop(d)
  <2>1. up' \in Seq(OpenUp)
    BY <1>2, ReceivesType DEF G3Drop
  <2> QED
    BY <1>0, <1>2, <2>1 DEF G3Drop, ServerKeeps, SenderInv, serverVars, sender
<1>3. CASE G3Ack(d)
  <2> DEFINE b == G3Confirmed(base, d.seq)
             kept == in_flight \ (base .. b - 1)
  <2>1. up' \in Seq(OpenUp) /\ d \in OpenAcks
    BY <1>3, ReceivesType DEF G3Ack
  <2>2. d.seq \in SeqNums /\ d.window \in 1 .. RecvWindow
    BY <2>1, OpenAckType
  <2>3. b \in Nat
    <3>1. base \in Nat /\ Ahead(base, d.seq) \in Nat /\ Chunks \in Nat
      BY <2>2, AheadType, ChunksType DEF SenderInv
    <3> QED
      BY <3>1 DEF G3Confirmed, Least
  <2>4. kept \in SUBSET Nat /\ IsFiniteSet(kept)
    BY FS_Subset DEF SenderInv
  <2>5. PICK gone \in SUBSET kept : G3Turn(<<>>, b, d.window, kept, gone)
    BY <1>3 DEF G3Ack
  <2>6. queue' = queue /\ <<>> \in Seq(DownDatagrams)
    BY <2>5 DEF G3Turn
  <2> HIDE DEF b, kept
  <2>7. down' \in Seq(DownDatagrams) /\ SenderInv'
    BY <2>2, <2>3, <2>4, <2>5, <2>6, G3TurnKeeps DEF SenderInv
  <2> QED
    BY <2>1, <2>6, <2>7 DEF ServerKeeps
<1>4. CASE G3Skip(d)
  <2>1. up' \in Seq(OpenUp)
    BY <1>4, ReceivesType DEF G3Skip
  <2>2. (IF d.type = "GET" THEN <<GetReply>> ELSE <<>>) \in Seq(DownDatagrams)
    BY RepliesDown
  <2>3. down' \in Seq(DownDatagrams)
    BY <1>4, <2>2, SendsDown DEF G3Skip
  <2> QED
    BY <1>4, <2>1, <2>3 DEF G3Skip, ServerKeeps, SenderInv, serverVars, sender
<1>5. CASE G3EndAck(d)
  <2>1. up' \in Seq(OpenUp)
    BY <1>5, ReceivesType DEF G3EndAck
  <2>2. CASE Return("idle") /\ UNCHANGED <<down, queue>>
    BY <1>0, <2>1, <2>2, ReturnKeeps DEF ServerKeeps
  <2>3. CASE G3EndAgain
    BY <2>1, <2>3, G3EndAgainKeeps DEF ServerKeeps
  <2> QED
    BY <1>5, <2>2, <2>3 DEF G3EndAck
<1>6. CASE G3Expire(expired)
  <2>1. <<>> \in Seq(DownDatagrams) /\ up' = up /\ queue' = queue
    BY <1>6 DEF G3Expire, G3Turn
  <2>2. down' \in Seq(DownDatagrams) /\ SenderInv'
    BY <1>6, <2>1, G3TurnKeeps DEF G3Expire, SenderInv
  <2> QED
    BY <1>0, <2>1, <2>2 DEF ServerKeeps
<1>7. CASE G3EndTimeout
  BY <1>0, <1>7, G3EndAgainKeeps DEF G3EndTimeout, ServerKeeps
<1> QED
  BY <1>1, <1>2, <1>3, <1>4, <1>5, <1>6, <1>7

LEMMA G2FilledType ==
    ASSUME PathInv, NEW b \in Nat, NEW n \in Nat, NEW w \in 1 .. RecvWindow
    PROVE  G2Filled(b, n, w) \in Nat
<1>1. Chunks \in Nat
  BY ChunksType
<1>2. b + (IF n = b THEN Most(w, 1) ELSE w) \in Nat
  BY NumbersType DEF Most
<1> QED
  BY <1>1, <1>2, MostLeastType DEF G2Filled

LEMMA G2TurnKeeps ==
    ASSUME PathInv, next_seq \in Nat, NEW b \in Nat, NEW w \in 1 .. RecvWindow,
           NEW expired, G2Turn(b, w, expired)
    PROVE  down' \in Seq(DownDatagrams) /\ SenderInv' /\ queue' = queue
<1>1. CASE /\ Return("idle")
           /\ down' = Sent(down, <<Data(next_seq % SeqCount, EOF)>>)
  <2>1. next_seq % SeqCount \in SeqNums
    BY ModType
  <2>2. Data(next_seq % SeqCount, EOF) \in DownDatagrams
    BY <2>1 DEF Data, DownDatagrams, Payloads
  <2>3. down' \in Seq(DownDatagrams)
    BY <1>1, <2>2, OneSent DEF PathInv
  <2> QED
    BY <1>1, <2>3, ReturnKeeps DEF G2Turn
<1>2. CASE /\ base' = b /\ window' = w
           /\ next_seq' = G2Filled(b, next_seq, w)
           /\ in_flight' = b .. next_seq' - 1
           /\ \E again \in Ascending(expired) :
                down' = Sent(down, Packets(again) \o Packets(New(next_seq')))
  <2>1. next_seq' \in Nat
    BY <1>2, G2FilledType
  <2>2. in_flight' \in SUBSET Nat /\ IsFiniteSet(in_flight')
    <3>1. next_seq' - 1 \in Int /\ in_flight' \subseteq b .. next_seq' - 1
      BY <1>2, <2>1
    <3> QED
      BY <3>1, IntervalSubset
  <2>3. expired \in SUBSET Nat /\ IsFiniteSet(expired)
    <3>1. next_seq - 1 \in Int /\ expired \subseteq b .. next_seq - 1
      BY DEF G2Turn
    <3> QED
      BY <3>1, IntervalSubset
  <2>4. PICK again \in Ascending(expired) :
          down' = Sent(down, Packets(again) \o Packets(New(next_seq')))
    BY <1>2
  <2>5. down' \in Seq(DownDatagrams)
    BY <2>1, <2>3, <2>4, ResendsDown, SendsDown
  <2> QED
    BY <1>2, <2>1, <2>2, <2>5 DEF SenderInv, G2Turn
<1> QED
  BY <1>1, <1>2 DEF G2Turn

LEMMA G2ServerKeeps ==
    ASSUME PathInv, ServerInv, NEW d, NEW expired,
           \/ G2Get(d) \/ G2CutGet(d) \/ G2Drop(d) \/ G2Ack(d) \/ G2Skip(d)
           \/ G2Idle(expired)
    PROVE  ServerKeeps
<1> USE DEF ServerInv
<1>0. down \in Seq(DownDatagrams) /\ up \in Seq(OpenUp)
  BY DEF PathInv
<1>1. CASE G2Get(d)
  <2>1. up' \in Seq(OpenUp)
    BY <1>1, ReceivesType DEF G2Get
  <2>2. CASE down' = Sent(down, <<NoFile>>) /\ UNCHANGED serverVars
    <3>1. down' \in Seq(DownDatagrams)
      BY <2>2, NoFileType, OneSent DEF PathInv
    <3> QED
      BY <2>1, <2>2, <3>1 DEF ServerKeeps, SenderInv, serverVars, sender
  <2>3. CASE /\ next_seq' = G2Filled(0, 0, 1)
             /\ in_flight' = 0 .. next_seq' - 1
             /\ down' = Sent(down, Packets(New(next_seq')))
             /\ UNCHANGED <<base, window, queue>>
    <3>1. next_seq' \in Nat
      BY <2>3, G2FilledType, NumbersType
    <3>2. in_flight' \in SUBSET Nat /\ IsFiniteSet(in_flight')
      <4>1. next_seq' - 1 \in Int /\ in_flight' \subseteq 0 .. next_seq' - 1
        BY <2>3, <3>1
      <4> QED
        BY <4>1, IntervalSubset
    <3>3. down' \in Seq(DownDatagrams)
      <4>1. Packets(New(next_seq')) \in Seq(DownDatagrams)
        BY <3>1, NewType DEF SenderInv
      <4> QED
        BY <2>3, <4>1, SendsDown
    <3> QED
      BY <2>1, <2>3, <3>1, <3>2, <3>3 DEF ServerKeeps, SenderInv
  <2> QED
    BY <1>1, <2>2, <2>3 DEF G2Get
<1>2. CASE G2Drop(d)
  <2>1. up' \in Seq(OpenUp)
    BY <1>2, ReceivesType DEF G2Drop
  <2> QED
    BY <1>0, <1>2, <2>1 DEF G2Drop, ServerKeeps, SenderInv, serverVars, sender
<1>6. CASE G2CutGet(d)
  <2>1. up' \in Seq(OpenUp)
    BY <1>6, ReceivesType DEF G2CutGet
  <2>2. down' \in Seq(DownDatagrams)
    BY <1>6, NoFileType, OneSent DEF G2CutGet, PathInv
  <2> QED
    BY <1>6, <2>1, <2>2 DEF G2CutGet, ServerKeeps, SenderInv, serverVars, sender
<1>3. CASE G2Ack(d)
  <2> DEFINE b == G2Confirmed(base, next_seq, d.seq)
  <2>1. up' \in Seq(OpenUp) /\ d \in OpenAcks
    BY <1>3, ReceivesType DEF G2Ack
  <2>2. d.seq \in SeqNums /\ d.window \in 1 .. RecvWindow
    BY <2>1, OpenAckType
  <2>3. b \in Nat
    <3>1. base \in Nat /\ next_seq \in Nat /\ Ahead(base, d.seq) \in Nat
      BY <2>2, AheadType DEF SenderInv
    <3> QED
      BY <3>1 DEF G2Confirmed, Least
  <2>4. PICK gone \in SUBSET (b .. next_seq - 1) : G2Turn(b, d.window, gone)
    BY <1>3 DEF G2Ack
  <2> HIDE DEF b
  <2>5. down' \in Seq(DownDatagrams) /\ SenderInv' /\ queue' = queue
    BY <2>2, <2>3, <2>4, G2TurnKeeps DEF SenderInv
  <2> QED
    BY <2>1, <2>5 DEF ServerKeeps
<1>4. CASE G2Skip(d)
  <2>1. up' \in Seq(OpenUp)
    BY <1>4, ReceivesType DEF G2Skip
  <2>2. PICK gone \in SUBSET (base .. next_seq - 1) : G2Turn(base, window, gone)
    BY <1>4 DEF G2Skip
  <2>3. down' \in Seq(DownDatagrams) /\ SenderInv' /\ queue' = queue
    BY <2>2, G2TurnKeeps DEF SenderInv
  <2> QED
    BY <2>1, <2>3 DEF ServerKeeps
<1>5. CASE G2Idle(expired)
  <2>1. down' \in Seq(DownDatagrams) /\ SenderInv' /\ queue' = queue
    BY <1>5, G2TurnKeeps DEF G2Idle, SenderInv
  <2> QED
    BY <1>0, <1>5, <2>1 DEF G2Idle, ServerKeeps
<1> QED
  BY <1>1, <1>2, <1>3, <1>4, <1>5, <1>6

LEMMA ServerStepKeeps == PeerInv /\ ServerStep => PeerInv'
<1> SUFFICES ASSUME PeerInv, ServerStep
             PROVE  PeerInv'
  OBVIOUS
<1> USE DEF PeerInv
<1>1. ASSUME NEW d, ServerReads(d)
      PROVE  ServerKeeps
  BY <1>1, G12ServerKeeps, G3ServerKeeps, G2ServerKeeps DEF ServerReads
<1>2. ASSUME NEW expired, ServerRuns(expired)
      PROVE  ServerKeeps
  BY <1>2, G12ServerKeeps, G3ServerKeeps, G2ServerKeeps DEF ServerRuns
<1>3. ServerKeeps /\ UNCHANGED <<setup, clientVars>>
  BY <1>1, <1>2 DEF ServerStep
<1> QED
  BY <1>3 DEF ServerKeeps, PathInv, ClientInv, clientVars

-----------------------------------------------------------------------------
\* The path's steps.

\* One datagram is lost, arrives damaged, or is a GET that is cut.
Spoils(q, r) == \E i \in DOMAIN q : r = RemoveAt(q, i) \/ r = [q EXCEPT ![i] = Bad]
CutsGet == GetsCut /\ \E i \in DOMAIN up : up[i] = Get /\ up' = [up EXCEPT ![i] = CutGet]

LEMMA PathStepDoes ==
    ASSUME PathStep
    PROVE  /\ UNCHANGED <<setup, clientVars, serverVars>>
           /\ \/ UNCHANGED down /\ (Spoils(up, up') \/ CutsGet)
              \/ UNCHANGED up /\ Spoils(down, down')
<1>1. CASE Lose \/ Damage
  BY <1>1, Zenon DEF PathStep, Lose, Damage, Spoils
<1>2. CASE Cut
  <2>1. CASE \E i \in DOMAIN down : down' = [down EXCEPT ![i] = Bad] /\ UNCHANGED up
    BY <2>1, Zenon DEF PathStep, Spoils
  <2>2. ASSUME NEW i \in DOMAIN up, up[i] = Get, "cut" \in setup.faults, UNCHANGED down,
               up' = [up EXCEPT ![i] = IF setup.client = "G2" THEN CutGet ELSE Bad]
        PROVE  Spoils(up, up') \/ CutsGet
    <3>1. CASE setup.client = "G2"
      <4>1. up' = [up EXCEPT ![i] = CutGet]
        BY <2>2, <3>1
      <4> QED
        BY <2>2, <3>1, <4>1 DEF CutsGet, GetsCut
    <3>2. CASE setup.client # "G2"
      <4>1. up' = [up EXCEPT ![i] = Bad]
        BY <2>2, <3>2
      <4> QED
        BY <4>1 DEF Spoils
    <3> QED
      BY <3>1, <3>2
  <2> QED
    BY <1>2, <2>1, <2>2 DEF PathStep, Cut
<1> QED
  BY <1>1, <1>2 DEF PathStep

LEMMA SpoilsElements ==
    ASSUME NEW S, NEW q \in Seq(S), Bad \in S, NEW r, Spoils(q, r)
    PROVE  r \in Seq(S) /\ Len(r) \in Nat /\ Len(r) <= Len(q)
<1>1. PICK i \in DOMAIN q : r = RemoveAt(q, i) \/ r = [q EXCEPT ![i] = Bad]
  BY DEF Spoils
<1>2. Len(q) \in Nat
  BY LenProperties
<1>3. CASE r = RemoveAt(q, i)
  <2>1. r \in Seq(S) /\ Len(r) = Len(q) - 1
    BY <1>3, RemoveAtElements
  <2> QED
    BY <1>2, <2>1, LenProperties
<1>4. CASE r = [q EXCEPT ![i] = Bad]
  <2>1. r \in Seq(S) /\ Len(r) = Len(q)
    BY <1>4, ExceptSeq
  <2> QED
    BY <1>2, <2>1
<1> QED
  BY <1>1, <1>3, <1>4

LEMMA CutsElements ==
    ASSUME up \in Seq(OpenUp), CutsGet
    PROVE  up' \in Seq(OpenUp) /\ Len(up') = Len(up)
<1>1. PICK i \in DOMAIN up : up' = [up EXCEPT ![i] = CutGet]
  BY DEF CutsGet
<1>2. CutGet \in OpenUp
  BY DEF OpenUp
<1> QED
  BY <1>1, <1>2, ExceptSeq

LEMMA PathStepKeeps == PeerInv /\ PathStep => PeerInv'
<1> SUFFICES ASSUME PeerInv, PathStep
             PROVE  PeerInv'
  OBVIOUS
<1> USE DEF PeerInv
<1>1. up \in Seq(OpenUp) /\ down \in Seq(DownDatagrams)
  BY DEF PathInv
<1>2. Bad \in OpenUp /\ Bad \in DownDatagrams
  BY DEF OpenUp, DownDatagrams
<1>3. up' \in Seq(OpenUp) /\ down' \in Seq(DownDatagrams)
  BY <1>1, <1>2, PathStepDoes, SpoilsElements, CutsElements
<1>4. UNCHANGED <<setup, clientVars, serverVars>>
  BY DEF PathStep
<1> QED
  BY <1>3, <1>4
  DEF PathInv, ClientInv, ServerInv, SenderInv, clientVars, serverVars, sender

-----------------------------------------------------------------------------
LEMMA InitHolds == Init => PeerInv
<1> SUFFICES ASSUME Init
             PROVE  PeerInv
  OBVIOUS
<1>1. <<Get>> \in Seq(OpenUp) /\ <<>> \in Seq(DownDatagrams) /\ <<>> \in Seq(OpenAcks)
  BY DEF OpenUp
<1>2. PathInv
  BY <1>1 DEF Init, PathInv
<1>3. ClientInv
  BY DEF Init, ClientInit, NoPayloads, ClientInv
<1>4. ServerInv
  BY <1>1, FS_EmptySet, NumbersType DEF Init, ServerInit, ServerInv, SenderInv
<1> QED
  BY <1>2, <1>3, <1>4 DEF PeerInv

LEMMA NextKeeps == PeerInv /\ [Next]_vars => PeerInv'
<1> SUFFICES ASSUME PeerInv, [Next]_vars
             PROVE  PeerInv'
  OBVIOUS
<1>1. CASE UNCHANGED vars
  BY <1>1 DEF vars, netVars, clientVars, serverVars, sender, PeerInv, PathInv,
              ClientInv, ServerInv, SenderInv
<1> QED
  BY <1>1, ClientStepKeeps, ServerStepKeeps, PathStepKeeps DEF Next

LEMMA InvOpens == PeerInv => WindowOpen
<1> SUFFICES ASSUME PeerInv
             PROVE  WindowOpen
  OBVIOUS
<1>1. window > 0
  BY NumbersType DEF PeerInv, ServerInv, SenderInv
<1>2. ASSUME NEW i \in DOMAIN up, up[i].type = "ACK"
      PROVE  up[i].window > 0
  <2>1. up[i] \in OpenUp
    BY DEF PeerInv, PathInv
  <2>2. up[i] \in OpenAcks
    BY <1>2, <2>1 DEF OpenUp, Get, Bad, CutGet
  <2> QED
    BY <2>2, OpenAckType, NumbersType
<1>3. ASSUME NEW i \in DOMAIN queue
      PROVE  queue[i].window > 0
  <2>1. queue[i] \in OpenAcks
    BY DEF PeerInv, ServerInv
  <2> QED
    BY <2>1, OpenAckType, NumbersType
<1> QED
  BY <1>1, <1>2, <1>3 DEF WindowOpen

(***************************************************************************)
(* Whatever the programs, the path and the file, no client closes its      *)
(* window, and no server of G12 or 3 is left with one it cannot open       *)
(* again.                                                                  *)
(***************************************************************************)
THEOREM WindowNeverCloses == Spec => []WindowOpen
<1>1. Spec => []PeerInv
  BY InitHolds, NextKeeps, PTL DEF Spec
<1> QED
  BY <1>1, InvOpens, PTL

-----------------------------------------------------------------------------
(***************************************************************************)
(* G12's server tells old ACKs from new ones, for files that fit the       *)
(* sequence numbers, over any path.                                        *)
(***************************************************************************)
\* What G12's server sends of a file of n chunks: its packets and the empty one.
FileDown(n) == {Bad} \cup {Data(j, IF j < n THEN j ELSE EOF) : j \in 0 .. n}

\* The ACKs that a client may have sent which expects packet e.
Told(e) == [type : {"ACK"}, seq : 0 .. e, window : 1 .. RecvWindow]
UpTold(e) == {Get, Bad} \cup Told(e)

(***************************************************************************)
(* The invariant.  A client holds and expects only packets of the file; it *)
(* has acknowledged no more than it expects; the server has confirmed no   *)
(* more than was acknowledged.  Group 3's client never gets beyond its     *)
(* GET, which G12's server does not acknowledge.                           *)
(***************************************************************************)
FileInv == down \in Seq(FileDown(Chunks))
HeldInv ==
    /\ expected \in 0 .. Chunks /\ DOMAIN buffer \subseteq 0 .. Chunks - 1
    /\ setup.client = "G3" => status \in {"asking", "failed"}
ToldInv ==
    status # "complete" => up \in Seq(UpTold(expected)) /\ queue \in Seq(Told(expected))
SentInv ==
    /\ next_seq \in 0 .. G12Count /\ base <= next_seq
    /\ serving = "idle" => base = 0
    /\ status # "complete" => base <= expected
    /\ serving = "over" => status = "complete" \/ setup.chunks = Missing

Sound == PeerInv /\ FileInv /\ HeldInv /\ ToldInv /\ SentInv
OldAckInv == OldAcksTold => FileInv /\ HeldInv /\ ToldInv /\ SentInv

-----------------------------------------------------------------------------
LEMMA SeqInto ==
    ASSUME NEW S, NEW T, NEW q \in Seq(S), \A i \in 1 .. Len(q) : q[i] \in T
    PROVE  q \in Seq(T)
<1>1. Len(q) \in Nat /\ q \in [1 .. Len(q) -> S]
  BY LenProperties
<1>2. q \in [1 .. Len(q) -> T]
  BY <1>1
<1> QED
  BY <1>1, <1>2, FunctionIsSeq

LEMMA ToldGrows ==
    ASSUME NEW e \in Nat, NEW f \in Nat, e <= f
    PROVE  /\ \A q \in Seq(Told(e)) : q \in Seq(Told(f))
           /\ \A q \in Seq(UpTold(e)) : q \in Seq(UpTold(f))
<1>1. Told(e) \subseteq Told(f) /\ UpTold(e) \subseteq UpTold(f)
  BY DEF Told, UpTold
<1>2. ASSUME NEW q \in Seq(Told(e))
      PROVE  q \in Seq(Told(f))
  <2>1. \A i \in 1 .. Len(q) : q[i] \in Told(f)
    BY <1>1, ElementOfSeq
  <2> QED
    BY <2>1, SeqInto
<1>3. ASSUME NEW q \in Seq(UpTold(e))
      PROVE  q \in Seq(UpTold(f))
  <2>1. \A i \in 1 .. Len(q) : q[i] \in UpTold(f)
    BY <1>1, ElementOfSeq
  <2> QED
    BY <2>1, SeqInto
<1> QED
  BY <1>2, <1>3

\* The file is shorter than a turn of sequence numbers.
LEMMA SmallNumber ==
    ASSUME PathInv, OldAcksTold, NEW i \in 0 .. Chunks
    PROVE  i % SeqCount = i /\ i \in SeqNums
<1>1. i \in SeqNums /\ i \in Int /\ 0 \in Int /\ i = 0 * SeqCount + i
  BY ChunksType, NumbersType DEF OldAcksTold, FitsNumbers, SeqNums
<1> QED
  BY <1>1, ModUnique

LEMMA FilePacket ==
    ASSUME PathInv, OldAcksTold, NEW i \in 0 .. Chunks
    PROVE  Packet(i) \in FileDown(Chunks)
<1>1. Packet(i) = Data(i, IF i < Chunks THEN i ELSE EOF)
  BY SmallNumber DEF Packet
<1> QED
  BY <1>1 DEF FileDown

LEMMA FilePackets ==
    ASSUME PathInv, OldAcksTold, NEW is \in Seq(0 .. Chunks)
    PROVE  Packets(is) \in Seq(FileDown(Chunks))
<1>1. Len(is) \in Nat /\ DOMAIN is = 1 .. Len(is) /\ \A k \in 1 .. Len(is) : is[k] \in 0 .. Chunks
  BY LenProperties, ElementOfSeq
<1>2. Packets(is) \in [1 .. Len(is) -> FileDown(Chunks)]
  BY <1>1, FilePacket DEF Packets
<1> QED
  BY <1>1, <1>2, FunctionIsSeq

\* What is sent in a turn, again and for the first time, is of the file.
LEMMA FileSent ==
    ASSUME PathInv, OldAcksTold, next_seq \in Nat, NEW n \in 0 .. G12Count,
           NEW expired, expired \subseteq 0 .. Chunks, NEW again \in Ascending(expired)
    PROVE  Packets(again) \o Packets(New(n)) \in Seq(FileDown(Chunks))
<1>1. Packets(again) \in Seq(FileDown(Chunks))
  <2>1. IsFiniteSet(expired)
    <3>1. IsFiniteSet(0 .. Chunks) /\ expired \in SUBSET (0 .. Chunks)
      BY ChunksType, FS_Interval
    <3> QED
      BY <3>1, FS_Subset
  <2>2. Cardinality(expired) \in Nat
    BY <2>1, FS_CardinalityType
  <2>3. again \in [1 .. Cardinality(expired) -> 0 .. Chunks]
    BY DEF Ascending
  <2>4. again \in Seq(0 .. Chunks)
    BY <2>2, <2>3, FunctionIsSeq
  <2> QED
    BY <2>4, FilePackets
<1>2. Packets(New(n)) \in Seq(FileDown(Chunks))
  <2> DEFINE m == IF n >= next_seq THEN n - next_seq ELSE 0
  <2>1. m \in Nat /\ 1 .. n - next_seq = 1 .. m
    BY ChunksType
  <2>2. \A k \in 1 .. m : next_seq + k - 1 \in 0 .. Chunks
    BY ChunksType DEF G12Count
  <2>3. New(n) \in [1 .. m -> 0 .. Chunks]
    BY <2>1, <2>2 DEF New
  <2> HIDE DEF m
  <2>4. New(n) \in Seq(0 .. Chunks)
    BY <2>1, <2>3, FunctionIsSeq
  <2> QED
    BY <2>4, FilePackets
<1> QED
  BY <1>1, <1>2, ConcatProperties

-----------------------------------------------------------------------------
\* The client's steps.

\* What a client's step must establish.
ClientSound ==
    /\ down' \in Seq(FileDown(Chunks))
    /\ expected' \in 0 .. Chunks /\ expected <= expected'
    /\ DOMAIN buffer' \subseteq 0 .. Chunks - 1
    /\ setup.client = "G3" => status' \in {"asking", "failed"}
    /\ status # "complete"
    /\ status' # "complete" => up' \in Seq(UpTold(expected'))

LEMMA ReadsFile ==
    ASSUME FileInv, NEW d, Reads(d)
    PROVE  d \in FileDown(Chunks) /\ down' \in Seq(FileDown(Chunks))
<1>1. PICK i \in DOMAIN down : down[i] = d /\ down' = RemoveAt(down, i)
  BY DEF Reads, Arrives, Arriving
<1> QED
  BY <1>1, RemoveAtType DEF FileInv

\* No ACK comes from G12's server.
LEMMA FileTypes ==
    ASSUME NEW n \in Nat, NEW d \in FileDown(n)
    PROVE  d.type # "ACK"
BY DEF FileDown, Bad, Data

LEMMA FileData ==
    ASSUME NEW n \in Nat, NEW s, NEW p, Data(s, p) \in FileDown(n)
    PROVE  s \in 0 .. n /\ p = IF s < n THEN s ELSE EOF
BY DEF FileDown, Bad, Data

\* A client that expects a packet of the file keeps no other.
LEMMA KeepsFile ==
    ASSUME PathInv, OldAcksTold, ClientInv, HeldInv, NEW s \in 0 .. Chunks - 1, NEW p
    PROVE  DOMAIN (IF InWindow(s) THEN Stored(s, p) ELSE buffer) \subseteq 0 .. Chunks - 1
<1>1. Chunks \in Nat /\ expected \in Nat
  BY ChunksType DEF ClientInv
<1>2. CASE InWindow(s)
  <2>1. Distance(s) = IF s >= expected THEN s - expected ELSE s - expected + SeqCount
    <3>1. s \in Nat /\ s - expected < SeqCount /\ expected - s < SeqCount
      BY <1>1, NumbersType DEF HeldInv, OldAcksTold, FitsNumbers
    <3>2. Ahead(expected, s % SeqCount) = IF s >= expected THEN s - expected
                                          ELSE s - expected + SeqCount
      BY <1>1, <3>1, AheadExact
    <3>3. s % SeqCount = s
      BY <1>1, SmallNumber
    <3> QED
      BY <3>2, <3>3 DEF Distance, Ahead
  <2>2. s >= expected /\ expected + Distance(s) = s
    BY <1>1, <1>2, <2>1, NumbersType DEF InWindow, HeldInv, OldAcksTold, FitsNumbers
  <2>3. DOMAIN Stored(s, p) = DOMAIN buffer \cup {s}
    BY <2>2 DEF Stored
  <2> QED
    BY <1>2, <2>3 DEF HeldInv
<1> QED
  BY <1>2 DEF HeldInv

\* It expects only packets of the file, and the end.
LEMMA ReassembledFile ==
    ASSUME PathInv, ClientInv, HeldInv, NEW buf,
           DOMAIN buf \subseteq 0 .. Chunks - 1,
           DOMAIN buf \subseteq expected .. expected + RecvWindow - 1,
           Reassembled(buf)
    PROVE  /\ expected' \in 0 .. Chunks /\ expected <= expected'
           /\ DOMAIN buffer' \subseteq 0 .. Chunks - 1
<1>1. expected \in Nat /\ expected' \in Nat /\ expected' >= expected
  BY FirstMissingType DEF Reassembled, ClientInv
<1>2. expected' <= Chunks
  <2>1. CASE expected' = expected
    BY <2>1 DEF HeldInv
  <2>2. CASE expected' > expected
    <3>1. expected' - 1 \in expected .. expected' - 1
      <4>1. \A x, y \in Nat : x > y => x - 1 \in y .. x - 1
        OBVIOUS
      <4> QED
        BY <1>1, <2>2, <4>1
    <3>2. \A j \in expected .. expected' - 1 : j \in DOMAIN buf
      BY FirstMissingType DEF Reassembled, ClientInv
    <3>3. expected' - 1 \in 0 .. Chunks - 1
      BY <3>1, <3>2, Zenon
    <3> QED
      BY <1>1, <3>3, ChunksType
  <2> QED
    BY <1>1, <2>1, <2>2
<1>3. DOMAIN buffer' \subseteq DOMAIN buf
  BY DEF Reassembled
<1> QED
  BY <1>1, <1>2, <1>3, ChunksType

LEMMA SendsTold ==
    ASSUME NEW e \in Nat, up \in Seq(UpTold(e)), NEW d \in UpTold(e)
    PROVE  Sent(up, <<d>>) \in Seq(UpTold(e))
BY OneSent

LEMMA G12ClientSound ==
    ASSUME OldAcksTold, Sound, NEW d, setup.client = "G12",
           \/ G12Ignore(d)
           \/ d.type = "DATA" /\ G12Data(d.seq, d.payload)
           \/ G12Timeout(serving)
    PROVE  ClientSound
<1>0. PathInv /\ ClientInv /\ expected \in Nat /\ Chunks \in Nat
  BY ChunksType DEF Sound, PeerInv, ClientInv
<1> USE DEF Sound, HeldInv
<1>1. CASE G12Ignore(d)
  <2>1. down' \in Seq(FileDown(Chunks))
    BY <1>1, ReadsFile DEF G12Ignore
  <2> QED
    BY <1>0, <1>1, <2>1 DEF G12Ignore, clientVars, ClientSound, ToldInv
<1>2. CASE G12Timeout(serving)
  <2>1. Get \in UpTold(expected)
    BY DEF UpTold
  <2>2. status # "complete" /\ up \in Seq(UpTold(expected))
    BY <1>2 DEF G12Timeout, ToldInv
  <2>3. up' \in Seq(UpTold(expected))
    BY <1>0, <1>2, <2>1, <2>2, SendsTold DEF G12Timeout
  <2> QED
    BY <1>0, <1>2, <2>2, <2>3 DEF G12Timeout, receiver, ClientSound, FileInv
<1>3. CASE d.type = "DATA" /\ G12Data(d.seq, d.payload)
  <2> DEFINE s == d.seq
             p == d.payload
             buf == IF InWindow(s) THEN Stored(s, p) ELSE buffer
  <2>1. down' \in Seq(FileDown(Chunks)) /\ s \in 0 .. Chunks /\ p = IF s < Chunks THEN s ELSE EOF
    BY <1>0, <1>3, ReadsFile, FileData DEF G12Data
  <2>2. status # "complete" /\ up \in Seq(UpTold(expected))
    BY <1>3 DEF G12Data, ToldInv
  <2>3. \/ status' = "complete" /\ UNCHANGED receiver
        \/ p # EOF /\ Reassembled(buf) /\ SendAck(expected', buffer')
    BY <1>3 DEF G12Data
  <2> HIDE DEF s, p
  <2>4. CASE status' = "complete" /\ UNCHANGED receiver
    BY <1>0, <2>1, <2>2, <2>4 DEF receiver, ClientSound
  <2>5. CASE p # EOF /\ Reassembled(buf) /\ SendAck(expected', buffer')
    <3>1. s \in 0 .. Chunks - 1 /\ s \in SeqNums
      BY <1>0, <2>1, <2>5, SmallNumber
    <3>2. DOMAIN buf \subseteq 0 .. Chunks - 1
      BY <1>0, <3>1, KeepsFile
    <3>3. DOMAIN buf \subseteq expected .. expected + RecvWindow - 1
      BY <1>0, <3>1, StoredHeld DEF ClientInv
    <3> HIDE DEF buf
    <3>4. /\ expected' \in 0 .. Chunks /\ expected <= expected'
          /\ DOMAIN buffer' \subseteq 0 .. Chunks - 1
      BY <1>0, <2>5, <3>2, <3>3, ReassembledFile
    <3>5. Free(buffer') \in 1 .. RecvWindow
      <4>1. expected' \in Nat /\ DOMAIN buffer' \subseteq AheadOf(expected')
        BY <1>0, <2>5, <3>3, ReassembledHeld
      <4> QED
        BY <4>1, FreeType
    <3>6. Ack(expected' % SeqCount, Free(buffer')) \in UpTold(expected')
      <4>1. expected' % SeqCount = expected'
        BY <1>0, <3>4, SmallNumber
      <4> QED
        BY <3>4, <3>5, <4>1 DEF Ack, UpTold, Told
    <3>7. up \in Seq(UpTold(expected')) /\ expected' \in Nat
      BY <1>0, <2>2, <3>4, ToldGrows
    <3>8. up' \in Seq(UpTold(expected'))
      BY <2>5, <3>6, <3>7, OneSent DEF SendAck
    <3> QED
      BY <2>1, <2>2, <3>4, <3>8 DEF ClientSound
  <2> QED
    BY <2>3, <2>4, <2>5
<1> QED
  BY <1>1, <1>2, <1>3

\* Group 3's client asks in vain.
LEMMA G3ClientSound ==
    ASSUME OldAcksTold, Sound, NEW d, setup.client = "G3",
           \/ G3Answer(d) \/ G3Ignore(d)
           \/ d.type = "DATA" /\ G3Data(d.seq, d.payload)
           \/ G3Timeout
    PROVE  ClientSound
<1>0. PathInv /\ expected \in Nat /\ Chunks \in Nat
  BY ChunksType DEF Sound, PeerInv, ClientInv
<1> USE DEF Sound, HeldInv
<1>1. G3AsksAgain /\ (down' = down \/ Reads(d))
  <2>1. status \in {"asking", "failed"}
    OBVIOUS
  <2>2. CASE G3Answer(d)
    <3>1. d.type # "ACK"
      BY <1>0, <2>2, ReadsFile, FileTypes DEF G3Answer
    <3> QED
      BY <2>2, <3>1 DEF G3Answer
  <2>3. CASE G3Timeout
    BY <2>1, <2>3 DEF G3Timeout
  <2> QED
    BY <2>1, <2>2, <2>3 DEF G3Ignore, G3Data
<1>2. status # "complete" /\ up \in Seq(UpTold(expected))
  BY DEF ToldInv
<1>3. up' \in Seq(UpTold(expected)) /\ status' \in {"asking", "failed"} /\ UNCHANGED receiver
  <2>1. Get \in UpTold(expected)
    BY DEF UpTold
  <2>2. Sent(up, <<Get>>) \in Seq(UpTold(expected))
    BY <1>0, <1>2, <2>1, SendsTold
  <2> QED
    BY <1>1, <1>2, <2>2 DEF G3AsksAgain
<1>4. down' \in Seq(FileDown(Chunks))
  BY <1>1, ReadsFile DEF FileInv
<1> QED
  BY <1>0, <1>2, <1>3, <1>4 DEF receiver, ClientSound

LEMMA ClientStepSound ==
    ASSUME OldAcksTold, Sound, ClientStep
    PROVE  (FileInv /\ HeldInv /\ ToldInv /\ SentInv)'
<1>1. setup \in Setups /\ setup.server = "G12"
  BY DEF Sound, PeerInv, PathInv, OldAcksTold
<1>2. setup.client # "G2"
  BY <1>1, PairsAssumption
<1>3. ASSUME NEW d, ClientReads(d)
      PROVE  ClientSound
  BY <1>2, <1>3, G12ClientSound, G3ClientSound DEF ClientReads
<1>4. ASSUME ClientWaits
      PROVE  ClientSound
  BY <1>2, <1>4, G12ClientSound, G3ClientSound DEF ClientWaits
<1>5. ClientSound /\ UNCHANGED <<setup, serverVars>>
  BY <1>3, <1>4 DEF ClientStep
<1>6. Chunks' = Chunks /\ Chunks \in Nat /\ expected \in Nat
  BY <1>5, ChunksType DEF Chunks, Sound, PeerInv, ClientInv
<1> USE DEF ClientSound
<1>7. FileInv'
  BY <1>5, <1>6 DEF FileInv
<1>8. HeldInv'
  BY <1>5, <1>6 DEF HeldInv
<1>9. ToldInv'
  <2>1. queue \in Seq(Told(expected))
    BY <1>5 DEF Sound, ToldInv
  <2>2. queue \in Seq(Told(expected'))
    BY <1>5, <1>6, <2>1, ToldGrows
  <2> QED
    BY <1>5, <2>2 DEF ToldInv, serverVars
<1>10. SentInv'
  <2>1. base \in Nat /\ expected' \in Nat /\ expected <= expected'
    BY <1>5, <1>6 DEF Sound, PeerInv, ServerInv, SenderInv
  <2>2. base <= expected
    BY <1>5 DEF Sound, SentInv
  <2>3. base <= expected'
    BY <1>6, <2>1, <2>2
  <2>4. serving = "over" => setup.chunks = Missing
    BY <1>5 DEF Sound, SentInv
  <2>5. next_seq \in 0 .. G12Count /\ base <= next_seq /\ (serving = "idle" => base = 0)
    BY DEF Sound, SentInv
  <2>6. G12Count' = G12Count
    BY <1>6 DEF G12Count
  <2>7. UNCHANGED <<setup, serving, base, next_seq>>
    BY <1>5 DEF serverVars, sender
  <2> QED
    BY <2>3, <2>4, <2>5, <2>6, <2>7 DEF SentInv
<1> QED
  BY <1>7, <1>8, <1>9, <1>10

-----------------------------------------------------------------------------
\* The server's steps.

\* What a server's step must establish.
ServerSound ==
    /\ down' \in Seq(FileDown(Chunks))
    /\ status # "complete" => up' \in Seq(UpTold(expected)) /\ queue' \in Seq(Told(expected))
    /\ next_seq' \in 0 .. G12Count /\ base' \in Nat /\ base' <= next_seq'
    /\ serving' = "idle" => base' = 0
    /\ status # "complete" => base' <= expected
    /\ serving' = "over" => status = "complete" \/ setup.chunks = Missing

LEMMA ReceivesTold ==
    ASSUME PathInv, NEW e \in Nat, up \in Seq(UpTold(e)), NEW d, Receives(d)
    PROVE  up' \in Seq(UpTold(e)) /\ (d.type = "ACK" => d \in Told(e))
<1>1. PICK i \in DOMAIN up : up[i] = d /\ up' = RemoveAt(up, i)
  BY DEF Receives, Arrives, Arriving
<1>2. d \in UpTold(e) /\ up' \in Seq(UpTold(e))
  BY <1>1, RemoveAtType
<1>3. Get.type = "GET" /\ Bad.type = "BAD"
  BY DEF Get, Bad
<1> QED
  BY <1>2, <1>3 DEF UpTold

\* An ACK confirms nothing that has not been sent, and nothing the client has
\* not acknowledged.
LEMMA ConfirmsTold ==
    ASSUME OldAcksTold, Sound, NEW a \in OpenAcks
    PROVE  LET b == G12Confirmed(base, next_seq, a.seq)
           IN  /\ b \in Nat /\ b <= next_seq
               /\ status # "complete" /\ a \in Told(expected) => b <= expected
<1> DEFINE d == Ahead(base, a.seq)
           b == G12Confirmed(base, next_seq, a.seq)
<1>1. PathInv /\ base \in Nat /\ next_seq \in Nat /\ base <= next_seq /\ Chunks \in Nat
      /\ expected \in 0 .. Chunks /\ next_seq <= Chunks + 1 /\ a.seq \in SeqNums
  BY ChunksType, OpenAckType
  DEF Sound, PeerInv, ServerInv, SenderInv, SentInv, HeldInv, G12Count
<1>2. d \in Nat /\ b = IF d <= next_seq - base THEN base + d ELSE base
  BY <1>1, AheadType DEF G12Confirmed
<1>3. ASSUME status # "complete", a \in Told(expected)
      PROVE  b <= expected
  <2>1. a.seq \in 0 .. expected /\ a.seq \in Nat /\ base <= expected
    BY <1>1, <1>3 DEF Told, Sound, SentInv
  <2>2. Chunks + 1 < SeqCount
    BY <1>1, NumbersType DEF OldAcksTold, FitsNumbers
  <2>3. d = IF a.seq >= base THEN a.seq - base ELSE a.seq - base + SeqCount
    <3>1. a.seq - base < SeqCount /\ base - a.seq < SeqCount
      BY <1>1, <2>1, <2>2, NumbersType
    <3>2. a.seq % SeqCount = a.seq
      BY <1>1, <2>1, SmallNumber
    <3> QED
      BY <1>1, <2>1, <3>1, <3>2, AheadExact
  <2> HIDE DEF d, b
  <2> QED
    BY <1>1, <1>2, <2>1, <2>2, <2>3, NumbersType
<1> HIDE DEF d, b
<1>4. b \in Nat /\ b <= next_seq
  BY <1>1, <1>2
<1> QED
  BY <1>3, <1>4 DEF b

LEMMA G12TurnSound ==
    ASSUME OldAcksTold, Sound, NEW b \in Nat, b <= next_seq, NEW w \in 1 .. RecvWindow,
           NEW expired, G12Turn(b, w, expired)
    PROVE  /\ down' \in Seq(FileDown(Chunks))
           /\ next_seq' \in 0 .. G12Count /\ base' = b /\ b <= next_seq' /\ serving' = serving
<1>1. PathInv /\ next_seq \in 0 .. G12Count /\ G12Count \in Nat /\ G12Count = Chunks + 1
      /\ Chunks \in Nat
  BY ChunksType DEF Sound, PeerInv, SentInv, G12Count
<1>2. G12Filled(b, next_seq, w) \in 0 .. G12Count /\ next_seq <= G12Filled(b, next_seq, w)
  BY <1>1, NumbersType DEF G12Filled, Most, Least
<1>3. /\ next_seq' = G12Filled(b, next_seq, w) /\ base' = b /\ serving' = serving
      /\ expired \subseteq b .. next_seq - 1
  BY DEF G12Turn
<1>4. PICK again \in Ascending(expired) :
        down' = Sent(down, Packets(again) \o Packets(New(next_seq')))
  BY DEF G12Turn
<1>5. expired \subseteq 0 .. Chunks
  BY <1>1, <1>3
<1>6. down' \in Seq(FileDown(Chunks))
  <2>1. next_seq \in Nat /\ next_seq' \in 0 .. G12Count
    BY <1>1, <1>2, <1>3
  <2>2. Packets(again) \o Packets(New(next_seq')) \in Seq(FileDown(Chunks))
    BY <1>1, <1>5, <2>1, FileSent
  <2> QED
    BY <1>4, <2>2, SentType DEF Sound, FileInv
<1>7. next_seq' \in 0 .. G12Count /\ b <= next_seq'
  BY <1>1, <1>2, <1>3
<1> QED
  BY <1>3, <1>6, <1>7

LEMMA G12ServerSound ==
    ASSUME OldAcksTold, Sound, NEW d, NEW expired,
           \/ G12Get(d) \/ G12Enqueue(d) \/ G12Drop(d)
           \/ G12Ack(expired) \/ G12Empty(expired)
    PROVE  ServerSound
<1>0. /\ PathInv /\ expected \in Nat /\ Chunks \in Nat /\ base \in Nat /\ next_seq \in Nat
      /\ G12Count = Chunks + 1 /\ down \in Seq(FileDown(Chunks))
      /\ window \in 1 .. RecvWindow /\ queue \in Seq(OpenAcks)
      /\ expected <= Chunks
  BY ChunksType
  DEF Sound, PeerInv, ClientInv, ServerInv, SenderInv, FileInv, G12Count, HeldInv
<1>1. SentInv /\ ToldInv
  BY DEF Sound
<1>2. CASE G12Get(d)
  <2>1. status # "complete" => up' \in Seq(UpTold(expected))
    BY <1>0, <1>1, <1>2, ReceivesTold DEF G12Get, ToldInv
  <2>2. CASE serving = "idle" /\ setup.chunks # Missing
    <3>1. /\ next_seq' = 1 /\ serving' = "sending" /\ down' = Sent(down, <<Packet(0)>>)
          /\ UNCHANGED <<base, queue>>
      BY <1>2, <2>2 DEF G12Get
    <3>2. Packet(0) \in FileDown(Chunks)
      BY <1>0, FilePacket
    <3>3. down' \in Seq(FileDown(Chunks))
      BY <1>0, <3>1, <3>2, OneSent
    <3> QED
      BY <1>0, <1>1, <2>1, <2>2, <3>1, <3>3 DEF ServerSound, SentInv, ToldInv
  <2>3. CASE serving = "idle" /\ setup.chunks = Missing
    <3>1. down' = Sent(down, <<NoFile>>) /\ UNCHANGED <<queue, sender>>
      BY <1>2, <2>3 DEF G12Get
    <3>2. Chunks = 0
      BY <2>3 DEF Chunks
    <3>3. NoFile \in FileDown(Chunks)
      BY <3>2 DEF FileDown, NoFile
    <3>4. down' \in Seq(FileDown(Chunks))
      BY <1>0, <3>1, <3>3, OneSent
    <3>5. serving' = "over"
      BY <1>2, <2>3 DEF G12Get
    <3> QED
      BY <1>0, <1>1, <2>1, <2>3, <3>1, <3>4, <3>5 DEF ServerSound, SentInv, ToldInv, sender
  <2>4. CASE UNCHANGED <<down, serverVars>>
    BY <1>0, <1>1, <2>1, <2>4 DEF ServerSound, SentInv, ToldInv, serverVars, sender
  <2> QED
    BY <1>2, <2>2, <2>3, <2>4 DEF G12Get
<1>3. CASE G12Enqueue(d)
  <2>1. status # "complete" => up' \in Seq(UpTold(expected)) /\ d \in Told(expected)
    BY <1>0, <1>1, <1>3, ReceivesTold DEF G12Enqueue, ToldInv
  <2>2. status # "complete" => queue' \in Seq(Told(expected))
    BY <1>1, <1>3, <2>1 DEF G12Enqueue, ToldInv
  <2> QED
    BY <1>0, <1>1, <1>3, <2>1, <2>2 DEF G12Enqueue, ServerSound, SentInv, sender
<1>4. CASE G12Drop(d)
  <2>1. status # "complete" => up' \in Seq(UpTold(expected))
    BY <1>0, <1>1, <1>4, ReceivesTold DEF G12Drop, ToldInv
  <2> QED
    BY <1>0, <1>1, <1>4, <2>1 DEF G12Drop, ServerSound, SentInv, ToldInv, serverVars, sender
<1>5. CASE G12Ack(expired)
  <2> DEFINE a == Head(queue)
             b == G12Confirmed(base, next_seq, a.seq)
  <2>1. serving = "sending" /\ queue # <<>> /\ up' = up
    BY <1>5 DEF G12Ack
  <2>2. a \in OpenAcks
    BY <1>0, <2>1, HeadTailProperties
  <2>3. status # "complete" => a \in Told(expected) /\ Tail(queue) \in Seq(Told(expected))
    BY <1>1, <2>1, HeadTailProperties DEF ToldInv
  <2>4. b \in Nat /\ b <= next_seq /\ (status # "complete" => b <= expected)
    BY <2>2, <2>3, ConfirmsTold
  <2>5. a.window \in 1 .. RecvWindow
    BY <2>2, OpenAckType
  <2>6. CASE b = G12Count /\ Return("over") /\ queue' = <<>> /\ UNCHANGED down
    <3>1. status = "complete"
      BY <1>0, <2>4, <2>6
    <3> QED
      BY <1>0, <2>6, <3>1 DEF Return, ServerSound
  <2>7. CASE G12Turn(b, a.window, expired) /\ queue' = Tail(queue)
    <3> HIDE DEF a, b
    <3>1. /\ down' \in Seq(FileDown(Chunks))
          /\ next_seq' \in 0 .. G12Count /\ base' = b /\ b <= next_seq' /\ serving' = serving
      BY <2>4, <2>5, <2>7, G12TurnSound
    <3> QED
      BY <1>1, <2>1, <2>3, <2>4, <2>7, <3>1 DEF ServerSound, ToldInv
  <2> QED
    BY <1>5, <2>6, <2>7 DEF G12Ack
<1>6. CASE G12Empty(expired)
  <2>1. serving = "sending" /\ up' = up /\ queue' = queue /\ G12Turn(base, window, expired)
    BY <1>6 DEF G12Empty
  <2>2. /\ down' \in Seq(FileDown(Chunks))
        /\ next_seq' \in 0 .. G12Count /\ base' = base /\ base <= next_seq' /\ serving' = serving
    BY <1>0, <1>1, <2>1, G12TurnSound DEF SentInv
  <2> QED
    BY <1>0, <1>1, <2>1, <2>2 DEF ServerSound, ToldInv, SentInv
<1> QED
  BY <1>2, <1>3, <1>4, <1>5, <1>6

LEMMA ServerStepSound ==
    ASSUME OldAcksTold, Sound, ServerStep
    PROVE  (FileInv /\ HeldInv /\ ToldInv /\ SentInv)'
<1>1. setup.server = "G12"
  BY DEF OldAcksTold
<1>2. ASSUME NEW d, ServerReads(d)
      PROVE  ServerSound
  BY <1>1, <1>2, G12ServerSound DEF ServerReads
<1>3. ASSUME NEW expired, ServerRuns(expired)
      PROVE  ServerSound
  BY <1>1, <1>3, G12ServerSound DEF ServerRuns
<1>4. ServerSound /\ UNCHANGED <<setup, clientVars>>
  BY <1>2, <1>3 DEF ServerStep
<1>5. Chunks' = Chunks /\ G12Count' = G12Count
  BY <1>4 DEF Chunks, G12Count
<1>6. UNCHANGED <<status, expected, buffer>>
  BY <1>4 DEF clientVars
<1> QED
  BY <1>4, <1>5, <1>6
  DEF ServerSound, Sound, FileInv, HeldInv, ToldInv, SentInv

-----------------------------------------------------------------------------
LEMMA PathStepSound ==
    ASSUME OldAcksTold, Sound, PathStep
    PROVE  (FileInv /\ HeldInv /\ ToldInv /\ SentInv)'
<1>1. UNCHANGED <<setup, clientVars, serverVars>>
  BY DEF PathStep
<1>2. down \in Seq(FileDown(Chunks)) /\ Bad \in FileDown(Chunks) /\ Bad \in UpTold(expected)
  BY DEF Sound, FileInv, FileDown, UpTold
<1>3. ASSUME NEW S, NEW T, up \in Seq(S), Bad \in S, down \in Seq(T), Bad \in T
      PROVE  up' \in Seq(S) /\ down' \in Seq(T)
  <2>1. ~ GetsCut
    BY PairsAssumption DEF OldAcksTold, GetsCut, Sound, PeerInv, PathInv
  <2> QED
    BY <1>3, <2>1, PathStepDoes, SpoilsElements DEF CutsGet
<1>4. down' \in Seq(FileDown(Chunks))
  <2>1. up \in Seq(OpenUp) /\ Bad \in OpenUp
    BY DEF Sound, PeerInv, PathInv, OpenUp
  <2> QED
    BY <1>2, <1>3, <2>1
<1>5. status # "complete" => up' \in Seq(UpTold(expected)) /\ queue \in Seq(Told(expected))
  BY <1>2, <1>3 DEF Sound, ToldInv
<1>6. Chunks' = Chunks /\ G12Count' = G12Count
  BY <1>1 DEF Chunks, G12Count
<1>7. UNCHANGED <<setup, status, expected, buffer, serving, base, next_seq, queue>>
  BY <1>1 DEF clientVars, serverVars, sender
<1> QED
  BY <1>4, <1>5, <1>6, <1>7 DEF Sound, FileInv, HeldInv, ToldInv, SentInv

-----------------------------------------------------------------------------
LEMMA InitSound == Init => OldAckInv
<1> SUFFICES ASSUME Init, OldAcksTold
             PROVE  FileInv /\ HeldInv /\ ToldInv /\ SentInv
  BY DEF OldAckInv
<1>1. PathInv /\ Chunks \in Nat /\ G12Count \in Nat
  BY InitHolds, ChunksType DEF PeerInv
<1>2. <<Get>> \in Seq(UpTold(0)) /\ <<>> \in Seq(Told(0)) /\ <<>> \in Seq(FileDown(Chunks))
  BY DEF UpTold
<1>3. FileInv /\ ToldInv
  BY <1>2 DEF Init, ClientInit, ServerInit, FileInv, ToldInv
<1>4. HeldInv
  BY <1>1 DEF Init, ClientInit, NoPayloads, HeldInv
<1>5. SentInv
  BY <1>1 DEF Init, ClientInit, ServerInit, SentInv
<1> QED
  BY <1>3, <1>4, <1>5

LEMMA NextSound == PeerInv /\ OldAckInv /\ [Next]_vars => OldAckInv'
<1> SUFFICES ASSUME PeerInv, OldAckInv, [Next]_vars, OldAcksTold'
             PROVE  (FileInv /\ HeldInv /\ ToldInv /\ SentInv)'
  BY DEF OldAckInv
<1>1. setup' = setup
  BY DEF Next, vars, ClientStep, ServerStep, PathStep
<1>2. Chunks' = Chunks /\ G12Count' = G12Count
  BY <1>1 DEF Chunks, G12Count
<1>3. OldAcksTold
  BY <1>1, <1>2 DEF OldAcksTold, FitsNumbers
<1>4. Sound
  BY <1>3 DEF Sound, OldAckInv
<1>5. CASE UNCHANGED vars
  <2>1. UNCHANGED <<setup, up, down, status, expected, buffer, serving, base, next_seq, queue>>
    BY <1>5 DEF vars, netVars, clientVars, serverVars, sender
  <2> QED
    BY <1>2, <1>4, <2>1 DEF Sound, FileInv, HeldInv, ToldInv, SentInv
<1> QED
  BY <1>3, <1>4, <1>5, ClientStepSound, ServerStepSound, PathStepSound DEF Next

(***************************************************************************)
(* For every file of at most 2048 - 63 - 1 chunks, over a path that loses, *)
(* damages and reorders, G12's server takes nothing for confirmed that its *)
(* client has not acknowledged, and ends only after its client.            *)
(***************************************************************************)
THEOREM OldAcksAreHarmless == Spec => []OldAcksHarmless
<1>1. Spec => [](PeerInv /\ OldAckInv)
  BY InitHolds, NextKeeps, InitSound, NextSound, PTL DEF Spec
<1>2. PeerInv /\ OldAckInv => OldAcksHarmless
  BY DEF OldAckInv, SentInv, OldAcksHarmless
<1> QED
  BY <1>1, <1>2, PTL

-----------------------------------------------------------------------------
(***************************************************************************)
(* What the steps of all clients, and of all servers, have in common.      *)
(***************************************************************************)

\* The numbers of an interval, in ascending order.

LEMMA AscendingAbove ==
    ASSUME NEW lo \in Int, NEW n \in Nat, NEW f \in [1 .. n -> lo .. lo + n - 1],
           \A i, j \in 1 .. n : i < j => f[i] < f[j]
    PROVE  \A k \in 1 .. n : f[k] >= lo + k - 1
<1> DEFINE T == {k \in 1 .. n : f[k] < lo + k - 1}
<1>1. \A k \in 1 .. n : f[k] \in Int /\ k \in Nat /\ f[k] >= lo
  OBVIOUS
<1>2. ASSUME T # {}
      PROVE  FALSE
  <2>1. T \in SUBSET Nat
    OBVIOUS
  <2>2. PICK k \in T : \A j \in T : k <= j
    BY <1>2, <2>1, LeastMissing
  <2>3. k \in 1 .. n /\ f[k] < lo + k - 1 /\ k # 1
    BY <1>1, <2>2
  <2>4. k - 1 \in 1 .. n /\ k - 1 < k /\ f[k - 1] < f[k]
    BY <2>3
  <2>5. ~ (f[k - 1] < lo + (k - 1) - 1)
    BY <2>2, <2>3, <2>4
  <2>6. f[k - 1] \in Int /\ f[k] \in Int /\ k \in Nat
    BY <1>1, <2>3, <2>4
  <2> HIDE DEF T
  <2> QED
    BY <2>3, <2>4, <2>5, <2>6
<1>3. ASSUME NEW k \in 1 .. n
      PROVE  f[k] >= lo + k - 1
  <2>1. ~ (f[k] < lo + k - 1)
    BY <1>2
  <2>2. f[k] \in Int /\ k \in Int
    BY <1>1
  <2> QED
    BY <2>1, <2>2
<1> QED
  BY <1>3

LEMMA AscendingBelow ==
    ASSUME NEW lo \in Int, NEW n \in Nat, NEW f \in [1 .. n -> lo .. lo + n - 1],
           \A i, j \in 1 .. n : i < j => f[i] < f[j]
    PROVE  \A k \in 1 .. n : f[k] <= lo + k - 1
<1> DEFINE Over(r) == f[n - r] > lo + (n - r) - 1
           T == {r \in 0 .. n - 1 : Over(r)}
<1>1. \A k \in 1 .. n : f[k] \in Int /\ k \in Nat /\ f[k] <= lo + n - 1
  OBVIOUS
<1>2. ASSUME T # {}
      PROVE  FALSE
  <2>1. T \in SUBSET Nat
    OBVIOUS
  <2>2. PICK r \in T : \A j \in T : r <= j
    BY <1>2, <2>1, LeastMissing
  <2> DEFINE k == n - r
  <2>3. r \in 0 .. n - 1 /\ k \in 1 .. n /\ f[k] > lo + k - 1
    BY <2>2
  <2>4. r # 0
    BY <1>1, <2>3
  <2>5. k + 1 \in 1 .. n /\ r - 1 \in 0 .. n - 1 /\ n - (r - 1) = k + 1
    BY <2>3, <2>4
  <2>6. f[k] < f[k + 1]
    BY <2>3, <2>5
  <2>7. ~ Over(r - 1)
    <3>1. ~ (r <= r - 1)
      BY <2>3
    <3>2. r - 1 \notin T
      BY <2>2, <3>1
    <3> QED
      BY <2>5, <3>2
  <2>8. f[k + 1] <= lo + k
    BY <1>1, <2>5, <2>7
  <2> HIDE DEF k
  <2> QED
    BY <1>1, <2>3, <2>5, <2>6, <2>8
<1>3. ASSUME NEW k \in 1 .. n
      PROVE  f[k] <= lo + k - 1
  <2>1. n - k \in 0 .. n - 1 /\ n - (n - k) = k
    OBVIOUS
  <2>2. ~ Over(n - k)
    BY <1>2, <2>1
  <2> QED
    BY <1>1, <2>1, <2>2
<1> QED
  BY <1>3

LEMMA AscendingInterval ==
    ASSUME NEW lo \in Int, NEW n \in Nat, NEW f \in Ascending(lo .. lo + n - 1)
    PROVE  f = [k \in 1 .. n |-> lo + k - 1]
<1>1. Cardinality(lo .. lo + n - 1) = n
  <2>1. lo + n - 1 \in Int
    OBVIOUS
  <2>2. Cardinality(lo .. lo + n - 1) = IF lo > lo + n - 1 THEN 0 ELSE (lo + n - 1) - lo + 1
    BY <2>1, FS_Interval
  <2> QED
    BY <2>2
<1>2. f \in [1 .. n -> lo .. lo + n - 1] /\ \A i, j \in DOMAIN f : i < j => f[i] < f[j]
  BY <1>1 DEF Ascending
<1>3. \A i, j \in 1 .. n : i < j => f[i] < f[j]
  BY <1>2
<1>4. \A k \in 1 .. n : f[k] >= lo + k - 1 /\ f[k] <= lo + k - 1 /\ f[k] \in Int
  <2>1. \A k \in 1 .. n : f[k] >= lo + k - 1
    BY <1>2, <1>3, AscendingAbove
  <2>2. \A k \in 1 .. n : f[k] <= lo + k - 1
    BY <1>2, <1>3, AscendingBelow
  <2>3. \A k \in 1 .. n : f[k] \in Int
    BY <1>2
  <2> QED
    BY <2>1, <2>2, <2>3
<1>5. \A k \in 1 .. n : f[k] = lo + k - 1
  BY <1>4
<1> QED
  BY <1>2, <1>5

-----------------------------------------------------------------------------
\* The elements of a channel after a step.

LEMMA SentElements ==
    ASSUME NEW S, NEW q \in Seq(S), NEW ds \in Seq(S)
    PROVE  /\ Sent(q, ds) \in Seq(S)
           /\ Len(Sent(q, ds)) <= Room /\ Len(Sent(q, ds)) <= Len(q) + Len(ds)
           /\ \A j \in 1 .. Len(Sent(q, ds)) :
                Sent(q, ds)[j] = IF j <= Len(q) THEN q[j] ELSE ds[j - Len(q)]
<1> DEFINE all == q \o ds
           n == IF Len(all) <= Room THEN Len(all) ELSE Room
<1>1. /\ Len(q) \in Nat /\ Len(ds) \in Nat /\ Room \in Nat
      /\ all \in Seq(S) /\ Len(all) = Len(q) + Len(ds)
      /\ \A j \in 1 .. Len(q) + Len(ds) : all[j] = IF j <= Len(q) THEN q[j] ELSE ds[j - Len(q)]
  BY ConcatProperties, LenProperties, NumbersAssumption
<1>2. \A j \in 1 .. Len(all) : all[j] \in S
  BY <1>1, ElementOfSeq
<1>3. n \in Nat /\ n <= Len(all) /\ n <= Room
  BY <1>1
<1>4. Sent(q, ds) = SubSeq(all, 1, n)
  BY DEF Sent
<1> HIDE DEF all, n
<1>5. SubSeq(all, 1, n) \in Seq(S) /\ Len(SubSeq(all, 1, n)) = n
      /\ \A j \in 1 .. n : SubSeq(all, 1, n)[j] = all[j]
  <2>1. 1 \in Int /\ n \in Int /\ \A j \in 1 .. n : all[j] \in S
    BY <1>1, <1>2, <1>3
  <2>2. /\ SubSeq(all, 1, n) \in Seq(S)
        /\ Len(SubSeq(all, 1, n)) = IF 1 <= n THEN n - 1 + 1 ELSE 0
        /\ \A j \in 1 .. n - 1 + 1 : SubSeq(all, 1, n)[j] = all[1 + j - 1]
    BY <2>1, SubSeqProperties
  <2> QED
    BY <1>3, <2>2
<1> QED
  BY <1>1, <1>3, <1>4, <1>5

\* Each datagram of q is related by R to those behind it.
Chain(q, R) == \A i, j \in DOMAIN q : i < j => <<q[i], q[j]>> \in R

LEMMA ChainSent ==
    ASSUME NEW S, NEW R, NEW q \in Seq(S), NEW ds \in Seq(S), Chain(q, R), Chain(ds, R),
           \A i \in DOMAIN q, j \in DOMAIN ds : <<q[i], ds[j]>> \in R
    PROVE  Chain(Sent(q, ds), R)
<1> DEFINE r == Sent(q, ds)
<1>1. /\ r \in Seq(S) /\ Len(r) <= Len(q) + Len(ds)
      /\ \A j \in 1 .. Len(r) : r[j] = IF j <= Len(q) THEN q[j] ELSE ds[j - Len(q)]
  BY SentElements
<1>2. /\ Len(q) \in Nat /\ DOMAIN q = 1 .. Len(q) /\ Len(ds) \in Nat /\ DOMAIN ds = 1 .. Len(ds)
      /\ Len(r) \in Nat /\ DOMAIN r = 1 .. Len(r)
  BY <1>1, LenProperties
<1> HIDE DEF r
<1>3. ASSUME NEW i \in DOMAIN r, NEW j \in DOMAIN r, i < j
      PROVE  <<r[i], r[j]>> \in R
  <2>1. CASE j <= Len(q)
    <3>1. i \in DOMAIN q /\ j \in DOMAIN q /\ r[i] = q[i] /\ r[j] = q[j]
      BY <1>1, <1>2, <1>3, <2>1
    <3> QED
      BY <1>3, <3>1 DEF Chain
  <2>2. CASE i <= Len(q) /\ ~ (j <= Len(q))
    <3>1. i \in DOMAIN q /\ j - Len(q) \in DOMAIN ds /\ r[i] = q[i] /\ r[j] = ds[j - Len(q)]
      BY <1>1, <1>2, <1>3, <2>2
    <3> QED
      BY <3>1
  <2>3. CASE ~ (i <= Len(q))
    <3>1. /\ i - Len(q) \in DOMAIN ds /\ j - Len(q) \in DOMAIN ds /\ i - Len(q) < j - Len(q)
          /\ r[i] = ds[i - Len(q)] /\ r[j] = ds[j - Len(q)]
      BY <1>1, <1>2, <1>3, <2>3
    <3> QED
      BY <3>1 DEF Chain
  <2> QED
    BY <1>2, <1>3, <2>1, <2>2, <2>3
<1>4. Chain(r, R)
  BY <1>3 DEF Chain
<1> QED
  BY <1>4 DEF r

-----------------------------------------------------------------------------
(***************************************************************************)
(* What a client does in a step, whichever program it is.  It is quiet: it *)
(* reads something that does not concern it, or that answers it, or stops  *)
(* asking.  It asks again, or repeats its last ACK.  It keeps a packet, or *)
(* ends at the empty one.  It gives up.                                    *)
(***************************************************************************)
QuietClient ==
    /\ UNCHANGED <<up, receiver>>
    /\ \/ UNCHANGED down /\ status = "asking" /\ status' = "failed"
       \/ \E d : /\ Reads(d)
                 /\ \/ status' = status
                    \/ status = "asking" /\ status' = "failed"
                    \/ /\ status = "asking" /\ status' = "receiving"
                       /\ setup.client = "G3" => d.type = "ACK"

AskingClient ==
    /\ status = "asking" /\ status' = "asking"
    /\ up' = Sent(up, <<Get>>) /\ UNCHANGED receiver
    /\ (UNCHANGED down \/ \E d : Reads(d))

RepeatingClient ==
    /\ setup.client = "G3"
    /\ status = "receiving" /\ UNCHANGED <<status, down, receiver>>
    /\ SendAck(expected, buffer)

KeepingClient(s, p) ==
    /\ status = "receiving" \/ (status = "asking" /\ setup.client # "G3")
    /\ status' = "receiving"
    /\ Reads(Data(s, p))
    /\ p = EOF => setup.client # "G12" /\ s # expected % SeqCount
    /\ Reassembled(IF InWindow(s) THEN Stored(s, p) ELSE buffer)
    /\ SendAck(expected', buffer')

EndingClient(s) ==
    /\ status = "receiving" \/ (status = "asking" /\ setup.client # "G3")
    /\ status' = "complete"
    /\ Reads(Data(s, EOF))
    /\ setup.client = "G12" \/ s = expected % SeqCount
    /\ UNCHANGED receiver
    /\ (UNCHANGED up \/ \E a : a.type = "ACK" /\ up' = Sent(up, <<a>>))

LeavingClient ==
    /\ status = "receiving" /\ status' = "gaveup" /\ setup.client # "G3"
    /\ Silent(serving)
    /\ UNCHANGED <<netVars, receiver>>

ClientDoes ==
    \/ QuietClient \/ AskingClient \/ RepeatingClient \/ LeavingClient
    \/ \E s, p : KeepingClient(s, p)
    \/ \E s : EndingClient(s)

LEMMA TriesType ==
    ASSUME tries \in 1 .. GetTries, tries < GetTries \/ tries' = tries,
           tries' = tries \/ tries' = tries + 1
    PROVE  tries' \in 1 .. GetTries
BY GetTriesAssumption

LEMMA G12ClientDoes ==
    ASSUME tries \in 1 .. GetTries, setup.client = "G12", NEW d,
           \/ G12Ignore(d)
           \/ d.type = "DATA" /\ G12Data(d.seq, d.payload)
           \/ G12Timeout(serving)
    PROVE  ClientDoes /\ tries' \in 1 .. GetTries
<1>1. CASE G12Ignore(d)
  <2>1. QuietClient
    BY <1>1 DEF G12Ignore, QuietClient, clientVars, receiver
  <2> QED
    BY <1>1, <2>1 DEF ClientDoes, G12Ignore, clientVars
<1>2. CASE G12Timeout(serving)
  <2>1. AskingClient \/ LeavingClient
    BY <1>2 DEF G12Timeout, AskingClient, LeavingClient, netVars
  <2> QED
    BY <1>2, <2>1 DEF ClientDoes, G12Timeout
<1>3. CASE d.type = "DATA" /\ G12Data(d.seq, d.payload)
  <2>0. \A n, w : Ack(n, w).type = "ACK"
    BY DEF Ack
  <2>1. EndingClient(d.seq) \/ KeepingClient(d.seq, d.payload)
    BY <1>3, <2>0, Zenon DEF G12Data, EndingClient, KeepingClient
  <2> QED
    BY <1>3, <2>1 DEF ClientDoes, G12Data
<1> QED
  BY <1>1, <1>2, <1>3

LEMMA G3ClientDoes ==
    ASSUME tries \in 1 .. GetTries, setup.client = "G3", NEW d,
           \/ G3Answer(d) \/ G3Ignore(d)
           \/ d.type = "DATA" /\ G3Data(d.seq, d.payload)
           \/ G3Timeout
    PROVE  ClientDoes /\ tries' \in 1 .. GetTries
<1>1. ASSUME G3AsksAgain
      PROVE  tries' \in 1 .. GetTries
  BY <1>1, TriesType DEF G3AsksAgain
<1>2. CASE G3Answer(d)
  <2>1. CASE status' = "receiving" /\ UNCHANGED <<up, tries, receiver>> /\ d.type = "ACK"
    <3>1. QuietClient
      BY <1>2, <2>1 DEF G3Answer, QuietClient
    <3> QED
      BY <2>1, <3>1 DEF ClientDoes
  <2>2. CASE G3AsksAgain
    <3>1. QuietClient \/ AskingClient
      BY <1>2, <2>2 DEF G3Answer, G3AsksAgain, QuietClient, AskingClient
    <3> QED
      BY <1>1, <2>2, <3>1 DEF ClientDoes
  <2> QED
    BY <1>2, <2>1, <2>2 DEF G3Answer
<1>3. CASE G3Ignore(d)
  <2>1. QuietClient
    BY <1>3 DEF G3Ignore, QuietClient, clientVars, receiver
  <2> QED
    BY <1>3, <2>1 DEF ClientDoes, G3Ignore, clientVars
<1>4. CASE G3Timeout
  <2>1. CASE status = "asking" /\ G3AsksAgain
    <3>1. QuietClient \/ AskingClient
      BY <1>4, <2>1 DEF G3Timeout, G3AsksAgain, QuietClient, AskingClient
    <3> QED
      BY <1>1, <2>1, <3>1 DEF ClientDoes
  <2>2. CASE status = "receiving" /\ SendAck(expected, buffer) /\ UNCHANGED clientVars
    <3>1. RepeatingClient
      BY <1>4, <2>2 DEF G3Timeout, RepeatingClient, clientVars, receiver
    <3> QED
      BY <2>2, <3>1 DEF ClientDoes, clientVars
  <2> QED
    BY <1>4, <2>1, <2>2 DEF G3Timeout
<1>5. CASE d.type = "DATA" /\ G3Data(d.seq, d.payload)
  <2>1. CASE /\ d.payload = EOF /\ d.seq = expected % SeqCount
             /\ up' = Sent(up, <<G3FinalAck>>) /\ status' = "complete" /\ UNCHANGED receiver
    <3>0. G3FinalAck.type = "ACK"
      BY DEF G3FinalAck, Ack
    <3>1. EndingClient(d.seq)
      BY <1>5, <2>1, <3>0, Zenon DEF G3Data, EndingClient
    <3> QED
      BY <1>5, <3>1 DEF ClientDoes, G3Data
  <2>2. CASE UNCHANGED <<up, status, receiver>>
    <3>1. QuietClient
      BY <1>5, <2>2, Zenon DEF G3Data, QuietClient
    <3> QED
      BY <1>5, <3>1 DEF ClientDoes, G3Data
  <2>3. CASE /\ ~ G3Ends(d.seq, d.payload) /\ InWindow(d.seq)
             /\ Reassembled(Stored(d.seq, d.payload))
             /\ SendAck(expected', buffer') /\ UNCHANGED status
    <3>1. Reassembled(IF InWindow(d.seq) THEN Stored(d.seq, d.payload) ELSE buffer)
      BY <2>3, Zenon
    <3>2. status = "receiving" /\ Reads(Data(d.seq, d.payload)) /\ UNCHANGED tries
      BY <1>5 DEF G3Data
    <3>3. d.payload = EOF => setup.client # "G12" /\ d.seq # expected % SeqCount
      BY <2>3 DEF G3Ends
    <3>4. KeepingClient(d.seq, d.payload)
      BY <2>3, <3>1, <3>2, <3>3, Zenon DEF KeepingClient
    <3> QED
      BY <3>2, <3>4 DEF ClientDoes
  <2> QED
    BY <1>5, <2>1, <2>2, <2>3, Zenon DEF G3Data, G3Ends
<1> QED
  BY <1>2, <1>3, <1>4, <1>5

LEMMA G2ClientDoes ==
    ASSUME tries \in 1 .. GetTries, setup.client = "G2", NEW d,
           \/ G2Ignore(d)
           \/ d.type = "DATA" /\ G2Data(d.seq, d.payload)
           \/ G2Timeout(serving)
    PROVE  ClientDoes /\ tries' \in 1 .. GetTries
<1>1. CASE G2Ignore(d)
  <2>1. QuietClient
    BY <1>1 DEF G2Ignore, QuietClient
  <2> QED
    BY <1>1, <2>1 DEF ClientDoes, G2Ignore
<1>2. CASE G2Timeout(serving)
  <2>1. QuietClient \/ AskingClient \/ LeavingClient
    BY <1>2 DEF G2Timeout, QuietClient, AskingClient, LeavingClient, netVars
  <2>2. tries' \in 1 .. GetTries
    BY <1>2, TriesType DEF G2Timeout
  <2> QED
    BY <2>1, <2>2 DEF ClientDoes
<1>3. CASE d.type = "DATA" /\ G2Data(d.seq, d.payload)
  <2>1. EndingClient(d.seq) \/ KeepingClient(d.seq, d.payload)
    BY <1>3, Zenon DEF G2Data, EndingClient, KeepingClient
  <2> QED
    BY <1>3, <2>1 DEF ClientDoes, G2Data
<1> QED
  BY <1>1, <1>2, <1>3

LEMMA ClientStepDoes ==
    ASSUME tries \in 1 .. GetTries, ClientStep
    PROVE  ClientDoes /\ tries' \in 1 .. GetTries /\ UNCHANGED <<setup, serverVars>>
<1>1. ASSUME NEW d, ClientReads(d)
      PROVE  ClientDoes /\ tries' \in 1 .. GetTries
  BY <1>1, G12ClientDoes, G3ClientDoes, G2ClientDoes DEF ClientReads
<1>2. ASSUME ClientWaits
      PROVE  ClientDoes /\ tries' \in 1 .. GetTries
  BY <1>2, G12ClientDoes, G3ClientDoes, G2ClientDoes DEF ClientWaits
<1> QED
  BY <1>1, <1>2 DEF ClientStep

-----------------------------------------------------------------------------
(***************************************************************************)
(* The same of a server.  Its bounds: it has sent at most a window of      *)
(* packets beyond the first not confirmed, and only packets of the file.   *)
(***************************************************************************)
Limit == IF setup.server = "G12" THEN G12Count ELSE Chunks

BoundsInv ==
    /\ serving \in ServerStates /\ file_ended \in BOOLEAN /\ end_tries \in 0 .. EndTries
    /\ base <= next_seq /\ next_seq <= base + RecvWindow /\ next_seq <= Limit
    /\ in_flight \subseteq 0 .. next_seq - 1
    /\ file_ended => setup.server = "G2" /\ next_seq = Chunks
    /\ serving = "idle" => base = 0 /\ next_seq = 0
    /\ serving = "sending" /\ next_seq = 0 => Limit = 0
    /\ serving = "ending" => setup.server = "G3" /\ base = Chunks
    /\ serving = "over" => setup.server = "G12"

\* What a server may send.
PacketsOf(S) == {Packet(a) : a \in S}
Replies == IF setup.server = "G12" THEN {} ELSE {GetReply}
Sends(S) == \E ds \in Seq(Replies \cup PacketsOf(S)) : down' = Sent(down, ds)

\* The server reads something that is no ACK, or nothing.
Listens == UNCHANGED <<up, queue>> \/ \E d : d.type # "ACK" /\ Receives(d) /\ UNCHANGED queue

\* The sender reads ACK a: G12's from the queue, the others from the socket.
TakesAck(a) ==
    /\ a \in OpenAcks
    /\ \/ setup.server # "G12" /\ Receives(a) /\ UNCHANGED queue
       \/ /\ setup.server = "G12" /\ UNCHANGED up
          /\ queue # <<>> /\ a = Head(queue) /\ queue' = Tail(queue)

ConfirmedBy(a) ==
    CASE setup.server = "G12" -> G12Confirmed(base, next_seq, a.seq)
      [] setup.server = "G3" -> G3Confirmed(base, a.seq)
      [] OTHER -> G2Confirmed(base, next_seq, a.seq)

\* What is confirmed becomes b.
Confirms(b) == (b = base /\ Listens) \/ \E a : TakesAck(a) /\ b = ConfirmedBy(a)

\* Packets are sent, again or for the first time; group 3 adds the empty one.
Moves(b) ==
    /\ base' = b /\ b \in Nat /\ base <= b
    /\ next_seq' \in Nat /\ next_seq <= next_seq'
    /\ b <= next_seq' /\ next_seq' <= b + RecvWindow
    /\ in_flight \subseteq base .. next_seq - 1 /\ b <= next_seq =>
         in_flight' \subseteq b .. next_seq' - 1
    /\ \/ serving' = "sending" /\ Sends(in_flight')
       \/ serving' = "ending" /\ b = Chunks /\ Sends(in_flight' \cup {Chunks})

\* Group 2's server answers a GET that was cut.
RefusingServer ==
    /\ serving = "idle" /\ setup.server = "G2"
    /\ Receives(CutGet)
    /\ down' = Sent(down, <<NoFile>>)
    /\ UNCHANGED serverVars

DroppingServer ==
    /\ UNCHANGED serverVars
    /\ \E d : Receives(d) /\ (d.type = "GET" => serving # "idle")
    /\ UNCHANGED down \/ (serving # "idle" /\ Sends({}))

MissingServer ==
    /\ setup.chunks = Missing /\ serving = "idle"
    /\ \E d : d.type = "GET" /\ Receives(d)
    /\ serving' = IF setup.server = "G12" THEN "over" ELSE "idle"
    /\ Sends({Chunks})
    /\ UNCHANGED <<queue, sender>>

StartingServer ==
    /\ serving = "idle"
    /\ \E d : d.type = "GET" /\ Receives(d)
    /\ UNCHANGED queue
    /\ Moves(0)

QueueingServer ==
    /\ setup.server = "G12" /\ serving = "sending"
    /\ \E d : d.type = "ACK" /\ Receives(d) /\ queue' = Append(queue, d)
    /\ Len(queue) < Room
    /\ UNCHANGED <<down, serving, sender>>

MovingServer == serving = "sending" /\ \E b : Confirms(b) /\ Moves(b)

\* G12's thread ends; group 2's server sends the empty packet and returns.
DoneServer ==
    /\ serving = "sending"
    /\ \/ /\ setup.server = "G12" /\ UNCHANGED <<up, down>> /\ queue' = <<>>
          /\ queue # <<>> /\ G12Confirmed(base, next_seq, Head(queue).seq) = G12Count
          /\ Return("over")
       \/ /\ setup.server = "G2" /\ next_seq = Chunks /\ Confirms(next_seq)
          /\ Return("idle")
          /\ Sends({Chunks})

\* Group 3's server sends the empty packet again, or returns.
EndingServer ==
    /\ serving = "ending" /\ UNCHANGED queue
    /\ (UNCHANGED up \/ \E d : Receives(d))
    /\ \/ UNCHANGED down /\ Return("idle")
       \/ Sends({Chunks}) /\ UNCHANGED <<serving, base, next_seq, in_flight>>

ServerDoes ==
    \/ DroppingServer \/ MissingServer \/ RefusingServer \/ StartingServer
    \/ QueueingServer \/ MovingServer \/ DoneServer \/ EndingServer

-----------------------------------------------------------------------------
\* What is sent.

LEMMA PacketsSent ==
    ASSUME NEW S, NEW is \in Seq(S)
    PROVE  Packets(is) \in Seq(PacketsOf(S))
<1>1. Len(is) \in Nat /\ DOMAIN is = 1 .. Len(is) /\ \A k \in 1 .. Len(is) : is[k] \in S
  BY LenProperties, ElementOfSeq
<1>2. Packets(is) \in [1 .. Len(is) -> PacketsOf(S)]
  BY <1>1 DEF Packets, PacketsOf
<1> QED
  BY <1>1, <1>2, FunctionIsSeq

LEMMA AgainSent ==
    ASSUME NEW S, NEW expired \in SUBSET S, IsFiniteSet(expired), NEW again \in Ascending(expired)
    PROVE  Packets(again) \in Seq(PacketsOf(S))
<1>1. Cardinality(expired) \in Nat
  BY FS_CardinalityType
<1>2. again \in [1 .. Cardinality(expired) -> S]
  BY DEF Ascending
<1>3. again \in Seq(S)
  BY <1>1, <1>2, FunctionIsSeq
<1> QED
  BY <1>3, PacketsSent

LEMMA NewSent ==
    ASSUME next_seq \in Nat, NEW n \in Nat, next_seq <= n, NEW S, next_seq .. n - 1 \subseteq S
    PROVE  Packets(New(n)) \in Seq(PacketsOf(S))
<1>1. n - next_seq \in Nat /\ \A k \in 1 .. n - next_seq : next_seq + k - 1 \in S
  OBVIOUS
<1>2. New(n) \in [1 .. n - next_seq -> S]
  BY <1>1 DEF New
<1>3. New(n) \in Seq(S)
  BY <1>1, <1>2, FunctionIsSeq
<1> QED
  BY <1>3, PacketsSent

LEMMA BothSent ==
    ASSUME NEW S, NEW expired \in SUBSET S, IsFiniteSet(expired), NEW again \in Ascending(expired),
           next_seq \in Nat, NEW n \in Nat, next_seq <= n, next_seq .. n - 1 \subseteq S
    PROVE  Packets(again) \o Packets(New(n)) \in Seq(Replies \cup PacketsOf(S))
<1>1. Packets(again) \in Seq(PacketsOf(S)) /\ Packets(New(n)) \in Seq(PacketsOf(S))
  BY AgainSent, NewSent
<1>2. Packets(again) \o Packets(New(n)) \in Seq(PacketsOf(S))
  BY <1>1, ConcatProperties
<1> QED
  BY <1>2, SeqInto, ElementOfSeq

LEMMA OneSends ==
    ASSUME NEW S, NEW a \in S, down' = Sent(down, <<Packet(a)>>)
    PROVE  Sends(S)
<1>1. <<Packet(a)>> \in Seq(Replies \cup PacketsOf(S))
  BY DEF PacketsOf
<1> QED
  BY <1>1 DEF Sends

\* The empty packet is the one behind the file.
LEMMA EndIsPacket ==
    ASSUME PathInv
    PROVE  /\ Packet(Chunks) = Data(Chunks % SeqCount, EOF) /\ EndPacket = Packet(Chunks)
           /\ setup.chunks = Missing => Packet(Chunks) = NoFile
<1>1. Chunks \in Nat
  BY ChunksType
<1>2. Packet(Chunks) = Data(Chunks % SeqCount, EOF)
  BY <1>1 DEF Packet
<1>3. 0 % SeqCount = 0
  BY NumbersType
<1>4. setup.chunks = Missing => Chunks = 0
  BY DEF Chunks
<1> QED
  BY <1>2, <1>3, <1>4 DEF EndPacket, NoFile

-----------------------------------------------------------------------------
\* The servers' steps, program by program.

\* What is known of the server's state before a step.
LEMMA ServerState ==
    ASSUME PeerInv, BoundsInv
    PROVE  /\ PathInv /\ Chunks \in Nat /\ G12Count = Chunks + 1 /\ Limit \in Nat
           /\ base \in Nat /\ next_seq \in Nat /\ window \in 1 .. RecvWindow
           /\ base <= next_seq /\ next_seq <= base + RecvWindow /\ next_seq <= Limit
           /\ queue \in Seq(OpenAcks) /\ IsFiniteSet(in_flight)
           /\ Limit = IF setup.server = "G12" THEN Chunks + 1 ELSE Chunks
BY ChunksType DEF PeerInv, ServerInv, SenderInv, BoundsInv, Limit, G12Count

LEMMA G12TurnDoes ==
    ASSUME PeerInv, BoundsInv, setup.server = "G12", UNCHANGED setup, serving = "sending",
           NEW b \in Nat, base <= b, b <= next_seq,
           NEW w \in 1 .. RecvWindow, NEW expired, G12Turn(b, w, expired)
    PROVE  Moves(b) /\ BoundsInv'
<1> DEFINE n == G12Filled(b, next_seq, w)
<1>0. /\ Chunks \in Nat /\ G12Count = Chunks + 1 /\ base \in Nat /\ next_seq \in Nat
      /\ next_seq <= base + RecvWindow /\ next_seq <= G12Count /\ Limit = G12Count
      /\ RecvWindow \in Nat
  BY ServerState, NumbersType DEF Limit
<1>1. /\ n \in Nat /\ next_seq <= n /\ n <= b + RecvWindow /\ n <= G12Count
      /\ next_seq = 0 => n > 0
  BY <1>0 DEF G12Filled, Most, Least
<1>2. /\ base' = b /\ next_seq' = n /\ in_flight' = b .. n - 1
      /\ UNCHANGED <<serving, file_ended, end_tries>>
      /\ expired \subseteq b .. next_seq - 1
  BY DEF G12Turn
<1>3. PICK again \in Ascending(expired) :
        down' = Sent(down, Packets(again) \o Packets(New(next_seq')))
  BY DEF G12Turn
<1> HIDE DEF n
<1>4. Sends(in_flight')
  <2>1. /\ expired \in SUBSET (b .. n - 1) /\ next_seq .. n - 1 \subseteq b .. n - 1
        /\ next_seq - 1 \in Int
    BY <1>0, <1>1, <1>2
  <2>2. IsFiniteSet(expired)
    BY <1>2, <2>1, IntervalSubset
  <2>3. Packets(again) \o Packets(New(n)) \in Seq(Replies \cup PacketsOf(b .. n - 1))
    BY <1>0, <1>1, <2>1, <2>2, BothSent
  <2> QED
    BY <1>2, <1>3, <2>3 DEF Sends
<1>5. Moves(b)
  BY <1>0, <1>1, <1>2, <1>4 DEF Moves
<1>6. Limit' = Limit /\ Chunks' = Chunks
  BY DEF Limit, Chunks, G12Count
<1>7. b .. n - 1 \subseteq 0 .. n - 1
  BY <1>1
<1>8. BoundsInv'
  BY <1>0, <1>1, <1>2, <1>6, <1>7 DEF BoundsInv
<1> QED
  BY <1>5, <1>8

-----------------------------------------------------------------------------
LEMMA SetupKeeps == ASSUME UNCHANGED setup PROVE Limit' = Limit /\ Chunks' = Chunks
BY DEF Limit, Chunks, G12Count

LEMMA ReturnBounds ==
    ASSUME PeerInv, UNCHANGED setup, NEW state, Return(state),
           state = "idle" \/ (state = "over" /\ setup.server = "G12")
    PROVE  BoundsInv'
<1>1. Limit' \in Nat /\ Limit' = Limit
  BY SetupKeeps, ChunksType DEF PeerInv, Limit
<1>2. /\ serving' = state /\ base' = 0 /\ next_seq' = 0 /\ in_flight' = {}
      /\ file_ended' = FALSE /\ end_tries' = 0 /\ setup' = setup
  BY DEF Return
<1>3. 0 \in 0 .. EndTries /\ 0 <= 0 + RecvWindow
  BY NumbersType, EndTriesAssumption
<1>4. file_ended' \in BOOLEAN /\ ~ file_ended'
  BY <1>2
<1> QED
  BY <1>1, <1>2, <1>3, <1>4 DEF BoundsInv, ServerStates

LEMMA SameBounds ==
    ASSUME BoundsInv, UNCHANGED setup, UNCHANGED <<serving, sender>>
    PROVE  BoundsInv'
BY SetupKeeps DEF BoundsInv, sender

LEMMA G12ServerDoes ==
    ASSUME PeerInv, BoundsInv, setup.server = "G12", UNCHANGED setup, NEW d, NEW expired,
           \/ G12Get(d) \/ G12Enqueue(d) \/ G12Drop(d)
           \/ G12Ack(expired) \/ G12Empty(expired)
    PROVE  ServerDoes /\ BoundsInv'
<1>0. /\ PathInv /\ Chunks \in Nat /\ G12Count = Chunks + 1 /\ Limit = Chunks + 1
      /\ base \in Nat /\ next_seq \in Nat /\ window \in 1 .. RecvWindow
      /\ base <= next_seq /\ queue \in Seq(OpenAcks)
  BY ServerState
<1>1. CASE G12Get(d)
  <2>1. d.type = "GET" /\ Receives(d)
    BY <1>1 DEF G12Get
  <2>2. CASE serving = "idle" /\ setup.chunks # Missing
    <3>1. /\ next_seq' = 1 /\ in_flight' = {0} /\ down' = Sent(down, <<Packet(0)>>)
          /\ serving' = "sending" /\ UNCHANGED <<base, window, file_ended, end_tries, queue>>
      BY <1>1, <2>2 DEF G12Get
    <3>2. base = 0 /\ next_seq = 0
      BY <2>2 DEF BoundsInv
    <3>3. Sends(in_flight')
      BY <3>1, OneSends
    <3>4. Moves(0)
      BY <3>1, <3>2, <3>3, NumbersType DEF Moves
    <3>5. StartingServer
      BY <2>1, <2>2, <3>1, <3>4 DEF StartingServer
    <3>6. BoundsInv'
      BY <1>0, <3>1, <3>2, SetupKeeps, NumbersType DEF BoundsInv, ServerStates
    <3> QED
      BY <3>5, <3>6 DEF ServerDoes
  <2>3. CASE serving = "idle" /\ setup.chunks = Missing
    <3>1. down' = Sent(down, <<NoFile>>) /\ serving' = "over" /\ UNCHANGED <<queue, sender>>
      BY <1>1, <2>3 DEF G12Get
    <3>2. Sends({Chunks})
      BY <1>0, <2>3, <3>1, EndIsPacket, OneSends
    <3>3. MissingServer
      BY <2>1, <2>3, <3>1, <3>2 DEF MissingServer
    <3>4. BoundsInv'
      BY <1>0, <2>3, <3>1, SetupKeeps DEF BoundsInv, ServerStates, sender
    <3> QED
      BY <3>3, <3>4 DEF ServerDoes
  <2>4. CASE serving # "idle"
    <3>1. UNCHANGED <<down, serverVars>>
      BY <1>1, <2>4 DEF G12Get
    <3>2. DroppingServer
      BY <2>1, <2>4, <3>1 DEF DroppingServer
    <3> QED
      BY <3>1, <3>2, SameBounds DEF ServerDoes, serverVars
  <2> QED
    BY <2>2, <2>3, <2>4
<1>2. CASE G12Enqueue(d)
  <2>1. d.type = "ACK" /\ Receives(d) /\ UNCHANGED <<down, serving, sender>> /\ Len(queue) < Room
        /\ queue' = IF serving = "sending" THEN Append(queue, d) ELSE queue
    BY <1>2 DEF G12Enqueue
  <2>2. CASE serving = "sending"
    <3>1. QueueingServer
      BY <2>1, <2>2 DEF QueueingServer
    <3> QED
      BY <2>1, <3>1, SameBounds DEF ServerDoes
  <2>3. CASE serving # "sending"
    <3>1. DroppingServer
      BY <2>1, <2>3 DEF DroppingServer, serverVars
    <3> QED
      BY <2>1, <3>1, SameBounds DEF ServerDoes
  <2> QED
    BY <2>2, <2>3
<1>3. CASE G12Drop(d)
  <2>1. DroppingServer
    BY <1>3 DEF G12Drop, DroppingServer
  <2> QED
    BY <1>3, <2>1, SameBounds DEF ServerDoes, G12Drop, serverVars
<1>4. CASE G12Ack(expired)
  <2> DEFINE a == Head(queue)
             b == G12Confirmed(base, next_seq, a.seq)
  <2>1. /\ a \in OpenAcks /\ queue # <<>> /\ serving = "sending" /\ UNCHANGED up
        /\ a.seq \in SeqNums /\ a.window \in 1 .. RecvWindow
    BY <1>0, <1>4, HeadTailProperties, OpenAckType DEF G12Ack
  <2>2. b \in Nat /\ base <= b /\ b <= next_seq
    <3>1. Ahead(base, a.seq) \in Nat
      BY <1>0, <2>1, AheadType
    <3> HIDE DEF a
    <3> QED
      BY <1>0, <3>1 DEF G12Confirmed
  <2>3. CASE b = G12Count /\ Return("over") /\ queue' = <<>> /\ UNCHANGED down
    <3>1. DoneServer
      BY <2>1, <2>3 DEF DoneServer
    <3> QED
      BY <2>3, <3>1, ReturnBounds DEF ServerDoes
  <2>4. CASE G12Turn(b, a.window, expired) /\ queue' = Tail(queue)
    <3>1. TakesAck(a)
      BY <2>1, <2>4 DEF TakesAck
    <3>2. b = ConfirmedBy(a)
      BY DEF ConfirmedBy
    <3>3. Confirms(b)
      BY <3>1, <3>2 DEF Confirms
    <3> HIDE DEF a, b
    <3>4. Moves(b) /\ BoundsInv'
      BY <2>1, <2>2, <2>4, G12TurnDoes
    <3>5. MovingServer
      BY <2>1, <3>3, <3>4 DEF MovingServer
    <3> QED
      BY <3>4, <3>5 DEF ServerDoes
  <2> QED
    BY <1>4, <2>3, <2>4 DEF G12Ack
<1>5. CASE G12Empty(expired)
  <2>1. G12Turn(base, window, expired) /\ serving = "sending" /\ UNCHANGED <<up, queue>>
    BY <1>5 DEF G12Empty
  <2>2. Moves(base) /\ BoundsInv'
    BY <1>0, <2>1, G12TurnDoes
  <2>3. MovingServer
    BY <2>1, <2>2 DEF MovingServer, Confirms, Listens
  <2> QED
    BY <2>2, <2>3 DEF ServerDoes
<1> QED
  BY <1>1, <1>2, <1>3, <1>4, <1>5

\* What group 3's server sends in a turn: a reply or nothing, packets, the empty packet or not.
LEMMA TurnSent ==
    ASSUME NEW early \in Seq(Replies), NEW S, NEW expired \in SUBSET S, IsFiniteSet(expired),
           NEW again \in Ascending(expired),
           next_seq \in Nat, NEW n \in Nat, next_seq <= n, next_seq .. n - 1 \subseteq S,
           NEW late \in Seq(PacketsOf(S))
    PROVE  early \o Packets(again) \o Packets(New(n)) \o late \in Seq(Replies \cup PacketsOf(S))
<1> DEFINE T == Replies \cup PacketsOf(S)
<1>1. Packets(again) \in Seq(PacketsOf(S)) /\ Packets(New(n)) \in Seq(PacketsOf(S))
  BY AgainSent, NewSent
<1>2. ASSUME NEW q, q \in Seq(Replies) \/ q \in Seq(PacketsOf(S))
      PROVE  q \in Seq(T)
  BY <1>2, SeqInto, ElementOfSeq
<1>3. early \in Seq(T) /\ Packets(again) \in Seq(T) /\ Packets(New(n)) \in Seq(T) /\ late \in Seq(T)
  BY <1>1, <1>2
<1> HIDE DEF T
<1>4. early \o Packets(again) \in Seq(T)
  BY <1>3, ConcatProperties
<1>5. early \o Packets(again) \o Packets(New(n)) \in Seq(T)
  BY <1>3, <1>4, ConcatProperties
<1>6. early \o Packets(again) \o Packets(New(n)) \o late \in Seq(T)
  BY <1>3, <1>5, ConcatProperties
<1> QED
  BY <1>6 DEF T

LEMMA G3TurnDoes ==
    ASSUME PeerInv, BoundsInv, setup.server = "G3", UNCHANGED setup,
           serving \in {"idle", "sending"},
           NEW early \in Seq(Replies), NEW b \in Nat, base <= b, b <= Chunks,
           NEW w \in 1 .. RecvWindow, NEW kept, kept = in_flight \ (base .. b - 1),
           NEW expired, G3Turn(early, b, w, kept, expired)
    PROVE  Moves(b) /\ BoundsInv' /\ queue' = queue
<1> DEFINE n == G3Filled(b, next_seq, w)
           late == IF b >= Chunks THEN <<EndPacket>> ELSE <<>>
           S == IF b >= Chunks THEN in_flight' \cup {Chunks} ELSE in_flight'
<1>0. /\ Chunks \in Nat /\ base \in Nat /\ next_seq \in Nat /\ PathInv
      /\ next_seq <= base + RecvWindow /\ next_seq <= Chunks /\ Limit = Chunks
      /\ RecvWindow \in Nat /\ IsFiniteSet(in_flight)
  BY ServerState, NumbersType
<1>1. /\ n \in Nat /\ next_seq <= n /\ n <= b + RecvWindow /\ n <= Chunks /\ b <= n
      /\ n = 0 => Chunks = 0
  BY <1>0 DEF G3Filled, Most, Least
<1>2. /\ base' = b /\ next_seq' = n /\ in_flight' = kept \cup (next_seq .. n - 1)
      /\ serving' = (IF b >= Chunks THEN "ending" ELSE "sending")
      /\ end_tries' = (IF b >= Chunks THEN 1 ELSE 0)
      /\ queue' = queue /\ file_ended' = file_ended
      /\ expired \subseteq kept
  BY DEF G3Turn
<1>3. PICK again \in Ascending(expired) :
        down' = Sent(down, early \o Packets(again) \o Packets(New(n)) \o late)
  BY DEF G3Turn
<1>4. late \in Seq(PacketsOf(S))
  <2>1. CASE b >= Chunks
    <3>1. EndPacket \in PacketsOf(S)
      BY <1>0, <2>1, EndIsPacket DEF PacketsOf
    <3> QED
      BY <2>1, <3>1
  <2>2. CASE ~ (b >= Chunks)
    BY <2>2
  <2> QED
    BY <2>1, <2>2
<1> HIDE DEF n, late
<1>5. Sends(S)
  <2>1. expired \in SUBSET S /\ next_seq .. n - 1 \subseteq S
    BY <1>2
  <2>2. IsFiniteSet(expired)
    <3>1. expired \in SUBSET in_flight
      BY <1>2
    <3> QED
      BY <1>0, <3>1, FS_Subset
  <2> HIDE DEF S
  <2>3. early \o Packets(again) \o Packets(New(n)) \o late \in Seq(Replies \cup PacketsOf(S))
    BY <1>0, <1>1, <1>4, <2>1, <2>2, TurnSent
  <2> QED
    BY <1>3, <2>3 DEF Sends
<1>6. in_flight \subseteq base .. next_seq - 1 /\ b <= next_seq => in_flight' \subseteq b .. n - 1
  BY <1>0, <1>1, <1>2
<1>7. Moves(b)
  <2>1. \/ serving' = "sending" /\ Sends(in_flight')
        \/ serving' = "ending" /\ b = Chunks /\ Sends(in_flight' \cup {Chunks})
    BY <1>0, <1>2, <1>5
  <2> QED
    BY <1>0, <1>1, <1>2, <1>6, <2>1 DEF Moves
<1>8. in_flight' \subseteq 0 .. n - 1
  <2>1. in_flight \subseteq 0 .. next_seq - 1
    BY DEF BoundsInv
  <2> QED
    BY <1>0, <1>1, <1>2, <2>1
<1>9. ~ file_ended
  BY DEF BoundsInv
<1>10. file_ended' \in BOOLEAN /\ ~ file_ended'
  BY <1>2, <1>9 DEF BoundsInv
<1>11. end_tries' \in 0 .. EndTries
  BY <1>2, EndTriesAssumption
<1>12. BoundsInv'
  <2>1. /\ serving' \in ServerStates
        /\ serving' # "idle" /\ serving' # "over"
        /\ serving' = "ending" => b = Chunks
    BY <1>0, <1>2 DEF ServerStates
  <2> QED
    BY <1>0, <1>1, <1>2, <1>8, <1>10, <1>11, <2>1, SetupKeeps DEF BoundsInv
<1> QED
  BY <1>2, <1>7, <1>12

LEMMA G3EndingDoes ==
    ASSUME PeerInv, BoundsInv, UNCHANGED setup, serving = "ending",
           UNCHANGED up \/ (\E d : Receives(d)), G3EndAgain
    PROVE  ServerDoes /\ BoundsInv'
<1>1. CASE /\ down' = Sent(down, <<EndPacket>>) /\ end_tries < EndTries /\ end_tries' = end_tries + 1
           /\ UNCHANGED <<serving, queue, base, next_seq, in_flight, file_ended>>
  <2>1. Sends({Chunks})
    BY <1>1, EndIsPacket, OneSends DEF PeerInv
  <2>2. EndingServer
    BY <1>1, <2>1 DEF EndingServer
  <2>3. end_tries' \in 0 .. EndTries
    BY <1>1, EndTriesAssumption DEF BoundsInv
  <2>4. BoundsInv'
    BY <1>1, <2>3, SetupKeeps DEF BoundsInv
  <2> QED
    BY <2>2, <2>4 DEF ServerDoes
<1>2. CASE Return("idle") /\ UNCHANGED <<down, queue>>
  <2>1. EndingServer
    BY <1>2 DEF EndingServer
  <2> QED
    BY <1>2, <2>1, ReturnBounds DEF ServerDoes
<1> QED
  BY <1>1, <1>2 DEF G3EndAgain

LEMMA G3ServerDoes ==
    ASSUME PeerInv, BoundsInv, setup.server = "G3", UNCHANGED setup, NEW d, NEW expired,
           \/ G3Get(d) \/ G3Drop(d) \/ G3Ack(d) \/ G3Skip(d) \/ G3EndAck(d)
           \/ G3Expire(expired) \/ G3EndTimeout
    PROVE  ServerDoes /\ BoundsInv'
<1>0. /\ PathInv /\ Chunks \in Nat /\ Limit = Chunks
      /\ base \in Nat /\ next_seq \in Nat /\ window \in 1 .. RecvWindow
      /\ base <= next_seq /\ next_seq <= Chunks
  BY ServerState
<1>1. CASE G3Get(d)
  <2>1. /\ d.type = "GET" /\ Receives(d) /\ serving = "idle"
        /\ G3Turn(<<GetReply>>, 0, Most(1, d.window), {}, {})
    BY <1>1 DEF G3Get
  <2>2. Most(1, d.window) \in 1 .. RecvWindow
    BY <1>0, <2>1, ReceivesType, NumbersType DEF Most
  <2>3. base = 0 /\ in_flight = {}
    <3>1. next_seq = 0 /\ base = 0 /\ in_flight \subseteq 0 .. next_seq - 1
      BY <2>1 DEF BoundsInv
    <3> QED
      BY <3>1
  <2>4. <<GetReply>> \in Seq(Replies)
    BY DEF Replies
  <2> DEFINE b == 0
             kept == {}
  <2>5. /\ b \in Nat /\ base <= b /\ b <= Chunks /\ kept = in_flight \ (base .. b - 1)
        /\ G3Turn(<<GetReply>>, b, Most(1, d.window), kept, {})
        /\ serving \in {"idle", "sending"}
    BY <1>0, <2>1, <2>3
  <2> HIDE DEF b, kept
  <2>6. Moves(b) /\ BoundsInv' /\ queue' = queue
    BY <2>2, <2>4, <2>5, G3TurnDoes
  <2>7. StartingServer
    BY <2>1, <2>6 DEF StartingServer, b
  <2> QED
    BY <2>6, <2>7 DEF ServerDoes
<1>2. CASE G3Drop(d)
  <2>1. DroppingServer
    BY <1>2 DEF G3Drop, DroppingServer
  <2> QED
    BY <1>2, <2>1, SameBounds DEF ServerDoes, G3Drop, serverVars
<1>3. CASE G3Ack(d)
  <2> DEFINE b == G3Confirmed(base, d.seq)
             kept == in_flight \ (base .. b - 1)
  <2>1. d \in OpenAcks /\ Receives(d) /\ serving = "sending"
    BY <1>0, <1>3, ReceivesType DEF G3Ack
  <2>2. d.seq \in SeqNums /\ d.window \in 1 .. RecvWindow
    BY <2>1, OpenAckType
  <2>3. b \in Nat /\ base <= b /\ b <= Chunks
    <3>1. Ahead(base, d.seq) \in Nat
      BY <1>0, <2>2, AheadType
    <3> QED
      BY <1>0, <3>1 DEF G3Confirmed, Least
  <2>4. PICK gone \in SUBSET kept : G3Turn(<<>>, b, d.window, kept, gone)
    BY <1>3 DEF G3Ack
  <2>5. b = ConfirmedBy(d)
    BY DEF ConfirmedBy
  <2> HIDE DEF b
  <2>6. <<>> \in Seq(Replies) /\ kept = in_flight \ (base .. b - 1)
    OBVIOUS
  <2> HIDE DEF kept
  <2>7. Moves(b) /\ BoundsInv' /\ queue' = queue
    BY <2>1, <2>2, <2>3, <2>4, <2>6, G3TurnDoes
  <2>8. Confirms(b)
    BY <2>1, <2>5, <2>7 DEF Confirms, TakesAck
  <2>9. MovingServer
    BY <2>1, <2>7, <2>8 DEF MovingServer
  <2> QED
    BY <2>7, <2>9 DEF ServerDoes
<1>4. CASE G3Skip(d)
  <2>1. /\ serving = "sending" /\ Receives(d) /\ UNCHANGED serverVars
        /\ down' = Sent(down, IF d.type = "GET" THEN <<GetReply>> ELSE <<>>)
        /\ d.type \in {"GET", "BAD"}
    BY <1>4 DEF G3Skip
  <2>2. Sends({})
    <3>1. (IF d.type = "GET" THEN <<GetReply>> ELSE <<>>) \in Seq(Replies \cup PacketsOf({}))
      <4> DEFINE T == Replies \cup PacketsOf({})
      <4>1. GetReply \in T
        BY DEF Replies
      <4> HIDE DEF T
      <4>2. <<GetReply>> \in Seq(T) /\ <<>> \in Seq(T)
        BY <4>1
      <4> QED
        BY <4>2 DEF T
    <3> QED
      BY <2>1, <3>1 DEF Sends
  <2>3. DroppingServer
    BY <2>1, <2>2 DEF DroppingServer
  <2> QED
    BY <2>1, <2>3, SameBounds DEF ServerDoes, serverVars
<1>5. CASE G3EndAck(d)
  <2>1. serving = "ending" /\ Receives(d)
    BY <1>5 DEF G3EndAck
  <2>2. CASE Return("idle") /\ UNCHANGED <<down, queue>>
    <3>1. EndingServer
      BY <2>1, <2>2 DEF EndingServer
    <3> QED
      BY <2>2, <3>1, ReturnBounds DEF ServerDoes
  <2>3. CASE G3EndAgain
    BY <2>1, <2>3, G3EndingDoes
  <2> QED
    BY <1>5, <2>2, <2>3 DEF G3EndAck
<1>6. CASE G3Expire(expired)
  <2>1. serving = "sending" /\ G3Turn(<<>>, base, window, in_flight, expired) /\ UNCHANGED up
    BY <1>6 DEF G3Expire
  <2>2. <<>> \in Seq(Replies) /\ in_flight = in_flight \ (base .. base - 1)
    BY <1>0
  <2>3. base <= Chunks /\ base <= base /\ serving \in {"idle", "sending"}
    BY <1>0, <2>1
  <2>4. Moves(base) /\ BoundsInv' /\ queue' = queue
    BY <1>0, <2>1, <2>2, <2>3, G3TurnDoes
  <2>5. MovingServer
    BY <2>1, <2>4 DEF MovingServer, Confirms, Listens
  <2> QED
    BY <2>4, <2>5 DEF ServerDoes
<1>7. CASE G3EndTimeout
  BY <1>7, G3EndingDoes DEF G3EndTimeout
<1> QED
  BY <1>1, <1>2, <1>3, <1>4, <1>5, <1>6, <1>7

LEMMA G2FilledBounds ==
    ASSUME NEW b \in Nat, NEW n \in Nat, b <= n, NEW w \in 1 .. RecvWindow,
           Chunks \in Nat, n <= Chunks, n <= b + RecvWindow
    PROVE  /\ G2Filled(b, n, w) \in Nat /\ n <= G2Filled(b, n, w)
           /\ G2Filled(b, n, w) <= b + RecvWindow /\ G2Filled(b, n, w) <= Chunks
           /\ G2Filled(b, n, w) = 0 => Chunks = 0
           /\ n = Chunks => G2Filled(b, n, w) = Chunks
           /\ G2Ended(b, n, w) => G2Filled(b, n, w) = Chunks
           /\ G2Ended(b, n, w) \in BOOLEAN
<1> DEFINE m == IF n = b THEN Most(w, 1) ELSE w
<1>1. m \in 1 .. RecvWindow
  BY NumbersType DEF Most
<1>2. G2Filled(b, n, w) = Most(n, Least(b + m, Chunks))
  BY DEF G2Filled
<1>3. G2Ended(b, n, w) \in BOOLEAN /\ (G2Ended(b, n, w) => G2Filled(b, n, w) = Chunks)
  BY DEF G2Ended
<1> HIDE DEF m
<1>4. /\ Most(n, Least(b + m, Chunks)) \in Nat /\ n <= Most(n, Least(b + m, Chunks))
      /\ Most(n, Least(b + m, Chunks)) <= b + RecvWindow
      /\ Most(n, Least(b + m, Chunks)) <= Chunks
      /\ Most(n, Least(b + m, Chunks)) = 0 => Chunks = 0
      /\ n = Chunks => Most(n, Least(b + m, Chunks)) = Chunks
  BY <1>1, NumbersType DEF Most, Least
<1> QED
  BY <1>2, <1>3, <1>4, Zenon

LEMMA G2TurnDoes ==
    ASSUME PeerInv, BoundsInv, setup.server = "G2", UNCHANGED setup, serving = "sending",
           NEW b \in Nat, base <= b, b <= next_seq,
           NEW w \in 1 .. RecvWindow, NEW expired, G2Turn(b, w, expired), Confirms(b)
    PROVE  ServerDoes /\ BoundsInv'
<1> DEFINE n == G2Filled(b, next_seq, w)
<1>0. /\ Chunks \in Nat /\ base \in Nat /\ next_seq \in Nat /\ PathInv
      /\ next_seq <= base + RecvWindow /\ next_seq <= Chunks /\ Limit = Chunks
      /\ RecvWindow \in Nat
  BY ServerState, NumbersType
<1>1. CASE /\ file_ended /\ b = next_seq /\ Return("idle")
           /\ down' = Sent(down, <<Data(next_seq % SeqCount, EOF)>>)
  <2>1. next_seq = Chunks
    BY <1>1 DEF BoundsInv
  <2>2. Sends({Chunks})
    BY <1>0, <1>1, <2>1, EndIsPacket, OneSends
  <2>3. DoneServer
    BY <1>1, <2>1, <2>2 DEF DoneServer
  <2> QED
    BY <1>1, <2>3, ReturnBounds DEF ServerDoes
<1>2. CASE /\ base' = b /\ window' = w /\ next_seq' = n
           /\ in_flight' = b .. next_seq' - 1
           /\ file_ended' = (file_ended \/ G2Ended(b, next_seq, w))
           /\ \E again \in Ascending(expired) :
                down' = Sent(down, Packets(again) \o Packets(New(next_seq')))
           /\ UNCHANGED <<serving, end_tries>>
  <2>1. next_seq <= b + RecvWindow
    BY <1>0
  <2>2. /\ n \in Nat /\ next_seq <= n /\ n <= b + RecvWindow /\ n <= Chunks
        /\ n = 0 => Chunks = 0
        /\ next_seq = Chunks => n = Chunks
        /\ G2Ended(b, next_seq, w) => n = Chunks
        /\ G2Ended(b, next_seq, w) \in BOOLEAN
    BY <1>0, <2>1, G2FilledBounds
  <2> HIDE DEF n
  <2>3. PICK again \in Ascending(expired) :
          down' = Sent(down, Packets(again) \o Packets(New(n)))
    BY <1>2
  <2>4. Sends(in_flight')
    <3>1. /\ expired \in SUBSET (b .. n - 1) /\ next_seq .. n - 1 \subseteq b .. n - 1
          /\ next_seq - 1 \in Int /\ expired \subseteq b .. next_seq - 1
      BY <1>0, <2>2 DEF G2Turn
    <3>2. IsFiniteSet(expired)
      BY <3>1, IntervalSubset
    <3>3. Packets(again) \o Packets(New(n)) \in Seq(Replies \cup PacketsOf(b .. n - 1))
      BY <1>0, <2>2, <3>1, <3>2, BothSent
    <3> QED
      BY <1>2, <2>3, <3>3 DEF Sends
  <2>5. Moves(b)
    BY <1>0, <1>2, <2>2, <2>4 DEF Moves
  <2>6. MovingServer
    BY <2>5 DEF MovingServer
  <2>7. file_ended' \in BOOLEAN
    BY <1>2, <2>2 DEF BoundsInv
  <2>8. file_ended' => n = Chunks
    <3>1. file_ended \/ G2Ended(b, next_seq, w) => n = Chunks
      BY <2>2 DEF BoundsInv
    <3> QED
      BY <1>2, <3>1
  <2>9. in_flight' \subseteq 0 .. n - 1
    BY <1>2, <2>2
  <2>10. BoundsInv'
    BY <1>0, <1>2, <2>2, <2>7, <2>8, <2>9, SetupKeeps DEF BoundsInv
  <2> QED
    BY <2>6, <2>10 DEF ServerDoes
<1> QED
  BY <1>1, <1>2, Zenon DEF G2Turn

LEMMA G2ServerDoes ==
    ASSUME PeerInv, BoundsInv, setup.server = "G2", UNCHANGED setup, NEW d, NEW expired,
           \/ G2Get(d) \/ G2CutGet(d) \/ G2Drop(d) \/ G2Ack(d) \/ G2Skip(d)
           \/ G2Idle(expired)
    PROVE  ServerDoes /\ BoundsInv'
<1>0. /\ PathInv /\ Chunks \in Nat /\ Limit = Chunks
      /\ base \in Nat /\ next_seq \in Nat /\ window \in 1 .. RecvWindow
      /\ base <= next_seq /\ next_seq <= Chunks
  BY ServerState
<1>1. CASE G2Get(d)
  <2>1. d.type = "GET" /\ Receives(d) /\ serving = "idle"
    BY <1>1 DEF G2Get
  <2>3. CASE /\ setup.chunks = Missing /\ down' = Sent(down, <<NoFile>>)
             /\ UNCHANGED serverVars
    <3>1. Sends({Chunks})
      BY <1>0, <2>3, EndIsPacket, OneSends
    <3>2. MissingServer
      BY <2>1, <2>3, <3>1 DEF MissingServer, serverVars
    <3> QED
      BY <2>3, <3>2, SameBounds DEF ServerDoes, serverVars
  <2>4. CASE setup.chunks # Missing
    <3> DEFINE n == G2Filled(0, 0, 1)
               b == 0
    <3>1. /\ serving' = "sending" /\ next_seq' = n /\ in_flight' = 0 .. next_seq' - 1
          /\ file_ended' = G2Ended(0, 0, 1) /\ down' = Sent(down, Packets(New(next_seq')))
          /\ UNCHANGED <<base, window, queue, end_tries>>
      BY <1>1, <2>4 DEF G2Get
    <3>2. base = 0 /\ next_seq = 0
      BY <2>1 DEF BoundsInv
    <3>3. /\ n \in Nat /\ n <= RecvWindow /\ n <= Chunks
          /\ n = 0 => Chunks = 0
          /\ G2Ended(0, 0, 1) => n = Chunks
          /\ G2Ended(0, 0, 1) \in BOOLEAN
      <4>1. 1 \in 1 .. RecvWindow /\ b \in Nat /\ b <= b /\ b <= Chunks /\ b <= b + RecvWindow
            /\ b + RecvWindow = RecvWindow
        BY <1>0, NumbersType
      <4>2. n = G2Filled(b, b, 1) /\ G2Ended(0, 0, 1) = G2Ended(b, b, 1)
        OBVIOUS
      <4> HIDE DEF b, n
      <4> QED
        BY <1>0, <4>1, <4>2, G2FilledBounds
    <3> HIDE DEF n
    <3>4. Sends(in_flight')
      <4>1. Packets(New(n)) \in Seq(PacketsOf(0 .. n - 1))
        BY <1>0, <3>2, <3>3, NewSent
      <4>2. Packets(New(n)) \in Seq(Replies \cup PacketsOf(0 .. n - 1))
        BY <4>1, SeqInto, ElementOfSeq
      <4> QED
        BY <3>1, <4>2 DEF Sends
    <3>5. Moves(0)
      BY <3>1, <3>2, <3>3, <3>4, NumbersType DEF Moves
    <3>6. StartingServer
      BY <2>1, <3>1, <3>5 DEF StartingServer
    <3>7. file_ended' \in BOOLEAN /\ (file_ended' => n = Chunks)
      BY <3>1, <3>3
    <3>8. BoundsInv'
      BY <1>0, <3>1, <3>2, <3>3, <3>7, SetupKeeps, NumbersType DEF BoundsInv, ServerStates
    <3> QED
      BY <3>6, <3>8 DEF ServerDoes
  <2> QED
    BY <1>1, <2>3, <2>4 DEF G2Get
<1>2. CASE G2Drop(d)
  <2>1. DroppingServer
    BY <1>2 DEF G2Drop, DroppingServer
  <2> QED
    BY <1>2, <2>1, SameBounds DEF ServerDoes, G2Drop, serverVars
<1>6. CASE G2CutGet(d)
  <2>1. d = CutGet
    <3>1. d \in OpenUp /\ d.type = "CUT"
      BY <1>0, <1>6, ReceivesUp DEF G2CutGet, PathInv
    <3> QED
      BY <3>1 DEF OpenUp, OpenAcks, Get, Bad
  <2>2. RefusingServer
    BY <1>6, <2>1 DEF G2CutGet, RefusingServer
  <2> QED
    BY <1>6, <2>2, SameBounds DEF ServerDoes, G2CutGet, serverVars
<1>3. CASE G2Ack(d)
  <2> DEFINE b == G2Confirmed(base, next_seq, d.seq)
  <2>1. d \in OpenAcks /\ Receives(d) /\ serving = "sending"
    BY <1>0, <1>3, ReceivesType DEF G2Ack
  <2>2. d.seq \in SeqNums /\ d.window \in 1 .. RecvWindow
    BY <2>1, OpenAckType
  <2>3. b \in Nat /\ base <= b /\ b <= next_seq
    <3>1. Ahead(base, d.seq) \in Nat
      BY <1>0, <2>2, AheadType
    <3> QED
      BY <1>0, <3>1 DEF G2Confirmed, Least
  <2>4. PICK gone \in SUBSET (b .. next_seq - 1) : G2Turn(b, d.window, gone)
    BY <1>3 DEF G2Ack
  <2>5. b = ConfirmedBy(d)
    BY DEF ConfirmedBy
  <2> HIDE DEF b
  <2>6. Confirms(b)
    BY <2>1, <2>4, <2>5 DEF Confirms, TakesAck, G2Turn
  <2> QED
    BY <2>1, <2>2, <2>3, <2>4, <2>6, G2TurnDoes
<1>4. CASE G2Skip(d)
  <2>1. serving = "sending" /\ d.type # "ACK" /\ Receives(d)
    BY <1>4 DEF G2Skip
  <2>2. PICK gone \in SUBSET (base .. next_seq - 1) : G2Turn(base, window, gone)
    BY <1>4 DEF G2Skip
  <2>3. Confirms(base)
    BY <2>1, <2>2 DEF Confirms, Listens, G2Turn
  <2>4. base <= base
    BY <1>0
  <2> QED
    BY <1>0, <2>1, <2>2, <2>3, <2>4, G2TurnDoes
<1>5. CASE G2Idle(expired)
  <2>1. serving = "sending" /\ G2Turn(base, window, expired) /\ UNCHANGED up
    BY <1>5 DEF G2Idle
  <2>2. Confirms(base)
    BY <2>1 DEF Confirms, Listens, G2Turn
  <2>3. base <= base
    BY <1>0
  <2> QED
    BY <1>0, <2>1, <2>2, <2>3, G2TurnDoes
<1> QED
  BY <1>1, <1>2, <1>3, <1>4, <1>5, <1>6

LEMMA ServerStepDoes ==
    ASSUME PeerInv, BoundsInv, ServerStep
    PROVE  ServerDoes /\ BoundsInv' /\ UNCHANGED <<setup, clientVars>>
<1>1. UNCHANGED <<setup, clientVars>>
  BY DEF ServerStep
<1>2. ASSUME NEW d, ServerReads(d)
      PROVE  ServerDoes /\ BoundsInv'
  BY <1>1, <1>2, G12ServerDoes, G3ServerDoes, G2ServerDoes DEF ServerReads
<1>3. ASSUME NEW expired, ServerRuns(expired)
      PROVE  ServerDoes /\ BoundsInv'
  BY <1>1, <1>3, G12ServerDoes, G3ServerDoes, G2ServerDoes DEF ServerRuns
<1> QED
  BY <1>1, <1>2, <1>3 DEF ServerStep

-----------------------------------------------------------------------------
(***************************************************************************)
(* The types of all variables, and what is on its way to the client: the   *)
(* packets of the file, and replies to the GET, or what is left of them.   *)
(***************************************************************************)
Refusals == IF GetsCut THEN {NoFile} ELSE {}
Carries(S) == {Bad} \cup Replies \cup Refusals \cup PacketsOf(S)
FileDatagrams == Carries(0 .. Chunks)

ClientTypes ==
    /\ status \in Statuses /\ tries \in 1 .. GetTries
    /\ \A i \in DOMAIN buffer : buffer[i] \in Payloads
    /\ saved \in Seq(Nat)
RoomInv == Len(up) <= Room /\ Len(down) <= Room /\ Len(queue) <= Room
DownInv == down \in Seq(FileDatagrams)
PlainUp == {Get, Bad} \cup OpenAcks
CutInv == ~ GetsCut => up \in Seq(PlainUp)

TypesInv == PeerInv /\ BoundsInv /\ ClientTypes /\ RoomInv /\ DownInv /\ CutInv

LEMMA SameDatagrams == ASSUME UNCHANGED setup PROVE FileDatagrams' = FileDatagrams
BY SetupKeeps DEF FileDatagrams, Carries, Replies, Refusals, GetsCut, PacketsOf, Packet, Chunks

LEMMA SendsWithin ==
    ASSUME NEW S, NEW T, S \subseteq T, down \in Seq(Carries(T)), Sends(S)
    PROVE  down' \in Seq(Carries(T)) /\ Len(down') <= Room
<1>1. PICK ds \in Seq(Replies \cup PacketsOf(S)) : down' = Sent(down, ds)
  BY DEF Sends
<1>2. Replies \cup PacketsOf(S) \subseteq Carries(T)
  BY DEF PacketsOf, Carries
<1>3. ds \in Seq(Carries(T))
  BY <1>2, SeqInto, ElementOfSeq
<1> QED
  BY <1>1, <1>3, SentElements

LEMMA ReadsDown ==
    ASSUME NEW T, down \in Seq(T), NEW d, Reads(d)
    PROVE  d \in T /\ down' \in Seq(T) /\ Len(down') <= Len(down)
<1>1. PICK i \in DOMAIN down : down[i] = d /\ down' = RemoveAt(down, i)
  BY DEF Reads, Arrives, Arriving
<1>2. down' \in Seq(T) /\ Len(down') = Len(down) - 1 /\ d \in T
  BY <1>1, RemoveAtElements, RemoveAtType
<1>3. Len(down) \in Nat
  BY LenProperties
<1> QED
  BY <1>2, <1>3

LEMMA OneFits ==
    ASSUME NEW S, NEW q \in Seq(S), NEW a
    PROVE  Len(Sent(q, <<a>>)) <= Room
<1> DEFINE T == S \cup {a}
<1>1. q \in Seq(T)
  BY SeqInto, ElementOfSeq
<1>2. a \in T
  OBVIOUS
<1> HIDE DEF T
<1>3. <<a>> \in Seq(T)
  BY <1>2
<1> QED
  BY <1>1, <1>3, SentElements

\* A program sends a GET or an ACK.
LEMMA PlainSent ==
    ASSUME up \in Seq(PlainUp), up' \in Seq(OpenUp), NEW a, a # CutGet, up' = Sent(up, <<a>>)
    PROVE  up' \in Seq(PlainUp)
<1>1. a \in PlainUp \cup {a} /\ up \in Seq(PlainUp \cup {a})
  BY SeqInto, ElementOfSeq
<1>2. up' \in Seq(PlainUp \cup {a})
  BY <1>1, OneSent
<1>3. \A i \in 1 .. Len(up') : up'[i] \in PlainUp \cup {a} /\ up'[i] \in OpenUp
  BY <1>2, ElementOfSeq
<1>4. \A i \in 1 .. Len(up') : up'[i] \in PlainUp
  BY <1>3 DEF OpenUp, PlainUp
<1> QED
  BY <1>4, SeqInto

LEMMA ClientSends ==
    ASSUME ClientDoes
    PROVE  UNCHANGED up \/ \E a : a # CutGet /\ up' = Sent(up, <<a>>)
<1>1. \/ UNCHANGED up \/ up' = Sent(up, <<Get>>) \/ \E n, buf : SendAck(n, buf)
      \/ \E a : a.type = "ACK" /\ up' = Sent(up, <<a>>)
  BY Zenon DEF ClientDoes, QuietClient, AskingClient, RepeatingClient, KeepingClient, EndingClient,
         LeavingClient, netVars
<1>2. Get # CutGet /\ \A a : a.type = "ACK" => a # CutGet
  BY DEF Get, CutGet
<1>3. \A n, buf : SendAck(n, buf) => \E a : a.type = "ACK" /\ up' = Sent(up, <<a>>)
  <2> TAKE n, buf
  <2>1. Ack(n % SeqCount, Free(buf)).type = "ACK"
    BY DEF Ack
  <2> QED
    BY <2>1 DEF SendAck
<1> QED
  BY <1>1, <1>2, <1>3

\* What a client does to the path.
LEMMA ClientPath ==
    ASSUME TypesInv, ClientDoes
    PROVE  /\ down' \in Seq(FileDatagrams) /\ Len(down') <= Room /\ Len(up') <= Room
           /\ queue' = queue => RoomInv'
<1>1. down' \in Seq(FileDatagrams) /\ Len(down') <= Room
  <2>1. UNCHANGED down \/ \E d : Reads(d)
    BY Zenon DEF ClientDoes, QuietClient, AskingClient, RepeatingClient, KeepingClient, EndingClient,
           LeavingClient, netVars
  <2>2. down \in Seq(FileDatagrams) /\ Len(down) <= Room /\ Len(down) \in Nat /\ Room \in Nat
    BY LenProperties, NumbersAssumption DEF TypesInv, DownInv, RoomInv
  <2>3. ASSUME NEW d, Reads(d)
        PROVE  down' \in Seq(FileDatagrams) /\ Len(down') <= Room
    <3>1. down' \in Seq(FileDatagrams) /\ Len(down') <= Len(down)
      BY <2>2, <2>3, ReadsDown
    <3>2. Len(down') \in Nat
      BY <3>1, LenProperties
    <3> QED
      BY <2>2, <3>1, <3>2
  <2> QED
    BY <2>1, <2>2, <2>3
<1>2. Len(up') <= Room
  <2>1. UNCHANGED up \/ \E a : up' = Sent(up, <<a>>)
    BY ClientSends, Zenon
  <2>2. up \in Seq(OpenUp) /\ Len(up) <= Room
    BY DEF TypesInv, PeerInv, PathInv, RoomInv
  <2> QED
    BY <2>1, <2>2, OneFits
<1> QED
  BY <1>1, <1>2 DEF TypesInv, RoomInv

-----------------------------------------------------------------------------
\* What Reassembled moves to the file.

LEMMA SameLength ==
    ASSUME NEW a \in Nat, NEW b \in Nat, 1 .. a = 1 .. b
    PROVE  a = b
<1>1. CASE a < b
  <2>1. b \in 1 .. b /\ b \notin 1 .. a
    BY <1>1
  <2> QED
    BY <2>1
<1>2. CASE b < a
  <2>1. a \in 1 .. a /\ a \notin 1 .. b
    BY <1>2
  <2> QED
    BY <2>1
<1> QED
  BY <1>1, <1>2

LEMMA ReassembledSaves ==
    ASSUME expected \in Nat, NEW buf, DOMAIN buf \subseteq expected .. expected + RecvWindow - 1,
           \A i \in DOMAIN buf : buf[i] \in Payloads, Reassembled(buf), saved \in Seq(Nat)
    PROVE  /\ \A i \in DOMAIN buffer' : i \in DOMAIN buf /\ buffer'[i] = buf[i]
           /\ expected' \in Nat /\ expected <= expected' /\ expected' <= expected + RecvWindow
           /\ \A i \in expected .. expected' - 1 : i \in DOMAIN buf
           /\ expected' \notin DOMAIN buf
           /\ \E more \in Seq(Nat) :
                /\ saved' = saved \o more
                /\ \A lo \in Nat, m \in Nat :
                     {i \in expected .. expected' - 1 : buf[i] # EOF} = lo .. lo + m - 1 =>
                       Len(more) = m /\ \A k \in 1 .. m : more[k] = buf[lo + k - 1]
<1>1. /\ expected' = FirstMissing(buf)
      /\ buffer' = [j \in {j \in DOMAIN buf : j >= expected'} |-> buf[j]]
  BY DEF Reassembled
<1>2. /\ expected' \in Nat /\ expected <= expected' /\ expected' \notin DOMAIN buf
      /\ \A i \in expected .. expected' - 1 : i \in DOMAIN buf
  BY <1>1, FirstMissingType
<1>3. expected' <= expected + RecvWindow
  <2>1. ASSUME expected' > expected + RecvWindow
        PROVE  FALSE
    <3> DEFINE e == expected'
    <3>0. e \in Nat /\ e > expected + RecvWindow
      BY <1>2, <2>1
    <3> HIDE DEF e
    <3>1. expected + RecvWindow \in expected .. e - 1
      BY <3>0, NumbersType
    <3>2. expected + RecvWindow \in expected .. expected + RecvWindow - 1
      BY <1>2, <3>1 DEF e
    <3> QED
      BY <3>2, NumbersType
  <2> QED
    BY <1>2, <2>1, NumbersType
<1> DEFINE S == {i \in expected .. expected' - 1 : buf[i] # EOF}
<1>4. PICK chunks \in Ascending(S) : saved' = saved \o [k \in DOMAIN chunks |-> buf[chunks[k]]]
  BY DEF Reassembled
<1> DEFINE more == [k \in DOMAIN chunks |-> buf[chunks[k]]]
           c == Cardinality(S)
<1>5. chunks \in [1 .. c -> S] /\ DOMAIN chunks = 1 .. c
  BY DEF Ascending
<1>6. c \in Nat
  <2>1. S \in SUBSET (expected .. expected' - 1) /\ expected' - 1 \in Int
    BY <1>2
  <2> HIDE DEF S
  <2>2. IsFiniteSet(S)
    BY <2>1, IntervalSubset
  <2> QED
    BY <2>2, FS_CardinalityType
<1>7. \A i \in S : buf[i] \in Nat
  BY <1>2 DEF Payloads
<1> HIDE DEF S, c
<1>8. more \in [1 .. c -> Nat]
  BY <1>5, <1>7
<1> HIDE DEF more
<1>9. more \in Seq(Nat)
  BY <1>6, <1>8, FunctionIsSeq
<1>10. ASSUME NEW lo \in Nat, NEW m \in Nat, S = lo .. lo + m - 1
       PROVE  Len(more) = m /\ \A k \in 1 .. m : more[k] = buf[lo + k - 1]
  <2>1. chunks = [k \in 1 .. m |-> lo + k - 1]
    <3>1. chunks \in Ascending(lo .. lo + m - 1) /\ lo \in Int
      BY <1>10
    <3> QED
      BY <3>1, AscendingInterval
  <2>2. DOMAIN chunks = 1 .. m
    BY <2>1
  <2>3. more = [k \in 1 .. m |-> buf[lo + k - 1]]
    BY <2>1, <2>2 DEF more
  <2>4. DOMAIN more = 1 .. Len(more) /\ Len(more) \in Nat
    BY <1>9, LenProperties
  <2>5. DOMAIN more = 1 .. m
    BY <2>3
  <2>6. Len(more) = m
    BY <2>4, <2>5, SameLength
  <2> QED
    BY <2>3, <2>6
<1>11. saved' = saved \o more
  BY <1>4 DEF more
<1>12. \A i \in DOMAIN buffer' : i \in DOMAIN buf /\ buffer'[i] = buf[i]
  BY <1>1
<1> QED
  BY <1>2, <1>3, <1>9, <1>10, <1>11, <1>12 DEF S

\* What a packet is kept in.
LEMMA StoredElements ==
    ASSUME TypesInv, NEW s \in SeqNums, NEW p \in Payloads, NEW buf,
           buf = (IF InWindow(s) THEN Stored(s, p) ELSE buffer)
    PROVE  /\ DOMAIN buf \subseteq expected .. expected + RecvWindow - 1
           /\ \A i \in DOMAIN buf : \/ i \in DOMAIN buffer /\ buf[i] = buffer[i]
                                    \/ InWindow(s) /\ i = expected + Distance(s) /\ buf[i] = p
           /\ \A i \in DOMAIN buf : buf[i] \in Payloads
<1>1. expected \in Nat /\ DOMAIN buffer \subseteq AheadOf(expected)
  BY DEF TypesInv, PeerInv, ClientInv
<1>2. DOMAIN buf \subseteq expected .. expected + RecvWindow - 1
  BY <1>1, StoredHeld
<1>3. \A i \in DOMAIN buf : \/ i \in DOMAIN buffer /\ buf[i] = buffer[i]
                            \/ InWindow(s) /\ i = expected + Distance(s) /\ buf[i] = p
  BY DEF Stored
<1>4. \A i \in DOMAIN buf : buf[i] \in Payloads
  BY <1>3 DEF TypesInv, ClientTypes
<1> QED
  BY <1>2, <1>3, <1>4

LEMMA ReadsData ==
    ASSUME TypesInv, NEW s, NEW p, Reads(Data(s, p))
    PROVE  s \in SeqNums /\ p \in Payloads /\ Data(s, p) \in FileDatagrams
<1>1. Data(s, p) \in DownDatagrams
  BY ReadsType DEF TypesInv, PeerInv
<1>2. s \in SeqNums /\ p \in Payloads
  BY <1>1 DEF DownDatagrams, Data, Acks, Bad
<1>3. Data(s, p) \in FileDatagrams
  BY ReadsDown DEF TypesInv, DownInv
<1> QED
  BY <1>2, <1>3

LEMMA KeepingTypes ==
    ASSUME TypesInv, NEW s, NEW p, KeepingClient(s, p)
    PROVE  (\A i \in DOMAIN buffer' : buffer'[i] \in Payloads) /\ saved' \in Seq(Nat)
<1> DEFINE buf == IF InWindow(s) THEN Stored(s, p) ELSE buffer
<1>1. s \in SeqNums /\ p \in Payloads
  BY ReadsData DEF KeepingClient
<1>2. DOMAIN buf \subseteq expected .. expected + RecvWindow - 1 /\ \A i \in DOMAIN buf : buf[i] \in Payloads
  BY <1>1, StoredElements
<1>3. Reassembled(buf) /\ expected \in Nat /\ saved \in Seq(Nat)
  BY DEF KeepingClient, TypesInv, PeerInv, ClientInv, ClientTypes
<1> HIDE DEF buf
<1>4. \A i \in DOMAIN buffer' : i \in DOMAIN buf /\ buffer'[i] = buf[i]
  BY <1>2, <1>3, ReassembledSaves
<1>5. PICK more \in Seq(Nat) : saved' = saved \o more
  BY <1>2, <1>3, ReassembledSaves
<1>6. saved \o more \in Seq(Nat)
  BY <1>3, <1>5, ConcatProperties
<1> QED
  BY <1>2, <1>4, <1>5, <1>6

LEMMA ClientStepTypes == TypesInv /\ ClientStep => TypesInv'
<1> SUFFICES ASSUME TypesInv, ClientStep
             PROVE  TypesInv'
  OBVIOUS
<1>1. ClientDoes /\ tries' \in 1 .. GetTries /\ UNCHANGED <<setup, serverVars>>
  BY ClientStepDoes DEF TypesInv, ClientTypes
<1>2. PeerInv'
  BY ClientStepKeeps DEF TypesInv
<1>3. BoundsInv'
  BY <1>1, SameBounds DEF TypesInv, serverVars
<1>4. RoomInv' /\ DownInv'
  BY <1>1, ClientPath, SameDatagrams DEF DownInv, serverVars
<1>7. CutInv'
  <2>1. GetsCut' = GetsCut
    BY <1>1 DEF GetsCut
  <2>2. ASSUME up \in Seq(PlainUp)
        PROVE  up' \in Seq(PlainUp)
    <3>1. up' \in Seq(OpenUp)
      BY <1>2 DEF PeerInv, PathInv
    <3> QED
      BY <1>1, <2>2, <3>1, ClientSends, PlainSent
  <2> QED
    BY <2>1, <2>2 DEF CutInv, TypesInv
<1>5. status' \in Statuses
  BY <1>1, Zenon DEF ClientDoes, QuietClient, AskingClient, RepeatingClient, KeepingClient, EndingClient,
         LeavingClient, TypesInv, ClientTypes, Statuses
<1>6. (\A i \in DOMAIN buffer' : buffer'[i] \in Payloads) /\ saved' \in Seq(Nat)
  <2>1. CASE UNCHANGED receiver
    BY <2>1 DEF receiver, TypesInv, ClientTypes
  <2>2. CASE \E s, p : KeepingClient(s, p)
    BY <2>2, KeepingTypes
  <2> QED
    BY <1>1, <2>1, <2>2, Zenon DEF ClientDoes, QuietClient, AskingClient, RepeatingClient, EndingClient,
           LeavingClient
<1> QED
  BY <1>1, <1>2, <1>3, <1>4, <1>5, <1>6, <1>7 DEF TypesInv, ClientTypes

LEMMA ServerReceives == ASSUME ServerDoes PROVE UNCHANGED up \/ \E d : Receives(d)
<1>1. CASE RefusingServer
  BY <1>1 DEF RefusingServer
<1>2. CASE ~ RefusingServer
  BY <1>2, Zenon DEF ServerDoes, DroppingServer, MissingServer, StartingServer, QueueingServer,
         MovingServer, DoneServer, EndingServer, Confirms, Listens, TakesAck
<1> QED
  BY <1>1, <1>2

\* Only the answer to a GET that was cut is no packet of the file.
LEMMA RefusedIs ==
    ASSUME TypesInv, RefusingServer
    PROVE  GetsCut /\ NoFile \in Refusals
<1>1. ASSUME ~ GetsCut
      PROVE  FALSE
  <2>1. CutGet \in PlainUp
    BY <1>1, ReceivesUp DEF RefusingServer, TypesInv, CutInv
  <2> QED
    BY <2>1 DEF PlainUp, OpenAcks, CutGet, Get, Bad
<1> QED
  BY <1>1 DEF Refusals

\* What a server does to the path.
LEMMA ServerPath ==
    ASSUME TypesInv, BoundsInv', UNCHANGED setup, ServerDoes
    PROVE  DownInv' /\ RoomInv' /\ CutInv'
<1>0. /\ Len(up) \in Nat /\ Len(down) \in Nat /\ Len(queue) \in Nat /\ Room \in Nat
      /\ Len(up) <= Room /\ Len(down) <= Room /\ Len(queue) <= Room
      /\ up \in Seq(OpenUp) /\ queue \in Seq(OpenAcks) /\ Chunks \in Nat /\ DownInv
  BY LenProperties, NumbersAssumption, ChunksType
  DEF TypesInv, PeerInv, PathInv, ServerInv, RoomInv, DownInv
<1>1. DownInv' /\ Len(down') <= Room
  <2>1. \/ UNCHANGED down \/ RefusingServer
        \/ \E S \in SUBSET (0 .. Chunks) : Sends(S)
    <3>1. CASE DroppingServer
      BY <3>1 DEF DroppingServer
    <3>2. CASE MissingServer \/ DoneServer \/ EndingServer
      <4>1. {Chunks} \in SUBSET (0 .. Chunks)
        BY <1>0
      <4>2. UNCHANGED down \/ Sends({Chunks})
        BY <3>2, Zenon DEF MissingServer, DoneServer, EndingServer
      <4> QED
        BY <4>1, <4>2, Zenon
    <3>3. ASSUME NEW b, Moves(b)
          PROVE  \E S \in SUBSET (0 .. Chunks) : Sends(S)
      <4>1. next_seq' \in Nat /\ in_flight' \subseteq 0 .. next_seq' - 1 /\ next_seq' <= Limit
        BY <3>3, SetupKeeps DEF BoundsInv, Moves
      <4>2. Limit <= Chunks + 1 /\ Limit \in Nat
        BY <1>0 DEF Limit, G12Count
      <4>3. in_flight' \in SUBSET (0 .. Chunks) /\ (in_flight' \cup {Chunks}) \in SUBSET (0 .. Chunks)
        <5> DEFINE n == next_seq'
        <5>0. n \in Nat /\ n <= Limit /\ Chunks \in Nat /\ in_flight' \subseteq 0 .. n - 1
          BY <1>0, <4>1
        <5> HIDE DEF n
        <5>1. \A i \in in_flight' : i \in 0 .. Chunks
          BY <4>2, <5>0
        <5> QED
          BY <1>0, <5>1
      <4> QED
        BY <3>3, <4>3, Zenon DEF Moves
    <3>4. CASE QueueingServer
      BY <3>4 DEF QueueingServer
    <3> QED
      BY <3>1, <3>2, <3>3, <3>4 DEF ServerDoes, StartingServer, MovingServer
  <2>3. ASSUME RefusingServer
        PROVE  down' \in Seq(FileDatagrams) /\ Len(down') <= Room
    <3>1. NoFile \in FileDatagrams
      BY <2>3, RefusedIs DEF FileDatagrams, Carries
    <3>2. down \in Seq(FileDatagrams) /\ down' = Sent(down, <<NoFile>>)
      BY <1>0, <2>3 DEF RefusingServer, DownInv
    <3> QED
      BY <3>1, <3>2, OneSent, OneFits
  <2>2. down' \in Seq(FileDatagrams) /\ Len(down') <= Room
    BY <1>0, <2>1, <2>3, SendsWithin DEF DownInv, FileDatagrams
  <2> QED
    BY <2>2, SameDatagrams DEF DownInv
<1>2. Len(up') <= Room
  <2>1. UNCHANGED up \/ \E d : Receives(d)
    BY ServerReceives
  <2>2. ASSUME NEW d, Receives(d)
        PROVE  Len(up') <= Room
    <3>1. Len(up') <= Len(up) /\ up' \in Seq(OpenUp)
      BY <1>0, <2>2, ReceivesUp
    <3>2. Len(up') \in Nat
      BY <3>1, LenProperties
    <3> QED
      BY <1>0, <3>1, <3>2
  <2> QED
    BY <1>0, <2>1, <2>2
<1>3. Len(queue') <= Room
  <2>1. \/ UNCHANGED queue \/ queue' = <<>>
        \/ queue # <<>> /\ queue' = Tail(queue)
        \/ Len(queue) < Room /\ \E d : d.type = "ACK" /\ Receives(d) /\ queue' = Append(queue, d)
    BY Zenon DEF ServerDoes, DroppingServer, MissingServer, RefusingServer, StartingServer,
           QueueingServer, MovingServer, DoneServer, EndingServer, Confirms, Listens, TakesAck,
           serverVars
  <2>2. CASE queue # <<>> /\ queue' = Tail(queue)
    <3>1. Len(queue') = Len(queue) - 1
      BY <1>0, <2>2, HeadTailProperties
    <3> QED
      BY <1>0, <3>1
  <2>3. ASSUME NEW d, Len(queue) < Room, queue' = Append(queue, d), d.type = "ACK", Receives(d)
        PROVE  Len(queue') <= Room
    <3>1. d \in OpenAcks
      BY <2>3, ReceivesType DEF TypesInv, PeerInv
    <3>2. Len(queue') = Len(queue) + 1
      BY <1>0, <2>3, <3>1, AppendProperties
    <3> QED
      BY <1>0, <2>3, <3>2
  <2>4. CASE queue' = <<>>
    BY <1>0, <2>4
  <2> QED
    BY <1>0, <2>1, <2>2, <2>3, <2>4
<1>4. CutInv'
  <2>1. GetsCut' = GetsCut
    BY DEF GetsCut
  <2>2. ASSUME up \in Seq(PlainUp)
        PROVE  up' \in Seq(PlainUp)
    BY <2>2, ServerReceives, ReceivesUp
  <2> QED
    BY <2>1, <2>2 DEF CutInv, TypesInv
<1> QED
  BY <1>1, <1>2, <1>3, <1>4 DEF RoomInv

LEMMA ServerStepTypes == TypesInv /\ ServerStep => TypesInv'
<1> SUFFICES ASSUME TypesInv, ServerStep
             PROVE  TypesInv'
  OBVIOUS
<1>1. ServerDoes /\ BoundsInv' /\ UNCHANGED <<setup, clientVars>>
  BY ServerStepDoes DEF TypesInv
<1>2. PeerInv'
  BY ServerStepKeeps DEF TypesInv
<1>3. DownInv' /\ RoomInv' /\ CutInv'
  BY <1>1, ServerPath
<1> QED
  BY <1>1, <1>2, <1>3 DEF TypesInv, ClientTypes, clientVars

LEMMA PathStepTypes == TypesInv /\ PathStep => TypesInv'
<1> SUFFICES ASSUME TypesInv, PathStep
             PROVE  TypesInv'
  OBVIOUS
<1>1. UNCHANGED <<setup, clientVars, serverVars>>
  BY DEF PathStep
<1>2. PeerInv'
  BY PathStepKeeps DEF TypesInv
<1>3. BoundsInv'
  BY <1>1, SameBounds DEF TypesInv, serverVars
<1>4. /\ up \in Seq(OpenUp) /\ down \in Seq(FileDatagrams)
      /\ Len(up) <= Room /\ Len(down) <= Room /\ Len(up) \in Nat /\ Len(down) \in Nat /\ Room \in Nat
  BY LenProperties, NumbersAssumption DEF TypesInv, PeerInv, PathInv, RoomInv, DownInv
<1>5. Len(up') <= Room /\ down' \in Seq(FileDatagrams) /\ Len(down') <= Room
  <2>1. Bad \in OpenUp /\ Bad \in FileDatagrams
    BY DEF OpenUp, FileDatagrams, Carries
  <2>2. CASE UNCHANGED down /\ Spoils(up, up')
    <3>1. Len(up') <= Len(up) /\ Len(up') \in Nat
      BY <1>4, <2>1, <2>2, SpoilsElements
    <3> QED
      BY <1>4, <2>2, <3>1
  <2>3. CASE UNCHANGED down /\ CutsGet
    BY <1>4, <2>3, CutsElements
  <2>4. CASE UNCHANGED up /\ Spoils(down, down')
    <3>1. Len(down') <= Len(down) /\ Len(down') \in Nat /\ down' \in Seq(FileDatagrams)
      BY <1>4, <2>1, <2>4, SpoilsElements
    <3> QED
      BY <1>4, <2>4, <3>1
  <2> QED
    BY <2>2, <2>3, <2>4, PathStepDoes
<1>7. CutInv'
  <2>1. GetsCut' = GetsCut
    BY <1>1 DEF GetsCut
  <2>2. ASSUME up \in Seq(PlainUp), ~ GetsCut
        PROVE  up' \in Seq(PlainUp)
    <3>1. Bad \in PlainUp
      BY DEF PlainUp
    <3> QED
      BY <2>2, <3>1, PathStepDoes, SpoilsElements DEF CutsGet
  <2> QED
    BY <2>1, <2>2 DEF CutInv, TypesInv
<1>6. RoomInv' /\ DownInv'
  BY <1>1, <1>5, SameDatagrams DEF RoomInv, DownInv, serverVars, TypesInv
<1> QED
  BY <1>1, <1>2, <1>3, <1>6, <1>7 DEF TypesInv, ClientTypes, clientVars

LEMMA InitTypes == Init => TypesInv
<1> SUFFICES ASSUME Init
             PROVE  TypesInv
  OBVIOUS
<1>1. PeerInv
  BY InitHolds
<1>2. Chunks \in Nat /\ Limit \in Nat
  BY <1>1, ChunksType DEF PeerInv, Limit
<1>3. BoundsInv
  <2>1. /\ serving = "idle" /\ base = 0 /\ next_seq = 0 /\ in_flight = {} /\ end_tries = 0
        /\ file_ended \in BOOLEAN /\ ~ file_ended
    BY DEF Init, ServerInit
  <2> QED
    BY <1>2, <2>1, NumbersType, EndTriesAssumption DEF BoundsInv, ServerStates
<1>4. ClientTypes
  <2>1. DOMAIN buffer = {}
    BY DEF Init, ClientInit, NoPayloads
  <2> QED
    BY <2>1, GetTriesAssumption DEF Init, ClientInit, ClientTypes, Statuses
<1>5. RoomInv
  <2>1. Len(<<Get>>) = 1 /\ Len(<<>>) = 0
    OBVIOUS
  <2> QED
    BY <2>1, NumbersAssumption DEF Init, ServerInit, RoomInv
<1>6. DownInv
  BY DEF Init, DownInv
<1>7. CutInv
  BY DEF Init, CutInv, PlainUp
<1> QED
  BY <1>1, <1>3, <1>4, <1>5, <1>6, <1>7 DEF TypesInv

LEMMA NextTypes == TypesInv /\ [Next]_vars => TypesInv'
<1> SUFFICES ASSUME TypesInv, [Next]_vars
             PROVE  TypesInv'
  OBVIOUS
<1>1. CASE UNCHANGED vars
  <2>1. UNCHANGED <<setup, up, down, clientVars, serving, queue, sender>>
    BY <1>1 DEF vars, netVars, serverVars
  <2>2. PeerInv'
    BY <1>1, NextKeeps DEF TypesInv
  <2>3. BoundsInv'
    BY <2>1, SameBounds DEF TypesInv
  <2> QED
    BY <2>1, <2>2, <2>3, SameDatagrams
    DEF TypesInv, ClientTypes, clientVars, RoomInv, DownInv, CutInv, GetsCut
<1> QED
  BY <1>1, ClientStepTypes, ServerStepTypes, PathStepTypes DEF Next

LEMMA TypesOK == TypesInv => TypeOK
<1> SUFFICES ASSUME TypesInv
             PROVE  TypeOK
  OBVIOUS
<1>0. /\ up \in Seq(OpenUp) /\ queue \in Seq(OpenAcks) /\ down \in Seq(DownDatagrams)
      /\ setup \in Setups /\ expected \in Nat /\ DOMAIN buffer \subseteq AheadOf(expected)
      /\ Chunks \in Nat /\ base \in Nat /\ next_seq \in Nat /\ window \in 1 .. RecvWindow
      /\ G12Count = Chunks + 1
  BY ChunksType DEF TypesInv, PeerInv, PathInv, ClientInv, ServerInv, SenderInv, G12Count
<1>1. OpenAcks \subseteq Acks /\ OpenUp \subseteq UpDatagrams
  BY DEF OpenAcks, Acks, OpenUp, UpDatagrams
<1>2. up \in Seq(UpDatagrams) /\ queue \in Seq(Acks)
  BY <1>0, <1>1, SeqInto, ElementOfSeq
<1>3. PathTypeOK
  BY <1>0, <1>2 DEF PathTypeOK, TypesInv, RoomInv
<1>4. ClientTypeOK
  BY <1>0 DEF ClientTypeOK, TypesInv, ClientTypes, AheadOf
<1>5. ServerTypeOK
  <2>1. next_seq \in 0 .. Chunks + 1
    BY <1>0 DEF TypesInv, BoundsInv, Limit
  <2> QED
    BY <1>0, <1>2, <2>1 DEF ServerTypeOK, TypesInv, BoundsInv, RoomInv
<1> QED
  BY <1>3, <1>4, <1>5 DEF TypeOK

(***************************************************************************)
(* For any programs, files and faults: a server sends no packet beyond the *)
(* empty one and has in flight only what it has sent, a client holds only  *)
(* packets ahead of the one expected and within the window, and no program *)
(* tries more often than it may.                                           *)
(***************************************************************************)
THEOREM PeersTyped == Spec => []TypeOK
<1>1. Spec => []TypesInv
  BY InitTypes, NextTypes, PTL DEF Spec
<1> QED
  BY <1>1, TypesOK, PTL
=============================================================================
