------------------------- MODULE G12SessionsProofs -------------------------
(***************************************************************************)
(* Proofs about G12's server with its clients, for all ports, files and    *)
(* numbers of visits.                                                      *)
(***************************************************************************)
EXTENDS G12Sessions, TLAPS, NaturalsInduction, WellFoundedInduction, FiniteSetTheorems,
        SequenceTheorems

Payloads == (Files \cup {NoFile}) \X Int
Buffers == UNION {[D -> Payloads] : D \in SUBSET Nat}

ClientSet == [visit : Nat, status : {"asking", "receiving", "complete", "gone"}, file : Files,
              expected : Nat, buffer : Buffers, saved : Seq(Payloads)]
ThreadSet == [state : {"none", "sending", "over"}, file : Files \cup {NoFile},
              base : Nat, next : Nat, window : 1 .. RecvWindow]
GetSet == [from : Ports, type : {"GET"}, file : Files]
AckSet == [from : Ports, type : {"ACK"}, seq : Nat, window : 1 .. RecvWindow]
DataSet == [to : Ports, seq : Nat, payload : Payloads]

\* v is chunk i of file f.
IsChunk(f, i, v) == f \in Files /\ i < Chunks[f] /\ v = <<f, i>>

\* A client and the thread of its port: what the client holds is of the
\* thread's file.
Holds(c, t) ==
    /\ c.expected = Len(c.saved)
    /\ DOMAIN c.buffer \subseteq c.expected + 1 .. c.expected + RecvWindow - 1
    /\ \A i \in 1 .. Len(c.saved) : IsChunk(t.file, i - 1, c.saved[i])
    /\ \A i \in DOMAIN c.buffer : IsChunk(t.file, i, c.buffer[i])

\* What a thread keeps.
Keeps(t) ==
    /\ t.state = "none" => t = NoThread
    /\ t.state # "none" => t.file \in Files
    /\ t.base <= t.next
    /\ t.state = "sending" =>
         /\ Chunks[t.file] >= 0
         /\ t.base < Count(t.file) /\ t.next \in t.base + 1 .. Count(t.file)

\* The first client on the port is the one its thread serves.
Serves(t, c) ==
    c.visit = 1 =>
      /\ t.state # "none" => t.file = c.file
      /\ c.status # "complete" =>
           t.base <= c.expected /\ (t.state = "over" => Chunks[t.file] < 0)

\* An ACK in flight says no more than what the first client has passed.
Told(c, s) ==
    c.visit = 1 /\ c.status # "complete" => \E e \in 0 .. c.expected : s = e % SeqCount

\* A DATA packet in flight carries the block of its number.
Carries(d, t) ==
    t.state # "none" /\ \E i \in Nat : d.seq = i % SeqCount /\ d.payload = Block(t.file, i)

SessTypes ==
    /\ client \in [Ports -> ClientSet]
    /\ thread \in [Ports -> ThreadSet]
    /\ queue \in [Ports -> Seq(AckSet)]
    /\ up \subseteq GetSet \cup AckSet
    /\ down \subseteq DataSet

PortInv ==
    \A p \in Ports :
      /\ client[p].visit \in 1 .. Visits[p]
      /\ Holds(client[p], thread[p]) /\ Keeps(thread[p]) /\ Serves(thread[p], client[p])

QueueInv == \A p \in Ports : \A k \in 1 .. Len(queue[p]) : Told(client[p], queue[p][k].seq)

UpInv ==
    \A d \in up :
      /\ d \in GetSet => (client[d.from].visit = 1 => d.file = client[d.from].file)
      /\ d \in AckSet => Told(client[d.from], d.seq)

DownInv == \A d \in down : Carries(d, thread[d.to])

SessInv == SessTypes /\ PortInv /\ QueueInv /\ UpInv /\ DownInv

-----------------------------------------------------------------------------
\* What the assumptions say, for the leaves that do arithmetic.
LEMMA ConstTypes ==
    /\ SeqCount \in Nat /\ SeqCount > 0 /\ RecvWindow \in Nat /\ RecvWindow >= 1
    /\ NoFile \notin Files /\ (\A p \in Ports : Visits[p] \in Nat /\ Visits[p] >= 1)
    /\ Mortal \subseteq Ports
    /\ \A f \in Files : /\ Chunks[f] \in Int /\ Chunks[f] >= -2
                        /\ Count(f) \in Int /\ Count(f) = Chunks[f] + 1
                        /\ Chunks[f] + 1 + RecvWindow <= SeqCount
<1>1. \A f \in Files : Chunks[f] \in Nat \cup {-1, -2}
  BY FilesAssumption DEF Missing, Unreadable
<1>2. SeqCount \in Nat /\ SeqCount > 0 /\ RecvWindow \in Nat /\ RecvWindow >= 1
      /\ \A f \in Files : Chunks[f] + 1 + RecvWindow <= SeqCount
  BY NumbersAssumption
<1>3. NoFile \notin Files /\ (\A p \in Ports : Visits[p] \in Nat /\ Visits[p] >= 1) /\ Mortal \subseteq Ports
  BY FilesAssumption, VisitsAssumption
<1>4. \A f \in Files : Chunks[f] \in Int /\ Chunks[f] >= -2
  BY <1>1
<1>5. \A f \in Files : Count(f) \in Int /\ Count(f) = Chunks[f] + 1
  BY <1>4 DEF Count
<1> QED
  BY <1>2, <1>3, <1>4, <1>5

\* The data packet of block i, of a file or missing.
LEMMA BlockType ==
    ASSUME NEW f \in Files, NEW i \in Nat
    PROVE  Block(f, i) \in Payloads
BY DEF Block, EOF, Payloads

\* A chunk is a payload, and not the empty one.
LEMMA ChunkType ==
    ASSUME NEW f, NEW i \in Int, NEW v, IsChunk(f, i, v)
    PROVE  v \in Payloads /\ v # EOF
BY FilesAssumption DEF IsChunk, Payloads, EOF

\* A set of numbers that is not empty has a least one.
LEMMA LeastNumber ==
    ASSUME NEW T \in SUBSET Nat, T # {}
    PROVE  \E i \in T : \A j \in T : i <= j
<1>1. PICK i \in T : \A j \in T : ~ (<<j, i>> \in OpToRel(<, Nat))
  BY NatLessThanWellFounded, WFMin
<1>2. ASSUME NEW j \in T
      PROVE  i <= j
  <2>1. ~ (<<j, i>> \in {ss \in Nat \X Nat : ss[1] < ss[2]})
    BY <1>1, <1>2, Zenon DEF OpToRel
  <2>2. ~ (j < i)
    BY <2>1
  <2> QED
    BY <2>2
<1> QED
  BY <1>2

\* What a number modulo SeqCount is, for the distances there are here.
LEMMA ModAhead ==
    ASSUME NEW a \in Nat, NEW b \in Nat, NEW n \in Nat, a < n, b < n, n <= SeqCount
    PROVE  /\ (a % SeqCount) = a
           /\ b <= a => (a - b) % SeqCount = a - b
           /\ b > a => (a - b) % SeqCount = SeqCount + (a - b)
<1>1. \A x \in 0 .. SeqCount - 1 : x % SeqCount = x
  BY NumbersAssumption
<1>2. ASSUME b > a
      PROVE  (a - b) % SeqCount = SeqCount + (a - b)
  <2> DEFINE x == SeqCount + (a - b)
  <2>1. x \in 0 .. SeqCount - 1 /\ a - b = SeqCount * (-1) + x
    BY <1>2, NumbersAssumption
  <2>2. \A y \in 0 .. SeqCount - 1 : (SeqCount * (-1) + y) % SeqCount = y
    BY NumbersAssumption
  <2> HIDE DEF x
  <2>3. (a - b) % SeqCount = x
    BY <2>1, <2>2
  <2> QED
    BY <2>3 DEF x
<1> QED
  BY <1>1, <1>2, NumbersAssumption

-----------------------------------------------------------------------------
\* The client reads a chunk.

\* What a chunk of its file leaves in the buffer is in the window, and of the
\* file: one that is already saved is further away than the window.
LEMMA StoredHolds ==
    ASSUME NEW c \in ClientSet, NEW t \in ThreadSet, Holds(c, t), t.file \in Files,
           NEW i \in Nat, i < Chunks[t.file],
           NEW s, s = i % SeqCount
    PROVE  LET b == Stored(c, s, <<t.file, i>>)
           IN  /\ DOMAIN b \subseteq c.expected .. c.expected + RecvWindow - 1
               /\ b \in [DOMAIN b -> Payloads]
               /\ \A k \in DOMAIN b : IsChunk(t.file, k, b[k])
<1> DEFINE e == c.expected
           dist == Distance(c, s)
           n == Chunks[t.file]
<1>1. /\ n \in Int /\ n + 1 + RecvWindow <= SeqCount /\ RecvWindow \in Nat /\ RecvWindow >= 1
      /\ SeqCount \in Nat
  BY ConstTypes
<1>2. e \in Nat /\ c.saved \in Seq(Payloads) /\ e = Len(c.saved)
  BY DEF ClientSet, Holds
<1>3. e <= n
  <2>1. CASE e = 0
    BY <2>1, <1>1
  <2>2. CASE e # 0
    <3>1. e \in 1 .. Len(c.saved)
      BY <2>2, <1>2
    <3>2. IsChunk(t.file, e - 1, c.saved[e])
      BY <3>1 DEF Holds
    <3> QED
      BY <3>2, <1>1, <1>2 DEF IsChunk
  <2> QED
    BY <2>1, <2>2
<1>4. s = i /\ dist = (i - e) % SeqCount
  <2>1. i < SeqCount
    BY <1>1
  <2>2. i % SeqCount = i
    BY <2>1, <1>1
  <2> QED
    BY <2>2 DEF Distance
<1>5. /\ e <= i => dist = i - e
      /\ e > i => dist = SeqCount + (i - e)
  <2>1. e < SeqCount /\ i < SeqCount /\ SeqCount <= SeqCount
    BY <1>1, <1>2, <1>3
  <2> HIDE DEF e, dist
  <2>2. /\ e <= i => (i - e) % SeqCount = i - e
        /\ e > i => (i - e) % SeqCount = SeqCount + (i - e)
    BY <2>1, <1>2, <1>1, ModAhead, Zenon
  <2> QED
    BY <2>2, <1>4, Zenon
<1>6. dist \in Int /\ dist >= 0 /\ (dist < RecvWindow => e + dist = i)
  <2> HIDE DEF e, dist, n
  <2>1. CASE e <= i
    <3>1. dist = i - e
      BY <2>1, <1>5
    <3> QED
      BY <2>1, <3>1, <1>2
  <2>2. CASE e > i
    <3>1. dist = SeqCount + (i - e)
      BY <2>2, <1>5
    <3>2. dist \in Int /\ dist >= RecvWindow
      BY <3>1, <1>1, <1>2, <1>3
    <3> QED
      BY <3>2, <1>1
  <2> QED
    BY <2>1, <2>2, <1>2
<1> DEFINE kept == IF dist < RecvWindow THEN {e + dist} ELSE {}
           D == DOMAIN c.buffer \cup kept
           b == [k \in D |-> IF k \in DOMAIN c.buffer THEN c.buffer[k] ELSE <<t.file, i>>]
<1>7. Stored(c, s, <<t.file, i>>) = b
  BY DEF Stored
<1>8. DOMAIN c.buffer \subseteq e + 1 .. e + RecvWindow - 1
  BY DEF Holds
<1>9. kept \subseteq {i} /\ kept \subseteq e .. e + RecvWindow - 1
  <2>1. CASE dist < RecvWindow
    <3>1. kept = {i} /\ e + dist = i
      BY <2>1, <1>6
    <3>2. dist >= 0
      BY <1>6
    <3> HIDE DEF e, dist, kept
    <3>3. i \in e .. e + RecvWindow - 1
      BY <3>1, <3>2, <2>1, <1>1, <1>2, <1>6
    <3> QED
      BY <3>1, <3>3
  <2>2. CASE ~ (dist < RecvWindow)
    BY <2>2
  <2> QED
    BY <2>1, <2>2
<1>10. \A k \in D : IsChunk(t.file, k, b[k])
  <2> TAKE k \in D
  <2>1. CASE k \in DOMAIN c.buffer
    BY <2>1 DEF Holds
  <2>2. CASE k \notin DOMAIN c.buffer
    BY <2>2, <1>9 DEF IsChunk
  <2> QED
    BY <2>1, <2>2
<1>11. D \subseteq e .. e + RecvWindow - 1
  <2>1. ASSUME NEW k \in D
        PROVE  k \in e .. e + RecvWindow - 1
    <3>1. CASE k \in kept
      BY <3>1, <1>9
    <3>2. CASE k \in DOMAIN c.buffer
      <4>1. k \in e + 1 .. e + RecvWindow - 1
        BY <3>2, <1>8
      <4> HIDE DEF e, kept
      <4> QED
        BY <4>1, <1>1, <1>2
    <3> QED
      BY <3>1, <3>2
  <2> QED
    BY <2>1
<1>12. D \subseteq Nat
  BY <1>11, <1>2
<1>13. \A k \in D : b[k] \in Payloads
  <2> HIDE DEF D, b
  <2> QED
    BY <1>10, <1>12, ChunkType
<1>14. DOMAIN b = D /\ b \in [D -> Payloads]
  BY <1>13
<1> HIDE DEF D, b
<1> QED
  BY <1>7, <1>10, <1>11, <1>14

\* What is moved to the content goes on from its end, and some of the window
\* remains.
LEMMA ReassembledHolds ==
    ASSUME NEW c \in ClientSet, NEW t \in ThreadSet, Holds(c, t), t.file \in Files,
           NEW D \in SUBSET (c.expected .. c.expected + RecvWindow - 1),
           NEW buf \in [D -> Payloads],
           \A k \in D : IsChunk(t.file, k, buf[k])
    PROVE  LET r == Reassembled(c, buf)
           IN  /\ r \in ClientSet /\ r.visit = c.visit /\ r.file = c.file
               /\ r.status = "receiving" /\ r.expected >= c.expected
               /\ Holds(r, t)
               /\ RecvWindow - Cardinality(DOMAIN r.buffer) \in 1 .. RecvWindow
<1> DEFINE x == c.expected
           Is(e) == e \notin DOMAIN buf /\ \A i \in x .. e - 1 : i \in DOMAIN buf
           e == CHOOSE e \in x .. x + RecvWindow : Is(e)
           rest == {i \in DOMAIN buf : i >= e}
           moved == [k \in 1 .. e - x |-> buf[x + k - 1]]
           r == Reassembled(c, buf)
<1>1. RecvWindow \in Nat /\ RecvWindow >= 1
  BY ConstTypes
<1>2. x \in Nat /\ c.saved \in Seq(Payloads) /\ x = Len(c.saved) /\ DOMAIN buf = D
  BY DEF ClientSet, Holds
<1>3. \E y \in x .. x + RecvWindow : Is(y)
  <2> DEFINE T == {y \in x .. x + RecvWindow : y \notin D}
  <2>1. T \in SUBSET Nat /\ x + RecvWindow \in T
    <3> HIDE DEF x
    <3>1. x + RecvWindow \notin D
      BY <1>1, <1>2 DEF x
    <3> QED
      BY <3>1, <1>1, <1>2
  <2> HIDE DEF T
  <2>2. T # {}
    BY <2>1
  <2>3. \E i \in T : \A j \in T : i <= j
    BY <2>1, <2>2, LeastNumber, Zenon
  <2>4. PICK y \in T : \A j \in T : y <= j
    BY <2>3
  <2>5. y \in x .. x + RecvWindow /\ y \notin D
    BY <2>4 DEF T
  <2>6. ASSUME NEW i \in x .. y - 1, i \notin D
        PROVE  FALSE
    <3> HIDE DEF x
    <3>1. i \in x .. x + RecvWindow /\ i < y /\ i \in Int /\ y \in Int
      BY <2>5, <2>6, <1>1, <1>2
    <3>2. i \in T
      BY <3>1, <2>6 DEF T
    <3> QED
      BY <3>1, <3>2, <2>4
  <2> QED
    BY <2>5, <2>6, <1>2
<1>4. e \in x .. x + RecvWindow /\ Is(e)
  <2> HIDE DEF Is, x
  <2> QED
    BY <1>3, Zenon
<1>5. e \in Nat /\ e >= x /\ e <= x + RecvWindow /\ e - x \in Nat
  <2> HIDE DEF e, x
  <2> QED
    BY <1>4, <1>1, <1>2
<1>6. r = [c EXCEPT !.status = "receiving", !.expected = e,
                    !.buffer = [i \in rest |-> buf[i]], !.saved = c.saved \o moved]
  BY DEF Reassembled
<1> HIDE DEF e, Is
<1>7. rest \subseteq e + 1 .. e + RecvWindow - 1 /\ rest \subseteq D
  <2>1. ASSUME NEW i \in rest
        PROVE  i \in e + 1 .. e + RecvWindow - 1 /\ i \in D
    <3>1. i \in D /\ i >= e /\ i # e
      BY <1>4, <1>2 DEF Is
    <3>2. i \in x .. x + RecvWindow - 1
      BY <3>1
    <3> HIDE DEF x, rest
    <3>3. i \in Int /\ i > e /\ i <= x + RecvWindow - 1
      BY <3>1, <3>2, <1>5, <1>1, <1>2
    <3> QED
      BY <3>1, <3>3, <1>5, <1>1, <1>2
  <2> QED
    BY <2>1
<1>8. [i \in rest |-> buf[i]] \in [rest -> Payloads] /\ rest \in SUBSET Nat
  <2>1. rest \in SUBSET Nat
    <3> HIDE DEF rest
    <3> QED
      BY <1>7, <1>5, <1>1
  <2> QED
    BY <2>1, <1>7
<1>9. [i \in rest |-> buf[i]] \in Buffers
  <2> HIDE DEF rest
  <2> QED
    BY <1>8 DEF Buffers
<1>10. \A k \in 1 .. e - x : x + k - 1 \in D
  <2>1. ASSUME NEW k \in 1 .. e - x
        PROVE  x + k - 1 \in D
    <3> HIDE DEF x
    <3>1. x + k - 1 \in x .. e - 1
      BY <1>5, <1>2
    <3> QED
      BY <3>1, <1>4, <1>2 DEF Is
  <2> QED
    BY <2>1
<1>11. moved \in Seq(Payloads) /\ Len(moved) = e - x
       /\ \A k \in 1 .. e - x : IsChunk(t.file, x + k - 1, moved[k])
  <2>1. \A k \in 1 .. e - x : buf[x + k - 1] \in Payloads
    BY <1>10
  <2>2. \A k \in 1 .. e - x : IsChunk(t.file, x + k - 1, buf[x + k - 1])
    BY <1>10
  <2> HIDE DEF x
  <2> QED
    BY <1>5, <2>1, <2>2
<1> HIDE DEF moved
<1>12. c.saved \o moved \in Seq(Payloads) /\ Len(c.saved \o moved) = e
  <2> HIDE DEF x
  <2>1. Len(c.saved) = x /\ c.saved \in Seq(Payloads)
    BY <1>2
  <2>2. Len(c.saved \o moved) = Len(c.saved) + Len(moved) /\ c.saved \o moved \in Seq(Payloads)
    BY <2>1, <1>11, ConcatProperties, Zenon
  <2> QED
    BY <2>1, <2>2, <1>11, <1>5, <1>2
<1>13. \A k \in 1 .. Len(c.saved \o moved) : IsChunk(t.file, k - 1, (c.saved \o moved)[k])
  <2>1. ASSUME NEW k \in 1 .. Len(c.saved \o moved)
        PROVE  IsChunk(t.file, k - 1, (c.saved \o moved)[k])
    <3>1. CASE k <= x
      <4>1. k \in 1 .. Len(c.saved)
        BY <3>1, <1>2
      <4>2. (c.saved \o moved)[k] = c.saved[k]
        BY <4>1, <1>2, <1>11
      <4> QED
        BY <4>1, <4>2 DEF Holds
    <3>2. CASE k > x
      <4> HIDE DEF x
      <4>1. k - x \in 1 .. e - x /\ k \in Int
        BY <3>2, <1>12, <1>5, <1>2
      <4>2. (c.saved \o moved)[k] = moved[k - x]
        <5>1. Len(c.saved) = x /\ c.saved \in Seq(Payloads)
          BY <1>2
        <5> QED
          BY <5>1, <3>2, <1>2, <1>11, <1>12, ConcatProperties, SMT
      <4>3. x + (k - x) - 1 = k - 1
        BY <4>1, <1>2
      <4> QED
        BY <4>1, <4>2, <4>3, <1>11
    <3> QED
      BY <3>1, <3>2, <1>2
  <2> QED
    BY <2>1
<1> DEFINE newbuf == [i \in rest |-> buf[i]]
           saved == c.saved \o moved
<1>14. DOMAIN newbuf = rest /\ \A i \in rest : IsChunk(t.file, i, newbuf[i])
  BY <1>7
<1>15. /\ r.visit = c.visit /\ r.status = "receiving" /\ r.file = c.file
       /\ r.expected = e /\ r.buffer = newbuf /\ r.saved = saved
  <2> HIDE DEF newbuf, saved
  <2> QED
    BY <1>6 DEF ClientSet, newbuf, saved
<1>16. r \in ClientSet
  <2> HIDE DEF newbuf, saved, rest
  <2> QED
    BY <1>6, <1>5, <1>9, <1>12 DEF ClientSet, newbuf, saved
<1>17. Holds(r, t)
  <2>1. r.expected = Len(r.saved)
    BY <1>15, <1>12
  <2>2. DOMAIN r.buffer \subseteq r.expected + 1 .. r.expected + RecvWindow - 1
    BY <1>15, <1>14, <1>7
  <2>3. \A i \in 1 .. Len(r.saved) : IsChunk(t.file, i - 1, r.saved[i])
    BY <1>15, <1>13
  <2>4. \A i \in DOMAIN r.buffer : IsChunk(t.file, i, r.buffer[i])
    BY <1>15, <1>14
  <2> QED
    BY <2>1, <2>2, <2>3, <2>4 DEF Holds
<1>18. RecvWindow - Cardinality(rest) \in 1 .. RecvWindow
  <2> DEFINE I == e + 1 .. e + RecvWindow - 1
  <2>1. IsFiniteSet(I) /\ Cardinality(I) = RecvWindow - 1
    <3>1. e + 1 \in Int /\ e + RecvWindow - 1 \in Int
      BY <1>5, <1>1
    <3>2. IsFiniteSet(I) /\ Cardinality(I) = IF e + 1 > e + RecvWindow - 1 THEN 0
                                             ELSE (e + RecvWindow - 1) - (e + 1) + 1
      BY <3>1, FS_Interval, Zenon
    <3> HIDE DEF I
    <3> QED
      BY <3>2, <1>5, <1>1
  <2>2. rest \in SUBSET I
    BY <1>7
  <2> HIDE DEF I, rest
  <2>3. IsFiniteSet(rest) /\ Cardinality(rest) <= Cardinality(I)
    BY <2>1, <2>2, FS_Subset
  <2>4. Cardinality(rest) \in Nat
    BY <2>3, FS_CardinalityType
  <2> QED
    BY <2>1, <2>3, <2>4, <1>1
<1> HIDE DEF r, rest, newbuf
<1>19. r.expected >= c.expected
  BY <1>15, <1>5
<1> QED
  BY <1>14, <1>15, <1>16, <1>17, <1>18, <1>19 DEF r

-----------------------------------------------------------------------------
\* What a step of one client, or of one thread, must keep.

\* A client that goes on with the same file has passed what it had passed.
LEMMA ToldMore ==
    ASSUME NEW c \in ClientSet, NEW r \in ClientSet, r.visit = c.visit,
           r.expected >= c.expected, r.status # "complete" => c.status # "complete"
    PROVE  \A s \in Nat : Told(c, s) => Told(r, s)
<1> SUFFICES ASSUME NEW s \in Nat, Told(c, s), r.visit = 1, r.status # "complete"
             PROVE  \E e \in 0 .. r.expected : s = e % SeqCount
  BY DEF Told
<1>1. PICK e \in 0 .. c.expected : s = e % SeqCount
  BY DEF Told
<1>2. e \in 0 .. r.expected
  BY <1>1 DEF ClientSet
<1> QED
  BY <1>1, <1>2

\* What is to be shown of a step of the client on p, which becomes c and sends A.
LEMMA ClientMoves ==
    ASSUME SessInv, NEW p \in Ports, NEW c \in ClientSet, NEW A \in SUBSET (GetSet \cup AckSet),
           client' = [client EXCEPT ![p] = c], up' = up \cup A,
           UNCHANGED <<thread, queue, down>>,
           c.visit \in 1 .. Visits[p], c.visit = 1 => client[p].visit = 1,
           c.visit = 1 => c.file = client[p].file,
           Holds(c, thread[p]), Serves(thread[p], c),
           \A s \in Nat : Told(client[p], s) => Told(c, s),
           \A a \in A : /\ a.from = p
                        /\ a \in GetSet => a.file = c.file
                        /\ a \in AckSet => Told(c, a.seq)
    PROVE  SessInv'
<1>1. /\ client' \in [Ports -> ClientSet] /\ client'[p] = c
      /\ \A q \in Ports : q # p => client'[q] = client[q]
  BY DEF SessInv, SessTypes
<1>2. SessTypes'
  BY <1>1 DEF SessInv, SessTypes
<1>3. PortInv'
  <2> SUFFICES ASSUME NEW q \in Ports
               PROVE  /\ client'[q].visit \in 1 .. Visits[q]
                      /\ Holds(client'[q], thread[q]) /\ Keeps(thread[q])
                      /\ Serves(thread[q], client'[q])
    BY DEF PortInv
  <2>1. CASE q = p
    BY <2>1, <1>1 DEF SessInv, PortInv
  <2>2. CASE q # p
    BY <2>2, <1>1 DEF SessInv, PortInv
  <2> QED
    BY <2>1, <2>2
<1>4. \A q \in Ports : \A s \in Nat : Told(client[q], s) => Told(client'[q], s)
  <2> SUFFICES ASSUME NEW q \in Ports, NEW s \in Nat, Told(client[q], s)
               PROVE  Told(client'[q], s)
    OBVIOUS
  <2>1. CASE q = p
    BY <2>1, <1>1
  <2>2. CASE q # p
    BY <2>2, <1>1
  <2> QED
    BY <2>1, <2>2
<1>5. QueueInv'
  <2> SUFFICES ASSUME NEW q \in Ports, NEW k \in 1 .. Len(queue[q])
               PROVE  Told(client'[q], queue[q][k].seq)
    BY DEF QueueInv
  <2>1. queue[q][k] \in AckSet
    BY DEF SessInv, SessTypes
  <2>2. queue[q][k].seq \in Nat
    BY <2>1 DEF AckSet
  <2> QED
    BY <2>2, <1>4 DEF SessInv, QueueInv
<1>6. UpInv'
  <2> SUFFICES ASSUME NEW a \in up'
               PROVE  /\ a \in GetSet => (client'[a.from].visit = 1 => a.file = client'[a.from].file)
                      /\ a \in AckSet => Told(client'[a.from], a.seq)
    BY DEF UpInv
  <2>1. CASE a \in A
    BY <2>1, <1>1
  <2>2. CASE a \in up
    <3>1. ASSUME a \in GetSet, client'[a.from].visit = 1
          PROVE  a.file = client'[a.from].file
      <4>1. a.from \in Ports /\ (client[a.from].visit = 1 => a.file = client[a.from].file)
        BY <3>1, <2>2 DEF SessInv, UpInv, GetSet
      <4>2. CASE a.from = p
        BY <4>1, <4>2, <3>1, <1>1
      <4>3. CASE a.from # p
        BY <4>1, <4>3, <3>1, <1>1
      <4> QED
        BY <4>2, <4>3
    <3>2. ASSUME a \in AckSet
          PROVE  Told(client'[a.from], a.seq)
      <4>1. a.from \in Ports /\ a.seq \in Nat
        BY <3>2 DEF AckSet
      <4>2. Told(client[a.from], a.seq)
        BY <3>2, <2>2 DEF SessInv, UpInv
      <4> QED
        BY <4>1, <4>2, <1>4
    <3> QED
      BY <3>1, <3>2
  <2> QED
    BY <2>1, <2>2
<1>7. DownInv'
  BY DEF SessInv, DownInv
<1> QED
  BY <1>2, <1>3, <1>5, <1>6, <1>7 DEF SessInv

\* What is to be shown of a step of the thread of p, which becomes t with the
\* queue l and sends P.
LEMMA ThreadMoves ==
    ASSUME SessInv, NEW p \in Ports, NEW t \in ThreadSet, NEW P \in SUBSET DataSet,
           NEW l \in Seq(AckSet),
           thread' = [thread EXCEPT ![p] = t], down' = down \cup P,
           queue' = [queue EXCEPT ![p] = l], UNCHANGED <<client, up>>,
           Holds(client[p], t), Keeps(t), Serves(t, client[p]),
           \A k \in 1 .. Len(l) : Told(client[p], l[k].seq),
           t.state # "none",
           thread[p].state # "none" => t.file = thread[p].file,
           \A d \in P : d.to = p /\ Carries(d, t)
    PROVE  SessInv'
<1>1. /\ thread' \in [Ports -> ThreadSet] /\ thread'[p] = t
      /\ \A q \in Ports : q # p => thread'[q] = thread[q]
  BY DEF SessInv, SessTypes
<1>2. /\ queue' \in [Ports -> Seq(AckSet)] /\ queue'[p] = l
      /\ \A q \in Ports : q # p => queue'[q] = queue[q]
  BY DEF SessInv, SessTypes
<1>3. SessTypes'
  BY <1>1, <1>2 DEF SessInv, SessTypes
<1>4. PortInv'
  <2> SUFFICES ASSUME NEW q \in Ports
               PROVE  /\ client[q].visit \in 1 .. Visits[q]
                      /\ Holds(client[q], thread'[q]) /\ Keeps(thread'[q])
                      /\ Serves(thread'[q], client[q])
    BY DEF PortInv
  <2>1. CASE q = p
    BY <2>1, <1>1 DEF SessInv, PortInv
  <2>2. CASE q # p
    BY <2>2, <1>1 DEF SessInv, PortInv
  <2> QED
    BY <2>1, <2>2
<1>5. QueueInv'
  <2> SUFFICES ASSUME NEW q \in Ports, NEW k \in 1 .. Len(queue'[q])
               PROVE  Told(client[q], queue'[q][k].seq)
    BY DEF QueueInv
  <2>1. CASE q = p
    BY <2>1, <1>2
  <2>2. CASE q # p
    BY <2>2, <1>2 DEF SessInv, QueueInv
  <2> QED
    BY <2>1, <2>2
<1>6. UpInv'
  BY DEF SessInv, UpInv
<1>7. DownInv'
  <2> SUFFICES ASSUME NEW d \in down'
               PROVE  Carries(d, thread'[d.to])
    BY DEF DownInv
  <2>1. CASE d \in P
    BY <2>1, <1>1
  <2>2. CASE d \in down
    <3>1. d.to \in Ports /\ Carries(d, thread[d.to])
      BY <2>2 DEF SessInv, SessTypes, DownInv, DataSet
    <3>2. CASE d.to = p
      BY <3>1, <3>2, <1>1 DEF Carries
    <3>3. CASE d.to # p
      BY <3>1, <3>3, <1>1
    <3> QED
      BY <3>2, <3>3
  <2> QED
    BY <2>1, <2>2
<1> QED
  BY <1>3, <1>4, <1>5, <1>6, <1>7 DEF SessInv

-----------------------------------------------------------------------------
\* The steps of the thread of a client.

\* No client has passed the end of the file.
LEMMA SavedWithin ==
    ASSUME NEW c \in ClientSet, NEW t \in ThreadSet, Holds(c, t), t.file \in Files,
           Chunks[t.file] >= 0
    PROVE  c.expected <= Chunks[t.file]
<1>1. c.expected \in Nat /\ c.saved \in Seq(Payloads) /\ c.expected = Len(c.saved)
      /\ Chunks[t.file] \in Int
  BY ConstTypes DEF ClientSet, Holds
<1>2. CASE c.expected = 0
  BY <1>2, <1>1
<1>3. CASE c.expected # 0
  <2>1. c.expected \in 1 .. Len(c.saved)
    BY <1>3, <1>1
  <2>2. IsChunk(t.file, c.expected - 1, c.saved[c.expected])
    BY <2>1 DEF Holds
  <2> QED
    BY <2>2, <1>1 DEF IsChunk
<1> QED
  BY <1>2, <1>3

\* At least one packet is in the window once it is filled.
LEMMA FilledKeeps ==
    ASSUME NEW t \in ThreadSet, t.file \in Files, t.base <= t.next, t.next <= Count(t.file),
           t.base < Count(t.file)
    PROVE  /\ Filled(t) \in ThreadSet
           /\ Filled(t).file = t.file /\ Filled(t).state = t.state
           /\ Filled(t).base = t.base /\ Filled(t).window = t.window
           /\ Filled(t).next \in t.base + 1 .. Count(t.file)
           /\ Filled(t).next >= t.next
<1> DEFINE count == Count(t.file)
           limit == IF t.base + t.window <= count THEN t.base + t.window ELSE count
           n == IF limit >= t.next THEN limit ELSE t.next
<1>1. count \in Int /\ t.base \in Nat /\ t.next \in Nat /\ t.window \in Int /\ t.window >= 1
  BY ConstTypes DEF ThreadSet
<1>2. limit \in t.base + 1 .. count
  <2> HIDE DEF count
  <2> QED
    BY <1>1 DEF count
<1>3. n \in t.base + 1 .. count /\ n >= t.next /\ n \in Nat
  <2> HIDE DEF count, limit
  <2>1. t.base <= t.next /\ t.next <= count
    BY DEF count
  <2> QED
    BY <2>1, <1>1, <1>2
<1>4. Filled(t) = [t EXCEPT !.next = n]
  BY DEF Filled
<1> HIDE DEF n
<1> QED
  BY <1>3, <1>4 DEF ThreadSet

\* An ACK moves base at most to the end of what is sent, and not past what
\* the client that sent it has passed.
LEMMA ConfirmsOnly ==
    ASSUME NEW t \in ThreadSet, t.file \in Files, Keeps(t), t.state = "sending",
           NEW s \in Nat
    PROVE  /\ Confirms(t, s) \in Nat /\ t.base + Confirms(t, s) <= t.next
           /\ \A x \in Nat : \A e \in 0 .. x :
                x <= Chunks[t.file] /\ t.base <= x /\ s = e % SeqCount
                  => t.base + Confirms(t, s) <= x
<1> DEFINE dist == (s - t.base) % SeqCount
           n == Chunks[t.file]
<1>1. t.base \in Nat /\ t.next \in Nat /\ t.base <= t.next /\ t.next <= n + 1 /\ n \in Int
      /\ t.base < n + 1
  BY ConstTypes DEF ThreadSet, Keeps
<1>2. SeqCount \in Nat /\ SeqCount > 0 /\ n + 1 + RecvWindow <= SeqCount /\ RecvWindow \in Nat
      /\ RecvWindow >= 1
  BY ConstTypes
<1>3. dist \in Nat
  BY <1>1, <1>2
<1>4. Confirms(t, s) = IF dist <= t.next - t.base THEN dist ELSE 0
  BY DEF Confirms
<1>5. Confirms(t, s) \in Nat /\ t.base + Confirms(t, s) <= t.next
  <2> HIDE DEF dist
  <2> QED
    BY <1>1, <1>3, <1>4
<1>6. ASSUME NEW x \in Nat, NEW e \in 0 .. x, x <= n, t.base <= x, s = e % SeqCount
      PROVE  t.base + Confirms(t, s) <= x
  <2>1. e \in Nat /\ e < SeqCount /\ t.base < SeqCount /\ SeqCount <= SeqCount
    <3> HIDE DEF n
    <3> QED
      BY <1>6, <1>1, <1>2
  <2>2. /\ (e % SeqCount) = e
        /\ t.base <= e => (e - t.base) % SeqCount = e - t.base
        /\ t.base > e => (e - t.base) % SeqCount = SeqCount + (e - t.base)
    BY <2>1, <1>1, <1>2, ModAhead, Zenon
  <2>3. s = e
    BY <2>2, <1>6
  <2>4. /\ t.base <= e => dist = e - t.base
        /\ t.base > e => dist = SeqCount + (e - t.base)
    BY <2>2, <2>3, Zenon
  <2>5. CASE t.base <= e
    <3> HIDE DEF dist, n
    <3> QED
      BY <2>4, <2>5, <1>1, <1>3, <1>4, <1>6
  <2>6. CASE t.base > e
    <3>1. ~ (dist <= t.next - t.base)
      <4> HIDE DEF dist, n
      <4> QED
        BY <2>4, <2>6, <2>1, <1>1, <1>2
    <3>2. Confirms(t, s) = 0
      BY <3>1, <1>4
    <3> QED
      BY <3>2, <1>6, <1>1
  <2> QED
    BY <2>5, <2>6, <2>1, <1>1
<1> QED
  BY <1>5, <1>6

\* The packets a thread sends carry the blocks of its file.
LEMMA PacketsCarry ==
    ASSUME NEW p \in Ports, NEW t, t.file \in Files, t.state # "none", NEW is \in SUBSET Nat
    PROVE  /\ Packets(p, t.file, is) \in SUBSET DataSet
           /\ \A d \in Packets(p, t.file, is) : d.to = p /\ Carries(d, t)
<1>1. ASSUME NEW d \in Packets(p, t.file, is)
      PROVE  d \in DataSet /\ d.to = p /\ Carries(d, t)
  <2>1. PICK i \in is : d = Data(p, i, Block(t.file, i))
    BY DEF Packets
  <2>2. i \in Nat /\ i % SeqCount \in Nat
    BY ConstTypes
  <2>3. Block(t.file, i) \in Payloads
    BY <2>2, BlockType
  <2>4. d.seq = i % SeqCount /\ d.payload = Block(t.file, i) /\ d.to = p /\ d \in DataSet
    BY <2>1, <2>2, <2>3 DEF Data, DataSet
  <2> QED
    BY <2>2, <2>4 DEF Carries
<1> QED
  BY <1>1

-----------------------------------------------------------------------------
\* One lemma for each action.

\* Nothing is known of a client before its port has a thread.
LEMMA HoldsNothing ==
    ASSUME NEW c \in ClientSet, Holds(c, NoThread), NEW t
    PROVE  Holds(c, t)
<1>1. \A i, v : ~ IsChunk(NoThread.file, i, v)
  BY ConstTypes DEF IsChunk, NoThread
<1>2. 1 .. Len(c.saved) = {} /\ DOMAIN c.buffer = {}
  BY <1>1 DEF Holds
<1> QED
  BY <1>2 DEF Holds

\* The invariant, for one port.
LEMMA PortFacts ==
    ASSUME SessInv, NEW p \in Ports
    PROVE  /\ client[p] \in ClientSet /\ thread[p] \in ThreadSet /\ queue[p] \in Seq(AckSet)
           /\ client[p].visit \in 1 .. Visits[p]
           /\ Holds(client[p], thread[p]) /\ Keeps(thread[p]) /\ Serves(thread[p], client[p])
           /\ \A k \in 1 .. Len(queue[p]) : Told(client[p], queue[p][k].seq)
           /\ thread[p].state # "none" => thread[p].file \in Files
BY DEF SessInv, SessTypes, PortInv, QueueInv, Keeps

\* No thread, no ACK and no packet at the beginning.
LEMMA InitSess == Init => SessInv
<1> SUFFICES ASSUME Init
             PROVE  SessInv
  OBVIOUS
<1>1. PICK asked \in [Ports -> Files] :
        /\ client = [p \in Ports |-> NewClient(1, asked[p])]
        /\ up = {Get(p, asked[p]) : p \in Ports}
  BY DEF Init
<1>2. RecvWindow \in Nat /\ RecvWindow >= 1 /\ (\A p \in Ports : Visits[p] \in Nat /\ Visits[p] >= 1)
  BY ConstTypes
<1>3. [i \in {} |-> EOF] \in Buffers
  <2>1. [i \in {} |-> EOF] \in [{} -> Payloads] /\ {} \in SUBSET Nat
    OBVIOUS
  <2> QED
    BY <2>1 DEF Buffers
<1>4. \A p \in Ports : NewClient(1, asked[p]) \in ClientSet
  BY <1>3 DEF NewClient, ClientSet
<1>5. NoThread \in ThreadSet
  BY <1>2 DEF NoThread, ThreadSet
<1>6. up \subseteq GetSet
  BY <1>1 DEF Get, GetSet
<1>7. SessTypes
  BY <1>1, <1>4, <1>5, <1>6 DEF SessTypes, Init
<1>8. PortInv
  <2> SUFFICES ASSUME NEW p \in Ports
               PROVE  /\ client[p].visit \in 1 .. Visits[p]
                      /\ Holds(client[p], thread[p]) /\ Keeps(thread[p])
                      /\ Serves(thread[p], client[p])
    BY DEF PortInv
  <2>1. client[p] = NewClient(1, asked[p]) /\ thread[p] = NoThread
    BY <1>1 DEF Init
  <2>2. client[p].visit \in 1 .. Visits[p]
    BY <2>1, <1>2 DEF NewClient
  <2>3. Holds(client[p], thread[p])
    BY <2>1 DEF Holds, NewClient
  <2>4. Keeps(thread[p])
    BY <2>1 DEF Keeps, NoThread
  <2>5. Serves(thread[p], client[p])
    BY <2>1 DEF Serves, NewClient, NoThread
  <2> QED
    BY <2>2, <2>3, <2>4, <2>5
<1>9. QueueInv
  BY DEF QueueInv, Init
<1>10. UpInv
  <2> SUFFICES ASSUME NEW d \in up
               PROVE  /\ d \in GetSet => (client[d.from].visit = 1 => d.file = client[d.from].file)
                      /\ d \in AckSet => Told(client[d.from], d.seq)
    BY DEF UpInv
  <2>1. PICK p \in Ports : d = Get(p, asked[p])
    BY <1>1
  <2>2. d.type = "GET" /\ d.from = p /\ d.file = asked[p]
    BY <2>1 DEF Get
  <2>3. d \notin AckSet
    BY <2>2 DEF AckSet
  <2> QED
    BY <2>2, <2>3, <1>1 DEF NewClient
<1>11. DownInv
  BY DEF DownInv, Init
<1> QED
  BY <1>7, <1>8, <1>9, <1>10, <1>11 DEF SessInv

\* A chunk, or the empty packet.
LEMMA ClientDataSess ==
    ASSUME SessInv, NEW p \in Ports, NEW d \in down, ClientData(p, d)
    PROVE  SessInv'
<1> DEFINE c == client[p]
           t == thread[p]
<1>1. /\ c \in ClientSet /\ t \in ThreadSet /\ c.visit \in 1 .. Visits[p]
      /\ Holds(c, t) /\ Serves(t, c)
      /\ t.state # "none" => t.file \in Files
  BY PortFacts
<1>2. d \in DataSet /\ d.to = p /\ Carries(d, t) /\ c.status \in {"asking", "receiving"}
  BY DEF ClientData, SessInv, SessTypes, DownInv, Running
<1>3. PICK i \in Nat : d.seq = i % SeqCount /\ d.payload = Block(t.file, i)
  BY <1>2 DEF Carries
<1>4. t.file \in Files /\ d.seq \in Nat /\ SeqCount \in Nat /\ SeqCount > 0
      /\ RecvWindow \in Nat /\ RecvWindow >= 1
  BY <1>1, <1>2, ConstTypes DEF Carries, DataSet
<1>5. \A n \in Nat : n % SeqCount \in Nat
  BY <1>4
<1>6. CASE d.payload = EOF
  <2> DEFINE r == [c EXCEPT !.status = "complete"]
             a == Ack(p, d.seq + 1, RecvWindow)
  <2>1. client' = [client EXCEPT ![p] = r] /\ up' = up \cup {a}
        /\ UNCHANGED <<thread, queue, down>>
    BY <1>6 DEF ClientData
  <2>2. /\ r \in ClientSet /\ r.visit = c.visit /\ r.file = c.file /\ r.status = "complete"
        /\ r.expected = c.expected /\ r.saved = c.saved /\ r.buffer = c.buffer
    BY <1>1 DEF ClientSet
  <2>3. Holds(r, t) /\ Serves(t, r) /\ \A s \in Nat : Told(r, s)
    <3> HIDE DEF r, c, t
    <3> QED
      BY <1>1, <2>2 DEF Holds, Serves, Told
  <2>4. a \in AckSet /\ a.from = p /\ a.seq \in Nat /\ a \notin GetSet
    <3>1. (d.seq + 1) % SeqCount \in Nat /\ RecvWindow \in 1 .. RecvWindow
      BY <1>4, <1>5
    <3> QED
      BY <3>1 DEF Ack, AckSet, GetSet
  <2> HIDE DEF r, a
  <2>5. {a} \in SUBSET (GetSet \cup AckSet)
    BY <2>4
  <2>6. /\ r \in ClientSet /\ r.visit \in 1 .. Visits[p]
        /\ r.visit = 1 => client[p].visit = 1
        /\ r.visit = 1 => r.file = client[p].file
        /\ \A s \in Nat : Told(client[p], s) => Told(r, s)
        /\ Holds(r, thread[p]) /\ Serves(thread[p], r)
    BY <1>1, <2>2, <2>3
  <2>7. \A x \in {a} : /\ x.from = p
                       /\ x \in GetSet => x.file = r.file
                       /\ x \in AckSet => Told(r, x.seq)
    BY <2>3, <2>4
  <2> QED
    BY <2>1, <2>5, <2>6, <2>7, ClientMoves
<1>7. CASE d.payload # EOF
  <2>1. i < Chunks[t.file] /\ d.payload = <<t.file, i>>
    BY <1>3, <1>7 DEF Block
  <2> DEFINE b == Stored(c, d.seq, d.payload)
             r == Reassembled(c, b)
             a == Ack(p, r.expected, RecvWindow - Cardinality(DOMAIN r.buffer))
  <2>2. client' = [client EXCEPT ![p] = r] /\ up' = up \cup {a}
        /\ UNCHANGED <<thread, queue, down>>
    BY <1>7 DEF ClientData
  <2>3. /\ DOMAIN b \subseteq c.expected .. c.expected + RecvWindow - 1
        /\ b \in [DOMAIN b -> Payloads]
        /\ \A k \in DOMAIN b : IsChunk(t.file, k, b[k])
    <3> HIDE DEF c, t
    <3> QED
      BY <2>1, <1>1, <1>3, <1>4, StoredHolds
  <2> HIDE DEF b
  <2>4. /\ r \in ClientSet /\ r.visit = c.visit /\ r.file = c.file
        /\ r.status = "receiving" /\ r.expected >= c.expected
        /\ Holds(r, t)
        /\ RecvWindow - Cardinality(DOMAIN r.buffer) \in 1 .. RecvWindow
    <3> HIDE DEF c, t
    <3> QED
      BY <2>3, <1>1, <1>4, ReassembledHolds
  <2> HIDE DEF r
  <2>5. Serves(t, r)
    <3>1. c.expected \in Nat /\ r.expected \in Nat /\ t.base \in Nat /\ c.status # "complete"
      BY <1>1, <1>2, <2>4 DEF ClientSet, ThreadSet
    <3> HIDE DEF c, t
    <3> QED
      BY <3>1, <1>1, <2>4 DEF Serves
  <2>6. \A s \in Nat : Told(c, s) => Told(r, s)
    <3> HIDE DEF c, t
    <3> QED
      BY <1>1, <1>2, <2>4, ToldMore
  <2>7. a \in AckSet /\ a.from = p /\ a \notin GetSet /\ Told(r, a.seq)
    <3>1. r.expected \in Nat /\ r.expected \in 0 .. r.expected
      BY <2>4 DEF ClientSet
    <3>2. a.seq = r.expected % SeqCount /\ a.seq \in Nat
      BY <3>1, <1>5 DEF Ack
    <3>3. Told(r, a.seq)
      BY <3>1, <3>2 DEF Told
    <3>4. a \in AckSet /\ a.from = p /\ a \notin GetSet
      BY <2>4, <3>2 DEF Ack, AckSet, GetSet
    <3> QED
      BY <3>3, <3>4
  <2> HIDE DEF a
  <2>8. {a} \in SUBSET (GetSet \cup AckSet)
    BY <2>7
  <2>9. /\ r \in ClientSet /\ r.visit \in 1 .. Visits[p]
        /\ r.visit = 1 => client[p].visit = 1
        /\ r.visit = 1 => r.file = client[p].file
        /\ \A s \in Nat : Told(client[p], s) => Told(r, s)
        /\ Holds(r, thread[p]) /\ Serves(thread[p], r)
    BY <1>1, <2>4, <2>5, <2>6
  <2>10. \A x \in {a} : /\ x.from = p
                        /\ x \in GetSet => x.file = r.file
                        /\ x \in AckSet => Told(r, x.seq)
    BY <2>7
  <2> QED
    BY <2>2, <2>8, <2>9, <2>10, ClientMoves
<1> QED
  BY <1>6, <1>7

\* The end of a client changes nothing that it has.
LEMMA ClientGoneSess ==
    ASSUME SessInv, NEW p \in Ports, ClientGone(p)
    PROVE  SessInv'
<1> DEFINE c == client[p]
           r == [c EXCEPT !.status = "gone"]
<1>1. /\ c \in ClientSet /\ c.visit \in 1 .. Visits[p] /\ c.status # "complete"
      /\ Holds(c, thread[p]) /\ Serves(thread[p], c)
  BY PortFacts DEF ClientGone, Running
<1>2. client' = [client EXCEPT ![p] = r] /\ up' = up \cup {} /\ {} \in SUBSET (GetSet \cup AckSet)
      /\ UNCHANGED <<thread, queue, down>>
  BY DEF ClientGone
<1>3. /\ r \in ClientSet /\ r.visit = c.visit /\ r.file = c.file /\ r.status = "gone"
      /\ r.expected = c.expected /\ r.saved = c.saved /\ r.buffer = c.buffer
  BY <1>1 DEF ClientSet
<1>4. Holds(r, thread[p]) /\ Serves(thread[p], r) /\ \A s \in Nat : Told(c, s) => Told(r, s)
  <2> HIDE DEF r, c
  <2> QED
    BY <1>1, <1>3 DEF Holds, Serves, Told
<1>5. r.visit \in 1 .. Visits[p] /\ r.visit = client[p].visit /\ r.file = client[p].file
  BY <1>1, <1>3
<1> HIDE DEF r
<1> QED
  BY <1>2, <1>3, <1>4, <1>5, ClientMoves

\* The next client on a port has nothing, and is not the first.
LEMMA ClientReturnsSess ==
    ASSUME SessInv, NEW p \in Ports, NEW f \in Files, ClientReturns(p, f)
    PROVE  SessInv'
<1> DEFINE c == client[p]
           r == NewClient(c.visit + 1, f)
           g == Get(p, f)
<1>1. c \in ClientSet /\ c.visit \in 1 .. Visits[p] /\ Visits[p] \in Nat /\ RecvWindow \in Nat
      /\ RecvWindow >= 1
  BY PortFacts, ConstTypes
<1>2. client' = [client EXCEPT ![p] = r] /\ up' = up \cup {g} /\ UNCHANGED <<thread, queue, down>>
      /\ c.visit < Visits[p]
  BY DEF ClientReturns
<1>3. [i \in {} |-> EOF] \in Buffers
  <2>1. [i \in {} |-> EOF] \in [{} -> Payloads] /\ {} \in SUBSET Nat
    OBVIOUS
  <2> QED
    BY <2>1 DEF Buffers
<1>4. /\ r.visit = c.visit + 1 /\ r.file = f /\ r.expected = 0 /\ r.saved = <<>>
      /\ r.buffer = [i \in {} |-> EOF]
  BY DEF NewClient
<1>5. r \in ClientSet
  BY <1>1, <1>3 DEF NewClient, ClientSet
<1>6. r.visit \in 1 .. Visits[p] /\ r.visit # 1
  <2> HIDE DEF c, r
  <2> QED
    BY <1>1, <1>2, <1>4
<1>7. Holds(r, thread[p])
  <2> HIDE DEF c, r
  <2> QED
    BY <1>4 DEF Holds
<1>8. Serves(thread[p], r) /\ \A s \in Nat : Told(r, s)
  <2> HIDE DEF c, r
  <2> QED
    BY <1>6 DEF Serves, Told
<1>9. g \in GetSet /\ g \notin AckSet /\ g.from = p /\ g.file = r.file
  BY <1>4 DEF Get, GetSet, AckSet
<1>10. {g} \in SUBSET (GetSet \cup AckSet)
  BY <1>9
<1>11. \A x \in {g} : /\ x.from = p
                      /\ x \in GetSet => x.file = r.file
                      /\ x \in AckSet => Told(r, x.seq)
  BY <1>9
<1> HIDE DEF r, g
<1> QED
  BY <1>2, <1>5, <1>6, <1>7, <1>8, <1>10, <1>11, ClientMoves

\* The first GET from a port decides the file: nothing was sent there before.
LEMMA ServerGetSess ==
    ASSUME SessInv, NEW p \in Ports, NEW f \in Files, ServerGet(p, f)
    PROVE  SessInv'
<1> DEFINE c == client[p]
           t == [NoThread EXCEPT !.state = "sending", !.file = f]
<1>1. /\ c \in ClientSet /\ thread[p].state = "none" /\ thread[p] = NoThread
      /\ \A s : Holds(c, s)
      /\ queue[p] \in Seq(AckSet)
      /\ \A k \in 1 .. Len(queue[p]) : Told(c, queue[p][k].seq)
  <2>1. thread[p].state = "none"
    BY DEF ServerGet, Known
  <2>2. thread[p] = NoThread /\ c \in ClientSet /\ Holds(c, thread[p])
        /\ queue[p] \in Seq(AckSet) /\ \A k \in 1 .. Len(queue[p]) : Told(c, queue[p][k].seq)
    BY <2>1, PortFacts DEF Keeps
  <2> QED
    BY <2>1, <2>2, HoldsNothing
<1>2. c.visit = 1 => c.file = f
  <2>1. Get(p, f) \in up /\ Get(p, f) \in GetSet /\ Get(p, f).from = p /\ Get(p, f).file = f
    BY DEF ServerGet, Get, GetSet
  <2> QED
    BY <2>1 DEF SessInv, UpInv
<1>3. queue' = [queue EXCEPT ![p] = queue[p]] /\ UNCHANGED <<client, up>>
  BY DEF ServerGet, SessInv, SessTypes
<1>4. t.state = "sending" /\ t.file = f /\ t.base = 0 /\ t.next = 0 /\ t.window = 1
      /\ t \in ThreadSet
  <2>1. 1 \in 1 .. RecvWindow
    BY ConstTypes
  <2>2. /\ NoThread \in ThreadSet
        /\ NoThread.base = 0 /\ NoThread.next = 0 /\ NoThread.window = 1
    BY <2>1 DEF NoThread, ThreadSet
  <2> QED
    BY <2>2 DEF ThreadSet
<1>5. Chunks[f] \in Int /\ Count(f) = Chunks[f] + 1 /\ c.expected \in Nat
  BY <1>1, ConstTypes DEF ClientSet
<1> HIDE DEF c, t
<1>6. CASE Chunks[f] >= 0
  <2> DEFINE r == Filled(t)
             P == Packets(p, f, 0 .. r.next - 1)
  <2>1. thread' = [thread EXCEPT ![p] = r] /\ down' = down \cup P
    <3>1. ~ (Chunks[f] < 0)
      BY <1>5, <1>6
    <3> QED
      BY <3>1, Zenon DEF ServerGet, t
  <2>2. /\ r \in ThreadSet /\ r.file = f /\ r.state = "sending" /\ r.base = 0
        /\ r.next \in 1 .. Count(f)
    <3>1. /\ t.file \in Files /\ t.base <= t.next /\ t.next <= Count(t.file)
          /\ t.base < Count(t.file)
      BY <1>4, <1>5, <1>6
    <3> QED
      BY <3>1, <1>4, FilledKeeps
  <2> HIDE DEF r
  <2>3. Keeps(r)
    BY <2>2, <1>5, <1>6 DEF Keeps
  <2>4. Serves(r, c)
    BY <2>2, <1>2, <1>5 DEF Serves
  <2>5. P \in SUBSET DataSet /\ \A d \in P : d.to = p /\ Carries(d, r)
    <3>1. 0 .. r.next - 1 \in SUBSET Nat /\ r.state # "none"
      BY <2>2, <1>5
    <3> QED
      BY <3>1, <2>2, PacketsCarry
  <2> HIDE DEF P
  <2> QED
    BY <1>1, <1>3, <2>1, <2>2, <2>3, <2>4, <2>5, ThreadMoves DEF c
<1>7. CASE Chunks[f] < 0
  <2> DEFINE r == [t EXCEPT !.state = "over"]
             P == IF Chunks[f] = Missing THEN {Data(p, 0, EOF)} ELSE {}
  <2>1. thread' = [thread EXCEPT ![p] = r] /\ down' = down \cup P
    <3>1. ~ (Chunks[f] >= 0)
      BY <1>5, <1>7
    <3> QED
      BY <3>1, Zenon DEF ServerGet, t
  <2>2. r \in ThreadSet /\ r.file = f /\ r.state = "over" /\ r.base = 0 /\ r.next = 0
    BY <1>4 DEF ThreadSet
  <2> HIDE DEF r
  <2>3. Keeps(r)
    BY <2>2 DEF Keeps
  <2>4. Serves(r, c)
    BY <2>2, <1>2, <1>5, <1>7 DEF Serves
  <2>5. P \in SUBSET DataSet /\ \A d \in P : d.to = p /\ Carries(d, r)
    <3>1. Packets(p, r.file, {0}) \in SUBSET DataSet
          /\ \A d \in Packets(p, r.file, {0}) : d.to = p /\ Carries(d, r)
      <4>1. {0} \in SUBSET Nat /\ r.state # "none" /\ r.file \in Files
        BY <2>2
      <4> QED
        BY <4>1, PacketsCarry
    <3>2. Block(r.file, 0) = EOF
      BY <1>7, <1>5, <2>2 DEF Block
    <3>3. P \subseteq Packets(p, r.file, {0})
      BY <3>2 DEF Packets
    <3> HIDE DEF P
    <3> QED
      BY <3>1, <3>3
  <2> HIDE DEF P
  <2> QED
    BY <1>1, <1>3, <2>1, <2>2, <2>3, <2>4, <2>5, ThreadMoves DEF c
<1> QED
  BY <1>5, <1>6, <1>7

\* The thread goes on as t.
LEMMA GoesSess ==
    ASSUME SessInv, NEW p \in Ports, NEW t \in ThreadSet, thread[p].state = "sending",
           t.file = thread[p].file, t.state = "sending", t.next = thread[p].next,
           t.base <= t.next, t.base <= Count(t.file),
           client[p].visit = 1 /\ client[p].status # "complete" => t.base <= client[p].expected,
           Goes(p, t), UNCHANGED <<client, up>>
    PROVE  SessInv'
<1> DEFINE c == client[p]
           o == thread[p]
<1>1. /\ c \in ClientSet /\ o \in ThreadSet /\ Holds(c, o) /\ Keeps(o) /\ Serves(o, c)
      /\ queue[p] \in Seq(AckSet) /\ \A k \in 1 .. Len(queue[p]) : Told(c, queue[p][k].seq)
      /\ t.file \in Files
  BY PortFacts
<1>2. Chunks[t.file] >= 0 /\ t.next <= Count(t.file)
  <2>1. Chunks[o.file] >= 0 /\ o.next \in o.base + 1 .. Count(o.file)
    BY <1>1 DEF Keeps
  <2> QED
    BY <2>1
<1>3. Chunks[t.file] \in Int /\ Count(t.file) = Chunks[t.file] + 1 /\ c.expected \in Nat
      /\ t.base \in Nat /\ t.next \in Nat
  BY <1>1, ConstTypes DEF ClientSet, ThreadSet
<1>4. c.visit = 1 => t.file = c.file
  BY <1>1 DEF Serves
<1>5. c.expected <= Chunks[t.file]
  BY <1>1, <1>2, SavedWithin
<1>6. \A r : r.file = t.file => Holds(c, r)
  BY <1>1 DEF Holds
<1> HIDE DEF c
<1>7. CASE t.base >= Count(t.file)
  <2> DEFINE r == [o EXCEPT !.state = "over"]
  <2>1. /\ thread' = [thread EXCEPT ![p] = r] /\ down' = down \cup {}
        /\ queue' = [queue EXCEPT ![p] = <<>>]
    <3>1. ~ (t.base < Count(t.file))
      BY <1>3, <1>7
    <3>2. thread' = [thread EXCEPT ![p].state = "over"] /\ down' = down
          /\ queue' = [queue EXCEPT ![p] = <<>>]
      BY <3>1 DEF Goes
    <3> QED
      BY <3>2
  <2>2. r \in ThreadSet /\ r.file = t.file /\ r.state = "over" /\ r.base = o.base /\ r.next = o.next
    BY <1>1 DEF ThreadSet
  <2>3. ~ (c.visit = 1 /\ c.status # "complete")
    BY <1>3, <1>5, <1>7 DEF c
  <2>4. Keeps(r)
    <3>1. o.base <= o.next
      BY <1>1 DEF Keeps
    <3> HIDE DEF r
    <3> QED
      BY <3>1, <2>2, <1>1 DEF Keeps
  <2> HIDE DEF r
  <2>5. Serves(r, c)
    BY <2>2, <2>3, <1>4 DEF Serves
  <2>6. <<>> \in Seq(AckSet) /\ (\A k \in 1 .. Len(<<>>) : Told(client[p], (<<>>)[k].seq))
        /\ {} \in SUBSET DataSet
    OBVIOUS
  <2>7. r.state # "none" /\ r.file = thread[p].file /\ Holds(c, r)
    BY <2>2, <1>6
  <2> HIDE DEF o
  <2> QED
    BY <2>1, <2>2, <2>4, <2>5, <2>6, <2>7, ThreadMoves DEF c
<1>8. CASE t.base < Count(t.file)
  <2> DEFINE r == Filled(t)
             l == IF queue[p] = <<>> THEN queue[p] ELSE Tail(queue[p])
  <2>1. /\ thread' = [thread EXCEPT ![p] = r]
        /\ queue' = [queue EXCEPT ![p] = IF @ = <<>> THEN @ ELSE Tail(@)]
        /\ \E expired \in SUBSET (t.base .. t.next - 1) :
             down' = down \cup Packets(p, t.file, expired \cup (t.next .. r.next - 1))
    <3>1. ~ (t.base >= Count(t.file))
      BY <1>3, <1>8
    <3> QED
      BY <3>1 DEF Goes
  <2>2. queue' = [queue EXCEPT ![p] = l]
    BY <2>1 DEF SessInv, SessTypes
  <2>3. /\ r \in ThreadSet /\ r.file = t.file /\ r.state = "sending" /\ r.base = t.base
        /\ r.next \in t.base + 1 .. Count(t.file) /\ r.next >= t.next
    BY <1>1, <1>2, <1>8, FilledKeeps
  <2> HIDE DEF r
  <2>4. PICK expired \in SUBSET (t.base .. t.next - 1) :
          down' = down \cup Packets(p, t.file, expired \cup (t.next .. r.next - 1))
    BY <2>1
  <2> DEFINE is == expired \cup (t.next .. r.next - 1)
             P == Packets(p, r.file, is)
  <2>5. is \in SUBSET Nat
    <3>1. expired \subseteq Nat
      BY <1>3
    <3>2. t.next .. r.next - 1 \subseteq Nat
      BY <1>3, <2>3
    <3> QED
      BY <3>1, <3>2
  <2> HIDE DEF is
  <2>6. P \in SUBSET DataSet /\ \A d \in P : d.to = p /\ Carries(d, r)
    BY <2>3, <2>5, <1>1, PacketsCarry
  <2>7. down' = down \cup P
    BY <2>3, <2>4 DEF is
  <2>8. Keeps(r)
    BY <2>3, <1>1, <1>2, <1>3, <1>8 DEF Keeps
  <2>9. Serves(r, c)
    BY <2>3, <1>4 DEF Serves, c
  <2>10. l \in Seq(AckSet) /\ \A k \in 1 .. Len(l) : Told(c, l[k].seq)
    <3>1. CASE queue[p] = <<>>
      BY <3>1, <1>1 DEF c
    <3>2. CASE queue[p] # <<>>
      <4>1. l = Tail(queue[p]) /\ l \in Seq(AckSet) /\ Len(l) = Len(queue[p]) - 1
            /\ \A k \in 1 .. Len(l) : l[k] = queue[p][k + 1]
        BY <3>2, <1>1
      <4>2. \A k \in 1 .. Len(l) : k + 1 \in 1 .. Len(queue[p])
        BY <4>1, <1>1
      <4> HIDE DEF l
      <4> QED
        BY <4>1, <4>2, <1>1 DEF c
    <3> QED
      BY <3>1, <3>2
  <2> HIDE DEF l, P
  <2>11. /\ Holds(client[p], r) /\ Serves(r, client[p]) /\ r.state # "none"
         /\ thread[p].state # "none" => r.file = thread[p].file
    BY <1>6, <2>3, <2>9 DEF c
  <2>12. \A k \in 1 .. Len(l) : Told(client[p], l[k].seq)
    BY <2>10 DEF c
  <2>13. l \in Seq(AckSet) /\ r \in ThreadSet /\ thread' = [thread EXCEPT ![p] = r]
    BY <2>1, <2>3, <2>10
  <2> HIDE DEF o
  <2> QED
    BY <2>2, <2>6, <2>7, <2>8, <2>11, <2>12, <2>13, ThreadMoves
<1> QED
  BY <1>3, <1>7, <1>8

\* The ACK taken was sent by the client of this port.
LEMMA ThreadTurnSess ==
    ASSUME SessInv, NEW p \in Ports, ThreadTurn(p)
    PROVE  SessInv'
<1> DEFINE c == client[p]
           o == thread[p]
<1>1. /\ c \in ClientSet /\ o \in ThreadSet /\ Holds(c, o) /\ Keeps(o) /\ Serves(o, c)
      /\ queue[p] \in Seq(AckSet) /\ \A k \in 1 .. Len(queue[p]) : Told(c, queue[p][k].seq)
      /\ o.state = "sending" /\ o.file \in Files
  BY PortFacts DEF ThreadTurn
<1>2. /\ Chunks[o.file] >= 0 /\ Chunks[o.file] \in Int /\ Count(o.file) = Chunks[o.file] + 1
      /\ o.base \in Nat /\ o.next \in Nat /\ o.base <= o.next /\ o.next <= Count(o.file)
      /\ c.expected \in Nat
  <2>1. Chunks[o.file] \in Int /\ Count(o.file) = Chunks[o.file] + 1
    BY <1>1, ConstTypes
  <2>2. o.base \in Nat /\ o.next \in Nat /\ c.expected \in Nat
    BY <1>1 DEF ThreadSet, ClientSet
  <2>3. Chunks[o.file] >= 0 /\ o.base <= o.next /\ o.next \in o.base + 1 .. Count(o.file)
    BY <1>1 DEF Keeps
  <2> HIDE DEF o, c
  <2> QED
    BY <2>1, <2>2, <2>3
<1>3. c.visit = 1 /\ c.status # "complete" => o.base <= c.expected
  BY <1>1 DEF Serves
<1>4. UNCHANGED <<client, up>>
  BY DEF ThreadTurn
<1>5. CASE queue[p] = <<>>
  <2>1. Goes(p, o)
    BY <1>5 DEF ThreadTurn
  <2>2. o.base <= Count(o.file)
    BY <1>2
  <2> QED
    BY <2>1, <2>2, <1>1, <1>2, <1>3, <1>4, GoesSess
<1>6. CASE queue[p] # <<>>
  <2> DEFINE a == Head(queue[p])
             t == [o EXCEPT !.window = a.window, !.base = @ + Confirms(o, a.seq)]
  <2>1. Goes(p, t)
    BY <1>6 DEF ThreadTurn
  <2>2. a \in AckSet /\ Told(c, a.seq)
    <3>1. 1 \in 1 .. Len(queue[p]) /\ a = queue[p][1]
      BY <1>1, <1>6
    <3> QED
      BY <3>1, <1>1
  <2>3. a.seq \in Nat /\ a.window \in 1 .. RecvWindow
    BY <2>2 DEF AckSet
  <2> HIDE DEF a
  <2>4. Confirms(o, a.seq) \in Nat /\ o.base + Confirms(o, a.seq) <= o.next
    BY <1>1, <2>3, ConfirmsOnly
  <2>5. o.base + Confirms(o, a.seq) \in Nat
    BY <1>2, <2>4
  <2>6. /\ t \in ThreadSet /\ t.file = o.file /\ t.state = "sending" /\ t.next = o.next
        /\ t.base = o.base + Confirms(o, a.seq)
    BY <1>1, <2>3, <2>5 DEF ThreadSet
  <2>7. t.base <= t.next /\ t.base <= Count(t.file)
    <3> HIDE DEF t, o
    <3> QED
      BY <2>4, <2>5, <2>6, <1>2
  <2>8. c.visit = 1 /\ c.status # "complete" => t.base <= c.expected
    <3> SUFFICES ASSUME c.visit = 1, c.status # "complete"
                 PROVE  t.base <= c.expected
      OBVIOUS
    <3>1. PICK e \in 0 .. c.expected : a.seq = e % SeqCount
      BY <2>2 DEF Told
    <3>2. c.expected <= Chunks[o.file]
      BY <1>1, <1>2, SavedWithin
    <3>3. \A x \in Nat : \A y \in 0 .. x :
            x <= Chunks[o.file] /\ o.base <= x /\ a.seq = y % SeqCount
              => o.base + Confirms(o, a.seq) <= x
      BY <1>1, <2>3, ConfirmsOnly
    <3> QED
      BY <3>1, <3>2, <3>3, <1>2, <1>3, <2>6
  <2> HIDE DEF t
  <2> QED
    BY <2>1, <2>6, <2>7, <2>8, <1>1, <1>4, GoesSess
<1> QED
  BY <1>5, <1>6

\* An ACK is put in the queue of the port it comes from.
LEMMA ServerEnqueueSess ==
    ASSUME SessInv, NEW d \in up, ServerEnqueue(d)
    PROVE  SessInv'
<1>1. d \in AckSet /\ d.from \in Ports /\ Told(client[d.from], d.seq)
  <2>1. d \in AckSet
    BY DEF ServerEnqueue, SessInv, SessTypes, GetSet
  <2> QED
    BY <2>1 DEF SessInv, UpInv, AckSet
<1>2. queue' = [q \in Ports |-> IF q \in {d.from} /\ thread[q].state = "sending"
                                THEN Append(queue[q], d) ELSE queue[q]]
      /\ UNCHANGED <<client, thread, up, down>>
  BY DEF ServerEnqueue, QueuesOf
<1>3. \A q \in Ports : queue[q] \in Seq(AckSet)
  BY PortFacts
<1>4. queue' \in [Ports -> Seq(AckSet)]
  BY <1>1, <1>2, <1>3
<1>5. SessTypes'
  BY <1>2, <1>4 DEF SessInv, SessTypes
<1>6. QueueInv'
  <2> SUFFICES ASSUME NEW q \in Ports, NEW k \in 1 .. Len(queue'[q])
               PROVE  Told(client[q], queue'[q][k].seq)
    BY <1>2 DEF QueueInv
  <2>1. CASE queue'[q] = queue[q]
    BY <2>1 DEF SessInv, QueueInv
  <2>2. CASE queue'[q] # queue[q]
    <3>1. q = d.from /\ queue'[q] = Append(queue[q], d)
      BY <2>2, <1>2
    <3>2. CASE k \in 1 .. Len(queue[q])
      <4>1. queue'[q][k] = queue[q][k]
        BY <3>1, <3>2, <1>3
      <4> QED
        BY <4>1, <3>2 DEF SessInv, QueueInv
    <3>3. CASE k \notin 1 .. Len(queue[q])
      <4>1. queue'[q][k] = d
        BY <3>1, <3>3, <1>3
      <4> QED
        BY <4>1, <3>1, <1>1
    <3> QED
      BY <3>2, <3>3
  <2> QED
    BY <2>1, <2>2
<1>7. PortInv' /\ UpInv' /\ DownInv'
  BY <1>2 DEF SessInv, PortInv, UpInv, DownInv
<1> QED
  BY <1>5, <1>6, <1>7 DEF SessInv

\* Every step keeps it.
LEMMA NextSess == SessInv /\ [Next]_vars => SessInv'
<1> SUFFICES ASSUME SessInv, [Next]_vars
             PROVE  SessInv'
  OBVIOUS
<1>1. CASE UNCHANGED vars
  BY <1>1 DEF vars, SessInv, SessTypes, PortInv, QueueInv, UpInv, DownInv
<1>2. ASSUME NEW p \in Ports, ClientGone(p)
      PROVE  SessInv'
  BY <1>2, ClientGoneSess
<1>3. ASSUME NEW p \in Ports, ThreadTurn(p)
      PROVE  SessInv'
  BY <1>3, ThreadTurnSess
<1>4. ASSUME NEW p \in Ports, NEW d \in down, ClientData(p, d)
      PROVE  SessInv'
  BY <1>4, ClientDataSess
<1>5. ASSUME NEW p \in Ports, NEW f \in Files, ClientReturns(p, f)
      PROVE  SessInv'
  BY <1>5, ClientReturnsSess
<1>6. ASSUME NEW p \in Ports, NEW f \in Files, ServerGet(p, f)
      PROVE  SessInv'
  BY <1>6, ServerGetSess
<1>7. ASSUME NEW d \in up, ServerEnqueue(d)
      PROVE  SessInv'
  BY <1>7, ServerEnqueueSess
<1> QED
  BY <1>1, <1>2, <1>3, <1>4, <1>5, <1>6, <1>7 DEF Next

\* The invariant that the theorems rest on.
LEMMA SpecSess == Spec => []SessInv
BY InitSess, NextSess, PTL DEF Spec

-----------------------------------------------------------------------------
(***************************************************************************)
(* Whatever the files, the clients and the path do: what a thread of G12's *)
(* server keeps is of the right type, its window is open and in its file,  *)
(* and no client holds a packet outside its window.                        *)
(***************************************************************************)
THEOREM SessionsTypeCorrect == Spec => []TypeOK
<1>1. SessInv => TypeOK
  <2> SUFFICES ASSUME SessInv
               PROVE  TypeOK
    OBVIOUS
  <2>1. ASSUME NEW p \in Ports
        PROVE  /\ client[p].file \in Files /\ client[p].visit \in 1 .. Visits[p]
               /\ client[p].expected = Len(client[p].saved)
               /\ DOMAIN client[p].buffer \subseteq
                    client[p].expected + 1 .. client[p].expected + RecvWindow - 1
               /\ thread[p].window \in 1 .. RecvWindow
               /\ thread[p].base <= thread[p].next
               /\ thread[p].state = "sending" =>
                    /\ Chunks[thread[p].file] >= 0
                    /\ thread[p].base < Count(thread[p].file)
                    /\ thread[p].next \in thread[p].base + 1 .. Count(thread[p].file)
    <3>1. client[p].file \in Files /\ client[p].visit \in 1 .. Visits[p]
          /\ thread[p].window \in 1 .. RecvWindow
      BY PortFacts DEF ClientSet, ThreadSet
    <3>2. Holds(client[p], thread[p]) /\ Keeps(thread[p])
      BY PortFacts
    <3> QED
      BY <3>1, <3>2 DEF Holds, Keeps
  <2>2. \A d \in up : d.type = "ACK" => d.window \in 1 .. RecvWindow
    BY DEF SessInv, SessTypes, GetSet, AckSet
  <2> QED
    BY <2>1, <2>2 DEF TypeOK
<1> QED
  BY <1>1, SpecSess, PTL

(***************************************************************************)
(* server.py:12-36: the first client on a port saves chunks of the file it *)
(* asked for, from its beginning, whatever the other threads do.           *)
(***************************************************************************)
THEOREM FirstSavesItsFile == Spec => []OwnFile
<1>1. SessInv => OwnFile
  <2> SUFFICES ASSUME SessInv, NEW p \in Ports, client[p].visit = 1,
                      NEW i \in 1 .. Len(client[p].saved)
               PROVE  client[p].saved[i] = <<client[p].file, i - 1>>
    BY DEF OwnFile, First
  <2>1. IsChunk(thread[p].file, i - 1, client[p].saved[i])
    BY PortFacts DEF Holds
  <2>2. thread[p].state # "none"
    <3>1. thread[p].file # NoFile
      BY <2>1, ConstTypes DEF IsChunk
    <3>2. thread[p].state = "none" => thread[p] = NoThread
      BY PortFacts DEF Keeps
    <3> QED
      BY <3>1, <3>2 DEF NoThread
  <2>3. thread[p].file = client[p].file
    BY <2>2, PortFacts DEF Serves
  <2> QED
    BY <2>1, <2>3 DEF IsChunk
<1> QED
  BY <1>1, SpecSess, PTL

(***************************************************************************)
(* server.py:113-115: no thread confirms what the first client on its port *)
(* has not passed, or ends before it, if the file can be read.             *)
(***************************************************************************)
THEOREM ThreadsHearTheirClient == Spec => []OwnAcks
<1>1. SessInv => OwnAcks
  BY PortFacts DEF OwnAcks, First, Serves
<1> QED
  BY <1>1, SpecSess, PTL

(***************************************************************************)
(* server.py:109: a port keeps the file its first GET named, for every     *)
(* later client on it.                                                     *)
(***************************************************************************)
THEOREM PortNeverChangesFile == Spec => []PortKeepsFile
<1>1. SessInv => PortKeepsFile
  BY PortFacts DEF PortKeepsFile, Holds, IsChunk
<1> QED
  BY <1>1, SpecSess, PTL
=============================================================================
