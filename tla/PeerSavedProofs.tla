--------------------------- MODULE PeerSavedProofs ---------------------------
(***************************************************************************)
(* Proofs about what the clients of groups G12, 3 and 2 save, and about    *)
(* what their servers confirm over a path that keeps the order.            *)
(***************************************************************************)
EXTENDS PeerProofs

-----------------------------------------------------------------------------
\* The answer to a GET of group 2 that was cut, or what cannot be told from it.
Refused(d) == GetsCut /\ d = NoFile

IsAck(d) == d.type = "ACK"
IsGet(d) == d.type \in {"GET", "CUT"}
IsData(d) == d.type = "DATA" /\ ~ Refused(d)

(***************************************************************************)
(* What the client keeps is the file, as long as a number in its window is *)
(* that of the packet it takes it for.                                     *)
(***************************************************************************)
\* The number, in the file, of a packet of the file.
Number(d) == IF d.payload = EOF THEN Chunks ELSE d.payload
PayloadOf(i) == IF i < Chunks THEN i ELSE EOF

ContentInv ==
    /\ expected <= Chunks + 1
    /\ \A i \in DOMAIN buffer : i <= Chunks /\ buffer[i] = PayloadOf(i)
    /\ Len(saved) = Least(expected, Chunks)
    /\ \A i \in 1 .. Len(saved) : saved[i] = i - 1

\* Packet a is near enough for its number to be told from others.
IsNear(a) == a < expected + SeqCount /\ expected + RecvWindow <= a + SeqCount

LEMMA NumberOfPacket ==
    ASSUME PathInv, NEW a \in 0 .. Chunks
    PROVE  Number(Packet(a)) = a /\ Packet(a).type = "DATA" /\ Packet(a).seq = a % SeqCount
           /\ Packet(a).payload = PayloadOf(a)
<1>1. Chunks \in Nat
  BY ChunksType
<1> QED
  BY <1>1 DEF Number, Packet, Data, PayloadOf, EOF

LEMMA PacketOfFile ==
    ASSUME PathInv, NEW d \in FileDatagrams, IsData(d)
    PROVE  Number(d) \in 0 .. Chunks /\ d = Packet(Number(d))
<1>1. d \in PacketsOf(0 .. Chunks)
  <2>1. d \notin Refusals
    BY DEF Refusals, IsData, Refused
  <2>2. d.type = "DATA"
    BY DEF IsData
  <2> QED
    BY <2>1, <2>2 DEF FileDatagrams, Carries, Bad, Replies, GetReply, Ack
<1>2. PICK a \in 0 .. Chunks : d = Packet(a)
  BY <1>1 DEF PacketsOf
<1> QED
  BY <1>2, NumberOfPacket

\* The packet that is read.
LEMMA ReadsPacket ==
    ASSUME TypesInv, NEW s, NEW p, Reads(Data(s, p)), IsData(Data(s, p))
    PROVE  /\ Number(Data(s, p)) \in 0 .. Chunks
           /\ Data(s, p) = Packet(Number(Data(s, p)))
           /\ s = Number(Data(s, p)) % SeqCount /\ p = PayloadOf(Number(Data(s, p)))
           /\ p = EOF <=> Number(Data(s, p)) = Chunks
<1> DEFINE d == Data(s, p)
           a == Number(d)
<1>1. PathInv /\ d \in FileDatagrams /\ IsData(d) /\ d.seq = s /\ d.payload = p
  <2>1. PathInv /\ Data(s, p) \in FileDatagrams
    BY ReadsData DEF TypesInv, PeerInv
  <2>2. Data(s, p).seq = s /\ Data(s, p).payload = p
    BY DEF Data
  <2> QED
    BY <2>1, <2>2
<1>2. a \in 0 .. Chunks /\ d = Packet(a)
  BY <1>1, PacketOfFile
<1>3. Packet(a).seq = a % SeqCount /\ Packet(a).payload = PayloadOf(a)
  BY <1>1, <1>2, NumberOfPacket
<1> HIDE DEF d, a
<1>4. PayloadOf(a) = EOF <=> a = Chunks
  <2>1. Chunks \in Nat
    BY <1>1, ChunksType
  <2> QED
    BY <1>2, <2>1 DEF PayloadOf, EOF
<1>5. s = a % SeqCount /\ p = PayloadOf(a)
  BY <1>1, <1>2, <1>3
<1> QED
  BY <1>2, <1>4, <1>5 DEF a, d

LEMMA InWindowExact ==
    ASSUME expected \in Nat, NEW a \in Nat, IsNear(a), InWindow(a % SeqCount)
    PROVE  expected <= a /\ expected + Distance(a % SeqCount) = a
<1>1. Distance(a % SeqCount) = Ahead(expected, a % SeqCount)
  BY DEF Distance, Ahead
<1>2. a - expected < SeqCount /\ expected - a < SeqCount
  BY NumbersType DEF IsNear
<1>3. Ahead(expected, a % SeqCount) = IF a >= expected THEN a - expected ELSE a - expected + SeqCount
  BY <1>2, AheadExact
<1>4. Ahead(expected, a % SeqCount) < RecvWindow
  BY <1>1 DEF InWindow
<1> DEFINE h == Ahead(expected, a % SeqCount)
<1> HIDE DEF h
<1>5. h = (IF a >= expected THEN a - expected ELSE a - expected + SeqCount) /\ h < RecvWindow
  BY <1>3, <1>4 DEF h
<1>6. expected <= a /\ expected + h = a
  BY <1>5, NumbersType DEF IsNear
<1> QED
  BY <1>1, <1>6 DEF h

\* What is read and kept, if anything is, is taken for the packet it is.
LEMMA KeepsContent ==
    ASSUME TypesInv, ContentInv, NEW s, NEW p, NEW a \in 0 .. Chunks, KeepingClient(s, p),
           InWindow(s) => expected + Distance(s) = a /\ p = PayloadOf(a),
           UNCHANGED setup
    PROVE  /\ ContentInv'
           /\ expected' \in Nat /\ expected <= expected' /\ expected' <= Chunks + 1
           /\ \A i \in expected .. expected' - 1 : i \in DOMAIN buffer \cup {a}
           /\ \A i \in DOMAIN buffer' : i \in DOMAIN buffer \cup {a}
<1> DEFINE buf == IF InWindow(s) THEN Stored(s, p) ELSE buffer
<1>0. /\ PathInv /\ Chunks \in Nat /\ expected \in Nat /\ a \in Nat
      /\ DOMAIN buffer \subseteq AheadOf(expected) /\ saved \in Seq(Nat)
  BY ChunksType DEF TypesInv, PeerInv, ClientInv, ClientTypes
<1>1. s \in SeqNums /\ p \in Payloads
  BY ReadsData DEF KeepingClient
<1>2. /\ DOMAIN buf \subseteq expected .. expected + RecvWindow - 1
      /\ \A i \in DOMAIN buf : buf[i] \in Payloads
      /\ \A i \in DOMAIN buf : i \in DOMAIN buffer \cup {a} /\ i <= Chunks /\ buf[i] = PayloadOf(i)
  <2>1. /\ DOMAIN buf \subseteq expected .. expected + RecvWindow - 1
        /\ \A i \in DOMAIN buf : buf[i] \in Payloads
        /\ \A i \in DOMAIN buf : \/ i \in DOMAIN buffer /\ buf[i] = buffer[i]
                                 \/ InWindow(s) /\ i = expected + Distance(s) /\ buf[i] = p
    BY <1>1, StoredElements
  <2> HIDE DEF buf
  <2> QED
    BY <1>1, <2>1 DEF ContentInv
<1>3. Reassembled(buf)
  BY DEF KeepingClient
<1> HIDE DEF buf
<1>4. /\ \A i \in DOMAIN buffer' : i \in DOMAIN buf /\ buffer'[i] = buf[i]
      /\ expected' \in Nat /\ expected <= expected'
      /\ \A i \in expected .. expected' - 1 : i \in DOMAIN buf
  BY <1>0, <1>2, <1>3, ReassembledSaves
<1>5. PICK more \in Seq(Nat) :
        /\ saved' = saved \o more
        /\ \A lo \in Nat, m \in Nat :
             {i \in expected .. expected' - 1 : buf[i] # EOF} = lo .. lo + m - 1 =>
               Len(more) = m /\ \A k \in 1 .. m : more[k] = buf[lo + k - 1]
  BY <1>0, <1>2, <1>3, ReassembledSaves
<1> DEFINE e == expected'
           old == Least(expected, Chunks)
           new == Least(e, Chunks)
<1>6. e \in Nat /\ expected <= e /\ e <= Chunks + 1
  <2>1. ASSUME e > Chunks + 1
        PROVE  FALSE
    <3>1. Chunks + 1 \in expected .. e - 1
      BY <1>0, <1>4, <2>1 DEF ContentInv
    <3>2. Chunks + 1 <= Chunks
      BY <1>2, <1>4, <3>1
    <3> QED
      BY <1>0, <3>2
  <2> QED
    BY <1>0, <1>4, <2>1
<1>7. /\ \A i \in expected .. e - 1 : i \in DOMAIN buf
      /\ \A lo \in Nat, m \in Nat :
           {i \in expected .. e - 1 : buf[i] # EOF} = lo .. lo + m - 1 =>
             Len(more) = m /\ \A k \in 1 .. m : more[k] = buf[lo + k - 1]
  BY <1>4, <1>5
<1> HIDE DEF e
<1>8. /\ old \in Nat /\ new \in Nat /\ old <= new /\ new - old \in Nat
      /\ new - old # 0 => old = expected
      /\ \A i \in old .. new - 1 : i \in expected .. e - 1 /\ i < Chunks
      /\ \A i \in expected .. e - 1 : i < Chunks => i \in old .. new - 1
      /\ old + (new - old) - 1 = new - 1
  BY <1>0, <1>6 DEF Least
<1>9. \A i \in expected .. e - 1 : buf[i] # EOF <=> i < Chunks
  <2>1. ASSUME NEW i \in expected .. e - 1
        PROVE  buf[i] # EOF <=> i < Chunks
    <3>1. buf[i] = PayloadOf(i)
      BY <1>2, <1>7
    <3>2. i \in Nat
      BY <1>0, <1>6
    <3> QED
      BY <1>0, <3>1, <3>2 DEF PayloadOf, EOF
  <2> QED
    BY <2>1
<1> HIDE DEF old, new
<1>10. {i \in expected .. e - 1 : buf[i] # EOF} = old .. old + (new - old) - 1
  <2>1. \A i \in expected .. e - 1 : buf[i] # EOF => i \in old .. new - 1
    BY <1>8, <1>9
  <2>2. \A i \in old .. new - 1 : i \in expected .. e - 1 /\ buf[i] # EOF
    BY <1>8, <1>9
  <2> QED
    BY <1>8, <2>1, <2>2
<1>11. Len(more) = new - old /\ \A k \in 1 .. new - old : more[k] = buf[old + k - 1]
  BY <1>7, <1>8, <1>10
<1>12. Len(saved) = old /\ \A i \in 1 .. old : saved[i] = i - 1
  BY DEF ContentInv, old
<1>13. /\ Len(saved \o more) = new
       /\ \A i \in 1 .. new : (saved \o more)[i] = IF i <= old THEN saved[i] ELSE more[i - old]
  <2>1. /\ Len(saved \o more) = Len(saved) + Len(more)
        /\ \A i \in 1 .. Len(saved) + Len(more) :
             (saved \o more)[i] = IF i <= Len(saved) THEN saved[i] ELSE more[i - Len(saved)]
    BY <1>0, ConcatProperties
  <2> DEFINE both == saved \o more
  <2> HIDE DEF both
  <2>2. Len(saved) = old /\ Len(more) = new - old /\ old + (new - old) = new
    BY <1>8, <1>11, <1>12
  <2>3. /\ Len(both) = Len(saved) + Len(more)
        /\ \A i \in 1 .. Len(saved) + Len(more) :
             both[i] = IF i <= Len(saved) THEN saved[i] ELSE more[i - Len(saved)]
    BY <2>1 DEF both
  <2>4. Len(both) = new /\ \A i \in 1 .. new : both[i] = IF i <= old THEN saved[i] ELSE more[i - old]
    BY <2>2, <2>3
  <2> QED
    BY <2>4 DEF both
<1>14. \A i \in 1 .. new : (saved \o more)[i] = i - 1
  <2>1. ASSUME NEW i \in 1 .. new
        PROVE  (saved \o more)[i] = i - 1
    <3>1. CASE i <= old
      <4>1. i \in 1 .. old
        BY <1>8, <2>1, <3>1
      <4> QED
        BY <1>12, <1>13, <3>1, <4>1
    <3>2. CASE ~ (i <= old)
      <4>1. /\ i - old \in 1 .. new - old /\ old + (i - old) - 1 = i - 1
            /\ i - 1 \in old .. new - 1
        BY <1>8, <2>1, <3>2
      <4>2. more[i - old] = buf[i - 1]
        BY <1>11, <4>1
      <4>3. buf[i - 1] = PayloadOf(i - 1) /\ i - 1 < Chunks
        BY <1>2, <1>7, <1>8, <4>1
      <4>4. buf[i - 1] = i - 1
        BY <4>3 DEF PayloadOf
      <4> QED
        BY <1>13, <2>1, <3>2, <4>2, <4>4
    <3> QED
      BY <3>1, <3>2
  <2> QED
    BY <2>1
<1>15. ContentInv'
  <2>1. Chunks' = Chunks
    BY SetupKeeps
  <2>2. \A i \in DOMAIN buffer' : i <= Chunks /\ buffer'[i] = PayloadOf(i)
    BY <1>2, <1>4
  <2>3. saved' = saved \o more
    BY <1>5
  <2>4. new = Least(expected', Chunks)
    BY DEF new, e
  <2>5. expected' <= Chunks + 1
    BY <1>6 DEF e
  <2>6. Len(saved') = Least(expected', Chunks) /\ \A i \in 1 .. Len(saved') : saved'[i] = i - 1
    BY <1>13, <1>14, <2>3, <2>4
  <2>7. \A i \in DOMAIN buffer' : i <= Chunks' /\ buffer'[i] = PayloadOf(i)'
    BY <2>1, <2>2 DEF PayloadOf
  <2> QED
    BY <2>1, <2>5, <2>6, <2>7, Zenon DEF ContentInv, Least
<1> QED
  BY <1>2, <1>4, <1>6, <1>7, <1>15 DEF e

LEMMA KeepsPackets ==
    ASSUME TypesInv, ContentInv, NEW s, NEW p, NEW a \in 0 .. Chunks,
           KeepingClient(s, p), Data(s, p) = Packet(a), IsNear(a), UNCHANGED setup
    PROVE  /\ ContentInv'
           /\ expected' \in Nat /\ expected <= expected' /\ expected' <= Chunks + 1
           /\ \A i \in expected .. expected' - 1 : i \in DOMAIN buffer \cup {a}
           /\ \A i \in DOMAIN buffer' : i \in DOMAIN buffer \cup {a}
<1>1. PathInv /\ expected \in Nat /\ a \in Nat
  BY ChunksType DEF TypesInv, PeerInv, ClientInv
<1>2. s = a % SeqCount /\ p = PayloadOf(a)
  <2>1. Packet(a).seq = a % SeqCount /\ Packet(a).payload = PayloadOf(a)
    BY <1>1, NumberOfPacket
  <2>2. Data(s, p).seq = s /\ Data(s, p).payload = p
    BY DEF Data
  <2> QED
    BY <2>1, <2>2
<1>3. InWindow(s) => expected + Distance(s) = a
  BY <1>1, <1>2, InWindowExact
<1> QED
  BY <1>2, <1>3, KeepsContent

-----------------------------------------------------------------------------
(***************************************************************************)
(* Over any path, and for a short file: G12's server sends no packet that  *)
(* is a window or more ahead of the one its client expects, as it takes no *)
(* packet for confirmed that the client has not acknowledged.              *)
(***************************************************************************)
Within(e) == {a \in 0 .. Chunks : a < e + RecvWindow}

FitInv ==
    OldAcksTold =>
      /\ status # "complete" => down \in Seq(Carries(Within(expected)))
      /\ status = "complete" => Chunks < expected + RecvWindow

LEMMA CarriedPacket ==
    ASSUME PathInv, ~ GetsCut, NEW T, T \subseteq 0 .. Chunks,
           NEW a \in 0 .. Chunks, Packet(a) \in Carries(T)
    PROVE  a \in T
<1>1. Packet(a).type = "DATA" /\ Number(Packet(a)) = a
  BY NumberOfPacket
<1>2. Packet(a) \in PacketsOf(T)
  BY <1>1 DEF Carries, Refusals, Bad, Replies, GetReply, Ack
<1>3. PICK c \in T : Packet(a) = Packet(c)
  BY <1>2 DEF PacketsOf
<1>4. Number(Packet(c)) = c
  BY NumberOfPacket
<1> QED
  BY <1>1, <1>3, <1>4

\* The client expects no less after a step.
LEMMA ExpectedGrows ==
    ASSUME TypesInv, ClientDoes
    PROVE  expected' \in Nat /\ expected <= expected'
<1>0. expected \in Nat
  BY DEF TypesInv, PeerInv, ClientInv
<1>1. CASE UNCHANGED receiver
  BY <1>0, <1>1 DEF receiver
<1>2. ASSUME NEW s, NEW p, KeepingClient(s, p)
      PROVE  expected' \in Nat /\ expected <= expected'
  <2> DEFINE buf == IF InWindow(s) THEN Stored(s, p) ELSE buffer
  <2>1. s \in SeqNums /\ p \in Payloads
    BY <1>2, ReadsData DEF KeepingClient
  <2>2. DOMAIN buf \subseteq expected .. expected + RecvWindow - 1 /\ \A i \in DOMAIN buf : buf[i] \in Payloads
    BY <2>1, StoredElements
  <2>3. Reassembled(buf) /\ saved \in Seq(Nat)
    BY <1>2 DEF KeepingClient, TypesInv, ClientTypes
  <2> HIDE DEF buf
  <2> QED
    BY <1>0, <2>2, <2>3, ReassembledSaves
<1> QED
  BY <1>1, <1>2, Zenon DEF ClientDoes, QuietClient, AskingClient, RepeatingClient, EndingClient,
         LeavingClient

LEMMA WithinGrows ==
    ASSUME NEW e \in Nat, NEW f \in Nat, e <= f, Chunks \in Nat, NEW q \in Seq(Carries(Within(e)))
    PROVE  q \in Seq(Carries(Within(f)))
<1>1. Within(e) \subseteq Within(f)
  BY NumbersType DEF Within
<1>2. Carries(Within(e)) \subseteq Carries(Within(f))
  BY <1>1 DEF Carries, PacketsOf
<1> QED
  BY <1>2, SeqInto, ElementOfSeq

LEMMA SameSettings ==
    ASSUME UNCHANGED setup
    PROVE  /\ OldAcksTold' = OldAcksTold /\ InOrder' = InOrder /\ FitsNumbers' = FitsNumbers
           /\ EndOvertakes' = EndOvertakes
BY SetupKeeps DEF OldAcksTold, InOrder, FitsNumbers, EndOvertakes

LEMMA SameCarries ==
    ASSUME UNCHANGED setup
    PROVE  Carries(Within(expected))' = Carries(Within(expected'))
BY SetupKeeps DEF Carries, Within, Replies, Refusals, GetsCut, PacketsOf, Packet, Chunks

\* Only a GET of group 2 is cut.
LEMMA PlainGets ==
    ASSUME PathInv, setup.client # "G2" \/ setup.server # "G2"
    PROVE  ~ GetsCut /\ \A s, p : IsData(Data(s, p))
<1>1. ~ GetsCut
  BY PairsAssumption DEF PathInv, GetsCut
<1>2. \A s, p : Data(s, p).type = "DATA"
  BY DEF Data
<1> QED
  BY <1>1, <1>2 DEF IsData, Refused

LEMMA ClientStepFits ==
    ASSUME TypesInv, OldAckInv, FitInv, ClientDoes, UNCHANGED setup
    PROVE  FitInv'
<1> SUFFICES ASSUME OldAcksTold
             PROVE  /\ status' # "complete" => down' \in Seq(Carries(Within(expected')))
                    /\ status' = "complete" => Chunks < expected' + RecvWindow
  BY SameCarries, SameSettings, SetupKeeps DEF FitInv
<1>0. /\ PathInv /\ Chunks \in Nat /\ expected \in Nat
  BY ChunksType DEF TypesInv, PeerInv, ClientInv
<1>1. expected' \in Nat /\ expected <= expected'
  BY ExpectedGrows
<1>9. ~ GetsCut /\ \A s, p : IsData(Data(s, p))
  BY <1>0, PlainGets DEF OldAcksTold
<1>2. ASSUME status # "complete", NEW d, Reads(d)
      PROVE  d \in Carries(Within(expected)) /\ down' \in Seq(Carries(Within(expected')))
  <2>1. down \in Seq(Carries(Within(expected)))
    BY <1>2 DEF FitInv
  <2>2. d \in Carries(Within(expected)) /\ down' \in Seq(Carries(Within(expected)))
    BY <1>2, <2>1, ReadsDown
  <2> QED
    BY <1>0, <1>1, <2>2, WithinGrows
<1>3. CASE \E s : EndingClient(s)
  <2>1. PICK s : EndingClient(s)
    BY <1>3
  <2>2. Reads(Data(s, EOF)) /\ UNCHANGED receiver /\ status # "complete" /\ status' = "complete"
    BY <2>1 DEF EndingClient
  <2>3. Data(s, EOF) = Packet(Chunks)
    BY <1>9, <2>2, ReadsPacket
  <2>4. Packet(Chunks) \in Carries(Within(expected))
    BY <1>2, <2>2, <2>3
  <2>5. Chunks \in Within(expected)
    <3>1. Within(expected) \subseteq 0 .. Chunks /\ Chunks \in 0 .. Chunks
      BY <1>0 DEF Within
    <3> QED
      BY <1>0, <1>9, <2>4, <3>1, CarriedPacket
  <2> QED
    BY <2>2, <2>5 DEF Within, receiver
<1>4. CASE \E s, p : KeepingClient(s, p)
  BY <1>2, <1>4, Zenon DEF KeepingClient
<1>5. CASE UNCHANGED <<status, receiver>> /\ \E d : Reads(d)
  BY <1>2, <1>5 DEF FitInv, receiver
<1>6. CASE UNCHANGED down /\ status' # "complete" /\ status # "complete"
  BY <1>0, <1>1, <1>6, WithinGrows DEF FitInv
<1>7. CASE status # "complete" /\ status' # "complete" /\ \E d : Reads(d)
  BY <1>2, <1>7
<1>8. CASE QuietClient
  BY <1>5, <1>6, <1>7, <1>8 DEF QuietClient
<1> QED
  BY <1>3, <1>4, <1>6, <1>7, <1>8 DEF ClientDoes, AskingClient, RepeatingClient, LeavingClient, netVars

\* What G12's server sends.
LEMMA G12Sends ==
    ASSUME TypesInv, BoundsInv', UNCHANGED setup, setup.server = "G12", ServerDoes
    PROVE  \/ UNCHANGED down
           \/ Sends({}) \/ Sends(in_flight')
           \/ Sends({Chunks}) /\ setup.chunks = Missing
<1>1. CASE DroppingServer \/ MissingServer
  BY <1>1 DEF DroppingServer, MissingServer
<1>2. ASSUME NEW b, Moves(b)
      PROVE  Sends(in_flight')
  <2>1. serving' # "ending"
    BY DEF BoundsInv
  <2> QED
    BY <1>2, <2>1 DEF Moves
<1>3. CASE QueueingServer \/ DoneServer
  BY <1>3 DEF QueueingServer, DoneServer
<1>4. ~ EndingServer /\ ~ RefusingServer
  BY DEF EndingServer, RefusingServer, TypesInv, BoundsInv
<1> QED
  BY <1>1, <1>2, <1>3, <1>4 DEF ServerDoes, StartingServer, MovingServer

LEMMA ServerStepFits ==
    ASSUME TypesInv, FitInv, BoundsInv', OldAckInv', PeerInv',
           ServerDoes, UNCHANGED <<setup, clientVars>>
    PROVE  FitInv'
<1> SUFFICES ASSUME OldAcksTold, status # "complete"
             PROVE  down' \in Seq(Carries(Within(expected)))
  BY SameCarries, SameSettings, SetupKeeps DEF FitInv, clientVars
<1>0. /\ PathInv /\ Chunks \in Nat /\ expected \in Nat /\ setup.server = "G12"
      /\ down \in Seq(Carries(Within(expected)))
  BY ChunksType DEF TypesInv, PeerInv, ClientInv, OldAcksTold, FitInv
<1>1. base' \in Nat /\ base' <= expected /\ next_seq' \in Nat
  BY SameSettings DEF OldAckInv, SentInv, PeerInv, ServerInv, SenderInv, clientVars
<1>2. in_flight' \subseteq Within(expected)
  <2> DEFINE n == next_seq'
             b == base'
  <2>1. /\ n \in Nat /\ n <= b + RecvWindow /\ n <= Chunks + 1 /\ in_flight' \subseteq 0 .. n - 1
        /\ b \in Nat /\ b <= expected
    BY <1>0, <1>1, SetupKeeps DEF BoundsInv, Limit, G12Count
  <2> HIDE DEF n, b
  <2>2. \A a \in in_flight' : a \in 0 .. Chunks /\ a < expected + RecvWindow
    BY <1>0, <2>1, NumbersType
  <2> QED
    BY <2>2 DEF Within
<1>3. setup.chunks = Missing => {Chunks} \subseteq Within(expected)
  BY <1>0, NumbersType DEF Within, Chunks
<1>4. {} \subseteq Within(expected)
  OBVIOUS
<1>5. \/ UNCHANGED down
      \/ \E S : S \subseteq Within(expected) /\ Sends(S)
  BY <1>0, <1>2, <1>3, <1>4, G12Sends, Zenon
<1> QED
  BY <1>0, <1>5, SendsWithin

-----------------------------------------------------------------------------
\* What a step makes of a channel.

Elems(q) == {q[i] : i \in DOMAIN q}

\* r is q, from which datagrams have been taken, lost or damaged.
Thinned(q, r) ==
    \E f \in [DOMAIN r -> DOMAIN q] :
      /\ \A i, j \in DOMAIN r : i < j => f[i] < f[j]
      /\ \A i \in DOMAIN r : r[i] = q[f[i]] \/ r[i] = Bad

LEMMA ThinnedSame == ASSUME NEW S, NEW q \in Seq(S) PROVE Thinned(q, q)
<1> DEFINE f == [i \in DOMAIN q |-> i]
<1>1. /\ f \in [DOMAIN q -> DOMAIN q]
      /\ \A i, j \in DOMAIN q : i < j => f[i] < f[j]
      /\ \A i \in DOMAIN q : q[i] = q[f[i]]
  OBVIOUS
<1> HIDE DEF f
<1> QED
  BY <1>1 DEF Thinned

LEMMA ThinnedRemoved ==
    ASSUME NEW S, NEW q \in Seq(S), NEW k \in DOMAIN q
    PROVE  Thinned(q, RemoveAt(q, k))
<1> DEFINE r == RemoveAt(q, k)
           f == [j \in DOMAIN r |-> IF j < k THEN j ELSE j + 1]
<1>1. /\ r \in Seq(S) /\ Len(r) = Len(q) - 1
      /\ \A j \in 1 .. Len(q) - 1 : r[j] = q[IF j < k THEN j ELSE j + 1]
  BY RemoveAtElements
<1>2. Len(q) \in Nat /\ DOMAIN q = 1 .. Len(q) /\ k \in 1 .. Len(q) /\ DOMAIN r = 1 .. Len(q) - 1
  BY <1>1, LenProperties
<1> HIDE DEF r
<1>3. f \in [DOMAIN r -> DOMAIN q]
  BY <1>2
<1>4. /\ \A i, j \in DOMAIN r : i < j => f[i] < f[j]
      /\ \A i \in DOMAIN r : r[i] = q[f[i]]
  BY <1>1, <1>2
<1> HIDE DEF f
<1>5. Thinned(q, r)
  BY <1>3, <1>4 DEF Thinned
<1> QED
  BY <1>5 DEF r

LEMMA ThinnedDamaged ==
    ASSUME NEW S, NEW q \in Seq(S), NEW k \in DOMAIN q
    PROVE  Thinned(q, [q EXCEPT ![k] = Bad])
<1> DEFINE r == [q EXCEPT ![k] = Bad]
           f == [i \in DOMAIN q |-> i]
<1>1. /\ DOMAIN r = DOMAIN q
      /\ f \in [DOMAIN q -> DOMAIN q]
      /\ \A i, j \in DOMAIN q : i < j => f[i] < f[j]
      /\ \A i \in DOMAIN q : r[i] = q[f[i]] \/ r[i] = Bad
  OBVIOUS
<1> HIDE DEF f, r
<1>2. Thinned(q, r)
  BY <1>1 DEF Thinned
<1> QED
  BY <1>2 DEF r

LEMMA ThinnedElems ==
    ASSUME NEW q, NEW r, Thinned(q, r)
    PROVE  Elems(r) \subseteq Elems(q) \cup {Bad}
BY DEF Thinned, Elems

LEMMA ChainThinned ==
    ASSUME NEW R, NEW q, NEW r, Thinned(q, r), Chain(q, R), <<Bad, Bad>> \in R,
           \A x \in Elems(q) : <<x, Bad>> \in R /\ <<Bad, x>> \in R
    PROVE  Chain(r, R)
<1>1. PICK f \in [DOMAIN r -> DOMAIN q] :
        /\ \A i, j \in DOMAIN r : i < j => f[i] < f[j]
        /\ \A i \in DOMAIN r : r[i] = q[f[i]] \/ r[i] = Bad
  BY DEF Thinned
<1>2. \A i \in DOMAIN r : f[i] \in DOMAIN q /\ q[f[i]] \in Elems(q)
  BY DEF Elems
<1>3. ASSUME NEW i \in DOMAIN r, NEW j \in DOMAIN r, i < j
      PROVE  <<r[i], r[j]>> \in R
  <2>1. <<q[f[i]], q[f[j]]>> \in R
    BY <1>1, <1>2, <1>3 DEF Chain
  <2>2. /\ r[i] = q[f[i]] \/ r[i] = Bad
        /\ r[j] = q[f[j]] \/ r[j] = Bad
    BY <1>1
  <2>3. /\ <<q[f[i]], Bad>> \in R /\ <<Bad, q[f[j]]>> \in R
    BY <1>2
  <2> QED
    BY <2>1, <2>2, <2>3
<1> QED
  BY <1>3 DEF Chain

\* A datagram arrives; in order, it is the first one.
LEMMA ArrivesThinned ==
    ASSUME NEW S, NEW q \in Seq(S), NEW d, NEW r, Arrives(q, d, r)
    PROVE  Thinned(q, r) /\ r \in Seq(S) /\ d \in Elems(q) /\ d \in S /\ q # <<>>
<1>1. PICK i \in DOMAIN q : q[i] = d /\ r = RemoveAt(q, i)
  BY DEF Arrives, Arriving
<1>2. r \in Seq(S) /\ d \in S
  BY <1>1, RemoveAtType
<1>3. Thinned(q, r)
  BY <1>1, ThinnedRemoved
<1> QED
  BY <1>1, <1>2, <1>3 DEF Elems

LEMMA ArrivesFirst ==
    ASSUME InOrder, NEW S, NEW q \in Seq(S), NEW d, NEW r, Arrives(q, d, r), NEW R, Chain(q, R)
    PROVE  \A x \in Elems(r) : <<d, x>> \in R
<1>1. 1 \in DOMAIN q /\ q[1] = d /\ r = RemoveAt(q, 1)
  BY DEF Arrives, Arriving, InOrder
<1>2. /\ r \in Seq(S) /\ Len(r) = Len(q) - 1
      /\ \A j \in 1 .. Len(q) - 1 : r[j] = q[IF j < 1 THEN j ELSE j + 1]
  BY <1>1, RemoveAtElements
<1>3. Len(q) \in Nat /\ DOMAIN q = 1 .. Len(q) /\ DOMAIN r = 1 .. Len(q) - 1
  BY <1>2, LenProperties
<1>4. ASSUME NEW j \in DOMAIN r
      PROVE  <<d, r[j]>> \in R
  <2>1. r[j] = q[j + 1] /\ j + 1 \in DOMAIN q /\ 1 < j + 1
    BY <1>2, <1>3, <1>4
  <2> QED
    BY <1>1, <2>1 DEF Chain
<1> QED
  BY <1>4 DEF Elems

LEMMA SentElems ==
    ASSUME NEW S, NEW q \in Seq(S), NEW ds \in Seq(S)
    PROVE  Elems(Sent(q, ds)) \subseteq Elems(q) \cup Elems(ds)
<1> DEFINE r == Sent(q, ds)
<1>1. /\ r \in Seq(S) /\ Len(r) <= Len(q) + Len(ds)
      /\ \A j \in 1 .. Len(r) : r[j] = IF j <= Len(q) THEN q[j] ELSE ds[j - Len(q)]
  BY SentElements
<1>2. /\ Len(q) \in Nat /\ DOMAIN q = 1 .. Len(q) /\ Len(ds) \in Nat /\ DOMAIN ds = 1 .. Len(ds)
      /\ Len(r) \in Nat /\ DOMAIN r = 1 .. Len(r)
  BY <1>1, LenProperties
<1> HIDE DEF r
<1>3. ASSUME NEW j \in DOMAIN r
      PROVE  r[j] \in Elems(q) \cup Elems(ds)
  <2>1. CASE j <= Len(q)
    <3>1. j \in DOMAIN q /\ r[j] = q[j]
      BY <1>1, <1>2, <2>1
    <3> QED
      BY <3>1 DEF Elems
  <2>2. CASE ~ (j <= Len(q))
    <3>1. j - Len(q) \in DOMAIN ds /\ r[j] = ds[j - Len(q)]
      BY <1>1, <1>2, <2>2
    <3> QED
      BY <3>1 DEF Elems
  <2> QED
    BY <2>1, <2>2
<1>4. Elems(r) \subseteq Elems(q) \cup Elems(ds)
  BY <1>3 DEF Elems
<1> QED
  BY <1>4 DEF r

LEMMA OneElem == \A d : Elems(<<d>>) = {d}
<1> SUFFICES ASSUME NEW d PROVE Elems(<<d>>) = {d}
  OBVIOUS
<1>1. DOMAIN <<d>> = {1} /\ <<d>>[1] = d
  OBVIOUS
<1> QED
  BY <1>1 DEF Elems

LEMMA SeqElems == \A S : \A q \in Seq(S) : Elems(q) \subseteq S
BY ElementOfSeq, LenProperties DEF Elems

\* One datagram is sent behind those of q.
LEMMA ChainOneSent ==
    ASSUME NEW S, NEW R, NEW q \in Seq(S), NEW d \in S, Chain(q, R),
           \A x \in Elems(q) : <<x, d>> \in R
    PROVE  Chain(Sent(q, <<d>>), R) /\ Elems(Sent(q, <<d>>)) \subseteq Elems(q) \cup {d}
<1>1. <<d>> \in Seq(S) /\ DOMAIN <<d>> = {1} /\ <<d>>[1] = d
  OBVIOUS
<1>2. Chain(<<d>>, R)
  BY <1>1 DEF Chain
<1>3. \A i \in DOMAIN q, j \in DOMAIN <<d>> : <<q[i], <<d>>[j]>> \in R
  BY <1>1 DEF Elems
<1>4. Chain(Sent(q, <<d>>), R)
  BY <1>1, <1>2, <1>3, ChainSent
<1> QED
  BY <1>1, <1>4, SentElems, OneElem

-----------------------------------------------------------------------------
(***************************************************************************)
(* The ACKs on their way to the server, over a path that does not reorder: *)
(* counted from base, each says as much as those before it.                *)
(***************************************************************************)
\* What the server takes ACK a for, with base at b.
Says(b, a) == b + Ahead(b, a.seq)

InTurn(b) ==
    {t \in OpenUp \X OpenUp : IsAck(t[1]) /\ IsAck(t[2]) => Says(b, t[1]) <= Says(b, t[2])}
NoGetAfter == {t \in OpenUp \X OpenUp : IsAck(t[1]) => ~ IsGet(t[2])}

\* The ACKs in queue q and channel u, none of which says more than e.
AcksOrdered(b, e, q, u) ==
    /\ \A x \in Elems(q) \cup Elems(u) : IsAck(x) => Says(b, x) <= e
    /\ Chain(q, InTurn(b)) /\ Chain(u, InTurn(b))
    /\ \A x \in Elems(q), y \in Elems(u) : <<x, y>> \in InTurn(b)

LEMMA AheadShift ==
    ASSUME NEW b \in Nat, NEW c \in Nat, NEW s \in SeqNums, b <= c, c <= b + Ahead(b, s)
    PROVE  c + Ahead(c, s) = b + Ahead(b, s)
<1> DEFINE q == (s - b) \div SeqCount
           h == (s - b) % SeqCount
<1>1. s \in Int /\ q \in Int /\ h \in SeqNums /\ s - b = q * SeqCount + h
  BY NumbersType DEF SeqNums
<1>2. h = Ahead(b, s)
  BY DEF Ahead
<1> DEFINE m == q * SeqCount
<1>3. m \in Int /\ s - b = m + h
  BY <1>1, NumbersType
<1> HIDE DEF h, m
<1>4. h - (c - b) \in SeqNums /\ s - c = m + (h - (c - b)) /\ s - c \in Int
  <2>1. h \in 0 .. SeqCount - 1 /\ s \in Int /\ c <= b + h
    BY <1>1, <1>2 DEF SeqNums
  <2>2. SeqCount \in Nat
    BY NumbersType
  <2> QED
    BY <1>3, <2>1, <2>2 DEF SeqNums
<1> DEFINE g == h - (c - b)
           x == s - c
<1>5. g \in SeqNums /\ x \in Int /\ x = q * SeqCount + g
  BY <1>4 DEF m
<1> HIDE DEF g, x, q
<1>6. x % SeqCount = g
  BY <1>1, <1>5, ModUnique
<1>7. Ahead(c, s) = g
  BY <1>6 DEF Ahead, x
<1>8. h \in Int /\ c + (h - (c - b)) = b + h
  BY <1>1, NumbersType DEF SeqNums
<1>9. c + g = b + h
  BY <1>8 DEF g
<1> QED
  BY <1>2, <1>7, <1>9

LEMMA SaysNew ==
    ASSUME NEW b \in Nat, NEW e \in Nat, b <= e, e - b < SeqCount, NEW w
    PROVE  Says(b, Ack(e % SeqCount, w)) = e
<1>1. b - e < SeqCount /\ e >= b
  BY NumbersType
<1>2. Ahead(b, e % SeqCount) = e - b
  BY <1>1, AheadExact
<1> QED
  BY <1>2 DEF Says, Ack

LEMMA UpTypes ==
    /\ Bad \in OpenUp /\ ~ IsAck(Bad) /\ ~ IsGet(Bad) /\ ~ IsData(Bad) /\ ~ Refused(Bad)
    /\ Get \in OpenUp /\ ~ IsAck(Get) /\ IsGet(Get)
    /\ CutGet \in OpenUp /\ ~ IsAck(CutGet) /\ IsGet(CutGet)
    /\ \A a \in OpenAcks : a \in OpenUp /\ IsAck(a) /\ ~ IsGet(a) /\ a.seq \in SeqNums
    /\ \A d \in OpenUp : IsAck(d) => d \in OpenAcks
BY DEF OpenUp, OpenAcks, Bad, Get, CutGet, NoFile, Data, IsAck, IsGet, IsData, Refused

LEMMA SaysType == ASSUME NEW b \in Nat, NEW a \in OpenAcks PROVE Says(b, a) \in Nat /\ b <= Says(b, a)
<1>1. Ahead(b, a.seq) \in Nat
  BY UpTypes, AheadType
<1> QED
  BY <1>1 DEF Says

\* A server that has confirmed more reads the same in the ACKs that say so.
LEMMA AcksShift ==
    ASSUME NEW b \in Nat, NEW c \in Nat, b <= c, NEW e, NEW q \in Seq(OpenAcks), NEW u \in Seq(OpenUp),
           AcksOrdered(b, e, q, u),
           \A x \in Elems(q) \cup Elems(u) : IsAck(x) => c <= Says(b, x)
    PROVE  AcksOrdered(c, e, q, u)
<1> DEFINE D == Elems(q) \cup Elems(u)
<1>1. \A x \in D : x \in OpenUp
  BY SeqElems, UpTypes
<1>2. ASSUME NEW x \in D, IsAck(x)
      PROVE  Says(c, x) = Says(b, x)
  <2>1. x.seq \in SeqNums
    BY <1>1, <1>2, UpTypes
  <2>2. c <= Says(b, x)
    BY <1>2
  <2> QED
    BY <2>1, <2>2, AheadShift DEF Says
<1>3. \A x, y \in D : <<x, y>> \in InTurn(b) => <<x, y>> \in InTurn(c)
  BY <1>2 DEF InTurn
<1>4. /\ \A i \in DOMAIN q : q[i] \in D
      /\ \A i \in DOMAIN u : u[i] \in D
  BY DEF Elems
<1>5. Chain(q, InTurn(c)) /\ Chain(u, InTurn(c))
  BY <1>3, <1>4 DEF Chain, AcksOrdered
<1>6. \A x \in Elems(q), y \in Elems(u) : <<x, y>> \in InTurn(c)
  BY <1>3 DEF AcksOrdered
<1>7. \A x \in D : IsAck(x) => Says(c, x) <= e
  BY <1>2 DEF AcksOrdered
<1> QED
  BY <1>5, <1>6, <1>7 DEF AcksOrdered

LEMMA BadInTurn ==
    ASSUME NEW b, NEW x \in OpenUp
    PROVE  <<x, Bad>> \in InTurn(b) /\ <<Bad, x>> \in InTurn(b) /\ <<x, Bad>> \in NoGetAfter
           /\ <<Bad, x>> \in NoGetAfter
BY UpTypes DEF InTurn, NoGetAfter

LEMMA AcksThinned ==
    ASSUME NEW b, NEW e, NEW q \in Seq(OpenAcks), NEW u \in Seq(OpenUp), AcksOrdered(b, e, q, u),
           NEW r, Thinned(u, r)
    PROVE  AcksOrdered(b, e, q, r)
<1>1. Elems(r) \subseteq Elems(u) \cup {Bad} /\ Elems(u) \subseteq OpenUp /\ Elems(q) \subseteq OpenUp
  BY ThinnedElems, SeqElems, UpTypes
<1>2. Chain(r, InTurn(b))
  BY <1>1, BadInTurn, UpTypes, ChainThinned DEF AcksOrdered
<1>3. \A x \in Elems(q), y \in Elems(r) : <<x, y>> \in InTurn(b)
  BY <1>1, BadInTurn DEF AcksOrdered
<1>4. \A x \in Elems(q) \cup Elems(r) : IsAck(x) => Says(b, x) <= e
  BY <1>1, UpTypes DEF AcksOrdered
<1> QED
  BY <1>2, <1>3, <1>4 DEF AcksOrdered

LEMMA GetsThinned ==
    ASSUME NEW u \in Seq(OpenUp), Chain(u, NoGetAfter), NEW r, Thinned(u, r)
    PROVE  Chain(r, NoGetAfter)
<1>1. Elems(u) \subseteq OpenUp
  BY SeqElems
<1> QED
  BY <1>1, BadInTurn, UpTypes, ChainThinned

LEMMA AcksGrow ==
    ASSUME NEW b \in Nat, NEW e \in Nat, NEW f \in Nat, e <= f,
           NEW q \in Seq(OpenAcks), NEW u \in Seq(OpenUp), AcksOrdered(b, e, q, u)
    PROVE  AcksOrdered(b, f, q, u)
<1>1. \A x \in Elems(q) \cup Elems(u) : x \in OpenUp
  BY SeqElems, UpTypes
<1>2. ASSUME NEW x \in Elems(q) \cup Elems(u), IsAck(x)
      PROVE  Says(b, x) <= f
  <2>1. Says(b, x) \in Nat /\ Says(b, x) <= e
    BY <1>1, <1>2, UpTypes, SaysType DEF AcksOrdered
  <2> QED
    BY <2>1
<1> QED
  BY <1>2 DEF AcksOrdered

\* The ACK of what is expected goes behind the others.
LEMMA AcksSent ==
    ASSUME NEW b \in Nat, NEW e \in Nat, NEW q \in Seq(OpenAcks), NEW u \in Seq(OpenUp),
           AcksOrdered(b, e, q, u), NEW a \in OpenAcks, Says(b, a) = e
    PROVE  AcksOrdered(b, e, q, Sent(u, <<a>>))
<1> DEFINE r == Sent(u, <<a>>)
<1>1. Elems(u) \subseteq OpenUp /\ Elems(q) \subseteq OpenUp /\ a \in OpenUp /\ IsAck(a)
  BY SeqElems, UpTypes
<1>2. \A x \in Elems(q) \cup Elems(u) : <<x, a>> \in InTurn(b)
  BY <1>1 DEF AcksOrdered, InTurn
<1>3. Chain(r, InTurn(b)) /\ Elems(r) \subseteq Elems(u) \cup {a}
  BY <1>1, <1>2, ChainOneSent DEF AcksOrdered
<1> HIDE DEF r
<1>4. \A x \in Elems(q), y \in Elems(r) : <<x, y>> \in InTurn(b)
  BY <1>2, <1>3 DEF AcksOrdered
<1>5. \A x \in Elems(q) \cup Elems(r) : IsAck(x) => Says(b, x) <= e
  BY <1>3 DEF AcksOrdered
<1>6. AcksOrdered(b, e, q, r)
  BY <1>3, <1>4, <1>5 DEF AcksOrdered
<1> QED
  BY <1>6 DEF r

LEMMA NoAcksOrdered ==
    ASSUME NEW b, NEW e, NEW u \in Seq(OpenUp), \A x \in Elems(u) : ~ IsAck(x)
    PROVE  AcksOrdered(b, e, <<>>, u)
<1>1. Elems(u) \subseteq OpenUp /\ Elems(<<>>) = {}
  BY SeqElems DEF Elems
<1>2. \A x, y \in Elems(u) : <<x, y>> \in InTurn(b)
  BY <1>1 DEF InTurn
<1>3. Chain(<<>>, InTurn(b)) /\ Chain(u, InTurn(b))
  BY <1>2 DEF Chain, Elems
<1> QED
  BY <1>1, <1>3 DEF AcksOrdered

\* The main thread of G12 moves the first ACK to the queue.
LEMMA AcksQueued ==
    ASSUME InOrder, NEW b, NEW e, NEW q \in Seq(OpenAcks), NEW u \in Seq(OpenUp),
           AcksOrdered(b, e, q, u), NEW d, NEW r, Arrives(u, d, r), IsAck(d)
    PROVE  AcksOrdered(b, e, Append(q, d), r)
<1>1. Thinned(u, r) /\ d \in Elems(u) /\ d \in OpenUp /\ d \in OpenAcks
  BY ArrivesThinned, UpTypes
<1>2. AcksOrdered(b, e, q, r)
  BY <1>1, AcksThinned
<1>3. \A x \in Elems(r) : <<d, x>> \in InTurn(b)
  BY ArrivesFirst DEF AcksOrdered
<1>4. \A x \in Elems(q) : <<x, d>> \in InTurn(b)
  BY <1>1 DEF AcksOrdered
<1> DEFINE p == Append(q, d)
<1>5. /\ Len(q) \in Nat /\ DOMAIN q = 1 .. Len(q) /\ DOMAIN p = 1 .. Len(q) + 1
      /\ \A i \in 1 .. Len(q) : p[i] = q[i]
      /\ p[Len(q) + 1] = d
  BY <1>1, AppendProperties, LenProperties
<1> HIDE DEF p
<1>6. Elems(p) \subseteq Elems(q) \cup {d}
  <2>1. ASSUME NEW i \in DOMAIN p
        PROVE  p[i] \in Elems(q) \cup {d}
    <3>1. i \in DOMAIN q \/ i = Len(q) + 1
      BY <1>5, <2>1
    <3> QED
      BY <1>5, <3>1 DEF Elems
  <2> QED
    BY <2>1 DEF Elems
<1>7. Chain(p, InTurn(b))
  <2>1. ASSUME NEW i \in DOMAIN p, NEW j \in DOMAIN p, i < j
        PROVE  <<p[i], p[j]>> \in InTurn(b)
    <3>1. i \in DOMAIN q /\ p[i] = q[i] /\ p[i] \in Elems(q)
      <4>1. i \in 1 .. Len(q)
        BY <1>5, <2>1
      <4> QED
        BY <1>5, <4>1 DEF Elems
    <3>2. CASE j \in 1 .. Len(q)
      <4>1. j \in DOMAIN q /\ p[j] = q[j]
        BY <1>5, <3>2
      <4> QED
        BY <2>1, <3>1, <4>1 DEF AcksOrdered, Chain
    <3>3. CASE j \notin 1 .. Len(q)
      <4>1. p[j] = d
        BY <1>5, <3>3
      <4> QED
        BY <1>4, <3>1, <4>1
    <3> QED
      BY <3>2, <3>3
  <2> QED
    BY <2>1 DEF Chain
<1>8. \A x \in Elems(p), y \in Elems(r) : <<x, y>> \in InTurn(b)
  BY <1>2, <1>3, <1>6 DEF AcksOrdered
<1>9. \A x \in Elems(p) \cup Elems(r) : IsAck(x) => Says(b, x) <= e
  BY <1>1, <1>2, <1>6 DEF AcksOrdered
<1>10. AcksOrdered(b, e, p, r)
  BY <1>2, <1>7, <1>8, <1>9 DEF AcksOrdered
<1> QED
  BY <1>10 DEF p

\* An ACK is taken: those left say as much, counted from what it confirms.
LEMMA AcksTaken ==
    ASSUME InOrder, NEW b \in Nat, NEW e \in Nat, NEW u \in Seq(OpenUp),
           AcksOrdered(b, e, <<>>, u), NEW a, NEW r, Arrives(u, a, r), IsAck(a)
    PROVE  /\ Says(b, a) \in Nat /\ b <= Says(b, a) /\ Says(b, a) <= e
           /\ \A c \in Nat : b <= c /\ c <= Says(b, a) => AcksOrdered(c, e, <<>>, r)
<1>1. /\ Thinned(u, r) /\ a \in Elems(u) /\ a \in OpenAcks /\ r \in Seq(OpenUp)
      /\ <<>> \in Seq(OpenAcks)
  BY ArrivesThinned, UpTypes
<1>2. Says(b, a) \in Nat /\ b <= Says(b, a) /\ Says(b, a) <= e
  BY <1>1, SaysType DEF AcksOrdered
<1>3. AcksOrdered(b, e, <<>>, r)
  BY <1>1, AcksThinned
<1>4. \A x \in Elems(r) : <<a, x>> \in InTurn(b)
  BY ArrivesFirst DEF AcksOrdered
<1>5. ASSUME NEW c \in Nat, b <= c, c <= Says(b, a)
      PROVE  AcksOrdered(c, e, <<>>, r)
  <2>1. Elems(<<>>) = {} /\ Elems(r) \subseteq OpenUp
    BY <1>1, SeqElems DEF Elems
  <2>2. ASSUME NEW x \in Elems(r), IsAck(x)
        PROVE  c <= Says(b, x)
    <3>1. Says(b, a) <= Says(b, x)
      BY <1>4, <2>2 DEF InTurn
    <3>2. Says(b, x) \in Nat
      BY <2>1, <2>2, UpTypes, SaysType
    <3> QED
      BY <1>2, <1>5, <3>1, <3>2
  <2> QED
    BY <1>1, <1>3, <1>5, <2>1, <2>2, AcksShift
<1> QED
  BY <1>2, <1>5

LEMMA QueueAcksTaken ==
    ASSUME NEW b \in Nat, NEW e \in Nat, NEW q \in Seq(OpenAcks), q # <<>>, NEW u \in Seq(OpenUp),
           AcksOrdered(b, e, q, u)
    PROVE  /\ Says(b, Head(q)) \in Nat /\ b <= Says(b, Head(q)) /\ Says(b, Head(q)) <= e
           /\ \A c \in Nat : b <= c /\ c <= Says(b, Head(q)) => AcksOrdered(c, e, Tail(q), u)
<1> DEFINE a == Head(q)
           r == Tail(q)
<1>1. /\ Len(q) \in Nat /\ Len(q) >= 1 /\ DOMAIN q = 1 .. Len(q) /\ a = q[1]
      /\ r \in Seq(OpenAcks) /\ DOMAIN r = 1 .. Len(q) - 1
      /\ \A i \in 1 .. Len(q) - 1 : r[i] = q[i + 1]
  BY HeadTailProperties, LenProperties, EmptySeq
<1> HIDE DEF a, r
<1>2. 1 \in DOMAIN q /\ a \in Elems(q) /\ a \in OpenAcks
  <2>1. 1 \in DOMAIN q /\ a = q[1]
    BY <1>1
  <2>2. a \in Elems(q)
    BY <2>1 DEF Elems
  <2>3. Elems(q) \subseteq OpenAcks
    BY SeqElems
  <2> QED
    BY <2>1, <2>2, <2>3
<1>3. \A i \in DOMAIN r : i + 1 \in DOMAIN q /\ r[i] = q[i + 1] /\ i \in Int
  BY <1>1
<1>4. Elems(r) \subseteq Elems(q)
  BY <1>3 DEF Elems
<1>5. Says(b, a) \in Nat /\ b <= Says(b, a) /\ Says(b, a) <= e
  BY <1>2, UpTypes, SaysType DEF AcksOrdered
<1>6. \A x \in Elems(r) : <<a, x>> \in InTurn(b)
  <2>1. ASSUME NEW i \in DOMAIN r
        PROVE  <<a, r[i]>> \in InTurn(b)
    <3>1. 1 < i + 1
      BY <1>1, <2>1
    <3> QED
      BY <1>1, <1>2, <1>3, <2>1, <3>1 DEF AcksOrdered, Chain
  <2> QED
    BY <2>1 DEF Elems
<1>7. \A y \in Elems(u) : <<a, y>> \in InTurn(b)
  BY <1>2 DEF AcksOrdered
<1>8. Chain(r, InTurn(b))
  <2>1. ASSUME NEW i \in DOMAIN r, NEW j \in DOMAIN r, i < j
        PROVE  <<r[i], r[j]>> \in InTurn(b)
    <3>1. i + 1 < j + 1 /\ i + 1 \in DOMAIN q /\ j + 1 \in DOMAIN q
      BY <1>3, <2>1
    <3> QED
      BY <1>3, <2>1, <3>1 DEF AcksOrdered, Chain
  <2> QED
    BY <2>1 DEF Chain
<1>9. AcksOrdered(b, e, r, u)
  BY <1>4, <1>8 DEF AcksOrdered
<1>10. ASSUME NEW c \in Nat, b <= c, c <= Says(b, a)
      PROVE  AcksOrdered(c, e, r, u)
  <2>1. Elems(r) \subseteq OpenUp /\ Elems(u) \subseteq OpenUp
    BY <1>1, SeqElems, UpTypes
  <2>2. ASSUME NEW x \in Elems(r) \cup Elems(u), IsAck(x)
        PROVE  c <= Says(b, x)
    <3>1. Says(b, a) <= Says(b, x)
      BY <1>2, <1>6, <1>7, <2>2, UpTypes DEF InTurn
    <3>2. Says(b, x) \in Nat
      BY <2>1, <2>2, UpTypes, SaysType
    <3> QED
      BY <1>5, <1>10, <3>1, <3>2
  <2> QED
    BY <1>1, <1>9, <1>10, <2>2, AcksShift
<1> QED
  BY <1>5, <1>10 DEF a, r

-----------------------------------------------------------------------------
(***************************************************************************)
(* The packets on their way to the client, over such a path: each is less  *)
(* than a window ahead of those behind it, and near the one expected.      *)
(***************************************************************************)
Near ==
    {t \in FileDatagrams \X FileDatagrams :
       IsData(t[1]) /\ IsData(t[2]) => Number(t[1]) < Number(t[2]) + RecvWindow}

\* What a packet a on its way is to a client that expects e and holds held.
InReach(e, held, a) ==
    /\ a < e + RecvWindow /\ e <= a + RecvWindow
    /\ \A k \in held : k < a + RecvWindow
    /\ a = Chunks /\ setup.server # "G12" => e = Chunks

DataOrdered(e, held, q) ==
    Chain(q, Near) /\ \A x \in Elems(q) : IsData(x) => InReach(e, held, Number(x))

LEMMA DownTypes ==
    ASSUME PathInv
    PROVE  /\ Bad \in FileDatagrams
           /\ \A d \in FileDatagrams : IsData(d) => Number(d) \in 0 .. Chunks /\ d = Packet(Number(d))
           /\ \A d \in Replies : ~ IsData(d) /\ ~ Refused(d)
           /\ \A a \in 0 .. Chunks : Number(Packet(a)) = a
           /\ setup.server = "G12" => \A d \in FileDatagrams : ~ IsAck(d)
<1>1. Bad \in FileDatagrams
  BY DEF FileDatagrams, Carries
<1>2. \A d \in FileDatagrams : IsData(d) => Number(d) \in 0 .. Chunks /\ d = Packet(Number(d))
  BY PacketOfFile
<1>3. \A d \in Replies : ~ IsData(d) /\ ~ Refused(d)
  BY DEF Replies, GetReply, Ack, NoFile, Data, IsData, Refused
<1>4. \A a \in 0 .. Chunks : Number(Packet(a)) = a
  BY NumberOfPacket
<1>5. setup.server = "G12" => \A d \in FileDatagrams : ~ IsAck(d)
  BY DEF FileDatagrams, Carries, Replies, Refusals, NoFile, PacketsOf, Packet, Data, Bad, IsAck
<1> QED
  BY <1>1, <1>2, <1>3, <1>4, <1>5

LEMMA DataThinned ==
    ASSUME PathInv, NEW e, NEW held, NEW q \in Seq(FileDatagrams), DataOrdered(e, held, q),
           NEW r, Thinned(q, r)
    PROVE  DataOrdered(e, held, r)
<1>1. Elems(r) \subseteq Elems(q) \cup {Bad} /\ Elems(q) \subseteq FileDatagrams
  BY ThinnedElems, SeqElems
<1>2. \A x \in FileDatagrams : <<x, Bad>> \in Near /\ <<Bad, x>> \in Near
  BY DownTypes, UpTypes DEF Near
<1>3. Chain(r, Near)
  BY <1>1, <1>2, DownTypes, ChainThinned DEF DataOrdered
<1>4. \A x \in Elems(r) : IsData(x) => InReach(e, held, Number(x))
  BY <1>1, UpTypes DEF DataOrdered
<1> QED
  BY <1>3, <1>4 DEF DataOrdered

\* The first packet is kept: those behind it are near what is expected then.
LEMMA DataKept ==
    ASSUME PathInv, InOrder, NEW e \in Nat, NEW held \in SUBSET Nat, NEW q \in Seq(FileDatagrams),
           DataOrdered(e, held, q), NEW d, NEW r, Arrives(q, d, r), IsData(d),
           NEW f \in Nat, e <= f, f <= Chunks, \A i \in e .. f - 1 : i \in held \cup {Number(d)},
           NEW more, \A k \in more : k \in held \cup {Number(d)}
    PROVE  DataOrdered(f, more, r)
<1> DEFINE a == Number(d)
<1>1. /\ Thinned(q, r) /\ d \in FileDatagrams /\ r \in Seq(FileDatagrams) /\ Chunks \in Nat
      /\ Elems(r) \subseteq FileDatagrams
  BY ArrivesThinned, SeqElems, ChunksType
<1>2. a \in 0 .. Chunks
  BY <1>1, DownTypes
<1>3. DataOrdered(e, held, r)
  BY <1>1, DataThinned
<1>4. \A x \in Elems(r) : <<d, x>> \in Near
  BY ArrivesFirst DEF DataOrdered
<1>5. ASSUME NEW x \in Elems(r), IsData(x)
      PROVE  InReach(f, more, Number(x))
  <2> DEFINE c == Number(x)
  <2>1. c \in Nat /\ a < c + RecvWindow
    <3>1. c \in 0 .. Chunks
      BY <1>1, <1>5, DownTypes
    <3>2. <<d, x>> \in Near
      BY <1>4, <1>5
    <3> QED
      BY <1>1, <1>5, <3>1, <3>2 DEF Near
  <2>2. /\ c < e + RecvWindow /\ e <= c + RecvWindow
        /\ \A k \in held : k < c + RecvWindow
        /\ c = Chunks /\ setup.server # "G12" => e = Chunks
    BY <1>3, <1>5 DEF DataOrdered, InReach
  <2> HIDE DEF a, c
  <2>3. \A k \in held \cup {a} : k < c + RecvWindow
    BY <2>1, <2>2
  <2>4. f <= c + RecvWindow
    <3>1. CASE f = e
      BY <2>2, <3>1
    <3>2. CASE f # e
      <4>1. f - 1 \in e .. f - 1
        BY <3>2
      <4>2. f - 1 < c + RecvWindow
        BY <2>3, <4>1 DEF a
      <4> QED
        BY <2>1, <4>2, NumbersType
    <3> QED
      BY <3>1, <3>2
  <2>5. c < f + RecvWindow
    BY <2>1, <2>2, NumbersType
  <2>6. c = Chunks /\ setup.server # "G12" => f = Chunks
    BY <1>1, <2>2
  <2>7. \A k \in more : k < c + RecvWindow
    BY <2>3 DEF a
  <2> QED
    BY <2>4, <2>5, <2>6, <2>7 DEF InReach, c
<1> QED
  BY <1>3, <1>5 DEF DataOrdered

\* The packets in S are sent behind those of down.
LEMMA DataSent ==
    ASSUME PathInv, NEW e, NEW held, down \in Seq(FileDatagrams), DataOrdered(e, held, down),
           NEW S \in SUBSET (0 .. Chunks), Sends(S),
           \A x \in S : InReach(e, held, x),
           \A x \in S, y \in S : y < x + RecvWindow,
           \A x \in S, d \in Elems(down) : IsData(d) => Number(d) < x + RecvWindow
    PROVE  /\ DataOrdered(e, held, down')
           /\ \A d \in Elems(down') : IsData(d) => d \in Elems(down) \/ Number(d) \in S
<1>1. PICK ds \in Seq(Replies \cup PacketsOf(S)) : down' = Sent(down, ds)
  BY DEF Sends
<1>2. Replies \cup PacketsOf(S) \subseteq FileDatagrams
  BY DEF FileDatagrams, Carries, PacketsOf
<1>3. ds \in Seq(FileDatagrams) /\ Elems(ds) \subseteq Replies \cup PacketsOf(S)
  BY <1>2, SeqInto, ElementOfSeq, SeqElems
<1>4. \A x \in Elems(ds) : x \in FileDatagrams /\ (IsData(x) => Number(x) \in S)
  <2>1. ASSUME NEW x \in Elems(ds), IsData(x)
        PROVE  Number(x) \in S
    <3>1. x \in PacketsOf(S)
      BY <1>3, <2>1, DownTypes
    <3>2. PICK a \in S : x = Packet(a)
      BY <3>1 DEF PacketsOf
    <3> QED
      BY <3>2, DownTypes
  <2> QED
    BY <1>2, <1>3, <2>1
<1>5. Elems(down) \subseteq FileDatagrams
  BY SeqElems
<1>6. \A x \in Elems(ds), y \in Elems(ds) : <<x, y>> \in Near
  BY <1>4 DEF Near
<1>7. \A x \in Elems(down), y \in Elems(ds) : <<x, y>> \in Near
  BY <1>4, <1>5 DEF Near
<1>8. Chain(ds, Near) /\ \A i \in DOMAIN down, j \in DOMAIN ds : <<down[i], ds[j]>> \in Near
  BY <1>6, <1>7 DEF Chain, Elems
<1>9. Chain(down', Near)
  BY <1>1, <1>3, <1>8, ChainSent DEF DataOrdered
<1>10. Elems(down') \subseteq Elems(down) \cup Elems(ds)
  BY <1>1, <1>3, SentElems
<1>11. \A x \in Elems(down') : IsData(x) => InReach(e, held, Number(x))
  BY <1>4, <1>10 DEF DataOrdered
<1> QED
  BY <1>4, <1>9, <1>10, <1>11 DEF DataOrdered

\* The empty packet is sent when all is expected.
LEMMA EndSent ==
    ASSUME PathInv, NEW held, held \subseteq 0 .. Chunks - 1, down \in Seq(FileDatagrams),
           DataOrdered(Chunks, held, down), Sends({Chunks})
    PROVE  DataOrdered(Chunks, held, down')
<1>1. Chunks \in Nat
  BY ChunksType
<1>2. InReach(Chunks, held, Chunks)
  BY <1>1, NumbersType DEF InReach
<1>3. \A d \in Elems(down) : IsData(d) => Number(d) < Chunks + RecvWindow
  <2>1. \A d \in Elems(down) : IsData(d) => Number(d) \in 0 .. Chunks
    BY SeqElems, DownTypes
  <2> QED
    BY <1>1, <2>1, NumbersType
<1>4. Chunks < Chunks + RecvWindow /\ {Chunks} \in SUBSET (0 .. Chunks)
  BY <1>1, NumbersType
<1> QED
  BY <1>2, <1>3, <1>4, DataSent

-----------------------------------------------------------------------------
(***************************************************************************)
(* The invariant of a transfer over a path that does not reorder.  The     *)
(* conjuncts of LiveInv hold until the client has read the end.            *)
(***************************************************************************)
\* Nothing has been received, and nothing acknowledged.
StartInv ==
    status \in {"asking", "failed"} =>
      /\ expected = 0 /\ DOMAIN buffer = {} /\ queue = <<>> /\ base = 0
      /\ \A x \in Elems(up) : ~ IsAck(x)

\* The GETs are before the ACKs.
GetInv ==
    /\ Chain(up, NoGetAfter)
    /\ (\E x \in Elems(up) : IsGet(x)) => queue = <<>> /\ base = 0

\* Nothing is confirmed, or said to be, that is still expected.
AckInv ==
    /\ base <= expected
    /\ serving = "sending" /\ Limit > 0 => AcksOrdered(base, expected, queue, up)

\* Nothing is received, or on its way, that has not been sent.
NextInv ==
    serving # "idle" =>
      /\ expected <= next_seq /\ DOMAIN buffer \subseteq 0 .. next_seq - 1
      /\ in_flight \subseteq base .. next_seq - 1
      /\ serving = "sending" /\ Chunks > 0 =>
           \A x \in Elems(down) : IsData(x) => Number(x) < next_seq

DataInv == DataOrdered(expected, DOMAIN buffer, down)

\* The answer to a GET that was cut arrives before any packet of the file, or
\* when all is received: its number, 0, is the one expected.
NotBehindData ==
    {t \in FileDatagrams \X FileDatagrams : IsData(t[1]) => ~ Refused(t[2])}
RefusedInv ==
    (\E x \in Elems(down) : Refused(x)) =>
      \/ expected = Chunks /\ Chunks % SeqCount = 0
      \/ expected = 0 /\ Chain(down, NotBehindData)

\* A server in its main loop has not been asked, or only by GETs that were cut,
\* or has sent all.
IdleInv ==
    serving = "idle" =>
      \/ down = <<>> /\ status \in {"asking", "failed"}
      \/ /\ GetsCut /\ expected = 0 /\ DOMAIN buffer = {}
         /\ \A x \in Elems(down) : ~ IsData(x)
         /\ \A x \in Elems(up) : ~ IsAck(x)
      \/ /\ setup.server # "G12" /\ expected = Chunks
         /\ Chunks > 0 => \A x \in Elems(up) : ~ IsGet(x)

OverInv == serving = "over" => setup.chunks = Missing

LiveInv ==
    StartInv /\ GetInv /\ AckInv /\ NextInv /\ DataInv /\ RefusedInv /\ IdleInv /\ OverInv

HeldOrder == expected <= Chunks /\ DOMAIN buffer \subseteq 0 .. Chunks - 1
AskInv == setup.client = "G3" /\ setup.server = "G12" => status \in {"asking", "failed"}
QueueInv == setup.server # "G12" => queue = <<>>

\* What is missing when the client ends.
EndInv ==
    /\ ~ EndOvertakes /\ ~ GetsCut /\ status = "complete" => expected = Chunks
    /\ "silence" \notin setup.faults /\ ~ GetsCut /\ status = "gaveup" => expected = Chunks
    /\ EndOvertakes /\ status = "complete" => Chunks < expected + RecvWindow
    /\ GetsCut /\ status = "complete" => expected \in {0, Chunks}
    /\ "silence" \notin setup.faults /\ status = "gaveup" => expected \in {0, Chunks}

Ordered == HeldOrder /\ AskInv /\ QueueInv /\ EndInv /\ (status # "complete" => LiveInv)
OrderInv == InOrder => Ordered

LEMMA SameNumber ==
    ASSUME UNCHANGED setup
    PROVE  /\ Chunks' = Chunks /\ Limit' = Limit /\ Near' = Near
           /\ \A d : Number(d)' = Number(d) /\ (IsData(d)' <=> IsData(d))
           /\ EndOvertakes' = EndOvertakes /\ GetsCut' = GetsCut
           /\ NotBehindData' = NotBehindData
<1>1. Chunks' = Chunks /\ Limit' = Limit
  BY SetupKeeps
<1>2. \A d : Number(d)' = Number(d)
  BY <1>1 DEF Number
<1>3. FileDatagrams' = FileDatagrams
  BY SameDatagrams
<1>5. EndOvertakes' = EndOvertakes /\ GetsCut' = GetsCut
  BY DEF EndOvertakes, GetsCut
<1>6. \A d : (IsData(d)' <=> IsData(d)) /\ (Refused(d)' <=> Refused(d))
  BY <1>5 DEF IsData, Refused
<1>4. Near' = Near
  BY <1>2, <1>3, <1>6 DEF Near
<1>7. NotBehindData' = NotBehindData
  BY <1>3, <1>6 DEF NotBehindData
<1> QED
  BY <1>1, <1>2, <1>4, <1>5, <1>6, <1>7

LEMMA DataPrimed ==
    ASSUME UNCHANGED setup, DataOrdered(expected', DOMAIN buffer', down')
    PROVE  DataInv'
BY SameNumber DEF DataInv, DataOrdered, InReach

LEMMA RefusedPrimed ==
    ASSUME UNCHANGED setup,
           \/ \A x \in Elems(down') : ~ Refused(x)
           \/ expected' = Chunks /\ Chunks % SeqCount = 0
           \/ expected' = 0 /\ Chain(down', NotBehindData)
    PROVE  RefusedInv'
<1>1. \A d : Refused(d)' <=> Refused(d)
  BY SameNumber DEF Refused
<1> QED
  BY <1>1, SameNumber DEF RefusedInv

\* The facts that the steps need.
Facts ==
    /\ PathInv /\ Chunks \in Nat /\ Limit \in Nat
    /\ Limit = IF setup.server = "G12" THEN Chunks + 1 ELSE Chunks
    /\ expected \in Nat /\ DOMAIN buffer \subseteq AheadOf(expected) /\ DOMAIN buffer \in SUBSET Nat
    /\ base \in Nat /\ next_seq \in Nat /\ base <= next_seq /\ next_seq <= base + RecvWindow
    /\ next_seq <= Limit
    /\ up \in Seq(OpenUp) /\ queue \in Seq(OpenAcks) /\ down \in Seq(FileDatagrams)
    /\ RecvWindow \in Nat /\ RecvWindow >= 1 /\ SeqCount \in Nat /\ 2 * RecvWindow <= SeqCount

LEMMA StepFacts == TypesInv => Facts
<1> SUFFICES ASSUME TypesInv PROVE Facts
  OBVIOUS
<1>1. PeerInv /\ BoundsInv /\ PathInv
  BY DEF TypesInv, PeerInv
<1>2. expected \in Nat /\ DOMAIN buffer \subseteq AheadOf(expected)
  BY <1>1 DEF PeerInv, ClientInv
<1>3. DOMAIN buffer \in SUBSET Nat
  BY <1>2, NumbersType DEF AheadOf
<1> QED
  BY <1>1, <1>2, <1>3, ServerState, NumbersAssumption, NumbersType DEF Facts, PathInv, TypesInv, DownInv

LEMMA ReadsThinned ==
    ASSUME down \in Seq(FileDatagrams), UNCHANGED down \/ \E d : Reads(d)
    PROVE  /\ Thinned(down, down') /\ (down' # down => down # <<>>)
           /\ Elems(down') \subseteq Elems(down) \cup {Bad}
<1>1. CASE UNCHANGED down
  <2>1. Thinned(down, down')
    BY <1>1, ThinnedSame
  <2> QED
    BY <1>1, <2>1
<1>2. CASE \E d : Reads(d)
  BY <1>2, ArrivesThinned, ThinnedElems DEF Reads
<1> QED
  BY <1>1, <1>2

\* The datagrams on their way to the client are thinned.
LEMMA RefusedThinned ==
    ASSUME Facts, RefusedInv, UNCHANGED <<setup, expected>>, Thinned(down, down')
    PROVE  RefusedInv'
<1>1. Elems(down') \subseteq Elems(down) \cup {Bad} /\ Elems(down) \subseteq FileDatagrams
  BY ThinnedElems, SeqElems DEF Facts
<1>2. CASE \A x \in Elems(down) : ~ Refused(x)
  <2>1. \A x \in Elems(down') : ~ Refused(x)
    BY <1>1, <1>2, UpTypes
  <2> QED
    BY <2>1, RefusedPrimed
<1>3. CASE expected = Chunks /\ Chunks % SeqCount = 0
  BY <1>3, RefusedPrimed
<1>4. CASE expected = 0 /\ Chain(down, NotBehindData)
  <2>1. \A x \in FileDatagrams : <<x, Bad>> \in NotBehindData /\ <<Bad, x>> \in NotBehindData
    BY DownTypes, UpTypes DEF NotBehindData, Facts
  <2>2. Bad \in FileDatagrams
    BY DownTypes DEF Facts
  <2>3. Chain(down', NotBehindData)
    BY <1>1, <1>4, <2>1, <2>2, ChainThinned
  <2> QED
    BY <1>4, <2>3, RefusedPrimed
<1> QED
  BY <1>2, <1>3, <1>4 DEF RefusedInv

\* Packets are sent, the empty one only when all is received.
LEMMA RefusedSent ==
    ASSUME Facts, RefusedInv, UNCHANGED <<setup, expected>>,
           NEW S \in SUBSET (0 .. Chunks), Sends(S),
           GetsCut /\ Chunks \in S => expected = Chunks
    PROVE  RefusedInv'
<1>1. PICK ds \in Seq(Replies \cup PacketsOf(S)) : down' = Sent(down, ds)
  BY DEF Sends
<1>2. Replies \cup PacketsOf(S) \subseteq FileDatagrams
  BY DEF FileDatagrams, Carries, PacketsOf
<1>3. /\ ds \in Seq(FileDatagrams) /\ Elems(ds) \subseteq Replies \cup PacketsOf(S)
      /\ down \in Seq(FileDatagrams) /\ Elems(down) \subseteq FileDatagrams
  BY <1>2, SeqInto, ElementOfSeq, SeqElems DEF Facts
<1>4. Elems(down') \subseteq Elems(down) \cup Elems(ds)
  BY <1>1, <1>3, SentElems
<1>5. ASSUME NEW x \in Elems(ds), Refused(x)
      PROVE  expected = Chunks /\ Chunks % SeqCount = 0
  <2>1. PICK a \in S : x = Packet(a)
    BY <1>3, <1>5, DownTypes DEF Facts, PacketsOf
  <2>2. a \in 0 .. Chunks /\ x.seq = a % SeqCount /\ x.payload = PayloadOf(a)
    BY <2>1, NumberOfPacket DEF Facts
  <2>3. GetsCut /\ x.seq = 0 /\ x.payload = EOF
    BY <1>5 DEF Refused, NoFile, Data
  <2>4. a = Chunks
    BY <2>2, <2>3 DEF PayloadOf, EOF, Facts
  <2> QED
    BY <2>1, <2>2, <2>3, <2>4
<1>6. CASE expected = Chunks /\ Chunks % SeqCount = 0
  BY <1>6, RefusedPrimed
<1>7. CASE /\ \A x \in Elems(ds) : ~ Refused(x)
           /\ \A x \in Elems(down) : ~ Refused(x)
  BY <1>4, <1>7, RefusedPrimed
<1>8. CASE /\ \A x \in Elems(ds) : ~ Refused(x)
           /\ expected = 0 /\ Chain(down, NotBehindData)
  <2>1. \A x \in Elems(ds), y \in FileDatagrams : <<y, x>> \in NotBehindData
    BY <1>2, <1>3, <1>8 DEF NotBehindData
  <2>2. Chain(ds, NotBehindData) /\ \A i \in DOMAIN down, j \in DOMAIN ds : <<down[i], ds[j]>> \in NotBehindData
    BY <1>2, <1>3, <2>1 DEF Chain, Elems
  <2>3. Chain(down', NotBehindData)
    BY <1>1, <1>3, <1>8, <2>2, ChainSent
  <2> QED
    BY <1>8, <2>3, RefusedPrimed
<1> QED
  BY <1>5, <1>6, <1>7, <1>8 DEF RefusedInv

-----------------------------------------------------------------------------
\* The client's steps.

\* The parts that a step keeps in which nothing is received.
LEMMA UnreceivedKeeps ==
    ASSUME Facts, HeldOrder, QueueInv, UNCHANGED <<setup, serverVars, receiver>>,
           UNCHANGED down \/ \E d : Reads(d)
    PROVE  /\ HeldOrder' /\ QueueInv'
           /\ LiveInv => NextInv' /\ DataInv' /\ RefusedInv' /\ OverInv'
<1>0. /\ UNCHANGED <<setup, serving, queue, base, next_seq, in_flight, expected, buffer>>
  BY DEF serverVars, sender, receiver
<1>1. HeldOrder' /\ QueueInv'
  BY <1>0, SameNumber DEF HeldOrder, QueueInv
<1>2. ASSUME LiveInv
      PROVE  NextInv' /\ DataInv' /\ RefusedInv' /\ OverInv'
  <2>1. Thinned(down, down') /\ Elems(down') \subseteq Elems(down) \cup {Bad}
    BY ReadsThinned DEF Facts
  <2>2. DataOrdered(expected, DOMAIN buffer, down')
    BY <1>2, <2>1, DataThinned DEF Facts, LiveInv, DataInv
  <2>3. DataInv'
    BY <1>0, <2>2, DataPrimed
  <2>4. OverInv'
    BY <1>0, <1>2 DEF LiveInv, OverInv
  <2>5. NextInv'
    BY <1>0, <1>2, <2>1, SameNumber, UpTypes DEF LiveInv, NextInv
  <2>6. RefusedInv'
    BY <1>0, <1>2, <2>1, RefusedThinned DEF LiveInv
  <2> QED
    BY <2>3, <2>4, <2>5, <2>6
<1> QED
  BY <1>1, <1>2

LEMMA QuietOrdered ==
    ASSUME Facts, Ordered, UNCHANGED <<setup, serverVars>>, QuietClient
    PROVE  Ordered'
<1>0. /\ UNCHANGED <<setup, serving, queue, base, next_seq, in_flight, expected, buffer, up>>
      /\ UNCHANGED receiver /\ (UNCHANGED down \/ \E d : Reads(d))
  BY DEF serverVars, sender, receiver, QuietClient
<1>1. HeldOrder' /\ QueueInv' /\ (LiveInv => NextInv' /\ DataInv' /\ RefusedInv' /\ OverInv')
  BY <1>0, UnreceivedKeeps DEF Ordered
<1>2. /\ status' = status \/ (status = "asking" /\ status' \in {"failed", "receiving"})
      /\ UNCHANGED down => (status = "asking" /\ status' = "failed") \/ (\E d : Reads(d))
  BY DEF QuietClient
<1>3. down' # down \/ (\E d : Reads(d)) => down # <<>>
  BY <1>0, ReadsThinned, ArrivesThinned DEF Facts, Reads
<1>4. AskInv'
  <2>1. ASSUME setup.client = "G3", setup.server = "G12"
        PROVE  status' \in {"asking", "failed"}
    <3>1. status \in {"asking", "failed"}
      BY <2>1 DEF Ordered, AskInv
    <3>2. ASSUME NEW d, Reads(d)
          PROVE  d.type # "ACK"
      <4>1. d \in FileDatagrams
        BY <3>2, ArrivesThinned DEF Facts, Reads
      <4> QED
        BY <2>1, <4>1, DownTypes DEF Facts, IsAck
    <3> QED
      BY <2>1, <3>1, <3>2 DEF QuietClient
  <2> QED
    BY <1>0, <2>1 DEF AskInv
<1>5. EndInv'
  BY <1>0, <1>2, SameNumber DEF Ordered, EndInv
<1>6. ASSUME status' # "complete"
      PROVE  StartInv' /\ GetInv' /\ AckInv' /\ IdleInv' /\ LiveInv
  <2>1. LiveInv
    BY <1>2, <1>6 DEF Ordered
  <2>2. StartInv'
    BY <1>0, <1>2, <2>1 DEF LiveInv, StartInv
  <2>3. GetInv' /\ AckInv'
    BY <1>0, <2>1, SameNumber DEF LiveInv, GetInv, AckInv
  <2>4. IdleInv'
    <3>1. CASE down = <<>>
      <4>1. UNCHANGED down /\ status = "asking" /\ status' = "failed"
        BY <1>2, <1>3, <3>1
      <4> QED
        BY <1>0, <2>1, <4>1, SameNumber DEF LiveInv, IdleInv
    <3>2. CASE down # <<>>
      <4>1. Elems(down') \subseteq Elems(down) \cup {Bad}
        BY <1>0, ReadsThinned DEF Facts
      <4>2. \A x \in Elems(down') : IsData(x) => x \in Elems(down)
        BY <4>1, UpTypes
      <4> QED
        BY <1>0, <2>1, <3>2, <4>2, SameNumber DEF LiveInv, IdleInv
    <3> QED
      BY <3>1, <3>2
  <2> QED
    BY <2>1, <2>2, <2>3, <2>4
<1> QED
  BY <1>1, <1>4, <1>5, <1>6 DEF Ordered, LiveInv

LEMMA LeavingOrdered ==
    ASSUME Facts, Ordered, UNCHANGED <<setup, serverVars>>, LeavingClient
    PROVE  Ordered'
<1>0. /\ UNCHANGED <<setup, serving, queue, base, next_seq, in_flight, expected, buffer, up, down>>
      /\ UNCHANGED receiver /\ status = "receiving" /\ status' = "gaveup" /\ setup.client # "G3"
  BY DEF serverVars, sender, receiver, LeavingClient, netVars
<1>1. LiveInv
  BY <1>0 DEF Ordered
<1>2. HeldOrder' /\ QueueInv' /\ NextInv' /\ DataInv' /\ RefusedInv' /\ OverInv'
  BY <1>0, <1>1, UnreceivedKeeps DEF Ordered
<1>3. AskInv'
  BY <1>0 DEF AskInv
<1>4. StartInv' /\ GetInv' /\ AckInv'
  BY <1>0, <1>1, SameNumber DEF LiveInv, StartInv, GetInv, AckInv
<1>5. IdleInv'
  BY <1>0, <1>1, SameNumber DEF LiveInv, IdleInv
<1>6. EndInv'
  <2>1. ASSUME "silence" \notin setup.faults
        PROVE  expected \in {0, Chunks} /\ (~ GetsCut => expected = Chunks)
    <3>1. serving = "over" \/ serving = "idle"
      BY <2>1 DEF LeavingClient, Silent
    <3>2. CASE serving = "idle"
      BY <1>0, <1>1, <3>2 DEF LiveInv, IdleInv
    <3>3. CASE serving = "over"
      <4>1. Chunks = 0
        BY <1>1, <3>3 DEF LiveInv, OverInv, Chunks
      <4>2. expected = Chunks
        BY <4>1 DEF Facts, Ordered, HeldOrder
      <4> QED
        BY <4>2
    <3> QED
      BY <3>1, <3>2, <3>3
  <2> QED
    BY <1>0, <2>1, SameNumber DEF EndInv
<1> QED
  BY <1>2, <1>3, <1>4, <1>5, <1>6 DEF Ordered, LiveInv

LEMMA AskingOrdered ==
    ASSUME Facts, Ordered, UNCHANGED <<setup, serverVars>>, AskingClient
    PROVE  Ordered'
<1>0. /\ UNCHANGED <<setup, serving, queue, base, next_seq, in_flight, expected, buffer>>
      /\ UNCHANGED receiver /\ (UNCHANGED down \/ \E d : Reads(d))
      /\ status = "asking" /\ status' = "asking" /\ up' = Sent(up, <<Get>>)
  BY DEF serverVars, sender, receiver, AskingClient
<1>1. /\ expected = 0 /\ DOMAIN buffer = {} /\ queue = <<>> /\ base = 0
      /\ \A x \in Elems(up) : ~ IsAck(x)
      /\ LiveInv
  BY <1>0 DEF Ordered, LiveInv, StartInv
<1>2. HeldOrder' /\ QueueInv' /\ NextInv' /\ DataInv' /\ RefusedInv' /\ OverInv'
  BY <1>0, <1>1, UnreceivedKeeps DEF Ordered
<1>3. AskInv' /\ EndInv'
  BY <1>0 DEF AskInv, EndInv
<1>4. Chain(up', NoGetAfter) /\ Elems(up') \subseteq Elems(up) \cup {Get} /\ up' \in Seq(OpenUp)
  <2>1. Elems(up) \subseteq OpenUp
    BY SeqElems DEF Facts
  <2>2. \A x \in Elems(up) : <<x, Get>> \in NoGetAfter
    BY <1>1, <2>1, UpTypes DEF NoGetAfter
  <2>3. Chain(up, NoGetAfter)
    BY <1>1 DEF LiveInv, GetInv
  <2> QED
    BY <1>0, <2>2, <2>3, UpTypes, ChainOneSent, OneSent DEF Facts
<1>5. \A x \in Elems(up') : ~ IsAck(x)
  BY <1>1, <1>4, UpTypes
<1>6. StartInv' /\ GetInv'
  BY <1>0, <1>1, <1>4, <1>5 DEF StartInv, GetInv
<1>7. AckInv'
  <2>1. AcksOrdered(base, expected, <<>>, up')
    BY <1>4, <1>5, NoAcksOrdered
  <2> QED
    BY <1>0, <1>1, <2>1 DEF AckInv
<1>8. IdleInv'
  <2>1. CASE down = <<>>
    <3>1. UNCHANGED down
      BY <1>0, <2>1, ReadsThinned DEF Facts
    <3> QED
      BY <1>0, <2>1, <3>1 DEF IdleInv
  <2>2. CASE down # <<>>
    <3>1. \/ serving = "idle" => setup.server # "G12" /\ Chunks = 0
          \/ GetsCut /\ \A x \in Elems(down) : ~ IsData(x)
      BY <1>1, <2>2 DEF LiveInv, IdleInv
    <3>2. CASE serving = "idle" => setup.server # "G12" /\ Chunks = 0
      BY <1>0, <1>1, <3>2, SameNumber DEF IdleInv
    <3>3. CASE GetsCut /\ \A x \in Elems(down) : ~ IsData(x)
      <4>1. Elems(down') \subseteq Elems(down) \cup {Bad}
        BY <1>0, ReadsThinned DEF Facts
      <4>2. \A x \in Elems(down') : ~ IsData(x)
        BY <3>3, <4>1, UpTypes
      <4> QED
        BY <1>0, <1>1, <1>5, <3>3, <4>2, SameNumber DEF IdleInv
    <3> QED
      BY <3>1, <3>2, <3>3
  <2> QED
    BY <2>1, <2>2
<1> QED
  BY <1>2, <1>3, <1>6, <1>7, <1>8 DEF Ordered, LiveInv

\* The ACK of what is expected now is sent.
LEMMA AckedOrdered ==
    ASSUME Facts, LiveInv, UNCHANGED <<setup, serverVars>>,
           expected' \in Nat, expected <= expected', serving = "sending" => expected' <= next_seq,
           NEW w \in 1 .. RecvWindow, up' = Sent(up, <<Ack(expected' % SeqCount, w)>>)
    PROVE  /\ GetInv' /\ AckInv'
           /\ \A x \in Elems(up') : IsGet(x) => x \in Elems(up)
<1> DEFINE a == Ack(expected' % SeqCount, w)
           e == expected'
<1>0. UNCHANGED <<setup, serving, queue, base>>
  BY DEF serverVars, sender
<1>1. a \in OpenAcks
  BY ModType DEF Ack, OpenAcks
<1>2. base \in Nat /\ e \in Nat /\ base <= e
  BY DEF Facts, LiveInv, AckInv
<1>3. e - base < SeqCount => Says(base, a) = e
  BY <1>2, SaysNew
<1> HIDE DEF a, e
<1>4. up' = Sent(up, <<a>>) /\ a \in OpenUp /\ IsAck(a) /\ ~ IsGet(a)
  BY <1>1, UpTypes DEF a
<1>5. Chain(up', NoGetAfter) /\ Elems(up') \subseteq Elems(up) \cup {a}
  <2>1. \A x \in Elems(up) : <<x, a>> \in NoGetAfter
    BY <1>4, SeqElems DEF Facts, NoGetAfter
  <2>2. Chain(up, NoGetAfter) /\ up \in Seq(OpenUp)
    BY DEF LiveInv, GetInv, Facts
  <2>3. Chain(Sent(up, <<a>>), NoGetAfter) /\ Elems(Sent(up, <<a>>)) \subseteq Elems(up) \cup {a}
    BY <1>4, <2>1, <2>2, ChainOneSent
  <2> QED
    BY <1>4, <2>3
<1>6. \A x \in Elems(up') : IsGet(x) => x \in Elems(up)
  BY <1>4, <1>5
<1>7. GetInv'
  BY <1>0, <1>5, <1>6 DEF LiveInv, GetInv
<1>8. AckInv'
  <2>1. ASSUME serving = "sending", Limit > 0
        PROVE  AcksOrdered(base, e, queue, up')
    <3>1. Says(base, a) = e
      <4>1. e <= next_seq /\ next_seq <= base + RecvWindow /\ next_seq \in Nat /\ base \in Nat
        BY <2>1 DEF Facts, e
      <4>2. e - base < SeqCount
        BY <1>2, <4>1, NumbersAssumption
      <4> QED
        BY <1>3, <4>2
    <3>2. AcksOrdered(base, expected, queue, up)
      BY <2>1 DEF LiveInv, AckInv
    <3>3. AcksOrdered(base, e, queue, up)
      BY <1>2, <3>2, AcksGrow DEF Facts, e
    <3> QED
      BY <1>1, <1>2, <1>4, <3>1, <3>3, AcksSent DEF Facts
  <2> QED
    BY <1>0, <1>2, <2>1, SameNumber DEF AckInv, e
<1> QED
  BY <1>6, <1>7, <1>8

LEMMA RepeatingOrdered ==
    ASSUME Facts, Ordered, UNCHANGED <<setup, serverVars>>, RepeatingClient
    PROVE  Ordered'
<1>0. /\ UNCHANGED <<setup, serving, queue, base, next_seq, in_flight, expected, buffer, status, down>>
      /\ UNCHANGED receiver /\ status = "receiving"
      /\ up' = Sent(up, <<Ack(expected % SeqCount, Free(buffer))>>)
  BY DEF serverVars, sender, receiver, RepeatingClient, SendAck
<1>1. LiveInv
  BY <1>0 DEF Ordered
<1>2. HeldOrder' /\ QueueInv' /\ NextInv' /\ DataInv' /\ RefusedInv' /\ OverInv'
  BY <1>0, <1>1, UnreceivedKeeps DEF Ordered
<1>3. AskInv' /\ EndInv' /\ StartInv'
  BY <1>0, SameNumber DEF Ordered, AskInv, EndInv, StartInv
<1>4. Free(buffer) \in 1 .. RecvWindow
  BY FreeType DEF Facts
<1>5. serving = "sending" => expected <= next_seq
  BY <1>1 DEF LiveInv, NextInv
<1>6. /\ expected' \in Nat /\ expected <= expected' /\ (serving = "sending" => expected' <= next_seq)
      /\ up' = Sent(up, <<Ack(expected' % SeqCount, Free(buffer))>>)
  BY <1>0, <1>5 DEF Facts
<1>7. GetInv' /\ AckInv' /\ \A x \in Elems(up') : IsGet(x) => x \in Elems(up)
  BY <1>1, <1>4, <1>6, AckedOrdered
<1>8. IdleInv'
  <2>1. ~ GetsCut
    BY DEF RepeatingClient, GetsCut
  <2> QED
    BY <1>0, <1>1, <1>7, <2>1, SameNumber DEF LiveInv, IdleInv
<1> QED
  BY <1>2, <1>3, <1>7, <1>8 DEF Ordered, LiveInv

-----------------------------------------------------------------------------
LEMMA ContentSame ==
    ASSUME ContentInv, UNCHANGED setup, UNCHANGED receiver
    PROVE  ContentInv'
<1>1. Chunks' = Chunks /\ UNCHANGED <<expected, buffer, saved>>
  BY SetupKeeps DEF receiver
<1>2. \A i : PayloadOf(i)' = PayloadOf(i)
  BY <1>1 DEF PayloadOf
<1> QED
  BY <1>1, <1>2 DEF ContentInv, Least

\* The packet that is read in order.
LEMMA OrderedPacket ==
    ASSUME Facts, TypesInv, Ordered, status # "complete", NEW s, NEW p, Reads(Data(s, p)),
           IsData(Data(s, p)), NEW a, a = Number(Data(s, p))
    PROVE  /\ a \in 0 .. Chunks /\ Data(s, p) = Packet(a)
           /\ s = a % SeqCount /\ (p = EOF <=> a = Chunks)
           /\ Data(s, p) \in Elems(down) /\ Arrives(down, Data(s, p), down')
           /\ InReach(expected, DOMAIN buffer, a)
<1>1. /\ a \in 0 .. Chunks /\ Data(s, p) = Packet(a)
      /\ s = a % SeqCount /\ (p = EOF <=> a = Chunks)
  BY ReadsPacket
<1>3. Arrives(down, Data(s, p), down')
  BY DEF Reads
<1>4. Data(s, p) \in Elems(down)
  BY <1>3, ArrivesThinned DEF Facts
<1>5. InReach(expected, DOMAIN buffer, a)
  BY <1>4 DEF Ordered, LiveInv, DataInv, DataOrdered
<1> QED
  BY <1>1, <1>3, <1>4, <1>5

\* What is no packet of the file is empty, and has number 0.
LEMMA RefusedPacket ==
    ASSUME NEW s, NEW p, ~ IsData(Data(s, p))
    PROVE  Refused(Data(s, p)) /\ GetsCut /\ s = 0 /\ p = EOF
<1>1. Data(s, p).type = "DATA" /\ Data(s, p).seq = s /\ Data(s, p).payload = p
  BY DEF Data
<1>2. Refused(Data(s, p))
  BY <1>1 DEF IsData
<1>3. NoFile.seq = 0 /\ NoFile.payload = EOF
  BY DEF NoFile, Data
<1> QED
  BY <1>1, <1>2, <1>3 DEF Refused

\* A client of group 2 ends at it.
LEMMA RefusedRead ==
    ASSUME Facts, LiveInv, NEW s, NEW p, Reads(Data(s, p)), ~ IsData(Data(s, p))
    PROVE  expected = 0 \/ (expected = Chunks /\ Chunks % SeqCount = 0)
<1>1. Refused(Data(s, p))
  BY RefusedPacket
<1>2. Data(s, p) \in Elems(down)
  BY ArrivesThinned DEF Facts, Reads
<1> QED
  BY <1>1, <1>2 DEF LiveInv, RefusedInv

LEMMA RefusedEnds ==
    ASSUME Facts, LiveInv, NEW s, NEW p, KeepingClient(s, p)
    PROVE  IsData(Data(s, p))
<1>1. ASSUME ~ IsData(Data(s, p))
      PROVE  FALSE
  <2>1. Refused(Data(s, p)) /\ s = 0 /\ p = EOF
    BY <1>1, RefusedPacket
  <2>2. s # expected % SeqCount /\ Reads(Data(s, p))
    BY <2>1 DEF KeepingClient
  <2>4. expected = 0 \/ (expected = Chunks /\ Chunks % SeqCount = 0)
    BY <1>1, <2>2, RefusedRead
  <2>5. 0 % SeqCount = 0
    BY NumbersType
  <2> QED
    BY <2>1, <2>2, <2>4, <2>5
<1> QED
  BY <1>1

LEMMA ReachNear ==
    ASSUME Facts, NEW held, NEW a \in Nat, InReach(expected, held, a)
    PROVE  IsNear(a)
<1>1. /\ a < expected + RecvWindow /\ expected <= a + RecvWindow
  BY DEF InReach
<1> QED
  BY <1>1 DEF Facts, IsNear

\* The client of group 3 or 2 ends at the empty packet when it expects it.
LEMMA EndExpected ==
    ASSUME Facts, Ordered, status \in {"asking", "receiving"},
           status = "receiving" \/ setup.client # "G3", setup.client # "G12",
           InReach(expected, DOMAIN buffer, Chunks)
    PROVE  expected = Chunks
<1>1. setup.server # "G12"
  <2>1. ASSUME setup.server = "G12"
        PROVE  FALSE
    <3>1. setup.client \in Groups /\ setup.client # "G2"
      BY <2>1, SetupsAssumption, PairsAssumption DEF Facts, PathInv
    <3>2. setup.client = "G3"
      BY <3>1 DEF Groups
    <3> QED
      BY <2>1, <3>2 DEF Ordered, AskInv
  <2> QED
    BY <2>1
<1> QED
  BY <1>1 DEF InReach

LEMMA KeepingOrdered ==
    ASSUME InOrder, TypesInv, TypesInv', ContentInv, Ordered, UNCHANGED <<setup, serverVars>>,
           NEW s, NEW p, KeepingClient(s, p)
    PROVE  Ordered' /\ ContentInv'
<1> DEFINE a == Number(Data(s, p))
           e == expected'
           more == DOMAIN buffer'
<1>0. /\ Facts /\ UNCHANGED <<setup, serving, queue, base, next_seq, in_flight>>
      /\ status' = "receiving"
      /\ status = "receiving" \/ (status = "asking" /\ setup.client # "G3")
      /\ Reads(Data(s, p)) /\ (p = EOF => setup.client # "G12" /\ s # expected % SeqCount)
  BY StepFacts DEF serverVars, sender, KeepingClient
<1>1. LiveInv /\ status # "complete"
  BY <1>0 DEF Ordered
<1>2. /\ a \in 0 .. Chunks /\ Data(s, p) = Packet(a) /\ IsData(Data(s, p))
      /\ s = a % SeqCount /\ (p = EOF <=> a = Chunks)
      /\ Data(s, p) \in Elems(down) /\ Arrives(down, Data(s, p), down')
      /\ InReach(expected, DOMAIN buffer, a)
  <2>1. IsData(Data(s, p))
    BY <1>0, <1>1, RefusedEnds
  <2> QED
    BY <1>0, <1>1, <2>1, OrderedPacket
<1>3. IsNear(a)
  BY <1>0, <1>2, ReachNear
<1>4. /\ ContentInv' /\ e \in Nat /\ expected <= e
      /\ \A i \in expected .. e - 1 : i \in DOMAIN buffer \cup {a}
      /\ \A i \in more : i \in DOMAIN buffer \cup {a}
  BY <1>2, <1>3, KeepsPackets
<1> HIDE DEF a, e, more
<1>5. a # Chunks
  <2>1. ASSUME a = Chunks
        PROVE  FALSE
    <3>1. setup.client # "G12" /\ s # expected % SeqCount
      BY <1>0, <1>2, <2>1
    <3>2. expected = Chunks
      BY <1>0, <1>2, <2>1, <3>1, EndExpected
    <3> QED
      BY <1>2, <2>1, <3>1, <3>2
  <2> QED
    BY <2>1
<1>6. /\ Chunks \in Nat /\ expected \in Nat /\ expected <= Chunks
      /\ DOMAIN buffer \subseteq 0 .. Chunks - 1 /\ a \in 0 .. Chunks - 1
  BY <1>0, <1>2, <1>5 DEF Facts, Ordered, HeldOrder
<1>7. e <= Chunks /\ more \subseteq 0 .. Chunks - 1
  <2>1. more \subseteq 0 .. Chunks - 1
    BY <1>4, <1>6
  <2>2. ASSUME e > Chunks
        PROVE  FALSE
    <3>1. Chunks \in expected .. e - 1
      BY <1>4, <1>6, <2>2
    <3>2. Chunks \in 0 .. Chunks - 1
      BY <1>4, <1>6, <3>1
    <3> QED
      BY <1>6, <3>2
  <2> QED
    BY <1>4, <1>6, <2>1, <2>2
<1>8. serving # "idle" => e <= next_seq /\ more \subseteq 0 .. next_seq - 1
  <2> SUFFICES ASSUME serving # "idle"
               PROVE  e <= next_seq /\ more \subseteq 0 .. next_seq - 1
    OBVIOUS
  <2>1. /\ expected <= next_seq /\ DOMAIN buffer \subseteq 0 .. next_seq - 1 /\ next_seq \in Nat
        /\ serving = "sending" => a < next_seq
    <3>1. Chunks > 0
      BY <1>6
    <3>2. serving = "sending" => a < next_seq
      BY <1>1, <1>2, <3>1 DEF LiveInv, NextInv, a
    <3> QED
      BY <1>0, <1>1, <3>2 DEF LiveInv, NextInv, Facts
  <2>2. a < next_seq
    <3>1. serving \in {"sending", "ending", "over"}
      BY DEF TypesInv, BoundsInv, ServerStates
    <3>2. serving = "ending" => base = Chunks /\ base <= next_seq
      BY DEF TypesInv, BoundsInv
    <3>3. serving # "over"
      BY <1>1, <1>6 DEF LiveInv, OverInv, Chunks
    <3> QED
      BY <1>6, <2>1, <3>1, <3>2, <3>3
  <2>3. DOMAIN buffer \cup {a} \subseteq 0 .. next_seq - 1
    BY <1>6, <2>1, <2>2
  <2>4. ASSUME e > next_seq
        PROVE  FALSE
    <3>1. next_seq \in expected .. e - 1
      BY <1>4, <1>6, <2>1, <2>4
    <3>2. next_seq \in 0 .. next_seq - 1
      BY <1>4, <2>3, <3>1
    <3> QED
      BY <2>1, <3>2
  <2> QED
    BY <1>4, <2>1, <2>3, <2>4
<1>9. HeldOrder' /\ QueueInv' /\ AskInv' /\ EndInv' /\ StartInv' /\ OverInv'
  <2>1. HeldOrder'
    BY <1>0, <1>7, SameNumber DEF HeldOrder, e, more
  <2>2. QueueInv' /\ OverInv'
    BY <1>0, <1>1 DEF Ordered, LiveInv, QueueInv, OverInv
  <2>3. AskInv'
    BY <1>0 DEF Ordered, AskInv
  <2>4. EndInv' /\ StartInv'
    BY <1>0 DEF EndInv, StartInv
  <2> QED
    BY <2>1, <2>2, <2>3, <2>4
<1>10. GetInv' /\ AckInv' /\ \A x \in Elems(up') : IsGet(x) => x \in Elems(up)
  <2>1. Free(buffer') \in 1 .. RecvWindow
    <3>1. DOMAIN buffer' \subseteq AheadOf(expected')
      BY DEF TypesInv, PeerInv, ClientInv, AheadOf
    <3>2. expected' \in Nat
      BY <1>4 DEF e
    <3> QED
      BY <3>1, <3>2, FreeType
  <2>2. up' = Sent(up, <<Ack(expected' % SeqCount, Free(buffer'))>>)
    BY DEF KeepingClient, SendAck
  <2>3. /\ expected' \in Nat /\ expected <= expected'
        /\ serving = "sending" => expected' <= next_seq
    BY <1>4, <1>8 DEF e
  <2> QED
    BY <1>0, <1>1, <2>1, <2>2, <2>3, AckedOrdered
<1>11. Elems(down') \subseteq Elems(down) \cup {Bad} /\ down # <<>>
  BY <1>0, <1>2, ArrivesThinned, ReadsThinned DEF Facts
<1>12. NextInv'
  BY <1>0, <1>1, <1>8, <1>11, SameNumber, UpTypes DEF LiveInv, NextInv, e, more
<1>13. DataInv'
  <2>1. DataOrdered(expected, DOMAIN buffer, down) /\ PathInv /\ DOMAIN buffer \in SUBSET Nat
        /\ down \in Seq(FileDatagrams) /\ expected \in Nat
    BY <1>0, <1>1 DEF LiveInv, DataInv, Facts
  <2>2. /\ \A i \in expected .. e - 1 : i \in DOMAIN buffer \cup {Number(Data(s, p))}
        /\ \A i \in more : i \in DOMAIN buffer \cup {Number(Data(s, p))}
    BY <1>4 DEF a
  <2>3. DataOrdered(e, more, down')
    BY <1>2, <1>4, <1>7, <2>1, <2>2, DataKept
  <2> QED
    BY <1>0, <2>3, DataPrimed DEF e, more
<1>15. RefusedInv'
  <2>1. CASE \A x \in Elems(down) : ~ Refused(x)
    <3>1. \A x \in Elems(down') : ~ Refused(x)
      BY <1>11, <2>1, UpTypes
    <3> QED
      BY <1>0, <3>1, RefusedPrimed
  <2>2. CASE expected = Chunks /\ Chunks % SeqCount = 0
    <3>1. e = Chunks
      BY <1>4, <1>6, <1>7, <2>2
    <3> QED
      BY <1>0, <2>2, <3>1, RefusedPrimed DEF e
  <2>3. CASE expected = 0 /\ Chain(down, NotBehindData)
    <3>1. \A x \in Elems(down') : <<Data(s, p), x>> \in NotBehindData
      BY <1>0, <1>2, <2>3, ArrivesFirst DEF Facts
    <3>2. \A x \in Elems(down') : ~ Refused(x)
      BY <1>2, <3>1 DEF NotBehindData
    <3> QED
      BY <1>0, <3>2, RefusedPrimed
  <2> QED
    BY <1>1, <2>1, <2>2, <2>3 DEF LiveInv, RefusedInv
<1>14. IdleInv'
  <2>1. serving = "idle" => setup.server # "G12" /\ e = Chunks
    BY <1>1, <1>2, <1>4, <1>6, <1>7, <1>11 DEF LiveInv, IdleInv
  <2>2. serving = "idle" /\ Chunks > 0 => \A x \in Elems(up) : ~ IsGet(x)
    BY <1>1, <1>2, <1>11 DEF LiveInv, IdleInv
  <2> QED
    BY <1>0, <1>10, <2>1, <2>2, SameNumber DEF IdleInv, e
<1> QED
  BY <1>4, <1>9, <1>10, <1>12, <1>13, <1>14, <1>15 DEF Ordered, LiveInv

LEMMA EndingOrdered ==
    ASSUME InOrder, TypesInv, Ordered, UNCHANGED <<setup, serverVars>>, NEW s, EndingClient(s)
    PROVE  Ordered'
<1>0. /\ Facts /\ UNCHANGED <<setup, serving, queue, expected, buffer>>
      /\ status' = "complete"
      /\ status = "receiving" \/ (status = "asking" /\ setup.client # "G3")
      /\ Reads(Data(s, EOF))
  BY StepFacts DEF serverVars, sender, receiver, EndingClient
<1>1. LiveInv /\ status # "complete"
  BY <1>0 DEF Ordered
<1> DEFINE a == Number(Data(s, EOF))
<1>2. IsData(Data(s, EOF)) => a = Chunks /\ InReach(expected, DOMAIN buffer, a)
  BY <1>0, <1>1, OrderedPacket
<1>8. IsData(Data(s, EOF)) \/ (GetsCut /\ ~ EndOvertakes)
  BY RefusedPacket DEF GetsCut, EndOvertakes
<1>3. HeldOrder' /\ QueueInv'
  BY <1>0, SameNumber DEF Ordered, HeldOrder, QueueInv
<1>4. AskInv'
  BY <1>0 DEF Ordered, AskInv
<1>5. EndOvertakes => Chunks < expected + RecvWindow
  BY <1>2, <1>8 DEF InReach
<1>6. ~ EndOvertakes /\ ~ GetsCut => expected = Chunks
  <2>1. CASE setup.client = "G12"
    BY <1>2, <1>8, <2>1 DEF InReach, EndOvertakes
  <2>2. CASE setup.client # "G12"
    BY <1>0, <1>2, <1>8, <2>2, EndExpected
  <2> QED
    BY <2>1, <2>2
<1>9. GetsCut => expected \in {0, Chunks}
  <2>1. ASSUME GetsCut, IsData(Data(s, EOF))
        PROVE  expected = Chunks
    BY <1>0, <1>2, <2>1, EndExpected DEF GetsCut
  <2>2. ASSUME ~ IsData(Data(s, EOF))
        PROVE  expected \in {0, Chunks}
    BY <1>0, <1>1, <2>2, RefusedRead
  <2> QED
    BY <2>1, <2>2
<1>7. EndInv'
  BY <1>0, <1>5, <1>6, <1>9, SameNumber DEF EndInv
<1> QED
  BY <1>0, <1>3, <1>4, <1>7 DEF Ordered

LEMMA ClientStepOrdered ==
    ASSUME InOrder, TypesInv, TypesInv', ContentInv, Ordered, UNCHANGED <<setup, serverVars>>, ClientDoes
    PROVE  Ordered' /\ ContentInv'
<1>0. Facts
  BY StepFacts
<1>1. ASSUME NEW s, NEW p, KeepingClient(s, p)
      PROVE  Ordered' /\ ContentInv'
  BY <1>1, KeepingOrdered
<1>2. ASSUME NEW s, EndingClient(s)
      PROVE  Ordered' /\ ContentInv'
  <2>1. UNCHANGED receiver
    BY <1>2 DEF EndingClient
  <2> QED
    BY <1>2, <2>1, EndingOrdered, ContentSame
<1>3. CASE QuietClient
  BY <1>0, <1>3, QuietOrdered, ContentSame DEF QuietClient, receiver
<1>4. CASE AskingClient
  BY <1>0, <1>4, AskingOrdered, ContentSame DEF AskingClient
<1>5. CASE RepeatingClient
  BY <1>0, <1>5, RepeatingOrdered, ContentSame DEF RepeatingClient, receiver
<1>6. CASE LeavingClient
  BY <1>0, <1>6, LeavingOrdered, ContentSame DEF LeavingClient
<1> QED
  BY <1>1, <1>2, <1>3, <1>4, <1>5, <1>6 DEF ClientDoes

\* Over any path, the number of a packet of a short file is its own.
LEMMA ClientStepFitting ==
    ASSUME FitsNumbers, TypesInv, ContentInv, UNCHANGED setup, ClientDoes
    PROVE  ContentInv'
<1>1. ASSUME NEW s, NEW p, KeepingClient(s, p)
      PROVE  ContentInv'
  <2>1. Reads(Data(s, p))
    BY <1>1 DEF KeepingClient
  <2>2. Chunks \in Nat /\ expected \in Nat /\ expected <= Chunks + 1
    BY StepFacts DEF Facts, ContentInv
  <2>3. CASE IsData(Data(s, p))
    <3> DEFINE a == Number(Data(s, p))
    <3>1. a \in 0 .. Chunks /\ Data(s, p) = Packet(a)
      BY <2>1, <2>3, ReadsPacket
    <3> HIDE DEF a
    <3>2. IsNear(a)
      BY <2>2, <3>1, NumbersType DEF IsNear, FitsNumbers
    <3> QED
      BY <1>1, <3>1, <3>2, KeepsPackets
  <2>4. CASE ~ IsData(Data(s, p))
    <3>1. s = 0 /\ p = EOF
      BY <2>4, RefusedPacket
    <3>2. s # expected % SeqCount
      BY <1>1, <3>1 DEF KeepingClient
    <3>3. expected >= 1 /\ expected + RecvWindow <= SeqCount
      <4>1. expected # 0
        <5>1. 0 % SeqCount = 0
          BY NumbersType
        <5> QED
          BY <3>1, <3>2, <5>1
      <4> QED
        BY <2>2, <4>1, NumbersType DEF FitsNumbers
    <3>4. Distance(s) = SeqCount - expected
      <4>1. Distance(s) = Ahead(expected, 0 % SeqCount)
        <5>1. 0 % SeqCount = 0
          BY NumbersType
        <5> QED
          BY <3>1, <5>1 DEF Distance, Ahead
      <4> DEFINE z == 0
      <4>2. z \in Nat /\ z - expected < SeqCount /\ expected - z < SeqCount /\ ~ (z >= expected)
        BY <2>2, <3>3, NumbersType
      <4>3. Ahead(expected, z % SeqCount) = IF z >= expected THEN z - expected ELSE z - expected + SeqCount
        <5> HIDE DEF z
        <5> QED
          BY <2>2, <4>2, AheadExact
      <4> QED
        BY <2>2, <4>1, <4>2, <4>3, NumbersType
    <3>5. ~ InWindow(s)
      BY <2>2, <3>3, <3>4, NumbersType DEF InWindow
    <3> DEFINE a == 0
    <3>6. a \in 0 .. Chunks
      BY <2>2
    <3> HIDE DEF a
    <3> QED
      BY <1>1, <3>5, <3>6, KeepsContent
  <2> QED
    BY <2>3, <2>4
<1>2. CASE UNCHANGED receiver
  BY <1>2, ContentSame
<1> QED
  BY <1>1, <1>2, Zenon DEF ClientDoes, QuietClient, AskingClient, RepeatingClient, EndingClient,
         LeavingClient, receiver

-----------------------------------------------------------------------------
\* The server's steps: what is left on its way up, with base at b.
UpKeeps(b) ==
    /\ Chain(up', NoGetAfter)
    /\ \A x \in Elems(up') : IsGet(x) => x \in Elems(up) /\ queue' = <<>> /\ b = 0
    /\ status \in {"asking", "failed"} =>
         queue' = <<>> /\ b = 0 /\ \A x \in Elems(up') : ~ IsAck(x)

LEMMA UpKept ==
    ASSUME LiveInv, UNCHANGED clientVars, NEW b, UpKeeps(b), base' = b \/ base' = 0
    PROVE  StartInv' /\ GetInv'
<1>1. UNCHANGED <<status, expected, buffer>>
  BY DEF clientVars
<1>2. StartInv'
  BY <1>1 DEF UpKeeps, LiveInv, StartInv
<1>3. GetInv'
  BY DEF UpKeeps, GetInv
<1> QED
  BY <1>2, <1>3

\* No ACK is read.
LEMMA QuietUp ==
    ASSUME Facts, LiveInv, UNCHANGED queue, UNCHANGED up \/ \E d : Receives(d)
    PROVE  Thinned(up, up') /\ UpKeeps(base)
<1>1. Thinned(up, up')
  <2>1. CASE UNCHANGED up
    <3>1. Thinned(up, up)
      BY ThinnedSame DEF Facts
    <3> QED
      BY <2>1, <3>1
  <2>2. CASE \E d : Receives(d)
    BY <2>2, ArrivesThinned DEF Facts, Receives
  <2> QED
    BY <2>1, <2>2
<1>2. Chain(up', NoGetAfter)
  BY <1>1, GetsThinned DEF Facts, LiveInv, GetInv
<1>3. Elems(up') \subseteq Elems(up) \cup {Bad}
  BY <1>1, ThinnedElems
<1>4. \A x \in Elems(up') : IsGet(x) \/ IsAck(x) => x \in Elems(up)
  BY <1>3, UpTypes
<1> QED
  BY <1>1, <1>2, <1>4 DEF UpKeeps, LiveInv, GetInv, StartInv

\* An ACK is read.
LEMMA AckUp ==
    ASSUME Facts, LiveInv, InOrder,
           (\E a : IsAck(a) /\ Receives(a)) \/ (queue # <<>> /\ UNCHANGED up)
    PROVE  /\ \A x \in Elems(up') : ~ IsGet(x)
           /\ \A b : UpKeeps(b)
<1>1. CASE queue # <<>> /\ UNCHANGED up
  BY <1>1 DEF UpKeeps, LiveInv, GetInv, StartInv
<1>2. ASSUME NEW a, IsAck(a), Receives(a)
      PROVE  /\ \A x \in Elems(up') : ~ IsGet(x)
             /\ \A b : UpKeeps(b)
  <2>1. up \in Seq(OpenUp) /\ Chain(up, NoGetAfter) /\ Arrives(up, a, up')
    BY <1>2 DEF Facts, LiveInv, GetInv, Receives
  <2>2. Thinned(up, up') /\ a \in Elems(up)
    BY <2>1, ArrivesThinned
  <2>3. Chain(up', NoGetAfter)
    BY <2>1, <2>2, GetsThinned
  <2>4. \A x \in Elems(up') : <<a, x>> \in NoGetAfter
    BY <2>1, ArrivesFirst
  <2>5. \A x \in Elems(up') : ~ IsGet(x)
    BY <1>2, <2>4 DEF NoGetAfter
  <2>6. status \notin {"asking", "failed"}
    BY <1>2, <2>2 DEF LiveInv, StartInv
  <2> QED
    BY <2>3, <2>5, <2>6 DEF UpKeeps
<1> QED
  BY <1>1, <1>2

\* What an ACK confirms: no more than it says.
LEMMA ConfirmsLess ==
    ASSUME Facts, NEW a \in OpenAcks
    PROVE  /\ ConfirmedBy(a) \in Nat /\ base <= ConfirmedBy(a) /\ ConfirmedBy(a) <= Says(base, a)
           /\ ConfirmedBy(a) <= Limit
<1> DEFINE h == Ahead(base, a.seq)
<1>1. h \in Nat /\ Says(base, a) = base + h
  BY UpTypes, AheadType DEF Facts, Says
<1>2. /\ base \in Nat /\ next_seq \in Nat /\ Chunks \in Nat /\ base <= next_seq /\ next_seq <= Limit
      /\ Limit = IF setup.server = "G12" THEN Chunks + 1 ELSE Chunks
  BY DEF Facts
<1>3. CASE setup.server = "G12"
  <2>1. ConfirmedBy(a) = IF h <= next_seq - base THEN base + h ELSE base
    BY <1>3 DEF ConfirmedBy, G12Confirmed
  <2> HIDE DEF h
  <2> QED
    BY <1>1, <1>2, <2>1
<1>4. CASE setup.server = "G3"
  <2>1. ConfirmedBy(a) = Least(base + h, Chunks)
    BY <1>4 DEF ConfirmedBy, G3Confirmed
  <2> HIDE DEF h
  <2> QED
    BY <1>1, <1>2, <1>4, <2>1 DEF Least
<1>5. CASE setup.server \notin {"G12", "G3"}
  <2>1. ConfirmedBy(a) = Least(base + h, next_seq)
    BY <1>5 DEF ConfirmedBy, G2Confirmed
  <2> HIDE DEF h
  <2> QED
    BY <1>1, <1>2, <1>5, <2>1 DEF Least
<1> QED
  BY <1>3, <1>4, <1>5

\* What is confirmed in order was acknowledged.
LEMMA ConfirmsSound ==
    ASSUME Facts, LiveInv, QueueInv, InOrder, serving = "sending", NEW b, Confirms(b)
    PROVE  /\ b \in Nat /\ base <= b /\ b <= expected
           /\ Limit > 0 => AcksOrdered(b, expected, queue', up')
           /\ UpKeeps(b)
           /\ b = base \/ \A x \in Elems(up') : ~ IsGet(x)
<1>0. /\ base \in Nat /\ expected \in Nat /\ base <= expected /\ Limit \in Nat
      /\ up \in Seq(OpenUp) /\ queue \in Seq(OpenAcks)
      /\ Limit > 0 => AcksOrdered(base, expected, queue, up)
  BY DEF Facts, LiveInv, AckInv
<1>1. CASE b = base /\ Listens
  <2>1. UNCHANGED queue /\ (UNCHANGED up \/ \E d : Receives(d))
    BY <1>1 DEF Listens
  <2>2. Thinned(up, up') /\ UpKeeps(base)
    BY <2>1, QuietUp
  <2>3. Limit > 0 => AcksOrdered(base, expected, queue, up')
    BY <1>0, <2>2, AcksThinned
  <2> QED
    BY <1>0, <1>1, <2>1, <2>2, <2>3
<1>2. ASSUME NEW a, TakesAck(a), b = ConfirmedBy(a)
      PROVE  /\ b \in Nat /\ base <= b /\ b <= expected
             /\ Limit > 0 => AcksOrdered(b, expected, queue', up')
             /\ UpKeeps(b)
             /\ \A x \in Elems(up') : ~ IsGet(x)
  <2>1. a \in OpenAcks /\ IsAck(a)
    BY <1>2, UpTypes DEF TakesAck
  <2>2. b \in Nat /\ base <= b /\ b <= Says(base, a) /\ b <= Limit
    BY <1>2, <2>1, ConfirmsLess
  <2>3. UpKeeps(b) /\ \A x \in Elems(up') : ~ IsGet(x)
    BY <1>2, <2>1, AckUp DEF TakesAck
  <2>4. CASE setup.server = "G12"
    <3>1. /\ UNCHANGED up /\ queue # <<>> /\ a = Head(queue) /\ queue' = Tail(queue)
          /\ Limit > 0
      BY <1>2, <2>4 DEF TakesAck, Facts
    <3>2. /\ Says(base, a) \in Nat /\ Says(base, a) <= expected
          /\ AcksOrdered(b, expected, Tail(queue), up)
      BY <1>0, <2>2, <3>1, QueueAcksTaken
    <3> QED
      BY <1>0, <2>2, <2>3, <3>1, <3>2
  <2>5. CASE setup.server # "G12"
    <3>1. Receives(a) /\ queue' = <<>> /\ queue = <<>>
      BY <1>2, <2>5 DEF TakesAck, QueueInv
    <3>2. ASSUME Limit > 0
          PROVE  /\ Says(base, a) \in Nat /\ Says(base, a) <= expected
                 /\ AcksOrdered(b, expected, <<>>, up')
      <4>1. AcksOrdered(base, expected, <<>>, up) /\ Arrives(up, a, up')
        BY <1>0, <3>1, <3>2 DEF Receives
      <4> QED
        BY <1>0, <2>1, <2>2, <4>1, AcksTaken
    <3>3. CASE Limit > 0
      BY <1>0, <2>2, <2>3, <3>1, <3>2, <3>3
    <3>4. CASE ~ (Limit > 0)
      BY <1>0, <2>2, <2>3, <3>4
    <3> QED
      BY <3>3, <3>4
  <2> QED
    BY <2>4, <2>5
<1> QED
  BY <1>1, <1>2 DEF Confirms

LEMMA NoneSent ==
    ASSUME Facts, LiveInv, UNCHANGED <<setup, clientVars>>, UNCHANGED down \/ Sends({})
    PROVE  DataInv' /\ RefusedInv' /\ \A d \in Elems(down') : IsData(d) => d \in Elems(down)
<1>0. /\ DataOrdered(expected, DOMAIN buffer, down) /\ PathInv /\ down \in Seq(FileDatagrams)
      /\ UNCHANGED <<setup, expected, buffer>> /\ RefusedInv
  BY DEF LiveInv, DataInv, Facts, clientVars
<1>1. CASE UNCHANGED down
  <2>1. Thinned(down, down')
    <3>1. Thinned(down, down)
      BY <1>0, ThinnedSame
    <3> QED
      BY <1>1, <3>1
  <2> QED
    BY <1>0, <1>1, <2>1, DataPrimed, RefusedThinned
<1>2. CASE Sends({})
  <2>1. /\ DataOrdered(expected, DOMAIN buffer, down')
        /\ \A d \in Elems(down') : IsData(d) => d \in Elems(down)
    BY <1>0, <1>2, DataSent
  <2>2. RefusedInv'
    BY <1>0, <1>2, RefusedSent
  <2> QED
    BY <1>0, <2>1, <2>2, DataPrimed
<1> QED
  BY <1>1, <1>2

\* The end is sent to a client that expects it.
LEMMA EndIsSent ==
    ASSUME Facts, LiveInv, HeldOrder, expected = Chunks, UNCHANGED <<setup, clientVars>>,
           UNCHANGED down \/ Sends({Chunks})
    PROVE  DataInv' /\ RefusedInv'
<1>0. /\ DataOrdered(Chunks, DOMAIN buffer, down) /\ PathInv /\ down \in Seq(FileDatagrams)
      /\ UNCHANGED <<setup, expected, buffer>> /\ RefusedInv /\ DOMAIN buffer \subseteq 0 .. Chunks - 1
  BY DEF LiveInv, DataInv, Facts, clientVars, HeldOrder
<1>1. CASE UNCHANGED down
  <2>1. Thinned(down, down')
    <3>1. Thinned(down, down)
      BY <1>0, ThinnedSame
    <3> QED
      BY <1>1, <3>1
  <2> QED
    BY <1>0, <1>1, <2>1, DataPrimed, RefusedThinned
<1>2. CASE Sends({Chunks})
  <2>1. DataOrdered(expected, DOMAIN buffer, down')
    BY <1>0, <1>2, EndSent
  <2>2. {Chunks} \in SUBSET (0 .. Chunks)
    BY DEF Facts
  <2>3. RefusedInv'
    BY <1>0, <1>2, <2>2, RefusedSent
  <2> QED
    BY <1>0, <2>1, <2>3, DataPrimed
<1> QED
  BY <1>1, <1>2

LEMMA EmptyWindow ==
    ASSUME NEW b \in Nat, NEW n \in Nat, n <= b, NEW S, S \subseteq b .. n - 1
    PROVE  S = {}
OBVIOUS

\* The packets of a window that starts at or before the one expected.
LEMMA WindowSent ==
    ASSUME Facts, LiveInv, HeldOrder, BoundsInv', UNCHANGED <<setup, clientVars>>,
           NEW b \in Nat, b <= expected, NEW n \in Nat, n = next_seq',
           expected <= n, n <= b + RecvWindow, DOMAIN buffer \subseteq 0 .. n - 1,
           in_flight' \subseteq b .. n - 1,
           \A d \in Elems(down) : IsData(d) => Number(d) < n \/ Chunks = 0,
           \/ serving' = "sending" /\ Sends(in_flight')
           \/ serving' = "ending" /\ b = Chunks /\ Sends(in_flight' \cup {Chunks})
    PROVE  /\ DataInv'
           /\ serving' = "sending" /\ Chunks > 0 =>
                \A d \in Elems(down') : IsData(d) => Number(d) < n
<1>0. /\ DataOrdered(expected, DOMAIN buffer, down) /\ PathInv /\ down \in Seq(FileDatagrams)
      /\ UNCHANGED <<setup, expected, buffer>> /\ RecvWindow \in Nat /\ RecvWindow >= 1
      /\ Chunks \in Nat /\ expected \in Nat /\ expected <= Chunks
      /\ n <= Chunks + 1 /\ (setup.server # "G12" => n <= Chunks)
  BY SameNumber DEF LiveInv, DataInv, Facts, clientVars, HeldOrder, BoundsInv
<1>1. \A d \in Elems(down) : IsData(d) => Number(d) \in 0 .. Chunks
  BY <1>0, SeqElems, DownTypes
<1>2. CASE serving' = "sending" /\ Sends(in_flight')
  <2> DEFINE S == in_flight'
  <2>1. \A x \in S : x \in b .. n - 1
    OBVIOUS
  <2> HIDE DEF S
  <2>2. \A x \in S : x \in 0 .. Chunks
    BY <1>0, <2>1
  <2>3. ASSUME NEW x \in S
        PROVE  InReach(expected, DOMAIN buffer, x)
    <3>1. x \in Nat /\ b <= x /\ x < n
      BY <2>1, <2>3
    <3>2. x < expected + RecvWindow /\ expected <= x + RecvWindow
      BY <1>0, <3>1
    <3>3. \A k \in DOMAIN buffer : k < x + RecvWindow
      <4>1. ASSUME NEW k \in DOMAIN buffer
            PROVE  k < x + RecvWindow
        <5>1. k \in 0 .. n - 1
          OBVIOUS
        <5> QED
          BY <1>0, <3>1, <5>1
      <4> QED
        BY <4>1
    <3>4. x = Chunks => setup.server = "G12"
      BY <1>0, <3>1
    <3> QED
      BY <3>2, <3>3, <3>4 DEF InReach
  <2>4. \A x \in S, y \in S : y < x + RecvWindow
    BY <1>0, <2>1
  <2>5. ASSUME NEW x \in S, NEW d \in Elems(down), IsData(d)
        PROVE  Number(d) < x + RecvWindow
    <3> DEFINE c == Number(d)
    <3>1. c \in 0 .. Chunks /\ (c < n \/ Chunks = 0) /\ x \in b .. n - 1
      BY <1>1, <2>1, <2>5
    <3> HIDE DEF c
    <3>2. c < x + RecvWindow
      BY <1>0, <3>1
    <3> QED
      BY <3>2 DEF c
  <2>6. S \in SUBSET (0 .. Chunks) /\ Sends(S)
    BY <1>2, <2>2 DEF S
  <2>7. /\ DataOrdered(expected, DOMAIN buffer, down')
        /\ \A d \in Elems(down') : IsData(d) => d \in Elems(down) \/ Number(d) \in S
    BY <1>0, <2>3, <2>4, <2>5, <2>6, DataSent
  <2>8. ASSUME NEW d \in Elems(down'), IsData(d), Chunks > 0
        PROVE  Number(d) < n
    <3>1. CASE d \in Elems(down)
      BY <1>0, <2>8, <3>1
    <3>2. CASE Number(d) \in S
      <4>1. Number(d) \in b .. n - 1
        BY <2>1, <3>2
      <4> QED
        BY <4>1
    <3> QED
      BY <2>7, <2>8, <3>1, <3>2
  <2> QED
    BY <1>0, <2>7, <2>8, DataPrimed
<1>3. CASE serving' = "ending" /\ b = Chunks /\ Sends(in_flight' \cup {Chunks})
  <2>1. setup.server # "G12"
    BY <1>0, <1>3 DEF BoundsInv
  <2>2. in_flight' = {} /\ expected = Chunks
    <3>1. n <= Chunks /\ Chunks \in Nat /\ expected \in Nat /\ expected <= Chunks /\ b = Chunks
      BY <1>0, <1>3, <2>1
    <3>2. n <= b
      BY <3>1
    <3>3. in_flight' = {}
      BY <3>2, EmptyWindow
    <3>4. expected = Chunks
      BY <3>1
    <3> QED
      BY <3>3, <3>4
  <2>3. Sends({Chunks})
    BY <1>3, <2>2
  <2> QED
    BY <1>3, <2>2, <2>3, EndIsSent
<1> QED
  BY <1>2, <1>3

\* Before its return, group 2's server sends no empty packet.
LEMMA WindowRefused ==
    ASSUME Facts, LiveInv, BoundsInv', UNCHANGED <<setup, clientVars>>,
           NEW b \in Nat, NEW n \in Nat, n = next_seq', in_flight' \subseteq b .. n - 1,
           \/ serving' = "sending" /\ Sends(in_flight')
           \/ serving' = "ending" /\ Sends(in_flight' \cup {Chunks})
    PROVE  RefusedInv'
<1>0. /\ UNCHANGED <<setup, expected>> /\ RefusedInv /\ Chunks \in Nat
      /\ n <= Chunks + 1 /\ (setup.server # "G12" => n <= Chunks)
      /\ serving' = "ending" => setup.server = "G3"
  BY SameNumber DEF LiveInv, Facts, clientVars, BoundsInv
<1>1. GetsCut => setup.server = "G2"
  BY PlainGets DEF Facts
<1>2. ASSUME NEW x \in in_flight'
      PROVE  x \in 0 .. Chunks /\ (x = Chunks => setup.server = "G12")
  <2> DEFINE S == in_flight'
  <2>0. S \subseteq b .. n - 1 /\ x \in S
    BY <1>2
  <2> HIDE DEF S
  <2>1. x \in b .. n - 1 /\ x \in Nat /\ x < n
    <3>1. x \in b .. n - 1
      BY <2>0
    <3>2. \A m \in Nat : \A y \in b .. m - 1 : y \in Nat /\ y < m
      OBVIOUS
    <3> QED
      BY <3>1, <3>2, Zenon
  <2>2. x \in 0 .. Chunks
    BY <1>0, <2>1
  <2>3. x # Chunks \/ ~ (n <= Chunks)
    BY <1>0, <2>1
  <2> QED
    BY <1>0, <2>2, <2>3
<1>3. in_flight' \in SUBSET (0 .. Chunks) /\ (Chunks \in in_flight' => setup.server = "G12")
  BY <1>2
<1>4. CASE serving' = "sending" /\ Sends(in_flight')
  BY <1>0, <1>1, <1>3, <1>4, RefusedSent
<1>5. CASE serving' = "ending" /\ Sends(in_flight' \cup {Chunks})
  <2> DEFINE S == in_flight' \cup {Chunks}
  <2>1. S \in SUBSET (0 .. Chunks) /\ ~ GetsCut /\ Sends(S)
    BY <1>0, <1>1, <1>3, <1>5
  <2> HIDE DEF S
  <2> QED
    BY <1>0, <2>1, RefusedSent
<1> QED
  BY <1>4, <1>5

-----------------------------------------------------------------------------
\* What a server's step leaves alone.
LEMMA ServerLeaves ==
    ASSUME UNCHANGED <<setup, clientVars>>
    PROVE  /\ UNCHANGED <<setup, status, expected, buffer, saved, receiver>>
           /\ Chunks' = Chunks /\ Limit' = Limit
           /\ HeldOrder => HeldOrder'
           /\ AskInv => AskInv'
           /\ EndInv => EndInv'
<1>1. UNCHANGED <<setup, status, expected, buffer, saved, receiver>>
  BY DEF clientVars, receiver
<1>2. /\ Chunks' = Chunks /\ Limit' = Limit /\ EndOvertakes' = EndOvertakes
      /\ GetsCut' = GetsCut
  BY SameNumber
<1>3. HeldOrder => HeldOrder'
  BY <1>1, <1>2 DEF HeldOrder
<1>4. AskInv => AskInv'
  BY <1>1 DEF AskInv
<1>5. EndInv => EndInv'
  BY <1>1, <1>2 DEF EndInv
<1> QED
  BY <1>1, <1>2, <1>3, <1>4, <1>5

LEMMA QueueKept ==
    ASSUME QueueInv, UNCHANGED setup, ServerDoes
    PROVE  QueueInv'
<1> SUFFICES ASSUME setup.server # "G12"
             PROVE  queue' = queue
  BY DEF QueueInv
<1>1. ASSUME NEW b, Confirms(b)
      PROVE  UNCHANGED queue
  BY <1>1 DEF Confirms, Listens, TakesAck
<1> QED
  BY <1>1, Zenon DEF ServerDoes, DroppingServer, MissingServer, RefusingServer, StartingServer,
         QueueingServer, MovingServer, DoneServer, EndingServer, serverVars

LEMMA DroppingOrdered ==
    ASSUME Facts, LiveInv, UNCHANGED <<setup, clientVars>>, DroppingServer
    PROVE  LiveInv'
<1>0. /\ UNCHANGED <<setup, status, expected, buffer, serving, queue, base, next_seq, in_flight>>
      /\ \E d : Receives(d)
      /\ UNCHANGED down \/ (serving # "idle" /\ Sends({}))
      /\ Chunks' = Chunks /\ Limit' = Limit
  BY ServerLeaves DEF DroppingServer, serverVars, sender
<1>1. Thinned(up, up') /\ UpKeeps(base)
  BY <1>0, QuietUp
<1>2. StartInv' /\ GetInv'
  BY <1>0, <1>1, UpKept
<1>3. AckInv'
  <2>1. serving = "sending" /\ Limit > 0 => AcksOrdered(base, expected, queue, up')
    BY <1>1, AcksThinned DEF Facts, LiveInv, AckInv
  <2> QED
    BY <1>0, <2>1 DEF LiveInv, AckInv
<1>4. DataInv' /\ RefusedInv' /\ \A d \in Elems(down') : IsData(d) => d \in Elems(down)
  BY <1>0, NoneSent
<1>5. NextInv'
  BY <1>0, <1>4, SameNumber DEF LiveInv, NextInv
<1>6. IdleInv'
  <2>1. Elems(up') \subseteq Elems(up) \cup {Bad}
    BY <1>1, ThinnedElems
  <2>2. \A x \in Elems(up') : IsAck(x) => x \in Elems(up)
    BY <2>1, UpTypes
  <2>3. GetsCut' = GetsCut /\ \A x : IsData(x)' <=> IsData(x)
    BY <1>0, SameNumber
  <2>4. serving = "idle" => UNCHANGED down
    BY <1>0
  <2> QED
    BY <1>0, <1>1, <2>2, <2>3, <2>4 DEF LiveInv, IdleInv, UpKeeps
<1>7. OverInv'
  BY <1>0 DEF LiveInv, OverInv
<1> QED
  BY <1>2, <1>3, <1>4, <1>5, <1>6, <1>7 DEF LiveInv

LEMMA MissingOrdered ==
    ASSUME Facts, BoundsInv, LiveInv, HeldOrder, UNCHANGED <<setup, clientVars>>, MissingServer
    PROVE  LiveInv'
<1>0. /\ UNCHANGED <<setup, status, expected, buffer, queue, base, next_seq, in_flight>>
      /\ \E d : Receives(d)
      /\ setup.chunks = Missing /\ serving = "idle" /\ Sends({Chunks})
      /\ serving' = IF setup.server = "G12" THEN "over" ELSE "idle"
      /\ Chunks' = Chunks /\ Limit' = Limit
  BY ServerLeaves DEF MissingServer, sender
<1>1. Chunks = 0 /\ expected = 0 /\ expected = Chunks /\ DOMAIN buffer = {}
  <2>1. Chunks = 0
    BY <1>0 DEF Chunks
  <2>2. DOMAIN buffer = {}
    <3> DEFINE D == DOMAIN buffer
               n == Chunks
               b == 0
    <3>1. D \subseteq b .. n - 1 /\ b \in Nat /\ n \in Nat /\ n <= b
      BY <2>1 DEF HeldOrder
    <3> HIDE DEF D, n, b
    <3>2. D = {}
      BY <3>1, EmptyWindow
    <3> QED
      BY <3>2 DEF D
  <2> QED
    BY <2>1, <2>2 DEF Facts, HeldOrder
<1>2. base = 0 /\ next_seq = 0 /\ in_flight = {}
  <2>1. base = 0 /\ next_seq = 0 /\ in_flight \subseteq 0 .. next_seq - 1
    BY <1>0 DEF BoundsInv
  <2> QED
    BY <2>1, EmptyWindow
<1>3. UpKeeps(base)
  BY <1>0, QuietUp
<1>4. StartInv' /\ GetInv'
  BY <1>0, <1>3, UpKept
<1>5. AckInv'
  BY <1>0, <1>1, <1>2 DEF AckInv
<1>6. DataInv' /\ RefusedInv'
  BY <1>0, <1>1, EndIsSent
<1>7. NextInv' /\ IdleInv' /\ OverInv'
  BY <1>0, <1>1, <1>2 DEF NextInv, IdleInv, OverInv
<1> QED
  BY <1>4, <1>5, <1>6, <1>7 DEF LiveInv

\* A GET is answered when nothing has been, or when the file is empty.
LEMMA StartingOrdered ==
    ASSUME Facts, BoundsInv, BoundsInv', LiveInv, HeldOrder, QueueInv,
           UNCHANGED <<setup, clientVars>>, StartingServer
    PROVE  LiveInv'
<1>0. /\ UNCHANGED <<setup, status, expected, buffer, queue>>
      /\ serving = "idle" /\ Moves(0)
      /\ Chunks' = Chunks /\ Limit' = Limit
  BY ServerLeaves DEF StartingServer
<1>1. PICK d : IsGet(d) /\ Receives(d)
  BY DEF StartingServer, IsGet
<1>2. d \in Elems(up)
  BY <1>1, ArrivesThinned DEF Facts, Receives
<1>3. Thinned(up, up') /\ UpKeeps(base)
  BY <1>0, <1>1, QuietUp
<1>4. base = 0 /\ next_seq = 0 /\ in_flight \subseteq base .. next_seq - 1
  BY <1>0 DEF BoundsInv
<1>5. /\ expected = 0 /\ DOMAIN buffer = {}
      /\ \/ /\ queue = <<>>
            /\ \A x \in Elems(down) : ~ IsData(x)
            /\ \A x \in Elems(up) : ~ IsAck(x)
         \/ Chunks = 0 /\ setup.server # "G12"
  <2>1. CASE down = <<>> /\ status \in {"asking", "failed"}
    BY <2>1 DEF LiveInv, StartInv, Elems
  <2>4. CASE /\ GetsCut /\ expected = 0 /\ DOMAIN buffer = {}
             /\ \A x \in Elems(down) : ~ IsData(x)
             /\ \A x \in Elems(up) : ~ IsAck(x)
    <3>1. setup.server # "G12"
      BY <2>4, PlainGets DEF Facts
    <3> QED
      BY <2>4, <3>1 DEF QueueInv
  <2>2. CASE setup.server # "G12" /\ expected = Chunks /\ Chunks = 0
    <3>1. DOMAIN buffer = {}
      BY <2>2, EmptyWindow DEF HeldOrder
    <3> QED
      BY <2>2, <3>1
  <2>3. Chunks > 0 => \E x \in Elems(up) : IsGet(x)
    BY <1>1, <1>2
  <2> QED
    BY <1>0, <2>1, <2>2, <2>3, <2>4 DEF LiveInv, IdleInv, Facts
<1> DEFINE n == next_seq'
<1>6. /\ base' = 0 /\ n \in Nat /\ n <= 0 + RecvWindow /\ in_flight' \subseteq 0 .. n - 1
      /\ \/ serving' = "sending" /\ Sends(in_flight')
         \/ serving' = "ending" /\ 0 = Chunks /\ Sends(in_flight' \cup {Chunks})
  BY <1>0, <1>4 DEF Moves
<1> HIDE DEF n
<1>7. StartInv' /\ GetInv'
  BY <1>3, <1>6, UpKept
<1>8. DataInv' /\ (serving' = "sending" /\ Chunks > 0 =>
                     \A x \in Elems(down') : IsData(x) => Number(x) < n)
  <2>1. \A x \in Elems(down) : IsData(x) => Number(x) < n \/ Chunks = 0
    BY <1>5
  <2>2. n = next_seq'
    BY DEF n
  <2>3. 0 \in Nat /\ 0 <= expected /\ expected <= n /\ DOMAIN buffer \subseteq 0 .. n - 1
    BY <1>5, <1>6
  <2> DEFINE b == 0
  <2>4. /\ b \in Nat /\ b <= expected /\ n <= b + RecvWindow /\ in_flight' \subseteq b .. n - 1
        /\ \/ serving' = "sending" /\ Sends(in_flight')
           \/ serving' = "ending" /\ b = Chunks /\ Sends(in_flight' \cup {Chunks})
    BY <1>6, <2>3
  <2> HIDE DEF b
  <2> QED
    BY <1>6, <2>1, <2>2, <2>3, <2>4, WindowSent
<1>9. NextInv'
  <2>1. expected <= n /\ DOMAIN buffer \subseteq 0 .. n - 1
    BY <1>5, <1>6
  <2> QED
    BY <1>0, <1>6, <1>8, <2>1, SameNumber DEF NextInv, n
<1>10. AckInv'
  <2>1. CASE Chunks = 0 /\ setup.server # "G12"
    BY <1>0, <1>5, <1>6, <2>1 DEF AckInv, Facts
  <2>2. CASE queue = <<>> /\ \A x \in Elems(up) : ~ IsAck(x)
    <3>1. Elems(up') \subseteq Elems(up) \cup {Bad} /\ up' \in Seq(OpenUp)
      BY <1>1, <1>3, ThinnedElems, ArrivesThinned DEF Facts, Receives
    <3>2. \A x \in Elems(up') : ~ IsAck(x)
      BY <2>2, <3>1, UpTypes
    <3>3. AcksOrdered(base', expected, <<>>, up')
      BY <3>1, <3>2, NoAcksOrdered
    <3> QED
      BY <1>0, <1>5, <1>6, <2>2, <3>3 DEF AckInv
  <2> QED
    BY <1>5, <2>1, <2>2
<1>11. IdleInv' /\ OverInv'
  BY <1>6 DEF IdleInv, OverInv
<1>12. RefusedInv'
  <2> DEFINE b == 0
  <2>1. b \in Nat /\ n = next_seq' /\ in_flight' \subseteq b .. n - 1
    BY <1>6 DEF n
  <2> HIDE DEF b
  <2> QED
    BY <1>6, <2>1, WindowRefused
<1> QED
  BY <1>7, <1>8, <1>9, <1>10, <1>11, <1>12 DEF LiveInv

\* The answer to a GET that was cut: before any other, or of an empty file.
LEMMA RefusingOrdered ==
    ASSUME Facts, TypesInv, LiveInv, HeldOrder, UNCHANGED <<setup, clientVars>>, RefusingServer
    PROVE  LiveInv'
<1>0. /\ UNCHANGED <<setup, status, expected, buffer, serving, queue, base, next_seq, in_flight>>
      /\ serving = "idle" /\ Receives(CutGet)
      /\ down' = Sent(down, <<NoFile>>)
      /\ Chunks' = Chunks /\ Limit' = Limit
      /\ setup.server = "G2"
  BY ServerLeaves DEF RefusingServer, serverVars, sender
<1>1. /\ GetsCut /\ NoFile \in FileDatagrams /\ Refused(NoFile) /\ ~ IsData(NoFile)
      /\ down \in Seq(FileDatagrams) /\ Elems(down) \subseteq FileDatagrams
  BY RefusedIs, SeqElems DEF FileDatagrams, Carries, Refused, IsData, Facts
<1>2. Thinned(up, up') /\ UpKeeps(base)
  BY <1>0, QuietUp
<1>3. StartInv' /\ GetInv'
  BY <1>0, <1>2, UpKept
<1>4. CutGet \in Elems(up) /\ IsGet(CutGet)
  BY <1>0, ArrivesThinned, UpTypes DEF Facts, Receives
<1>5. /\ Elems(up') \subseteq Elems(up) \cup {Bad}
      /\ Elems(down') \subseteq Elems(down) \cup {NoFile}
  <2>1. Elems(up') \subseteq Elems(up) \cup {Bad}
    BY <1>2, ThinnedElems
  <2>2. <<NoFile>> \in Seq(FileDatagrams) /\ Elems(<<NoFile>>) = {NoFile}
    BY <1>1, OneElem
  <2> QED
    BY <1>0, <1>1, <2>1, <2>2, SentElems
<1>6. /\ expected = 0
      /\ \/ Chunks = 0
         \/ /\ DOMAIN buffer = {}
            /\ \A x \in Elems(down) : ~ IsData(x)
            /\ \A x \in Elems(up) : ~ IsAck(x)
  <2>1. CASE down = <<>> /\ status \in {"asking", "failed"}
    BY <2>1 DEF LiveInv, StartInv, Elems
  <2>2. CASE Chunks > 0 => \A x \in Elems(up) : ~ IsGet(x)
    BY <1>4, <2>2 DEF Facts, HeldOrder
  <2> QED
    BY <1>0, <2>1, <2>2 DEF LiveInv, IdleInv
<1>7. DataInv'
  <2>1. \A x \in Elems(down) : <<x, NoFile>> \in Near
    BY <1>1 DEF Near
  <2>2. Chain(down, Near)
    BY DEF LiveInv, DataInv, DataOrdered
  <2>3. Chain(down', Near)
    BY <1>0, <1>1, <2>1, <2>2, ChainOneSent
  <2>4. DataOrdered(expected, DOMAIN buffer, down')
    BY <1>1, <1>5, <2>3 DEF LiveInv, DataInv, DataOrdered
  <2> QED
    BY <1>0, <2>4, DataPrimed
<1>8. RefusedInv'
  <2>1. CASE Chunks = 0
    <3>1. expected' = Chunks /\ Chunks % SeqCount = 0
      BY <1>0, <1>6, <2>1, NumbersType
    <3> QED
      BY <1>0, <3>1, RefusedPrimed
  <2>2. CASE \A x \in Elems(down) : ~ IsData(x)
    <3>1. \A x \in Elems(down') : x \in FileDatagrams /\ ~ IsData(x)
      BY <1>1, <1>5, <2>2
    <3>2. Chain(down', NotBehindData)
      BY <3>1 DEF Chain, NotBehindData, Elems
    <3> QED
      BY <1>0, <1>6, <3>2, RefusedPrimed
  <2> QED
    BY <1>6, <2>1, <2>2
<1>9. AckInv' /\ NextInv' /\ OverInv'
  BY <1>0 DEF LiveInv, AckInv, NextInv, OverInv
<1>10. IdleInv'
  <2>1. CASE Chunks = 0
    BY <1>0, <1>6, <2>1 DEF IdleInv
  <2>2. CASE /\ DOMAIN buffer = {}
             /\ \A x \in Elems(down) : ~ IsData(x)
             /\ \A x \in Elems(up) : ~ IsAck(x)
    <3>1. \A x \in Elems(down') : ~ IsData(x)
      BY <1>1, <1>5, <2>2
    <3>2. \A x \in Elems(up') : ~ IsAck(x)
      BY <1>5, <2>2, UpTypes
    <3> QED
      BY <1>0, <1>1, <1>6, <2>2, <3>1, <3>2, SameNumber DEF IdleInv
  <2> QED
    BY <1>6, <2>1, <2>2
<1> QED
  BY <1>3, <1>7, <1>8, <1>9, <1>10 DEF LiveInv

LEMMA QueueingOrdered ==
    ASSUME InOrder, Facts, LiveInv, UNCHANGED <<setup, clientVars>>, QueueingServer
    PROVE  LiveInv'
<1>0. /\ UNCHANGED <<setup, status, expected, buffer, serving, base, next_seq, in_flight, down>>
      /\ setup.server = "G12" /\ serving = "sending"
      /\ Chunks' = Chunks /\ Limit' = Limit
  BY ServerLeaves DEF QueueingServer, sender
<1>1. PICK d : IsAck(d) /\ Receives(d) /\ queue' = Append(queue, d)
  BY DEF QueueingServer, IsAck
<1>2. UpKeeps(base)
  BY <1>1, AckUp
<1>3. StartInv' /\ GetInv'
  BY <1>0, <1>2, UpKept
<1>4. AckInv'
  <2>1. AcksOrdered(base, expected, queue, up) /\ base <= expected
    BY <1>0 DEF LiveInv, AckInv, Facts
  <2>2. AcksOrdered(base, expected, Append(queue, d), up')
    BY <1>1, <2>1, AcksQueued DEF Facts, Receives
  <2> QED
    BY <1>0, <1>1, <2>1, <2>2 DEF AckInv
<1>5. DataInv' /\ RefusedInv'
  BY <1>0, NoneSent
<1>6. NextInv' /\ IdleInv' /\ OverInv'
  BY <1>0, SameNumber DEF LiveInv, NextInv, IdleInv, OverInv
<1> QED
  BY <1>3, <1>4, <1>5, <1>6 DEF LiveInv

LEMMA MovingOrdered ==
    ASSUME InOrder, Facts, BoundsInv, BoundsInv', LiveInv, HeldOrder, QueueInv,
           UNCHANGED <<setup, clientVars>>, MovingServer
    PROVE  LiveInv'
<1>0. /\ UNCHANGED <<setup, status, expected, buffer>> /\ serving = "sending"
      /\ Chunks' = Chunks /\ Limit' = Limit
  BY ServerLeaves DEF MovingServer
<1>1. PICK b : Confirms(b) /\ Moves(b)
  BY DEF MovingServer
<1>2. /\ b \in Nat /\ base <= b /\ b <= expected
      /\ Limit > 0 => AcksOrdered(b, expected, queue', up')
      /\ UpKeeps(b)
  BY <1>0, <1>1, ConfirmsSound
<1>3. /\ expected <= next_seq /\ DOMAIN buffer \subseteq 0 .. next_seq - 1
      /\ in_flight \subseteq base .. next_seq - 1
      /\ Chunks > 0 => \A x \in Elems(down) : IsData(x) => Number(x) < next_seq
  BY <1>0 DEF LiveInv, NextInv
<1> DEFINE n == next_seq'
<1>4. b <= next_seq /\ next_seq \in Nat /\ expected \in Nat
  BY <1>2, <1>3 DEF Facts
<1>5. /\ base' = b /\ n \in Nat /\ next_seq <= n /\ n <= b + RecvWindow /\ in_flight' \subseteq b .. n - 1
      /\ \/ serving' = "sending" /\ Sends(in_flight')
         \/ serving' = "ending" /\ b = Chunks /\ Sends(in_flight' \cup {Chunks})
  BY <1>1, <1>3, <1>4 DEF Moves
<1>6. n = next_seq'
  OBVIOUS
<1> HIDE DEF n
<1>7. StartInv' /\ GetInv'
  BY <1>2, <1>5, UpKept
<1>8. expected <= n /\ DOMAIN buffer \subseteq 0 .. n - 1
  BY <1>3, <1>4, <1>5
<1>9. DataInv' /\ (serving' = "sending" /\ Chunks > 0 =>
                     \A x \in Elems(down') : IsData(x) => Number(x) < n)
  <2>1. ASSUME NEW x \in Elems(down), IsData(x)
        PROVE  Number(x) < n \/ Chunks = 0
    <3>1. Number(x) \in 0 .. Chunks
      BY <2>1, SeqElems, DownTypes DEF Facts
    <3>2. CASE Chunks > 0
      <4>1. Number(x) < next_seq
        BY <1>3, <2>1, <3>2
      <4> QED
        BY <1>4, <1>5, <3>1, <4>1
    <3>3. CASE ~ (Chunks > 0)
      BY <3>3 DEF Facts
    <3> QED
      BY <3>2, <3>3
  <2> QED
    BY <1>2, <1>5, <1>6, <1>8, <2>1, WindowSent
<1>10. NextInv'
  BY <1>0, <1>5, <1>8, <1>9, SameNumber DEF NextInv, n
<1>11. AckInv'
  BY <1>0, <1>2, <1>5 DEF AckInv
<1>12. IdleInv' /\ OverInv'
  BY <1>5 DEF IdleInv, OverInv
<1>13. RefusedInv'
  BY <1>2, <1>5, <1>6, WindowRefused
<1> QED
  BY <1>7, <1>9, <1>10, <1>11, <1>12, <1>13 DEF LiveInv

LEMMA DoneOrdered ==
    ASSUME InOrder, Facts, LiveInv, HeldOrder, QueueInv, UNCHANGED <<setup, clientVars>>, DoneServer
    PROVE  LiveInv'
<1>0. /\ UNCHANGED <<setup, status, expected, buffer>> /\ serving = "sending"
      /\ Chunks' = Chunks /\ Limit' = Limit
      /\ Chunks \in Nat /\ expected \in Nat /\ expected <= Chunks
  BY ServerLeaves DEF DoneServer, Facts, HeldOrder
<1>1. setup.server # "G12"
  <2>1. ASSUME setup.server = "G12"
        PROVE  FALSE
    <3>1. queue # <<>> /\ G12Confirmed(base, next_seq, Head(queue).seq) = G12Count /\ queue \in Seq(OpenAcks)
      BY <2>1 DEF DoneServer, Facts
    <3>2. Limit > 0 /\ G12Count = Chunks + 1
      BY <2>1, ChunksType DEF Facts, G12Count
    <3>3. AcksOrdered(base, expected, queue, up) /\ base <= expected
      BY <1>0, <3>2 DEF LiveInv, AckInv
    <3>4. /\ Says(base, Head(queue)) \in Nat /\ base <= Says(base, Head(queue))
          /\ Says(base, Head(queue)) <= expected
      BY <1>0, <3>1, <3>3, QueueAcksTaken DEF Facts
    <3>5. \/ G12Confirmed(base, next_seq, Head(queue).seq) = Says(base, Head(queue))
          \/ G12Confirmed(base, next_seq, Head(queue).seq) = base
      BY DEF G12Confirmed, Says
    <3> QED
      BY <1>0, <3>1, <3>2, <3>3, <3>4, <3>5
  <2> QED
    BY <2>1
<1>2. next_seq = Chunks /\ Confirms(next_seq) /\ Return("idle") /\ Sends({Chunks})
  BY <1>1 DEF DoneServer
<1>3. /\ next_seq <= expected /\ UpKeeps(next_seq)
      /\ next_seq = base \/ \A x \in Elems(up') : ~ IsGet(x)
  BY <1>0, <1>2, ConfirmsSound
<1>4. expected = Chunks
  BY <1>0, <1>2, <1>3
<1>5. serving' = "idle" /\ base' = 0
  BY <1>2 DEF Return
<1>6. StartInv' /\ GetInv'
  BY <1>3, <1>5, UpKept
<1>7. AckInv' /\ NextInv' /\ OverInv'
  BY <1>0, <1>5 DEF AckInv, NextInv, OverInv
<1>8. DataInv' /\ RefusedInv'
  BY <1>2, <1>4, EndIsSent
<1>9. IdleInv'
  <2>1. Chunks > 0 => \A x \in Elems(up') : ~ IsGet(x)
    BY <1>2, <1>3 DEF UpKeeps
  <2> QED
    BY <1>0, <1>1, <1>4, <2>1 DEF IdleInv
<1> QED
  BY <1>6, <1>7, <1>8, <1>9 DEF LiveInv

LEMMA EndingServerOrdered ==
    ASSUME Facts, BoundsInv, LiveInv, HeldOrder, UNCHANGED <<setup, clientVars>>, EndingServer
    PROVE  LiveInv'
<1>0. /\ UNCHANGED <<setup, status, expected, buffer, queue>> /\ serving = "ending"
      /\ (UNCHANGED up \/ \E d : Receives(d)) /\ (UNCHANGED down \/ Sends({Chunks}))
      /\ \/ serving' = "idle" /\ base' = 0
         \/ UNCHANGED <<serving, base, next_seq, in_flight>>
      /\ Chunks' = Chunks /\ Limit' = Limit
  BY ServerLeaves DEF EndingServer, Return
<1>1. base = Chunks /\ setup.server # "G12"
  BY <1>0 DEF BoundsInv
<1>2. expected = Chunks
  BY <1>1 DEF Facts, HeldOrder, LiveInv, AckInv
<1>3. UpKeeps(base)
  BY <1>0, QuietUp
<1>4. StartInv' /\ GetInv'
  BY <1>0, <1>3, UpKept
<1>5. DataInv' /\ RefusedInv'
  BY <1>0, <1>2, EndIsSent
<1>6. AckInv'
  BY <1>0, <1>1, <1>2 DEF AckInv, Facts
<1>7. NextInv' /\ OverInv'
  BY <1>0 DEF LiveInv, NextInv, OverInv
<1>8. IdleInv'
  <2>1. Chunks > 0 => \A x \in Elems(up') : ~ IsGet(x)
    BY <1>1, <1>3 DEF UpKeeps
  <2> QED
    BY <1>0, <1>1, <1>2, <2>1 DEF IdleInv
<1> QED
  BY <1>4, <1>5, <1>6, <1>7, <1>8 DEF LiveInv

LEMMA ServerStepOrdered ==
    ASSUME InOrder, TypesInv, BoundsInv', Ordered, UNCHANGED <<setup, clientVars>>, ServerDoes
    PROVE  Ordered'
<1>0. Facts /\ BoundsInv /\ HeldOrder /\ QueueInv /\ status' = status
  BY StepFacts, ServerLeaves DEF TypesInv, Ordered
<1>1. HeldOrder' /\ AskInv' /\ EndInv' /\ QueueInv'
  BY ServerLeaves, QueueKept DEF Ordered
<1>2. ASSUME status # "complete"
      PROVE  LiveInv'
  <2>1. LiveInv
    BY <1>2 DEF Ordered
  <2> QED
    BY <1>0, <2>1, DroppingOrdered, MissingOrdered, RefusingOrdered, StartingOrdered,
       QueueingOrdered, MovingOrdered, DoneOrdered, EndingServerOrdered DEF ServerDoes
<1> QED
  BY <1>0, <1>1, <1>2 DEF Ordered

-----------------------------------------------------------------------------
\* The path's steps: what is on its way in one direction is thinned, or a GET
\* is cut.
LEMMA PathThins ==
    ASSUME TypesInv, PathStep
    PROVE  /\ UNCHANGED <<setup, clientVars, serverVars>>
           /\ \/ UNCHANGED down /\ (Thinned(up, up') \/ CutsGet)
              \/ UNCHANGED up /\ Thinned(down, down') /\ down # <<>>
<1>0. up \in Seq(OpenUp) /\ down \in Seq(FileDatagrams)
  BY DEF TypesInv, PeerInv, PathInv, DownInv
<1>1. ASSUME NEW S, NEW q \in Seq(S), NEW r, Spoils(q, r)
      PROVE  Thinned(q, r) /\ q # <<>>
  <2>1. PICK i \in DOMAIN q : r = RemoveAt(q, i) \/ r = [q EXCEPT ![i] = Bad]
    BY <1>1 DEF Spoils
  <2>2. Thinned(q, RemoveAt(q, i)) /\ Thinned(q, [q EXCEPT ![i] = Bad])
    BY ThinnedRemoved, ThinnedDamaged
  <2>3. q # <<>>
    BY <2>1
  <2> QED
    BY <2>1, <2>2, <2>3
<1> QED
  BY <1>0, <1>1, PathStepDoes

\* A GET that is cut stays where it is, and stays a GET.
LEMMA CutChain ==
    ASSUME up \in Seq(OpenUp), CutsGet
    PROVE  /\ up' \in Seq(OpenUp) /\ Get \in Elems(up) /\ Elems(up') \subseteq Elems(up) \cup {CutGet}
           /\ \A R : Chain(up, R) /\ (\A x \in Elems(up) : /\ <<x, Get>> \in R => <<x, CutGet>> \in R
                                                           /\ <<Get, x>> \in R => <<CutGet, x>> \in R)
                    => Chain(up', R)
<1>1. PICK k \in DOMAIN up : up[k] = Get /\ up' = [up EXCEPT ![k] = CutGet]
  BY DEF CutsGet
<1>2. up' \in Seq(OpenUp)
  BY CutsElements
<1>3. DOMAIN up' = DOMAIN up /\ \A i \in DOMAIN up : up'[i] = IF i = k THEN CutGet ELSE up[i]
  BY <1>1
<1>4. Get \in Elems(up) /\ Elems(up') \subseteq Elems(up) \cup {CutGet}
  BY <1>1, <1>3 DEF Elems
<1>5. ASSUME NEW R, Chain(up, R),
             \A x \in Elems(up) : /\ <<x, Get>> \in R => <<x, CutGet>> \in R
                                  /\ <<Get, x>> \in R => <<CutGet, x>> \in R
      PROVE  Chain(up', R)
  <2>1. ASSUME NEW i \in DOMAIN up, NEW j \in DOMAIN up, i < j
        PROVE  <<up'[i], up'[j]>> \in R
    <3>1. <<up[i], up[j]>> \in R /\ up[i] \in Elems(up) /\ up[j] \in Elems(up)
      BY <1>5, <2>1 DEF Chain, Elems
    <3>2. DOMAIN up = 1 .. Len(up)
      BY LenProperties
    <3>3. i # j
      BY <2>1, <3>2
    <3>4. CASE i = k
      <4>1. up[i] = Get /\ up'[i] = CutGet /\ up'[j] = up[j]
        BY <1>1, <1>3, <3>3, <3>4
      <4>2. <<Get, up[j]>> \in R => <<CutGet, up[j]>> \in R
        BY <1>5, <3>1
      <4>3. <<Get, up[j]>> \in R
        BY <3>1, <4>1, Zenon
      <4>4. <<CutGet, up[j]>> \in R
        BY <4>2, <4>3
      <4> QED
        BY <4>1, <4>4, Zenon
    <3>5. CASE j = k
      <4>1. up[j] = Get /\ up'[j] = CutGet /\ up'[i] = up[i]
        BY <1>1, <1>3, <3>3, <3>5
      <4>2. <<up[i], Get>> \in R => <<up[i], CutGet>> \in R
        BY <1>5, <3>1
      <4>3. <<up[i], Get>> \in R
        BY <3>1, <4>1, Zenon
      <4>4. <<up[i], CutGet>> \in R
        BY <4>2, <4>3
      <4> QED
        BY <4>1, <4>4, Zenon
    <3>6. CASE i # k /\ j # k
      BY <1>3, <3>1, <3>6
    <3> QED
      BY <3>4, <3>5, <3>6
  <2> QED
    BY <1>3, <2>1 DEF Chain
<1> QED
  BY <1>2, <1>4, <1>5

LEMMA CutOrdered ==
    ASSUME Facts, LiveInv, UNCHANGED <<setup, clientVars, serverVars, down>>, CutsGet
    PROVE  LiveInv'
<1>0. /\ UNCHANGED <<setup, status, expected, buffer, serving, queue, base, next_seq, in_flight>>
      /\ Chunks' = Chunks /\ Limit' = Limit /\ GetsCut' = GetsCut
  BY SameNumber DEF clientVars, serverVars, sender
<1>1. /\ up \in Seq(OpenUp) /\ up' \in Seq(OpenUp) /\ queue \in Seq(OpenAcks)
      /\ Get \in Elems(up) /\ Elems(up') \subseteq Elems(up) \cup {CutGet}
      /\ Elems(up) \subseteq OpenUp /\ Elems(queue) \subseteq OpenUp
  BY CutChain, SeqElems, UpTypes DEF Facts
<1>2. \A x \in Elems(up') : IsAck(x) => x \in Elems(up)
  BY <1>1, UpTypes
<1>3. \A b : \A x \in OpenUp : <<x, CutGet>> \in InTurn(b) /\ <<CutGet, x>> \in InTurn(b)
  BY UpTypes DEF InTurn
<1>4. \A b : Chain(up, InTurn(b)) => Chain(up', InTurn(b))
  BY <1>1, <1>3, CutChain
<1>5. Chain(up', NoGetAfter)
  <2>1. \A x \in OpenUp : <<x, Get>> \in NoGetAfter => <<x, CutGet>> \in NoGetAfter
    BY UpTypes DEF NoGetAfter
  <2>2. \A x \in OpenUp : <<Get, x>> \in NoGetAfter => <<CutGet, x>> \in NoGetAfter
    BY UpTypes DEF NoGetAfter
  <2>3. Chain(up, NoGetAfter)
    BY DEF LiveInv, GetInv
  <2>4. \A x \in Elems(up) : x \in OpenUp
    BY <1>1
  <2> QED
    BY <2>1, <2>2, <2>3, <2>4, CutChain, <1>1
<1>6. StartInv'
  BY <1>0, <1>2 DEF LiveInv, StartInv
<1>7. GetInv'
  BY <1>0, <1>1, <1>5, UpTypes DEF LiveInv, GetInv
<1>8. AckInv'
  <2>1. ASSUME AcksOrdered(base, expected, queue, up)
        PROVE  AcksOrdered(base, expected, queue, up')
    <3>1. Chain(up', InTurn(base))
      BY <1>4, <2>1 DEF AcksOrdered
    <3>2. \A x \in Elems(queue), y \in Elems(up') : <<x, y>> \in InTurn(base)
      BY <1>1, <1>3, <2>1 DEF AcksOrdered
    <3> QED
      BY <1>2, <2>1, <3>1, <3>2 DEF AcksOrdered
  <2> QED
    BY <1>0, <2>1 DEF LiveInv, AckInv
<1>9. NextInv' /\ DataInv'
  <2>1. DataOrdered(expected', DOMAIN buffer', down')
    BY <1>0 DEF LiveInv, DataInv
  <2>2. NextInv'
    BY <1>0, SameNumber DEF LiveInv, NextInv
  <2> QED
    BY <1>0, <2>1, <2>2, DataPrimed
<1>10. RefusedInv'
  BY <1>0, RefusedPrimed DEF LiveInv, RefusedInv
<1>11. IdleInv' /\ OverInv'
  <2>1. Chunks > 0 /\ (\A x \in Elems(up) : ~ IsGet(x)) => FALSE
    BY <1>1, UpTypes
  <2> QED
    BY <1>0, <1>2, <2>1, SameNumber DEF LiveInv, IdleInv, OverInv
<1> QED
  BY <1>6, <1>7, <1>8, <1>9, <1>10, <1>11 DEF LiveInv

LEMMA PathStepOrdered ==
    ASSUME TypesInv, Ordered, PathStep
    PROVE  Ordered'
<1>0. /\ UNCHANGED <<setup, status, expected, buffer, serving, queue, base, next_seq, in_flight>>
      /\ Facts /\ HeldOrder /\ AskInv /\ QueueInv /\ EndInv
      /\ Chunks' = Chunks /\ Limit' = Limit /\ EndOvertakes' = EndOvertakes /\ GetsCut' = GetsCut
  BY PathThins, SameNumber, StepFacts DEF clientVars, serverVars, sender, Ordered
<1>1. HeldOrder' /\ AskInv' /\ QueueInv' /\ EndInv'
  BY <1>0 DEF HeldOrder, AskInv, QueueInv, EndInv
<1>2. ASSUME LiveInv, UNCHANGED down, Thinned(up, up')
      PROVE  LiveInv'
  <2>1. Elems(up') \subseteq Elems(up) \cup {Bad} /\ ~ IsAck(Bad) /\ ~ IsGet(Bad)
    BY <1>2, ThinnedElems, UpTypes
  <2>2. StartInv'
    BY <1>0, <1>2, <2>1 DEF LiveInv, StartInv
  <2>3. Chain(up', NoGetAfter)
    BY <1>0, <1>2, GetsThinned DEF Facts, LiveInv, GetInv
  <2>4. GetInv'
    BY <1>0, <1>2, <2>1, <2>3 DEF LiveInv, GetInv
  <2>5. serving = "sending" /\ Limit > 0 => AcksOrdered(base, expected, queue, up')
    BY <1>0, <1>2, AcksThinned DEF Facts, LiveInv, AckInv
  <2>6. AckInv'
    BY <1>0, <1>2, <2>5 DEF LiveInv, AckInv
  <2>7. NextInv' /\ DataInv'
    <3>1. DataOrdered(expected', DOMAIN buffer', down')
      BY <1>0, <1>2 DEF LiveInv, DataInv
    <3>2. NextInv'
      BY <1>0, <1>2, SameNumber DEF LiveInv, NextInv
    <3> QED
      BY <1>0, <3>1, <3>2, DataPrimed
  <2>8. IdleInv' /\ OverInv'
    BY <1>0, <1>2, <2>1, SameNumber DEF LiveInv, IdleInv, OverInv
  <2>9. RefusedInv'
    BY <1>0, <1>2, RefusedPrimed DEF LiveInv, RefusedInv
  <2> QED
    BY <2>2, <2>4, <2>6, <2>7, <2>8, <2>9 DEF LiveInv
<1>3. ASSUME LiveInv, UNCHANGED up, Thinned(down, down'), down # <<>>
      PROVE  LiveInv'
  <2>1. Elems(down') \subseteq Elems(down) \cup {Bad} /\ ~ IsData(Bad)
    BY <1>3, ThinnedElems, UpTypes
  <2>2. StartInv' /\ GetInv' /\ AckInv'
    BY <1>0, <1>3, SameNumber DEF LiveInv, StartInv, GetInv, AckInv
  <2>3. DataOrdered(expected, DOMAIN buffer, down')
    BY <1>0, <1>3, DataThinned DEF Facts, LiveInv, DataInv
  <2>4. DataInv'
    BY <1>0, <2>3, DataPrimed
  <2>5. NextInv'
    BY <1>0, <1>3, <2>1, SameNumber DEF LiveInv, NextInv
  <2>6. IdleInv' /\ OverInv'
    <3>1. \A x \in Elems(down') : IsData(x) => x \in Elems(down)
      BY <2>1
    <3> QED
      BY <1>0, <1>3, <3>1, SameNumber DEF LiveInv, IdleInv, OverInv
  <2>7. RefusedInv'
    BY <1>0, <1>3, RefusedThinned DEF LiveInv
  <2> QED
    BY <2>2, <2>4, <2>5, <2>6, <2>7 DEF LiveInv
<1>4. LiveInv => LiveInv'
  BY <1>0, <1>2, <1>3, PathThins, CutOrdered
<1> QED
  BY <1>0, <1>1, <1>4 DEF Ordered

LEMMA PathStepFits ==
    ASSUME TypesInv, FitInv, PathStep
    PROVE  FitInv'
<1> SUFFICES ASSUME OldAcksTold, status # "complete"
             PROVE  down' \in Seq(Carries(Within(expected)))
  <2>1. UNCHANGED <<setup, status, expected>>
    BY PathThins DEF clientVars
  <2> QED
    BY <2>1, SameCarries, SameSettings, SetupKeeps DEF FitInv
<1>1. down \in Seq(Carries(Within(expected))) /\ Bad \in Carries(Within(expected))
  BY DEF FitInv, Carries
<1> DEFINE T == Carries(Within(expected))
<1> HIDE DEF T
<1>2. down \in Seq(T) /\ Bad \in T
  BY <1>1 DEF T
<1>3. UNCHANGED down \/ Spoils(down, down')
  BY PathStepDoes
<1>4. down' \in Seq(T)
  BY <1>2, <1>3, SpoilsElements
<1> QED
  BY <1>4 DEF T

(***************************************************************************)
(* The invariant: with the types, OldAckInv and FitInv for G12's server over *)
(* any path, OrderInv over one that keeps the order, and what the client   *)
(* keeps, which needs one or the other, or a short file.                   *)
(***************************************************************************)
SavedInv ==
    /\ TypesInv /\ OldAckInv /\ FitInv /\ OrderInv
    /\ InOrder \/ FitsNumbers => ContentInv

LEMMA InitSaved == Init => SavedInv
<1> SUFFICES ASSUME Init
             PROVE  SavedInv
  OBVIOUS
<1>0. TypesInv /\ OldAckInv /\ Facts
  BY InitTypes, InitSound, StepFacts
<1>1. /\ expected = 0 /\ DOMAIN buffer = {} /\ saved = <<>> /\ status = "asking"
      /\ up = <<Get>> /\ down = <<>> /\ queue = <<>>
      /\ serving = "idle" /\ base = 0
  BY DEF Init, ClientInit, ServerInit, NoPayloads
<1>2. FitInv
  BY <1>1 DEF FitInv
<1>3. ContentInv
  BY <1>0, <1>1 DEF ContentInv, Least, Facts
<1>4. Ordered
  <2>1. Elems(up) = {Get} /\ ~ IsAck(Get) /\ Elems(down) = {}
    BY <1>1, OneElem DEF IsAck, Get, Elems
  <2>2. Chain(up, NoGetAfter)
    <3>1. DOMAIN up = {1}
      BY <1>1
    <3> QED
      BY <3>1 DEF Chain
  <2>3. StartInv /\ GetInv
    BY <1>1, <2>1, <2>2 DEF StartInv, GetInv
  <2>4. DataInv
    BY <1>1, <2>1 DEF DataInv, DataOrdered, Chain
  <2>5. AckInv /\ NextInv /\ RefusedInv /\ IdleInv /\ OverInv
    BY <1>1, <2>1 DEF AckInv, NextInv, RefusedInv, IdleInv, OverInv
  <2>6. HeldOrder /\ AskInv /\ QueueInv /\ EndInv
    BY <1>0, <1>1 DEF HeldOrder, AskInv, QueueInv, EndInv, Facts
  <2> QED
    BY <2>3, <2>4, <2>5, <2>6 DEF Ordered, LiveInv
<1> QED
  BY <1>0, <1>2, <1>3, <1>4 DEF SavedInv, OrderInv

LEMMA StutterSaved ==
    ASSUME SavedInv, UNCHANGED vars, TypesInv', OldAckInv'
    PROVE  SavedInv'
<1>0. /\ UNCHANGED <<setup, up, down, status, expected, buffer, saved>>
      /\ UNCHANGED <<serving, queue, base, next_seq, in_flight>>
  BY DEF vars, netVars, clientVars, serverVars, sender
<1>1. FitInv'
  BY <1>0, SameCarries, SameSettings, SetupKeeps DEF SavedInv, FitInv
<1>2. ContentInv => ContentInv'
  BY <1>0, ContentSame DEF receiver
<1>3. Ordered => Ordered'
  <2>1. StartInv' = StartInv /\ GetInv' = GetInv /\ OverInv' = OverInv /\ AskInv' = AskInv
    BY <1>0 DEF StartInv, GetInv, OverInv, AskInv
  <2>2. AckInv' = AckInv /\ IdleInv' = IdleInv
    BY <1>0, SameNumber DEF AckInv, IdleInv
  <2>3. NextInv => NextInv'
    BY <1>0, SameNumber DEF NextInv
  <2>4. (DataInv => DataInv') /\ (RefusedInv => RefusedInv')
    BY <1>0, DataPrimed, RefusedPrimed DEF DataInv, RefusedInv
  <2>5. HeldOrder' = HeldOrder /\ QueueInv' = QueueInv /\ EndInv' = EndInv
    BY <1>0, SameNumber DEF HeldOrder, QueueInv, EndInv
  <2> QED
    BY <1>0, <2>1, <2>2, <2>3, <2>4, <2>5 DEF Ordered, LiveInv
<1> QED
  BY <1>0, <1>1, <1>2, <1>3, SameSettings DEF SavedInv, OrderInv

LEMMA NextSaved == SavedInv /\ [Next]_vars => SavedInv'
<1> SUFFICES ASSUME SavedInv, [Next]_vars
             PROVE  SavedInv'
  OBVIOUS
<1>0. TypesInv /\ TypesInv' /\ OldAckInv /\ OldAckInv' /\ FitInv
  BY NextTypes, NextSound DEF SavedInv, TypesInv
<1>1. PeerInv /\ PeerInv' /\ BoundsInv /\ BoundsInv' /\ tries \in 1 .. GetTries
  BY <1>0 DEF TypesInv, ClientTypes
<1>2. CASE ClientStep
  <2>1. ClientDoes /\ UNCHANGED <<setup, serverVars>>
    BY <1>1, <1>2, ClientStepDoes
  <2>2. FitInv'
    BY <1>0, <2>1, ClientStepFits
  <2>3. InOrder' = InOrder /\ FitsNumbers' = FitsNumbers
    BY <2>1, SameSettings
  <2>4. InOrder => Ordered' /\ ContentInv'
    BY <1>0, <2>1, ClientStepOrdered DEF SavedInv, OrderInv
  <2>5. FitsNumbers => ContentInv'
    BY <1>0, <2>1, ClientStepFitting DEF SavedInv
  <2> QED
    BY <1>0, <2>2, <2>3, <2>4, <2>5 DEF SavedInv, OrderInv
<1>3. CASE ServerStep
  <2>1. ServerDoes /\ UNCHANGED <<setup, clientVars>>
    BY <1>1, <1>3, ServerStepDoes
  <2>2. FitInv'
    BY <1>0, <1>1, <2>1, ServerStepFits
  <2>3. InOrder' = InOrder /\ FitsNumbers' = FitsNumbers
    BY <2>1, SameSettings
  <2>4. InOrder => Ordered'
    BY <1>0, <1>1, <2>1, ServerStepOrdered DEF SavedInv, OrderInv
  <2>5. ContentInv => ContentInv'
    BY <2>1, ContentSame DEF clientVars, receiver
  <2> QED
    BY <1>0, <2>2, <2>3, <2>4, <2>5 DEF SavedInv, OrderInv
<1>4. CASE PathStep
  <2>1. UNCHANGED <<setup, clientVars>>
    BY <1>4 DEF PathStep
  <2>2. FitInv'
    BY <1>0, <1>4, PathStepFits
  <2>3. InOrder' = InOrder /\ FitsNumbers' = FitsNumbers
    BY <2>1, SameSettings
  <2>4. Ordered => Ordered'
    BY <1>0, <1>4, PathStepOrdered
  <2>5. ContentInv => ContentInv'
    BY <2>1, ContentSame DEF clientVars, receiver
  <2> QED
    BY <1>0, <2>2, <2>3, <2>4, <2>5 DEF SavedInv, OrderInv
<1>5. CASE UNCHANGED vars
  BY <1>0, <1>5, StutterSaved
<1> QED
  BY <1>2, <1>3, <1>4, <1>5 DEF Next

LEMMA SavedHolds == Spec => []SavedInv
BY InitSaved, NextSaved, PTL DEF Spec

(***************************************************************************)
(* Whatever the programs, the file and the faults: over a path that does   *)
(* not reorder what is saved is a beginning of the file, however often the *)
(* sequence numbers wrap; over one that does, for a file that fits them.   *)
(***************************************************************************)
THEOREM SavesPrefix == Spec => []SavedIsPrefix
<1>1. SavedInv => SavedIsPrefix
  <2> SUFFICES ASSUME SavedInv, InOrder \/ FitsNumbers
               PROVE  Len(saved) <= Chunks /\ \A i \in 1 .. Len(saved) : saved[i] = i - 1
    BY DEF SavedIsPrefix
  <2>1. ContentInv /\ Facts
    BY StepFacts DEF SavedInv
  <2> QED
    BY <2>1 DEF ContentInv, Facts, Least
<1> QED
  BY <1>1, SavedHolds, PTL

(***************************************************************************)
(* G12/src/server.py:64-70, 3/src/server.py:16, 2/src/server.py:85: over a *)
(* path that does not reorder no server takes a packet for confirmed that  *)
(* its client has not acknowledged, however often the numbers wrap.        *)
(***************************************************************************)
THEOREM AcksAreSound == Spec => []AckSound
<1>1. SavedInv => AckSound
  BY DEF SavedInv, OrderInv, Ordered, LiveInv, AckInv, AckSound
<1> QED
  BY <1>1, SavedHolds, PTL

(***************************************************************************)
(* A client that ends, over a path that does not reorder and is not silent *)
(* for long, has the whole file; except between the programs of G12, and   *)
(* except where a GET of group 2, which no CRC protects, may be cut.       *)
(***************************************************************************)
THEOREM SavesWhole == Spec => []SavedIsWhole
<1>1. SavedInv => SavedIsWhole
  <2> SUFFICES ASSUME SavedInv, InOrder, ~ EndOvertakes, ~ GetsCut, "silence" \notin setup.faults,
                      status \in {"complete", "gaveup"}
               PROVE  Len(saved) = Chunks
    BY DEF SavedIsWhole
  <2>1. expected = Chunks /\ ContentInv /\ Facts
    BY StepFacts DEF SavedInv, OrderInv, Ordered, EndInv
  <2> QED
    BY <2>1 DEF ContentInv, Facts, Least
<1> QED
  BY <1>1, SavedHolds, PTL

(***************************************************************************)
(* Over such a path, where a GET of group 2 may be cut: its client ends    *)
(* with nothing, or with the whole file.                                   *)
(***************************************************************************)
THEOREM SavesWholeOrNothing == Spec => []WholeOrNothing
<1>1. SavedInv => WholeOrNothing
  <2> SUFFICES ASSUME SavedInv, InOrder, GetsCut,
                      status = "complete" \/ (status = "gaveup" /\ "silence" \notin setup.faults)
               PROVE  Len(saved) \in {0, Chunks}
    BY DEF WholeOrNothing
  <2>1. expected \in {0, Chunks} /\ ContentInv /\ Facts
    BY StepFacts DEF SavedInv, OrderInv, Ordered, EndInv
  <2> QED
    BY <2>1 DEF ContentInv, Facts, Least
<1> QED
  BY <1>1, SavedHolds, PTL

(***************************************************************************)
(* Between the programs of G12 the file is cut by less than a window, over *)
(* a path that does not reorder, or for a file that fits the numbers.      *)
(***************************************************************************)
THEOREM TruncatesLessThanWindow == Spec => []TruncatedByLessThanWindow
<1>1. SavedInv => TruncatedByLessThanWindow
  <2> SUFFICES ASSUME SavedInv, EndOvertakes, InOrder \/ FitsNumbers, status = "complete"
               PROVE  Chunks - Len(saved) < RecvWindow
    BY DEF TruncatedByLessThanWindow
  <2>1. ContentInv /\ Facts
    BY StepFacts DEF SavedInv
  <2>2. Chunks < expected + RecvWindow
    <3>1. CASE InOrder
      BY <3>1 DEF SavedInv, OrderInv, Ordered, EndInv
    <3>2. CASE FitsNumbers
      BY <3>2 DEF SavedInv, FitInv, OldAcksTold, EndOvertakes
    <3> QED
      BY <3>1, <3>2
  <2> QED
    BY <2>1, <2>2 DEF ContentInv, Facts, Least
<1> QED
  BY <1>1, SavedHolds, PTL

-----------------------------------------------------------------------------
(***************************************************************************)
(* The transfer implements FileTransfer.  The files of the setups that are *)
(* not run stay as they are.                                               *)
(***************************************************************************)
File == [s \in Promised |-> IF s = setup THEN saved ELSE <<>>]
Outcome == [s \in Promised |-> IF s = setup THEN OutcomeOf[status] ELSE "running"]

LEMMA InitPromised == Init => Abstract!Start
<1> SUFFICES ASSUME Init PROVE Abstract!Start
  OBVIOUS
<1>1. Abstract!Beginning(0) = <<>>
  BY DEF Abstract!Beginning
<1>2. saved = <<>> /\ OutcomeOf[status] = "running"
  BY DEF Init, ClientInit, OutcomeOf
<1> QED
  BY <1>1, <1>2 DEF Abstract!Start

LEMMA PromisedFacts ==
    ASSUME setup \in Promised
    PROVE  /\ InOrder /\ ~ EndOvertakes /\ ~ GetsCut
           /\ [s \in Promised |-> IF s.chunks = Missing THEN 0 ELSE s.chunks][setup] = Chunks
           /\ File[setup] = saved /\ Outcome[setup] = OutcomeOf[status]
BY DEF Promised, InOrder, EndOvertakes, GetsCut, Chunks, File, Outcome

LEMMA SavedBeginning ==
    ASSUME TypesInv, ContentInv
    PROVE  /\ saved = Abstract!Beginning(Len(saved))
           /\ Len(saved) \in Nat /\ Len(saved) <= Chunks /\ Chunks \in Nat
<1>1. saved \in Seq(Nat)
  BY DEF TypesInv, ClientTypes
<1>2. /\ Chunks \in Nat /\ Len(saved) = Least(expected, Chunks) /\ expected \in Nat
      /\ \A i \in 1 .. Len(saved) : saved[i] = i - 1
  BY StepFacts DEF Facts, ContentInv
<1> QED
  BY <1>1, <1>2 DEF Abstract!Beginning, Least

\* Only the file and the outcome of the setup that is run change.
LEMMA OnlyThisFile ==
    ASSUME UNCHANGED setup
    PROVE  /\ File' = [File EXCEPT ![setup] = saved']
           /\ Outcome' = [Outcome EXCEPT ![setup] = OutcomeOf[status']]
           /\ UNCHANGED saved => UNCHANGED File
           /\ OutcomeOf[status'] = OutcomeOf[status] => UNCHANGED Outcome
           /\ setup \notin Promised => UNCHANGED File /\ UNCHANGED Outcome
BY DEF File, Outcome

LEMMA GrowsAbstract ==
    ASSUME setup \in Promised, UNCHANGED setup, TypesInv, ContentInv, OutcomeOf[status] = "running",
           NEW n \in Len(saved) .. Chunks, saved' = Abstract!Beginning(n),
           \/ OutcomeOf[status'] = "running"
           \/ n = Chunks /\ OutcomeOf[status'] = "complete"
    PROVE  Abstract!Progress
<1>1. File' = [File EXCEPT ![setup] = Abstract!Beginning(n)]
  BY OnlyThisFile
<1>2. \/ UNCHANGED Outcome
      \/ n = Chunks /\ Outcome' = [Outcome EXCEPT ![setup] = "complete"]
  BY OnlyThisFile
<1>3. /\ Outcome[setup] = "running" /\ File[setup] = saved
      /\ [s \in Promised |-> IF s.chunks = Missing THEN 0 ELSE s.chunks][setup] = Chunks
  BY PromisedFacts
<1> QED
  BY <1>1, <1>2, <1>3 DEF Abstract!Progress, Abstract!Grow, File, Outcome

LEMMA GivesUpAbstract ==
    ASSUME setup \in Promised, UNCHANGED setup, UNCHANGED saved,
           OutcomeOf[status] = "running", OutcomeOf[status'] = "failed"
    PROVE  Abstract!Progress
<1>1. UNCHANGED File /\ Outcome' = [Outcome EXCEPT ![setup] = "failed"]
  BY OnlyThisFile
<1>2. Outcome[setup] = "running"
  BY PromisedFacts
<1> QED
  BY <1>1, <1>2 DEF Abstract!Progress, Abstract!GiveUp, File, Outcome

LEMMA StaysAbstract ==
    ASSUME UNCHANGED setup,
           (UNCHANGED saved /\ OutcomeOf[status'] = OutcomeOf[status]) \/ setup \notin Promised
    PROVE  UNCHANGED Abstract!abstractVars
<1>1. UNCHANGED File /\ UNCHANGED Outcome
  BY OnlyThisFile
<1> QED
  BY <1>1 DEF Abstract!abstractVars, File, Outcome

LEMMA ClientStepPromised ==
    ASSUME SavedInv, SavedInv', UNCHANGED setup, ClientDoes
    PROVE  [Abstract!Progress]_(Abstract!abstractVars)
<1>1. CASE setup \notin Promised
  BY <1>1, StaysAbstract
<1> SUFFICES ASSUME setup \in Promised
             PROVE  [Abstract!Progress]_(Abstract!abstractVars)
  BY <1>1
<1>2. /\ InOrder /\ ~ EndOvertakes /\ InOrder' = InOrder /\ EndOvertakes' = EndOvertakes
      /\ Chunks' = Chunks /\ ~ GetsCut /\ GetsCut' = GetsCut
  BY PromisedFacts, SameSettings, SetupKeeps, SameNumber
<1>3. TypesInv /\ ContentInv /\ TypesInv' /\ ContentInv' /\ EndInv'
  BY <1>2 DEF SavedInv, OrderInv, Ordered
<1>4. /\ saved = Abstract!Beginning(Len(saved)) /\ Len(saved) \in Nat
      /\ Chunks \in Nat /\ Len(saved) <= Chunks
  BY <1>3, SavedBeginning
<1>5. OutcomeOf["asking"] = "running" /\ OutcomeOf["receiving"] = "running"
      /\ OutcomeOf["complete"] = "complete"
      /\ OutcomeOf["gaveup"] = "failed" /\ OutcomeOf["failed"] = "failed"
  BY DEF OutcomeOf
<1>6. CASE QuietClient
  <2>1. UNCHANGED saved /\ (status' = status \/ (status = "asking" /\ status' \in {"failed", "receiving"}))
    BY <1>6 DEF QuietClient, receiver
  <2>2. CASE status = "asking" /\ status' = "failed"
    BY <1>5, <2>1, <2>2, GivesUpAbstract
  <2>3. CASE ~ (status = "asking" /\ status' = "failed")
    BY <1>5, <2>1, <2>3, StaysAbstract
  <2> QED
    BY <2>2, <2>3
<1>7. CASE AskingClient \/ RepeatingClient
  BY <1>7, StaysAbstract DEF AskingClient, RepeatingClient, receiver
<1>8. CASE LeavingClient
  BY <1>5, <1>8, GivesUpAbstract DEF LeavingClient, receiver
<1>9. ASSUME NEW s, NEW p, KeepingClient(s, p)
      PROVE  Abstract!Progress
  <2>1. status \in {"asking", "receiving"} /\ status' = "receiving"
    BY <1>9 DEF KeepingClient
  <2>2. saved' = Abstract!Beginning(Len(saved'))
    <3>1. saved' \in Seq(Nat)
      BY <1>3 DEF TypesInv, ClientTypes
    <3>2. \A i \in 1 .. Len(saved') : saved'[i] = i - 1
      BY <1>3 DEF ContentInv
    <3> QED
      BY <3>1, <3>2 DEF Abstract!Beginning
  <2>3. Len(saved') \in Len(saved) .. Chunks
    <3>1. expected \in Nat /\ expected' \in Nat /\ expected <= expected'
      BY <1>3, ExpectedGrows, StepFacts DEF Facts
    <3>2. Len(saved) = Least(expected, Chunks) /\ Len(saved') = Least(expected', Chunks)
      BY <1>2, <1>3 DEF ContentInv, Least
    <3> QED
      BY <1>4, <3>1, <3>2 DEF Least
  <2> QED
    BY <1>3, <1>5, <2>1, <2>2, <2>3, GrowsAbstract
<1>10. ASSUME NEW s, EndingClient(s)
       PROVE  Abstract!Progress
  <2>1. status \in {"asking", "receiving"} /\ status' = "complete" /\ UNCHANGED <<expected, saved>>
    BY <1>10 DEF EndingClient, receiver
  <2>2. expected = Chunks
    BY <1>2, <1>3, <2>1 DEF EndInv
  <2>3. Len(saved) = Chunks
    BY <1>3, <1>4, <2>2 DEF ContentInv, Least
  <2> QED
    BY <1>3, <1>4, <1>5, <2>1, <2>3, GrowsAbstract
<1> QED
  BY <1>6, <1>7, <1>8, <1>9, <1>10 DEF ClientDoes

LEMMA NextPromised == SavedInv /\ SavedInv' /\ [Next]_vars => [Abstract!Progress]_(Abstract!abstractVars)
<1> SUFFICES ASSUME SavedInv, SavedInv', [Next]_vars
             PROVE  [Abstract!Progress]_(Abstract!abstractVars)
  OBVIOUS
<1>1. CASE ClientStep
  <2>1. ClientDoes /\ UNCHANGED setup
    BY <1>1, ClientStepDoes DEF SavedInv, TypesInv, ClientTypes
  <2> QED
    BY <2>1, ClientStepPromised
<1>2. CASE ServerStep \/ PathStep \/ UNCHANGED vars
  <2>1. UNCHANGED <<setup, saved, status>>
    BY <1>2 DEF ServerStep, PathStep, vars, clientVars
  <2> QED
    BY <2>1, StaysAbstract
<1> QED
  BY <1>1, <1>2 DEF Next

(***************************************************************************)
(* Over a path that keeps the order and does everything else but to cut a  *)
(* GET of group 2, for files of any length: the programs of groups 3 and   *)
(* 2, and G12's with group 3's, do nothing that FileTransfer does not      *)
(* allow.                                                                  *)
(***************************************************************************)
THEOREM PeersKeepPromise == Spec => KeepsPromise
BY InitPromised, NextPromised, SavedHolds, PTL DEF Spec, KeepsPromise, Abstract!Promise
=============================================================================
