------------------------- MODULE SrtpTransferProofs -------------------------
(***************************************************************************)
(* Proofs about SrtpTransfer, for every number of clients, every window,   *)
(* every sequence number space and every set of files.                     *)
(***************************************************************************)
EXTENDS SrtpTransfer, TLAPS

LEMMA ModType ==
    ASSUME NEW x \in Int
    PROVE  x % SeqMod \in SeqNums
BY SeqModAssumption DEF SeqNums

LEMMA ModSmall ==
    ASSUME NEW x \in SeqNums
    PROVE  x % SeqMod = x
BY SeqModAssumption DEF SeqNums

LEMMA PacketType ==
    ASSUME NEW c \in Clients, NEW i \in Nat
    PROVE  PacketOf(c, i) \in DownDatagrams
<1>1. i % SeqMod \in SeqNums
  BY ModType
<1>2. Payload(c, i) \in Payloads
  BY ChunksAssumption DEF Payload, Payloads, EOF
<1> QED
  BY <1>1, <1>2 DEF PacketOf, Data, DownDatagrams

LEMMA AdvanceType ==
    ASSUME NEW ack \in Int, ack >= -1, NEW s \in SeqNums, NEW n \in Int
    PROVE  /\ Advance(ack, s, n) \in Int
           /\ Advance(ack, s, n) >= ack
           /\ Advance(ack, s, n) > ack => Advance(ack, s, n) < n
<1>1. (ack + 1) \div SeqMod \in Int
  BY SeqModAssumption
<1>2. ((ack + 1) \div SeqMod) * SeqMod \in Int
  BY <1>1, SeqModAssumption
<1>3. AckIndex(ack, s) \in Int
  BY <1>2, SeqModAssumption DEF AckIndex, SeqNums
<1> QED
  BY <1>3 DEF Advance

LEMMA FilledType ==
    ASSUME NEW ack \in Int, ack >= -1, NEW sent \in Int, sent >= -1, NEW n \in Nat,
           sent <= n - 1 
    PROVE  /\ FilledTo(ack, sent, n) \in Int
           /\ FilledTo(ack, sent, n) >= -1
           /\ FilledTo(ack, sent, n) <= n - 1
BY WindowAssumption DEF FilledTo

LEMMA SlotType ==
    ASSUME NEW e \in SeqNums, NEW j \in Int
    PROVE  Slot(e, j) \in SeqNums
BY ModType DEF Slot, SeqNums

(***************************************************************************)
(* What is left in a channel was in it before.                             *)
(***************************************************************************)
LEMMA RemainingSubset ==
    ASSUME NEW ch, NEW m, NEW rest \in Remaining(ch, m)
    PROVE  rest \subseteq ch
BY DEF Remaining

-----------------------------------------------------------------------------
(***************************************************************************)
(* The types, with the bound on last_sent that makes them inductive: what  *)
(* the server sends is in its packet list.                                 *)
(***************************************************************************)
SentBound == serving \in Clients => last_sent < PacketCount(serving)

TypeInv == TypeOK /\ SentBound

LEMMA CountType ==
    ASSUME NEW c \in Clients
    PROVE  PacketCount(c) \in Nat /\ PacketCount(c) >= 1
BY ChunksAssumption DEF PacketCount

LEMMA IterateType ==
    ASSUME TypeInv, serving \in Clients,
           NEW ack \in Int, ack >= -1,
           NEW expired, Iterate(ack, expired)
    PROVE  ServerTypeOK' /\ SentBound' /\ down' \subseteq DownDatagrams
<1> DEFINE sent == FilledTo(ack, last_sent, PacketCount(serving))
<1>1. /\ last_sent \in Int /\ last_sent >= -1
      /\ last_sent <= PacketCount(serving) - 1
      /\ PacketCount(serving) \in Nat
  BY CountType DEF TypeInv, TypeOK, ServerTypeOK, SentBound
<1>2. sent \in Int /\ sent >= -1 /\ sent <= PacketCount(serving) - 1
  BY <1>1, FilledType
<1>3. \A i \in expired \cup (last_sent + 1 .. sent) : PacketOf(serving, i) \in DownDatagrams
  <2>1. expired \subseteq (ack + 1) .. last_sent
    BY DEF Iterate
  <2>2. expired \cup (last_sent + 1 .. sent) \subseteq Nat
    <3> HIDE DEF sent
    <3> QED
      BY <1>1, <1>2, <2>1
  <2> QED
    BY <2>2, PacketType, serving \in Clients
<1>4. down' \subseteq DownDatagrams
  BY <1>3 DEF Iterate, TypeInv, TypeOK, NetTypeOK
<1>5. CASE ack >= PacketCount(serving) - 1 /\ Return
  BY <1>4, <1>5, IdleAssumption DEF Return, ServerTypeOK, SentBound
<1>6. CASE ack < PacketCount(serving) - 1 /\ last_ack' = ack /\ last_sent' = sent
           /\ UNCHANGED serving
  BY <1>1, <1>2, <1>4, <1>6 DEF ServerTypeOK, SentBound, TypeInv, TypeOK, PacketCount
<1> QED
  BY <1>5, <1>6 DEF Iterate

LEMMA InitType == Init => TypeInv
<1> SUFFICES ASSUME Init PROVE TypeInv
  OBVIOUS
<1>1. NetTypeOK
  BY DEF Init, NetInit, NetTypeOK
<1>2. ServerTypeOK /\ SentBound
  BY IdleAssumption DEF Init, ServerInit, ServerTypeOK, SentBound
<1>3. ClientTypeOK
  BY SeqModAssumption DEF Init, ClientInit, ClientTypeOK, Statuses, SeqNums
<1> QED
  BY <1>1, <1>2, <1>3 DEF TypeInv, TypeOK

-----------------------------------------------------------------------------
(***************************************************************************)
(* What the client's receive loop does to the buffer.                      *)
(***************************************************************************)
Buffers == [SeqNums -> Payloads \cup {Absent}]

LEMMA StoredFacts ==
    ASSUME NEW buf \in Buffers, NEW e \in SeqNums, NEW s \in SeqNums, NEW p \in Payloads
    PROVE  /\ Stored(buf, e, s, p) \in Buffers
           /\ \A t \in SeqNums : \/ Stored(buf, e, s, p)[t] = buf[t]
                                 \/ t = s /\ s >= e /\ Stored(buf, e, s, p)[t] = p
BY DEF Stored, Buffers

LEMMA WithoutRunFacts ==
    ASSUME NEW buf \in Buffers, NEW e \in SeqNums, NEW k \in Nat
    PROVE  /\ WithoutRun(buf, e, k) \in Buffers
           /\ \A t \in SeqNums : WithoutRun(buf, e, k)[t] \in {buf[t], Absent}
           /\ \A j \in 0 .. k - 1 : WithoutRun(buf, e, k)[Slot(e, j)] = Absent
BY SlotType DEF WithoutRun, Buffers

LEMMA RunOfFacts ==
    ASSUME NEW buf \in Buffers, NEW e \in SeqNums, NEW k \in Nat, WritesRun(buf, e, k)
    PROVE  /\ RunOf(buf, e, k) \in Seq(Nat)
           /\ Len(RunOf(buf, e, k)) = k
           /\ \A j \in 1 .. k : RunOf(buf, e, k)[j] = buf[Slot(e, j - 1)]
<1>1. \A j \in 1 .. k : buf[Slot(e, j - 1)] \in Nat
  BY DEF WritesRun
<1>2. RunOf(buf, e, k) \in [1 .. k -> Nat]
  BY <1>1 DEF RunOf
<1> QED
  BY <1>2 DEF RunOf

(***************************************************************************)
(* ClientData, taken apart: what the rest of the proofs use of it.         *)
(***************************************************************************)
LEMMA ClientDataFacts ==
    ASSUME TypeInv, NEW c \in Clients, NEW s, NEW p, ClientData(c, s, p)
    PROVE  /\ s \in SeqNums /\ p \in Payloads /\ Data(c, s, p) \in down
           /\ buffer[c] \in Buffers /\ expected_seqnum[c] \in SeqNums
           /\ Stored(buffer[c], expected_seqnum[c], s, p) \in Buffers
           /\ down' \subseteq down
<1>1. Data(c, s, p) \in down /\ Data(c, s, p) \in DownDatagrams
  BY DEF ClientData, TypeInv, TypeOK, NetTypeOK
<1>2. s \in SeqNums /\ p \in Payloads
  BY <1>1 DEF Data, DownDatagrams
<1>3. buffer[c] \in Buffers /\ expected_seqnum[c] \in SeqNums
  BY DEF TypeInv, TypeOK, ClientTypeOK, Buffers
<1>4. down' \subseteq down
  BY RemainingSubset DEF ClientData
<1> QED
  BY <1>1, <1>2, <1>3, <1>4, StoredFacts

LEMMA AckType ==
    ASSUME NEW c \in Clients, NEW s \in SeqNums
    PROVE  Ack(c, s) \in UpDatagrams /\ FinalAck(c, s) \in UpDatagrams
<1>1. (s + 1) % SeqMod \in SeqNums
  BY ModType DEF SeqNums
<1> QED
  BY <1>1 DEF FinalAck, Ack, UpDatagrams

LEMMA ClientDataType ==
    ASSUME TypeInv, NEW c \in Clients, NEW s, NEW p, ClientData(c, s, p)
    PROVE  ClientTypeOK' /\ NetTypeOK'
<1> DEFINE e == expected_seqnum[c]
           buf == Stored(buffer[c], e, s, p)
<1>1. e \in SeqNums /\ buf \in Buffers /\ down' \subseteq down
  BY ClientDataFacts
<1>2. PICK k \in 0 .. SeqMod :
        LET next == Slot(e, k)
            left == WithoutRun(buf, e, k)
        IN  /\ WritesRun(buf, e, k)
            /\ expected_seqnum' = [expected_seqnum EXCEPT ![c] = next]
            /\ written' = [written EXCEPT ![c] = @ \o RunOf(buf, e, k)]
            /\ \/ /\ buffer' = [buffer EXCEPT ![c] = left]
                  /\ up' = up \cup {Ack(c, next)}
                  /\ UNCHANGED status
               \/ /\ buffer' = [buffer EXCEPT ![c] = [left EXCEPT ![next] = Absent]]
                  /\ up' = up \cup {FinalAck(c, next)}
                  /\ status' = [status EXCEPT ![c] = "done"]
  BY DEF ClientData
<1> HIDE DEF e, buf
<1>3. Slot(e, k) \in SeqNums
  BY <1>1, SlotType
<1>4. k \in Nat
  BY SeqModAssumption
<1>5. WithoutRun(buf, e, k) \in Buffers
  BY <1>1, <1>4, WithoutRunFacts
<1>6. expected_seqnum' \in [Clients -> SeqNums]
  BY <1>2, <1>3 DEF TypeInv, TypeOK, ClientTypeOK
<1>7. written' \in [Clients -> Seq(Nat)]
  <2>1. RunOf(buf, e, k) \in Seq(Nat)
    BY <1>1, <1>2, <1>4, RunOfFacts
  <2>2. written[c] \o RunOf(buf, e, k) \in Seq(Nat)
    BY <2>1 DEF TypeInv, TypeOK, ClientTypeOK
  <2> QED
    BY <1>2, <2>2 DEF TypeInv, TypeOK, ClientTypeOK
<1>8. buffer' \in [Clients -> Buffers]
  <2>1. [WithoutRun(buf, e, k) EXCEPT ![Slot(e, k)] = Absent] \in Buffers
    BY <1>3, <1>5 DEF Buffers
  <2>2. buffer \in [Clients -> Buffers]
    BY DEF TypeInv, TypeOK, ClientTypeOK, Buffers
  <2> QED
    BY <1>2, <1>5, <2>1, <2>2
<1>9. status' \in [Clients -> Statuses]
  BY <1>2 DEF TypeInv, TypeOK, ClientTypeOK, Statuses
<1>10. up' \subseteq UpDatagrams
  BY <1>2, <1>3, AckType DEF TypeInv, TypeOK, NetTypeOK
<1> QED
  BY <1>1, <1>6, <1>7, <1>8, <1>9, <1>10 DEF ClientTypeOK, NetTypeOK, Buffers, TypeInv, TypeOK

-----------------------------------------------------------------------------
LEMMA ClientStepType ==
    ASSUME TypeInv, ClientStep
    PROVE  TypeInv'
<1>1. ServerTypeOK' /\ SentBound'
  BY DEF TypeInv, TypeOK, ServerTypeOK, SentBound, ClientStep, serverVars
<1>2. ASSUME NEW c \in Clients, ClientRequest(c)
      PROVE  NetTypeOK' /\ ClientTypeOK'
  <2>1. Get(c) \in UpDatagrams
    BY DEF Get, UpDatagrams
  <2> QED
    BY <1>2, <2>1
    DEF ClientRequest, TypeInv, TypeOK, NetTypeOK, ClientTypeOK, Statuses
<1>3. ASSUME NEW c \in Clients, NEW s, NEW p, ClientData(c, s, p)
      PROVE  NetTypeOK' /\ ClientTypeOK'
  BY <1>3, ClientDataType
<1>4. ASSUME NEW c \in Clients, ClientBad(c)
      PROVE  NetTypeOK' /\ ClientTypeOK'
  BY <1>4 DEF ClientBad, TypeInv, TypeOK, NetTypeOK, ClientTypeOK, Statuses
<1>5. ASSUME NEW c \in Clients, ClientKill(c)
      PROVE  NetTypeOK' /\ ClientTypeOK'
  BY <1>5 DEF ClientKill, TypeInv, TypeOK, NetTypeOK, ClientTypeOK, Statuses, netVars
<1> QED
  BY <1>1, <1>2, <1>3, <1>4, <1>5 DEF ClientStep, TypeInv, TypeOK

LEMMA ServerGetType ==
    ASSUME TypeInv, NEW c \in Clients, ServerGet(c)
    PROVE  NetTypeOK' /\ ServerTypeOK' /\ SentBound'
<1>1. up' \subseteq UpDatagrams
  BY RemainingSubset DEF ServerGet, TypeInv, TypeOK, NetTypeOK
<1>2. CASE /\ serving' = c
           /\ last_ack' = -1
           /\ last_sent' = FilledTo(-1, -1, PacketCount(c))
           /\ down' = down \cup {PacketOf(c, i) : i \in 0 .. last_sent'}
  <2>1. /\ last_sent' \in Int /\ last_sent' >= -1
        /\ last_sent' <= PacketCount(c) - 1
    BY <1>2, CountType, FilledType
  <2>2. \A i \in 0 .. last_sent' : PacketOf(c, i) \in DownDatagrams
    BY <2>1, PacketType
  <2> QED
    BY <1>1, <1>2, <2>1, <2>2, CountType
    DEF TypeInv, TypeOK, NetTypeOK, ServerTypeOK, SentBound
<1>3. CASE down' = down \cup {Data(c, 0, EOF)} /\ UNCHANGED serverVars
  <2>1. Data(c, 0, EOF) \in DownDatagrams
    BY SeqModAssumption DEF Data, DownDatagrams, SeqNums, Payloads
  <2> QED
    BY <1>1, <1>3, <2>1
    DEF TypeInv, TypeOK, NetTypeOK, ServerTypeOK, SentBound, serverVars
<1>4. CASE UNCHANGED <<serverVars, down>>
  BY <1>1, <1>4 DEF TypeInv, TypeOK, NetTypeOK, ServerTypeOK, SentBound, serverVars
<1> QED
  BY <1>2, <1>3, <1>4 DEF ServerGet

LEMMA ServerStepType ==
    ASSUME TypeInv, ServerStep
    PROVE  TypeInv'
<1>1. ClientTypeOK'
  BY DEF TypeInv, TypeOK, ClientTypeOK, ServerStep, clientVars
<1> DEFINE Typed == NetTypeOK' /\ ServerTypeOK' /\ SentBound'
<1>2. ASSUME NEW c \in Clients, ServerGet(c)
      PROVE  Typed
  BY <1>2, ServerGetType
<1>3. ASSUME NEW m \in up, ServerIgnore(m)
      PROVE  Typed
  BY <1>3, RemainingSubset
  DEF ServerIgnore, TypeInv, TypeOK, NetTypeOK, ServerTypeOK, SentBound, serverVars
<1>4. ASSUME NEW m \in up, m.type = "ACK", ServerAck(m.from, m.seq)
      PROVE  Typed
  <2> DEFINE ack == Advance(last_ack, m.seq, PacketCount(serving))
  <2>1. m.seq \in SeqNums
    BY <1>4 DEF TypeInv, TypeOK, NetTypeOK, UpDatagrams
  <2>2. ack \in Int /\ ack >= -1
    BY <1>4, <2>1, AdvanceType, CountType DEF ServerAck, TypeInv, TypeOK, ServerTypeOK
  <2>3. PICK expired : Iterate(ack, expired)
    BY <1>4 DEF ServerAck
  <2>4. up' \subseteq UpDatagrams /\ serving \in Clients
    BY <1>4, RemainingSubset DEF ServerAck, TypeInv, TypeOK, NetTypeOK
  <2> HIDE DEF ack
  <2> QED
    BY <2>2, <2>3, <2>4, IterateType DEF NetTypeOK
<1>5. ASSUME NEW m \in up, ServerSkip(m)
      PROVE  Typed
  <2>1. PICK expired : Iterate(last_ack, expired)
    BY <1>5 DEF ServerSkip
  <2>2. up' \subseteq UpDatagrams /\ serving \in Clients
    BY <1>5, RemainingSubset DEF ServerSkip, TypeInv, TypeOK, NetTypeOK
  <2> QED
    BY <2>1, <2>2, IterateType DEF NetTypeOK, TypeInv, TypeOK, ServerTypeOK
<1>6. ASSUME NEW expired, ServerTimeout(expired)
      PROVE  Typed
  <2>1. up' = up /\ serving \in Clients /\ Iterate(last_ack, expired)
    BY <1>6 DEF ServerTimeout
  <2> QED
    BY <2>1, IterateType DEF NetTypeOK, TypeInv, TypeOK, ServerTypeOK
<1>7. ASSUME ServerReset(Gone)
      PROVE  Typed
  BY <1>7, RemainingSubset, IdleAssumption
  DEF ServerReset, Return, TypeInv, TypeOK, NetTypeOK, ServerTypeOK, SentBound, serverVars
<1>8. ASSUME ServerAbort \/ ServerStop
      PROVE  Typed
  BY <1>8, IdleAssumption
  DEF ServerAbort, ServerStop, Return, TypeInv, TypeOK, NetTypeOK, ServerTypeOK, SentBound,
      netVars
<1> QED
  BY <1>1, <1>2, <1>3, <1>4, <1>5, <1>6, <1>7, <1>8 DEF ServerStep, TypeInv, TypeOK

LEMMA LinkStepType ==
    ASSUME TypeInv, LinkStep
    PROVE  TypeInv'
<1>1. ServerTypeOK' /\ SentBound' /\ ClientTypeOK'
  BY DEF LinkStep, TypeInv, TypeOK, ServerTypeOK, SentBound, ClientTypeOK, serverVars, clientVars
<1>2. \A m \in UpDatagrams : BadUp(m.from) \in UpDatagrams
  BY DEF UpDatagrams, BadUp
<1>3. \A m \in DownDatagrams : BadDown(m.to) \in DownDatagrams
  BY DEF DownDatagrams, BadDown
<1>4. NetTypeOK'
  BY <1>2, <1>3 DEF LinkStep, Lose, Damage, TypeInv, TypeOK, NetTypeOK
<1> QED
  BY <1>1, <1>4 DEF TypeInv, TypeOK

LEMMA NextType == TypeInv /\ [Next]_vars => TypeInv'
<1>1. ASSUME TypeInv, UNCHANGED vars
      PROVE  TypeInv'
  BY <1>1 DEF TypeInv, TypeOK, NetTypeOK, ServerTypeOK, ClientTypeOK, SentBound,
              vars, netVars, serverVars, clientVars
<1> QED
  BY <1>1, ClientStepType, ServerStepType, LinkStepType DEF Next

(***************************************************************************)
(* Every reachable state is well typed: sequence numbers stay within       *)
(* SeqMod at both ends, payloads and packet indices are in the file.       *)
(***************************************************************************)
THEOREM TypeCorrect == Spec => []TypeOK
<1>1. TypeInv => TypeOK
  BY DEF TypeInv
<1> QED
  BY <1>1, InitType, NextType, PTL DEF Spec

-----------------------------------------------------------------------------
(***************************************************************************)
(* The saved file.  As long as every packet has a sequence number of its   *)
(* own (FitsSeqSpace), a sequence number is a position in the file: that   *)
(* is so of the packets in flight (InFlight) and of the ones buffered,     *)
(* which lie ahead of what is written (Held), and expected_seqnum counts   *)
(* the chunks written (InStep).                                            *)
(***************************************************************************)
InFlight ==
    \A m \in down : m.type = "DATA" =>
      m.seq <= Chunks[m.to] /\ m.payload = Payload(m.to, m.seq)

Held ==
    \A c \in Clients, s \in SeqNums : buffer[c][s] # Absent =>
      Len(written[c]) < s /\ s <= Chunks[c] /\ buffer[c][s] = Payload(c, s)

InStep == \A c \in Clients : expected_seqnum[c] = Len(written[c])

FileInv == TypeInv /\ InFlight /\ Held /\ InStep /\ WrittenIsPrefix /\ DoneIsComplete

LEMMA PacketInFlight ==
    ASSUME FitsSeqSpace, NEW c \in Clients, NEW i \in 0 .. Chunks[c]
    PROVE  PacketOf(c, i) = Data(c, i, Payload(c, i))
<1>1. i \in SeqNums
  BY ChunksAssumption, SeqModAssumption DEF FitsSeqSpace, PacketCount, SeqNums
<1> QED
  BY <1>1, ModSmall DEF PacketOf

(***************************************************************************)
(* The loop of the client that writes what is in sequence stops at the     *)
(* empty packet at the latest, before sequence numbers wrap.               *)
(***************************************************************************)
LEMMA RunStopsAtEnd ==
    ASSUME FitsSeqSpace, NEW c \in Clients, NEW buf \in Buffers,
           \A t \in SeqNums : buf[t] # Absent => buf[t] = Payload(c, t),
           NEW e \in SeqNums, e <= Chunks[c],
           NEW k \in Nat, WritesRun(buf, e, k)
    PROVE  /\ e + k <= Chunks[c]
           /\ \A j \in 0 .. k : Slot(e, j) = e + j
           /\ \A j \in 0 .. k - 1 : buf[Slot(e, j)] = e + j
<1>1. Chunks[c] \in Nat /\ Chunks[c] + 1 < SeqMod /\ SeqMod \in Nat
  BY ChunksAssumption, SeqModAssumption DEF FitsSeqSpace, PacketCount
<1>2. \A j \in 0 .. Chunks[c] - e : Slot(e, j) = e + j /\ e + j \in SeqNums
  <2> SUFFICES ASSUME NEW j \in 0 .. Chunks[c] - e
               PROVE  Slot(e, j) = e + j /\ e + j \in SeqNums
    OBVIOUS
  <2>1. e + j \in SeqNums
    BY <1>1 DEF SeqNums
  <2> QED
    BY <2>1, ModSmall DEF Slot
<1>3. e + k <= Chunks[c]
  <2> SUFFICES ASSUME e + k > Chunks[c]
               PROVE  FALSE
    BY <1>1 DEF SeqNums
  <2> DEFINE j == Chunks[c] - e
  <2>1. j \in 0 .. k - 1 /\ j \in 0 .. Chunks[c] - e
    BY <1>1 DEF SeqNums
  <2>2. Slot(e, j) = Chunks[c] /\ Chunks[c] \in SeqNums
    BY <1>1, <1>2, <2>1 DEF SeqNums
  <2>3. buf[Chunks[c]] \in Nat
    BY <2>1, <2>2 DEF WritesRun
  <2>4. Payload(c, Chunks[c]) \notin Nat
    BY <1>1 DEF Payload, EOF
  <2> QED
    BY <2>2, <2>3, <2>4 DEF Absent
<1>4. \A j \in 0 .. k : Slot(e, j) = e + j /\ e + j \in SeqNums
  BY <1>1, <1>2, <1>3 DEF SeqNums
<1>5. ASSUME NEW j \in 0 .. k - 1
      PROVE  buf[Slot(e, j)] = e + j
  <2>1. buf[e + j] \in Nat
    BY <1>4 DEF WritesRun
  <2>2. buf[e + j] = Payload(c, e + j) /\ e + j < Chunks[c]
    BY <1>1, <1>3, <1>4, <2>1 DEF Absent, SeqNums
  <2> QED
    BY <1>4, <2>2 DEF Payload
<1> QED
  BY <1>3, <1>4, <1>5

\* The first n chunks of a file.
FirstChunks(n) == [i \in 1 .. n |-> i - 1]

LEMMA FirstChunksGrow ==
    ASSUME NEW w \in Seq(Nat), NEW run \in Seq(Nat),
           \A i \in 1 .. Len(w) : w[i] = i - 1,
           \A j \in 1 .. Len(run) : run[j] = Len(w) + j - 1
    PROVE  w \o run = FirstChunks(Len(w) + Len(run))
<1> DEFINE both == w \o run
           n == Len(w) + Len(run)
<1>1. both \in Seq(Nat) /\ Len(both) = n
  OBVIOUS
<1>2. \A i \in 1 .. n : both[i] = i - 1
  OBVIOUS
<1> HIDE DEF both, n
<1>3. both \in [1 .. n -> Nat]
  BY <1>1
<1>4. both = FirstChunks(n)
  BY <1>2, <1>3 DEF FirstChunks
<1> QED
  BY <1>4 DEF both, n

(***************************************************************************)
(* A DATA packet takes client c from one beginning of its file to another: *)
(* it has now written n chunks, the buffer holds later ones only, and the  *)
(* answer is ACK n, or the final ACK if all of the file is written.        *)
(***************************************************************************)
Delivers(c, s, p, n) ==
    /\ expected_seqnum' = [expected_seqnum EXCEPT ![c] = n]
    /\ written' = [written EXCEPT ![c] = FirstChunks(n)]
    /\ \E b \in Buffers :
         /\ buffer' = [buffer EXCEPT ![c] = b]
         /\ \A t \in SeqNums : b[t] # Absent =>
              n < t /\ (b[t] = buffer[c][t] \/ (t = s /\ b[t] = p))
    /\ \/ up' = up \cup {Ack(c, n)} /\ UNCHANGED status
       \/ /\ n = Chunks[c]
          /\ up' = up \cup {FinalAck(c, n)}
          /\ status' = [status EXCEPT ![c] = "done"]

LEMMA Delivery ==
    ASSUME FitsSeqSpace, FileInv, NEW c \in Clients, NEW s, NEW p, ClientData(c, s, p)
    PROVE  \E n \in Len(written[c]) .. Chunks[c] : Delivers(c, s, p, n)
<1> DEFINE e == expected_seqnum[c]
           buf == Stored(buffer[c], e, s, p)
<1>1. /\ s \in SeqNums /\ p \in Payloads /\ Data(c, s, p) \in down
      /\ e \in SeqNums /\ buffer[c] \in Buffers /\ buf \in Buffers
  BY ClientDataFacts DEF FileInv
<1>2. s <= Chunks[c] /\ p = Payload(c, s)
  BY <1>1 DEF FileInv, InFlight, Data
<1>3. /\ e = Len(written[c]) /\ e <= Chunks[c] /\ Chunks[c] \in Nat
      /\ written[c] \in Seq(Nat) /\ \A i \in 1 .. e : written[c][i] = i - 1
  BY ChunksAssumption DEF FileInv, InStep, WrittenIsPrefix, TypeInv, TypeOK, ClientTypeOK
<1>4. \A t \in SeqNums : buf[t] # Absent =>
        e <= t /\ buf[t] = Payload(c, t) /\ (buf[t] = buffer[c][t] \/ (t = s /\ buf[t] = p))
  <2>1. \A t \in SeqNums : buf[t] = buffer[c][t] \/ (t = s /\ s >= e /\ buf[t] = p)
    BY <1>1, StoredFacts
  <2>2. \A t \in SeqNums : buffer[c][t] # Absent => e < t /\ buffer[c][t] = Payload(c, t)
    BY <1>3 DEF FileInv, Held
  <2> HIDE DEF buf, e
  <2> QED
    BY <1>1, <1>2, <2>1, <2>2 DEF SeqNums
<1>5. PICK k \in 0 .. SeqMod :
        LET next == Slot(e, k)
            left == WithoutRun(buf, e, k)
        IN  /\ WritesRun(buf, e, k)
            /\ expected_seqnum' = [expected_seqnum EXCEPT ![c] = next]
            /\ written' = [written EXCEPT ![c] = @ \o RunOf(buf, e, k)]
            /\ \/ /\ left[next] = Absent
                  /\ buffer' = [buffer EXCEPT ![c] = left]
                  /\ up' = up \cup {Ack(c, next)}
                  /\ UNCHANGED status
               \/ /\ left[next] = EOF
                  /\ buffer' = [buffer EXCEPT ![c] = [left EXCEPT ![next] = Absent]]
                  /\ up' = up \cup {FinalAck(c, next)}
                  /\ status' = [status EXCEPT ![c] = "done"]
  BY DEF ClientData
<1> HIDE DEF e, buf
<1> DEFINE left == WithoutRun(buf, e, k)
           n == e + k
<1>6. k \in Nat
  BY SeqModAssumption
<1>7. /\ n <= Chunks[c]
      /\ \A j \in 0 .. k : Slot(e, j) = e + j
      /\ \A j \in 0 .. k - 1 : buf[Slot(e, j)] = e + j
  <2>1. WritesRun(buf, e, k)
    BY <1>5
  <2>2. \A t \in SeqNums : buf[t] # Absent => buf[t] = Payload(c, t)
    BY <1>4
  <2> QED
    BY <1>1, <1>3, <1>6, <2>1, <2>2, RunStopsAtEnd
<1>8. Slot(e, k) = n /\ n \in e .. Chunks[c] /\ n \in SeqNums
  <2>1. Slot(e, k) = n /\ Slot(e, k) \in SeqNums
    BY <1>1, <1>6, <1>7, SlotType
  <2> QED
    BY <1>1, <1>3, <1>6, <1>7, <2>1 DEF SeqNums
<1>9. [written EXCEPT ![c] = @ \o RunOf(buf, e, k)] = [written EXCEPT ![c] = FirstChunks(n)]
  <2>1. /\ RunOf(buf, e, k) \in Seq(Nat) /\ Len(RunOf(buf, e, k)) = k
        /\ \A j \in 1 .. k : RunOf(buf, e, k)[j] = buf[Slot(e, j - 1)]
    BY <1>1, <1>5, <1>6, RunOfFacts
  <2>2. ASSUME NEW j \in 1 .. k
        PROVE  RunOf(buf, e, k)[j] = e + j - 1
    <3>1. j - 1 \in 0 .. k - 1
      BY <1>6
    <3>2. buf[Slot(e, j - 1)] = e + (j - 1)
      BY <1>7, <3>1
    <3>3. e + (j - 1) = e + j - 1
      BY <1>1, <1>6 DEF SeqNums
    <3> QED
      BY <2>1, <3>2, <3>3
  <2>3. written[c] \o RunOf(buf, e, k) = FirstChunks(n)
    BY <1>3, <2>1, <2>2, FirstChunksGrow
  <2> QED
    BY <2>3
<1>10. /\ left \in Buffers
       /\ \A t \in SeqNums : left[t] # Absent =>
            /\ n <= t /\ left[t] = Payload(c, t)
            /\ (left[t] = buffer[c][t] \/ (t = s /\ left[t] = p))
  <2>1. /\ left \in Buffers
        /\ \A t \in SeqNums : left[t] \in {buf[t], Absent}
        /\ \A j \in 0 .. k - 1 : left[e + j] = Absent
    BY <1>1, <1>6, <1>7, WithoutRunFacts
  <2>2. ASSUME NEW t \in SeqNums, left[t] # Absent
        PROVE  n <= t
    <3>1. e <= t
      BY <1>4, <2>1, <2>2
    <3> SUFFICES ASSUME t < n
                 PROVE  FALSE
      BY <1>8 DEF SeqNums
    <3>2. t - e \in 0 .. k - 1 /\ e + (t - e) = t
      BY <1>1, <1>6, <3>1 DEF SeqNums
    <3> QED
      BY <2>1, <2>2, <3>2
  <2> HIDE DEF left, n
  <2> QED
    BY <1>4, <2>1, <2>2
<1>11. CASE /\ left[n] = Absent
            /\ buffer' = [buffer EXCEPT ![c] = left]
            /\ up' = up \cup {Ack(c, n)}
            /\ UNCHANGED status
  <2>1. \A t \in SeqNums : left[t] # Absent =>
          n < t /\ (left[t] = buffer[c][t] \/ (t = s /\ left[t] = p))
    BY <1>8, <1>10, <1>11 DEF SeqNums
  <2>2. Delivers(c, s, p, n)
    BY <1>5, <1>8, <1>9, <1>10, <1>11, <2>1 DEF Delivers
  <2> QED
    BY <1>3, <1>8, <2>2
<1>12. CASE /\ left[n] = EOF
            /\ buffer' = [buffer EXCEPT ![c] = [left EXCEPT ![n] = Absent]]
            /\ up' = up \cup {FinalAck(c, n)}
            /\ status' = [status EXCEPT ![c] = "done"]
  <2> DEFINE b == [left EXCEPT ![n] = Absent]
  <2>1. b \in Buffers
    BY <1>8, <1>10 DEF Buffers
  <2>2. \A t \in SeqNums : b[t] # Absent => t # n /\ b[t] = left[t]
    BY <1>10 DEF Buffers
  <2>3. \A t \in SeqNums : b[t] # Absent =>
          n < t /\ (b[t] = buffer[c][t] \/ (t = s /\ b[t] = p))
    <3> HIDE DEF b, left, n
    <3> QED
      BY <1>8, <1>10, <2>2 DEF SeqNums
  <2>4. n = Chunks[c]
    <3>1. EOF = Payload(c, n)
      BY <1>8, <1>10, <1>12 DEF EOF, Absent
    <3> HIDE DEF n
    <3> QED
      BY <1>3, <1>8, <3>1 DEF Payload, EOF, SeqNums
  <2>5. Delivers(c, s, p, n)
    BY <1>5, <1>8, <1>9, <1>12, <2>1, <2>3, <2>4 DEF Delivers
  <2> QED
    BY <1>3, <1>8, <2>5
<1> QED
  BY <1>5, <1>8, <1>11, <1>12

-----------------------------------------------------------------------------
LEMMA InitFile == Init => FileInv
<1> SUFFICES ASSUME Init PROVE FileInv
  OBVIOUS
<1>1. InFlight /\ Held
  BY DEF Init, NetInit, ClientInit, InFlight, Held
<1>2. InStep /\ WrittenIsPrefix /\ DoneIsComplete
  BY ChunksAssumption DEF Init, ClientInit, InStep, WrittenIsPrefix, DoneIsComplete
<1> QED
  BY <1>1, <1>2, InitType DEF FileInv

\* What the server adds to the link keeps InFlight.
LEMMA SentInFlight ==
    ASSUME FitsSeqSpace, FileInv, NEW c \in Clients, NEW I, I \subseteq 0 .. Chunks[c],
           down' = down \cup {PacketOf(c, i) : i \in I}
    PROVE  InFlight'
<1>1. ASSUME NEW i \in I
      PROVE  LET m == PacketOf(c, i)
             IN  m.seq <= Chunks[m.to] /\ m.payload = Payload(m.to, m.seq)
  <2>1. i \in 0 .. Chunks[c]
    OBVIOUS
  <2>2. PacketOf(c, i) = Data(c, i, Payload(c, i))
    BY <2>1, PacketInFlight
  <2> QED
    BY <2>1, <2>2, ChunksAssumption DEF Data
<1> QED
  BY <1>1 DEF InFlight, FileInv

LEMMA IterateInFlight ==
    ASSUME FitsSeqSpace, FileInv, serving \in Clients,
           NEW ack \in Int, ack >= -1, NEW expired, Iterate(ack, expired)
    PROVE  InFlight'
<1> DEFINE sent == FilledTo(ack, last_sent, PacketCount(serving))
<1>1. /\ last_sent \in Int /\ last_sent >= -1
      /\ last_sent <= Chunks[serving] /\ Chunks[serving] \in Nat
      /\ PacketCount(serving) = Chunks[serving] + 1
  BY ChunksAssumption
  DEF FileInv, TypeInv, TypeOK, ServerTypeOK, SentBound, PacketCount
<1>2. sent \in Int /\ sent <= Chunks[serving]
  <2>1. PacketCount(serving) \in Nat /\ last_sent <= PacketCount(serving) - 1
    BY <1>1
  <2>2. sent \in Int /\ sent <= PacketCount(serving) - 1
    BY <1>1, <2>1, FilledType
  <2> HIDE DEF sent
  <2> QED
    BY <1>1, <2>2
<1>3. expired \subseteq (ack + 1) .. last_sent
  BY DEF Iterate
<1>4. \/ down' = down \cup {PacketOf(serving, i) : i \in expired}
      \/ down' = down \cup {PacketOf(serving, i) : i \in expired \cup (last_sent + 1 .. sent)}
  BY DEF Iterate
<1> HIDE DEF sent
<1>5. expired \subseteq 0 .. Chunks[serving]
  BY <1>1, <1>3
<1>6. expired \cup (last_sent + 1 .. sent) \subseteq 0 .. Chunks[serving]
  BY <1>1, <1>2, <1>5
<1> QED
  BY <1>4, <1>5, <1>6, SentInFlight

LEMMA ServerStepInFlight ==
    ASSUME FitsSeqSpace, FileInv, ServerStep
    PROVE  InFlight'
<1>1. ASSUME down' \subseteq down
      PROVE  InFlight'
  BY <1>1 DEF InFlight, FileInv
<1>2. ASSUME NEW c \in Clients, ServerGet(c)
      PROVE  InFlight'
  <2>1. CASE /\ last_sent' = FilledTo(-1, -1, PacketCount(c))
             /\ down' = down \cup {PacketOf(c, i) : i \in 0 .. last_sent'}
    <3>1. last_sent' \in Int /\ last_sent' <= Chunks[c]
      BY <2>1, CountType, FilledType, ChunksAssumption DEF PacketCount
    <3>2. 0 .. last_sent' \subseteq 0 .. Chunks[c]
      BY <3>1, ChunksAssumption
    <3> QED
      BY <2>1, <3>2, SentInFlight
  <2>2. CASE Access[c] = "missing" /\ down' = down \cup {Data(c, 0, EOF)}
    <3>1. Chunks[c] = 0
      BY <2>2, MissingAssumption
    <3>2. Data(c, 0, EOF).seq <= Chunks[c] /\ EOF = Payload(c, 0)
      BY <3>1 DEF Data, Payload
    <3> QED
      BY <2>2, <3>2 DEF InFlight, FileInv, Data
  <2>3. CASE UNCHANGED down
    BY <2>3, <1>1
  <2> QED
    BY <1>2, <2>1, <2>2, <2>3 DEF ServerGet
<1>3. ASSUME NEW m \in up, ServerIgnore(m)
      PROVE  InFlight'
  BY <1>1, <1>3 DEF ServerIgnore
<1>4. ASSUME NEW m \in up, m.type = "ACK", ServerAck(m.from, m.seq)
      PROVE  InFlight'
  <2> DEFINE ack == Advance(last_ack, m.seq, PacketCount(serving))
  <2>1. m.seq \in SeqNums
    BY <1>4 DEF FileInv, TypeInv, TypeOK, NetTypeOK, UpDatagrams
  <2>2. ack \in Int /\ ack >= -1 /\ serving \in Clients
    BY <1>4, <2>1, AdvanceType, CountType
    DEF ServerAck, FileInv, TypeInv, TypeOK, ServerTypeOK
  <2>3. PICK expired : Iterate(ack, expired)
    BY <1>4 DEF ServerAck
  <2> HIDE DEF ack
  <2> QED
    BY <2>2, <2>3, IterateInFlight
<1>5. ASSUME NEW m \in up, ServerSkip(m)
      PROVE  InFlight'
  BY <1>5, IterateInFlight DEF ServerSkip, FileInv, TypeInv, TypeOK, ServerTypeOK
<1>6. ASSUME NEW expired, ServerTimeout(expired)
      PROVE  InFlight'
  BY <1>6, IterateInFlight DEF ServerTimeout, FileInv, TypeInv, TypeOK, ServerTypeOK
<1>7. ASSUME ServerReset(Gone) \/ ServerAbort \/ ServerStop
      PROVE  InFlight'
  BY <1>1, <1>7, RemainingSubset DEF ServerReset, ServerAbort, ServerStop, netVars
<1> QED
  BY <1>2, <1>3, <1>4, <1>5, <1>6, <1>7 DEF ServerStep

LEMMA ClientDataFile ==
    ASSUME FitsSeqSpace, FileInv, NEW c \in Clients, NEW s, NEW p, ClientData(c, s, p)
    PROVE  InFlight' /\ Held' /\ InStep' /\ WrittenIsPrefix' /\ DoneIsComplete'
<1>1. PICK n \in Len(written[c]) .. Chunks[c] : Delivers(c, s, p, n)
  BY Delivery
<1>2. /\ s \in SeqNums /\ s <= Chunks[c] /\ p = Payload(c, s)
      /\ down' \subseteq down
  <2>1. s \in SeqNums /\ Data(c, s, p) \in down /\ down' \subseteq down
    BY ClientDataFacts DEF FileInv
  <2> QED
    BY <2>1 DEF FileInv, InFlight, Data
<1>3. /\ n \in Nat /\ n <= Chunks[c] /\ Chunks[c] \in Nat
      /\ Len(written[c]) \in Nat /\ Len(written[c]) <= n
  BY ChunksAssumption DEF FileInv, TypeInv, TypeOK, ClientTypeOK
<1>4. Len(FirstChunks(n)) = n /\ \A i \in 1 .. n : FirstChunks(n)[i] = i - 1
  BY <1>3 DEF FirstChunks
<1>5. /\ written \in [Clients -> Seq(Nat)] /\ expected_seqnum \in [Clients -> SeqNums]
      /\ buffer \in [Clients -> Buffers] /\ status \in [Clients -> Statuses]
  BY DEF FileInv, TypeInv, TypeOK, ClientTypeOK, Buffers
<1>6. /\ written'[c] = FirstChunks(n)
      /\ \A d \in Clients \ {c} : written'[d] = written[d]
  BY <1>1, <1>5 DEF Delivers
<1>7. InFlight'
  BY <1>2 DEF FileInv, InFlight
<1>8. InStep'
  BY <1>1, <1>4, <1>5, <1>6 DEF Delivers, InStep, FileInv
<1>9. WrittenIsPrefix'
  BY <1>3, <1>4, <1>6 DEF WrittenIsPrefix, FileInv
<1>10. Held'
  <2>1. PICK b \in Buffers :
          /\ buffer' = [buffer EXCEPT ![c] = b]
          /\ \A t \in SeqNums : b[t] # Absent =>
               n < t /\ (b[t] = buffer[c][t] \/ (t = s /\ b[t] = p))
    BY <1>1 DEF Delivers
  <2>2. ASSUME NEW t \in SeqNums, buffer'[c][t] # Absent
        PROVE  Len(written'[c]) < t /\ t <= Chunks[c] /\ buffer'[c][t] = Payload(c, t)
    BY <1>2, <1>4, <1>5, <1>6, <2>1, <2>2 DEF Held, FileInv
  <2>3. ASSUME NEW d \in Clients \ {c}
        PROVE  buffer'[d] = buffer[d] /\ written'[d] = written[d]
    BY <1>5, <1>6, <2>1
  <2> QED
    BY <2>2, <2>3 DEF Held, FileInv
<1>11. DoneIsComplete'
  <2>1. CASE UNCHANGED status
    <3>1. status[c] # "done"
      BY DEF ClientData
    <3> QED
      BY <1>6, <2>1, <3>1 DEF DoneIsComplete, FileInv
  <2>2. CASE n = Chunks[c] /\ status' = [status EXCEPT ![c] = "done"]
    BY <1>4, <1>5, <1>6, <2>2 DEF DoneIsComplete, FileInv
  <2> QED
    BY <1>1, <2>1, <2>2 DEF Delivers
<1> QED
  BY <1>7, <1>8, <1>9, <1>10, <1>11

LEMMA NextFile ==
    ASSUME FitsSeqSpace
    PROVE  FileInv /\ [Next]_vars => FileInv'
<1> SUFFICES ASSUME FileInv, [Next]_vars
             PROVE  InFlight' /\ Held' /\ InStep' /\ WrittenIsPrefix' /\ DoneIsComplete'
  BY NextType DEF FileInv
<1> DEFINE Files == Held' /\ InStep' /\ WrittenIsPrefix' /\ DoneIsComplete'
<1>1. ASSUME UNCHANGED <<expected_seqnum, buffer, written>>,
             \A c \in Clients : status'[c] = "done" => status[c] = "done"
      PROVE  Files
  BY <1>1 DEF FileInv, Held, InStep, WrittenIsPrefix, DoneIsComplete
<1>2. CASE ServerStep
  <2>1. UNCHANGED clientVars
    BY <1>2 DEF ServerStep
  <2> QED
    BY <1>1, <1>2, <2>1, ServerStepInFlight DEF clientVars
<1>3. CASE LinkStep
  <2>1. \A m \in down' : m.type = "DATA" => m \in down
    BY <1>3 DEF LinkStep, Lose, Damage, BadDown
  <2>2. InFlight'
    BY <2>1 DEF FileInv, InFlight
  <2>3. UNCHANGED clientVars
    BY <1>3 DEF LinkStep
  <2> QED
    BY <1>1, <2>2, <2>3 DEF clientVars
<1>4. CASE ClientStep
  <2>1. ASSUME NEW c \in Clients, ClientRequest(c) \/ ClientBad(c) \/ ClientKill(c)
        PROVE  InFlight' /\ Files
    <3>1. /\ UNCHANGED <<expected_seqnum, buffer, written>> /\ down' \subseteq down
          /\ \A d \in Clients : status'[d] = "done" => status[d] = "done"
      BY <2>1
      DEF ClientRequest, ClientBad, ClientKill, FileInv, TypeInv, TypeOK, ClientTypeOK, netVars
    <3>2. InFlight'
      BY <3>1 DEF FileInv, InFlight
    <3> QED
      BY <1>1, <3>1, <3>2
  <2>2. ASSUME NEW c \in Clients, NEW s, NEW p, ClientData(c, s, p)
        PROVE  InFlight' /\ Files
    BY <2>2, ClientDataFile
  <2> QED
    BY <1>4, <2>1, <2>2 DEF ClientStep
<1>5. CASE UNCHANGED vars
  BY <1>5 DEF FileInv, InFlight, Held, InStep, WrittenIsPrefix, DoneIsComplete,
              vars, netVars, clientVars
<1> QED
  BY <1>2, <1>3, <1>4, <1>5 DEF Next

LEMMA FileInvariant ==
    ASSUME FitsSeqSpace
    PROVE  Spec => []FileInv
BY InitFile, NextFile, PTL DEF Spec

(***************************************************************************)
(* If the files fit in the sequence number space, then what a client saves *)
(* is at every moment a beginning of its file, whatever the link, the      *)
(* other clients and the ACKs they send do, and for every window.          *)
(***************************************************************************)
THEOREM SavedFileIsPrefix ==
    ASSUME FitsSeqSpace
    PROVE  Spec => []WrittenIsPrefix
<1>1. FileInv => WrittenIsPrefix
  BY DEF FileInv
<1> QED
  BY <1>1, FileInvariant, PTL

(***************************************************************************)
(* Under the same condition, a client that announces the end of the        *)
(* transfer has the whole file.                                            *)
(***************************************************************************)
THEOREM EndMeansComplete ==
    ASSUME FitsSeqSpace
    PROVE  Spec => []DoneIsComplete
<1>1. FileInv => DoneIsComplete
  BY DEF FileInv
<1> QED
  BY <1>1, FileInvariant, PTL

(***************************************************************************)
(* Under the same condition, a retransmitted chunk is never kept for a     *)
(* second write.                                                           *)
(***************************************************************************)
THEOREM DuplicatesAreIgnored ==
    ASSUME FitsSeqSpace
    PROVE  Spec => []DuplicatesIgnored
<1>1. FileInv => DuplicatesIgnored
  <2> SUFFICES ASSUME FileInv, NEW c \in Clients, NEW s \in SeqNums, buffer[c][s] \in Nat
               PROVE  buffer[c][s] >= Len(written[c])
    BY DEF DuplicatesIgnored
  <2>1. Len(written[c]) < s /\ buffer[c][s] = Payload(c, s) /\ Len(written[c]) \in Nat
    BY DEF FileInv, Held, Absent, TypeInv, TypeOK, ClientTypeOK
  <2> QED
    BY <2>1, ChunksAssumption DEF Payload, EOF, SeqNums
<1> QED
  BY <1>1, FileInvariant, PTL

-----------------------------------------------------------------------------
(***************************************************************************)
(* The transfer implements FileTransfer.                                   *)
(***************************************************************************)
LEMMA InitAbstract == Init => Abstract!Start
<1> SUFFICES ASSUME Init PROVE Abstract!Start
  OBVIOUS
<1>1. Abstract!Beginning(0) = <<>>
  BY DEF Abstract!Beginning
<1>2. [c \in Clients |-> OutcomeOf[status[c]]] = [c \in Clients |-> "running"]
  BY DEF Init, ClientInit, OutcomeOf
<1> QED
  BY <1>1, <1>2 DEF Init, ClientInit, Abstract!Start

LEMMA NextAbstract ==
    ASSUME FitsSeqSpace, FileInv, [Next]_vars
    PROVE  [Abstract!Progress]_(Abstract!abstractVars)
<1> DEFINE outcome == [c \in Clients |-> OutcomeOf[status[c]]]
<1>1. ASSUME UNCHANGED <<written, status>>
      PROVE  UNCHANGED Abstract!abstractVars
  BY <1>1 DEF Abstract!abstractVars
<1>2. ASSUME NEW c \in Clients, NEW s, NEW p, ClientData(c, s, p)
      PROVE  Abstract!Progress
  <2>1. PICK n \in Len(written[c]) .. Chunks[c] : Delivers(c, s, p, n)
    BY <1>2, Delivery
  <2>2. FirstChunks(n) = Abstract!Beginning(n)
    BY DEF FirstChunks, Abstract!Beginning
  <2>3. outcome[c] = "running"
    BY <1>2 DEF ClientData, OutcomeOf
  <2>4. status \in [Clients -> Statuses]
    BY DEF FileInv, TypeInv, TypeOK, ClientTypeOK
  <2>5. CASE UNCHANGED status
    <3>1. outcome' = outcome
      BY <2>5
    <3> QED
      BY <2>1, <2>2, <2>3, <3>1 DEF Delivers, Abstract!Progress, Abstract!Grow
  <2>6. CASE n = Chunks[c] /\ status' = [status EXCEPT ![c] = "done"]
    <3>1. outcome' = [outcome EXCEPT ![c] = "complete"]
      BY <2>4, <2>6 DEF OutcomeOf
    <3> QED
      BY <2>1, <2>2, <2>3, <2>6, <3>1 DEF Delivers, Abstract!Progress, Abstract!Grow
  <2> QED
    BY <2>1, <2>5, <2>6 DEF Delivers
<1>3. ASSUME NEW c \in Clients, ClientBad(c) \/ ClientKill(c)
      PROVE  Abstract!Progress
  <2>1. /\ status[c] = "recv" /\ written' = written
        /\ status' = [status EXCEPT ![c] = "dead"] /\ status \in [Clients -> Statuses]
    BY <1>3 DEF ClientBad, ClientKill, FileInv, TypeInv, TypeOK, ClientTypeOK
  <2>2. outcome[c] = "running"
    BY <2>1 DEF OutcomeOf
  <2>3. outcome' = [outcome EXCEPT ![c] = "failed"]
    BY <2>1 DEF OutcomeOf
  <2> QED
    BY <2>1, <2>2, <2>3 DEF Abstract!Progress, Abstract!GiveUp
<1>4. ASSUME NEW c \in Clients, ClientRequest(c)
      PROVE  UNCHANGED Abstract!abstractVars
  <2>1. /\ status[c] = "start" /\ written' = written
        /\ status' = [status EXCEPT ![c] = "recv"] /\ status \in [Clients -> Statuses]
    BY <1>4 DEF ClientRequest, FileInv, TypeInv, TypeOK, ClientTypeOK
  <2>2. outcome' = outcome
    BY <2>1 DEF OutcomeOf
  <2> QED
    BY <2>1, <2>2 DEF Abstract!abstractVars
<1>5. CASE ClientStep
  BY <1>2, <1>3, <1>4, <1>5 DEF ClientStep
<1>6. CASE ServerStep \/ LinkStep \/ UNCHANGED vars
  BY <1>1, <1>6 DEF ServerStep, LinkStep, vars, clientVars
<1> QED
  BY <1>5, <1>6 DEF Next

(***************************************************************************)
(* If the files fit in the sequence number space, every behaviour of the   *)
(* clients, the server and the link is one the abstract file transfer      *)
(* allows.                                                                 *)
(***************************************************************************)
THEOREM TransferKeepsPromise ==
    ASSUME FitsSeqSpace
    PROVE  Spec => KeepsPromise
<1>1. FileInv /\ [Next]_vars => [Abstract!Progress]_(Abstract!abstractVars)
  BY NextAbstract
<1> QED
  BY <1>1, InitAbstract, FileInvariant, PTL DEF Spec, KeepsPromise, Abstract!Promise

-----------------------------------------------------------------------------
\* The server's sliding window: what last_ack means, and how far ahead of the
\* client the server can be.

LEMMA FilledFacts ==
    ASSUME NEW ack \in Int, NEW sent \in Int, NEW n \in Nat,
           ack < n - 1, sent <= n - 1
    PROVE  /\ FilledTo(ack, sent, n) \in Int
           /\ FilledTo(ack, sent, n) <= n - 1
           /\ sent <= ack + Window => FilledTo(ack, sent, n) <= ack + Window
           /\ FilledTo(ack, sent, n) < n - 1 => FilledTo(ack, sent, n) >= ack + Window
BY WindowAssumption DEF FilledTo

WindowInv == TypeInv /\ WindowFull

LEMMA IterateWindow ==
    ASSUME WindowInv, serving \in Clients,
           NEW ack \in Int, ack >= last_ack, NEW expired, Iterate(ack, expired)
    PROVE  WindowFull'
<1> DEFINE sent == FilledTo(ack, last_sent, PacketCount(serving))
<1>1. /\ last_ack \in Int /\ last_sent \in Int /\ last_ack >= -1
      /\ last_sent <= last_ack + Window /\ last_sent <= Chunks[serving]
      /\ Chunks[serving] \in Nat /\ Window \in Nat
  BY ChunksAssumption, WindowAssumption
  DEF WindowInv, WindowFull, TypeInv, TypeOK, ServerTypeOK
<1>2. CASE Return
  BY <1>2, IdleAssumption DEF Return, WindowFull
<1>3. CASE /\ ack < PacketCount(serving) - 1
           /\ last_ack' = ack /\ last_sent' = sent /\ UNCHANGED serving
  <2>1. PacketCount(serving) \in Nat /\ PacketCount(serving) - 1 = Chunks[serving]
    BY <1>1 DEF PacketCount
  <2>2. /\ sent \in Int /\ sent <= Chunks[serving]
        /\ sent <= ack + Window
        /\ sent < Chunks[serving] => sent >= ack + Window
    BY <1>1, <1>3, <2>1, FilledFacts
  <2> HIDE DEF sent
  <2> QED
    BY <1>1, <1>3, <2>1, <2>2 DEF WindowFull
<1> QED
  BY <1>2, <1>3 DEF Iterate

LEMMA InitWindow == Init => WindowInv
BY InitType, IdleAssumption DEF Init, ServerInit, WindowInv, WindowFull

LEMMA NextWindow == WindowInv /\ [Next]_vars => WindowInv'
<1> SUFFICES ASSUME WindowInv, [Next]_vars
             PROVE  WindowFull'
  BY NextType DEF WindowInv
<1>1. ASSUME UNCHANGED serverVars
      PROVE  WindowFull'
  BY <1>1 DEF WindowInv, WindowFull, serverVars
<1>2. ASSUME serving' \notin Clients
      PROVE  WindowFull'
  BY <1>2 DEF WindowFull
<1>3. last_ack \in Int /\ last_ack >= -1
  BY DEF WindowInv, TypeInv, TypeOK, ServerTypeOK
<1>4. ASSUME NEW c \in Clients, ServerGet(c)
      PROVE  WindowFull'
  <2>1. CASE /\ serving' = c /\ last_ack' = -1
             /\ last_sent' = FilledTo(-1, -1, PacketCount(c))
    <3>1. PacketCount(c) \in Nat /\ PacketCount(c) - 1 = Chunks[c] /\ Chunks[c] \in Nat
      BY ChunksAssumption DEF PacketCount
    <3> QED
      BY <2>1, <3>1, WindowAssumption DEF FilledTo, WindowFull
  <2>2. CASE UNCHANGED serverVars
    BY <1>1, <2>2
  <2> QED
    BY <1>4, <2>1, <2>2 DEF ServerGet
<1>5. ASSUME NEW m \in up, m.type = "ACK", ServerAck(m.from, m.seq)
      PROVE  WindowFull'
  <2> DEFINE ack == Advance(last_ack, m.seq, PacketCount(serving))
  <2>1. m.seq \in SeqNums
    BY <1>5 DEF WindowInv, TypeInv, TypeOK, NetTypeOK, UpDatagrams
  <2>2. ack \in Int /\ ack >= last_ack /\ serving \in Clients
    BY <1>3, <1>5, <2>1, AdvanceType, CountType DEF ServerAck
  <2>3. PICK expired : Iterate(ack, expired)
    BY <1>5 DEF ServerAck
  <2> HIDE DEF ack
  <2> QED
    BY <2>2, <2>3, IterateWindow
<1>6. ASSUME NEW m \in up, ServerIgnore(m) \/ ServerSkip(m)
      PROVE  WindowFull'
  BY <1>1, <1>3, <1>6, IterateWindow DEF ServerIgnore, ServerSkip
<1>7. ASSUME NEW expired, ServerTimeout(expired)
      PROVE  WindowFull'
  BY <1>3, <1>7, IterateWindow DEF ServerTimeout
<1>8. ASSUME ServerReset(Gone) \/ ServerAbort \/ ServerStop
      PROVE  WindowFull'
  BY <1>1, <1>2, <1>8, IdleAssumption DEF ServerReset, ServerAbort, ServerStop, Return
<1>9. CASE ServerStep
  BY <1>4, <1>5, <1>6, <1>7, <1>8, <1>9 DEF ServerStep
<1>10. CASE ClientStep \/ LinkStep \/ UNCHANGED vars
  BY <1>1, <1>10 DEF ClientStep, LinkStep, vars
<1> QED
  BY <1>9, <1>10 DEF Next

LEMMA WindowInvariant == Spec => []WindowInv
BY InitWindow, NextWindow, PTL DEF Spec

(***************************************************************************)
(* For every file, window and sequence number space: the server never has  *)
(* more than a window of unconfirmed packets out, and when it waits it has *)
(* sent all its window allows.                                             *)
(***************************************************************************)
THEOREM WindowIsFull == Spec => []WindowFull
<1>1. WindowInv => WindowFull
  BY DEF WindowInv
<1> QED
  BY <1>1, WindowInvariant, PTL

-----------------------------------------------------------------------------
(***************************************************************************)
(* With one client, and a sequence number for every packet, the ACKs in    *)
(* flight tell no more than the client has confirmed (AcksTruthful), and   *)
(* DATA is less than a window ahead of that, in flight (DataInWindow) and  *)
(* in the client's buffer (HeldInWindow).                                  *)
(***************************************************************************)
AcksTruthful == \A m \in up : m.type = "ACK" => m.seq <= Confirmed(m.from)

DataInWindow == \A m \in down : m.type = "DATA" => m.seq < Confirmed(m.to) + Window

HeldInWindow ==
    \A c \in Clients, s \in SeqNums :
      buffer[c][s] # Absent => s < Len(written[c]) + Window

ConfirmedInv ==
    FileInv /\ WindowFull /\ AcksTruthful /\ DataInWindow /\ HeldInWindow /\ AckSound

LEMMA ConfirmedType ==
    ASSUME FileInv, NEW c \in Clients
    PROVE  /\ Confirmed(c) \in Nat /\ Confirmed(c) <= PacketCount(c)
           /\ Confirmed(c) = PacketCount(c) => status[c] = "done"
BY ChunksAssumption
DEF FileInv, TypeInv, TypeOK, ClientTypeOK, WrittenIsPrefix, Confirmed, PacketCount

(***************************************************************************)
(* Below one turn of the sequence numbers, the code's index of an ACK is   *)
(* the packet before the one asked for; an ACK the server has already      *)
(* counted is mapped beyond the end of the list, and so ignored.           *)
(***************************************************************************)
LEMMA AdvanceTruthful ==
    ASSUME NEW ack \in Int, ack >= -1, NEW n \in Nat, ack < n - 1, n < SeqMod,
           NEW s \in SeqNums
    PROVE  Advance(ack, s, n) \in {ack, s - 1}
<1>1. (ack + 1) \div SeqMod = 0
  BY SeqModAssumption
<1>2. AckIndex(ack, s) \in {s - 1, s - 1 + SeqMod}
  BY <1>1, SeqModAssumption DEF AckIndex, SeqNums
<1>3. AckIndex(ack, s) = s - 1 + SeqMod => ~ (AckIndex(ack, s) < n)
  BY SeqModAssumption DEF SeqNums
<1> QED
  BY <1>2, <1>3 DEF Advance

LEMMA AckLeadsToConfirmed ==
    ASSUME FitsSeqSpace, SingleClient, ConfirmedInv, serving \in Clients,
           NEW m \in up, m.type = "ACK"
    PROVE  LET ack == Advance(last_ack, m.seq, PacketCount(serving))
           IN  ack \in Int /\ ack >= last_ack /\ ack < Confirmed(serving)
<1>1. m.from = serving /\ m.seq \in SeqNums
  BY DEF SingleClient, ConfirmedInv, FileInv, TypeInv, TypeOK, NetTypeOK, UpDatagrams
<1>2. m.seq <= Confirmed(serving)
  BY <1>1 DEF ConfirmedInv, AcksTruthful
<1>3. /\ last_ack \in Int /\ last_ack >= -1 /\ last_ack < Confirmed(serving)
      /\ last_ack < PacketCount(serving) - 1
      /\ PacketCount(serving) \in Nat /\ PacketCount(serving) < SeqMod
  BY CountType, ChunksAssumption
  DEF ConfirmedInv, AckSound, WindowFull, FileInv, TypeInv, TypeOK, ServerTypeOK,
      FitsSeqSpace, PacketCount
<1>4. Confirmed(serving) \in Nat
  BY ConfirmedType DEF ConfirmedInv
<1> DEFINE ack == Advance(last_ack, m.seq, PacketCount(serving))
<1>5. ack \in {last_ack, m.seq - 1}
  BY <1>1, <1>3, AdvanceTruthful
<1>6. ack \in Int /\ ack >= last_ack
  <2>1. PacketCount(serving) \in Int
    BY <1>3
  <2> QED
    BY <1>1, <1>3, <2>1, AdvanceType
<1> HIDE DEF ack
<1>7. ack < Confirmed(serving)
  BY <1>1, <1>2, <1>3, <1>4, <1>5 DEF SeqNums
<1> QED
  BY <1>6, <1>7 DEF ack

LEMMA InitConfirmed == Init => ConfirmedInv
BY InitFile, InitWindow, IdleAssumption
DEF Init, NetInit, ServerInit, ClientInit, ConfirmedInv, WindowInv, AcksTruthful,
    DataInWindow, HeldInWindow, AckSound

-----------------------------------------------------------------------------
(***************************************************************************)
(* The server's steps.                                                     *)
(***************************************************************************)
\* DATA sent with an index less than a window ahead of what is confirmed.
LEMMA SentInWindow ==
    ASSUME FitsSeqSpace, ConfirmedInv, UNCHANGED clientVars,
           NEW c \in Clients, NEW I, I \subseteq 0 .. Chunks[c],
           \A i \in I : i < Confirmed(c) + Window,
           down' = down \cup {PacketOf(c, i) : i \in I}
    PROVE  DataInWindow'
<1>1. \A d \in Clients : Confirmed(d)' = Confirmed(d)
  BY DEF Confirmed, clientVars
<1>2. \A m \in down : m.to \in Clients
  BY DEF ConfirmedInv, FileInv, TypeInv, TypeOK, NetTypeOK, DownDatagrams
<1>3. ASSUME NEW i \in I
      PROVE  PacketOf(c, i).to = c /\ PacketOf(c, i).seq = i
  <2>1. i \in 0 .. Chunks[c]
    OBVIOUS
  <2> QED
    BY <2>1, PacketInFlight DEF Data
<1>4. \A i \in I : PacketOf(c, i).seq < Confirmed(PacketOf(c, i).to)' + Window
  BY <1>1, <1>3
<1>5. \A m \in down : m.type = "DATA" => m.seq < Confirmed(m.to)' + Window
  BY <1>1, <1>2 DEF ConfirmedInv, DataInWindow
<1> QED
  BY <1>4, <1>5 DEF DataInWindow

LEMMA IterateConfirmed ==
    ASSUME FitsSeqSpace, ConfirmedInv, UNCHANGED clientVars, serving \in Clients,
           NEW ack \in Int, ack >= last_ack, ack < Confirmed(serving),
           NEW expired, Iterate(ack, expired)
    PROVE  DataInWindow' /\ AckSound'
<1> DEFINE sent == FilledTo(ack, last_sent, PacketCount(serving))
<1>1. /\ last_ack \in Int /\ last_sent \in Int /\ last_ack >= -1 /\ last_sent >= -1
      /\ last_sent <= last_ack + Window /\ last_sent <= Chunks[serving]
      /\ Chunks[serving] \in Nat /\ Window \in Nat
  BY ChunksAssumption, WindowAssumption
  DEF ConfirmedInv, WindowFull, FileInv, TypeInv, TypeOK, ServerTypeOK
<1>2. Confirmed(serving) \in Nat
  BY ConfirmedType DEF ConfirmedInv
<1>3. expired \subseteq (ack + 1) .. last_sent
  BY DEF Iterate
<1>4. expired \subseteq 0 .. Chunks[serving] /\ \A i \in expired : i < Confirmed(serving) + Window
  BY <1>1, <1>2, <1>3
<1>5. CASE Return /\ down' = down \cup {PacketOf(serving, i) : i \in expired}
  <2>1. DataInWindow'
    BY <1>4, <1>5, SentInWindow
  <2> QED
    BY <1>5, <2>1, IdleAssumption DEF Return, AckSound
<1>6. CASE /\ ack < PacketCount(serving) - 1
           /\ last_ack' = ack /\ UNCHANGED serving
           /\ down' = down \cup {PacketOf(serving, i) : i \in expired \cup (last_sent + 1 .. sent)}
  <2>1. PacketCount(serving) \in Nat /\ PacketCount(serving) - 1 = Chunks[serving]
    BY <1>1 DEF PacketCount
  <2>2. sent \in Int /\ sent <= Chunks[serving] /\ sent <= ack + Window
    BY <1>1, <1>6, <2>1, FilledFacts
  <2> DEFINE I == expired \cup (last_sent + 1 .. sent)
  <2>3. I \subseteq 0 .. Chunks[serving] /\ \A i \in I : i < Confirmed(serving) + Window
    <3> HIDE DEF sent
    <3> QED
      BY <1>1, <1>2, <1>4, <2>2
  <2>4. down' = down \cup {PacketOf(serving, i) : i \in I}
    BY <1>6
  <2> HIDE DEF I
  <2>5. DataInWindow'
    BY <2>3, <2>4, SentInWindow
  <2>6. AckSound'
    BY <1>6 DEF AckSound, Confirmed, clientVars
  <2> QED
    BY <2>5, <2>6
<1> QED
  BY <1>5, <1>6 DEF Iterate

LEMMA ServerStepConfirmed ==
    ASSUME FitsSeqSpace, SingleClient, ConfirmedInv, ServerStep
    PROVE  AcksTruthful' /\ DataInWindow' /\ HeldInWindow' /\ AckSound'
<1>1. UNCHANGED clientVars /\ \A d \in Clients : Confirmed(d)' = Confirmed(d)
  BY DEF ServerStep, clientVars, Confirmed
<1>2. HeldInWindow'
  BY <1>1 DEF ConfirmedInv, HeldInWindow, clientVars
<1>3. up' \subseteq up
  BY RemainingSubset
  DEF ServerStep, ServerGet, ServerIgnore, ServerAck, ServerSkip, ServerTimeout, ServerReset,
      ServerAbort, ServerStop, netVars
<1>4. AcksTruthful'
  <2>1. \A m \in up : m.from \in Clients
    BY DEF ConfirmedInv, FileInv, TypeInv, TypeOK, NetTypeOK, UpDatagrams
  <2> QED
    BY <1>1, <1>3, <2>1 DEF ConfirmedInv, AcksTruthful
<1>5. ASSUME down' \subseteq down
      PROVE  DataInWindow'
  <2>1. \A m \in down : m.to \in Clients
    BY DEF ConfirmedInv, FileInv, TypeInv, TypeOK, NetTypeOK, DownDatagrams
  <2> QED
    BY <1>1, <1>5, <2>1 DEF ConfirmedInv, DataInWindow
<1>6. ASSUME UNCHANGED serverVars \/ serving' \notin Clients
      PROVE  AckSound'
  BY <1>1, <1>6 DEF ConfirmedInv, AckSound, serverVars
<1>7. \A d \in Clients : Confirmed(d) \in Nat /\ Window \in Nat /\ Window > 0
  BY ConfirmedType, WindowAssumption DEF ConfirmedInv
<1>8. last_ack \in Int /\ last_ack >= last_ack /\
      (serving \in Clients => last_ack < Confirmed(serving))
  BY DEF ConfirmedInv, AckSound, FileInv, TypeInv, TypeOK, ServerTypeOK
<1>9. ASSUME NEW c \in Clients, ServerGet(c)
      PROVE  DataInWindow' /\ AckSound'
  <2>1. CASE /\ serving' = c /\ last_ack' = -1
             /\ last_sent' = FilledTo(-1, -1, PacketCount(c))
             /\ down' = down \cup {PacketOf(c, i) : i \in 0 .. last_sent'}
    <3>1. PacketCount(c) \in Nat /\ PacketCount(c) - 1 = Chunks[c] /\ Chunks[c] \in Nat
      BY ChunksAssumption DEF PacketCount
    <3>2. last_sent' \in Int /\ last_sent' <= Chunks[c] /\ last_sent' < Window
      BY <1>7, <2>1, <3>1 DEF FilledTo
    <3>3. 0 .. last_sent' \subseteq 0 .. Chunks[c]
          /\ \A i \in 0 .. last_sent' : i < Confirmed(c) + Window
      BY <1>7, <3>1, <3>2
    <3>4. DataInWindow'
      BY <1>1, <2>1, <3>3, SentInWindow
    <3> QED
      BY <1>1, <1>7, <2>1, <3>4 DEF AckSound
  <2>2. CASE down' = down \cup {Data(c, 0, EOF)} /\ UNCHANGED serverVars
    <3>1. \A m \in down : m.to \in Clients
      BY DEF ConfirmedInv, FileInv, TypeInv, TypeOK, NetTypeOK, DownDatagrams
    <3>2. Data(c, 0, EOF).seq < Confirmed(Data(c, 0, EOF).to)' + Window
      BY <1>1, <1>7 DEF Data
    <3> QED
      BY <1>1, <1>6, <2>2, <3>1, <3>2 DEF ConfirmedInv, DataInWindow
  <2>3. CASE UNCHANGED <<serverVars, down>>
    BY <1>5, <1>6, <2>3
  <2> QED
    BY <1>9, <2>1, <2>2, <2>3 DEF ServerGet
<1>10. ASSUME NEW m \in up, m.type = "ACK", ServerAck(m.from, m.seq)
       PROVE  DataInWindow' /\ AckSound'
  <2> DEFINE ack == Advance(last_ack, m.seq, PacketCount(serving))
  <2>1. serving \in Clients
    BY <1>10 DEF ServerAck
  <2>2. ack \in Int /\ ack >= last_ack /\ ack < Confirmed(serving)
    BY <1>10, <2>1, AckLeadsToConfirmed
  <2>3. PICK expired : Iterate(ack, expired)
    BY <1>10 DEF ServerAck
  <2> HIDE DEF ack
  <2> QED
    BY <1>1, <2>1, <2>2, <2>3, IterateConfirmed
<1>11. ASSUME NEW m \in up, ServerIgnore(m) \/ ServerSkip(m)
       PROVE  DataInWindow' /\ AckSound'
  <2>1. CASE ServerIgnore(m)
    BY <1>5, <1>6, <2>1 DEF ServerIgnore
  <2>2. CASE ServerSkip(m)
    BY <1>1, <1>8, <2>2, IterateConfirmed DEF ServerSkip
  <2> QED
    BY <1>11, <2>1, <2>2
<1>12. ASSUME NEW expired, ServerTimeout(expired)
       PROVE  DataInWindow' /\ AckSound'
  BY <1>1, <1>8, <1>12, IterateConfirmed DEF ServerTimeout
<1>13. ASSUME ServerReset(Gone) \/ ServerAbort \/ ServerStop
       PROVE  DataInWindow' /\ AckSound'
  <2>1. down' \subseteq down
    BY <1>13, RemainingSubset DEF ServerReset, ServerAbort, ServerStop, netVars
  <2>2. UNCHANGED serverVars \/ serving' \notin Clients
    BY <1>13, IdleAssumption DEF ServerReset, ServerAbort, ServerStop, Return
  <2> QED
    BY <1>5, <1>6, <2>1, <2>2
<1> QED
  BY <1>2, <1>4, <1>9, <1>10, <1>11, <1>12, <1>13 DEF ServerStep

-----------------------------------------------------------------------------
(***************************************************************************)
(* The client's steps and the link's.                                      *)
(***************************************************************************)
LEMMA ConfirmedMonotone ==
    ASSUME NEW c \in Clients,
           Len(written[c]) \in Nat, Len(written'[c]) \in Nat, Len(written[c]) <= Len(written'[c]),
           status[c] = "done" => status'[c] = "done"
    PROVE  Confirmed(c) \in Nat /\ Confirmed(c)' \in Nat /\ Confirmed(c) <= Confirmed(c)'
<1>1. CASE status[c] = "done"
  <2>1. Confirmed(c) = Len(written[c]) + 1 /\ Confirmed(c)' = Len(written'[c]) + 1
    BY <1>1 DEF Confirmed
  <2> QED
    BY <2>1
<1>2. CASE status[c] # "done"
  <2>1. Confirmed(c) = Len(written[c])
    BY <1>2 DEF Confirmed
  <2>2. Confirmed(c)' = Len(written'[c]) \/ Confirmed(c)' = Len(written'[c]) + 1
    <3>1. CASE status'[c] = "done"
      BY <3>1 DEF Confirmed
    <3>2. CASE status'[c] # "done"
      BY <3>2 DEF Confirmed
    <3> QED
      BY <3>1, <3>2
  <2> QED
    BY <2>1, <2>2
<1> QED
  BY <1>1, <1>2

\* What a client has confirmed only grows.
LEMMA ConfirmedGrows ==
    ASSUME ConfirmedInv,
           \A c \in Clients : /\ Len(written[c]) \in Nat /\ Len(written'[c]) \in Nat
                              /\ Len(written[c]) <= Len(written'[c])
                              /\ status[c] = "done" => status'[c] = "done",
           \A m \in up' : m.type = "ACK" => m \in up \/ m.seq <= Confirmed(m.from)',
           \A m \in down' : m.type = "DATA" => m \in down
    PROVE  AcksTruthful' /\ DataInWindow'
<1>1. \A c \in Clients : /\ Confirmed(c) \in Nat /\ Confirmed(c)' \in Nat
                         /\ Confirmed(c) <= Confirmed(c)'
  BY ConfirmedMonotone
<1>2. /\ \A m \in up : m.from \in Clients /\ (m.type = "ACK" => m.seq \in SeqNums)
      /\ \A m \in down : m.to \in Clients /\ (m.type = "DATA" => m.seq \in SeqNums)
  BY DEF ConfirmedInv, FileInv, TypeInv, TypeOK, NetTypeOK, UpDatagrams, DownDatagrams
<1>3. AcksTruthful'
  BY <1>1, <1>2 DEF ConfirmedInv, AcksTruthful, SeqNums
<1>4. DataInWindow'
  BY <1>1, <1>2, WindowAssumption DEF ConfirmedInv, DataInWindow, SeqNums
<1> QED
  BY <1>3, <1>4

LEMMA ClientDataConfirmed ==
    ASSUME FitsSeqSpace, ConfirmedInv, NEW c \in Clients, NEW s, NEW p, ClientData(c, s, p),
           UNCHANGED serverVars, FileInv'
    PROVE  AcksTruthful' /\ DataInWindow' /\ HeldInWindow' /\ AckSound'
<1>1. PICK n \in Len(written[c]) .. Chunks[c] : Delivers(c, s, p, n)
  BY Delivery DEF ConfirmedInv
<1>2. /\ s \in SeqNums /\ Data(c, s, p) \in down /\ down' \subseteq down /\ status[c] = "recv"
  <2>1. status[c] = "recv"
    BY DEF ClientData
  <2> QED
    BY <2>1, ClientDataFacts DEF ConfirmedInv, FileInv
<1>3. /\ written \in [Clients -> Seq(Nat)] /\ buffer \in [Clients -> Buffers]
      /\ status \in [Clients -> Statuses]
  BY DEF ConfirmedInv, FileInv, TypeInv, TypeOK, ClientTypeOK, Buffers
<1>4. /\ n \in Nat /\ Chunks[c] \in Nat /\ n <= Chunks[c] /\ Chunks[c] + 1 < SeqMod
      /\ Len(written[c]) \in Nat /\ Len(written[c]) <= n /\ SeqMod \in Nat /\ Window \in Nat
  BY <1>3, ChunksAssumption, SeqModAssumption, WindowAssumption DEF FitsSeqSpace, PacketCount
<1>5. /\ Len(written'[c]) = n
      /\ \A d \in Clients \ {c} : written'[d] = written[d]
  <2>1. Len(FirstChunks(n)) = n
    BY <1>4 DEF FirstChunks
  <2> QED
    BY <1>1, <1>3, <2>1 DEF Delivers
<1>6. \A d \in Clients : /\ Len(written[d]) \in Nat /\ Len(written'[d]) \in Nat
                          /\ Len(written[d]) <= Len(written'[d])
  <2>1. \A d \in Clients : Len(written[d]) \in Nat
    BY <1>3
  <2> QED
    BY <1>4, <1>5, <2>1
<1>7. AcksTruthful' /\ DataInWindow'
  <2>1. CASE up' = up \cup {Ack(c, n)} /\ UNCHANGED status
    <3>1. Confirmed(c)' = n
      BY <1>2, <1>4, <1>5, <2>1 DEF Confirmed
    <3>2. Ack(c, n).seq <= Confirmed(Ack(c, n).from)'
      BY <1>4, <3>1 DEF Ack
    <3> QED
      BY <1>2, <1>6, <2>1, <3>2, ConfirmedGrows
  <2>2. CASE /\ n = Chunks[c]
             /\ up' = up \cup {FinalAck(c, n)}
             /\ status' = [status EXCEPT ![c] = "done"]
    <3>1. n + 1 \in SeqNums
      BY <1>4 DEF SeqNums
    <3>2. FinalAck(c, n).seq = n + 1 /\ FinalAck(c, n).from = c
      BY <3>1, ModSmall DEF FinalAck, Ack
    <3>3. Confirmed(c)' = n + 1
      BY <1>3, <1>5, <2>2 DEF Confirmed
    <3>4. FinalAck(c, n).seq <= Confirmed(FinalAck(c, n).from)'
      BY <1>4, <3>2, <3>3
    <3>5. \A d \in Clients : status[d] = "done" => status'[d] = "done"
      BY <1>3, <2>2
    <3> QED
      BY <1>2, <1>6, <2>2, <3>4, <3>5, ConfirmedGrows
  <2> QED
    BY <1>1, <2>1, <2>2 DEF Delivers
<1>8. s < Len(written[c]) + Window
  <2>1. Confirmed(c) = Len(written[c])
    BY <1>2, <1>4 DEF Confirmed
  <2> QED
    BY <1>2, <2>1 DEF ConfirmedInv, DataInWindow, Data
<1>9. HeldInWindow'
  <2>1. PICK b \in Buffers :
          /\ buffer' = [buffer EXCEPT ![c] = b]
          /\ \A t \in SeqNums : b[t] # Absent =>
               n < t /\ (b[t] = buffer[c][t] \/ (t = s /\ b[t] = p))
    BY <1>1 DEF Delivers
  <2>2. ASSUME NEW t \in SeqNums, buffer'[c][t] # Absent
        PROVE  t < Len(written'[c]) + Window
    <3>1. buffer[c][t] # Absent \/ t = s
      BY <1>3, <2>1, <2>2
    <3>2. t < Len(written[c]) + Window
      BY <1>2, <1>8, <3>1 DEF ConfirmedInv, HeldInWindow
    <3> QED
      BY <1>4, <1>5, <3>2 DEF SeqNums
  <2>3. ASSUME NEW d \in Clients \ {c}
        PROVE  buffer'[d] = buffer[d] /\ written'[d] = written[d]
    BY <1>3, <1>5, <2>1
  <2> QED
    BY <2>2, <2>3 DEF ConfirmedInv, HeldInWindow
<1>10. AckSound'
  <2>1. ASSUME NEW d \in Clients
        PROVE  Confirmed(d) \in Nat /\ Confirmed(d)' \in Nat /\ Confirmed(d) <= Confirmed(d)'
    <3>1. status[d] = "done" => status'[d] = "done"
      BY <1>1, <1>3 DEF Delivers
    <3> QED
      BY <1>6, <3>1, ConfirmedMonotone
  <2>2. last_ack \in Int
    BY DEF ConfirmedInv, FileInv, TypeInv, TypeOK, ServerTypeOK
  <2> QED
    BY <2>1, <2>2 DEF ConfirmedInv, AckSound, serverVars
<1> QED
  BY <1>7, <1>9, <1>10

LEMMA NextConfirmed ==
    ASSUME FitsSeqSpace, SingleClient
    PROVE  ConfirmedInv /\ [Next]_vars => ConfirmedInv'
<1> DEFINE Window4 == AcksTruthful' /\ DataInWindow' /\ HeldInWindow' /\ AckSound'
<1> SUFFICES ASSUME ConfirmedInv, [Next]_vars
             PROVE  Window4
  BY NextFile, NextWindow DEF ConfirmedInv, WindowInv, FileInv
<1>1. FileInv'
  BY NextFile DEF ConfirmedInv
<1>2. CASE ServerStep
  BY <1>2, ServerStepConfirmed
<1>3. ASSUME UNCHANGED <<serverVars, expected_seqnum, buffer, written>>,
             \A c \in Clients : status'[c] = "done" <=> status[c] = "done",
             \A m \in up' : m.type = "ACK" => m \in up,
             \A m \in down' : m.type = "DATA" => m \in down
      PROVE  Window4
  <2>1. \A c \in Clients : Len(written[c]) \in Nat
    BY DEF ConfirmedInv, FileInv, TypeInv, TypeOK, ClientTypeOK
  <2>2. AcksTruthful' /\ DataInWindow'
    BY <1>3, <2>1, ConfirmedGrows
  <2>3. HeldInWindow' /\ AckSound'
    BY <1>3 DEF ConfirmedInv, HeldInWindow, AckSound, Confirmed, serverVars
  <2> QED
    BY <2>2, <2>3
<1>4. CASE LinkStep
  <2>1. /\ \A m \in up' : m.type = "ACK" => m \in up
        /\ \A m \in down' : m.type = "DATA" => m \in down
    BY <1>4 DEF LinkStep, Lose, Damage, BadUp, BadDown
  <2> QED
    BY <1>3, <1>4, <2>1 DEF LinkStep, clientVars
<1>5. CASE ClientStep
  <2>1. ASSUME NEW c \in Clients, ClientRequest(c) \/ ClientBad(c) \/ ClientKill(c)
        PROVE  Window4
    <3>1. \A d \in Clients : status'[d] = "done" <=> status[d] = "done"
      BY <2>1
      DEF ClientRequest, ClientBad, ClientKill, ConfirmedInv, FileInv, TypeInv, TypeOK,
          ClientTypeOK
    <3>2. /\ \A m \in up' : m.type = "ACK" => m \in up
          /\ \A m \in down' : m.type = "DATA" => m \in down
      BY <2>1 DEF ClientRequest, ClientBad, ClientKill, Get, netVars
    <3> QED
      BY <1>3, <1>5, <2>1, <3>1, <3>2 DEF ClientStep, ClientRequest, ClientBad, ClientKill
  <2>2. ASSUME NEW c \in Clients, NEW s, NEW p, ClientData(c, s, p)
        PROVE  Window4
    BY <1>1, <1>5, <2>2, ClientDataConfirmed DEF ClientStep
  <2> QED
    BY <1>5, <2>1, <2>2 DEF ClientStep
<1>6. CASE UNCHANGED vars
  <2>1. UNCHANGED <<serverVars, expected_seqnum, buffer, written, status, up, down>>
    BY <1>6 DEF vars, netVars, clientVars
  <2> QED
    BY <1>3, <2>1
<1> QED
  BY <1>2, <1>4, <1>5, <1>6 DEF Next

LEMMA ConfirmedInvariant ==
    ASSUME FitsSeqSpace, SingleClient
    PROVE  Spec => []ConfirmedInv
BY InitConfirmed, NextConfirmed, PTL DEF Spec

(***************************************************************************)
(* One client, and a sequence number for every packet: the server counts a *)
(* packet as confirmed only when its client has it, over any link.         *)
(***************************************************************************)
THEOREM AcksAreSound ==
    ASSUME FitsSeqSpace, SingleClient
    PROVE  Spec => []AckSound
<1>1. ConfirmedInv => AckSound
  BY DEF ConfirmedInv
<1> QED
  BY <1>1, ConfirmedInvariant, PTL

(***************************************************************************)
(* Under the same conditions, what the client buffers lies within the      *)
(* server's window.                                                        *)
(***************************************************************************)
THEOREM BufferIsWithinWindow ==
    ASSUME FitsSeqSpace, SingleClient
    PROVE  Spec => []BufferWithinWindow
<1>1. ConfirmedInv => BufferWithinWindow
  BY DEF ConfirmedInv, FileInv, Held, HeldInWindow, BufferWithinWindow
<1> QED
  BY <1>1, ConfirmedInvariant, PTL

(***************************************************************************)
(* Under the same conditions, and if no socket call raises and nobody      *)
(* stops the server, send_file gives a client up only when it is gone.     *)
(***************************************************************************)
THEOREM ServerReturnsWhenGone ==
    ASSUME FitsSeqSpace, SingleClient, Faults \cap {"abort", "stop"} = {}
    PROVE  Spec => ReturnsWhenGone
<1>1. ASSUME ConfirmedInv, [Next]_vars, NEW c \in Clients, serving = c, serving' # c
      PROVE  c \in Gone
  <2>1. /\ serving \in Clients /\ last_ack < Chunks[serving] /\ PacketCount(serving) = Chunks[serving] + 1
        /\ last_ack \in Int /\ Chunks[serving] \in Nat
    BY <1>1, ChunksAssumption
    DEF PacketCount, ConfirmedInv, WindowFull, FileInv, TypeInv, TypeOK, ServerTypeOK
  <2>2. ASSUME NEW expired, Iterate(last_ack, expired)
        PROVE  FALSE
    BY <1>1, <2>1, <2>2 DEF Iterate
  <2>3. ASSUME NEW m \in up, m.type = "ACK", ServerAck(m.from, m.seq)
        PROVE  c \in Gone
    <3> DEFINE ack == Advance(last_ack, m.seq, PacketCount(serving))
    <3>1. ack \in Int /\ ack < Confirmed(serving)
      BY <1>1, <2>3, AckLeadsToConfirmed
    <3>2. PICK expired : Iterate(ack, expired)
      BY <2>3 DEF ServerAck
    <3> HIDE DEF ack
    <3>3. ack >= PacketCount(serving) - 1
      BY <1>1, <3>2 DEF Iterate
    <3>4. Confirmed(serving) = PacketCount(serving) => status[serving] = "done"
      BY <1>1, ConfirmedType DEF ConfirmedInv
    <3>5. Confirmed(serving) \in Nat /\ Confirmed(serving) <= PacketCount(serving)
      BY <1>1, ConfirmedType DEF ConfirmedInv
    <3> QED
      BY <1>1, <2>1, <3>1, <3>3, <3>4, <3>5 DEF Gone
  <2>4. ASSUME ServerReset(Gone)
        PROVE  c \in Gone
    BY <1>1, <2>4 DEF ServerReset, SingleClient, Gone
  <2>5. CASE ServerStep
    BY <1>1, <2>2, <2>3, <2>4, <2>5, IdleAssumption
    DEF ServerStep, ServerGet, ServerIgnore, ServerSkip, ServerTimeout, ServerAbort, ServerStop
  <2>6. ~ (ClientStep \/ LinkStep \/ UNCHANGED vars)
    BY <1>1 DEF ClientStep, LinkStep, vars, serverVars
  <2> QED
    BY <1>1, <2>5, <2>6 DEF Next
<1>2. ConfirmedInv /\ [Next]_vars =>
        [\A c \in Clients : serving = c /\ serving' # c => c \in Gone]_vars
  BY <1>1
<1> QED
  BY <1>2, ConfirmedInvariant, PTL DEF Spec, ReturnsWhenGone

-----------------------------------------------------------------------------
(***************************************************************************)
(* The arithmetic of ACKs beyond one turn of the sequence numbers.         *)
(***************************************************************************)
LEMMA DivMod ==
    ASSUME NEW x \in Nat
    PROVE  /\ x = (x \div SeqMod) * SeqMod + (x % SeqMod)
           /\ x \div SeqMod \in Nat /\ x % SeqMod \in SeqNums
BY SeqModAssumption DEF SeqNums

LEMMA ModUnique ==
    ASSUME NEW q \in Nat, NEW r \in SeqNums, NEW x \in Nat, x = q * SeqMod + r
    PROVE  x % SeqMod = r
<1>1. PICK p \in Nat, t \in SeqNums : t = x % SeqMod /\ x = p * SeqMod + t
  BY DivMod
<1>2. /\ SeqMod \in Nat /\ SeqMod > 0
      /\ (p - q) * SeqMod = r - t
      /\ r - t < SeqMod /\ t - r < SeqMod
  BY <1>1, SeqModAssumption DEF SeqNums
<1>3. CASE p - q >= 1
  <2>1. (p - q) * SeqMod >= SeqMod
    BY <1>2, <1>3
  <2> QED
    BY <1>2, <2>1 DEF SeqNums
<1>4. CASE q - p >= 1
  <2>1. (q - p) * SeqMod >= SeqMod
    BY <1>2, <1>4
  <2>2. (q - p) * SeqMod = t - r
    BY <1>2 DEF SeqNums
  <2> QED
    BY <1>2, <2>1, <2>2 DEF SeqNums
<1>5. CASE p = q
  BY <1>1, <1>2, <1>5 DEF SeqNums
<1> QED
  BY <1>3, <1>4, <1>5

(***************************************************************************)
(* server.py:70-74 is right about every ACK that confirms something new:   *)
(* whatever the number of turns, the sequence number the client asks for   *)
(* after packet ack + d is mapped to ack + d, for every d within one turn. *)
(***************************************************************************)
THEOREM AckIndexExact ==
    ASSUME NEW ack \in Int, ack >= -1, NEW d \in 1 .. SeqMod - 1
    PROVE  AckIndex(ack, (ack + d + 1) % SeqMod) = ack + d
<1>1. PICK q \in Nat, r \in SeqNums :
        q = (ack + 1) \div SeqMod /\ ack + 1 = q * SeqMod + r
  BY DivMod
<1>2. SeqMod \in Nat /\ SeqMod > 0 /\ q * SeqMod \in Nat /\ (q + 1) * SeqMod = q * SeqMod + SeqMod
  BY SeqModAssumption
<1>3. CASE r + d < SeqMod
  <2>1. r + d \in SeqNums /\ ack + d + 1 \in Nat /\ ack + d + 1 = q * SeqMod + (r + d)
    BY <1>1, <1>2, <1>3 DEF SeqNums
  <2>2. (ack + d + 1) % SeqMod = r + d
    BY <2>1, ModUnique
  <2> QED
    BY <1>1, <1>2, <2>2 DEF AckIndex, SeqNums
<1>4. CASE r + d >= SeqMod
  <2>1. /\ r + d - SeqMod \in SeqNums /\ ack + d + 1 \in Nat /\ q + 1 \in Nat
        /\ ack + d + 1 = (q + 1) * SeqMod + (r + d - SeqMod)
    BY <1>1, <1>2, <1>4 DEF SeqNums
  <2>2. (ack + d + 1) % SeqMod = r + d - SeqMod
    BY <2>1, ModUnique
  <2> QED
    BY <1>1, <1>2, <1>4, <2>2 DEF AckIndex, SeqNums
<1> QED
  BY <1>1, <1>2, <1>3, <1>4 DEF SeqNums

(***************************************************************************)
(* And it is wrong about every ACK that confirms nothing new: the ACK that *)
(* only repeats the last one is mapped a whole turn ahead of it, and taken *)
(* for the confirmation of SeqMod packets when the list is that long.      *)
(***************************************************************************)
THEOREM RepeatedAckJumpsATurn ==
    ASSUME NEW ack \in Int, ack >= -1, NEW n \in Nat, ack + SeqMod < n
    PROVE  Advance(ack, (ack + 1) % SeqMod, n) = ack + SeqMod
<1>1. PICK q \in Nat, r \in SeqNums :
        /\ q = (ack + 1) \div SeqMod /\ r = (ack + 1) % SeqMod
        /\ ack + 1 = q * SeqMod + r
  BY DivMod
<1>2. SeqMod \in Nat /\ SeqMod > 0 /\ q * SeqMod \in Nat
  BY SeqModAssumption
<1>3. AckIndex(ack, (ack + 1) % SeqMod) = ack + SeqMod
  BY <1>1, <1>2 DEF AckIndex, SeqNums
<1> QED
  BY <1>2, <1>3 DEF Advance
=============================================================================
