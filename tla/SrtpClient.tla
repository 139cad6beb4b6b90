----------------------------- MODULE SrtpClient -----------------------------
(***************************************************************************)
(* client.py: start_client sends one GET and then reads DATA packets until *)
(* the empty one, writing the chunks in order of sequence number.  An      *)
(* action is what the process does between two calls of recvfrom.          *)
(***************************************************************************)
EXTENDS SrtpNetwork, Sequences

VARIABLES
    status,             \* status[c]: where process c is in start_client
    expected_seqnum,    \* expected_seqnum[c]: the next sequence number to write
    buffer,             \* buffer[c][s]: payload received for s, Absent if none
    written             \* written[c]: the chunks written to the saved file

clientVars == <<status, expected_seqnum, buffer, written>>

\* start: not run yet; recv: in the receive loop; done: returned at the end of
\* the transfer; dead: ended by an exception or a signal.
Statuses == {"start", "recv", "done", "dead"}

Absent == -2

ClientInit ==
    /\ status = [c \in Clients |-> "start"]
    /\ expected_seqnum = [c \in Clients |-> 0]
    /\ buffer = [c \in Clients |-> [s \in SeqNums |-> Absent]]
    /\ written = [c \in Clients |-> <<>>]

\* The GET is sent once; recvfrom then blocks with no timeout.
ClientRequest(c) ==
    /\ status[c] = "start"
    /\ status' = [status EXCEPT ![c] = "recv"]
    /\ up' = up \cup {Get(c)}
    /\ UNCHANGED <<down, expected_seqnum, buffer, written>>

\* Mutants of Stored: a chunk already written taken for a new one, a chunk
\* buffered where one is expected, and an empty packet taken for the end
\* whatever precedes it.
StoredAgain(buf, expected, s, p) ==
    IF buf[s] = Absent THEN [buf EXCEPT ![s] = p] ELSE buf

StoredAtExpected(buf, expected, s, p) ==
    IF buf[s] = Absent /\ s >= expected THEN [buf EXCEPT ![expected] = p] ELSE buf

StoredEndAtOnce(buf, expected, s, p) ==
    IF p = EOF THEN [buf EXCEPT ![expected] = p]
    ELSE IF buf[s] = Absent /\ s >= expected THEN [buf EXCEPT ![s] = p] ELSE buf

\* The buffer once a DATA packet (s, p) has been looked at.
Stored(buf, expected, s, p) ==
    IF buf[s] = Absent /\ s >= expected THEN [buf EXCEPT ![s] = p] ELSE buf

(***************************************************************************)
(* The loop that writes as long as the expected chunk is buffered, as a    *)
(* relation: starting from buf, it writes the k chunks found from expected *)
(* on and stops at the first sequence number with no chunk to write.       *)
(***************************************************************************)
Slot(expected, j) == (expected + j) % SeqMod

WritesRun(buf, expected, k) == \A j \in 0 .. k - 1 : buf[Slot(expected, j)] \in Nat

RunOf(buf, expected, k) == [j \in 1 .. k |-> buf[Slot(expected, j - 1)]]

WithoutRun(buf, expected, k) ==
    [s \in SeqNums |-> IF \E j \in 0 .. k - 1 : s = Slot(expected, j) THEN Absent ELSE buf[s]]

\* Mutant of FinalAck: no wrap at the last sequence number.
FinalAckUnwrapped(c, eof) == Ack(c, eof + 1)

\* The answer to the empty packet, at sequence number eof.
FinalAck(c, eof) == Ack(c, (eof + 1) % SeqMod)

(***************************************************************************)
(* A DATA packet: buffer it, write what is now in sequence, and answer     *)
(* with the cumulative ACK; or, when the empty packet is reached, with the *)
(* final ACK, after which the process returns.                             *)
(***************************************************************************)
ClientData(c, s, p) ==
    /\ status[c] = "recv"
    /\ Data(c, s, p) \in down
    /\ down' \in Remaining(down, Data(c, s, p))
    /\ \E k \in 0 .. SeqMod :
         LET buf == Stored(buffer[c], expected_seqnum[c], s, p)
             next == Slot(expected_seqnum[c], k)
             left == WithoutRun(buf, expected_seqnum[c], k)
         IN  /\ WritesRun(buf, expected_seqnum[c], k)
             /\ left[next] \notin Nat
             /\ expected_seqnum' = [expected_seqnum EXCEPT ![c] = next]
             /\ written' = [written EXCEPT ![c] = @ \o RunOf(buf, expected_seqnum[c], k)]
             /\ \/ /\ left[next] = Absent
                   /\ buffer' = [buffer EXCEPT ![c] = left]
                   /\ up' = up \cup {Ack(c, next)}
                   /\ UNCHANGED status
                \/ /\ left[next] = EOF
                   /\ buffer' = [buffer EXCEPT ![c] = [left EXCEPT ![next] = Absent]]
                   /\ up' = up \cup {FinalAck(c, next)}
                   /\ status' = [status EXCEPT ![c] = "done"]

(***************************************************************************)
(* A datagram unpack rejects: packet is None and reading packet.type       *)
(* raises AttributeError, which nothing catches.                           *)
(***************************************************************************)
ClientBad(c) ==
    /\ status[c] = "recv"
    /\ BadDown(c) \in down
    /\ down' = down \ {BadDown(c)}
    /\ status' = [status EXCEPT ![c] = "dead"]
    /\ UNCHANGED <<up, expected_seqnum, buffer, written>>

ClientKill(c) ==
    /\ "kill" \in Faults
    /\ status[c] = "recv"
    /\ status' = [status EXCEPT ![c] = "dead"]
    /\ UNCHANGED <<netVars, expected_seqnum, buffer, written>>

\* The clients whose socket is closed.
Gone == {c \in Clients : status[c] \in {"done", "dead"}}

ClientTypeOK ==
    /\ status \in [Clients -> Statuses]
    /\ expected_seqnum \in [Clients -> SeqNums]
    /\ buffer \in [Clients -> [SeqNums -> Payloads \cup {Absent}]]
    /\ written \in [Clients -> Seq(Nat)]
=============================================================================
