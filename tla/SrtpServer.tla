----------------------------- MODULE SrtpServer -----------------------------
(***************************************************************************)
(* server.py: the main loop of start_server and the sliding-window sender  *)
(* send_file.  The server is one thread and serves one client at a time:   *)
(* while send_file runs, the main loop does not, and every datagram that   *)
(* reaches the socket is read by send_file.                                *)
(*                                                                         *)
(* An action is what the thread does between two calls of recvfrom.        *)
(***************************************************************************)
EXTENDS SrtpNetwork

CONSTANTS
    Window,     \* packets in flight at most (32 in the code)
    Chunks,     \* Chunks[c]: non-empty chunks of the file client c asks for
    Access      \* Access[c]: what opening that file does

AccessKinds == {"readable", "missing", "unreadable"}

ASSUME WindowAssumption == Window \in Nat \ {0}
ASSUME ChunksAssumption == Chunks \in [Clients -> Nat]
ASSUME AccessAssumption == Access \in [Clients -> AccessKinds]
ASSUME MissingAssumption ==
    \A c \in Clients : Access[c] # "readable" => Chunks[c] = 0

VARIABLES
    serving,    \* the client send_file is sending to, Idle in the main loop
    last_ack,   \* index of the last packet confirmed by the client
    last_sent   \* index of the last packet sent

serverVars == <<serving, last_ack, last_sent>>

Idle == "idle"
Stopped == "stopped"
ASSUME IdleAssumption == Idle \notin Clients /\ Stopped \notin Clients

\* Mutants of PacketCount and Payload: no empty packet at the end.
PacketCountWithoutEnd(c) == Chunks[c]
PayloadWithoutEnd(c, i) == IF i <= Chunks[c] THEN i ELSE EOF

\* len(packets): the chunks of the file and the empty packet that ends it.
PacketCount(c) == Chunks[c] + 1

Payload(c, i) == IF i < Chunks[c] THEN i ELSE EOF

\* The entry i of the list packets built for client c.
PacketOf(c, i) == Data(c, i % SeqMod, Payload(c, i))

\* Mutant of AckIndex: the ACK's number taken for the packet confirmed, not
\* for the packet expected next.
AckIndexOfNext(ack, seq) ==
    LET current_idx == ((ack + 1) \div SeqMod) * SeqMod + seq
    IN  IF current_idx <= ack THEN current_idx + SeqMod ELSE current_idx

(***************************************************************************)
(* The packet index the code derives from the sequence number of an ACK.   *)
(***************************************************************************)
AckIndex(ack, seq) ==
    LET base_cycle == (ack + 1) \div SeqMod
        current_idx == base_cycle * SeqMod + seq - 1
    IN  IF current_idx <= ack THEN current_idx + SeqMod ELSE current_idx

Advance(ack, seq, count) ==
    LET i == AckIndex(ack, seq)
    IN  IF i > ack /\ i < count THEN i ELSE ack

\* Mutants of FilledTo: a window one packet too wide, and one packet per turn.
FilledToBeyond(ack, sent, count) ==
    IF sent - ack > Window THEN sent
    ELSE IF ack + Window + 1 < count - 1 THEN ack + Window + 1 ELSE count - 1

FilledByOne(ack, sent, count) ==
    IF sent - ack < Window /\ sent < count - 1 THEN sent + 1 ELSE sent

\* last_sent after the loop that sends as long as the window allows.
FilledTo(ack, sent, count) ==
    IF sent - ack >= Window THEN sent
    ELSE IF ack + Window < count - 1 THEN ack + Window ELSE count - 1

-----------------------------------------------------------------------------
ServerInit == serving = Idle /\ last_ack = -1 /\ last_sent = -1

\* send_file returns to the main loop; its variables are locals.
Return == serving' = Idle /\ last_ack' = -1 /\ last_sent' = -1

(***************************************************************************)
(* A GET reaches the main loop.  A readable file starts send_file, which   *)
(* fills its first window; a missing file is answered by one empty packet; *)
(* a file that cannot be read is answered by nothing.                      *)
(***************************************************************************)
ServerGet(c) ==
    /\ serving = Idle
    /\ Get(c) \in up
    /\ up' \in Remaining(up, Get(c))
    /\ \/ /\ Access[c] = "readable"
          /\ serving' = c
          /\ last_ack' = -1
          /\ last_sent' = FilledTo(-1, -1, PacketCount(c))
          /\ down' = down \cup {PacketOf(c, i) : i \in 0 .. last_sent'}
       \/ /\ Access[c] = "missing"
          /\ down' = down \cup {Data(c, 0, EOF)}
          /\ UNCHANGED serverVars
       \/ /\ Access[c] = "unreadable"
          /\ UNCHANGED <<serverVars, down>>

\* Anything else that reaches the main loop is dropped.
ServerIgnore(m) ==
    /\ serving = Idle
    /\ m.type # "GET"
    /\ up' \in Remaining(up, m)
    /\ UNCHANGED <<serverVars, down>>

(***************************************************************************)
(* The rest of an iteration of send_file, once recvfrom has returned and   *)
(* left last_ack at ack: retransmit the packets whose 0.5s have expired,   *)
(* leave the loop if all is confirmed, else refill the window.  Time is    *)
(* abstracted: any unconfirmed packet may have expired.                    *)
(***************************************************************************)
Iterate(ack, expired) ==
    LET c == serving
        sent == FilledTo(ack, last_sent, PacketCount(c))
    IN  /\ expired \subseteq (ack + 1) .. last_sent
        /\ \/ /\ ack >= PacketCount(c) - 1
              /\ Return
              /\ down' = down \cup {PacketOf(c, i) : i \in expired}
           \/ /\ ack < PacketCount(c) - 1
              /\ last_ack' = ack
              /\ last_sent' = sent
              /\ down' = down \cup {PacketOf(c, i) : i \in expired \cup (last_sent + 1 .. sent)}
              /\ UNCHANGED serving

\* recvfrom returned an ACK.  Whose ACK it is, the code does not look at.
ServerAck(c, s) ==
    /\ serving \in Clients
    /\ Ack(c, s) \in up
    /\ up' \in Remaining(up, Ack(c, s))
    /\ LET ack == Advance(last_ack, s, PacketCount(serving))
       IN  \E expired \in SUBSET ((ack + 1) .. last_sent) : Iterate(ack, expired)

\* recvfrom returned a datagram that is no ACK: a GET, or one unpack rejects.
ServerSkip(m) ==
    /\ serving \in Clients
    /\ m.type # "ACK"
    /\ up' \in Remaining(up, m)
    /\ \E expired \in SUBSET ((last_ack + 1) .. last_sent) : Iterate(last_ack, expired)

\* Mutant of ServerTimeout: the scan for expired packets starts one too far.
ServerTimeoutFromSecond(expired) ==
    /\ serving \in Clients
    /\ expired \subseteq last_ack + 2 .. last_sent
    /\ Iterate(last_ack, expired)
    /\ UNCHANGED up

\* recvfrom timed out after 100ms.
ServerTimeout(expired) ==
    /\ serving \in Clients
    /\ Iterate(last_ack, expired)
    /\ UNCHANGED up

\* Mutant of ServerReset: the exception is caught, but the loop goes on.
ServerResetPassed(gone) ==
    /\ "reset" \in Faults
    /\ \E m \in down : m.to \in gone /\ down' \in Remaining(down, m)
    /\ UNCHANGED <<serverVars, up>>

(***************************************************************************)
(* A DATA packet reaches the closed port of one of the clients in gone,    *)
(* and the platform reports it: the next recvfrom raises                   *)
(* ConnectionResetError.  send_file leaves its loop without asking which   *)
(* client it was; the main loop logs it and goes on.                       *)
(***************************************************************************)
ServerReset(gone) ==
    /\ "reset" \in Faults
    /\ \E m \in down : m.to \in gone /\ down' \in Remaining(down, m)
    /\ IF serving \in Clients THEN Return ELSE UNCHANGED serverVars
    /\ UNCHANGED up

(***************************************************************************)
(* A socket call of send_file raised something else.  (That it may have    *)
(* sent only some of its packets is what a lossy link may do to them.)     *)
(***************************************************************************)
ServerAbort ==
    /\ "abort" \in Faults
    /\ serving \in Clients
    /\ Return
    /\ UNCHANGED netVars

\* KeyboardInterrupt, in the main loop or in send_file: the socket is closed.
ServerStop ==
    /\ "stop" \in Faults
    /\ serving # Stopped
    /\ serving' = Stopped
    /\ last_ack' = -1
    /\ last_sent' = -1
    /\ UNCHANGED netVars

ServerTypeOK ==
    /\ serving \in Clients \cup {Idle, Stopped}
    /\ last_ack \in Int /\ last_ack >= -1
    /\ last_sent \in Int /\ last_sent >= -1
=============================================================================
