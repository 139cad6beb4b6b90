---------------------------- MODULE SrtpTransfer ----------------------------
(***************************************************************************)
(* The SRTP file transfer: one server process (SrtpServer), the client     *)
(* processes (SrtpClient) and the UDP path between them (SrtpNetwork).     *)
(***************************************************************************)
EXTENDS SrtpServer, SrtpClient

vars == <<netVars, serverVars, clientVars>>

Init == NetInit /\ ServerInit /\ ClientInit

ClientStep ==
    /\ \E c \in Clients :
         \/ ClientRequest(c)
         \/ \E m \in down : m.type = "DATA" /\ m.to = c /\ ClientData(c, m.seq, m.payload)
         \/ ClientBad(c)
         \/ ClientKill(c)
    /\ UNCHANGED serverVars

ServerStep ==
    /\ \/ \E c \in Clients : ServerGet(c)
       \/ \E m \in up : ServerIgnore(m)
       \/ \E m \in up : m.type = "ACK" /\ ServerAck(m.from, m.seq)
       \/ \E m \in up : ServerSkip(m)
       \/ \E expired \in SUBSET (last_ack + 1 .. last_sent) : ServerTimeout(expired)
       \/ ServerReset(Gone)
       \/ ServerAbort
       \/ ServerStop
    /\ UNCHANGED clientVars

LinkStep == (Lose \/ Damage) /\ UNCHANGED <<serverVars, clientVars>>

Next == ClientStep \/ ServerStep \/ LinkStep

Spec == Init /\ [][Next]_vars

(***************************************************************************)
(* Fairness.  The two programs run, so what is enabled for good is taken:  *)
(* a started client sends its GET, the server reads a GET that waits in    *)
(* its socket, and retransmits the first packet not confirmed each time    *)
(* its timer has expired (its recvfrom waits 100ms at most).  A link that  *)
(* loses datagrams does not lose every copy of one that is sent again and  *)
(* again: that packet, and the ACK of what the client expects, which it    *)
(* sends for every packet that arrives.                                    *)
(***************************************************************************)
RetransmitsFirst ==
    /\ \E expired \in SUBSET (last_ack + 1 .. last_sent) :
         last_ack + 1 \in expired /\ ServerTimeout(expired)
    /\ UNCHANGED clientVars

HearsExpected(c) == ServerAck(c, expected_seqnum[c]) /\ UNCHANGED clientVars

HearsFirst(c) ==
    /\ serving = c
    /\ ClientData(c, (last_ack + 1) % SeqMod, Payload(c, last_ack + 1))
    /\ UNCHANGED serverVars

Fairness ==
    /\ \A c \in Clients :
         /\ WF_vars(ClientRequest(c) /\ UNCHANGED serverVars)
         /\ WF_vars(ServerGet(c) /\ UNCHANGED clientVars)
         /\ SF_vars(HearsExpected(c))
         /\ SF_vars(HearsFirst(c))
    /\ WF_vars(RetransmitsFirst)
    /\ SF_vars(ServerReset(Gone) /\ UNCHANGED clientVars)

FairSpec == Spec /\ Fairness
-----------------------------------------------------------------------------
TypeOK == NetTypeOK /\ ServerTypeOK /\ ClientTypeOK

(***************************************************************************)
(* The files are short enough for one sequence number per packet, with one *)
(* to spare: at most 2047 packets.  Beyond, see the runs that show what    *)
(* sequence number reuse does.                                             *)
(***************************************************************************)
FitsSeqSpace == \A c \in Clients : PacketCount(c) < SeqMod

\* Every transfer in this instance is to the same client.
SingleClient == \E c \in Clients : Clients = {c}

\* The number of packets client c has confirmed, or is about to: the written
\* chunks, and the empty packet once it has answered it.
Confirmed(c) == Len(written[c]) + (IF status[c] = "done" THEN 1 ELSE 0)

(***************************************************************************)
(* What client c has written is the beginning of the file it asked for:    *)
(* no chunk lost, repeated, reordered or taken from elsewhere, whatever    *)
(* the link, the other clients and the server's window do.                 *)
(***************************************************************************)
WrittenIsPrefix ==
    \A c \in Clients :
      /\ Len(written[c]) <= Chunks[c]
      /\ \A i \in 1 .. Len(written[c]) : written[c][i] = i - 1

(***************************************************************************)
(* A client that announces the end of the transfer has the whole file: the *)
(* empty packet is not acted on before everything that precedes it.        *)
(***************************************************************************)
DoneIsComplete ==
    \A c \in Clients : status[c] = "done" => Len(written[c]) = Chunks[c]

(***************************************************************************)
(* server.py:41: last_ack is the index of the last packet the client has   *)
(* confirmed.  The server never takes a packet for confirmed, and so never *)
(* stops retransmitting it, before its client has it.                      *)
(***************************************************************************)
AckSound ==
    serving \in Clients => last_ack < Confirmed(serving)

(***************************************************************************)
(* The server's window bounds the client's memory: what client c buffers   *)
(* lies less than a window ahead of what it has written.                   *)
(***************************************************************************)
BufferWithinWindow ==
    \A c \in Clients, s \in SeqNums :
      buffer[c][s] # Absent => s > Len(written[c]) /\ s < Len(written[c]) + Window

(***************************************************************************)
(* test_client.py:122: the client ignores the packets it has already       *)
(* received.  It never holds a chunk it has written for a second write.    *)
(***************************************************************************)
DuplicatesIgnored ==
    \A c \in Clients, s \in SeqNums :
      buffer[c][s] \in Nat => buffer[c][s] >= Len(written[c])

(***************************************************************************)
(* The server never has more unconfirmed packets out than the window, and  *)
(* has always sent what its window allows before it waits.                 *)
(***************************************************************************)
WindowFull ==
    serving \in Clients =>
      /\ last_ack < Chunks[serving]
      /\ last_sent <= Chunks[serving]
      /\ last_sent - last_ack <= Window
      /\ last_sent < Chunks[serving] => last_sent - last_ack = Window

(***************************************************************************)
(* send_file gives a client up only when that client is gone.  (Where its  *)
(* socket calls do not raise and nobody presses Ctrl-C.)                   *)
(***************************************************************************)
ReturnsWhenGone ==
    [][\A c \in Clients : serving = c /\ serving' # c => c \in Gone]_vars

(***************************************************************************)
(* packet.py:83: unpack returns None for an invalid packet.  No process    *)
(* ends because of one.                                                    *)
(***************************************************************************)
OnlyKilledClientsDie == "kill" \notin Faults => \A c \in Clients : status[c] # "dead"

(***************************************************************************)
(* The transfer is a FileTransfer: see that module for what it promises.   *)
(***************************************************************************)
OutcomeOf ==
    [start |-> "running", recv |-> "running", done |-> "complete", dead |-> "failed"]

Abstract == INSTANCE FileTransfer
    WITH saved <- written, outcome <- [c \in Clients |-> OutcomeOf[status[c]]]

(***************************************************************************)
(* Every behaviour of the two programs and the link is one FileTransfer    *)
(* allows: what a client has written is a beginning of the file it asked   *)
(* for, nothing is taken back, and it announces the end when, and only     *)
(* when, it has everything before the empty packet.                        *)
(***************************************************************************)
KeepsPromise == Abstract!Promise

(***************************************************************************)
(* A client the server has begun to serve gets its file in the end, even   *)
(* over a link that loses datagrams: every missing packet is sent again    *)
(* until it is confirmed.  (Only a process that is killed, or that has     *)
(* read a damaged datagram, is dead.)                                      *)
(***************************************************************************)
TransferDelivered == \A c \in Clients : serving = c ~> status[c] \in {"done", "dead"}

(***************************************************************************)
(* The server gets back to its main loop, where the next client can be     *)
(* heard, from every transfer.                                             *)
(***************************************************************************)
ServerFreed == \A c \in Clients : serving = c ~> serving = Idle
=============================================================================
