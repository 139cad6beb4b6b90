---------------------------- MODULE SrtpNetwork ----------------------------
(***************************************************************************)
(* The datagrams of the SRTP file transfer and the UDP path that carries   *)
(* them.  The client (client.py) and the server (server.py) share nothing  *)
(* but this path.                                                          *)
(*                                                                         *)
(* A datagram is abstracted to what Packet.unpack lets its receiver see:   *)
(* the type, the 11-bit sequence number and the payload.  The window and   *)
(* timestamp fields are left out: both programs write them and neither     *)
(* reads them.  A datagram damaged on the way is "BAD": unpack returns     *)
(* None for it (CRC1, CRC2 or the length check).                           *)
(***************************************************************************)
EXTENDS Integers

CONSTANTS
    Clients,    \* the client processes, each with a UDP address of its own
    SeqMod,     \* number of sequence numbers (2048 in the code)
    Faults      \* what the environment of this instance may do, see FaultKinds

(***************************************************************************)
(* loss, damage: what the link does to a datagram; duplication: the link   *)
(* delivers a datagram twice (a retransmitted copy needs no such fault);   *)
(* kill: a client process is killed; reset: the server's platform reports  *)
(* a closed client port as ConnectionResetError; abort: a socket call of   *)
(* send_file raises; stop: Ctrl-C on the server.                           *)
(***************************************************************************)
FaultKinds == {"loss", "damage", "duplication", "kill", "reset", "abort", "stop"}

ASSUME SeqModAssumption == SeqMod \in Nat \ {0}
ASSUME FaultsAssumption == Faults \subseteq FaultKinds

SeqNums == 0 .. SeqMod - 1

\* A payload is the index of a chunk of the file, or EOF for the empty payload.
EOF == -1
Payloads == Nat \cup {EOF}

-----------------------------------------------------------------------------
Get(c) == [type |-> "GET", from |-> c]
Ack(c, s) == [type |-> "ACK", from |-> c, seq |-> s]
Data(c, s, p) == [type |-> "DATA", to |-> c, seq |-> s, payload |-> p]
BadUp(c) == [type |-> "BAD", from |-> c]
BadDown(c) == [type |-> "BAD", to |-> c]

UpDatagrams ==
    [type : {"GET", "BAD"}, from : Clients] \cup [type : {"ACK"}, from : Clients, seq : SeqNums]
DownDatagrams ==
    [type : {"DATA"}, to : Clients, seq : SeqNums, payload : Payloads]
      \cup [type : {"BAD"}, to : Clients]

(***************************************************************************)
(* Datagrams sent and not yet received or lost.  A set, so any order of    *)
(* delivery is possible.                                                   *)
(***************************************************************************)
VARIABLES
    up,         \* from the clients to the server
    down        \* from the server to the clients

netVars == <<up, down>>

NetInit == up = {} /\ down = {}

(***************************************************************************)
(* What may remain of a channel once m has been received.  DATA and ACK    *)
(* are retransmitted, so another copy of m may still be in flight; of a    *)
(* GET there is one copy unless the network duplicates it.                 *)
(***************************************************************************)
Remaining(channel, m) ==
    {channel \ {m}} \cup
        {ch \in {channel} : m.type \in {"DATA", "ACK"} \/ "duplication" \in Faults}

Lose ==
    /\ "loss" \in Faults
    /\ \/ \E m \in up : up' = up \ {m} /\ UNCHANGED down
       \/ \E m \in down : down' = down \ {m} /\ UNCHANGED up

(***************************************************************************)
(* The link inverts a byte of a datagram or cuts it after the header.      *)
(* Either way unpack rejects what arrives.                                 *)
(***************************************************************************)
Damage ==
    /\ "damage" \in Faults
    /\ \/ /\ \E m \in up : up' = (up \ {m}) \cup {BadUp(m.from)}
          /\ UNCHANGED down
       \/ /\ \E m \in down : down' = (down \ {m}) \cup {BadDown(m.to)}
          /\ UNCHANGED up

NetTypeOK == up \subseteq UpDatagrams /\ down \subseteq DownDatagrams
=============================================================================
