------------------------------ MODULE PeerPath ------------------------------
(***************************************************************************)
(* The path between a client and a server of the other groups (G12, 3 and  *)
(* 2), and what is common to their six programs: the datagrams and the     *)
(* programs that are run.                                                  *)
(*                                                                         *)
(* Unlike SrtpNetwork, the path is a queue of Room datagrams in each       *)
(* direction, which delivers in order or not, and these programs read the  *)
(* window field.  Several copies of a datagram are in flight only if the   *)
(* programs have sent several.                                             *)
(***************************************************************************)
EXTENDS Integers, Sequences, FiniteSets, SequencesExt

CONSTANTS
    SeqCount,       \* number of sequence numbers (2048 in the code)
    RecvWindow,     \* the client's window (63, 32 and 63 in the code)
    Room,           \* bound: the datagrams a direction of the path holds
    Setups          \* what may be run, see setup

Groups == {"G12", "G3", "G2"}
Missing == -1       \* the number of chunks of a file that does not exist

(***************************************************************************)
(* What the path may do to the datagrams: loss; damage, a byte is inverted; *)
(* cut, what link_sim takes for a DATA packet (the first byte of a GET of  *)
(* group 2 passes for its header) is cut to 12 bytes; silence, so much is  *)
(* lost that a client times out although the server is still sending (it   *)
(* sends again every 0.5, 3 and 1.5 seconds, the client waits for 2, 4, 4). *)
(***************************************************************************)
FaultKinds == {"loss", "damage", "cut", "silence"}

ASSUME NumbersAssumption ==
    /\ SeqCount \in Nat /\ RecvWindow \in Nat \ {0} /\ Room \in Nat \ {0}
    /\ 2 * RecvWindow <= SeqCount
ASSUME SetupsAssumption ==
    Setups \subseteq [client : Groups, server : Groups, link : {"ordered", "reordering"},
                      faults : SUBSET FaultKinds, chunks : Nat \cup {Missing}]
\* Group 2 sends its GET as plain text, which no other group reads.
ASSUME PairsAssumption == \A s \in Setups : s.client = "G2" <=> s.server = "G2"

SeqNums == 0 .. SeqCount - 1

\* A payload is the index of a chunk of the file, or EOF for the empty payload.
EOF == -1
Payloads == Nat \cup {EOF}

Get == [type |-> "GET", window |-> RecvWindow]
Ack(s, w) == [type |-> "ACK", seq |-> s, window |-> w]
Data(s, p) == [type |-> "DATA", seq |-> s, payload |-> p]

\* What no program reads: decode returns None, and it is no GET of group 2, which
\* is ASCII text, not protected by a CRC, and stays ASCII unless a byte is inverted.
Bad == [type |-> "BAD"]

\* A GET of group 2 of which 12 bytes are left: that of a shorter path, which
\* is assumed to name no file.
CutGet == [type |-> "CUT"]

\* How the servers of groups G12 and 2 answer the GET of a missing file.
NoFile == Data(0, EOF)

Acks == [type : {"ACK"}, seq : SeqNums, window : 0 .. RecvWindow]
UpDatagrams == {Get, Bad, CutGet} \cup Acks
DownDatagrams == [type : {"DATA"}, seq : SeqNums, payload : Payloads] \cup {Bad} \cup Acks

VARIABLES
    setup,      \* the programs, the path between them and the file
    up, down    \* the datagrams on their way to the server, to the client

netVars == <<up, down>>

\* The channel ch once the datagrams ds are sent: what has no room is lost.
Sent(ch, ds) == SubSeq(ch \o ds, 1, IF Len(ch \o ds) <= Room THEN Len(ch \o ds) ELSE Room)

\* Which of the datagrams of ch may be the next to arrive.
Arriving(ch) == {i \in DOMAIN ch : setup.link = "ordered" => i = 1}

\* d arrives, and leaves the channel as rest.
Arrives(ch, d, rest) == \E i \in Arriving(ch) : ch[i] = d /\ rest = RemoveAt(ch, i)

\* The file, as the server sends it.
Chunks == IF setup.chunks = Missing THEN 0 ELSE setup.chunks
Packet(i) == Data(i % SeqCount, IF i < Chunks THEN i ELSE EOF)
Packets(is) == [k \in DOMAIN is |-> Packet(is[k])]

\* The numbers in S, in the order in which the programs go through them.
Ascending(S) ==
    {f \in [1 .. Cardinality(S) -> S] : \A i, j \in DOMAIN f : i < j => f[i] < f[j]}

-----------------------------------------------------------------------------
Lose ==
    /\ "loss" \in setup.faults
    /\ \/ \E i \in DOMAIN up : up' = RemoveAt(up, i) /\ UNCHANGED down
       \/ \E i \in DOMAIN down : down' = RemoveAt(down, i) /\ UNCHANGED up

Damage ==
    /\ "damage" \in setup.faults
    /\ \/ \E i \in DOMAIN up : up' = [up EXCEPT ![i] = Bad] /\ UNCHANGED down
       \/ \E i \in DOMAIN down : down' = [down EXCEPT ![i] = Bad] /\ UNCHANGED up

\* Only a packet of a chunk and a GET are longer than 12 bytes.  Those of the
\* other groups are packets, which lack their CRC then.
Cut ==
    /\ "cut" \in setup.faults
    /\ \/ /\ \E i \in DOMAIN up :
               /\ up[i] = Get
               /\ up' = [up EXCEPT ![i] = IF setup.client = "G2" THEN CutGet ELSE Bad]
          /\ UNCHANGED down
       \/ /\ \E i \in DOMAIN down :
               /\ down[i].type = "DATA" /\ down[i].payload # EOF
               /\ down' = [down EXCEPT ![i] = Bad]
          /\ UNCHANGED up

PathTypeOK ==
    /\ setup \in Setups
    /\ up \in Seq(UpDatagrams) /\ Len(up) <= Room
    /\ down \in Seq(DownDatagrams) /\ Len(down) <= Room
=============================================================================
