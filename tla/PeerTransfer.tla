---------------------------- MODULE PeerTransfer ----------------------------
(***************************************************************************)
(* A client of one of the other groups, a server of the same group, or of  *)
(* another whose packets it reads, and the path between them.              *)
(***************************************************************************)
EXTENDS PeerClients, PeerServers

vars == <<setup, netVars, clientVars, serverVars>>

Init ==
    /\ setup \in Setups
    /\ up = <<Get>> /\ down = <<>>
    /\ ClientInit /\ ServerInit

ClientReads(d) ==
    \/ setup.client = "G12" /\ (G12Ignore(d) \/ (d.type = "DATA" /\ G12Data(d.seq, d.payload)))
    \/ /\ setup.client = "G3"
       /\ G3Answer(d) \/ G3Ignore(d) \/ (d.type = "DATA" /\ G3Data(d.seq, d.payload))
    \/ setup.client = "G2" /\ (G2Ignore(d) \/ (d.type = "DATA" /\ G2Data(d.seq, d.payload)))

ClientWaits ==
    \/ setup.client = "G12" /\ G12Timeout(serving)
    \/ setup.client = "G3" /\ G3Timeout
    \/ setup.client = "G2" /\ G2Timeout(serving)

ServerReads(d) ==
    \/ setup.server = "G12" /\ (G12Get(d) \/ G12Enqueue(d) \/ G12Drop(d))
    \/ setup.server = "G3" /\ (G3Get(d) \/ G3Drop(d) \/ G3Ack(d) \/ G3Skip(d) \/ G3EndAck(d))
    \/ setup.server = "G2" /\ (G2Get(d) \/ G2CutGet(d) \/ G2Drop(d) \/ G2Ack(d) \/ G2Skip(d))

ServerRuns(expired) ==
    \/ setup.server = "G12" /\ (G12Ack(expired) \/ G12Empty(expired))
    \/ setup.server = "G3" /\ (G3Expire(expired) \/ G3EndTimeout)
    \/ setup.server = "G2" /\ G2Idle(expired)

ClientStep ==
    /\ \/ \E d \in {down[i] : i \in DOMAIN down} : ClientReads(d)
       \/ ClientWaits
    /\ UNCHANGED <<setup, serverVars>>

ServerStep ==
    /\ \/ \E d \in {up[i] : i \in DOMAIN up} : ServerReads(d)
       \/ \E expired \in SUBSET in_flight : ServerRuns(expired)
    /\ UNCHANGED <<setup, clientVars>>

PathStep == (Lose \/ Damage \/ Cut) /\ UNCHANGED <<setup, clientVars, serverVars>>

Next == ClientStep \/ ServerStep \/ PathStep

Spec == Init /\ [][Next]_vars

(***************************************************************************)
(* Fairness.  The programs run: what waits in a socket or a queue is read, *)
(* a client that hears nothing times out, the oldest unconfirmed packet is *)
(* sent again.  A path that loses datagrams does not lose every copy of    *)
(* one that is sent again and again: that packet, the ACK that confirms    *)
(* it, the GET.  (That Room is full at each attempt counts as such a loss.)*)
(***************************************************************************)
ClientHears(d) == ClientReads(d) /\ UNCHANGED <<setup, serverVars>>
ServerHears(d) == ServerReads(d) /\ UNCHANGED <<setup, clientVars>>
ServerTurn(expired) == ServerRuns(expired) /\ UNCHANGED <<setup, clientVars>>

SendsBaseAgain == \E expired \in SUBSET in_flight : base \in expired /\ ServerTurn(expired)
HearsExpected == \E w \in 0 .. RecvWindow : ServerHears(Ack(expected % SeqCount, w))

Fairness ==
    /\ WF_vars(ClientWaits /\ UNCHANGED <<setup, serverVars>>)
    /\ WF_vars(\E d \in {down[i] : i \in DOMAIN down} : ClientHears(d))
    /\ WF_vars(\E d \in {up[i] : i \in DOMAIN up} : ServerHears(d))
    /\ WF_vars(\E expired \in SUBSET in_flight : ServerTurn(expired))
    /\ SF_vars(SendsBaseAgain)
    /\ []<><<status \notin Ended /\ SendsBaseAgain>>_vars => []<><<ClientHears(Packet(base))>>_vars
    /\ []<>(\E i \in DOMAIN up : up[i].type = "ACK" /\ up[i].seq = expected % SeqCount) =>
         []<><<HearsExpected>>_vars
    /\ []<>(\E i \in DOMAIN up : up[i] = Get) => []<><<ServerHears(Get)>>_vars

FairSpec == Spec /\ Fairness
-----------------------------------------------------------------------------
TypeOK == PathTypeOK /\ ClientTypeOK /\ ServerTypeOK

InOrder == setup.link = "ordered"

\* The file is so short that no number is reused within a window of it.
FitsNumbers == Chunks + 1 + RecvWindow <= SeqCount

\* G12's server can tell an old ACK from a new one.
OldAcksTold == setup.server = "G12" /\ FitsNumbers

\* Old ACKs do not arrive after newer ones, or are told from them.
AcksTold == InOrder \/ OldAcksTold

\* G12's server sends the empty packet in the window, G12's client ends at it.
EndOvertakes == setup.client = "G12" /\ setup.server = "G12"

\* A GET may reach group 2's server as one of a file that does not exist.
GetsCut == setup.client = "G2" /\ "cut" \in setup.faults

(***************************************************************************)
(* What a client of any group saves is the beginning of the file, even     *)
(* when the sequence numbers wrap, over a path that does not reorder; and  *)
(* over one that does, if the file is short enough.                        *)
(***************************************************************************)
SavedIsPrefix ==
    InOrder \/ FitsNumbers =>
      /\ Len(saved) <= Chunks
      /\ \A i \in 1 .. Len(saved) : saved[i] = i - 1

(***************************************************************************)
(* 3/src/server.py:24: send_base is the oldest packet not acknowledged.    *)
(* No server takes a packet for confirmed that its client has not          *)
(* acknowledged, even when the sequence numbers wrap, over a path that     *)
(* does not reorder: there no ACK is older than base.                      *)
(***************************************************************************)
AckSound == InOrder /\ status # "complete" => base <= expected

(***************************************************************************)
(* G12/src/server.py:67: an old ACK moves nothing.  Over any path, and for *)
(* a file short enough, G12's server takes no packet for confirmed that    *)
(* its client has not acknowledged, and its thread ends only once its      *)
(* client has read the empty packet.                                       *)
(***************************************************************************)
OldAcksHarmless ==
    OldAcksTold =>
      /\ status # "complete" => base <= expected
      /\ serving = "over" => status = "complete" \/ setup.chunks = Missing

(***************************************************************************)
(* A client that ends has the whole file, over a path that does not        *)
(* reorder, is not silent for long and does not cut a GET of group 2: a    *)
(* server of group 3 or 2 announces the end only when everything before it *)
(* is confirmed.                                                           *)
(***************************************************************************)
SavedIsWhole ==
    InOrder /\ ~ EndOvertakes /\ ~ GetsCut /\ "silence" \notin setup.faults =>
      (status \in {"complete", "gaveup"} => Len(saved) = Chunks)

(***************************************************************************)
(* 2/src/client.py:69: where a GET of group 2 may be cut, the answer to it *)
(* ends the client with nothing, but never with a part of the file: over a *)
(* path that keeps the order it does not arrive once the file has begun.   *)
(***************************************************************************)
WholeOrNothing ==
    InOrder /\ GetsCut =>
      (status = "complete" \/ (status = "gaveup" /\ "silence" \notin setup.faults) =>
         Len(saved) \in {0, Chunks})

(***************************************************************************)
(* Over a path that keeps the order the transfer is a FileTransfer, except *)
(* between the programs of G12, whose client may end early, and where a    *)
(* GET of group 2 may be cut.  There is one client for each of these       *)
(* setups, and only that of setup runs.                                    *)
(***************************************************************************)
Promised ==
    {s \in Setups : /\ s.link = "ordered"
                    /\ ~ (s.client = "G12" /\ s.server = "G12")
                    /\ ~ (s.client = "G2" /\ "cut" \in s.faults)}

OutcomeOf == [asking |-> "running", receiving |-> "running", complete |-> "complete",
              gaveup |-> "failed", failed |-> "failed"]

Abstract == INSTANCE FileTransfer
    WITH Clients <- Promised,
         Chunks <- [s \in Promised |-> IF s.chunks = Missing THEN 0 ELSE s.chunks],
         saved <- [s \in Promised |-> IF s = setup THEN saved ELSE <<>>],
         outcome <- [s \in Promised |-> IF s = setup THEN OutcomeOf[status] ELSE "running"]

(***************************************************************************)
(* Every behaviour of these programs is one FileTransfer allows: nothing   *)
(* saved is taken back, and the empty packet ends the transfer when, and   *)
(* only when, the client has the whole file, even if the path is silent.   *)
(***************************************************************************)
KeepsPromise == Abstract!Promise

(***************************************************************************)
(* 2/tests/test_reseau_non_ideal.py:312: over a path that loses datagrams  *)
(* and delivers them out of order, what the client has saved when it ends  *)
(* is the source file.                                                     *)
(***************************************************************************)
ReceivedIsSource == status \in {"complete", "gaveup"} => Len(saved) = Chunks

(***************************************************************************)
(* 2/src/client.py:67: an empty packet with the number expected means that *)
(* the transfer is done; a client that has read one has the file.          *)
(***************************************************************************)
EndMeansDone == status = "complete" => Len(saved) = Chunks

(***************************************************************************)
(* Between the programs of G12 the empty packet may overtake chunks, and   *)
(* the client ends at once: less than a window of the file is missing.     *)
(***************************************************************************)
TruncatedByLessThanWindow ==
    EndOvertakes /\ (InOrder \/ FitsNumbers) /\ status = "complete" =>
      Chunks - Len(saved) < RecvWindow

(***************************************************************************)
(* No client ever closes its window, which neither G12's server nor group  *)
(* 3's would open again: the packet expected is never held, and no window  *)
(* on its way to a server, or taken by it, is 0.                           *)
(***************************************************************************)
WindowOpen ==
    /\ window > 0
    /\ \A i \in DOMAIN up : up[i].type = "ACK" => up[i].window > 0
    /\ \A i \in DOMAIN queue : queue[i].window > 0

(***************************************************************************)
(* G12/src/client.py:81: a client whose GET or answer is lost asks again   *)
(* until the server of a file that exists has answered.                    *)
(***************************************************************************)
Answered ==
    InOrder /\ setup.client = "G12" /\ setup.chunks # Missing /\ status = "asking"
      ~> status # "asking"

(***************************************************************************)
(* A client that has been answered gets every chunk of the file, over a    *)
(* path that loses datagrams but not all copies of one (or, with G12's     *)
(* server, it ends before).  The answer to a GET that was cut is no answer *)
(* to the client's.                                                        *)
(***************************************************************************)
ChunksDelivered ==
    AcksTold /\ ~ GetsCut /\ "silence" \notin setup.faults /\ status = "receiving"
      ~> Len(saved) = Chunks \/ (EndOvertakes /\ status = "complete")

(***************************************************************************)
(* 3/src/server.py:96: the server returns to its main loop from a client   *)
(* that has ended, even if the final ACK is lost.  (A client of group 2    *)
(* that the answer to a GET that was cut has ended may leave its server    *)
(* sending for ever.)                                                      *)
(***************************************************************************)
ServerFreed ==
    InOrder /\ ~ GetsCut /\ setup.server \in {"G3", "G2"} /\ status = "complete" ~> serving = "idle"
=============================================================================
