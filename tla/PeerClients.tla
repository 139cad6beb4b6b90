---------------------------- MODULE PeerClients ----------------------------
(***************************************************************************)
(* The clients of groups G12, 3 and 2.  An action is what the process does *)
(* between two calls of recvfrom.                                          *)
(*                                                                         *)
(* expected counts the packets in sequence: groups G12 and 2 keep it       *)
(* modulo 2048 (expected_seq is expected % SeqCount), group 3 as it is here. *)
(* The dictionary of packets received ahead is indexed in the same way; it *)
(* spans less than a window, so that its indices modulo 2048 are distinct. *)
(***************************************************************************)
EXTENDS PeerPath, FiniteSets

CONSTANT GetTries   \* the GETs sent at most (10 and 5 in groups 3 and 2)

ASSUME GetTriesAssumption == GetTries \in Nat \ {0}

VARIABLES
    status,     \* where the process is, see Statuses
    tries,      \* the GETs sent, in groups 3 and 2
    expected,   \* the packets received in sequence
    buffer,     \* the payloads received ahead, by packet number
    saved       \* the chunks that will be in the saved file

clientVars == <<status, tries, expected, buffer, saved>>
receiver == <<expected, buffer, saved>>

\* asking: no answer to the GET yet; receiving; complete: has read the empty
\* packet that ends the file; gaveup: has timed out and saves what it has;
\* failed: has ended without an answer.
Statuses == {"asking", "receiving", "complete", "gaveup", "failed"}
Ended == {"complete", "gaveup", "failed"}

NoPayloads == [i \in {} |-> EOF]

ClientInit ==
    /\ status = "asking" /\ tries = 1
    /\ expected = 0 /\ buffer = NoPayloads /\ saved = <<>>

-----------------------------------------------------------------------------
\* How far ahead of the packet expected next number s is.
Distance(s) == (s - expected) % SeqCount

\* Mutant of InWindow: every number is.
InAnyWindow(s) == s \in SeqNums

InWindow(s) == Distance(s) < RecvWindow

\* The buffer once a packet in the window is stored, if it is not yet.
Stored(s, p) ==
    LET i == expected + Distance(s)
    IN  [j \in DOMAIN buffer \cup {i} |-> IF j \in DOMAIN buffer THEN buffer[j] ELSE p]

\* The first packet missing from buf.
FirstMissing(buf) ==
    CHOOSE i \in expected .. expected + SeqCount :
      i \notin DOMAIN buf /\ \A j \in expected .. i - 1 : j \in DOMAIN buf

\* What is in sequence in buf is moved to the file.
Reassembled(buf) ==
    /\ expected' = FirstMissing(buf)
    /\ \E chunks \in Ascending({i \in expected .. expected' - 1 : buf[i] # EOF}) :
         saved' = saved \o [k \in DOMAIN chunks |-> buf[chunks[k]]]
    /\ buffer' = [j \in {j \in DOMAIN buf : j >= expected'} |-> buf[j]]

\* Mutant of Free: the packet expected is counted as held.
FreeBehind(buf) == RecvWindow - Cardinality(DOMAIN buf) - 1

\* The window advertised with buf kept.
Free(buf) == RecvWindow - Cardinality(DOMAIN buf)

SendAck(n, buf) == up' = Sent(up, <<Ack(n % SeqCount, Free(buf))>>)

Reads(d) == Arrives(down, d, down')

(***************************************************************************)
(* A client gives up when nothing has arrived for some seconds.  Without   *)
(* "silence" this is only when nothing is left to arrive: the server has   *)
(* returned, and has no GET to read either.  G12's server, "over" once its *)
(* thread for this client has ended, reads the GETs and answers none.      *)
(***************************************************************************)
Silent(serving) ==
    \/ "silence" \in setup.faults
    \/ down = <<>> /\ (serving = "over" \/ (serving = "idle" /\ up = <<>>))

-----------------------------------------------------------------------------
\* Group G12.

\* Mutant of G12Timeout: the GET is sent only once.
G12TimeoutMute(serving) ==
    /\ status = "receiving" /\ Silent(serving) /\ status' = "gaveup"
    /\ UNCHANGED <<netVars, tries, receiver>>

\* recvfrom times out: the GET is sent again, without end, or the client stops.
G12Timeout(serving) ==
    /\ \/ status = "asking" /\ up' = Sent(up, <<Get>>) /\ UNCHANGED status
       \/ status = "receiving" /\ Silent(serving) /\ status' = "gaveup" /\ UNCHANGED up
    /\ UNCHANGED <<down, tries, receiver>>

\* A datagram that is no DATA, or damaged.
G12Ignore(d) ==
    /\ status \in {"asking", "receiving"}
    /\ d.type # "DATA" /\ Reads(d)
    /\ UNCHANGED <<up, clientVars>>

\* A DATA packet is kept if it is in the window, and acknowledged in any case.
\* The empty one ends the transfer, whatever its number.
G12Data(s, p) ==
    /\ status \in {"asking", "receiving"}
    /\ Reads(Data(s, p))
    /\ UNCHANGED tries
    /\ \/ /\ p = EOF
          /\ up' = Sent(up, <<Ack((s + 1) % SeqCount, RecvWindow)>>)
          /\ status' = "complete"
          /\ UNCHANGED receiver
       \/ /\ p # EOF
          /\ Reassembled(IF InWindow(s) THEN Stored(s, p) ELSE buffer)
          /\ SendAck(expected', buffer')
          /\ status' = "receiving"

-----------------------------------------------------------------------------
\* Group 3.

\* Mutant of G3AsksAgain: one try too many.
G3AsksOnceMore ==
    /\ \/ tries <= GetTries /\ tries' = tries + 1 /\ up' = Sent(up, <<Get>>) /\ UNCHANGED status
       \/ tries > GetTries /\ status' = "failed" /\ UNCHANGED <<up, tries>>
    /\ UNCHANGED receiver

\* The GET is sent again, up to GetTries times in all.
G3AsksAgain ==
    /\ \/ tries < GetTries /\ tries' = tries + 1 /\ up' = Sent(up, <<Get>>) /\ UNCHANGED status
       \/ tries = GetTries /\ status' = "failed" /\ UNCHANGED <<up, tries>>
    /\ UNCHANGED receiver

\* While it asks, anything but the ACK of the GET costs a try.
G3Answer(d) ==
    /\ status = "asking"
    /\ Reads(d)
    /\ \/ /\ d.type = "ACK" /\ d.seq = 1 % SeqCount
          /\ status' = "receiving"
          /\ UNCHANGED <<up, tries, receiver>>
       \/ ~ (d.type = "ACK" /\ d.seq = 1 % SeqCount) /\ G3AsksAgain

\* recvfrom times out: the GET or the last ACK is sent again.
G3Timeout ==
    /\ \/ status = "asking" /\ G3AsksAgain
       \/ status = "receiving" /\ SendAck(expected, buffer) /\ UNCHANGED clientVars
    /\ UNCHANGED down

G3Ignore(d) ==
    /\ status = "receiving"
    /\ d.type # "DATA" /\ Reads(d)
    /\ UNCHANGED <<up, clientVars>>

\* The empty packet ends the transfer only where it is expected.
G3Ends(s, p) == p = EOF /\ s = expected % SeqCount

G3FinalAck == Ack((expected + 1) % SeqCount, Free(buffer))

\* A packet out of the window is dropped without an ACK.
G3Data(s, p) ==
    /\ status = "receiving"
    /\ Reads(Data(s, p))
    /\ UNCHANGED tries
    /\ \/ /\ G3Ends(s, p)
          /\ up' = Sent(up, <<G3FinalAck>>)
          /\ status' = "complete"
          /\ UNCHANGED receiver
       \/ /\ ~ G3Ends(s, p) /\ ~ InWindow(s)
          /\ UNCHANGED <<up, status, receiver>>
       \/ /\ ~ G3Ends(s, p) /\ InWindow(s)
          /\ Reassembled(Stored(s, p))
          /\ SendAck(expected', buffer')
          /\ UNCHANGED status

-----------------------------------------------------------------------------
\* Group 2.

\* recvfrom times out: the GET is sent again, up to GetTries times in all; once
\* anything has been received, the client stops and saves what it has.
G2Timeout(serving) ==
    /\ \/ /\ status = "asking" /\ tries < GetTries
          /\ tries' = tries + 1 /\ up' = Sent(up, <<Get>>) /\ UNCHANGED status
       \/ /\ status = "asking" /\ tries = GetTries
          /\ status' = "failed" /\ UNCHANGED <<up, tries>>
       \/ /\ status = "receiving" /\ Silent(serving)
          /\ status' = "gaveup" /\ UNCHANGED <<up, tries>>
    /\ UNCHANGED <<down, receiver>>

\* The first datagram that is received is an answer, even a damaged one.
G2Ignore(d) ==
    /\ status \in {"asking", "receiving"}
    /\ d.type # "DATA" /\ Reads(d)
    /\ status' = "receiving"
    /\ UNCHANGED <<up, tries, receiver>>

\* The empty packet ends the transfer only where it is expected, else it is
\* kept like another.  Every other packet is acknowledged.
G2Data(s, p) ==
    /\ status \in {"asking", "receiving"}
    /\ Reads(Data(s, p))
    /\ UNCHANGED tries
    /\ \/ /\ p = EOF /\ s = expected % SeqCount
          /\ status' = "complete"
          /\ UNCHANGED <<up, receiver>>
       \/ /\ p # EOF \/ s # expected % SeqCount
          /\ Reassembled(IF InWindow(s) THEN Stored(s, p) ELSE buffer)
          /\ SendAck(expected', buffer')
          /\ status' = "receiving"

-----------------------------------------------------------------------------
ClientTypeOK ==
    /\ status \in Statuses
    /\ tries \in 1 .. GetTries
    /\ expected \in Nat
    /\ DOMAIN buffer \subseteq expected + 1 .. expected + RecvWindow - 1
    /\ \A i \in DOMAIN buffer : buffer[i] \in Payloads
    /\ saved \in Seq(Nat)
=============================================================================
