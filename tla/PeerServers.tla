---------------------------- MODULE PeerServers ----------------------------
(***************************************************************************)
(* The servers of groups G12, 3 and 2.  Those of groups 3 and 2 are one    *)
(* thread, as in SrtpServer.  G12's has a main thread, which reads the     *)
(* socket and puts the ACKs in a queue, and a thread for each client that  *)
(* takes them from it (there is one client here).                          *)
(*                                                                         *)
(* A step of a sender is what it does between two waits for an ACK.  Time  *)
(* is abstracted: any set of unconfirmed packets may have expired.         *)
(***************************************************************************)
EXTENDS PeerPath

CONSTANT EndTries   \* how often group 3's server sends the empty packet (30)

ASSUME EndTriesAssumption == EndTries \in Nat \ {0}

VARIABLES
    serving,        \* see ServerStates
    base,           \* the first packet not confirmed
    next_seq,       \* the packets sent so far
    window,         \* the window the last ACK advertised
    in_flight,      \* the packets that will be sent again
    file_ended,     \* group 2: whether read has returned nothing
    queue,          \* client_queues[addr] of G12
    end_tries       \* group 3: how often the empty packet has been sent

sender == <<base, next_seq, window, in_flight, file_ended, end_tries>>
serverVars == <<serving, queue, sender>>

\* idle: the main loop, and in G12 no thread for the client yet; sending: the
\* sliding window; ending: group 3 sends the empty packet until it is
\* acknowledged; over: G12's thread has ended, its queue remains.
ServerStates == {"idle", "sending", "ending", "over"}

ServerInit ==
    /\ serving = "idle" /\ queue = <<>>
    /\ base = 0 /\ next_seq = 0 /\ window = 1
    /\ in_flight = {} /\ file_ended = FALSE /\ end_tries = 0

\* The sender returns: its variables are locals.
Return(state) ==
    /\ serving' = state
    /\ base' = 0 /\ next_seq' = 0 /\ window' = 1
    /\ in_flight' = {} /\ file_ended' = FALSE /\ end_tries' = 0

Receives(d) == Arrives(up, d, up')

\* How many numbers s is ahead of b.
Ahead(b, s) == (s - b) % SeqCount

\* The packets that are sent for the first time when next_seq becomes n.
New(n) == [k \in 1 .. n - next_seq |-> next_seq + k - 1]

Least(a, b) == IF a <= b THEN a ELSE b
Most(a, b) == IF a >= b THEN a ELSE b

-----------------------------------------------------------------------------
\* Group G12.

\* blocks: the chunks, and an empty block that ends the file.
G12Count == Chunks + 1

\* Mutant of G12Filled: the window is not looked at.
G12FilledAtOnce(b, n, w) == IF b + w >= n THEN G12Count ELSE n

\* next_seq once the window is filled.
G12Filled(b, n, w) == Most(n, Least(b + w, G12Count))

\* Mutants of G12Confirmed: an old ACK is not told from a new one; an ACK of all
\* that has been sent is taken for an old one.
G12ConfirmedByAny(b, n, s) == Least(b + Ahead(b, s), G12Count)
G12ConfirmedNotAll(b, n, s) == IF Ahead(b, s) < n - b THEN b + Ahead(b, s) ELSE b

\* base once ACK s is read: it must be for a packet sent and not confirmed.
G12Confirmed(b, n, s) ==
    IF Ahead(b, s) <= n - b THEN b + Ahead(b, s) ELSE b

\* The end of a turn of the loop, with base at b and the window at w: packets
\* that have expired are sent again, then the window is filled.
G12Turn(b, w, expired) ==
    /\ expired \subseteq b .. next_seq - 1
    /\ base' = b /\ window' = w
    /\ next_seq' = G12Filled(b, next_seq, w)
    /\ in_flight' = b .. next_seq' - 1
    /\ \E again \in Ascending(expired) :
         down' = Sent(down, Packets(again) \o Packets(New(next_seq')))
    /\ UNCHANGED <<serving, file_ended, end_tries>>

\* The main thread reads a GET.  The first one starts a thread, which fills its
\* first window, or answers a missing file and ends; the others are dropped.
G12Get(d) ==
    /\ d.type = "GET" /\ Receives(d)
    /\ \/ /\ serving = "idle" /\ setup.chunks # Missing
          /\ serving' = "sending"
          /\ next_seq' = 1 /\ in_flight' = {0}
          /\ down' = Sent(down, <<Packet(0)>>)
          /\ UNCHANGED <<base, window, file_ended, end_tries, queue>>
       \/ /\ serving = "idle" /\ setup.chunks = Missing
          /\ serving' = "over"
          /\ down' = Sent(down, <<NoFile>>)
          /\ UNCHANGED <<queue, sender>>
       \/ serving # "idle" /\ UNCHANGED <<down, serverVars>>

\* The main thread reads an ACK, for the client's queue if there is one.  An
\* ended thread leaves its queue behind, where nobody looks: not modelled.
G12Enqueue(d) ==
    /\ d.type = "ACK" /\ Receives(d)
    /\ queue' = IF serving = "sending" THEN Append(queue, d) ELSE queue
    /\ Len(queue) < Room
    /\ UNCHANGED <<down, serving, sender>>

G12Drop(d) == d.type = "BAD" /\ Receives(d) /\ UNCHANGED <<down, serverVars>>

\* The client's thread takes an ACK, and ends once all is confirmed.
G12Ack(expired) ==
    /\ serving = "sending" /\ queue # <<>>
    /\ LET b == G12Confirmed(base, next_seq, Head(queue).seq)
       IN  \/ /\ b = G12Count
              /\ Return("over")
              /\ queue' = <<>> /\ UNCHANGED down
           \/ /\ b < G12Count
              /\ G12Turn(b, Head(queue).window, expired)
              /\ queue' = Tail(queue)
    /\ UNCHANGED up

\* It finds none for 0.1s.
G12Empty(expired) ==
    /\ serving = "sending" /\ queue = <<>>
    /\ G12Turn(base, window, expired)
    /\ UNCHANGED <<up, queue>>

-----------------------------------------------------------------------------
\* Group 3.

\* Mutant of G3Confirmed: the ACK of what is expected next confirms that too.
G3ConfirmedNext(b, s) == Least(b + Ahead(b, s) + 1, Chunks)

\* base once ACK s is read (seq_to_abs, no further than the end of the file).
G3Confirmed(b, s) == Least(b + Ahead(b, s), Chunks)

\* Mutant of G3Filled: the window is filled up to the empty packet, as in G12.
G3FilledToEnd(b, n, w) == IF w = 0 THEN n ELSE Most(n, Least(b + w, Chunks + 1))

G3Filled(b, n, w) == IF w = 0 THEN n ELSE Most(n, Least(b + w, Chunks))

EndPacket == Data(Chunks % SeqCount, EOF)

\* The rest of a turn of the loop: with base at b, the window at w and kept in
\* flight, packets that have expired are sent again and the window is filled;
\* then, if all is confirmed, the empty packet is sent for the first time.
\* ahead: what has been sent before in this turn.
G3Turn(ahead, b, w, kept, expired) ==
    LET n == G3Filled(b, next_seq, w)
    IN  /\ expired \subseteq kept
        /\ \E again \in Ascending(expired) :
             down' = Sent(down, ahead \o Packets(again) \o Packets(New(n)) \o
                                (IF b >= Chunks THEN <<EndPacket>> ELSE <<>>))
        /\ base' = b /\ next_seq' = n /\ window' = w
        /\ in_flight' = kept \cup (next_seq .. n - 1)
        /\ serving' = IF b >= Chunks THEN "ending" ELSE "sending"
        /\ end_tries' = IF b >= Chunks THEN 1 ELSE 0
        /\ UNCHANGED <<queue, file_ended>>

GetReply == Ack(1 % SeqCount, 0)

\* The main loop: a GET is acknowledged, and send_file starts with the window
\* it advertises.  A missing file is sent as an empty one.
G3Get(d) ==
    /\ serving = "idle" /\ d.type = "GET" /\ Receives(d)
    /\ G3Turn(<<GetReply>>, 0, Most(1, d.window), {}, {})

\* Anything else that reaches the main loop is dropped.
G3Drop(d) ==
    /\ serving = "idle" /\ d.type # "GET" /\ Receives(d)
    /\ UNCHANGED <<down, serverVars>>

\* send_file reads an ACK: what it confirms is not in flight any more.
G3Ack(d) ==
    /\ serving = "sending" /\ d.type = "ACK" /\ Receives(d)
    /\ LET b == G3Confirmed(base, d.seq)
           kept == in_flight \ (base .. b - 1)
       IN  \E expired \in SUBSET kept : G3Turn(<<>>, b, d.window, kept, expired)

\* Another GET is acknowledged again, a damaged datagram dropped; neither makes
\* send_file look at its timers.
G3Skip(d) ==
    /\ serving = "sending" /\ d.type \in {"GET", "BAD"} /\ Receives(d)
    /\ down' = Sent(down, IF d.type = "GET" THEN <<GetReply>> ELSE <<>>)
    /\ UNCHANGED serverVars

G3Expire(expired) ==
    /\ serving = "sending"
    /\ G3Turn(<<>>, base, window, in_flight, expired)
    /\ UNCHANGED up

\* Mutant of G3EndAgain: the tries are not counted.
G3EndAgainForever ==
    /\ down' = Sent(down, <<EndPacket>>)
    /\ UNCHANGED <<serving, queue, sender>>

\* No final ACK: the empty packet is sent again, or send_file returns.
G3EndAgain ==
    \/ /\ end_tries < EndTries
       /\ end_tries' = end_tries + 1
       /\ down' = Sent(down, <<EndPacket>>)
       /\ UNCHANGED <<serving, queue, base, next_seq, window, in_flight, file_ended>>
    \/ /\ end_tries = EndTries
       /\ Return("idle")
       /\ UNCHANGED <<down, queue>>

\* The final ACK, or anything else, which costs a try.
G3EndAck(d) ==
    /\ serving = "ending" /\ Receives(d)
    /\ LET final == d.type = "ACK" /\ d.seq = (Chunks + 1) % SeqCount
       IN  \/ final /\ Return("idle") /\ UNCHANGED <<down, queue>>
           \/ ~ final /\ G3EndAgain

G3EndTimeout == serving = "ending" /\ G3EndAgain /\ UNCHANGED up

-----------------------------------------------------------------------------
\* Group 2.

\* Mutant of G2Confirmed: any ACK confirms all that is in flight.
G2ConfirmedAll(b, n, s) == n

\* base once ACK s is read: it goes up to s or until nothing is in flight.
G2Confirmed(b, n, s) == Least(b + Ahead(b, s), n)

\* len(buffer_envoi) is n - b.  With nothing in flight, one packet is sent even
\* if the window is closed.
G2Filled(b, n, w) == Most(n, Least(b + (IF n = b THEN Most(w, 1) ELSE w), Chunks))

\* read has been tried at the end of the file.
G2Ended(b, n, w) ==
    LET filled == G2Filled(b, n, w)
    IN  filled = Chunks /\ filled - b < (IF n = b THEN Most(w, 1) ELSE w)

\* Packets that have expired are sent again; then the loop is left, with the
\* empty packet sent once, or the window filled.
G2Turn(b, w, expired) ==
    /\ expired \subseteq b .. next_seq - 1
    /\ \/ /\ file_ended /\ b = next_seq
          /\ Return("idle")
          /\ down' = Sent(down, <<Data(next_seq % SeqCount, EOF)>>)
       \/ /\ ~ (file_ended /\ b = next_seq)
          /\ base' = b /\ window' = w
          /\ next_seq' = G2Filled(b, next_seq, w)
          /\ in_flight' = b .. next_seq' - 1
          /\ file_ended' = (file_ended \/ G2Ended(b, next_seq, w))
          /\ \E again \in Ascending(expired) :
               down' = Sent(down, Packets(again) \o Packets(New(next_seq')))
          /\ UNCHANGED <<serving, end_tries>>
    /\ UNCHANGED queue

\* The main loop: a missing file is answered by one empty packet, else the
\* first packet is sent, with a window of 1.
G2Get(d) ==
    /\ serving = "idle" /\ d.type = "GET" /\ Receives(d)
    /\ \/ /\ setup.chunks = Missing
          /\ down' = Sent(down, <<NoFile>>)
          /\ UNCHANGED serverVars
       \/ /\ setup.chunks # Missing
          /\ serving' = "sending"
          /\ next_seq' = G2Filled(0, 0, 1)
          /\ in_flight' = 0 .. next_seq' - 1
          /\ file_ended' = G2Ended(0, 0, 1)
          /\ down' = Sent(down, Packets(New(next_seq')))
          /\ UNCHANGED <<base, window, queue, end_tries>>

\* A GET that was cut asks for a file that does not exist.
G2CutGet(d) ==
    /\ serving = "idle" /\ d.type = "CUT" /\ Receives(d)
    /\ down' = Sent(down, <<NoFile>>)
    /\ UNCHANGED serverVars

\* The main loop drops what is not ASCII, as an ACK, or no GET.
G2Drop(d) ==
    /\ serving = "idle" /\ d.type \notin {"GET", "CUT"} /\ Receives(d)
    /\ UNCHANGED <<down, serverVars>>

G2Ack(d) ==
    /\ serving = "sending" /\ d.type = "ACK" /\ Receives(d)
    /\ LET b == G2Confirmed(base, next_seq, d.seq)
       IN  \E expired \in SUBSET (b .. next_seq - 1) : G2Turn(b, d.window, expired)

\* Any other datagram is dropped, but is followed by a look at the timers.
G2Skip(d) ==
    /\ serving = "sending" /\ d.type # "ACK" /\ Receives(d)
    /\ \E expired \in SUBSET (base .. next_seq - 1) : G2Turn(base, window, expired)

\* Nothing to read for 50ms.
G2Idle(expired) ==
    /\ serving = "sending"
    /\ G2Turn(base, window, expired)
    /\ UNCHANGED up

-----------------------------------------------------------------------------
ServerTypeOK ==
    /\ serving \in ServerStates
    /\ base \in Nat /\ next_seq \in 0 .. Chunks + 1 /\ window \in 0 .. RecvWindow
    /\ in_flight \subseteq 0 .. next_seq - 1
    /\ file_ended \in BOOLEAN
    /\ queue \in Seq(Acks) /\ Len(queue) <= Room
    /\ end_tries \in 0 .. EndTries
=============================================================================
