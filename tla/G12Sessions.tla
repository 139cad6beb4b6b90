---------------------------- MODULE G12Sessions ----------------------------
(***************************************************************************)
(* G12's server with several clients: the main thread of server.py, which  *)
(* tells clients by their address, the thread it starts for each address   *)
(* and the queue in client_queues between the two; and clients, one at a   *)
(* time on each port, that may be killed and come back on the same port    *)
(* for another file.  (PeerTransfer has one client of each program, and    *)
(* files of any length.)                                                   *)
(*                                                                         *)
(* The path keeps every datagram: it may arrive late, again or never.  To  *)
(* send it again adds nothing, so the GET that a client repeats each time  *)
(* it hears nothing (client.py:84) is no step of its own.                  *)
(***************************************************************************)
EXTENDS Integers, Sequences, FiniteSets

CONSTANTS
    Ports,          \* the addresses of the clients
    Files,          \* the files they may ask for
    Chunks,         \* the number of chunks of each, or Missing or Unreadable
    SeqCount,       \* number of sequence numbers (2048 in the code)
    RecvWindow,     \* the client's window (63 in the code)
    Mortal,         \* the ports whose clients may be killed, or time out early
    Visits,         \* bound: clients on each port, one after the other
    Room            \* bound: the ACKs a queue holds

Missing == -1
Unreadable == -2    \* open raises an exception in the client's thread

ASSUME NumbersAssumption ==
    /\ SeqCount \in Nat \ {0} /\ RecvWindow \in Nat \ {0} /\ Room \in Nat
    /\ \A f \in Files : Chunks[f] + 1 + RecvWindow <= SeqCount
ASSUME VisitsAssumption == Mortal \subseteq Ports /\ Visits \in [Ports -> Nat \ {0}]

\* A payload is a chunk of a file, or EOF for the empty payload.
NoFile == "none"
EOF == <<NoFile, 0>>

ASSUME FilesAssumption ==
    NoFile \notin Files /\ Chunks \in [Files -> Nat \cup {Missing, Unreadable}]

VARIABLES
    client,     \* the client on each port
    thread,     \* the thread of each address, and what it keeps
    queue,      \* client_queues
    up, down    \* the datagrams sent to the server, and to the clients

vars == <<client, thread, queue, up, down>>

Get(p, f) == [from |-> p, type |-> "GET", file |-> f]
Ack(p, s, w) == [from |-> p, type |-> "ACK", seq |-> s % SeqCount, window |-> w]
Data(p, s, payload) == [to |-> p, seq |-> s % SeqCount, payload |-> payload]

\* status: asking, receiving, complete (has read the empty packet), or gone;
\* expected, buffer and saved are those of PeerClients.
NewClient(visit, f) ==
    [visit |-> visit, status |-> "asking", file |-> f, expected |-> 0,
     buffer |-> [i \in {} |-> EOF], saved |-> <<>>]

\* state: none, sending, over.
NoThread == [state |-> "none", file |-> NoFile, base |-> 0, next |-> 0, window |-> 1]

Init ==
    /\ \E asked \in [Ports -> Files] :
         /\ client = [p \in Ports |-> NewClient(1, asked[p])]
         /\ up = {Get(p, asked[p]) : p \in Ports}
    /\ thread = [p \in Ports |-> NoThread]
    /\ queue = [p \in Ports |-> <<>>]
    /\ down = {}

-----------------------------------------------------------------------------
\* The clients.

\* How far ahead of the packet expected next number s is.
Distance(c, s) == (s - c.expected) % SeqCount

\* Mutant of Stored: the window is not looked at.
StoredAnywhere(c, s, payload) ==
    LET kept == c.expected + Distance(c, s)
    IN  [i \in DOMAIN c.buffer \cup {kept} |->
            IF i \in DOMAIN c.buffer THEN c.buffer[i] ELSE payload]

\* The buffer of c once a DATA packet is kept, if it is in the window.
Stored(c, s, payload) ==
    LET kept == IF Distance(c, s) < RecvWindow THEN {c.expected + Distance(c, s)} ELSE {}
    IN  [i \in DOMAIN c.buffer \cup kept |->
            IF i \in DOMAIN c.buffer THEN c.buffer[i] ELSE payload]

\* c, once what is in sequence in buf is moved to the content.
Reassembled(c, buf) ==
    LET e == CHOOSE e \in c.expected .. c.expected + RecvWindow :
               e \notin DOMAIN buf /\ \A i \in c.expected .. e - 1 : i \in DOMAIN buf
    IN  [c EXCEPT !.status = "receiving", !.expected = e,
                  !.buffer = [i \in {i \in DOMAIN buf : i >= e} |-> buf[i]],
                  !.saved = @ \o [k \in 1 .. e - c.expected |-> buf[c.expected + k - 1]]]

Running(p) == client[p].status \in {"asking", "receiving"}

\* A DATA packet; the empty one ends the transfer, whatever its number.
ClientData(p, d) ==
    /\ Running(p) /\ d.to = p
    /\ IF d.payload = EOF
       THEN /\ client' = [client EXCEPT ![p].status = "complete"]
            /\ up' = up \cup {Ack(p, d.seq + 1, RecvWindow)}
       ELSE LET c == Reassembled(client[p], Stored(client[p], d.seq, d.payload))
            IN  /\ client' = [client EXCEPT ![p] = c]
                /\ up' = up \cup {Ack(p, c.expected, RecvWindow - Cardinality(DOMAIN c.buffer))}
    /\ UNCHANGED <<thread, queue, down>>

\* It is killed, or hears nothing for 2s after an answer.
ClientGone(p) ==
    /\ p \in Mortal /\ Running(p)
    /\ client' = [client EXCEPT ![p].status = "gone"]
    /\ UNCHANGED <<thread, queue, up, down>>

\* Another client gets the port of one that has ended.
ClientReturns(p, f) ==
    /\ ~ Running(p) /\ client[p].visit < Visits[p]
    /\ client' = [client EXCEPT ![p] = NewClient(client[p].visit + 1, f)]
    /\ up' = up \cup {Get(p, f)}
    /\ UNCHANGED <<thread, queue, down>>

-----------------------------------------------------------------------------
\* The server.

\* Mutant of Known: an address is forgotten once its thread has ended.
KnownSending(p) == thread[p].state = "sending"

\* Mutant of Known: one client is served at a time.
KnownOrBusy(p) == thread[p].state # "none" \/ \E q \in Ports : thread[q].state = "sending"

\* addr in client_queues
Known(p) == thread[p].state # "none"

\* blocks: the chunks of the file, and an empty block.
Count(f) == Chunks[f] + 1

\* Mutant of Block: blocks is not a local variable of handle_client.
BlockShared(f, i) ==
    LET other == {q \in Ports : thread[q].state = "sending" /\ thread[q].file # f}
    IN  IF i >= Chunks[f] THEN EOF
        ELSE IF other = {} THEN <<f, i>> ELSE <<thread[CHOOSE q \in other : TRUE].file, i>>

Block(f, i) == IF i < Chunks[f] THEN <<f, i>> ELSE EOF

\* t, once the window is filled.
Filled(t) ==
    LET limit == IF t.base + t.window <= Count(t.file) THEN t.base + t.window ELSE Count(t.file)
    IN  [t EXCEPT !.next = IF limit >= @ THEN limit ELSE @]

Packets(p, f, is) == {Data(p, i, Block(f, i)) : i \in is}

\* The main thread reads a GET.  From an address it does not know, it starts a
\* thread, which answers a missing file by an empty packet, ends if the file
\* cannot be read, or else fills its first window.
ServerGet(p, f) ==
    /\ Get(p, f) \in up
    /\ ~ Known(p)
    /\ LET t == [NoThread EXCEPT !.state = "sending", !.file = f]
       IN  \/ /\ Chunks[f] >= 0
              /\ thread' = [thread EXCEPT ![p] = Filled(t)]
              /\ down' = down \cup Packets(p, f, 0 .. Filled(t).next - 1)
           \/ /\ Chunks[f] < 0
              /\ thread' = [thread EXCEPT ![p] = [t EXCEPT !.state = "over"]]
              /\ down' = down \cup (IF Chunks[f] = Missing THEN {Data(p, 0, EOF)} ELSE {})
    /\ UNCHANGED <<client, queue, up>>

\* Mutant of QueuesOf: there is one queue for all.
QueuesOfAll(p) == Ports

\* The queue that an ACK from p is put in.
QueuesOf(p) == {p}

\* The main thread reads an ACK.  (In the queue of a thread that has ended
\* nobody will look.)
ServerEnqueue(d) ==
    /\ d.type = "ACK" /\ Known(d.from)
    /\ \A q \in QueuesOf(d.from) : Len(queue[q]) < Room
    /\ queue' = [q \in Ports |-> IF q \in QueuesOf(d.from) /\ thread[q].state = "sending"
                                 THEN Append(queue[q], d) ELSE queue[q]]
    /\ UNCHANGED <<client, thread, up, down>>

\* How far an ACK moves base: it must be for a packet sent and not confirmed.
Confirms(t, s) ==
    LET dist == (s - t.base) % SeqCount
    IN  IF dist <= t.next - t.base THEN dist ELSE 0

\* The client's thread goes on as t: packets that have expired are sent again,
\* then the window is filled, unless all is confirmed.
Goes(p, t) ==
    \/ /\ t.base >= Count(t.file)
       /\ thread' = [thread EXCEPT ![p].state = "over"]
       /\ queue' = [queue EXCEPT ![p] = <<>>]
       /\ UNCHANGED down
    \/ /\ t.base < Count(t.file)
       /\ thread' = [thread EXCEPT ![p] = Filled(t)]
       /\ queue' = [queue EXCEPT ![p] = IF @ = <<>> THEN @ ELSE Tail(@)]
       /\ \E expired \in SUBSET (t.base .. t.next - 1) :
            down' = down \cup Packets(p, t.file, expired \cup (t.next .. Filled(t).next - 1))

\* It takes an ACK from its queue, or waits 0.1s for one in vain.
ThreadTurn(p) ==
    /\ thread[p].state = "sending"
    /\ \/ /\ queue[p] # <<>>
          /\ LET a == Head(queue[p])
                 t == thread[p]
             IN  Goes(p, [t EXCEPT !.window = a.window, !.base = @ + Confirms(t, a.seq)])
       \/ queue[p] = <<>> /\ Goes(p, thread[p])
    /\ UNCHANGED <<client, up>>

Next ==
    \/ \E p \in Ports :
         \/ ClientGone(p) \/ ThreadTurn(p)
         \/ \E d \in down : ClientData(p, d)
         \/ \E f \in Files : ClientReturns(p, f) \/ ServerGet(p, f)
    \/ \E d \in up : ServerEnqueue(d)

Spec == Init /\ [][Next]_vars

(***************************************************************************)
(* Every thread runs.  The path does not lose every copy of what is sent   *)
(* again and again: a GET without an answer, the first packet not          *)
(* confirmed, the ACK that is sent for each packet that arrives.           *)
(***************************************************************************)
HearsBase(p) ==
    /\ thread[p].state = "sending"
    /\ \E d \in Packets(p, thread[p].file, {thread[p].base}) : d \in down /\ ClientData(p, d)

HearsExpected(p) ==
    \E d \in up : d.from = p /\ d.type = "ACK" /\ d.seq = client[p].expected % SeqCount
                    /\ ServerEnqueue(d)

Fairness ==
    \A p \in Ports :
      /\ WF_vars(ThreadTurn(p))
      /\ SF_vars(\E f \in Files : ServerGet(p, f))
      /\ SF_vars(HearsBase(p))
      /\ SF_vars(HearsExpected(p))

FairSpec == Spec /\ Fairness

-----------------------------------------------------------------------------
TypeOK ==
    /\ \A p \in Ports :
         /\ client[p].file \in Files /\ client[p].visit \in 1 .. Visits[p]
         /\ client[p].expected = Len(client[p].saved)
         /\ DOMAIN client[p].buffer \subseteq
              client[p].expected + 1 .. client[p].expected + RecvWindow - 1
         /\ thread[p].window \in 1 .. RecvWindow
         /\ thread[p].base <= thread[p].next
         /\ thread[p].state = "sending" =>
              /\ Chunks[thread[p].file] >= 0
              /\ thread[p].base < Count(thread[p].file)
              /\ thread[p].next \in thread[p].base + 1 .. Count(thread[p].file)
    /\ \A d \in up : d.type = "ACK" => d.window \in 1 .. RecvWindow

First(p) == client[p].visit = 1

(***************************************************************************)
(* server.py:12-36: what a thread keeps is its own.  The first client on a *)
(* port saves chunks of the file it asked for, from its beginning,         *)
(* whatever the other threads send and confirm meanwhile.                  *)
(***************************************************************************)
OwnFile ==
    \A p \in Ports : First(p) =>
      \A i \in 1 .. Len(client[p].saved) : client[p].saved[i] = <<client[p].file, i - 1>>

(***************************************************************************)
(* server.py:113-115: a thread is given the ACKs of its client only.  It   *)
(* confirms nothing the first client on the port has not passed, and ends  *)
(* only after it, if the file can be read.                                 *)
(***************************************************************************)
OwnAcks ==
    \A p \in Ports : First(p) /\ client[p].status # "complete" =>
      /\ thread[p].base <= client[p].expected
      /\ thread[p].state = "over" => Chunks[thread[p].file] < 0

(***************************************************************************)
(* server.py:109: client_queues keeps an address for ever.  Every client   *)
(* on a port, whatever it asked for, saves chunks of the file the first    *)
(* GET from there named, from the beginning: a client that comes back for  *)
(* another file does not get it.                                           *)
(***************************************************************************)
PortKeepsFile ==
    \A p \in Ports : \A i \in 1 .. Len(client[p].saved) :
      client[p].saved[i] = <<thread[p].file, i - 1>>

(***************************************************************************)
(* server.py:111: each client has its thread.  The first client on a port  *)
(* that asks for a file that exists gets to the end of its transfer, even  *)
(* if clients on other ports are gone and their threads send for ever.     *)
(***************************************************************************)
FirstServed ==
    \A p \in Ports \ Mortal :
      First(p) /\ client[p].status = "asking" /\ Chunks[client[p].file] >= 0
        ~> client[p].status = "complete"
=============================================================================
