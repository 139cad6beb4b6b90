# SRTP file transfer: models, checks and proofs

The repository holds a student implementation of SRTP, a sliding-window file
transfer over UDP (`projet1_lai_zhang/`), the lossy-link proxy it is tested
through (`Linksimulator/`), and the programs of three other groups that it has
to interoperate with (`Programe des autres/`). This directory specifies all of
them in TLA+, model-checks them with TLC and proves their main properties with
TLAPS.

All paths below are relative to `src/`; `server.py`, `client.py` and
`packet.py` are those of `projet1_lai_zhang/src/`; `G12/...`, `3/...` and
`2/...` are below `Programe des autres/`. "The peers" are the client and server
programs of groups G12, 3 and 2.

## 1. Inventory

| Component | State | Operations | Interacts by |
|---|---|---|---|
| Server, `server.py` | in the main loop: none; in `send_file`: `packets`, `last_ack`, `last_sent`, send times | GET, window fill, ACK, retransmission after 0.5 s, reset, exception, Ctrl-C | datagrams on one socket for all clients |
| Client, `client.py` | `expected_seqnum`, `buffer`, the saved file | GET, DATA, final ACK, return | datagrams on a socket of its own |
| Codec, `packet.py` | none | `pack`, `unpack` | called by both |
| Link simulator, `link_sim.c` | clock cache, queue of delayed packets, address of the remote party | select, deliver what is due, read and lose/cut/corrupt/delay/relay | datagrams; calls the priority queue |
| Priority queue, `min_queue.c` | array, size, allocated slots | new, push, pop, peek | called by `link_sim.c` |
| Peer clients, `G12/src/client.py`, `3/src/client.py`, `2/src/client.py` | `expected_seq`, dictionary of packets received ahead, what will be saved; tries of the GET | GET and its retries, DATA (window test, reassembly, ACK with the free window), the end, giving up | datagrams |
| Peer server of G12, `G12/src/server.py` | per address a queue in `client_queues`, for ever, and a thread: `base`, `next_seq`, `window`, send times | main thread: GET starts a thread, ACK goes to the queue; thread: ACK, retransmission, window fill | datagrams; the queue between the threads |
| Peer servers of 3 and 2, `3/src/server.py`, `2/src/server.py` | one thread; `base`, next number, advertised window, packets in flight; group 3: tries of the empty packet; group 2: whether the file has been read to its end | GET (group 3 acknowledges it), ACK, retransmission, window fill, the empty packet (group 3 up to 30 times, group 2 once) | datagrams |
| Peer codecs, `*/src/packet.py` | none | as `packet.py` | called by their programs |
| Example binaries | - | - | no source |

What is hard here:

* **order, loss, duplication**: DATA and ACKs are sent again, so several copies
  of a datagram are in flight and arrive in any order, the empty packet that
  ends the file before the chunks it follows;
* **sequence numbers wrap** at 2048 while file positions do not;
* **one server socket for everybody**: `send_file` reads whatever arrives, of
  its client or not, and while it runs nobody else is served; G12's server has a
  thread for each client instead, and never forgets an address;
* **ends of transfers**: the final ACK is not acknowledged; a closed port is
  reported to the server, on some platforms, as an exception of a later call;
  the peers bound their tries and give up;
* **windows**: the peers send as much as the last ACK advertises, and nobody
  tells a server later that a closed window has opened again;
* **old ACKs**: each peer decides in its own way whether an ACK is older than
  what it has confirmed, with numbers modulo 2048;
* **damaged datagrams**, which the codec must reject and the programs survive; and
  the GET of group 2, plain text without a CRC, that stays a GET when it is cut;
* **time in two fields** (`struct timeval`) in the link simulator, compared,
  subtracted and not always normalised.

What makes each component correct:

* transfer: the saved file is always a beginning of the file asked for, the end
  is announced only when it is whole, the server confirms only what its client
  has and serves it until it is gone, and the transfer ends;
* peers: what is saved is a beginning of the file, and all of it where the
  program says so; no server drops a packet its client lacks; no window closes
  for good; who asks is answered, and who has been served is let go;
* codec: what is accepted is exactly what was packed;
* queue: it is a priority queue;
* proxy: packets leave in the order of their dates, not before them, once, to
  the other party, and all of them.

`PROJECT.json` lists every hazard with its line and the properties that cover it.

## 2. Modules

| Module | Models |
|---|---|
| `SrtpNetwork` | datagrams and the UDP path: loss, damage, duplication, any order |
| `SrtpServer` | main loop and `send_file` of `server.py` |
| `SrtpClient` | `client.py` |
| `SrtpTransfer` | the three composed, fairness, all the properties of the transfer |
| `FileTransfer` | abstract specification: what a client is promised, by `projet1_lai_zhang` and, over a path in order, by the peers |
| `MCSrtpTransfer` | instances for TLC |
| `SrtpTransferProofs` | proofs: of the file, then of the window and the ACKs |
| `PeerPath` | the path between a peer client and a peer server, and which programs are run |
| `PeerClients`, `PeerServers` | `client.py` and `server.py` of G12, 3 and 2 |
| `PeerTransfer` | the three composed, fairness, the properties of the peers' transfer |
| `MCPeerTransfer` | instances for TLC |
| `PeerProofs` | proofs: of windows, old ACKs and types; what the steps of all programs have in common |
| `PeerSavedProofs` | proofs: of what is saved, and of ACKs over a path in order |
| `G12Sessions`, `MCG12Sessions` | G12's server with several clients, one after the other on each port |
| `G12SessionsProofs` | proofs |
| `PacketCodec`, `MCPacketCodec` | `packet.py` of the four groups, with a datagram on its way through `link_sim` |
| `PacketCodecProofs` | proofs |
| `PriorityQueue`, `MinQueue`, `MinQueueSpec` | abstract bag; the heap's functions; a queue in use |
| `MinQueueProofs`, `HeapProofs` | proofs: of a push and a pop for any comparison; of a queue in use |
| `LinkSim`, `MCLinkSim` | `link_sim.c`, which instantiates `MinQueue` with its own comparison |
| `LinkProofs` | proofs, which use those of the heap |

**Transfer.** An action is what a process does between two calls of `recvfrom`:
`ServerGet`, `ServerAck`, `ServerSkip` (anything else read in `send_file`),
`ServerTimeout`, `ServerReset`, `ServerAbort`, `ServerStop`, `ServerIgnore` (anything
else read in the main loop); `ClientRequest`, `ClientData`, `ClientBad`,
`ClientKill`. `Iterate` is the rest of a turn of `send_file`'s loop after
`recvfrom`: retransmission of the unconfirmed packets whose timer has expired,
the loop test, the refill of the window. The variables have the names of the
code's; `written` is the saved file. `serving` is the client `send_file` was
called for. A chunk is named by its index; `EOF` is the empty payload. Sets
stand for the two directions of the path, which gives every order of delivery;
reading a DATA or an ACK may leave it in the set, as another copy may be on its
way. Time is abstracted: any set of unconfirmed packets may have expired. Mutants
(operators commented as such) are definitions altered as a plausible mistake
would; no specification uses them, they serve to see each property fail.

**Peers.** One specification holds the programs of the three groups: `setup`
says which client runs against which server, over what path and for what file,
and never changes. The pairs are each group with itself and, as their packets are
compatible, G12 with 3; group 2 sends its GET as plain text, which nobody else
reads, and group 3's client waits for an ACK of its GET, which only group 3
sends (so against G12's server it fails after its tries, and it is run for that).
As above a step is what a process does between two waits: of a client or a
single-threaded server between two calls of `recvfrom`, of G12's thread between
two calls of `queue.get`. Correspondence, where it is not by name:

* `expected` counts packets without wrapping, group 3's way; `expected_seq` of the
  others is `expected % SeqCount`, and their dictionary `buffer` is indexed by
  the same absolute numbers. A window is shorter than the number space, so
  the two say the same. `base` and `next_seq` are absolute for the same reason
  (`G12/src/server.py` and `3/src/server.py` keep them so themselves); an ACK is
  always a number modulo `SeqCount`, and what a server makes of it is
  `G12Confirmed`, `G3Confirmed`, `G2Confirmed`.
* `in_flight` is the set of packets that will be sent again (`in_flight` of group
  3, the unconfirmed part of `packets` of G12, `buffer_envoi` of group 2);
  `expired`, any subset of it, the ones whose timer has run out.
* `saved` is the list of chunks written in the end: when `status` is `gaveup` or
  `complete` it is the file.
* `up` and `down` are queues of `Room` datagrams; what is sent when they are full
  is lost. They deliver in order or not, as `setup.link` says. `Lose`, `Damage` and
  `Cut` are what `link_sim` does to a datagram. `Bad` is a damaged one, on which all
  decoders return `None` and which, with a byte inverted, is not ASCII.
* `link_sim.c:195` cuts to 12 bytes what is longer and begins like a DATA packet: a
  packet of a chunk, a GET of G12 or 3 (which is a packet) - these lose their CRC
  and are `Bad` - and a GET of group 2, as `G` is 0x47. That one is `CutGet`: the
  GET of a shorter path (`GET /source.bin` becomes `GET /source.`), which
  `2/src/server.py:26-42` answers as that of a missing file, by the empty packet 0
  (`G2CutGet`, `NoFile`). The path is assumed to be longer than 8 characters, and
  its first 8 characters to name nothing that exists; if they name another
  file, the client saves that one.
* A client's timeout is longer than a server's retransmission timer (2 s to 0.5 s,
  4 s to 3 s, 4 s to 1.5 s). `Silent` says what follows: unless so much
  is lost that a client hears nothing for seconds (`silence`), it gives up only if
  nothing is on its way and the server has left.
* G12's `client_queues` is the one `queue`, with its reader. Several of them are in
  `G12Sessions`.

**Sessions.** `G12Sessions` is G12's `server.py` as a whole: the main thread
(`ServerGet`, `ServerEnqueue`), which looks an address up in `client_queues` (`Known`),
and a thread per address (`ThreadTurn`), each with its own `blocks`, `base`,
`next_seq` and `window` (the record `thread[p]`) and its queue (`queue[p]`). A
thread is `over` when it has returned or died at `open`; its queue stays, and
nobody looks in it. On a port there is one client after the other (`visit`); a
client on a port in `Mortal` may be killed, or hear nothing for 2 s, at any
moment. The code of client and thread is that of `PeerClients` and `PeerServers`
with other data: a payload says of which file it is. The path is a set that keeps
everything, so a datagram may arrive late, again, or never, also to the next client on the
port, as UDP has it. To send again adds nothing to such a path: the repeated GET is no
step. A retransmission is a choice in `Goes` only so that it is seen where
it happens. Ctrl-C ends the program with its daemon threads and is left out.

**Codec.** The layout is that of the code with narrower fields; the CRC is a
parameter assumed to see the change of one byte, as any CRC at least as wide as a
byte does, and a reflected, preset and inverted 8-bit CRC of two 4-bit bytes in
the instance. The window and sequence number checks of
`unpack` cannot fail (the fields have 6 and 11 bits) and are left out. Each
group's packet is packed by its own `encode` and read by its own `decode`.
They differ: group 2's decoder takes a payload without its CRC2, or with a part of it
that it does not look at (`2/src/encode_decode.py:63`), G12's accepts type 0, and the fields of the header are checked in different places.

**Queue.** The loops that move a value up or down the tree are given by the set
of slots they visit, as recursive functions.

**Link simulator.** One action per step of `proxy_loop`: `Select`, `Deliver` /
`DeliverFails` / `Delivered`, then `NothingToRead`, `Drop`, `Forward`, `Hold` or
`Crash`. `Tick` is the clock, `Arrive` the parties. A tick stands for 1 ms and
`Second` for the number of ticks in a second; timevals are pairs, as in the code.
`due` in a slot is the date without the carry problem: history the properties need.
The delay is reduced modulo 10 s, as `link_sim.c:219` does (its comment says
"capped": a delay of 10 s becomes none).

## 3. Runs

Bounds: `SeqMod` sequence numbers, `Window` packets, files of `Chunks` chunks.

| Run | Instance | Shows |
|---|---|---|
| `transfer_faults` | 1 client, 3 chunks, window 2, 5 numbers; loss, damage, duplication, kill, reset; fairness | `WrittenIsPrefix`, `DoneIsComplete`, `DuplicatesIgnored`, `AckSound`, `BufferWithinWindow`, `TransferDelivered`, `ServerFreed`, `ReturnsWhenGone` |
| `transfer_several` | 4 clients (files of 2 and 1 chunks, a missing and an unreadable one), window 1, 3 numbers for the 3 packets of the longest; reset, abort, stop | `TypeOK`, `WindowFull`, `KeepsPromise` (refinement of `FileTransfer`) |
| `peers` | all pairs above; window 2, 6 numbers, 2 datagrams each way, 2 tries; files of 6 chunks or missing in order with loss, of 1 chunk with loss and damage and with all faults, of 3 chunks reordered with loss, of 2 chunks for group 2 with loss and cuts; fairness | `TypeOK`, `SavedIsPrefix`, `AckSound`, `OldAcksHarmless`, `SavedIsWhole`, `WholeOrNothing`, `TruncatedByLessThanWindow`, `WindowOpen`, `KeepsPromise` (refinement of `FileTransfer`), `Answered`, `ChunksDelivered`, `ServerFreed` |
| `g12_sessions` | G12's server, 2 ports, the clients of the second may be killed and there are two, one after the other; files of 2 chunks and 1, a missing and an unreadable one; 5 numbers, window 2, 1 ACK per queue; fairness | `TypeOK`, `OwnFile`, `OwnAcks`, `PortKeepsFile`, `FirstServed` |
| `codec_link` | the four groups' codecs; 4-bit bytes, 2-bit fields, a CRC of two bytes, up to one byte too much payload | `IntactAccepted`, `DamageRejected`, `AcceptedRepacks` |
| `queue_heap` | 4 keys, 9 slots, growth by 3 | `TypeOK`, `HeapOrder`, `IsPriorityQueue` (refinement of `PriorityQueue`) |
| `link_proxy` | 2 datagrams, short or not; 2 remote parties, all failures; no delay, or one of 1 to 4 ticks; seconds of 4 ticks, fairness | `TypeOK`, `EarlyUnderASecond`, `BetweenTheTwo`, `LeavesInOrder`, `NeverOversleeps`, `QueueDrains` |

Runs that expect a violation show where the code departs from what its comments
or tests say:

| Run | Violates | Because |
|---|---|---|
| `wrap_ack` | `AckSound` | `server.py:73` adds 2048 to the index of a repeated ACK |
| `damaged_data` | `OnlyKilledClientsDie` | `client.py:65` dereferences `None` |
| `link_early` | `NotEarly` | `link_sim.c:234` does not carry into the seconds |
| `peers_reordered` | `ReceivedIsSource` | `2/src/server.py:85` pops packets until the ACK's number is reached: an old ACK is never reached and forgets everything unconfirmed |
| `peers_cut` | `EndMeansDone` | `2/src/server.py:26` serves a GET that `link_sim` has cut, as that of a missing file, and `2/src/client.py:69` takes the answer for the end: the client saves an empty file, over a path in order that loses nothing |

Departures met while modelling and not given a run: on the far side of the wrap,
`client.py:69` (`seqnum >= expected_seqnum`) takes an old packet for a new one;
`send_file` looks neither at the sender of an ACK nor at whose port a
`ConnectionResetError` is about, so with several clients `AckSound` and
`ReturnsWhenGone` fail (`transfer_several` shows that no file is corrupted by
it); `timeval_diff` does not carry when no second is left (`link_sim.c:123`), so
the timeout is 1 ms instead of the rest (`NeverOversleeps` shows it is never too
long); the proxied host, if it writes to a fresh proxy first, becomes its remote
party (`link_sim.c:277`); a full send buffer that is waited for in
`deliver_delayed_pkt` ends the program in `process_incoming_pkt` and
`simulate_link` (`Crash`).

Of the peers: group 3's server, too, misreads an old ACK (`3/src/server.py:16`
maps it 2047 packets ahead, clipped to the end of the file: the transfer is taken
for complete); only G12's server compares before it advances, which is why
`OldAcksHarmless` is about it. G12's client ends at an empty packet of any number
(`G12/src/client.py:56`), and G12's server sends that packet within the window: a
file can be cut short, by less than a window (`TruncatedByLessThanWindow`). G12
answers the GET of a missing file once, and its thread does not end if the final
ACK is lost, as its client has gone; `ServerFreed` is about the other two. Where a GET of
group 2 may be cut, `SavedIsWhole`, `KeepsPromise`, `ChunksDelivered` and `ServerFreed` do not
hold for its pair and make an exception of it: the client has ended with an empty file, and a
repeated GET that arrives whole leaves its server sending to nobody. `WholeOrNothing`
says what does hold.

Why these bounds are enough to be interesting: in `transfer_faults` the window
(2) is smaller than the file (4 packets) so that it slides, and smaller than the
sequence space so that numbers before, in and after it are distinct; three
chunks let the middle one be missing while its neighbours are held; 5 numbers
for 4 packets is the tightest space for which the properties are stated, and
`wrap_ack` passes it by two packets. In the code that is a file of up to 2046
chunks, just under 2 MiB. `transfer_several` uses the space to its last number.
Loss is left out there: a datagram that is never read is as good as lost for a
safety property. A socket call that raises and Ctrl-C are faults of that run only, as a
transfer they end is not delivered; that what a single client's server has confirmed until
then is sound with them too is proved (`AcksAreSound`). The heap's nine slots give four levels under the odd root of
one child. In `link_proxy` seconds are 4 ticks so that delays cross their
boundaries in all positions; two datagrams are enough to leave in the wrong order, and
the heap itself has more values in `queue_heap`. `LastArrival` and `MaxTime` bound the clock; before
`LastArrival` the proxy may be arbitrarily slow, after it reads what it has
received before time goes on. Deadlock is not checked in the runs of the
transfer, codec and proxy: a transfer ends, a datagram is received once, and the
bounds on datagrams and time stop the proxy. In `peers` a file of 6 chunks with its
empty packet has more packets than there are numbers; 3 chunks, the empty packet
and a window of 2 take the 6 numbers exactly, the tightest case of `FitsNumbers`;
the file of 1 chunk meets every fault - without silence, too, as `SavedIsWhole` makes an
exception of that - and group 3's client at G12's server. Two
datagrams each way let one overtake another or be a copy of it; the counterexample
of `peers_reordered` needs three. Two tries reach both "again" and "enough". The
peers' runs end when client and server do, so deadlock is not checked there either.
In `g12_sessions` the clients may ask for the same file or for different ones, the longer
of which, with its empty packet and a window, takes the 5 numbers exactly; its
3 packets make the window slide; a queue of one ACK makes the main thread wait for
each thread. The second client of port b may ask for any of the four files when the
thread of the first is sending, over or dead, with datagrams of the first client still on
their way, and the client of port a is served or not yet heard meanwhile.
What the second client gets is not always a beginning of what it asked
for: `PortKeepsFile` says what it gets instead.

**Fairness.** `SrtpTransfer!Fairness`: a client sends its GET, the idle server
reads a waiting GET, the first unconfirmed packet is sent again (recvfrom waits
100 ms, the timer is 0.5 s) - weak fairness, the programs just run - and of what is
sent again and again, that packet and the ACK of what the client expects are received in
the end - strong fairness, a link that does not lose every copy. Strong fairness of `ServerReset` is used where
the platform reports closed ports: each retransmission to a closed port produces
a report. `LinkSim!Fairness`: the clock advances, the proxy runs, and a send
buffer is not full at every attempt. Nothing is assumed of the GET: the client
sends it once and then waits without a timeout, so a lost GET, or one that
`send_file` reads during another transfer, leaves the client waiting for ever.
`TransferDelivered` therefore starts with the server serving the client.
Without the platform's report a lost final ACK keeps the server in
`send_file`; `ServerFreed` holds only because of that report.

`PeerTransfer!Fairness`: the programs run (weak fairness of a client's timeout, of
reading what has arrived, of a sender's turn), and the oldest unconfirmed packet is
sent again, as its timer runs out again and again (strong fairness, since an ACK
that is read between two turns disables the step and comes back). Of the path: if
that packet is sent for ever, or the ACK of what the client expects, or the GET, is
on its way again and again, it is received again and again. A path that loses
every copy is no path. Nothing is assumed of the empty packet and the final ACK:
group 3 sends the one a bounded number of times and then leaves (`ServerFreed`),
group 2 once.

`G12Sessions!Fairness`: every thread runs (weak fairness: a thread waits for its
queue at most 0.1 s). Of the path, for each port: a GET is read in the end, the
first packet not confirmed reaches the client, and so does the ACK of what the client
expects reach the queue - strong fairness, as these are sent again and again while
they are needed. Nothing is assumed of clients that may be killed: `FirstServed` is about
the others, while the thread of a killed one sends for ever.

## 4. Proofs

`SrtpTransferProofs` proves for every value of the
constants (clients, files, window, faults), from the assumptions in
`SrtpNetwork` and `SrtpServer`:

| Theorem | States | Needs |
|---|---|---|
| `TypeCorrect` | `Spec => []TypeOK` | - |
| `WindowIsFull` | `Spec => []WindowFull` | - |
| `SavedFileIsPrefix`, `EndMeansComplete`, `DuplicatesAreIgnored` | the file's safety | `FitsSeqSpace` |
| `TransferKeepsPromise` | `Spec => KeepsPromise`, the refinement | `FitsSeqSpace` |
| `AcksAreSound`, `BufferIsWithinWindow` | what is confirmed, what is buffered | `FitsSeqSpace`, `SingleClient` |
| `ServerReturnsWhenGone` | the action property | the same, and no abort or stop |
| `AckIndexExact`, `RepeatedAckJumpsATurn` | the arithmetic of `server.py:70-74`, right and wrong cases | - |

`FitsSeqSpace` (fewer packets than sequence numbers) and `SingleClient` are
needed: `wrap_ack` is a counterexample to `AckSound` without the first, and a
foreign ACK one without the second.

*Argument for the file.* `WrittenIsPrefix` is not inductive: nothing in it says
what is in flight or buffered. `FileInv` adds that a DATA in flight carries the
chunk of its number (`InFlight`), that what is buffered is the right chunk and
lies ahead of what is written (`Held`), and that `expected_seqnum` counts the
written chunks (`InStep`). `Delivery` is the heart: from these, one DATA writes
a run of consecutive chunks (`RunStopsAtEnd`, `FirstChunksGrow`) and meets the
empty packet only at the end. The refinement reuses the same step: a client's
step is `Grow` or `GiveUp`, everything else stutters.

*Argument for the window and the ACKs of `send_file`.* `ConfirmedInv` adds that an ACK in
flight says no more than its client has confirmed (`AcksTruthful`), and that
DATA in flight and in the buffer lie within a window of that (`DataInWindow`,
`HeldInWindow`). `AdvanceTruthful`: an ACK advances `last_ack` to its number less
one or not at all, because an old one is mapped beyond the end of the file.

`PeerProofs` and `PeerSavedProofs` prove about the peers, for all pairs of programs, any
window and files of any length, from the assumptions of `PeerPath`, `PeerClients` and
`PeerServers` (the numbers are at least two windows; that the file fits them is
required only where the table says so):

| Theorem | States | Needs |
|---|---|---|
| `WindowNeverCloses` | `Spec => []WindowOpen`: no client of any group ever advertises a window of 0 | - |
| `OldAcksAreHarmless` | `Spec => []OldAcksHarmless`: over any path G12's server confirms only what its client has, and its thread ends only after its client | `FitsNumbers`: at most 1984 chunks with the code's numbers |
| `PeersTyped` | `Spec => []TypeOK` | - |
| `SavesPrefix` | `Spec => []SavedIsPrefix` | a path in order, or `FitsNumbers` (in the property) |
| `AcksAreSound` | `Spec => []AckSound`: every server confirms only what its client has, however often the numbers wrap | a path in order (in the property) |
| `SavesWhole` | `Spec => []SavedIsWhole`, not for the pair of G12 | the same, no silence, and no cut of a GET of group 2 (in the property) |
| `SavesWholeOrNothing` | `Spec => []WholeOrNothing`, for group 2's pair where its GET may be cut | a path in order, and no silence for a client that gives up (in the property) |
| `TruncatesLessThanWindow` | `Spec => []TruncatedByLessThanWindow` | as `SavesPrefix` |
| `PeersKeepPromise` | `Spec => KeepsPromise`, the refinement, for all pairs but G12's own; silence or not | a path in order, and no cut of a GET of group 2 (in the mapping) |
| `G12AckExact` | a new ACK moves G12's `base` to it, an old one nowhere | less than `SeqCount` packets between the ACK and the last packet sent |
| `NewAckExact` | groups 3 and 2 move `base` to a new ACK | the ACK is less than `SeqCount` ahead |
| `OldAckConfirmsTooMuch` | an old ACK confirms for group 3 everything up to `SeqCount` packets ahead of it, for group 2 all that is in flight | the ACK is less than `SeqCount` behind |

*Argument for the window.* `WindowOpen` is not inductive: it does not say why
`len(buffer)` stays below the window. `PeerInv` adds that a client's buffer lies
strictly between `expected` and `expected + RecvWindow` - the packet expected is
never held, because reassembly stops only where one is missing - so at least one
slot of the window is free in every ACK; and that the windows in the path, in
the queue and in the server come from such ACKs.

*Argument for old ACKs.* With `FitsNumbers` no number is used twice, but the
test of `G12/src/server.py:67` computes modulo 2048 all the same. `OldAckInv` adds
what the test depends on: what is on its way to the client are packets of the file
under their own numbers (`FileInv`); the client expects and holds only such
(`HeldInv`; here the window matters: an old DATA must not fall into it after the
wrap); every ACK on its way or queued is of a packet the client has passed, as
`expected` only grows (`ToldInv`); and `base` is at most `expected` (`SentInv`).
`G12AckExact` then says that an ACK moves `base` to its number or not at all.

*Argument for what is saved.* The six programs are first reduced to what their
steps have in common: `ClientStepDoes` says that every step of a client is quiet,
asks, repeats its last ACK, keeps a packet, ends or gives up, and `ServerStepDoes` that
every step of a server drops what it reads, answers, starts, queues, moves `base`,
returns or sends the end again, with `BoundsInv` (at most a window is sent beyond `base`, and
only packets of the file). `TypesInv` adds that what is on its way to the client are
packets of the file and replies to the GET. From there on no proof is about a group.

None of the properties is inductive: whether a number that has been used before
is taken for the right packet depends on everything that is on its way. `SavedInv` is
the invariant; TLC checks its parts on the instance of `peers`, too:

* `ContentInv`: what is held is the chunk of its number, what is saved is the file up to
  `expected`. `KeepsPackets` shows that it stays so when the packet that is read is
  near (`IsNear`): then the test of the window finds its real position
  (`InWindowExact`). In a short file every packet is near; over a path in order
  the rest has to show it.
* `DataInv`, for a path in order: a packet on its way is within a window of `expected`, not a
  window or more behind any that is held, and less than a window ahead of those behind it;
  the end is on its way only to a client that expects it, unless it is G12's
  server that sends it. `DataKept` is the step: the packet read first brings
  `expected` forward, and those behind it are near what is expected then.
  `DataSent` is the other: what a server sends starts at `base`, which is not beyond `expected`.
* `AckInv`: counted from `base`, what the ACKs in the queue and on the path say never
  decreases and never exceeds `expected` (`Says`, `AcksOrdered`). `AcksTaken` moves `base` to what the
  first one says, and `AheadShift` that the others say the same counted from there;
  `ConfirmsSound` is about what each server makes of it.
* `RefusedInv`: where a GET of group 2 may be cut, an empty packet numbered 0 on its way may be
  the answer to it (`Refused`; `DataInv` and `IdleInv` leave such packets out by `IsData`). It is
  never behind a packet of the file, as the server reads no GET once it sends, so it
  reaches a client that expects number 0 still, and has nothing; or it is the true end
  of a file whose length is a multiple of `SeqCount`. So what is saved is a beginning
  of the file even then: `SavesPrefix` and `AcksAreSound` need no exception for cut
  GETs, `SavesWhole` does, and `SavesWholeOrNothing` says what is left of it.
* `StartInv`, `GetInv`, `NextInv`, `IdleInv`, `OverInv`: a repeated GET, which would start the
  server again, is only there as long as nothing is acknowledged, or when all
  has been received; what is received has been sent. `Thinned` covers all that takes from
  a path in order, loss and damage included, `CutChain` a GET that is cut.
* `EndInv` says what is missing when the client ends, and `FitInv`, from `OldAckInv`, that
  G12's server sends nothing a window ahead of its client over any path.

*Argument for the peers' refinement.* `FileTransfer` gets one client for each setup it is
true of (`Promised`), and the behaviour is that of the one that runs; in the others
everything stutters. A client that keeps a packet is `Grow`: by `ContentInv`, before and
after, the file goes from one beginning to a longer one (`ExpectedGrows`). One
that reads the end is `Grow`, too, by nothing: `EndInv` says that it is at the
last chunk already. A client that gives up or fails is `GiveUp`.

`G12SessionsProofs` proves about G12's server with its clients, for all sets of
ports and files and any number of clients on a port, from the assumptions of
`G12Sessions` (the longest file, its empty packet and a window fit in the numbers):

| Theorem | States | Needs |
|---|---|---|
| `SessionsTypeCorrect` | `Spec => []TypeOK` | - |
| `FirstSavesItsFile` | `Spec => []OwnFile` | - |
| `ThreadsHearTheirClient` | `Spec => []OwnAcks` | - |
| `PortNeverChangesFile` | `Spec => []PortKeepsFile` | - |

*Argument for the sessions.* `SessInv` relates, for each port, its clients to its
thread and to what is on its way: what a client holds and saves are chunks of the
thread's file under their own numbers (`Holds`), a DATA on its way carries the
block of its number of that file, and there is none before the thread is there
(`Carries`), an ACK on its way or queued says no more than the first client has
passed (`Told`, in `UpInv` and `QueueInv`), and the GETs of the first client are for its file.
The heart of it is `HoldsNothing` with `ServerGetSess` - the GET that is read first
decides, as nothing was sent to that port before - and `ConfirmsOnly`, by which an ACK
moves `base` to its number or not at all. `ClientMoves` and `ThreadMoves` say once
what a step on one port leaves alone on the others.

`MinQueueProofs`, `HeapProofs` and `LinkProofs` prove about the queue, from the
assumptions of `MinQueueSpec`, and about the proxy, from those of `LinkSim`:

| Theorem | States | Needs |
|---|---|---|
| `HeapTypeCorrect`, `HeapStaysOrdered` | `Spec => []TypeOK`, `Spec => []HeapOrder` | - |
| `HeapIsPriorityQueue` | `Spec => IsPriorityQueue`, the refinement of the bag by the array | - |
| `LinkTypeCorrect` | `Spec => []TypeOK`, no packet queued twice | - |
| `LinkEarlyUnderASecond` | `Spec => []EarlyUnderASecond` | - |
| `LinkBetweenTheTwo` | `Spec => []BetweenTheTwo` | - |
| `LinkLeavesInOrder`, `LinkNeverOversleeps` | the action properties | - |

*Argument for the heap.* `minq_push` and `minq_pop` move values along a path of
slots, which `MinQueue` computes by recursive functions. `CollectsExists` exhibits a
solution of the recursion (the least sets closed under "moves on to"), which makes
the definition mean something, and `CollectsPath` shows, by a slot of least rank
where it would fail, that each set is a path: the start, then each next slot, up
to the first where the loop stops. `PushedLifts` and `PoppedSinks` say where
each value is afterwards. `PushedOrdered` and `PoppedOrdered` need the comparison
to be a total preorder and nothing else; a slot's parent and its sibling are
the cases. `RootLeast` is by a least counterexample: the parent of a slot smaller
than the root is smaller still. `PushedPermutes` and `PoppedPermutes` give a
bijection between the slots before and after, and `SameCount` makes of it that the
bag changes by the one value: nothing is lost or repeated on the way.

*Argument for the proxy.* `BetweenTheTwo` is not inductive: nothing in it says why
a datagram read is not one sent before, nor why the remote party may be set
when packets are in the queue. `LinkInv` adds that the datagrams at the socket are numbered
consecutively and those queued or sent have lower numbers (`InboxInv`, `Taken`),
that nothing is queued or sent before there is a remote party (`SlotOK`,
`SentOK`), that a slot's date in ticks is when it is due although its microseconds may
be as many as those of two seconds (`ExpiryTicks`), and that the queue is a heap
of distinct packets (`Heap`). `HeapPushed` and `HeapPopped` carry the heap's lemmas
over to the set of slots, for the comparison by `timeval_cmp` (`SlotsCompared`).
`LaterTicks` is the heart of `EarlyUnderASecond` (a packet may leave early, but only
within the second it is due in): a clock that is not before a date by its seconds
has at least begun the date's second; if it is before the date it is in that
second. `TimeoutBound` goes through the cases of `timeval_diff`'s borrow, the
one it gets wrong included.

`PacketCodecProofs` proves about the codecs, from the assumptions of `PacketCodec`
(the layout is that of the code with fields of any width; the CRC sees the change of
one byte):

| Theorem | States | Needs |
|---|---|---|
| `IntactAcceptedTheorem` | `Spec => []IntactAccepted` | - |
| `DamageRejectedTheorem` | `Spec => []DamageRejected` | - |
| `AcceptedRepacksTheorem` | `Spec => []AcceptedRepacks` | - |

*Argument for the codec.* The conversions between numbers and bytes are recursive
functions over the number of bytes. `UpToUnique` and `RecursionExists` give such a
definition its meaning, and `Induction` (a failing number, then a least one,
`LeastNumber`) stands in for the induction theorems of the library, which the
installed provers cannot use. `NumberOfBytes` and `BytesOfNumber` then say that
the two conversions are inverse to each other, and `LineRead` and `ReadMakesLine` the
same of the fields of the first line: `div` and `%` by the widths take out what the
nested sums or the shifts have put in. `CodecInv` says what is on the wire: what a
group has sent (`EncodedIs`), that with one byte inverted, its first `MinPacket` bytes,
or anything. `IntactRead`, `InvertedRejected` and `CutRejected` are about the
decoders' common conditions, for each place where the byte may be:
in the header or CRC1, where CRC1 sees it, even when the length changes with it,
and in the payload or CRC2, which the intact header locates. `AcceptedRead` goes
the other way: from what a decoder has verified to the bytes pack would have sent.

Only model-checked: liveness (`TransferDelivered`, `ServerFreed`, `QueueDrains`,
`Answered`, `ChunksDelivered`, `FirstServed`), which with fairness and ENABLED is out of the
prover's reach. Every other property of the passing runs is proved.

## 5. Not modelled

The example binaries (no source), the data files and reports; argument and URL
parsing, socket set-up and logging; of the peers: several clients of group 2's or 3's server
(one thread each, which serves one client at a time), the socket errors that
end group 2's programs, group 3's check of the path (a refused request is not
answered), and any relation of the timers beyond `Silent`;
`Packet.__str__`; SACK (never sent by these programs, read like an ACK); failure of
`malloc` at start, `EINTR` in `select`. On platforms whose `select` refuses a
`tv_usec` above 999999 the non-normalised timeouts would end the proxy; Linux
normalises them and that is what is modelled. That `send_file` may raise after
having sent some of its packets is covered by the loss of the others.

## 6. Plan

Done: the transfer (network, server, client, composition, promise, proofs), the
codecs, the queue, the link simulator, the other groups' programs, G12's server
with several clients and clients that return.

Left:

1. `SrtpWrap`: what still works beyond 2047 packets (a link that neither
   reorders nor duplicates), as a positive result beside `wrap_ack`.
2. The pairs of the programs of `projet1_lai_zhang` with the peers.
3. The transfer through `LinkSim` as a component: the proxy implements
   `SrtpNetwork`'s path for one client (refinement).
