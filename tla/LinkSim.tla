------------------------------ MODULE LinkSim ------------------------------
(***************************************************************************)
(* link_sim.c: the UDP proxy that loses, cuts, corrupts and delays the     *)
(* datagrams between a remote party and the host it proxies (dest_addr).   *)
(* It is one thread: proxy_loop waits in select for a datagram or for the  *)
(* first delay to expire, delivers the delayed packets that are due and    *)
(* then reads one datagram.                                                *)
(*                                                                         *)
(* Time is in ticks of 1ms, Second ticks to the second; a struct timeval   *)
(* is a pair of seconds and ticks, as in the code not always normalised.   *)
(***************************************************************************)
EXTENDS Integers, Sequences, FiniteSets

CONSTANTS
    Dest,           \* the address of the proxied host
    Others,         \* the addresses of the parties that write to the proxy
    Second,         \* ticks in a second (1000 in the code)
    Delays,         \* what -d may give: the delay, in ticks
    Jitter,         \* the option -j, in ticks
    Rates,          \* the options -l, -c and -e that are not 0
    LinkDirection,  \* the options -r and -R: the directions simulated
    Kinds,          \* the datagrams that reach the proxy, see DatagramKinds
    Trouble,        \* what goes wrong in this instance, see TroubleKinds
    MaxDatagrams,   \* bound: datagrams that reach the proxy
    LastArrival,    \* bound: the tick after which none does
    MaxTime         \* bound: the last tick, which stands for every later one

RateKinds == {"loss", "cut", "err"}
\* short: under 12 bytes; header: an ACK or an empty DATA; data: with a payload.
\* ("damaged" is a kind too, of what the proxy has cut or corrupted.)
DatagramKinds == {"short", "header", "data"}
\* wouldblock: sendto finds the send buffer full; error: it fails for good;
\* early: the proxied host writes to the proxy before any remote party does.
TroubleKinds == {"wouldblock", "error", "early"}

\* src_addr as long as there is no remote party, wake if select has no timeout.
Nobody == "nobody"
Never == -1

ASSUME PartiesAssumption == Dest \notin Others /\ Nobody \notin Others \cup {Dest}
ASSUME TimesAssumption ==
    /\ Second \in Nat \ {0} /\ Delays \subseteq Nat /\ Jitter \in Nat
    /\ MaxDatagrams \in Nat /\ LastArrival \in Nat /\ MaxTime \in Nat
ASSUME OptionsAssumption ==
    /\ Rates \subseteq RateKinds
    /\ LinkDirection \in (SUBSET {"forward", "reverse"}) \ {{}}
    /\ Kinds \subseteq DatagramKinds
    /\ Trouble \subseteq TroubleKinds

VARIABLES
    delay,          \* the option -d of this run of the program
    now,            \* the time
    last_clock,     \* when update_time last read it, a timeval
    pc,             \* where proxy_loop is: select, deliver, process, crashed
    wake,           \* when select times out, Never if it has no timeout
    readable,       \* whether select found a datagram to read
    inbox,          \* datagrams at the socket
    queue,          \* pkt_queue, a heap of slots (due: the date they should leave)
    src_addr,       \* the remote party, Nobody as long as there is none
    sent,           \* the datagrams sent, with the time they left
    arrived         \* how many datagrams have reached the proxy

vars == <<delay, now, last_clock, pc, wake, readable, inbox, queue, src_addr, sent, arrived>>

-----------------------------------------------------------------------------
\* Mutant of Timeval: the seconds are counted in both fields.
TimevalUnreduced(t) == [sec |-> t \div Second, usec |-> t]

Timeval(t) == [sec |-> t \div Second, usec |-> t % Second]

\* timeval_cmp: left > right
Later(left, right) ==
    IF left.sec = right.sec THEN left.usec > right.usec ELSE left.sec > right.sec

\* Mutant of Difference: what is borrowed is not taken off the seconds.
DifferenceUnborrowed(a, b) ==
    LET usec == a.usec - b.usec
    IN  [sec |-> a.sec - b.sec, usec |-> IF usec < 0 THEN usec + Second ELSE usec]

\* timeval_diff
Difference(a, b) ==
    LET sec == a.sec - b.sec
        usec == a.usec - b.usec
    IN  IF usec >= 0 THEN [sec |-> sec, usec |-> usec]
        ELSE IF sec - 1 # 0 THEN [sec |-> sec - 1, usec |-> usec + Second]
        ELSE [sec |-> sec - 1, usec |-> usec]

\* Mutant of SlotAfter: only the seconds are compared.
SlotAfterBySeconds(a, b) == a.ts.sec > b.ts.sec

\* pkt_slot_cmp
SlotAfter(a, b) == Later(a.ts, b.ts)

Q == INSTANCE MinQueue WITH Greater <- SlotAfter

\* get_queue_timeout, for a queue that is not empty.
QueueTimeout(q, clock) ==
    LET left == Difference(Q!Peek(q).ts, clock)
    IN  IF left.sec < 0 \/ (left.sec = 0 /\ left.usec <= 0)
        THEN [sec |-> 0, usec |-> 1] ELSE left

Ticks(tv) == tv.sec * Second + tv.usec

\* The delays simulate_link may draw.
AppliedDelays ==
    {d % (10 * Second) : d \in
        IF Jitter = 0 THEN {delay}
        ELSE IF Jitter > delay THEN 0 .. delay + Jitter - 1
        ELSE delay - Jitter .. delay + Jitter - 1}

\* Mutant of Expiry: whole seconds of the delay are forgotten.
ExpiryWithinSecond(clock, d) ==
    [sec |-> clock.sec, usec |-> clock.usec + (d % Second)]

\* The expiration date of a packet delayed by d.
Expiry(clock, d) ==
    [sec |-> clock.sec + (d \div Second), usec |-> clock.usec + (d % Second)]

-----------------------------------------------------------------------------
Init ==
    /\ delay \in Delays
    /\ now = 0 /\ last_clock = Timeval(0)
    /\ pc = "select" /\ wake = Never /\ readable = FALSE
    /\ inbox = <<>> /\ queue = Q!NoItems
    /\ src_addr = Nobody
    /\ sent = {} /\ arrived = 0

\* Within the bounds any step may take any time, so that the proxy may be slow;
\* after LastArrival it reads what it has received before time goes on.
Tick ==
    /\ now < MaxTime
    /\ now >= LastArrival => inbox = <<>> /\ pc \in {"select", "crashed"}
    /\ now' = now + 1
    /\ UNCHANGED <<delay, last_clock, pc, wake, readable, inbox, queue, src_addr, sent, arrived>>

\* A datagram reaches the socket: from a remote party, or from the proxied
\* host, which has nobody to answer before the first of these.
Arrive(from, kind) ==
    /\ arrived < MaxDatagrams /\ now <= LastArrival
    /\ from = Dest => src_addr # Nobody \/ "early" \in Trouble
    /\ arrived' = arrived + 1
    /\ inbox' = Append(inbox, [id |-> arrived', from |-> from, kind |-> kind])
    /\ UNCHANGED <<delay, now, last_clock, pc, wake, readable, queue, src_addr, sent>>

-----------------------------------------------------------------------------
\* proxy_loop goes back to select, with q queued.
Wait(q) ==
    /\ pc' = "select"
    /\ wake' = IF Q!Size(q) = 0 THEN Never ELSE now + Ticks(QueueTimeout(q, last_clock))

\* select returns, and update_time reads the clock.
Select ==
    /\ pc = "select"
    /\ inbox # <<>> \/ (wake # Never /\ (now >= wake \/ now = MaxTime))
    /\ readable' = (inbox # <<>>)
    /\ last_clock' = Timeval(now)
    /\ pc' = "deliver"
    /\ UNCHANGED <<delay, now, wake, inbox, queue, src_addr, sent, arrived>>

AddressOf(direction, src) == IF direction = "forward" THEN Dest ELSE src

\* write_out: p leaves now; due is when it should.
Send(p, kind, to, due) ==
    sent' = sent \cup {[id |-> p.id, from |-> p.from, kind |-> kind,
                        to |-> to, due |-> due, at |-> now]}

Due == Q!Size(queue) > 0 /\ Later(last_clock, Q!Peek(queue).ts)

\* deliver_delayed_pkt sends the first packet of the queue.
Deliver ==
    /\ pc = "deliver" /\ Due
    /\ LET p == Q!Peek(queue) IN Send(p, p.kind, AddressOf(p.direction, src_addr), p.due)
    /\ queue' = Q!Popped(queue)
    /\ UNCHANGED <<delay, now, last_clock, pc, wake, readable, inbox, src_addr, arrived>>

\* Mutant of DeliverFails: the packet is dequeued before it is known to be sent.
DeliverFailsDequeued ==
    /\ pc = "deliver" /\ Due
    /\ \/ "wouldblock" \in Trouble /\ pc' = "process"
       \/ "error" \in Trouble /\ pc' = "crashed"
    /\ queue' = Q!Popped(queue)
    /\ UNCHANGED <<delay, now, last_clock, wake, readable, inbox, src_addr, sent, arrived>>

\* Its sendto fails: for now, and the packet stays queued, or for good.
DeliverFails ==
    /\ pc = "deliver" /\ Due
    /\ \/ "wouldblock" \in Trouble /\ pc' = "process"
       \/ "error" \in Trouble /\ pc' = "crashed"
    /\ UNCHANGED <<delay, now, last_clock, wake, readable, inbox, queue, src_addr, sent, arrived>>

Delivered ==
    /\ pc = "deliver" /\ ~ Due
    /\ pc' = "process"
    /\ UNCHANGED <<delay, now, last_clock, wake, readable, inbox, queue, src_addr, sent, arrived>>

-----------------------------------------------------------------------------
\* Mutant of Direction: whoever is not the remote party is taken for the host.
DirectionUnchecked(from, src) == IF from = src THEN "forward" ELSE "reverse"

\* The direction process_incoming_pkt gives a datagram, once src is known.
Direction(from, src) ==
    IF from = src THEN "forward" ELSE IF from = Dest THEN "reverse" ELSE "alien"

\* process_incoming_pkt reads the first datagram, d.  The first party heard
\* becomes the remote party, unless what it sent is too short.
Read(d) ==
    /\ pc = "process" /\ readable
    /\ d = Head(inbox)
    /\ inbox' = Tail(inbox)
    /\ src_addr' = IF src_addr = Nobody /\ d.kind # "short" THEN d.from ELSE src_addr
    /\ UNCHANGED <<delay, now, last_clock, readable, arrived>>

Simulated(d) == Direction(d.from, src_addr') \in LinkDirection
Relayed(d) == Direction(d.from, src_addr') \in {"forward", "reverse"} \ LinkDirection

\* What simulate_link may make of a datagram it does not lose.
Damages(kind) ==
    {kind} \cup {k \in {"damaged"} : "err" \in Rates \/ ("cut" \in Rates /\ kind = "data")}

NothingToRead ==
    /\ pc = "process" /\ ~ readable
    /\ Wait(queue)
    /\ UNCHANGED <<delay, now, last_clock, readable, inbox, queue, src_addr, sent, arrived>>

\* Too short, from a party that is neither of the two, or lost on the link.
Drop(d) ==
    /\ Read(d)
    /\ \/ d.kind = "short"
       \/ Direction(d.from, src_addr') = "alien"
       \/ Simulated(d) /\ "loss" \in Rates
    /\ Wait(queue)
    /\ UNCHANGED <<queue, sent>>

\* Sent at once: not in a simulated direction, or with no delay to add.
Forward(d) ==
    /\ Read(d)
    /\ d.kind # "short"
    /\ LET to == AddressOf(Direction(d.from, src_addr'), src_addr')
       IN  \/ Relayed(d) /\ Send(d, d.kind, to, now)
           \/ /\ Simulated(d) /\ delay = 0
              /\ \E kind \in Damages(d.kind) : Send(d, kind, to, now)
    /\ Wait(queue)
    /\ UNCHANGED queue

\* Kept for applied ticks, from the clock of this turn of the loop.
Hold(d, applied) ==
    /\ Read(d)
    /\ d.kind # "short" /\ Simulated(d) /\ delay > 0
    /\ \E kind \in Damages(d.kind) :
         queue' = Q!Pushed(queue,
            [id |-> d.id, from |-> d.from, kind |-> kind,
             direction |-> Direction(d.from, src_addr'),
             ts |-> Expiry(last_clock, applied), due |-> Ticks(last_clock) + applied])
    /\ Wait(queue')
    /\ UNCHANGED sent

\* sendto fails, even for want of room only, or there is no memory for a slot:
\* proxy_loop is left and the program ends, with what is in pkt_queue.
Crash(d) ==
    /\ Read(d)
    /\ d.kind # "short"
    /\ \/ "error" \in Trouble /\ (Relayed(d) \/ Simulated(d))
       \/ "wouldblock" \in Trouble /\ (Relayed(d) \/ (Simulated(d) /\ delay = 0))
    /\ pc' = "crashed"
    /\ UNCHANGED <<wake, queue, sent>>

Process ==
    \/ NothingToRead
    \/ \E d \in {inbox[i] : i \in DOMAIN inbox} :
         Drop(d) \/ Forward(d) \/ Crash(d) \/ \E applied \in AppliedDelays : Hold(d, applied)

Loop == Select \/ Deliver \/ DeliverFails \/ Delivered \/ Process

Next == Tick \/ (\E from \in Others \cup {Dest}, kind \in Kinds : Arrive(from, kind)) \/ Loop

Spec == Init /\ [][Next]_vars

(***************************************************************************)
(* The clock advances and the proxy runs; a send buffer that is full now   *)
(* and then does not stay full.                                            *)
(***************************************************************************)
Fairness == WF_vars(Tick) /\ WF_vars(Loop) /\ SF_vars(Deliver)

FairSpec == Spec /\ Fairness
-----------------------------------------------------------------------------
Slots == {queue[i] : i \in DOMAIN queue}

TypeOK ==
    /\ now \in 0 .. MaxTime
    /\ last_clock.usec \in 0 .. Second - 1 /\ Ticks(last_clock) <= now
    /\ pc \in {"select", "deliver", "process", "crashed"}
    /\ src_addr \in Others \cup {Dest, Nobody}
    /\ \A p \in Slots : p.direction \in LinkDirection /\ p.ts.usec \in 0 .. 2 * Second - 1
    /\ Cardinality(Slots) = Q!Size(queue)

(***************************************************************************)
(* link_sim.c:231: a packet's expiration date is the current date plus its *)
(* delay.  No packet leaves before the delay it was given is over.         *)
(***************************************************************************)
NotEarly == \A p \in sent : p.at >= p.due

(***************************************************************************)
(* link_sim.c:221-234 does not carry the microseconds of a date into its   *)
(* seconds, so a packet may leave early, but only within the second it is  *)
(* due in: never before that second has begun, hence early by less than a  *)
(* second.                                                                 *)
(***************************************************************************)
EarlyUnderASecond ==
    \A p \in sent : p.at > p.due - Second /\ (p.at < p.due => p.at \div Second = p.due \div Second)

(***************************************************************************)
(* Packets leave by their expiration dates: whatever was pushed in what    *)
(* order, no packet that stays queued has an earlier date than one that    *)
(* leaves.                                                                 *)
(***************************************************************************)
LeavesInOrder ==
    [][\A p \in Slots : p \notin Slots' => \A r \in Slots' : ~ Later(p.ts, r.ts)]_vars

(***************************************************************************)
(* What is sent goes from the one to the other of the two parties of the   *)
(* connection, the proxied host and the first party heard, and each        *)
(* datagram at most once.  (If the host itself is heard first it gets its  *)
(* own datagrams back, and the proxy serves nobody else.)                  *)
(***************************************************************************)
BetweenTheTwo ==
    /\ \A p \in sent : {p.from, p.to} = {src_addr, Dest}
    /\ \A p, r \in sent : p.id = r.id => p = r
    /\ \A p \in sent, r \in Slots : p.id # r.id

(***************************************************************************)
(* select is never told to sleep for longer than what the clock of this    *)
(* turn leaves of the first delay (or one tick): where timeval_diff does   *)
(* not carry, the timeout is only too short.                               *)
(***************************************************************************)
NeverOversleeps ==
    [][pc # "select" /\ pc' = "select" /\ Q!Size(queue') > 0 =>
         LET left == Ticks(Q!Peek(queue').ts) - Ticks(last_clock)
         IN  wake' - now \in 1 .. (IF left > 1 THEN left ELSE 1)]_vars

(***************************************************************************)
(* Every packet that is queued leaves, even if the send buffer is full at  *)
(* times and whatever the timeouts computed for select.                    *)
(***************************************************************************)
QueueDrains ==
    \A i \in 1 .. MaxDatagrams :
      (\E p \in Slots : p.id = i) ~> (\E p \in sent : p.id = i) \/ pc = "crashed"
=============================================================================
