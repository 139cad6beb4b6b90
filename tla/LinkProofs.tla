----------------------------- MODULE LinkProofs -----------------------------
(***************************************************************************)
(* Proofs about the link simulator, for all parties, options, delays and   *)
(* numbers of datagrams.                                                   *)
(***************************************************************************)
EXTENDS LinkSim, TLAPS, FiniteSetTheorems, SequenceTheorems

P == INSTANCE MinQueueProofs WITH Greater <- SlotAfter

\* Q and P instantiate the same functions.
LEMMA SameSize == \A q : Q!Size(q) = Cardinality(DOMAIN q) /\ Q!Peek(q) = P!Peek(q)
BY Zenon DEF Q!Size, Q!Cardinality, Cardinality, Q!Peek, P!Peek

LEMMA SamePush ==
    ASSUME NEW q, NEW v
    PROVE  Q!Pushed(q, v) = P!Pushed(q, v)
BY DEF Q!Pushed, P!Pushed, Q!Lifted, P!Lifted, Q!Parent, P!Parent, Q!Size, P!Size,
       Q!Cardinality, P!Cardinality

LEMMA SamePop ==
    ASSUME NEW q
    PROVE  Q!Popped(q) = P!Popped(q)
BY DEF Q!Popped, P!Popped, Q!NoItems, P!NoItems, Q!Sunk, P!Sunk, Q!MinChild, P!MinChild,
       Q!Size, P!Size, Q!Cardinality, P!Cardinality

-----------------------------------------------------------------------------
(***************************************************************************)
(* The slots of the queue.  The microseconds of a date are those of a      *)
(* clock and of a delay, added without a carry.                            *)
(***************************************************************************)
Parties == Others \cup {Dest}
Clocks == [sec : Nat, usec : 0 .. Second - 1]
Dates == [sec : Nat, usec : 0 .. 2 * Second - 2]
AllKinds == DatagramKinds \cup {"damaged"}
SlotSet == [id : Nat, from : Parties, kind : AllKinds, direction : LinkDirection,
            ts : Dates, due : Nat]

Values(q) == {q[i] : i \in DOMAIN q}

Heap(q) ==
    \E n \in Nat : /\ q \in [0 .. n - 1 -> SlotSet]
                   /\ P!Ordered(q)
                   /\ \A i, j \in 0 .. n - 1 : q[i].id = q[j].id => i = j

LEMMA SecondType == Second \in Nat /\ Second >= 1
BY TimesAssumption

\* pkt_slot_cmp compares dates, all of them.
LEMMA SlotsCompared == P!TotalPreorder(SlotSet)
<1>1. \A a, b \in Dates : Later(a, b) => ~ Later(b, a)
  BY SecondType DEF Dates, Later
<1>2. \A a, b, c \in Dates : ~ Later(a, b) /\ ~ Later(b, c) => ~ Later(a, c)
  BY SecondType DEF Dates, Later
<1>3. \A a \in SlotSet : a.ts \in Dates
  BY DEF SlotSet
<1> QED
  BY <1>1, <1>2, <1>3 DEF P!TotalPreorder, SlotAfter

LEMMA HeapPushed ==
    ASSUME NEW q, Heap(q), NEW v \in SlotSet, \A p \in Values(q) : p.id # v.id
    PROVE  Heap(Q!Pushed(q, v)) /\ Values(Q!Pushed(q, v)) = Values(q) \cup {v}
<1> DEFINE r == P!Pushed(q, v)
<1>1. PICK n \in Nat : /\ q \in [0 .. n - 1 -> SlotSet] /\ P!Ordered(q)
                      /\ \A i, j \in 0 .. n - 1 : q[i].id = q[j].id => i = j
  BY DEF Heap
<1>2. r \in [0 .. n -> SlotSet] /\ P!Ordered(r)
  BY <1>1, SlotsCompared, P!PushedOrdered
<1> DEFINE w == [i \in 0 .. n |-> IF i = n THEN v ELSE q[i]]
<1>3. PICK m \in P!Bijection(0 .. n, 0 .. n) : \A i \in 0 .. n : r[i] = w[m[i]]
  BY <1>1, P!PushedPermutes DEF P!With
<1> HIDE DEF r
<1>4. /\ m \in [0 .. n -> 0 .. n]
      /\ \A i, j \in 0 .. n : m[i] = m[j] => i = j
      /\ \A t \in 0 .. n : \E i \in 0 .. n : m[i] = t
  BY DEF P!Bijection, P!Injection, P!IsInjective, P!Surjection
<1>5. \A i, j \in 0 .. n : w[i].id = w[j].id => i = j
  <2>1. \A i \in 0 .. n - 1 : q[i].id # v.id
    BY <1>1 DEF Values
  <2>2. \A i \in 0 .. n : i \in 0 .. n - 1 \/ i = n
    OBVIOUS
  <2> QED
    BY <1>1, <2>1, <2>2
<1>6. Values(r) = {w[i] : i \in 0 .. n}
  <2>1. Values(r) = {r[i] : i \in 0 .. n}
    BY <1>2 DEF Values
  <2> HIDE DEF w
  <2>2. \A i \in 0 .. n : m[i] \in 0 .. n /\ r[i] = w[m[i]]
    BY <1>3, <1>4
  <2>3. \A t \in 0 .. n : \E i \in 0 .. n : r[i] = w[t]
    <3>1. SUFFICES ASSUME NEW t \in 0 .. n
                   PROVE  \E i \in 0 .. n : r[i] = w[t]
      OBVIOUS
    <3>2. PICK i \in 0 .. n : m[i] = t
      BY <1>4
    <3>3. r[i] = w[t]
      BY <2>2, <3>2
    <3> QED
      BY <3>3
  <2>4. \A x : x \in {r[i] : i \in 0 .. n} <=> x \in {w[i] : i \in 0 .. n}
    <3>1. ASSUME NEW x \in {r[i] : i \in 0 .. n}
          PROVE  x \in {w[i] : i \in 0 .. n}
      BY <2>2
    <3>2. ASSUME NEW x \in {w[i] : i \in 0 .. n}
          PROVE  x \in {r[i] : i \in 0 .. n}
      BY <2>3
    <3> QED
      BY <3>1, <3>2
  <2> QED
    BY <2>1, <2>4
<1>7. {w[i] : i \in 0 .. n} = Values(q) \cup {v}
  <2>1. \A i \in 0 .. n : w[i] = IF i = n THEN v ELSE q[i]
    OBVIOUS
  <2>2. \A i : i \in 0 .. n <=> i \in 0 .. n - 1 \/ i = n
    OBVIOUS
  <2>3. Values(q) = {q[i] : i \in 0 .. n - 1}
    BY <1>1 DEF Values
  <2>4. n \notin 0 .. n - 1
    OBVIOUS
  <2> HIDE DEF w
  <2> QED
    BY <2>1, <2>2, <2>3, <2>4
<1> HIDE DEF w
<1>8. \A i, j \in 0 .. (n + 1) - 1 : r[i].id = r[j].id => i = j
  <2>1. SUFFICES ASSUME NEW i \in 0 .. n, NEW j \in 0 .. n, r[i].id = r[j].id
                 PROVE  i = j
    OBVIOUS
  <2>2. m[i] \in 0 .. n /\ m[j] \in 0 .. n
    BY <1>4
  <2>3. r[i] = w[m[i]] /\ r[j] = w[m[j]]
    BY <1>3
  <2>4. m[i] = m[j]
    BY <1>5, <2>1, <2>2, <2>3
  <2> QED
    BY <1>4, <2>4
<1>9. Heap(r)
  <2>1. n + 1 \in Nat /\ r \in [0 .. (n + 1) - 1 -> SlotSet]
    BY <1>2
  <2> QED
    BY <1>2, <1>8, <2>1 DEF Heap
<1> QED
  BY <1>6, <1>7, <1>9, SamePush DEF r

LEMMA HeapPopped ==
    ASSUME NEW q, Heap(q), Q!Size(q) > 0
    PROVE  /\ Heap(Q!Popped(q))
           /\ Q!Peek(q) \in Values(q)
           /\ Values(Q!Popped(q)) = Values(q) \ {Q!Peek(q)}
           /\ \A p \in Values(q) : ~ SlotAfter(Q!Peek(q), p)
<1> DEFINE r == P!Popped(q)
<1>1. PICK k \in Nat : /\ q \in [0 .. k - 1 -> SlotSet] /\ P!Ordered(q)
                      /\ \A i, j \in 0 .. k - 1 : q[i].id = q[j].id => i = j
  BY DEF Heap
<1>2. k # 0
  <2>1. Cardinality({}) = 0
    BY FS_EmptySet
  <2>2. SUFFICES ASSUME k = 0
                 PROVE  FALSE
    OBVIOUS
  <2>3. DOMAIN q = {}
    BY <1>1, <2>2
  <2> QED
    BY <2>1, <2>3, SameSize
<1> DEFINE n == k - 1
<1>3. /\ n \in Nat /\ q \in [0 .. n -> SlotSet] /\ P!Ordered(q)
      /\ \A i, j \in 0 .. n : q[i].id = q[j].id => i = j
  BY <1>1, <1>2
<1> HIDE DEF n
<1>4. r \in [0 .. n - 1 -> SlotSet] /\ P!Ordered(r)
  BY <1>3, SlotsCompared, P!PoppedOrdered
<1>5. PICK m \in P!Bijection(0 .. n - 1, 1 .. n) : \A i \in 0 .. n - 1 : r[i] = q[m[i]]
  BY <1>3, P!PoppedPermutes
<1>6. \A i \in 0 .. n : ~ SlotAfter(P!Peek(q), q[i])
  BY <1>3, SlotsCompared, P!RootLeast
<1> HIDE DEF r
<1>7. /\ m \in [0 .. n - 1 -> 1 .. n]
      /\ \A i, j \in 0 .. n - 1 : m[i] = m[j] => i = j
      /\ \A t \in 1 .. n : \E i \in 0 .. n - 1 : m[i] = t
  BY DEF P!Bijection, P!Injection, P!IsInjective, P!Surjection
<1>8. Heap(r)
  <2>1. \A i \in 0 .. n - 1 : m[i] \in 0 .. n
    BY <1>3, <1>7
  <2>2. \A i, j \in 0 .. n - 1 : r[i].id = r[j].id => i = j
    BY <1>3, <1>5, <1>7, <2>1
  <2> QED
    BY <1>3, <1>4, <2>2 DEF Heap
<1>9. Values(r) = {q[i] : i \in 1 .. n}
  <2>1. Values(r) = {r[i] : i \in 0 .. n - 1}
    BY <1>4 DEF Values
  <2> QED
    BY <1>5, <1>7, <2>1
<1>10. Values(q) = {q[i] : i \in 0 .. n} /\ P!Peek(q) = q[0] /\ 0 \in 0 .. n
  BY <1>3 DEF Values, P!Peek
<1>11. {q[i] : i \in 1 .. n} = Values(q) \ {q[0]}
  <2>1. \A i : i \in 0 .. n <=> i \in 1 .. n \/ i = 0
    BY <1>3
  <2>2. \A i \in 1 .. n : i # 0 /\ i \in 0 .. n
    BY <1>3
  <2> QED
    BY <1>3, <1>10, <2>1, <2>2
<1>12. r = Q!Popped(q) /\ Q!Peek(q) = q[0]
  BY <1>10, SamePop, SameSize DEF r
<1> QED
  BY <1>6, <1>8, <1>9, <1>10, <1>11, <1>12

\* As many slots as the heap has.
LEMMA HeapSize ==
    ASSUME NEW q, Heap(q)
    PROVE  Q!Size(q) \in Nat /\ Cardinality(Values(q)) = Q!Size(q)
<1>1. PICK n \in Nat : /\ q \in [0 .. n - 1 -> SlotSet]
                      /\ \A i, j \in 0 .. n - 1 : q[i].id = q[j].id => i = j
  BY DEF Heap
<1> DEFINE S == 0 .. n - 1
<1>2. IsFiniteSet(S) /\ Cardinality(S) = n
  BY <1>1, FS_Interval
<1>3. DOMAIN q = S /\ Values(q) = {q[i] : i \in S}
      /\ \A i, j \in S : q[i] = q[j] => i = j
  BY <1>1 DEF Values
<1> HIDE DEF S
<1>4. q \in [S -> Values(q)] /\ q = [i \in S |-> q[i]]
  BY <1>1, <1>3 DEF S
<1>5. q \in Bijection(S, Values(q))
  BY <1>3, <1>4 DEF Bijection, Injection, IsInjective, Surjection
<1>6. ExistsBijection(S, Values(q))
  BY <1>5 DEF ExistsBijection
<1>7. Cardinality(Values(q)) = n
  BY <1>2, <1>6, FS_Bijection
<1> QED
  BY <1>2, <1>3, <1>7, SameSize

-----------------------------------------------------------------------------
(***************************************************************************)
(* The clock and the dates.                                                *)
(***************************************************************************)
LEMMA TimevalTicks ==
    ASSUME NEW t \in Nat
    PROVE  Timeval(t) \in Clocks /\ Ticks(Timeval(t)) = t
<1>1. t = Second * (t \div Second) + (t % Second) /\ t \div Second \in Nat
      /\ t % Second \in 0 .. Second - 1
  BY SecondType
<1>2. Second * (t \div Second) = (t \div Second) * Second
  BY <1>1, SecondType
<1> QED
  BY <1>1, <1>2 DEF Timeval, Clocks, Ticks

LEMMA ExpiryTicks ==
    ASSUME NEW clock \in Clocks, NEW d \in Nat
    PROVE  Expiry(clock, d) \in Dates /\ Ticks(Expiry(clock, d)) = Ticks(clock) + d
<1> DEFINE a == d \div Second
           b == d % Second
<1>1. d = Second * a + b /\ a \in Nat /\ b \in 0 .. Second - 1
  BY SecondType
<1>2. clock.sec \in Nat /\ clock.usec \in 0 .. Second - 1
  BY DEF Clocks
<1>3. Expiry(clock, d) = [sec |-> clock.sec + a, usec |-> clock.usec + b]
  BY DEF Expiry
<1> HIDE DEF a, b
<1>4. (clock.sec + a) * Second = clock.sec * Second + Second * a
  BY <1>1, <1>2, SecondType
<1>5. clock.usec + b \in 0 .. 2 * Second - 2 /\ clock.sec + a \in Nat
  BY <1>1, <1>2, SecondType
<1>6. clock.sec * Second \in Nat /\ Second * a \in Nat
  BY <1>1, <1>2, SecondType
<1> QED
  BY <1>1, <1>2, <1>3, <1>4, <1>5, <1>6 DEF Dates, Ticks

\* What a delay may become is a number of ticks.
LEMMA AppliedType == ASSUME delay \in Nat
                     PROVE  AppliedDelays \subseteq Nat
<1>1. \A d \in Int : d % (10 * Second) \in Nat
  BY SecondType
<1>2. Jitter \in Nat
  BY TimesAssumption
<1> QED
  BY <1>1, <1>2 DEF AppliedDelays

\* A packet with this date, sent at this time, is early within the second it is due in
\* only, hence by under a second.
OnTime(p) ==
    p.at > p.due - Second /\ (p.at < p.due => p.at \div Second = p.due \div Second)

\* What the comparison of two timevals means in ticks.
LEMMA LaterTicks ==
    ASSUME NEW clock \in Clocks, NEW ts \in Dates, Later(clock, ts),
           NEW at \in Nat, at >= Ticks(clock)
    PROVE  /\ at > Ticks(ts) - Second
           /\ at < Ticks(ts) => at \div Second = Ticks(ts) \div Second
<1> DEFINE S == Second
           x == clock.sec * S
           y == ts.sec * S
<1>1. S \in Nat /\ S >= 1
  BY SecondType
<1>2. clock.sec \in Nat /\ clock.usec \in 0 .. S - 1 /\ ts.sec \in Nat
      /\ ts.usec \in 0 .. 2 * S - 2
  BY DEF Clocks, Dates
<1>3. x \in Nat /\ y \in Nat
  BY <1>1, <1>2
<1>4. Ticks(clock) = x + clock.usec /\ Ticks(ts) = y + ts.usec
  BY DEF Ticks
<1>5. CASE clock.sec = ts.sec
  <2>1. x = y /\ clock.usec > ts.usec
    BY <1>5 DEF Later
  <2> HIDE DEF x, y, S
  <2> QED
    BY <1>1, <1>2, <1>3, <1>4, <2>1 DEF S
<1>6. CASE clock.sec # ts.sec
  <2>1. clock.sec >= ts.sec + 1
    BY <1>2, <1>6 DEF Later
  <2>2. x >= y + S
    <3> DEFINE k == clock.sec - ts.sec - 1
    <3>1. k \in Nat /\ clock.sec = ts.sec + 1 + k
      BY <1>2, <2>1
    <3> HIDE DEF k
    <3>2. x = y + S + k * S /\ k * S \in Nat
      BY <1>1, <1>2, <3>1
    <3> QED
      BY <1>1, <1>3, <3>2
  <2> HIDE DEF x, y
  <2>3. at > Ticks(ts) - Second
    BY <1>1, <1>2, <1>3, <1>4, <2>2 DEF S
  <2>4. ASSUME at < Ticks(ts)
        PROVE  at \div Second = Ticks(ts) \div Second
    <3>1. at - y \in S .. 2 * S - 1 /\ Ticks(ts) - y \in S .. 2 * S - 1
      BY <1>1, <1>2, <1>3, <1>4, <2>2, <2>4 DEF S
    <3>2. y = ts.sec * S
      BY DEF y
    <3>3. \A r \in S .. 2 * S - 1 : (ts.sec * S + r) \div S = ts.sec + 1
      <4>1. SUFFICES ASSUME NEW r \in S .. 2 * S - 1
                     PROVE  (ts.sec * S + r) \div S = ts.sec + 1
        OBVIOUS
      <4>2. r - S \in 0 .. S - 1 /\ ts.sec * S + r = S * (ts.sec + 1) + (r - S)
        BY <1>1, <1>2
      <4> HIDE DEF S
      <4>3. \A k \in Nat, u \in 0 .. S - 1 : (S * k + u) \div S = k
        BY <1>1
      <4> QED
        BY <1>2, <4>2, <4>3
    <3>4. at = y + (at - y) /\ Ticks(ts) = y + (Ticks(ts) - y)
      BY <1>2, <1>3, <1>4
    <3> QED
      BY <3>1, <3>2, <3>3, <3>4 DEF S
  <2> QED
    BY <2>3, <2>4
<1> QED
  BY <1>5, <1>6

\* get_queue_timeout: however the borrow of timeval_diff comes out.
LEMMA TimeoutBound ==
    ASSUME NEW q, NEW clock \in Clocks, Q!Peek(q).ts \in Dates
    PROVE  LET left == Ticks(Q!Peek(q).ts) - Ticks(clock)
           IN  Ticks(QueueTimeout(q, clock)) \in 1 .. (IF left > 1 THEN left ELSE 1)
<1> DEFINE ts == Q!Peek(q).ts
           S == Second
           a == ts.sec - clock.sec
           b == ts.usec - clock.usec
           left == Ticks(ts) - Ticks(clock)
<1>1. S \in Nat /\ S >= 1
  BY SecondType
<1>2. ts.sec \in Int /\ ts.usec \in 0 .. 2 * S - 2
  BY DEF Dates
<1>3. clock.sec \in Int /\ clock.usec \in 0 .. S - 1
  BY DEF Clocks
<1>4. a \in Int /\ b \in Int /\ b > 0 - S
  BY <1>1, <1>2, <1>3
<1>5. left = a * S + b /\ a * S \in Int
  BY <1>1, <1>2, <1>3 DEF Ticks
<1>6. (a - 1) * S = a * S - S
  BY <1>1, <1>4
<1>7. a >= 1 => a * S >= S
  BY <1>1, <1>4
<1>8. a >= 2 => (a - 1) * S >= S
  BY <1>1, <1>4
<1>9. \A u : Ticks([sec |-> 0, usec |-> u]) = 0 * S + u
  BY DEF Ticks
<1>10. Ticks([sec |-> 0, usec |-> 1]) = 1
  BY <1>1, <1>9
<1>11. Difference(ts, clock) =
         IF b >= 0 THEN [sec |-> a, usec |-> b]
         ELSE IF a - 1 # 0 THEN [sec |-> a - 1, usec |-> b + S]
         ELSE [sec |-> a - 1, usec |-> b]
  BY DEF Difference
<1> HIDE DEF a, b, left, ts
<1>12. QueueTimeout(q, clock) =
         IF Difference(ts, clock).sec < 0
              \/ (Difference(ts, clock).sec = 0 /\ Difference(ts, clock).usec <= 0)
         THEN [sec |-> 0, usec |-> 1] ELSE Difference(ts, clock)
  BY DEF QueueTimeout, ts
<1>13. Ticks(QueueTimeout(q, clock)) \in 1 .. (IF left > 1 THEN left ELSE 1)
  <2>1. CASE b >= 0
    <3>1. Difference(ts, clock) = [sec |-> a, usec |-> b]
      BY <1>11, <2>1
    <3>2. CASE a < 0 \/ (a = 0 /\ b <= 0)
      <4>1. QueueTimeout(q, clock) = [sec |-> 0, usec |-> 1]
        BY <1>12, <3>1, <3>2
      <4> QED
        BY <1>4, <1>5, <1>10, <4>1
    <3>3. CASE ~ (a < 0 \/ (a = 0 /\ b <= 0))
      <4>1. QueueTimeout(q, clock) = [sec |-> a, usec |-> b]
        BY <1>12, <3>1, <3>3
      <4>2. Ticks(QueueTimeout(q, clock)) = left
        BY <1>5, <4>1 DEF Ticks
      <4>3. left >= 1
        BY <1>1, <1>4, <1>5, <1>7, <2>1, <3>3
      <4> QED
        BY <1>4, <1>5, <4>2, <4>3
    <3> QED
      BY <3>2, <3>3
  <2>2. CASE b < 0 /\ a # 1
    <3>1. Difference(ts, clock) = [sec |-> a - 1, usec |-> b + S]
      BY <1>4, <1>11, <2>2
    <3>2. b + S > 0
      BY <1>1, <1>4
    <3>3. CASE a < 1
      <4>1. QueueTimeout(q, clock) = [sec |-> 0, usec |-> 1]
        BY <1>4, <1>12, <3>1, <3>3
      <4> QED
        BY <1>4, <1>5, <1>10, <4>1
    <3>4. CASE a >= 2
      <4>1. QueueTimeout(q, clock) = [sec |-> a - 1, usec |-> b + S]
        BY <1>4, <1>12, <3>1, <3>4
      <4>2. Ticks(QueueTimeout(q, clock)) = (a - 1) * S + (b + S)
        BY <4>1 DEF Ticks
      <4>3. Ticks(QueueTimeout(q, clock)) = left /\ left >= 1
        BY <1>1, <1>4, <1>5, <1>6, <1>8, <3>2, <3>4, <4>2
      <4> QED
        BY <1>4, <1>5, <4>3
    <3> QED
      BY <1>4, <2>2, <3>3, <3>4
  <2>3. CASE b < 0 /\ a = 1
    <3>1. Difference(ts, clock) = [sec |-> 0, usec |-> b]
      BY <1>4, <1>11, <2>3
    <3>2. QueueTimeout(q, clock) = [sec |-> 0, usec |-> 1]
      BY <1>4, <1>12, <2>3, <3>1
    <3> QED
      BY <1>4, <1>5, <1>10, <3>2
  <2> QED
    BY <1>4, <2>1, <2>2, <2>3
<1> QED
  BY <1>13 DEF left, ts

-----------------------------------------------------------------------------
(***************************************************************************)
(* The invariant.  Datagrams are numbered as they arrive, so those read    *)
(* from the socket are the first Taken ones; each of these is in the queue *)
(* or was sent, at most once, and no datagram is kept or sent before there *)
(* is a remote party.                                                      *)
(***************************************************************************)
Taken == arrived - Len(inbox)

SlotOK(p, src, taken) ==
    /\ p.id \in 1 .. taken
    /\ p.due = Ticks(p.ts)
    /\ src # Nobody /\ {p.from, AddressOf(p.direction, src)} = {src, Dest}

SentOK(p, src, taken) ==
    /\ p.id \in 1 .. taken
    /\ src # Nobody /\ {p.from, p.to} = {src, Dest}
    /\ OnTime(p)

ClockInv ==
    /\ now \in 0 .. MaxTime
    /\ last_clock \in Clocks /\ Ticks(last_clock) <= now
    /\ delay \in Nat
    /\ pc \in {"select", "deliver", "process", "crashed"}

InboxInv ==
    /\ arrived \in Nat
    /\ inbox \in Seq([id : Nat, from : Parties, kind : DatagramKinds])
    /\ Len(inbox) <= arrived
    /\ \A k \in 1 .. Len(inbox) : inbox[k].id = Taken + k
    /\ src_addr \in Parties \cup {Nobody}

QueueInv == Heap(queue) /\ \A p \in Values(queue) : SlotOK(p, src_addr, Taken)

SentInv ==
    /\ \A p \in sent : SentOK(p, src_addr, Taken)
    /\ \A p, r \in sent : p.id = r.id => p = r
    /\ \A p \in sent, r \in Values(queue) : p.id # r.id

LinkInv == ClockInv /\ InboxInv /\ QueueInv /\ SentInv

LEMMA InitLink == Init => LinkInv
<1> SUFFICES ASSUME Init
             PROVE  LinkInv
  OBVIOUS
<1>1. ClockInv
  BY TimevalTicks, TimesAssumption DEF Init, ClockInv
<1>2. InboxInv
  BY EmptySeq DEF Init, InboxInv, Taken
<1>3. Values(queue) = {}
  BY DEF Init, Q!NoItems, Values
<1>4. Heap(queue)
  <2>1. 0 \in Nat /\ queue \in [0 .. 0 - 1 -> SlotSet] /\ DOMAIN queue = {}
        /\ \A i, j \in 0 .. 0 - 1 : queue[i].id = queue[j].id => i = j
    BY DEF Init, Q!NoItems
  <2>2. P!Ordered(queue)
    BY <2>1 DEF P!Ordered
  <2> QED
    BY <2>1, <2>2 DEF Heap
<1> QED
  BY <1>1, <1>2, <1>3, <1>4 DEF Init, LinkInv, QueueInv, SentInv

LEMMA ClockKept ==
    ASSUME ClockInv, [Next]_vars
    PROVE  ClockInv'
<1>1. CASE Tick
  BY <1>1, TimesAssumption DEF ClockInv, Tick, Ticks, Clocks
<1>2. CASE Select
  BY <1>2, TimevalTicks DEF ClockInv, Select
<1>3. CASE \E from \in Others \cup {Dest}, kind \in Kinds : Arrive(from, kind)
  BY <1>3 DEF ClockInv, Arrive
<1>4. CASE Deliver \/ DeliverFails \/ Delivered
  BY <1>4 DEF ClockInv, Deliver, DeliverFails, Delivered
<1>5. CASE Process
  BY <1>5 DEF ClockInv, Process, NothingToRead, Drop, Forward, Crash, Hold, Read, Wait
<1>6. CASE UNCHANGED vars
  BY <1>6 DEF ClockInv, vars
<1> QED
  BY <1>1, <1>2, <1>3, <1>4, <1>5, <1>6 DEF Next, Loop

\* A datagram that arrives takes the next number, and disturbs nothing else.
LEMMA ArriveKeeps ==
    ASSUME LinkInv, NEW from \in Others \cup {Dest}, NEW kind \in Kinds, Arrive(from, kind)
    PROVE  InboxInv' /\ Taken' = Taken
<1> DEFINE d == [id |-> arrived + 1, from |-> from, kind |-> kind]
           S == [id : Nat, from : Parties, kind : DatagramKinds]
<1>1. arrived \in Nat /\ inbox \in Seq(S) /\ Len(inbox) <= arrived /\ Len(inbox) \in Nat
  BY LenProperties DEF LinkInv, InboxInv
<1>2. d \in S
  BY <1>1, OptionsAssumption DEF Parties
<1>3. inbox' = Append(inbox, d) /\ arrived' = arrived + 1 /\ src_addr' = src_addr
  BY DEF Arrive
<1>4. /\ inbox' \in Seq(S) /\ Len(inbox') = Len(inbox) + 1
      /\ \A k \in 1 .. Len(inbox) : inbox'[k] = inbox[k]
      /\ inbox'[Len(inbox) + 1] = d
  BY <1>1, <1>2, <1>3, AppendProperties
<1>5. Taken' = Taken
  BY <1>1, <1>3, <1>4 DEF Taken
<1>6. \A k \in 1 .. Len(inbox') : inbox'[k].id = Taken' + k
  <2>1. SUFFICES ASSUME NEW k \in 1 .. Len(inbox')
                 PROVE  inbox'[k].id = Taken' + k
    OBVIOUS
  <2>2. CASE k \in 1 .. Len(inbox)
    BY <1>4, <1>5, <2>2 DEF LinkInv, InboxInv
  <2>3. CASE k = Len(inbox) + 1
    <3>1. inbox'[k].id = arrived + 1
      BY <1>4, <2>3
    <3> QED
      BY <1>1, <1>5, <2>3, <3>1 DEF Taken
  <2> QED
    BY <1>1, <1>4, <2>2, <2>3
<1> QED
  BY <1>1, <1>3, <1>4, <1>5, <1>6 DEF LinkInv, InboxInv

\* The datagram read has a number of its own.  The remote party may become
\* known, but then nothing has been kept or sent.
LEMMA ReadKeeps ==
    ASSUME LinkInv, NEW d, Read(d), inbox # <<>>
    PROVE  /\ InboxInv'
           /\ d.id = Taken + 1 /\ Taken' = Taken + 1 /\ Taken \in Nat
           /\ d.from \in Parties /\ d.kind \in DatagramKinds
           /\ d.kind # "short" => src_addr' # Nobody
           /\ \A p \in Values(queue) : SlotOK(p, src_addr', Taken') /\ p.id # d.id
           /\ \A p \in sent : SentOK(p, src_addr', Taken') /\ p.id # d.id
<1> DEFINE S == [id : Nat, from : Parties, kind : DatagramKinds]
<1>1. arrived \in Nat /\ inbox \in Seq(S) /\ Len(inbox) <= arrived /\ Len(inbox) \in Nat
  BY LenProperties DEF LinkInv, InboxInv
<1>2. d = Head(inbox) /\ inbox' = Tail(inbox) /\ arrived' = arrived
  BY DEF Read
<1>3. /\ d \in S /\ inbox' \in Seq(S) /\ Len(inbox') = Len(inbox) - 1
      /\ \A k \in 1 .. Len(inbox') : inbox'[k] = inbox[k + 1]
      /\ d = inbox[1] /\ Len(inbox) >= 1
  <2> HIDE DEF S
  <2>1. /\ Head(inbox) \in S /\ Tail(inbox) \in Seq(S)
        /\ Len(Tail(inbox)) = Len(inbox) - 1
        /\ \A i \in 1 .. Len(Tail(inbox)) : Tail(inbox)[i] = inbox[i + 1]
    BY <1>1, HeadTailProperties
  <2>2. Len(inbox) >= 1
    BY <1>1, EmptySeq
  <2>3. Head(inbox) = inbox[1]
    BY <1>1
  <2> QED
    BY <1>2, <2>1, <2>2, <2>3
<1>4. Taken' = Taken + 1 /\ Taken \in Nat
  BY <1>1, <1>2, <1>3 DEF Taken
<1>5. d.id = Taken + 1
  BY <1>1, <1>3 DEF LinkInv, InboxInv
<1>6. \A k \in 1 .. Len(inbox') : inbox'[k].id = Taken' + k
  <2>1. SUFFICES ASSUME NEW k \in 1 .. Len(inbox')
                 PROVE  inbox'[k].id = Taken' + k
    OBVIOUS
  <2>2. k + 1 \in 1 .. Len(inbox) /\ inbox'[k] = inbox[k + 1]
    BY <1>1, <1>3
  <2>3. inbox[k + 1].id = Taken + (k + 1)
    BY <2>2 DEF LinkInv, InboxInv
  <2> QED
    BY <1>1, <1>3, <1>4, <2>2, <2>3
<1>7. src_addr' = (IF src_addr = Nobody /\ d.kind # "short" THEN d.from ELSE src_addr)
      /\ Nobody \notin Parties
  BY PartiesAssumption DEF Read, Parties
<1>8. InboxInv'
  <2>1. d.from \in Parties /\ src_addr \in Parties \cup {Nobody}
    BY <1>3 DEF LinkInv, InboxInv
  <2>2. src_addr' \in Parties \cup {Nobody}
    BY <1>7, <2>1
  <2>3. arrived' \in Nat /\ inbox' \in Seq(S) /\ Len(inbox') <= arrived'
    BY <1>1, <1>2, <1>3
  <2> QED
    BY <1>6, <2>2, <2>3 DEF InboxInv
<1>9. d.kind # "short" => src_addr' # Nobody
  BY <1>3, <1>7
<1>10. src_addr # Nobody => src_addr' = src_addr
  BY <1>7
<1>11. \A i \in 1 .. Taken : i \in 1 .. Taken' /\ i # d.id
  BY <1>4, <1>5
<1>12. \A p \in Values(queue) : SlotOK(p, src_addr', Taken') /\ p.id # d.id
  BY <1>10, <1>11 DEF LinkInv, QueueInv, SlotOK
<1>13. \A p \in sent : SentOK(p, src_addr', Taken') /\ p.id # d.id
  BY <1>10, <1>11 DEF LinkInv, SentInv, SentOK
<1> QED
  BY <1>3, <1>4, <1>5, <1>8, <1>9, <1>12, <1>13

\* What is sent of a datagram read, or of a packet taken out of the queue.
Leaving(id, from, kind, to, due) ==
    [id |-> id, from |-> from, kind |-> kind, to |-> to, due |-> due, at |-> now]

LEMMA SendKeeps ==
    ASSUME NEW id, NEW from, NEW kind, NEW to, NEW due,
           SentOK(Leaving(id, from, kind, to, due), src_addr', Taken'),
           sent' = sent \cup {Leaving(id, from, kind, to, due)},
           \A p \in sent : SentOK(p, src_addr', Taken') /\ p.id # id,
           \A p \in Values(queue') : p.id # id,
           \A p \in sent, r \in Values(queue') : p.id # r.id,
           SentInv
    PROVE  SentInv'
<1> DEFINE s == Leaving(id, from, kind, to, due)
<1>1. s.id = id
  BY DEF Leaving
<1> HIDE DEF s
<1>2. SentOK(s, src_addr', Taken') /\ sent' = sent \cup {s}
  BY DEF s
<1>3. \A p \in sent' : SentOK(p, src_addr', Taken')
  BY <1>2
<1>4. \A p, r \in sent' : p.id = r.id => p = r
  <2>1. \A p, r \in sent : p.id = r.id => p = r
    BY DEF SentInv
  <2> QED
    BY <1>1, <1>2, <2>1
<1>5. \A p \in sent', r \in Values(queue') : p.id # r.id
  BY <1>1, <1>2
<1> QED
  BY <1>3, <1>4, <1>5 DEF SentInv

\* A datagram that is read goes from the one party to the other.
LEMMA ReadParties ==
    ASSUME NEW from \in Parties, NEW src \in Parties \cup {Nobody}, src # Nobody,
           Direction(from, src) \in {"forward", "reverse"}
    PROVE  {from, AddressOf(Direction(from, src), src)} = {src, Dest}
BY DEF Direction, AddressOf

LEMMA DeliverKeeps ==
    ASSUME LinkInv, Deliver
    PROVE  QueueInv' /\ SentInv'
<1> DEFINE p == Q!Peek(queue)
           to == AddressOf(p.direction, src_addr)
<1>1. /\ Heap(queue) /\ Q!Size(queue) > 0 /\ Later(last_clock, p.ts)
      /\ queue' = Q!Popped(queue) /\ src_addr' = src_addr
      /\ arrived' = arrived /\ inbox' = inbox
      /\ sent' = sent \cup {Leaving(p.id, p.from, p.kind, to, p.due)}
  BY DEF LinkInv, QueueInv, Deliver, Due, Send, Leaving
<1>2. /\ Heap(queue') /\ p \in Values(queue)
      /\ Values(queue') = Values(queue) \ {p}
  BY <1>1, HeapPopped
<1>3. Taken' = Taken
  BY <1>1 DEF Taken
<1>4. SlotOK(p, src_addr, Taken)
  BY <1>2 DEF LinkInv, QueueInv
<1>5. p.ts \in Dates
  <2>1. PICK n \in Nat : queue \in [0 .. n - 1 -> SlotSet]
    BY <1>1 DEF Heap
  <2>2. p \in SlotSet
    BY <1>2, <2>1 DEF Values
  <2> QED
    BY <2>2 DEF SlotSet
<1>6. \A r \in Values(queue') : r.id # p.id
  <2>1. PICK n \in Nat : /\ queue \in [0 .. n - 1 -> SlotSet]
                         /\ \A i, j \in 0 .. n - 1 : queue[i].id = queue[j].id => i = j
    BY <1>1 DEF Heap
  <2>2. \A a, b \in Values(queue) : a.id = b.id => a = b
    BY <2>1 DEF Values
  <2> QED
    BY <1>2, <2>2
<1> HIDE DEF p
<1>7. QueueInv'
  BY <1>1, <1>2, <1>3 DEF LinkInv, QueueInv
<1>8. SentOK(Leaving(p.id, p.from, p.kind, to, p.due), src_addr', Taken')
  <2>1. now \in Nat /\ now >= Ticks(last_clock) /\ last_clock \in Clocks
    <3>1. now \in 0 .. MaxTime /\ Ticks(last_clock) \in Int /\ Ticks(last_clock) <= now
          /\ last_clock \in Clocks
      BY SecondType DEF LinkInv, ClockInv, Clocks, Ticks
    <3> QED
      BY <3>1, TimesAssumption
  <2>2. /\ now > Ticks(p.ts) - Second
        /\ now < Ticks(p.ts) => now \div Second = Ticks(p.ts) \div Second
    BY <1>1, <1>5, <2>1, LaterTicks
  <2> QED
    BY <1>1, <1>3, <1>4, <2>2 DEF SentOK, SlotOK, Leaving, OnTime
<1>9. \A r \in sent : SentOK(r, src_addr', Taken') /\ r.id # p.id
  BY <1>1, <1>2, <1>3 DEF LinkInv, SentInv
<1>10. \A r \in sent, q \in Values(queue') : r.id # q.id
  BY <1>2 DEF LinkInv, SentInv
<1>11. SentInv
  BY DEF LinkInv
<1> HIDE DEF to
<1>12. SentInv'
  BY <1>1, <1>6, <1>8, <1>9, <1>10, <1>11, SendKeeps
<1> QED
  BY <1>7, <1>12

\* Something was read: there is a first datagram.
LEMMA InboxHasHead == ASSUME NEW d \in {inbox[i] : i \in DOMAIN inbox}, InboxInv
                      PROVE  inbox # <<>>
BY DEF InboxInv

LEMMA ForwardKeeps ==
    ASSUME LinkInv, NEW d, Forward(d), inbox # <<>>
    PROVE  QueueInv' /\ SentInv'
<1> DEFINE dir == Direction(d.from, src_addr')
           to == AddressOf(dir, src_addr')
<1>1. /\ Read(d) /\ d.kind # "short" /\ queue' = queue
      /\ dir \in {"forward", "reverse"}
      /\ \E kind : sent' = sent \cup {Leaving(d.id, d.from, kind, to, now)}
  <2>1. LinkDirection \subseteq {"forward", "reverse"}
    BY OptionsAssumption
  <2> QED
    BY <2>1 DEF Forward, Send, Leaving, Relayed, Simulated
<1>2. /\ InboxInv'
      /\ d.id = Taken + 1 /\ Taken' = Taken + 1 /\ Taken \in Nat
      /\ d.from \in Parties /\ d.kind \in DatagramKinds
      /\ src_addr' # Nobody
      /\ \A p \in Values(queue) : SlotOK(p, src_addr', Taken') /\ p.id # d.id
      /\ \A p \in sent : SentOK(p, src_addr', Taken') /\ p.id # d.id
  BY <1>1, ReadKeeps
<1>3. PICK kind : sent' = sent \cup {Leaving(d.id, d.from, kind, to, now)}
  BY <1>1
<1>4. QueueInv'
  BY <1>1, <1>2 DEF LinkInv, QueueInv
<1>5. {d.from, to} = {src_addr', Dest}
  BY <1>1, <1>2, ReadParties DEF InboxInv
<1> HIDE DEF dir, to
<1>6. SentOK(Leaving(d.id, d.from, kind, to, now), src_addr', Taken')
  <2>1. now \in Int
    BY TimesAssumption DEF LinkInv, ClockInv
  <2>2. d.id \in 1 .. Taken'
    BY <1>2
  <2> QED
    BY <1>2, <1>5, <2>1, <2>2, SecondType DEF SentOK, Leaving, OnTime
<1>7. SentInv /\ \A p \in sent, r \in Values(queue') : p.id # r.id
  BY <1>1 DEF LinkInv, SentInv
<1>8. SentInv'
  BY <1>1, <1>2, <1>3, <1>6, <1>7, SendKeeps
<1> QED
  BY <1>4, <1>8

\* What Hold pushes: a packet of its own, with a date that is in order.
LEMMA HeldSlot ==
    ASSUME LinkInv, NEW d, NEW applied \in AppliedDelays, Hold(d, applied), inbox # <<>>
    PROVE  \E v \in SlotSet : /\ queue' = Q!Pushed(queue, v)
                              /\ SlotOK(v, src_addr', Taken') /\ v.id = d.id
                              /\ \A p \in Values(queue) : p.id # v.id
<1> DEFINE dir == Direction(d.from, src_addr')
           slot(kind) == [id |-> d.id, from |-> d.from, kind |-> kind, direction |-> dir,
                          ts |-> Expiry(last_clock, applied),
                          due |-> Ticks(last_clock) + applied]
<1>1. /\ Read(d) /\ d.kind # "short" /\ dir \in LinkDirection
      /\ \E kind \in Damages(d.kind) : queue' = Q!Pushed(queue, slot(kind))
  BY DEF Hold, Simulated
<1>2. /\ InboxInv'
      /\ d.id = Taken + 1 /\ Taken' = Taken + 1 /\ Taken \in Nat
      /\ d.from \in Parties /\ d.kind \in DatagramKinds
      /\ src_addr' # Nobody
      /\ \A p \in Values(queue) : p.id # d.id
  BY <1>1, ReadKeeps
<1>3. PICK kind \in Damages(d.kind) : queue' = Q!Pushed(queue, slot(kind))
  BY <1>1
<1>4. kind \in AllKinds
  BY <1>2 DEF Damages, AllKinds
<1>5. applied \in Nat /\ last_clock \in Clocks
  BY AppliedType DEF LinkInv, ClockInv
<1>6. /\ Expiry(last_clock, applied) \in Dates
      /\ Ticks(Expiry(last_clock, applied)) = Ticks(last_clock) + applied
      /\ Ticks(last_clock) + applied \in Nat
  <2>1. Ticks(last_clock) \in Nat
    BY <1>5, SecondType DEF Clocks, Ticks
  <2> QED
    BY <1>5, <2>1, ExpiryTicks
<1>7. {d.from, AddressOf(dir, src_addr')} = {src_addr', Dest}
  BY <1>1, <1>2, ReadParties, OptionsAssumption DEF InboxInv
<1> HIDE DEF dir
<1> DEFINE v == slot(kind)
<1>8. v \in SlotSet
  BY <1>1, <1>2, <1>4, <1>6 DEF SlotSet
<1>9. SlotOK(v, src_addr', Taken') /\ v.id = d.id
  <2>1. d.id \in 1 .. Taken'
    BY <1>2
  <2> QED
    BY <1>2, <1>6, <1>7, <2>1 DEF SlotOK
<1> QED
  BY <1>2, <1>3, <1>8, <1>9

LEMMA HoldKeeps ==
    ASSUME LinkInv, NEW d, NEW applied \in AppliedDelays, Hold(d, applied), inbox # <<>>
    PROVE  QueueInv' /\ SentInv'
<1>1. Read(d) /\ sent' = sent
  BY DEF Hold
<1>2. /\ \A p \in Values(queue) : SlotOK(p, src_addr', Taken')
      /\ \A p \in sent : SentOK(p, src_addr', Taken') /\ p.id # d.id
  BY <1>1, ReadKeeps
<1>3. PICK v \in SlotSet : /\ queue' = Q!Pushed(queue, v)
                           /\ SlotOK(v, src_addr', Taken') /\ v.id = d.id
                           /\ \A p \in Values(queue) : p.id # v.id
  BY HeldSlot
<1>4. Heap(queue') /\ Values(queue') = Values(queue) \cup {v}
  BY <1>3, HeapPushed DEF LinkInv, QueueInv
<1>5. QueueInv'
  BY <1>2, <1>3, <1>4 DEF QueueInv
<1>6. SentInv'
  BY <1>1, <1>2, <1>3, <1>4 DEF LinkInv, SentInv
<1> QED
  BY <1>5, <1>6

LEMMA NextLink == LinkInv /\ [Next]_vars => LinkInv'
<1> SUFFICES ASSUME LinkInv, [Next]_vars
             PROVE  LinkInv'
  OBVIOUS
<1>1. ClockInv'
  BY ClockKept DEF LinkInv
<1>2. ASSUME NEW from \in Others \cup {Dest}, NEW kind \in Kinds, Arrive(from, kind)
      PROVE  InboxInv' /\ QueueInv' /\ SentInv'
  <2>1. InboxInv' /\ Taken' = Taken
    BY <1>2, ArriveKeeps
  <2>2. queue' = queue /\ sent' = sent /\ src_addr' = src_addr
    BY <1>2 DEF Arrive
  <2> QED
    BY <2>1, <2>2 DEF LinkInv, QueueInv, SentInv
<1>3. CASE UNCHANGED <<inbox, queue, src_addr, sent, arrived>>
  BY <1>1, <1>3 DEF LinkInv, InboxInv, QueueInv, SentInv, Taken
<1>4. CASE Deliver
  <2>1. InboxInv'
    BY <1>4 DEF Deliver, LinkInv, InboxInv, Taken
  <2> QED
    BY <1>1, <1>4, <2>1, DeliverKeeps DEF LinkInv
<1>5. ASSUME NEW d \in {inbox[i] : i \in DOMAIN inbox}, Drop(d) \/ Crash(d)
      PROVE  InboxInv' /\ QueueInv' /\ SentInv'
  <2>1. inbox # <<>>
    BY InboxHasHead DEF LinkInv
  <2>2. Read(d) /\ queue' = queue /\ sent' = sent
    BY <1>5 DEF Drop, Crash
  <2> QED
    BY <2>1, <2>2, ReadKeeps DEF LinkInv, QueueInv, SentInv
<1>6. ASSUME NEW d \in {inbox[i] : i \in DOMAIN inbox}, Forward(d)
      PROVE  InboxInv' /\ QueueInv' /\ SentInv'
  <2>1. inbox # <<>> /\ Read(d)
    BY <1>6, InboxHasHead DEF LinkInv, Forward
  <2> QED
    BY <1>6, <2>1, ForwardKeeps, ReadKeeps
<1>7. ASSUME NEW d \in {inbox[i] : i \in DOMAIN inbox}, NEW applied \in AppliedDelays,
             Hold(d, applied)
      PROVE  InboxInv' /\ QueueInv' /\ SentInv'
  <2>1. inbox # <<>> /\ Read(d)
    BY <1>7, InboxHasHead DEF LinkInv, Hold
  <2> QED
    BY <1>7, <2>1, HoldKeeps, ReadKeeps
<1>8. CASE Process
  <2>1. CASE NothingToRead
    BY <1>3, <2>1, <1>1 DEF NothingToRead
  <2> QED
    BY <1>1, <1>5, <1>6, <1>7, <1>8, <2>1 DEF Process, LinkInv
<1>9. CASE Tick \/ Select \/ DeliverFails \/ Delivered \/ UNCHANGED vars
  BY <1>1, <1>3, <1>9 DEF Tick, Select, DeliverFails, Delivered, vars
<1> QED
  BY <1>1, <1>2, <1>4, <1>8, <1>9 DEF Next, Loop, LinkInv

LEMMA LinkAlways == Spec => []LinkInv
BY InitLink, NextLink, PTL DEF Spec

-----------------------------------------------------------------------------
\* The dates and directions of the packets queued.
LEMMA SlotsTyped == ASSUME NEW q, Heap(q)
                    PROVE  \A p \in Values(q) : p \in SlotSet
BY DEF Heap, Values

(***************************************************************************)
(* link_sim.c:51-70: the clock read is never ahead of the time, and no two *)
(* slots of the queue hold the same packet.                                *)
(***************************************************************************)
THEOREM LinkTypeCorrect == Spec => []TypeOK
<1>1. LinkInv => TypeOK
  <2> SUFFICES ASSUME LinkInv
               PROVE  TypeOK
    OBVIOUS
  <2>1. Slots = Values(queue)
    BY DEF Slots, Values
  <2>2. Cardinality(Slots) = Q!Size(queue)
    BY <2>1, HeapSize DEF LinkInv, QueueInv
  <2>3. \A p \in Slots : p.direction \in LinkDirection /\ p.ts.usec \in 0 .. 2 * Second - 1
    <3>1. \A i \in 0 .. 2 * Second - 2 : i \in 0 .. 2 * Second - 1
      BY SecondType
    <3> QED
      BY <2>1, <3>1, SlotsTyped DEF LinkInv, QueueInv, SlotSet, Dates
  <2> QED
    BY <2>2, <2>3 DEF TypeOK, LinkInv, ClockInv, InboxInv, Clocks, Parties
<1> QED
  BY <1>1, LinkAlways, PTL

(***************************************************************************)
(* link_sim.c:221-234: the microseconds of a date are not normalised, but  *)
(* a packet that leaves before its delay is over leaves in the second it   *)
(* is due in, never before that second has begun, hence early by less than *)
(* a second.                                                               *)
(***************************************************************************)
THEOREM LinkEarlyUnderASecond == Spec => []EarlyUnderASecond
<1>1. LinkInv => EarlyUnderASecond
  BY DEF LinkInv, SentInv, SentOK, OnTime, EarlyUnderASecond
<1> QED
  BY <1>1, LinkAlways, PTL

(***************************************************************************)
(* link_sim.c:390-423: what is sent goes from one to the other of the two  *)
(* parties of the connection, at most once, and not while it is queued.    *)
(***************************************************************************)
THEOREM LinkBetweenTheTwo == Spec => []BetweenTheTwo
<1>1. LinkInv => BetweenTheTwo
  BY DEF LinkInv, SentInv, SentOK, BetweenTheTwo, Slots, Values
<1> QED
  BY <1>1, LinkAlways, PTL

(***************************************************************************)
(* link_sim.c:241: whatever was pushed in whatever order, the packet that  *)
(* leaves has the earliest date of the queue.                              *)
(***************************************************************************)
THEOREM LinkLeavesInOrder == Spec => LeavesInOrder
<1>1. LinkInv /\ [Next]_vars =>
        [\A p \in Slots : p \notin Slots' => \A r \in Slots' : ~ Later(p.ts, r.ts)]_vars
  <2> SUFFICES ASSUME LinkInv, Next, NEW p \in Slots, p \notin Slots', NEW r \in Slots'
               PROVE  ~ Later(p.ts, r.ts)
    OBVIOUS
  <2>1. Slots = Values(queue) /\ Slots' = Values(queue')
    BY DEF Slots, Values
  <2>2. CASE Deliver
    <3>1. Heap(queue) /\ Q!Size(queue) > 0 /\ queue' = Q!Popped(queue)
      BY <2>2 DEF Deliver, Due, LinkInv, QueueInv
    <3>2. /\ Values(queue') = Values(queue) \ {Q!Peek(queue)}
          /\ \A s \in Values(queue) : ~ SlotAfter(Q!Peek(queue), s)
      BY <3>1, HeapPopped
    <3> QED
      BY <2>1, <3>2 DEF SlotAfter
  <2>3. ASSUME NEW d \in {inbox[i] : i \in DOMAIN inbox}, NEW applied \in AppliedDelays,
               Hold(d, applied)
        PROVE  Slots \subseteq Slots'
    <3>1. inbox # <<>> /\ Read(d)
      BY <2>3, InboxHasHead DEF LinkInv, Hold
    <3>2. PICK v \in SlotSet : /\ queue' = Q!Pushed(queue, v)
                               /\ \A s \in Values(queue) : s.id # v.id
      BY <2>3, <3>1, HeldSlot
    <3> QED
      BY <2>1, <3>2, HeapPushed DEF LinkInv, QueueInv
  <2>4. CASE queue' = queue
    BY <2>1, <2>4
  <2> QED
    BY <2>1, <2>2, <2>3, <2>4
       DEF Next, Loop, Tick, Arrive, Select, DeliverFails, Delivered, Process, NothingToRead,
           Drop, Forward, Crash
<1> QED
  BY <1>1, LinkAlways, PTL DEF Spec, LeavesInOrder

(***************************************************************************)
(* link_sim.c:306-325: select is never told to sleep past the first date   *)
(* of the queue, whatever the borrow of timeval_diff makes of it.          *)
(***************************************************************************)
THEOREM LinkNeverOversleeps == Spec => NeverOversleeps
<1> DEFINE Bound == LET left == Ticks(Q!Peek(queue').ts) - Ticks(last_clock)
                    IN  wake' - now \in 1 .. (IF left > 1 THEN left ELSE 1)
<1>1. LinkInv /\ LinkInv' /\ [Next]_vars =>
        [pc # "select" /\ pc' = "select" /\ Q!Size(queue') > 0 => Bound]_vars
  <2> SUFFICES ASSUME LinkInv, LinkInv', Next,
                      pc # "select", pc' = "select", Q!Size(queue') > 0
               PROVE  Bound
    OBVIOUS
  <2>1. Wait(queue')
    BY DEF Next, Loop, Tick, Arrive, Select, Deliver, DeliverFails, Delivered, Process,
           NothingToRead, Drop, Forward, Crash, Hold
  <2>2. wake' = now + Ticks(QueueTimeout(queue', last_clock))
    BY <2>1 DEF Wait
  <2>3. Q!Peek(queue').ts \in Dates
    <3>1. Heap(queue')
      BY DEF LinkInv, QueueInv
    <3>2. Q!Peek(queue') \in Values(queue')
      BY <3>1, HeapPopped
    <3> QED
      BY <3>1, <3>2, SlotsTyped DEF SlotSet
  <2>4. last_clock \in Clocks /\ now \in Int
    BY TimesAssumption DEF LinkInv, ClockInv
  <2>5. LET left == Ticks(Q!Peek(queue').ts) - Ticks(last_clock)
        IN  Ticks(QueueTimeout(queue', last_clock)) \in 1 .. (IF left > 1 THEN left ELSE 1)
    BY <2>3, <2>4, TimeoutBound
  <2>6. wake' - now = Ticks(QueueTimeout(queue', last_clock))
    <3>1. \A x \in Int : (now + x) - now = x
      BY <2>4
    <3>2. Ticks(QueueTimeout(queue', last_clock)) \in Int
      BY <2>5
    <3> QED
      BY <2>2, <3>1, <3>2
  <2> QED
    BY <2>5, <2>6
<1> QED
  BY <1>1, LinkAlways, PTL DEF Spec, NeverOversleeps
=============================================================================
