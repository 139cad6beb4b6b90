----------------------------- MODULE HeapProofs -----------------------------
(***************************************************************************)
(* Proofs that a queue of min_queue.c stays a heap and is a priority       *)
(* queue, for all keys, sizes and growth steps.                            *)
(***************************************************************************)
EXTENDS MinQueueSpec, TLAPS, FiniteSetTheorems

P == INSTANCE MinQueueProofs WITH Greater <- After

LEMMA KeysOrdered == P!TotalPreorder(Keys)
BY KeysAssumption DEF P!TotalPreorder, After

\* Q and P instantiate the same functions.
LEMMA SameSize == \A f : Q!Size(f) = Cardinality(DOMAIN f)
BY Zenon DEF Q!Size, Q!Cardinality, Cardinality

LEMMA SamePush ==
    ASSUME NEW f, NEW v
    PROVE  Q!Pushed(f, v) = P!Pushed(f, v)
BY DEF Q!Pushed, P!Pushed, Q!Lifted, P!Lifted, Q!Parent, P!Parent, Q!Size, P!Size,
       Q!Cardinality, P!Cardinality

LEMMA SamePop ==
    ASSUME NEW f
    PROVE  Q!Popped(f) = P!Popped(f)
BY DEF Q!Popped, P!Popped, Q!NoItems, P!NoItems, Q!Sunk, P!Sunk, Q!MinChild, P!MinChild,
       Q!Size, P!Size, Q!Cardinality, P!Cardinality

LEMMA HeapOrderIs == ASSUME NEW n \in Nat, e \in [0 .. n - 1 -> Keys]
                     PROVE  HeapOrder <=> P!Ordered(e)
<1>1. \A i \in DOMAIN e \ {0} : Q!Parent(i) = P!Parent(i) /\ P!Parent(i) \in DOMAIN e
  BY DEF Q!Parent, P!Parent
<1>2. \A i \in DOMAIN e : e[i] \in Int
  BY KeysAssumption
<1> QED
  BY <1>1, <1>2 DEF HeapOrder, P!Ordered, After

LEMMA HeapOrderNextIs == ASSUME NEW n \in Nat, e' \in [0 .. n - 1 -> Keys]
                         PROVE  HeapOrder' <=> P!Ordered(e')
<1>1. \A i \in DOMAIN e' \ {0} : Q!Parent(i) = P!Parent(i) /\ P!Parent(i) \in DOMAIN e'
  BY DEF Q!Parent, P!Parent
<1>2. \A i \in DOMAIN e' : e'[i] \in Int
  BY KeysAssumption
<1> QED
  BY <1>1, <1>2 DEF HeapOrder, P!Ordered, After

-----------------------------------------------------------------------------
\* The array has grown by whole steps, and no further than it had to.
Grown == {k * SlotsPerMalloc : k \in 1 .. MaxSize \div SlotsPerMalloc + 1}

LEMMA GrownOnce == SlotsPerMalloc \in Grown
<1>1. MaxSize \div SlotsPerMalloc \in Nat
  BY SizesAssumption
<1>2. 1 \in 1 .. MaxSize \div SlotsPerMalloc + 1 /\ SlotsPerMalloc = 1 * SlotsPerMalloc
  BY <1>1, SizesAssumption
<1> QED
  BY <1>2 DEF Grown

LEMMA GrownAgain ==
    ASSUME NEW a \in Grown, a < MaxSize
    PROVE  a \in Nat /\ a + SlotsPerMalloc \in Grown
<1> DEFINE q == MaxSize \div SlotsPerMalloc
           S == SlotsPerMalloc
<1>1. PICK k \in 1 .. q + 1 : a = k * S
  BY DEF Grown
<1>2. q \in Nat /\ S \in Nat \ {0} /\ MaxSize \in Nat /\ k \in Nat
  BY <1>1, SizesAssumption
<1>3. MaxSize < S * (q + 1)
  BY <1>2
<1>4. k < q + 1
  <2>1. SUFFICES ASSUME k = q + 1
                 PROVE  FALSE
    BY <1>1, <1>2
  <2>2. k * S = S * (q + 1)
    BY <1>2, <2>1
  <2> QED
    BY <1>1, <1>2, <1>3, <2>2
<1> HIDE DEF q
<1>5. k * S \in Nat /\ (k + 1) * S = k * S + S /\ k + 1 \in 1 .. q + 1
  BY <1>1, <1>2, <1>4
<1> QED
  BY <1>1, <1>5 DEF Grown, q

-----------------------------------------------------------------------------
\* The invariant: a heap of keys, in the slots allocated.
HeapInv == TypeOK /\ HeapOrder

LEMMA InitHeap == Init => HeapInv
<1> SUFFICES ASSUME Init
             PROVE  HeapInv
  OBVIOUS
<1>1. e \in [0 .. 0 - 1 -> Keys] /\ DOMAIN e = {}
  BY DEF Init, Q!NoItems
<1>2. alloc \in Grown /\ 0 \in 0 .. alloc
  BY GrownOnce, SizesAssumption DEF Init
<1>3. TypeOK
  BY <1>1, <1>2 DEF TypeOK, Grown
<1>4. HeapOrder
  BY <1>1 DEF HeapOrder
<1> QED
  BY <1>3, <1>4 DEF HeapInv

\* A queue in use: n values.
LEMMA HeapOf ==
    ASSUME HeapInv
    PROVE  \E n \in Nat : /\ e \in [0 .. n - 1 -> Keys] /\ n <= alloc /\ alloc \in Int
                          /\ Q!Size(e) = n /\ P!Ordered(e)
<1>1. PICK n \in 0 .. alloc : e \in [0 .. n - 1 -> Keys]
  BY DEF HeapInv, TypeOK
<1>2. n \in Nat /\ n <= alloc /\ alloc \in Int
  <2>1. alloc \in Int
    <3>1. PICK k \in 1 .. MaxSize \div SlotsPerMalloc + 1 : alloc = k * SlotsPerMalloc
      BY DEF HeapInv, TypeOK
    <3> QED
      BY <3>1, SizesAssumption
  <2> QED
    BY <2>1
<1>3. Cardinality(0 .. n - 1) = n
  BY <1>2, FS_Interval
<1>4. Q!Size(e) = n
  BY <1>1, <1>3, SameSize
<1>5. P!Ordered(e)
  BY <1>1, <1>2, HeapOrderIs DEF HeapInv
<1> QED
  BY <1>1, <1>2, <1>4, <1>5

LEMMA NextHeap == HeapInv /\ [Next]_vars => HeapInv'
<1> SUFFICES ASSUME HeapInv, [Next]_vars
             PROVE  HeapInv'
  OBVIOUS
<1>1. PICK n \in Nat : /\ e \in [0 .. n - 1 -> Keys] /\ n <= alloc /\ alloc \in Int
                      /\ Q!Size(e) = n /\ P!Ordered(e)
  BY HeapOf
<1>2. alloc \in Grown
  BY DEF HeapInv, TypeOK, Grown
<1>3. ASSUME NEW v \in Keys, Push(v)
      PROVE  HeapInv'
  <2>1. e' = P!Pushed(e, v) /\ n < MaxSize
        /\ alloc' = IF n = alloc THEN alloc + SlotsPerMalloc ELSE alloc
    BY <1>1, <1>3, SamePush DEF Push
  <2>2. P!Pushed(e, v) \in [0 .. n -> Keys] /\ P!Ordered(P!Pushed(e, v))
    BY <1>1, KeysOrdered, P!PushedOrdered
  <2>3. n + 1 \in Nat /\ e' \in [0 .. (n + 1) - 1 -> Keys] /\ P!Ordered(e')
    BY <2>1, <2>2
  <2>4. HeapOrder'
    BY <2>3, HeapOrderNextIs
  <2>5. alloc' \in Grown /\ n + 1 \in 0 .. alloc'
    <3>1. CASE n = alloc
      BY <1>2, <2>1, <3>1, GrownAgain, SizesAssumption
    <3>2. CASE n # alloc
      BY <1>1, <2>1, <1>2, <3>2
    <3> QED
      BY <3>1, <3>2
  <2>6. TypeOK'
    BY <2>3, <2>5 DEF TypeOK, Grown
  <2> QED
    BY <2>4, <2>6 DEF HeapInv
<1>4. CASE Pop
  <2>1. CASE n = 0
    BY <1>1, <1>4, <2>1 DEF Pop, HeapInv, TypeOK, HeapOrder
  <2>2. CASE n # 0
    <3>1. e' = P!Popped(e) /\ alloc' = alloc
      BY <1>1, <1>4, <2>2, SamePop DEF Pop
    <3> DEFINE m == n - 1
    <3>2. m \in Nat /\ e \in [0 .. m -> Keys]
      BY <1>1, <2>2
    <3> HIDE DEF m
    <3>3. P!Popped(e) \in [0 .. m - 1 -> Keys] /\ P!Ordered(P!Popped(e))
      BY <1>1, <3>2, KeysOrdered, P!PoppedOrdered
    <3>4. HeapOrder'
      BY <3>1, <3>2, <3>3, HeapOrderNextIs
    <3>5. m \in 0 .. alloc'
      BY <1>1, <3>1, <3>2 DEF m
    <3>6. TypeOK'
      BY <1>2, <3>1, <3>3, <3>5 DEF TypeOK, Grown
    <3> QED
      BY <3>4, <3>6 DEF HeapInv
  <2> QED
    BY <2>1, <2>2
<1>5. CASE PushFails \/ UNCHANGED vars
  BY <1>5 DEF PushFails, vars, HeapInv, TypeOK, HeapOrder
<1> QED
  BY <1>3, <1>4, <1>5 DEF Next

(***************************************************************************)
(* min_queue.c:82-153: the array holds keys in its first slots and never   *)
(* more than are allocated.                                                *)
(***************************************************************************)
THEOREM HeapTypeCorrect == Spec => []TypeOK
<1>1. Spec => []HeapInv
  BY InitHeap, NextHeap, PTL DEF Spec
<1>2. HeapInv => TypeOK
  BY DEF HeapInv
<1> QED
  BY <1>1, <1>2, PTL

(***************************************************************************)
(* min_queue.c:39-41: no node of the tree is ever greater than its         *)
(* children, whatever keys are pushed and popped in whatever order.        *)
(***************************************************************************)
THEOREM HeapStaysOrdered == Spec => []HeapOrder
<1>1. Spec => []HeapInv
  BY InitHeap, NextHeap, PTL DEF Spec
<1>2. HeapInv => HeapOrder
  BY DEF HeapInv
<1> QED
  BY <1>1, <1>2, PTL

-----------------------------------------------------------------------------
\* The bag of the values in the array f.
Bag(f) == [w \in {f[i] : i \in DOMAIN f} |-> P!Count(f, w)]

LEMMA ContentsIs == Contents = Bag(e) /\ Contents' = Bag(e')
BY DEF Contents, Bag, P!Count, P!Where, P!Cardinality, Cardinality

LEMMA BagType ==
    ASSUME NEW n \in Int, NEW f, DOMAIN f = 0 .. n
    PROVE  /\ Bag(f) = [w \in DOMAIN Bag(f) |-> P!Count(f, w)]
           /\ \A w : P!Count(f, w) \in Nat /\ (w \in DOMAIN Bag(f) <=> P!Count(f, w) > 0)
BY P!CountType DEF Bag

\* A push is the Put of the abstract queue, a pop its Take.
LEMMA PushPuts ==
    ASSUME HeapInv, NEW v \in Keys, Push(v)
    PROVE  Abstract!Put(v)
<1>1. PICK n \in Nat : e \in [0 .. n - 1 -> Keys] /\ P!Ordered(e)
  BY HeapOf
<1>2. e' = P!Pushed(e, v)
  BY SamePush DEF Push
<1>3. e' \in [0 .. n -> Keys]
  BY <1>1, <1>2, KeysOrdered, P!PushedOrdered
<1>4. \A w : P!Count(e', w) = P!Count(e, w) + (IF w = v THEN 1 ELSE 0)
  BY <1>1, <1>2, P!PushedCount
<1> DEFINE b == Bag(e)
           c == Bag(e')
           more == [w \in DOMAIN b \cup {v} |-> (IF w \in DOMAIN b THEN b[w] ELSE 0)
                                              + (IF w \in {v} THEN 1 ELSE 0)]
<1>5. /\ b = [w \in DOMAIN b |-> P!Count(e, w)]
      /\ \A w : P!Count(e, w) \in Nat /\ (w \in DOMAIN b <=> P!Count(e, w) > 0)
  BY <1>1, BagType
<1>6. /\ c = [w \in DOMAIN c |-> P!Count(e', w)]
      /\ \A w : P!Count(e', w) \in Nat /\ (w \in DOMAIN c <=> P!Count(e', w) > 0)
  BY <1>3, BagType
<1> HIDE DEF b, c
<1>7. DOMAIN c = DOMAIN b \cup {v}
  <2>1. \A w : P!Count(e', w) > 0 <=> P!Count(e, w) > 0 \/ w = v
    BY <1>4, <1>5
  <2>2. \A w : w \in DOMAIN c <=> w \in DOMAIN b \/ w = v
    BY <1>5, <1>6, <2>1, Zenon
  <2> QED
    BY <2>2
<1>8. \A w \in DOMAIN c : c[w] = more[w]
  BY <1>4, <1>5, <1>6, <1>7
<1>9. c = more
  BY <1>6, <1>7, <1>8
<1> HIDE DEF more
<1>10. Contents' = c /\ Contents = b
  BY ContentsIs DEF b, c
<1>11. Abstract!SetToBag({v}) = [w \in {v} |-> 1]
  BY DEF Abstract!SetToBag
<1> QED
  BY <1>9, <1>10, <1>11 DEF more, Abstract!Put, Abstract!(+), Abstract!SetToBag

LEMMA PopTakes ==
    ASSUME HeapInv, Pop, e # Q!NoItems
    PROVE  \E v \in Keys : Abstract!Take(v)
<1>1. PICK n \in Nat : e \in [0 .. n - 1 -> Keys] /\ Q!Size(e) = n /\ P!Ordered(e)
  BY HeapOf
<1>2. n # 0
  BY <1>1 DEF Q!NoItems
<1> DEFINE m == n - 1
           v == P!Peek(e)
           b == Bag(e)
           c == Bag(e')
           less == [w \in DOMAIN b |-> IF w \in {v} THEN b[w] - 1 ELSE b[w]]
<1>3. m \in Nat /\ e \in [0 .. m -> Keys] /\ e' = P!Popped(e)
  BY <1>1, <1>2, SamePop DEF Pop
<1> HIDE DEF m
<1>4. e' \in [0 .. m - 1 -> Keys]
  BY <1>1, <1>3, KeysOrdered, P!PoppedOrdered
<1>5. \A i \in 0 .. m : ~ (v > e[i])
  BY <1>1, <1>3, KeysOrdered, P!RootLeast DEF After
<1>6. v \in Keys /\ v = e[0] /\ 0 \in 0 .. m
  BY <1>3 DEF P!Peek
<1>7. \A w : P!Count(e, w) = P!Count(e', w) + (IF w = v THEN 1 ELSE 0)
  BY <1>3, <1>4, P!PoppedCount
<1>8. /\ b = [w \in DOMAIN b |-> P!Count(e, w)]
      /\ \A w : P!Count(e, w) \in Nat /\ (w \in DOMAIN b <=> P!Count(e, w) > 0)
  BY <1>3, BagType
<1>9. /\ c = [w \in DOMAIN c |-> P!Count(e', w)]
      /\ \A w : P!Count(e', w) \in Nat /\ (w \in DOMAIN c <=> P!Count(e', w) > 0)
  BY <1>3, <1>4, BagType
<1>10. v \in DOMAIN b /\ \A w \in DOMAIN b : v <= w
  <2>1. DOMAIN b = {e[i] : i \in 0 .. m}
    BY <1>3 DEF Bag
  <2>2. \A i \in 0 .. m : e[i] \in Int /\ v \in Int
    BY <1>3, <1>6, KeysAssumption
  <2> HIDE DEF b, v
  <2> QED
    BY <1>5, <1>6, <2>1, <2>2
<1> HIDE DEF b, c, v
<1>11. \A w \in DOMAIN b : less[w] = P!Count(e', w)
  BY <1>7, <1>8, <1>9
<1>12. DOMAIN c = {w \in DOMAIN less : less[w] > 0}
  <2>1. \A w : P!Count(e', w) > 0 => P!Count(e, w) > 0
    BY <1>7, <1>8, <1>9
  <2>2. \A w : w \in DOMAIN c <=> w \in DOMAIN b /\ P!Count(e', w) > 0
    BY <1>8, <1>9, <2>1, Zenon
  <2> QED
    BY <1>11, <2>2
<1>13. c = [w \in {w \in DOMAIN less : less[w] > 0} |-> less[w]]
  BY <1>9, <1>11, <1>12
<1> HIDE DEF less
<1>14. Contents' = c /\ Contents = b
  BY ContentsIs DEF b, c
<1>15. Abstract!SetToBag({v}) = [w \in {v} |-> 1]
  BY DEF Abstract!SetToBag
<1>16. less = [w \in DOMAIN b |-> IF w \in DOMAIN Abstract!SetToBag({v})
                                  THEN b[w] - Abstract!SetToBag({v})[w] ELSE b[w]]
  BY <1>15 DEF less
<1>17. Contents' = Abstract!(-)(Contents, Abstract!SetToBag({v}))
  BY <1>13, <1>14, <1>16 DEF Abstract!(-)
<1>18. Abstract!Take(v)
  BY <1>10, <1>14, <1>17 DEF Abstract!Take, Abstract!BagIn, Abstract!BagToSet
<1> QED
  BY <1>6, <1>18

(***************************************************************************)
(* min_queue.h: the array is a priority queue.  Every push adds its value  *)
(* and nothing else, every pop takes out one smallest value; no sequence   *)
(* of them loses or repeats one.                                           *)
(***************************************************************************)
THEOREM HeapIsPriorityQueue == Spec => IsPriorityQueue
<1>1. Init => Contents = Abstract!EmptyBag
  <2> SUFFICES ASSUME Init
               PROVE  Contents = Abstract!EmptyBag
    OBVIOUS
  <2>1. DOMAIN e = {}
    BY DEF Init, Q!NoItems
  <2> QED
    BY <2>1 DEF Contents, Abstract!EmptyBag, Abstract!SetToBag
<1>2. HeapInv /\ [Next]_vars => [\E v \in Keys : Abstract!Put(v) \/ Abstract!Take(v)]_Contents
  <2> SUFFICES ASSUME HeapInv, [Next]_vars
               PROVE  [\E v \in Keys : Abstract!Put(v) \/ Abstract!Take(v)]_Contents
    OBVIOUS
  <2>1. CASE \E v \in Keys : Push(v)
    BY <2>1, PushPuts
  <2>2. CASE Pop /\ e # Q!NoItems
    BY <2>2, PopTakes
  <2>3. CASE Pop /\ e = Q!NoItems
    <3>1. DOMAIN e = {}
      BY <2>3 DEF Q!NoItems
    <3>2. Q!Size(e) = 0
      BY <3>1, SameSize, FS_EmptySet
    <3> QED
      BY <2>3, <3>2 DEF Pop, Contents
  <2>4. CASE PushFails \/ UNCHANGED vars
    BY <2>4 DEF PushFails, vars, Contents
  <2> QED
    BY <2>1, <2>2, <2>3, <2>4 DEF Next
<1> QED
  BY <1>1, <1>2, InitHeap, NextHeap, PTL DEF Spec, IsPriorityQueue, Abstract!Contract
=============================================================================
