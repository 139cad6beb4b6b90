---------------------------- MODULE MinQueueSpec ----------------------------
(***************************************************************************)
(* A queue of min_queue.c used by a program: any sequence of minq_push and *)
(* minq_pop, with the array growing by SlotsPerMalloc slots when it is     *)
(* full, or failing to grow.                                               *)
(***************************************************************************)
EXTENDS Integers, FiniteSets

CONSTANTS
    Keys,           \* the values pushed
    SlotsPerMalloc, \* SLOTS_PER_MALLOC
    MaxSize         \* bound: the size at which this instance stops pushing

ASSUME KeysAssumption == Keys \subseteq Int
ASSUME SizesAssumption == SlotsPerMalloc \in Nat \ {0} /\ MaxSize \in Nat

VARIABLES
    e,              \* q->e, the slots in use
    alloc           \* q->alloc

vars == <<e, alloc>>

After(a, b) == a > b
Q == INSTANCE MinQueue WITH Greater <- After

\* minq_new
Init == e = Q!NoItems /\ alloc = SlotsPerMalloc

\* Mutant of Push: the array is taken to be large enough.
PushInPlace(v) ==
    /\ Q!Size(e) < MaxSize
    /\ e' = Q!Pushed(e, v)
    /\ UNCHANGED alloc

\* minq_push, which reallocates first if every slot is taken.
Push(v) ==
    /\ Q!Size(e) < MaxSize
    /\ e' = Q!Pushed(e, v)
    /\ alloc' = IF Q!Size(e) = alloc THEN alloc + SlotsPerMalloc ELSE alloc

\* minq_push when realloc fails: -1, and the queue is left as it was.
PushFails == Q!Size(e) = alloc /\ UNCHANGED vars

\* minq_pop; on an empty queue it does nothing.
Pop ==
    /\ e' = IF Q!Size(e) = 0 THEN e ELSE Q!Popped(e)
    /\ UNCHANGED alloc

Next == (\E v \in Keys : Push(v)) \/ PushFails \/ Pop

Spec == Init /\ [][Next]_vars
-----------------------------------------------------------------------------
(***************************************************************************)
(* The array holds values in its first slots, never more than allocated.   *)
(***************************************************************************)
TypeOK ==
    /\ \E n \in 0 .. alloc : e \in [0 .. n - 1 -> Keys]
    /\ alloc \in {k * SlotsPerMalloc : k \in 1 .. MaxSize \div SlotsPerMalloc + 1}

(***************************************************************************)
(* min_queue.c:39-41: no node of the tree is greater than its children,    *)
(* through every sequence of pushes and pops.                              *)
(***************************************************************************)
HeapOrder == \A i \in DOMAIN e \ {0} : e[Q!Parent(i)] <= e[i]

\* The values in the array, with their multiplicities.
Contents == [v \in {e[i] : i \in DOMAIN e} |-> Cardinality({i \in DOMAIN e : e[i] = v})]

Abstract == INSTANCE PriorityQueue WITH bag <- Contents

(***************************************************************************)
(* The array is a priority queue: a push adds its value and nothing else,  *)
(* a pop takes out one smallest value, whatever the ties, and no move of   *)
(* the heap loses or repeats a value.                                      *)
(***************************************************************************)
IsPriorityQueue == Abstract!Contract
=============================================================================
