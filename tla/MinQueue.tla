------------------------------ MODULE MinQueue ------------------------------
(***************************************************************************)
(* min_queue.c: a priority queue kept as a binary heap in an array.  The   *)
(* array starts at 0 but the children of i are 2i and 2i + 1, so the root  *)
(* has one child, 1, and every other node two.                             *)
(*                                                                         *)
(* A heap is a function from 0 .. size - 1 to the values.  The loops that  *)
(* move a value up or down the tree are given by the slots they visit.     *)
(***************************************************************************)
EXTENDS Integers, FiniteSets

CONSTANT Greater(_, _)  \* q->cmp(a, b)

Size(e) == Cardinality(DOMAIN e)

NoItems == [i \in {} |-> 0]

Parent(i) == i \div 2

\* The slots a new value v pushes down on its way up from slot i.
Lifted(e, v, i) ==
    LET up[j \in 0 .. i] ==
          IF j # 0 /\ Greater(e[Parent(j)], v) THEN {j} \cup up[Parent(j)] ELSE {}
    IN  up[i]

\* The heap once v is inserted: minq_push.
Pushed(e, v) ==
    LET n == Size(e)
        lifted == Lifted(e, v, n)
        stop == IF lifted = {} THEN n
                ELSE Parent(CHOOSE i \in lifted : \A j \in lifted : i <= j)
    IN  [i \in 0 .. n |->
            IF i = stop THEN v ELSE IF i \in lifted THEN e[Parent(i)] ELSE e[i]]

\* Mutant of MinChild: the right child is not looked at.
LeftChild(e, i) == IF 2 * i < Size(e) THEN 2 * i ELSE 0

\* has_child: the smaller child of slot i, 0 if it has none.
MinChild(e, i) ==
    LET left == 2 * i
        right == 2 * i + 1
    IN  IF left >= Size(e) THEN 0
        ELSE IF right < Size(e) /\ Greater(e[left], e[right]) THEN right ELSE left

\* The slots the value v goes through on its way down from slot i.
Sunk(e, v, i) ==
    LET down[j \in DOMAIN e] ==
          LET child == MinChild(e, j)
          IN  IF child # 0 /\ Greater(v, e[child]) THEN {j} \cup down[child] ELSE {}
    IN  down[i]

\* Mutant of Popped: the last value stays where it is put, at the root.
PoppedUnsunk(e) ==
    [i \in 0 .. Size(e) - 2 |-> IF i = 0 THEN e[Size(e) - 1] ELSE e[i]]

\* The heap once its root is taken out: minq_pop on a queue that is not empty.
Popped(e) ==
    LET n == Size(e) - 1
        v == e[n]
        f == [i \in 0 .. n - 1 |-> IF i = 0 THEN v ELSE e[i]]
        sunk == Sunk(f, v, 0)
        stop == IF sunk = {} THEN 0
                ELSE MinChild(f, CHOOSE i \in sunk : \A j \in sunk : j <= i)
    IN  IF n = 0 THEN NoItems
        ELSE [i \in 0 .. n - 1 |->
                IF i = stop THEN v ELSE IF i \in sunk THEN f[MinChild(f, i)] ELSE f[i]]

Peek(e) == e[0]
=============================================================================
