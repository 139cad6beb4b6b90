---------------------------- MODULE PriorityQueue ----------------------------
(***************************************************************************)
(* What min_queue.h promises its user: a bag of values of which a smallest *)
(* one is taken out first.                                                 *)
(***************************************************************************)
EXTENDS Integers, Bags

CONSTANT Keys       \* the values, ordered as the integers they are

VARIABLE bag

Put(v) == bag' = bag (+) SetToBag({v})

Take(v) ==
    /\ BagIn(v, bag)
    /\ \A w \in BagToSet(bag) : v <= w
    /\ bag' = bag (-) SetToBag({v})

Contract == bag = EmptyBag /\ [][\E v \in Keys : Put(v) \/ Take(v)]_bag
=============================================================================
