--------------------------- MODULE MinQueueProofs ---------------------------
(***************************************************************************)
(* Proofs about the functions of min_queue.c, for every heap and every     *)
(* comparison that is a total preorder.                                    *)
(***************************************************************************)
EXTENDS MinQueue, TLAPS, NaturalsInduction, WellFoundedInduction, FiniteSetTheorems

\* A set of numbers that is not empty has a least element.
LEMMA LeastNumber ==
    ASSUME NEW T \in SUBSET Nat, T # {}
    PROVE  \E i \in T : \A j \in T : i <= j
<1>1. PICK i \in T : \A j \in T : ~ (<<j, i>> \in OpToRel(<, Nat))
  BY NatLessThanWellFounded, WFMin
<1>2. ASSUME NEW j \in T
      PROVE  i <= j
  <2>1. ~ (<<j, i>> \in {ss \in Nat \X Nat : ss[1] < ss[2]})
    BY <1>1, <1>2, Zenon DEF OpToRel
  <2>2. ~ (j < i)
    BY <2>1
  <2> QED
    BY <2>2
<1> QED
  BY <1>2

\* So does one that has a bound have a greatest.
LEMMA GreatestNumber ==
    ASSUME NEW n \in Nat, NEW T \in SUBSET (0 .. n), T # {}
    PROVE  \E i \in T : \A j \in T : j <= i
<1> DEFINE U == {n - j : j \in T}
<1>1. U \in SUBSET Nat /\ U # {}
  <2>1. \A j \in T : n - j \in Nat
    OBVIOUS
  <2>2. PICK j \in T : TRUE
    OBVIOUS
  <2>3. n - j \in U
    OBVIOUS
  <2> QED
    BY <2>1, <2>3
<1>2. PICK u \in U : \A w \in U : u <= w
  BY <1>1, LeastNumber
<1>3. PICK i \in T : u = n - i
  BY <1>2
<1>4. ASSUME NEW j \in T
      PROVE  j <= i
  <2>1. n - j \in U
    OBVIOUS
  <2>2. n - i <= n - j
    BY <1>2, <1>3, <2>1
  <2> QED
    BY <2>2
<1> QED
  BY <1>4

-----------------------------------------------------------------------------
(***************************************************************************)
(* A loop that goes from slot j to s[j] as long as j is in P, and collects *)
(* the slots it leaves: f[j] is what it collects from j on.                *)
(***************************************************************************)
Collects(f, S, P, s) == f = [j \in S |-> IF j \in P THEN {j} \cup f[s[j]] ELSE {}]

\* There is such a function: the least sets closed under s.
LEMMA CollectsExists ==
    ASSUME NEW S, NEW P \in SUBSET S, NEW s, \A j \in P : s[j] \in S
    PROVE  \E f : Collects(f, S, P, s)
<1> DEFINE Closed(T) == \A k \in T : s[k] \in P => s[k] \in T
           g == [j \in S |-> {k \in P : \A T \in SUBSET P : Closed(T) /\ (j \in P => j \in T) => k \in T}]
<1>1. ASSUME NEW j \in S, j \notin P
      PROVE  g[j] = {}
  <2>1. {} \in SUBSET P /\ Closed({})
    OBVIOUS
  <2> QED
    BY <1>1, <2>1
<1>2. ASSUME NEW j \in P
      PROVE  g[j] = {j} \cup g[s[j]]
  <2>1. j \in S /\ s[j] \in S
    OBVIOUS
  <2>2. j \in g[j]
    BY <2>1
  <2>3. ASSUME NEW k \in g[s[j]]
        PROVE  k \in g[j]
    <3>1. k \in P /\ \A T \in SUBSET P : Closed(T) /\ (s[j] \in P => s[j] \in T) => k \in T
      BY <2>1, <2>3
    <3>2. \A T \in SUBSET P : Closed(T) /\ j \in T => k \in T
      BY <3>1
    <3> QED
      BY <2>1, <3>1, <3>2
  <2>4. ASSUME NEW k \in g[j], k # j
        PROVE  k \in g[s[j]]
    <3>1. k \in P /\ \A T \in SUBSET P : Closed(T) /\ j \in T => k \in T
      BY <2>1, <2>4
    <3>2. ASSUME NEW T \in SUBSET P, Closed(T), s[j] \in P => s[j] \in T
          PROVE  k \in T
      <4>1. T \cup {j} \in SUBSET P /\ Closed(T \cup {j}) /\ j \in T \cup {j}
        BY <3>2
      <4>2. k \in T \cup {j}
        BY <3>1, <4>1
      <4> QED
        BY <2>4, <4>2
    <3> QED
      BY <2>1, <3>1, <3>2
  <2> HIDE DEF g
  <2> QED
    BY <2>2, <2>3, <2>4
<1>3. g = [j \in S |-> g[j]]
  OBVIOUS
<1> HIDE DEF g
<1>4. g = [j \in S |-> IF j \in P THEN {j} \cup g[s[j]] ELSE {}]
  BY <1>1, <1>2, <1>3
<1> QED
  BY <1>4 DEF Collects

(***************************************************************************)
(* What such a loop collects, if each of its steps lowers a rank: slots of *)
(* P, one after the other from the first to one that s leads out of P.     *)
(***************************************************************************)
Path(C, j, P, s) ==
    /\ C \subseteq P
    /\ j \in P => j \in C
    /\ C # {} => j \in C
    /\ \A k \in C : s[k] \in P => s[k] \in C
    /\ \A k \in C : k = j \/ \E m \in C : s[m] = k

LEMMA CollectsPath ==
    ASSUME NEW S, NEW P \in SUBSET S, NEW s, \A j \in P : s[j] \in S,
           NEW rank \in [S -> Nat], \A j \in P : rank[s[j]] < rank[j],
           NEW f, Collects(f, S, P, s)
    PROVE  \A j \in S : Path(f[j], j, P, s)
<1>1. \A j \in S : f[j] = IF j \in P THEN {j} \cup f[s[j]] ELSE {}
  BY DEF Collects
<1> DEFINE Wrong == {j \in S : ~ Path(f[j], j, P, s)}
<1>2. SUFFICES ASSUME Wrong # {}
               PROVE  FALSE
  OBVIOUS
<1>3. PICK j \in Wrong : \A i \in Wrong : rank[j] <= rank[i]
  <2> DEFINE R == {rank[i] : i \in Wrong}
  <2>1. R \in SUBSET Nat /\ R # {}
    BY <1>2
  <2>2. PICK r \in R : \A q \in R : r <= q
    BY <2>1, LeastNumber
  <2> QED
    BY <2>2
<1>4. j \in S /\ ~ Path(f[j], j, P, s)
  BY <1>3
<1>5. CASE j \notin P
  BY <1>1, <1>4, <1>5 DEF Path
<1>6. CASE j \in P
  <2>1. s[j] \in S /\ rank[s[j]] < rank[j] /\ rank[j] \in Nat /\ rank[s[j]] \in Nat
    BY <1>4, <1>6
  <2>2. s[j] \notin Wrong
    BY <1>3, <2>1
  <2>3. Path(f[s[j]], s[j], P, s)
    BY <2>1, <2>2
  <2>4. f[j] = {j} \cup f[s[j]]
    BY <1>1, <1>4, <1>6
  <2>5. Path(f[j], j, P, s)
    BY <1>6, <2>3, <2>4 DEF Path
  <2> QED
    BY <1>4, <2>5
<1> QED
  BY <1>5, <1>6

-----------------------------------------------------------------------------
\* The slots that Lifted and Sunk collect, and where they go from each.
Rising(e, v, i) == {j \in 1 .. i : Greater(e[Parent(j)], v)}
Up(i) == [j \in 0 .. i |-> Parent(j)]
Sinking(e, v) == {j \in DOMAIN e : MinChild(e, j) # 0 /\ Greater(v, e[MinChild(e, j)])}
Down(e) == [j \in DOMAIN e |-> MinChild(e, j)]

LEMMA ParentBelow == \A j \in Nat \ {0} : Parent(j) \in Nat /\ Parent(j) < j
BY DEF Parent

LEMMA LiftedPath ==
    ASSUME NEW e, NEW v, NEW i \in Nat
    PROVE  Path(Lifted(e, v, i), i, Rising(e, v, i), Up(i))
<1> DEFINE S == 0 .. i
           P == Rising(e, v, i)
           s == Up(i)
           Loop(f) == f = [j \in S |-> IF j # 0 /\ Greater(e[Parent(j)], v)
                                      THEN {j} \cup f[Parent(j)] ELSE {}]
           up == CHOOSE f : Loop(f)
           rank == [j \in S |-> j]
<1>1. \A j \in S : (j \in P <=> j # 0 /\ Greater(e[Parent(j)], v)) /\ s[j] = Parent(j)
  BY DEF Rising, Up
<1>2. \A f : Loop(f) <=> Collects(f, S, P, s)
  <2> SUFFICES ASSUME NEW f
               PROVE  Loop(f) <=> Collects(f, S, P, s)
    OBVIOUS
  <2>1. [j \in S |-> IF j # 0 /\ Greater(e[Parent(j)], v) THEN {j} \cup f[Parent(j)] ELSE {}]
          = [j \in S |-> IF j \in P THEN {j} \cup f[s[j]] ELSE {}]
    BY <1>1
  <2> QED
    BY <2>1, Zenon DEF Collects
<1>3. P \in SUBSET S /\ \A j \in P : s[j] \in S /\ s[j] < j
  BY ParentBelow DEF Rising, Up
<1>4. Lifted(e, v, i) = up[i]
  BY DEF Lifted
<1> HIDE DEF P, s, Loop
<1>5. Collects(up, S, P, s)
  BY <1>2, <1>3, CollectsExists
<1> HIDE DEF up
<1>6. rank \in [S -> Nat] /\ \A j \in P : rank[s[j]] < rank[j]
  BY <1>3
<1>7. i \in S /\ \A j \in P : s[j] \in S
  BY <1>3
<1> HIDE DEF S, rank
<1>8. \A j \in S : Path(up[j], j, P, s)
  BY <1>3, <1>5, <1>6, <1>7, CollectsPath
<1> QED
  BY <1>4, <1>7, <1>8 DEF P, s

LEMMA MinChildAbove ==
    ASSUME NEW n \in Nat, NEW e, DOMAIN e = 0 .. n - 1, NEW j \in 0 .. n - 1, MinChild(e, j) # 0
    PROVE  MinChild(e, j) \in 0 .. n - 1 /\ MinChild(e, j) > j /\ Parent(MinChild(e, j)) = j
<1>1. Parent(2 * j) = j /\ Parent(2 * j + 1) = j
  BY DEF Parent
<1>2. \/ MinChild(e, j) = 2 * j /\ 2 * j < n
      \/ MinChild(e, j) = 2 * j + 1 /\ 2 * j + 1 < n
  <2>1. Size(e) = n
    BY FS_Interval DEF Size
  <2> QED
    BY <2>1 DEF MinChild
<1> QED
  BY <1>1, <1>2

LEMMA SunkPath ==
    ASSUME NEW n \in Nat, NEW e, DOMAIN e = 0 .. n - 1, NEW v, NEW i \in 0 .. n - 1
    PROVE  Path(Sunk(e, v, i), i, Sinking(e, v), Down(e))
<1> DEFINE S == DOMAIN e
           P == Sinking(e, v)
           s == Down(e)
           Loop(f) == f = [j \in S |-> IF MinChild(e, j) # 0 /\ Greater(v, e[MinChild(e, j)])
                                      THEN {j} \cup f[MinChild(e, j)] ELSE {}]
           down == CHOOSE f : Loop(f)
           rank == [j \in S |-> n - j]
<1>1. \A j \in S : /\ j \in P <=> MinChild(e, j) # 0 /\ Greater(v, e[MinChild(e, j)])
                   /\ s[j] = MinChild(e, j)
  BY DEF Sinking, Down
<1>2. \A f : Loop(f) <=> Collects(f, S, P, s)
  <2> SUFFICES ASSUME NEW f
               PROVE  Loop(f) <=> Collects(f, S, P, s)
    OBVIOUS
  <2>1. [j \in S |-> IF MinChild(e, j) # 0 /\ Greater(v, e[MinChild(e, j)])
                       THEN {j} \cup f[MinChild(e, j)] ELSE {}]
          = [j \in S |-> IF j \in P THEN {j} \cup f[s[j]] ELSE {}]
    BY <1>1
  <2> QED
    BY <2>1, Zenon DEF Collects
<1>3. P \in SUBSET S /\ \A j \in P : s[j] \in S /\ s[j] > j
  BY <1>1, MinChildAbove DEF Sinking
<1>4. Sunk(e, v, i) = down[i]
  BY DEF Sunk
<1> HIDE DEF P, s, Loop
<1>5. Collects(down, S, P, s)
  BY <1>2, <1>3, CollectsExists
<1> HIDE DEF down
<1>6. rank \in [S -> Nat] /\ \A j \in P : rank[s[j]] < rank[j]
  BY <1>3
<1>7. i \in S /\ \A j \in P : s[j] \in S
  BY <1>3
<1> HIDE DEF S, rank
<1>8. \A j \in S : Path(down[j], j, P, s)
  BY <1>3, <1>5, <1>6, <1>7, CollectsPath
<1> QED
  BY <1>4, <1>7, <1>8 DEF P, s

-----------------------------------------------------------------------------
\* The comparison of min_queue.h on the values V, and the order of a heap.
TotalPreorder(V) ==
    /\ \A a, b \in V : Greater(a, b) => ~ Greater(b, a)
    /\ \A a, b, c \in V : ~ Greater(a, b) /\ ~ Greater(b, c) => ~ Greater(a, c)

Ordered(e) == \A i \in DOMAIN e \ {0} : ~ Greater(e[Parent(i)], e[i])

(***************************************************************************)
(* A push lifts over the values that are greater, and puts the new value   *)
(* where it stops: below one that is not, or at the root.                  *)
(***************************************************************************)
Lifts(e, v, n, L, stop) ==
    /\ L \in SUBSET (1 .. n) /\ stop \in (0 .. n) \ L
    /\ n \in L \cup {stop}
    /\ \A k \in L : Greater(e[Parent(k)], v)
    /\ stop # 0 => ~ Greater(e[Parent(stop)], v)
    /\ stop = n \/ Greater(e[stop], v)
    /\ \A k \in L : stop < k
    /\ \A j \in (L \cup {stop}) \ {n} : \E k \in L : Parent(k) = j

LiftedOver(e, v, n, L, stop) ==
    [i \in 0 .. n |-> IF i = stop THEN v ELSE IF i \in L THEN e[Parent(i)] ELSE e[i]]

LEMMA PushedLifts ==
    ASSUME NEW n \in Nat, NEW e, DOMAIN e = 0 .. n - 1, NEW v
    PROVE  \E L, stop : Lifts(e, v, n, L, stop) /\ Pushed(e, v) = LiftedOver(e, v, n, L, stop)
<1> DEFINE L == Lifted(e, v, n)
           least == CHOOSE i \in L : \A j \in L : i <= j
           stop == IF L = {} THEN n ELSE Parent(least)
<1>1. Size(e) = n
  BY FS_Interval DEF Size
<1>2. Pushed(e, v) = LiftedOver(e, v, n, L, stop)
  BY <1>1 DEF Pushed, LiftedOver
<1>3. Path(L, n, Rising(e, v, n), Up(n))
  BY LiftedPath
<1> HIDE DEF L
<1>4. /\ L \in SUBSET (1 .. n)
      /\ \A k \in L : Greater(e[Parent(k)], v) /\ Parent(k) \in Nat /\ Parent(k) < k
      /\ L # {} => n \in L
      /\ n # 0 /\ Greater(e[Parent(n)], v) => n \in L
      /\ \A k \in L : Parent(k) # 0 /\ Greater(e[Parent(Parent(k))], v) => Parent(k) \in L
      /\ \A k \in L : k = n \/ \E m \in L : Parent(m) = k
  <2>1. L \subseteq Rising(e, v, n) /\ Rising(e, v, n) \subseteq 1 .. n
    BY <1>3 DEF Path, Rising
  <2>2. \A k \in L : Parent(k) \in Nat /\ Parent(k) < k /\ Up(n)[k] = Parent(k)
    BY <2>1, ParentBelow DEF Up
  <2>3. \A k \in 1 .. n : k \in Rising(e, v, n) <=> Greater(e[Parent(k)], v)
    BY DEF Rising
  <2>4. /\ n \in Rising(e, v, n) => n \in L
        /\ L # {} => n \in L
        /\ \A k \in L : Up(n)[k] \in Rising(e, v, n) => Up(n)[k] \in L
        /\ \A k \in L : k = n \/ \E m \in L : Up(n)[m] = k
    BY <1>3 DEF Path
  <2> QED
    BY <2>1, <2>2, <2>3, <2>4
<1>5. CASE L = {}
  <2>1. stop = n
    BY <1>5
  <2>2. Lifts(e, v, n, {}, n)
    BY <1>4, <1>5 DEF Lifts
  <2> QED
    BY <1>2, <1>5, <2>1, <2>2
<1>6. CASE L # {}
  <2>1. least \in L /\ \A j \in L : least <= j
    <3>1. L \in SUBSET Nat
      BY <1>4
    <3>2. \E i \in L : \A j \in L : i <= j
      BY <1>6, <3>1, LeastNumber
    <3> QED
      BY <3>2
  <2> HIDE DEF least
  <2>2. stop \in 0 .. n /\ stop \notin L /\ stop < least /\ stop = Parent(least)
    BY <1>4, <1>6, <2>1
  <2>3. stop # 0 => ~ Greater(e[Parent(stop)], v)
    BY <1>4, <2>1, <2>2
  <2> HIDE DEF stop
  <2>4. Lifts(e, v, n, L, stop)
    BY <1>4, <1>6, <2>1, <2>2, <2>3 DEF Lifts
  <2> QED
    BY <1>2, <2>4
<1> QED
  BY <1>5, <1>6

\* min_queue.c:39: a push keeps the order of the heap.
LEMMA PushedOrdered ==
    ASSUME NEW n \in Nat, NEW V, NEW e \in [0 .. n - 1 -> V], NEW v \in V,
           TotalPreorder(V), Ordered(e)
    PROVE  Pushed(e, v) \in [0 .. n -> V] /\ Ordered(Pushed(e, v))
<1>1. PICK L, stop : Lifts(e, v, n, L, stop) /\ Pushed(e, v) = LiftedOver(e, v, n, L, stop)
  <2>1. DOMAIN e = 0 .. n - 1
    OBVIOUS
  <2> QED
    BY <2>1, PushedLifts
<1> DEFINE f == LiftedOver(e, v, n, L, stop)
<1>2. /\ L \in SUBSET (1 .. n) /\ stop \in (0 .. n) \ L
      /\ n \in L \cup {stop}
      /\ \A k \in L : Greater(e[Parent(k)], v)
      /\ stop # 0 => ~ Greater(e[Parent(stop)], v)
      /\ stop = n \/ Greater(e[stop], v)
      /\ \A k \in L : stop < k
  BY <1>1 DEF Lifts
<1>3. \A i \in 1 .. n : Parent(i) \in 0 .. n - 1 /\ Parent(i) < i
  BY ParentBelow
<1>4. \A i \in 0 .. n : /\ i = stop => f[i] = v
                        /\ i \in L => f[i] = e[Parent(i)]
                        /\ i # stop /\ i \notin L => i \in 0 .. n - 1 /\ f[i] = e[i]
  BY <1>2 DEF LiftedOver
<1>5. f \in [0 .. n -> V]
  BY <1>2, <1>3 DEF LiftedOver
<1> HIDE DEF f
<1>6. \A i \in 1 .. n - 1 : ~ Greater(e[Parent(i)], e[i])
  BY DEF Ordered
<1>7. ASSUME NEW i \in 1 .. n
      PROVE  ~ Greater(f[Parent(i)], f[i])
  <2> DEFINE p == Parent(i)
  <2>1. p \in 0 .. n - 1 /\ p < i /\ i \in 0 .. n /\ p \in 0 .. n
    BY <1>3
  <2>2. e[p] \in V /\ (i < n => e[i] \in V) /\ (p # 0 => Parent(p) \in 0 .. n - 1 /\ e[Parent(p)] \in V)
    BY <1>3, <2>1
  <2>3. CASE i = stop
    <3>1. p # stop /\ p \notin L
      BY <1>2, <2>1, <2>3
    <3>2. f[i] = v /\ ~ Greater(e[p], v)
      BY <1>2, <1>4, <2>3
    <3> QED
      BY <1>4, <2>1, <3>1, <3>2
  <2>4. CASE i \in L
    <3>1. f[i] = e[p] /\ Greater(e[p], v)
      BY <1>2, <1>4, <2>1, <2>4
    <3>2. CASE p = stop
      BY <1>4, <2>1, <2>2, <3>1, <3>2 DEF TotalPreorder
    <3>3. CASE p \in L
      <4>1. p \in 1 .. n - 1 /\ f[p] = e[Parent(p)]
        BY <1>2, <1>4, <2>1, <3>3
      <4> QED
        BY <1>6, <3>1, <4>1
    <3>4. CASE p # stop /\ p \notin L
      <4>1. f[p] = e[p]
        BY <1>4, <2>1, <3>4
      <4> QED
        BY <2>2, <3>1, <4>1 DEF TotalPreorder
    <3> QED
      BY <3>2, <3>3, <3>4
  <2>5. CASE i # stop /\ i \notin L
    <3>1. i \in 1 .. n - 1 /\ f[i] = e[i] /\ ~ Greater(e[p], e[i])
      BY <1>4, <1>6, <2>1, <2>5
    <3>2. CASE p = stop
      <4>1. f[p] = v /\ Greater(e[p], v)
        BY <1>2, <1>4, <2>1, <3>1, <3>2
      <4>2. ~ Greater(v, e[p])
        BY <2>2, <4>1 DEF TotalPreorder
      <4> QED
        BY <2>2, <3>1, <4>1, <4>2 DEF TotalPreorder
    <3>3. CASE p \in L
      <4>1. p \in 1 .. n - 1 /\ f[p] = e[Parent(p)] /\ ~ Greater(e[Parent(p)], e[p])
        BY <1>2, <1>4, <1>6, <2>1, <3>3
      <4> QED
        BY <2>2, <3>1, <4>1 DEF TotalPreorder
    <3>4. CASE p # stop /\ p \notin L
      BY <1>4, <2>1, <3>1, <3>4
    <3> QED
      BY <3>2, <3>3, <3>4
  <2> QED
    BY <2>3, <2>4, <2>5
<1>8. Pushed(e, v) = f
  BY <1>1 DEF f
<1>9. Ordered(f)
  <2>1. DOMAIN f \ {0} = 1 .. n
    BY <1>5
  <2> QED
    BY <1>7, <2>1 DEF Ordered
<1> QED
  BY <1>5, <1>8, <1>9

-----------------------------------------------------------------------------
(***************************************************************************)
(* A pop puts the last value at the root and sinks it over the smaller     *)
(* child as long as that one is smaller than it.                           *)
(***************************************************************************)
Rooted(e, n) == [i \in 0 .. n - 1 |-> IF i = 0 THEN e[n] ELSE e[i]]

Sinks(f, v, n, D, stop) ==
    /\ D \in SUBSET (0 .. n - 1) /\ stop \in (0 .. n - 1) \ D
    /\ 0 \in D \cup {stop}
    /\ \A k \in D : MinChild(f, k) # 0 /\ Greater(v, f[MinChild(f, k)]) /\ k < stop
    /\ MinChild(f, stop) # 0 => ~ Greater(v, f[MinChild(f, stop)])
    /\ \A j \in (D \cup {stop}) \ {0} : Parent(j) \in D /\ MinChild(f, Parent(j)) = j

SunkTo(f, v, n, D, stop) ==
    [i \in 0 .. n - 1 |-> IF i = stop THEN v ELSE IF i \in D THEN f[MinChild(f, i)] ELSE f[i]]

LEMMA PoppedSinks ==
    ASSUME NEW n \in Nat \ {0}, NEW e, DOMAIN e = 0 .. n
    PROVE  \E D, stop : /\ Sinks(Rooted(e, n), e[n], n, D, stop)
                       /\ Popped(e) = SunkTo(Rooted(e, n), e[n], n, D, stop)
<1> DEFINE v == e[n]
           f == Rooted(e, n)
           D == Sunk(f, v, 0)
           greatest == CHOOSE i \in D : \A j \in D : j <= i
           stop == IF D = {} THEN 0 ELSE MinChild(f, greatest)
<1>1. Size(e) - 1 = n
  BY FS_Interval DEF Size
<1>2. Popped(e) = SunkTo(f, v, n, D, stop)
  <2> DEFINE From(m) ==
               LET g == Rooted(e, m)
                   sunk == Sunk(g, e[m], 0)
                   end == IF sunk = {} THEN 0
                          ELSE MinChild(g, CHOOSE i \in sunk : \A j \in sunk : j <= i)
               IN  IF m = 0 THEN NoItems ELSE SunkTo(g, e[m], m, sunk, end)
  <2>1. Popped(e) = From(Size(e) - 1)
    BY DEF Popped, SunkTo, Rooted
  <2>2. From(n) = SunkTo(f, v, n, D, stop)
    OBVIOUS
  <2> HIDE DEF From
  <2> QED
    BY <1>1, <2>1, <2>2
<1>3. DOMAIN f = 0 .. n - 1
  BY DEF Rooted
<1> HIDE DEF f, v
<1>4. Path(D, 0, Sinking(f, v), Down(f))
  BY <1>3, SunkPath
<1> HIDE DEF D
<1>5. /\ D \in SUBSET (0 .. n - 1)
      /\ \A k \in D : /\ MinChild(f, k) # 0 /\ Greater(v, f[MinChild(f, k)])
                     /\ MinChild(f, k) \in 0 .. n - 1 /\ MinChild(f, k) > k
                     /\ Parent(MinChild(f, k)) = k
      /\ D # {} => 0 \in D
      /\ MinChild(f, 0) # 0 /\ Greater(v, f[MinChild(f, 0)]) => 0 \in D
      /\ \A k \in D : LET c == MinChild(f, k)
                     IN  MinChild(f, c) # 0 /\ Greater(v, f[MinChild(f, c)]) => c \in D
      /\ \A k \in D : k = 0 \/ \E m \in D : MinChild(f, m) = k
  <2>1. D \subseteq Sinking(f, v) /\ Sinking(f, v) \subseteq 0 .. n - 1
    BY <1>3, <1>4 DEF Path, Sinking
  <2>2. \A k \in 0 .. n - 1 : k \in Sinking(f, v) <=>
            MinChild(f, k) # 0 /\ Greater(v, f[MinChild(f, k)])
    BY <1>3 DEF Sinking
  <2>3. \A k \in D : /\ MinChild(f, k) \in 0 .. n - 1 /\ MinChild(f, k) > k
                    /\ Parent(MinChild(f, k)) = k /\ Down(f)[k] = MinChild(f, k)
    BY <1>3, <2>1, <2>2, MinChildAbove DEF Down
  <2>4. /\ 0 \in Sinking(f, v) => 0 \in D
        /\ D # {} => 0 \in D
        /\ \A k \in D : Down(f)[k] \in Sinking(f, v) => Down(f)[k] \in D
        /\ \A k \in D : k = 0 \/ \E m \in D : Down(f)[m] = k
    BY <1>4 DEF Path
  <2> QED
    BY <2>1, <2>2, <2>3, <2>4
<1>6. CASE D = {}
  <2>1. stop = 0
    BY <1>6
  <2>2. Sinks(f, v, n, {}, 0)
    BY <1>5, <1>6 DEF Sinks
  <2> QED
    BY <1>2, <1>6, <2>1, <2>2 DEF f, v
<1>7. CASE D # {}
  <2>1. greatest \in D /\ \A j \in D : j <= greatest
    <3>1. D \in SUBSET (0 .. n - 1) /\ n - 1 \in Nat
      BY <1>5
    <3>2. \E i \in D : \A j \in D : j <= i
      BY <1>7, <3>1, GreatestNumber
    <3> QED
      BY <3>2
  <2> HIDE DEF greatest
  <2>2. /\ stop = MinChild(f, greatest) /\ stop > greatest
        /\ stop \in 0 .. n - 1 /\ stop \notin D /\ Parent(stop) = greatest
    BY <1>5, <1>7, <2>1
  <2>3. MinChild(f, stop) # 0 => ~ Greater(v, f[MinChild(f, stop)])
    BY <1>5, <2>1, <2>2
  <2> HIDE DEF stop
  <2>4. \A j \in (D \cup {stop}) \ {0} : Parent(j) \in D /\ MinChild(f, Parent(j)) = j
    BY <1>5, <2>1, <2>2
  <2>5. Sinks(f, v, n, D, stop)
    BY <1>5, <1>7, <2>1, <2>2, <2>3, <2>4 DEF Sinks
  <2> QED
    BY <1>2, <2>5 DEF f, v
<1> QED
  BY <1>6, <1>7

\* The smaller child is not greater than any child.
LEMMA MinChildLeast ==
    ASSUME NEW n \in Nat, NEW V, NEW f \in [0 .. n - 1 -> V], TotalPreorder(V),
           NEW i \in 1 .. n - 1, MinChild(f, Parent(i)) # 0
    PROVE  ~ Greater(f[MinChild(f, Parent(i))], f[i])
<1> DEFINE p == Parent(i)
<1>1. p \in 0 .. n - 1 /\ (i = 2 * p \/ i = 2 * p + 1) /\ Size(f) = n
  <2>1. Size(f) = n
    BY FS_Interval DEF Size
  <2> QED
    BY <2>1 DEF Parent
<1>2. \A a \in V : ~ Greater(a, a)
  BY DEF TotalPreorder
<1>3. CASE 2 * p + 1 < n /\ Greater(f[2 * p], f[2 * p + 1])
  <2>1. MinChild(f, p) = 2 * p + 1 /\ f[2 * p] \in V /\ f[2 * p + 1] \in V
    BY <1>1, <1>3 DEF MinChild
  <2> QED
    BY <1>1, <1>2, <1>3, <2>1 DEF TotalPreorder
<1>4. CASE ~ (2 * p + 1 < n /\ Greater(f[2 * p], f[2 * p + 1]))
  <2>1. MinChild(f, p) = 2 * p /\ f[2 * p] \in V
    BY <1>1, <1>4 DEF MinChild
  <2> QED
    BY <1>1, <1>2, <1>4, <2>1
<1> QED
  BY <1>3, <1>4

LEMMA RootedHeap ==
    ASSUME NEW n \in Nat \ {0}, NEW V, NEW e \in [0 .. n -> V], Ordered(e)
    PROVE  /\ Rooted(e, n) \in [0 .. n - 1 -> V]
           /\ \A i \in 1 .. n - 1 : Parent(i) # 0 =>
                ~ Greater(Rooted(e, n)[Parent(i)], Rooted(e, n)[i])
<1>1. Rooted(e, n) \in [0 .. n - 1 -> V]
  BY DEF Rooted
<1>2. ASSUME NEW i \in 1 .. n - 1, Parent(i) # 0
      PROVE  ~ Greater(Rooted(e, n)[Parent(i)], Rooted(e, n)[i])
  <2>1. Parent(i) \in 1 .. n - 1 /\ i \in DOMAIN e \ {0}
    BY <1>2, ParentBelow
  <2>2. ~ Greater(e[Parent(i)], e[i])
    BY <2>1 DEF Ordered
  <2>3. Rooted(e, n)[Parent(i)] = e[Parent(i)] /\ Rooted(e, n)[i] = e[i]
    BY <2>1 DEF Rooted
  <2> QED
    BY <2>2, <2>3
<1> QED
  BY <1>1, <1>2

\* min_queue.c:39: a pop keeps the order of the heap.
LEMMA PoppedOrdered ==
    ASSUME NEW n \in Nat, NEW V, NEW e \in [0 .. n -> V], TotalPreorder(V), Ordered(e)
    PROVE  Popped(e) \in [0 .. n - 1 -> V] /\ Ordered(Popped(e))
<1>1. CASE n = 0
  <2>1. Size(e) = 1
    <3>1. Cardinality(0 .. n) = n + 1
      BY FS_Interval
    <3> QED
      BY <1>1, <3>1 DEF Size
  <2>2. Popped(e) = NoItems
    BY <2>1 DEF Popped
  <2> QED
    BY <1>1, <2>2 DEF NoItems, Ordered
<1>2. CASE n # 0
  <2> DEFINE v == e[n]
             f == Rooted(e, n)
  <2>1. n \in Nat \ {0} /\ DOMAIN e = 0 .. n
    BY <1>2
  <2>2. PICK D, stop : Sinks(f, v, n, D, stop) /\ Popped(e) = SunkTo(f, v, n, D, stop)
    BY <2>1, PoppedSinks
  <2> DEFINE g == SunkTo(f, v, n, D, stop)
  <2>3. f \in [0 .. n - 1 -> V] /\ v \in V
    BY <2>1, RootedHeap
  <2>4. \A i \in 1 .. n - 1 : Parent(i) # 0 => ~ Greater(f[Parent(i)], f[i])
    BY <2>1, RootedHeap
  <2>5. f[0] = v
    BY <2>1 DEF Rooted
  <2> HIDE DEF f, v
  <2>6. /\ D \in SUBSET (0 .. n - 1) /\ stop \in (0 .. n - 1) \ D
        /\ 0 \in D \cup {stop}
        /\ \A k \in D : MinChild(f, k) # 0 /\ Greater(v, f[MinChild(f, k)]) /\ k < stop
        /\ MinChild(f, stop) # 0 => ~ Greater(v, f[MinChild(f, stop)])
        /\ \A j \in (D \cup {stop}) \ {0} : Parent(j) \in D /\ MinChild(f, Parent(j)) = j
    BY <2>2 DEF Sinks
  <2>7. \A k \in 0 .. n - 1 : MinChild(f, k) # 0 =>
          /\ MinChild(f, k) \in 1 .. n - 1 /\ Parent(MinChild(f, k)) = k
          /\ f[MinChild(f, k)] \in V
    <3>1. n \in Nat /\ DOMAIN f = 0 .. n - 1
      BY <2>3
    <3>2. \A k \in 0 .. n - 1 : MinChild(f, k) # 0 =>
            /\ MinChild(f, k) \in 0 .. n - 1 /\ MinChild(f, k) > k
            /\ Parent(MinChild(f, k)) = k
      BY <3>1, MinChildAbove
    <3> QED
      BY <2>3, <3>2
  <2>8. \A i \in 0 .. n - 1 : /\ i = stop => g[i] = v
                              /\ i \in D => g[i] = f[MinChild(f, i)]
                              /\ i # stop /\ i \notin D => g[i] = f[i]
    BY <2>6 DEF SunkTo
  <2>9. g \in [0 .. n - 1 -> V]
    BY <2>3, <2>6, <2>7 DEF SunkTo
  <2> HIDE DEF g
  <2>10. ASSUME NEW i \in 1 .. n - 1
         PROVE  ~ Greater(g[Parent(i)], g[i])
    <3> DEFINE q == Parent(i)
               c == MinChild(f, q)
    <3>1. q \in 0 .. n - 1 /\ q < i /\ i \in 0 .. n - 1 /\ i # 0
      BY ParentBelow
    <3>2. f[q] \in V /\ f[i] \in V /\ (c # 0 => f[c] \in V)
      BY <2>3, <2>7, <3>1
    <3>3. c # 0 => ~ Greater(f[c], f[i])
      <4>1. n \in Nat
        OBVIOUS
      <4> QED
        BY <2>3, <4>1, MinChildLeast
    <3> HIDE DEF c
    <3>4. CASE i = stop
      <4>1. q \in D /\ c = i
        BY <2>6, <3>1, <3>4 DEF c
      <4>2. g[q] = f[i] /\ g[i] = v /\ Greater(v, f[i])
        BY <2>6, <2>8, <3>1, <3>4, <4>1 DEF c
      <4> QED
        BY <2>3, <3>2, <4>2 DEF TotalPreorder
    <3>5. CASE i \in D
      <4> DEFINE d == MinChild(f, i)
      <4>1. q \in D /\ c = i
        BY <2>6, <3>1, <3>5 DEF c
      <4>2. g[q] = f[i] /\ g[i] = f[d]
        BY <2>8, <3>1, <3>5, <4>1 DEF c
      <4>3. d \in 1 .. n - 1 /\ Parent(d) = i
        BY <2>6, <2>7, <3>1, <3>5
      <4> HIDE DEF d
      <4>4. ~ Greater(f[i], f[d])
        BY <2>4, <3>1, <4>3
      <4> QED
        BY <4>2, <4>4
    <3>6. CASE i # stop /\ i \notin D
      <4>1. g[i] = f[i]
        BY <2>8, <3>1, <3>6
      <4>2. CASE q = stop
        <5>1. g[q] = v
          BY <2>8, <3>1, <4>2
        <5>2. CASE c # 0
          <6>1. ~ Greater(v, f[c])
            BY <2>6, <4>2, <5>2 DEF c
          <6> QED
            BY <2>3, <3>2, <3>3, <4>1, <5>1, <5>2, <6>1 DEF TotalPreorder
        <5>3. CASE c = 0
          <6>1. n = Size(f)
            BY <2>3, FS_Interval DEF Size
          <6>2. q = 0 /\ i = 1 /\ ~ Greater(f[0], f[1])
            BY <3>1, <5>3, <6>1 DEF c, MinChild, Parent
          <6> QED
            BY <2>5, <4>1, <5>1, <6>2
        <5> QED
          BY <5>2, <5>3
      <4>3. CASE q \in D
        <5>1. c # 0 /\ g[q] = f[c]
          BY <2>6, <2>8, <3>1, <4>3 DEF c
        <5> QED
          BY <3>3, <4>1, <5>1
      <4>4. CASE q # stop /\ q \notin D
        <5>1. q # 0 /\ g[q] = f[q]
          BY <2>6, <2>8, <3>1, <4>4
        <5> QED
          BY <2>4, <4>1, <5>1
      <4> QED
        BY <4>2, <4>3, <4>4
    <3> QED
      BY <3>4, <3>5, <3>6
  <2>11. DOMAIN g \ {0} = 1 .. n - 1
    BY <2>9
  <2>12. Ordered(g)
    BY <2>10, <2>11 DEF Ordered
  <2>13. Popped(e) = g
    BY <2>2 DEF g
  <2> QED
    BY <2>9, <2>12, <2>13
<1> QED
  BY <1>1, <1>2

\* min_queue.c:158: the root is the minimal element.
LEMMA RootLeast ==
    ASSUME NEW n \in Nat, NEW V, NEW e \in [0 .. n -> V], TotalPreorder(V), Ordered(e)
    PROVE  \A i \in 0 .. n : ~ Greater(Peek(e), e[i])
<1> DEFINE Less == {i \in 0 .. n : Greater(e[0], e[i])}
<1>1. SUFFICES ASSUME Less # {}
               PROVE  FALSE
  BY DEF Peek
<1>2. Less \in SUBSET Nat
  OBVIOUS
<1>3. PICK i \in Less : \A j \in Less : i <= j
  BY <1>1, <1>2, LeastNumber
<1>4. i \in 0 .. n /\ Greater(e[0], e[i]) /\ e[0] \in V /\ e[i] \in V
  BY <1>3
<1>5. i # 0
  BY <1>4 DEF TotalPreorder
<1>6. Parent(i) \in 0 .. n /\ Parent(i) < i /\ e[Parent(i)] \in V
  BY <1>4, <1>5, ParentBelow
<1>7. Parent(i) \notin Less
  BY <1>3, <1>4, <1>6
<1>8. ~ Greater(e[0], e[Parent(i)])
  BY <1>6, <1>7
<1>9. ~ Greater(e[Parent(i)], e[i])
  BY <1>4, <1>5 DEF Ordered
<1> QED
  BY <1>4, <1>6, <1>8, <1>9 DEF TotalPreorder

-----------------------------------------------------------------------------
(***************************************************************************)
(* No value is lost or repeated: the heap after a push is a permutation of *)
(* the heap before and the new value, and after a pop of all but the root. *)
(***************************************************************************)
With(e, v, n) == [i \in 0 .. n |-> IF i = n THEN v ELSE e[i]]

LEMMA PushedPermutes ==
    ASSUME NEW n \in Nat, NEW e, DOMAIN e = 0 .. n - 1, NEW v
    PROVE  \E m \in Bijection(0 .. n, 0 .. n) :
             \A i \in 0 .. n : Pushed(e, v)[i] = With(e, v, n)[m[i]]
<1>1. PICK L, stop : Lifts(e, v, n, L, stop) /\ Pushed(e, v) = LiftedOver(e, v, n, L, stop)
  BY PushedLifts
<1>2. /\ L \in SUBSET (1 .. n) /\ stop \in (0 .. n) \ L
      /\ n \in L \cup {stop}
      /\ \A j \in (L \cup {stop}) \ {n} : \E k \in L : Parent(k) = j
  BY <1>1 DEF Lifts
<1> DEFINE m == [i \in 0 .. n |-> IF i = stop THEN n ELSE IF i \in L THEN Parent(i) ELSE i]
<1>3. \A i \in L : Parent(i) \in 0 .. n - 1
  BY <1>2, ParentBelow
<1>4. m \in [0 .. n -> 0 .. n]
  BY <1>2, <1>3
<1>5. \A i \in 0 .. n : /\ i = stop => m[i] = n
                        /\ i \in L => m[i] = Parent(i)
                        /\ i # stop /\ i \notin L => m[i] = i
  BY <1>2
<1> HIDE DEF m
<1>6. ASSUME NEW j \in 0 .. n
      PROVE  \E i \in 0 .. n : m[i] = j
  <2>1. CASE j = n
    BY <1>2, <1>5, <2>1
  <2>2. CASE j # n /\ j \in L \cup {stop}
    BY <1>2, <1>5, <2>2
  <2>3. CASE j # n /\ j \notin L \cup {stop}
    BY <1>5, <2>3
  <2> QED
    BY <2>1, <2>2, <2>3
<1>7. m \in Surjection(0 .. n, 0 .. n)
  BY <1>4, <1>6 DEF Surjection
<1>8. m \in Bijection(0 .. n, 0 .. n)
  BY <1>7, FS_Interval, FS_SurjSameCardinalityImpliesInj DEF Bijection
<1>9. ASSUME NEW i \in 0 .. n
      PROVE  Pushed(e, v)[i] = With(e, v, n)[m[i]]
  <2>1. i = stop \/ i \in L \/ (i # stop /\ i \notin L /\ i # n)
    BY <1>2
  <2> QED
    BY <1>1, <1>2, <1>3, <1>5, <2>1 DEF LiftedOver, With
<1> QED
  BY <1>8, <1>9

LEMMA PoppedPermutes ==
    ASSUME NEW n \in Nat, NEW e, DOMAIN e = 0 .. n
    PROVE  \E m \in Bijection(0 .. n - 1, 1 .. n) :
             \A i \in 0 .. n - 1 : Popped(e)[i] = e[m[i]]
<1>1. CASE n = 0
  <2> DEFINE m == [i \in {} |-> 0]
  <2>1. 0 .. n - 1 = {} /\ 1 .. n = {}
    BY <1>1
  <2>2. m \in Bijection({}, {})
    BY DEF Bijection, Injection, IsInjective, Surjection
  <2> QED
    BY <2>1, <2>2
<1>2. CASE n # 0
  <2> DEFINE f == Rooted(e, n)
             v == e[n]
  <2>1. n \in Nat \ {0}
    BY <1>2
  <2>2. PICK D, stop : Sinks(f, v, n, D, stop) /\ Popped(e) = SunkTo(f, v, n, D, stop)
    BY <2>1, PoppedSinks
  <2>3. DOMAIN f = 0 .. n - 1 /\ \A i \in 1 .. n - 1 : f[i] = e[i]
    BY <2>1 DEF Rooted
  <2> HIDE DEF f
  <2>4. /\ D \in SUBSET (0 .. n - 1) /\ stop \in (0 .. n - 1) \ D
        /\ 0 \in D \cup {stop}
        /\ \A k \in D : MinChild(f, k) # 0
        /\ \A j \in (D \cup {stop}) \ {0} : Parent(j) \in D /\ MinChild(f, Parent(j)) = j
    BY <2>2 DEF Sinks
  <2> DEFINE m == [i \in 0 .. n - 1 |-> IF i = stop THEN n
                                       ELSE IF i \in D THEN MinChild(f, i) ELSE i]
  <2>5. \A i \in D : MinChild(f, i) \in 1 .. n - 1
    BY <2>3, <2>4, MinChildAbove
  <2>6. m \in [0 .. n - 1 -> 1 .. n]
    BY <2>1, <2>4, <2>5
  <2>7. \A i \in 0 .. n - 1 : /\ i = stop => m[i] = n
                              /\ i \in D => m[i] = MinChild(f, i)
                              /\ i # stop /\ i \notin D => i # 0 /\ m[i] = i
    BY <2>4
  <2> HIDE DEF m
  <2>8. ASSUME NEW j \in 1 .. n
        PROVE  \E i \in 0 .. n - 1 : m[i] = j
    <3>1. CASE j = n
      BY <2>4, <2>7, <3>1
    <3>2. CASE j # n /\ j \in D \cup {stop}
      <4>1. Parent(j) \in D /\ MinChild(f, Parent(j)) = j
        BY <2>4, <3>2
      <4> QED
        BY <2>4, <2>7, <4>1
    <3>3. CASE j # n /\ j \notin D \cup {stop}
      BY <2>7, <3>3
    <3> QED
      BY <3>1, <3>2, <3>3
  <2>9. m \in Surjection(0 .. n - 1, 1 .. n)
    BY <2>6, <2>8 DEF Surjection
  <2>10. IsFiniteSet(0 .. n - 1) /\ Cardinality(0 .. n - 1) = Cardinality(1 .. n)
    BY <2>1, FS_Interval
  <2>11. m \in Bijection(0 .. n - 1, 1 .. n)
    BY <2>9, <2>10, FS_SurjSameCardinalityImpliesInj DEF Bijection
  <2>12. ASSUME NEW i \in 0 .. n - 1
         PROVE  Popped(e)[i] = e[m[i]]
    <3>1. CASE i = stop
      BY <2>2, <2>7, <3>1 DEF SunkTo
    <3>2. CASE i \in D
      BY <2>2, <2>3, <2>4, <2>5, <2>7, <3>2 DEF SunkTo
    <3>3. CASE i # stop /\ i \notin D
      BY <2>2, <2>3, <2>7, <3>3 DEF SunkTo
    <3> QED
      BY <3>1, <3>2, <3>3
  <2> QED
    BY <2>11, <2>12
<1> QED
  BY <1>1, <1>2

\* The slots of S that hold w in f.
Where(S, f, w) == {i \in S : f[i] = w}

\* A rearrangement leaves every value as often as it was.
LEMMA SameCount ==
    ASSUME NEW S, IsFiniteSet(S), NEW T, NEW m \in Bijection(S, T),
           NEW g, NEW h, \A i \in S : g[i] = h[m[i]], NEW w
    PROVE  Cardinality(Where(S, g, w)) = Cardinality(Where(T, h, w))
<1> USE DEF Where
<1> DEFINE A == Where(S, g, w)
           B == Where(T, h, w)
           r == [i \in A |-> m[i]]
<1>1. /\ m \in [S -> T]
      /\ \A i, j \in S : m[i] = m[j] => i = j
      /\ \A t \in T : \E i \in S : m[i] = t
  BY DEF Bijection, Injection, IsInjective, Surjection
<1>2. r \in [A -> B]
  BY <1>1
<1>3. \A i, j \in A : r[i] = r[j] => i = j
  BY <1>1
<1>4. \A t \in B : \E i \in A : r[i] = t
  BY <1>1
<1>5. r \in Bijection(A, B)
  BY <1>2, <1>3, <1>4 DEF Bijection, Injection, IsInjective, Surjection
<1>6. IsFiniteSet(A)
  BY FS_Subset
<1> QED
  BY <1>5, <1>6, FS_Bijection DEF ExistsBijection

\* How often w is in the array f.
Count(f, w) == Cardinality(Where(DOMAIN f, f, w))

LEMMA CountType ==
    ASSUME NEW n \in Int, NEW f, DOMAIN f = 0 .. n
    PROVE  \A w : /\ Count(f, w) \in Nat
                  /\ Count(f, w) > 0 <=> w \in {f[i] : i \in DOMAIN f}
<1> SUFFICES ASSUME NEW w
             PROVE  Count(f, w) \in Nat /\ (Count(f, w) > 0 <=> w \in {f[i] : i \in DOMAIN f})
  OBVIOUS
<1> USE DEF Where
<1> DEFINE A == Where(DOMAIN f, f, w)
<1>1. IsFiniteSet(A)
  <2>1. IsFiniteSet(DOMAIN f)
    BY FS_Interval
  <2> QED
    BY <2>1, FS_Subset
<1>2. Cardinality(A) \in Nat /\ (Cardinality(A) = 0 <=> A = {})
  BY <1>1, FS_CardinalityType, FS_EmptySet
<1>3. A = {} <=> w \notin {f[i] : i \in DOMAIN f}
  OBVIOUS
<1> QED
  BY <1>2, <1>3 DEF Count

\* min_queue.c:82: a push adds its value, and nothing else.
LEMMA PushedCount ==
    ASSUME NEW n \in Nat, NEW e, DOMAIN e = 0 .. n - 1, NEW v
    PROVE  \A w : Count(Pushed(e, v), w) = Count(e, w) + (IF w = v THEN 1 ELSE 0)
<1> SUFFICES ASSUME NEW w
             PROVE  Count(Pushed(e, v), w) = Count(e, w) + (IF w = v THEN 1 ELSE 0)
  OBVIOUS
<1> DEFINE g == Pushed(e, v)
           h == With(e, v, n)
           A == Where(0 .. n - 1, e, w)
           B == Where(0 .. n, h, w)
<1>1. PICK m \in Bijection(0 .. n, 0 .. n) : \A i \in 0 .. n : g[i] = h[m[i]]
  <2>1. \E m \in Bijection(0 .. n, 0 .. n) :
           \A i \in 0 .. n : Pushed(e, v)[i] = With(e, v, n)[m[i]]
    BY PushedPermutes
  <2> QED
    BY <2>1
<1>2. DOMAIN g = 0 .. n
  BY PushedLifts DEF LiftedOver
<1>3. IsFiniteSet(0 .. n) /\ IsFiniteSet(0 .. n - 1)
  BY FS_Interval
<1>4. IsFiniteSet(A)
  BY <1>3, FS_Subset DEF Where
<1> HIDE DEF g
<1>5. Cardinality(Where(0 .. n, g, w)) = Cardinality(B)
  <2> HIDE DEF h
  <2> QED
    BY <1>1, <1>3, SameCount
<1>6. B = IF w = v THEN A \cup {n} ELSE A
  <2>1. \A j \in 0 .. n : h[j] = IF j = n THEN v ELSE e[j]
    BY DEF With
  <2>2. \A j : j \in 0 .. n <=> j \in 0 .. n - 1 \/ j = n
    OBVIOUS
  <2>3. n \notin 0 .. n - 1
    OBVIOUS
  <2> HIDE DEF h
  <2> QED
    BY <2>1, <2>2, <2>3 DEF Where
<1>7. Cardinality(B) = Cardinality(A) + (IF w = v THEN 1 ELSE 0)
  <2>1. n \notin A
    BY DEF Where
  <2>2. Cardinality(A \cup {n}) = Cardinality(A) + 1 /\ Cardinality(A) \in Nat
    BY <1>4, <2>1, FS_AddElement, FS_CardinalityType
  <2> HIDE DEF A, B
  <2> QED
    BY <1>6, <2>2
<1> QED
  BY <1>2, <1>5, <1>7 DEF Count, g

\* min_queue.c:132: a pop takes out the root, and nothing else.
LEMMA PoppedCount ==
    ASSUME NEW n \in Nat, NEW e, DOMAIN e = 0 .. n, DOMAIN Popped(e) = 0 .. n - 1
    PROVE  \A w : Count(e, w) = Count(Popped(e), w) + (IF w = Peek(e) THEN 1 ELSE 0)
<1> SUFFICES ASSUME NEW w
             PROVE  Count(e, w) = Count(Popped(e), w) + (IF w = Peek(e) THEN 1 ELSE 0)
  OBVIOUS
<1> DEFINE g == Popped(e)
           A == Where(0 .. n, e, w)
           B == Where(1 .. n, e, w)
<1>1. PICK m \in Bijection(0 .. n - 1, 1 .. n) : \A i \in 0 .. n - 1 : g[i] = e[m[i]]
  BY PoppedPermutes
<1>2. DOMAIN g = 0 .. n - 1
  OBVIOUS
<1>3. IsFiniteSet(1 .. n) /\ IsFiniteSet(0 .. n - 1)
  BY FS_Interval
<1>4. IsFiniteSet(B)
  BY <1>3, FS_Subset DEF Where
<1> HIDE DEF g
<1>5. Cardinality(Where(0 .. n - 1, g, w)) = Cardinality(B)
  <2> DEFINE S == 0 .. n - 1
             T == 1 .. n
  <2>1. IsFiniteSet(S) /\ m \in Bijection(S, T) /\ \A i \in S : g[i] = e[m[i]]
    BY <1>1, <1>3
  <2> HIDE DEF S, T
  <2>2. Cardinality(Where(S, g, w)) = Cardinality(Where(T, e, w))
    BY <2>1, SameCount
  <2> QED
    BY <2>2 DEF S, T
<1>6. A = IF w = e[0] THEN B \cup {0} ELSE B
  <2>1. \A j : j \in 0 .. n <=> j \in 1 .. n \/ j = 0
    OBVIOUS
  <2> QED
    BY <2>1 DEF Where
<1>7. Cardinality(A) = Cardinality(B) + (IF w = e[0] THEN 1 ELSE 0)
  <2>1. 0 \notin B
    BY DEF Where
  <2>2. Cardinality(B \cup {0}) = Cardinality(B) + 1 /\ Cardinality(B) \in Nat
    BY <1>4, <2>1, FS_AddElement, FS_CardinalityType
  <2> HIDE DEF A, B
  <2> QED
    BY <1>6, <2>2
<1> QED
  BY <1>2, <1>5, <1>7 DEF Count, Peek, g
=============================================================================
