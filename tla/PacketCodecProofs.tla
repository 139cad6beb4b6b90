------------------------- MODULE PacketCodecProofs -------------------------
(***************************************************************************)
(* Proofs about packet.py and the codecs of the other groups, for fields   *)
(* and bytes of any width, and any CRC that sees the change of one byte.   *)
(***************************************************************************)
EXTENDS PacketCodec, SequenceTheorems, NaturalsInduction, WellFoundedInduction, TLAPS

-----------------------------------------------------------------------------
\* Recursion over the natural numbers.

\* A set of numbers that is not empty has a least element.
LEMMA LeastNumber ==
    ASSUME NEW T \in SUBSET Nat, T # {}
    PROVE  \E i \in T : \A j \in T : i <= j
<1>1. PICK i \in T : \A j \in T : ~ (<<j, i>> \in OpToRel(<, Nat))
  BY NatLessThanWellFounded, WFMin
<1>2. ASSUME NEW j \in T
      PROVE  i <= j
  <2>1. ~ (<<j, i>> \in {ss \in Nat \X Nat : ss[1] < ss[2]})
    BY <1>1, <1>2, Zenon DEF OpToRel
  <2>2. ~ (j < i)
    BY <2>1
  <2> QED
    BY <2>2
<1> QED
  BY <1>2

\* So induction over a set of numbers: what holds of no first number fails, holds.
LEMMA Induction ==
    ASSUME NEW D \in SUBSET Nat, NEW T \in SUBSET D,
           \A i \in D : i # 0 => i - 1 \in D,
           0 \in D => 0 \in T,
           \A i \in D : i # 0 /\ i - 1 \in T => i \in T
    PROVE  T = D
<1> SUFFICES ASSUME D \ T # {} PROVE FALSE
  OBVIOUS
<1>1. PICK i \in D \ T : \A j \in D \ T : i <= j
  BY LeastNumber
<1>2. i # 0 /\ i \in Nat
  BY <1>1
<1>3. i - 1 \in D /\ ~ (i <= i - 1)
  BY <1>1, <1>2
<1> QED
  BY <1>1, <1>2, <1>3

\* f is defined by recursion on D: b at 0, and by the step G elsewhere.
Recursive(f, D, b, G) == f = [i \in D |-> IF i = 0 THEN b ELSE G[i][f[i - 1]]]

\* Whether h is as f up to n.
UpTo(h, n, V, b, G) ==
    h \in [0 .. n -> V] /\ h[0] = b /\ \A i \in 1 .. n : h[i] = G[i][h[i - 1]]

LEMMA UpToUnique ==
    ASSUME NEW V, NEW b, NEW G, NEW m \in Nat, NEW n \in Nat, m <= n,
           NEW g, UpTo(g, m, V, b, G), NEW h, UpTo(h, n, V, b, G)
    PROVE  \A i \in 0 .. m : g[i] = h[i]
<1> DEFINE D == 0 .. m
           T == {i \in D : g[i] = h[i]}
<1>1. D \in SUBSET Nat /\ T \in SUBSET D /\ \A i \in D : i # 0 => i - 1 \in D
  OBVIOUS
<1>2. 0 \in T
  BY DEF UpTo
<1>3. ASSUME NEW i \in D, i # 0, i - 1 \in T
      PROVE  i \in T
  <2>1. i \in 1 .. m /\ i \in 1 .. n
    BY <1>3
  <2> QED
    BY <1>3, <2>1 DEF UpTo
<1> HIDE DEF T, D
<1>4. T = D
  BY <1>1, <1>2, <1>3, Induction
<1> QED
  BY <1>4 DEF T, D

\* The recursion defines a function with values in V, if its steps stay in V.
LEMMA RecursionExists ==
    ASSUME NEW D \in SUBSET Nat, \A i \in D : i # 0 => i - 1 \in D,
           NEW V, NEW b \in V, NEW G, \A i \in D : i # 0 => \A v \in V : G[i][v] \in V
    PROVE  \E f \in [D -> V] : Recursive(f, D, b, G)
<1> DEFINE T == {n \in D : \E h : UpTo(h, n, V, b, G)}
<1>1. 0 \in D => 0 \in T
  <2>1. UpTo([i \in 0 .. 0 |-> b], 0, V, b, G)
    BY DEF UpTo
  <2> QED
    BY <2>1
<1>2. ASSUME NEW n \in D, n # 0, n - 1 \in T
      PROVE  n \in T
  <2>1. PICK h : UpTo(h, n - 1, V, b, G)
    BY <1>2
  <2>2. n \in Nat /\ n - 1 \in Nat /\ 0 .. n = (0 .. n - 1) \cup {n}
    BY <1>2
  <2>3. h[n - 1] \in V /\ G[n][h[n - 1]] \in V
    BY <1>2, <2>1, <2>2 DEF UpTo
  <2> DEFINE g == [i \in 0 .. n |-> IF i = n THEN G[n][h[n - 1]] ELSE h[i]]
  <2>4. g \in [0 .. n -> V] /\ g[0] = b
    BY <1>2, <2>1, <2>2, <2>3 DEF UpTo
  <2>5. ASSUME NEW i \in 1 .. n
        PROVE  g[i] = G[i][g[i - 1]]
    <3>1. i - 1 \in 0 .. n /\ i - 1 # n /\ g[i - 1] = h[i - 1] /\ i \in 0 .. n
      BY <2>2
    <3>2. i # n => i \in 1 .. n - 1 /\ h[i] = G[i][h[i - 1]]
      BY <2>1, <2>2 DEF UpTo
    <3> QED
      BY <3>1, <3>2
  <2> HIDE DEF g
  <2>6. UpTo(g, n, V, b, G)
    BY <2>4, <2>5 DEF UpTo
  <2> QED
    BY <2>6
<1>3. T \in SUBSET D
  OBVIOUS
<1> HIDE DEF T
<1>4. T = D
  BY <1>1, <1>2, <1>3, Induction
<1>5. \A n \in D : n \in Nat /\ \E h : UpTo(h, n, V, b, G)
  BY <1>4 DEF T
<1> DEFINE part(n) == CHOOSE h : UpTo(h, n, V, b, G)
           f == [n \in D |-> part(n)[n]]
<1>6. ASSUME NEW n \in D
      PROVE  /\ f[n] \in V /\ (n = 0 => f[n] = b)
             /\ n # 0 => n - 1 \in D /\ f[n] = G[n][f[n - 1]]
  <2>1. UpTo(part(n), n, V, b, G) /\ n \in Nat
    BY <1>5
  <2> HIDE DEF part
  <2>2. n \in 0 .. n /\ f[n] = part(n)[n] /\ f[n] \in V /\ (n = 0 => f[n] = b)
    BY <2>1 DEF UpTo
  <2>3. ASSUME n # 0
        PROVE  n - 1 \in D /\ f[n] = G[n][f[n - 1]]
    <3>1. n - 1 \in D /\ n - 1 \in Nat /\ n - 1 <= n
      BY <2>1, <2>3
    <3>2. UpTo(part(n - 1), n - 1, V, b, G)
      BY <1>5, <3>1 DEF part
    <3>3. part(n - 1)[n - 1] = part(n)[n - 1]
      <4>1. \A i \in 0 .. n - 1 : part(n - 1)[i] = part(n)[i]
        BY <2>1, <3>1, <3>2, UpToUnique
      <4> QED
        BY <3>1, <4>1
    <3>4. part(n)[n] = G[n][part(n)[n - 1]]
      BY <2>1, <2>3 DEF UpTo
    <3> QED
      BY <2>2, <3>1, <3>3, <3>4
  <2> QED
    BY <2>2, <2>3
<1>7. f = [n \in D |-> f[n]]
  OBVIOUS
<1> HIDE DEF f
<1>8. f = [n \in D |-> IF n = 0 THEN b ELSE G[n][f[n - 1]]]
  BY <1>6, <1>7
<1>9. f \in [D -> V]
  BY <1>6, <1>7
<1> QED
  BY <1>8, <1>9 DEF Recursive

-----------------------------------------------------------------------------
\* Division.

LEMMA DivisionIs ==
    ASSUME NEW m \in Nat \ {0}, NEW x \in Int, NEW q \in Int, NEW r \in 0 .. m - 1, x = q * m + r
    PROVE  x \div m = q /\ x % m = r
<1> DEFINE p == x \div m
           t == x % m
<1> SUFFICES p = q /\ t = r
  OBVIOUS
<1>1. p \in Int /\ t \in 0 .. m - 1 /\ x = p * m + t
  OBVIOUS
<1> HIDE DEF p, t
<1>2. (p - q) * m = r - t /\ r - t < m /\ t - r < m
  BY <1>1
<1>3. CASE p - q >= 1
  <2>1. (p - q) * m >= m
    BY <1>1, <1>3
  <2> QED
    BY <1>1, <1>2, <2>1
<1>4. CASE q - p >= 1
  <2>1. (q - p) * m >= m /\ (q - p) * m = t - r
    BY <1>1, <1>2, <1>4
  <2> QED
    BY <1>1, <1>2, <2>1
<1>5. CASE p = q
  BY <1>1, <1>2, <1>5
<1> QED
  BY <1>1, <1>3, <1>4, <1>5

LEMMA ProductGrows ==
    ASSUME NEW a \in Int, NEW b \in Int, NEW m \in Nat, a <= b
    PROVE  a * m <= b * m
<1>1. (b - a) * m >= 0
  OBVIOUS
<1>2. (b - a) * m = b * m - a * m
  OBVIOUS
<1> QED
  BY <1>1, <1>2

LEMMA DivisionHolds ==
    ASSUME NEW m \in Nat \ {0}, NEW x \in Nat
    PROVE  x \div m \in Nat /\ x % m \in 0 .. m - 1 /\ x = (x \div m) * m + (x % m)
<1>1. x \div m \in Int /\ x % m \in 0 .. m - 1 /\ x = (x \div m) * m + (x % m)
  OBVIOUS
<1> DEFINE q == x \div m
           r == x % m
<1>2. q \in Int /\ r \in 0 .. m - 1 /\ x = q * m + r
  BY <1>1
<1> HIDE DEF q, r
<1>3. CASE q <= -1
  <2>1. q * m <= -m
    BY <1>2, <1>3
  <2> QED
    BY <1>2, <2>1
<1>4. q >= 0
  BY <1>2, <1>3
<1> QED
  BY <1>1, <1>2, <1>4 DEF q

\* To divide by a and then by b is to divide by b * a.
LEMMA DivisionTwice ==
    ASSUME NEW n \in Nat, NEW a \in Nat \ {0}, NEW b \in Nat \ {0}
    PROVE  n \div (b * a) = (n \div a) \div b
<1> DEFINE q == n \div a
           r == n % a
           p == q \div b
           t == q % b
<1>1. q \in Nat /\ r \in 0 .. a - 1 /\ n = q * a + r
  BY DivisionHolds
<1> HIDE DEF q, r
<1>2. p \in Nat /\ t \in 0 .. b - 1 /\ q = p * b + t
  BY <1>1, DivisionHolds
<1> SUFFICES n \div (b * a) = p
  BY DEF q
<1> HIDE DEF p, t
<1>3. n = p * (b * a) + (t * a + r)
  <2>1. q * a = p * (b * a) + t * a
    BY <1>2
  <2> QED
    BY <1>1, <1>2, <2>1
<1>4. b * a \in Nat \ {0} /\ t * a + r \in 0 .. b * a - 1
  <2>1. t * a \in Nat /\ t * a <= (b - 1) * a /\ (b - 1) * a = b * a - a
    BY <1>2
  <2>2. b * a \in Nat /\ b * a >= a
    OBVIOUS
  <2> QED
    BY <1>1, <2>1, <2>2
<1> QED
  BY <1>2, <1>3, <1>4, DivisionIs

-----------------------------------------------------------------------------
\* Numbers and their bytes.

LEMMA ByteType == ByteMod \in Nat \ {0} /\ ByteMod >= 2 /\ Byte \subseteq Nat
BY LayoutAssumption DEF Byte

LEMMA ValuesIs ==
    /\ \A k \in Nat : Values[k] \in Nat \ {0}
    /\ Values[0] = 1
    /\ \A k \in Nat \ {0} : Values[k] = ByteMod * Values[k - 1]
<1> DEFINE V == Nat \ {0}
           G == [k \in Nat |-> [v \in V |-> ByteMod * v]]
           Fits(f) == f = [k \in Nat |-> IF k = 0 THEN 1 ELSE ByteMod * f[k - 1]]
<1>1. PICK f \in [Nat -> V] : Recursive(f, Nat, 1, G)
  <2>1. \A v \in V : ByteMod * v \in V
    BY ByteType
  <2>2. \A i \in Nat : i # 0 => \A v \in V : G[i][v] \in V
    BY <2>1
  <2>3. 1 \in V /\ Nat \in SUBSET Nat /\ \A i \in Nat : i # 0 => i - 1 \in Nat
    OBVIOUS
  <2> HIDE DEF G, V
  <2> QED
    BY <2>2, <2>3, RecursionExists
<1>2. Fits(f)
  <2>1. \A k \in Nat : k # 0 => G[k][f[k - 1]] = ByteMod * f[k - 1]
    BY <1>1
  <2>2. f = [k \in Nat |-> IF k = 0 THEN 1 ELSE G[k][f[k - 1]]]
    BY <1>1 DEF Recursive
  <2> HIDE DEF G
  <2> QED
    BY <2>1, <2>2
<1>3. Fits(Values)
  BY <1>2 DEF Values
<1>4. Values[0] = 1 /\ \A k \in Nat : k # 0 => Values[k] = ByteMod * Values[k - 1]
  BY <1>3
<1> DEFINE T == {k \in Nat : Values[k] \in V}
<1>5. ASSUME NEW k \in Nat, k # 0, k - 1 \in T
      PROVE  k \in T
  <2>1. Values[k] = ByteMod * Values[k - 1] /\ Values[k - 1] \in V
    BY <1>4, <1>5
  <2> QED
    BY <2>1, ByteType
<1>6. T = Nat
  <2>1. 0 \in T /\ T \in SUBSET Nat /\ \A i \in Nat : i # 0 => i - 1 \in Nat
    BY <1>4
  <2> HIDE DEF T
  <2> QED
    BY <1>5, <2>1, Induction
<1> QED
  BY <1>4, <1>6

\* The number that the first i of these bytes make, for each i.
Partial(bytes, u) ==
    /\ u \in [0 .. Len(bytes) -> Nat] /\ u[0] = 0
    /\ \A i \in 1 .. Len(bytes) : u[i] = u[i - 1] * ByteMod + bytes[i]

LEMMA NumberOfIs ==
    ASSUME NEW bytes \in Seq(Byte)
    PROVE  \E u : Partial(bytes, u) /\ NumberOf(bytes) = u[Len(bytes)]
<1> DEFINE n == Len(bytes)
           D == 0 .. n
           G == [i \in D |-> [v \in Nat |-> v * ByteMod + bytes[i]]]
           Fits(f) == f = [i \in D |-> IF i = 0 THEN 0 ELSE f[i - 1] * ByteMod + bytes[i]]
           upTo == CHOOSE f : Fits(f)
<1>1. n \in Nat /\ \A i \in 1 .. n : bytes[i] \in Nat
  BY LenProperties, ElementOfSeq, ByteType
<1>2. D \in SUBSET Nat /\ \A i \in D : i # 0 => i - 1 \in D /\ i \in 1 .. n
  BY <1>1
<1>3. PICK f \in [D -> Nat] : Recursive(f, D, 0, G)
  <2>1. ASSUME NEW i \in D, i # 0, NEW v \in Nat
        PROVE  G[i][v] \in Nat
    <3>1. bytes[i] \in Nat
      BY <1>1, <1>2, <2>1
    <3>2. v * ByteMod + bytes[i] \in Nat
      BY <3>1, ByteType
    <3> QED
      BY <3>2
  <2> HIDE DEF G, D
  <2> QED
    BY <1>2, <2>1, RecursionExists
<1>4. Fits(f)
  <2>1. \A i \in D : i # 0 => G[i][f[i - 1]] = f[i - 1] * ByteMod + bytes[i]
    BY <1>2, <1>3
  <2>2. f = [i \in D |-> IF i = 0 THEN 0 ELSE G[i][f[i - 1]]]
    BY <1>3 DEF Recursive
  <2> HIDE DEF G, D
  <2> QED
    BY <2>1, <2>2
<1>5. Fits(upTo)
  BY <1>4
<1>6. NumberOf(bytes) = upTo[n]
  BY DEF NumberOf
<1> HIDE DEF upTo
<1>7. upTo[0] = 0 /\ \A i \in D : i # 0 => upTo[i] = upTo[i - 1] * ByteMod + bytes[i]
  <2>1. 0 \in D
    BY <1>1
  <2> HIDE DEF D
  <2> QED
    BY <1>5, <2>1
<1> DEFINE T == {i \in D : upTo[i] \in Nat}
<1>8. ASSUME NEW i \in D, i # 0, i - 1 \in T
      PROVE  i \in T
  <2>1. upTo[i] = upTo[i - 1] * ByteMod + bytes[i] /\ upTo[i - 1] \in Nat /\ bytes[i] \in Nat
    BY <1>1, <1>2, <1>7, <1>8
  <2> QED
    BY <2>1, ByteType
<1>9. T = D
  <2>1. T \in SUBSET D /\ (0 \in D => 0 \in T)
    BY <1>7
  <2> HIDE DEF T, D
  <2> QED
    BY <1>2, <1>8, <2>1, Induction
<1>10. upTo \in [D -> Nat]
  <2>1. upTo = [i \in D |-> IF i = 0 THEN 0 ELSE upTo[i - 1] * ByteMod + bytes[i]]
    BY <1>5
  <2> QED
    BY <1>9, <2>1
<1>11. Partial(bytes, upTo)
  BY <1>1, <1>2, <1>7, <1>10 DEF Partial
<1> QED
  BY <1>6, <1>11

LEMMA BytesType ==
    ASSUME NEW n \in Nat, NEW k \in Nat
    PROVE  /\ BytesOf(n, k) \in Seq(Byte) /\ Len(BytesOf(n, k)) = k
           /\ \A i \in 1 .. k : BytesOf(n, k)[i] = (n \div Values[k - i]) % ByteMod
<1>1. ASSUME NEW i \in 1 .. k
      PROVE  (n \div Values[k - i]) % ByteMod \in Byte
  <2>1. k - i \in Nat /\ Values[k - i] \in Nat \ {0}
    BY ValuesIs
  <2>2. n \div Values[k - i] \in Nat
    BY <2>1, DivisionHolds
  <2> QED
    BY <2>2, ByteType, DivisionHolds DEF Byte
<1>2. BytesOf(n, k) \in [1 .. k -> Byte]
  BY <1>1 DEF BytesOf
<1>3. BytesOf(n, k) \in Seq(Byte)
  BY <1>2, SeqDef
<1> QED
  BY <1>2, <1>3, LenProperties DEF BytesOf

\* k bytes make one of Values[k] numbers.
LEMMA NumberType ==
    ASSUME NEW bytes \in Seq(Byte)
    PROVE  NumberOf(bytes) \in 0 .. Values[Len(bytes)] - 1
<1> DEFINE n == Len(bytes)
<1>1. PICK u : Partial(bytes, u) /\ NumberOf(bytes) = u[n]
  BY NumberOfIs
<1>2. n \in Nat /\ \A i \in 1 .. n : bytes[i] \in Byte
  BY LenProperties, ElementOfSeq
<1> DEFINE D == 0 .. n
           T == {i \in D : u[i] <= Values[i] - 1}
<1>3. ASSUME NEW i \in D, i # 0, i - 1 \in T
      PROVE  i \in T
  <2>1. i \in 1 .. n /\ i - 1 \in D /\ i \in Nat \ {0} /\ i - 1 \in Nat
    BY <1>2, <1>3
  <2>2. /\ u[i - 1] \in Nat /\ u[i] = u[i - 1] * ByteMod + bytes[i]
        /\ Values[i - 1] \in Nat \ {0} /\ Values[i] = ByteMod * Values[i - 1]
        /\ u[i - 1] <= Values[i - 1] - 1
        /\ bytes[i] \in 0 .. ByteMod - 1
    BY <1>1, <1>2, <1>3, <2>1, ValuesIs DEF Partial, Byte
  <2>3. u[i - 1] * ByteMod <= (Values[i - 1] - 1) * ByteMod
    <3>1. u[i - 1] \in Int /\ Values[i - 1] - 1 \in Int /\ ByteMod \in Nat
      BY <2>2, ByteType
    <3> QED
      BY <2>2, <3>1, ProductGrows
  <2>4. (Values[i - 1] - 1) * ByteMod = ByteMod * Values[i - 1] - ByteMod
    BY <2>2, ByteType
  <2> DEFINE y == u[i - 1] * ByteMod
             z == ByteMod * Values[i - 1]
  <2>5. /\ y \in Int /\ z \in Int /\ ByteMod \in Int /\ bytes[i] \in Int
        /\ y <= z - ByteMod /\ bytes[i] <= ByteMod - 1
        /\ u[i] = y + bytes[i] /\ Values[i] = z
    BY <2>2, <2>3, <2>4, ByteType
  <2> HIDE DEF y, z
  <2>6. u[i] <= Values[i] - 1
    BY <2>5
  <2> QED
    BY <2>6
<1>4. T = D
  <2>1. 0 \in T /\ T \in SUBSET D
    BY <1>1, <1>2, ValuesIs DEF Partial
  <2>2. D \in SUBSET Nat /\ \A i \in D : i # 0 => i - 1 \in D
    OBVIOUS
  <2> HIDE DEF T, D
  <2> QED
    BY <1>3, <2>1, <2>2, Induction
<1>5. n \in T /\ u[n] \in Nat /\ Values[n] \in Nat
  BY <1>1, <1>2, <1>4, ValuesIs DEF Partial
<1> QED
  BY <1>1, <1>5

\* The bytes of the number that bytes make are these bytes.
LEMMA BytesOfNumber ==
    ASSUME NEW bytes \in Seq(Byte)
    PROVE  BytesOf(NumberOf(bytes), Len(bytes)) = bytes
<1> DEFINE n == Len(bytes)
           x == NumberOf(bytes)
<1>1. PICK u : Partial(bytes, u) /\ x = u[n]
  BY NumberOfIs
<1>2. n \in Nat /\ \A i \in 1 .. n : bytes[i] \in Byte
  BY LenProperties, ElementOfSeq
<1>3. x \in Nat
  BY <1>1, <1>2 DEF Partial
<1> HIDE DEF x
<1> DEFINE D == 0 .. n
           T == {j \in D : x \div Values[j] = u[n - j]}
<1>4. ASSUME NEW i \in 1 .. n
      PROVE  u[i] \div ByteMod = u[i - 1] /\ u[i] % ByteMod = bytes[i]
  <2>1. /\ u[i - 1] \in Nat /\ u[i] \in Nat /\ u[i] = u[i - 1] * ByteMod + bytes[i]
        /\ bytes[i] \in 0 .. ByteMod - 1
    BY <1>1, <1>2 DEF Partial, Byte
  <2>2. u[i - 1] \in Int /\ u[i] \in Int /\ ByteMod \in Nat \ {0}
    BY <2>1, ByteType
  <2> QED
    BY <2>1, <2>2, DivisionIs
<1>5. ASSUME NEW j \in D, j # 0, j - 1 \in T
      PROVE  j \in T
  <2>1. j \in Nat \ {0} /\ j - 1 \in Nat /\ n - j + 1 \in 1 .. n /\ (n - j + 1) - 1 = n - j
        /\ n - (j - 1) = n - j + 1
    BY <1>2, <1>5
  <2>2. Values[j] = ByteMod * Values[j - 1] /\ Values[j - 1] \in Nat \ {0}
    BY <2>1, ValuesIs
  <2>3. x \div Values[j] = (x \div Values[j - 1]) \div ByteMod
    BY <1>3, <2>2, ByteType, DivisionTwice
  <2>4. x \div Values[j - 1] = u[n - j + 1]
    BY <1>5, <2>1
  <2>5. u[n - j + 1] \div ByteMod = u[n - j]
    BY <1>4, <2>1
  <2> QED
    BY <2>3, <2>4, <2>5
<1>6. T = D
  <2>1. 0 \in T /\ T \in SUBSET D
    BY <1>1, <1>2, <1>3, ValuesIs
  <2>2. D \in SUBSET Nat /\ \A i \in D : i # 0 => i - 1 \in D
    OBVIOUS
  <2> HIDE DEF T, D
  <2> QED
    BY <1>5, <2>1, <2>2, Induction
<1>7. ASSUME NEW i \in 1 .. n
      PROVE  BytesOf(x, n)[i] = bytes[i]
  <2>1. n - i \in D /\ n - (n - i) = i
    BY <1>2
  <2>2. x \div Values[n - i] = u[i]
    BY <1>6, <2>1
  <2>3. BytesOf(x, n)[i] = (x \div Values[n - i]) % ByteMod
    BY <1>2, <1>3, BytesType
  <2> QED
    BY <1>4, <2>2, <2>3
<1>8. BytesOf(x, n) \in Seq(Byte) /\ Len(BytesOf(x, n)) = n
  BY <1>2, <1>3, BytesType
<1> QED
  BY <1>7, <1>8, SeqEqual DEF x

\* The number that the bytes of a number make is this number.
LEMMA NumberOfBytes ==
    ASSUME NEW k \in Nat, NEW n \in 0 .. Values[k] - 1
    PROVE  NumberOf(BytesOf(n, k)) = n
<1> DEFINE bytes == BytesOf(n, k)
<1>1. n \in Nat /\ n < Values[k]
  BY ValuesIs
<1>2. bytes \in Seq(Byte) /\ Len(bytes) = k
      /\ \A i \in 1 .. k : bytes[i] = (n \div Values[k - i]) % ByteMod
  BY <1>1, BytesType
<1> HIDE DEF bytes
<1>3. PICK u : Partial(bytes, u) /\ NumberOf(bytes) = u[k]
  BY <1>2, NumberOfIs
<1> DEFINE D == 0 .. k
           T == {i \in D : u[i] = n \div Values[k - i]}
<1>4. ASSUME NEW i \in D, i # 0, i - 1 \in T
      PROVE  i \in T
  <2>1. i \in 1 .. k /\ k - i \in Nat /\ k - i + 1 \in Nat \ {0} /\ (k - i + 1) - 1 = k - i
        /\ k - (i - 1) = k - i + 1
    BY <1>4
  <2> DEFINE q == n \div Values[k - i]
  <2>2. Values[k - i + 1] = ByteMod * Values[k - i] /\ Values[k - i] \in Nat \ {0}
    BY <2>1, ValuesIs
  <2>3. u[i - 1] = n \div Values[k - i + 1]
    BY <1>4, <2>1
  <2>4. n \div Values[k - i + 1] = q \div ByteMod
    BY <1>1, <2>2, ByteType, DivisionTwice
  <2>5. u[i] = u[i - 1] * ByteMod + bytes[i] /\ bytes[i] = q % ByteMod
    BY <1>2, <1>3, <2>1 DEF Partial
  <2>6. q \in Nat
    BY <1>1, <2>2, DivisionHolds
  <2> HIDE DEF q
  <2>7. q = (q \div ByteMod) * ByteMod + (q % ByteMod)
    BY <2>6, ByteType, DivisionHolds
  <2>8. u[i] = q
    BY <2>3, <2>4, <2>5, <2>7
  <2> QED
    BY <2>8 DEF q
<1>5. T = D
  <2>1. n \div Values[k] = 0
    <3>1. Values[k] \in Nat \ {0} /\ n \in 0 .. Values[k] - 1 /\ n = 0 * Values[k] + n
      BY <1>1, ValuesIs
    <3> QED
      BY <1>1, <3>1, DivisionIs
  <2>2. 0 \in T /\ T \in SUBSET D
    BY <1>2, <1>3, <2>1 DEF Partial
  <2>3. D \in SUBSET Nat /\ \A i \in D : i # 0 => i - 1 \in D
    OBVIOUS
  <2> HIDE DEF T, D
  <2> QED
    BY <1>4, <2>2, <2>3, Induction
<1>6. u[k] = n \div Values[0]
  BY <1>5
<1>7. n \div 1 = n
  BY <1>1
<1> QED
  BY <1>3, <1>6, <1>7, ValuesIs DEF bytes

-----------------------------------------------------------------------------
\* The fields of the first line.

LEMMA LayoutType ==
    /\ WindowMod \in Nat \ {0} /\ LengthMod \in Nat \ {0} /\ SeqnumMod \in Nat \ {0}
    /\ LineBytes \in Nat /\ StampBytes \in Nat /\ CrcBytes \in Nat
    /\ HeaderBytes \in Nat /\ MinPacket \in Nat /\ MinPacket = HeaderBytes + CrcBytes
    /\ HeaderBytes = LineBytes + StampBytes
    /\ MaxPayload \in Nat /\ MaxPayload < LengthMod
    /\ Values[LineBytes] = 4 * WindowMod * LengthMod * SeqnumMod
<1>1. /\ WindowMod \in Nat /\ LengthMod \in Nat /\ SeqnumMod \in Nat
      /\ 4 * WindowMod * LengthMod * SeqnumMod = Values[LineBytes]
  BY LayoutAssumption DEF TypeMod
<1>2. Values[LineBytes] \in Nat \ {0}
  BY LayoutAssumption, ValuesIs
<1>3. WindowMod # 0 /\ LengthMod # 0 /\ SeqnumMod # 0
  BY <1>1, <1>2
<1> QED
  BY <1>1, <1>3, LayoutAssumption DEF HeaderBytes, MinPacket

LEMMA Lengths ==
    /\ LengthMod \in Nat /\ LineBytes \in Nat /\ StampBytes \in Nat /\ CrcBytes \in Nat
    /\ HeaderBytes \in Nat /\ MinPacket \in Nat /\ MinPacket = HeaderBytes + CrcBytes
    /\ HeaderBytes = LineBytes + StampBytes
    /\ MaxPayload \in Nat /\ MaxPayload < LengthMod
BY LayoutType

\* The line x has these fields.
Line4(x, t, w, l, s) ==
    /\ t \in 0 .. 3 /\ w \in 0 .. WindowMod - 1
    /\ l \in 0 .. LengthMod - 1 /\ s \in 0 .. SeqnumMod - 1
    /\ x = ((t * WindowMod + w) * LengthMod + l) * SeqnumMod + s

\* The fields that are read from a line.
ReadFrom(x, t, w, l, s) ==
    /\ t = x \div (WindowMod * LengthMod * SeqnumMod)
    /\ w = (x \div (LengthMod * SeqnumMod)) % WindowMod
    /\ l = (x \div SeqnumMod) % LengthMod
    /\ s = x % SeqnumMod

LEMMA DividedLine ==
    ASSUME NEW x \in Nat
    PROVE  /\ x \div (LengthMod * SeqnumMod) = (x \div SeqnumMod) \div LengthMod
           /\ x \div (WindowMod * LengthMod * SeqnumMod)
                = (x \div (LengthMod * SeqnumMod)) \div WindowMod
<1>1. x \div (LengthMod * SeqnumMod) = (x \div SeqnumMod) \div LengthMod
  BY LayoutType, DivisionTwice
<1>2. LengthMod * SeqnumMod \in Nat \ {0}
  BY LayoutType
<1>3. x \div (WindowMod * (LengthMod * SeqnumMod))
        = (x \div (LengthMod * SeqnumMod)) \div WindowMod
  BY <1>2, LayoutType, DivisionTwice
<1>4. WindowMod * LengthMod * SeqnumMod = WindowMod * (LengthMod * SeqnumMod)
  BY LayoutType
<1> QED
  BY <1>1, <1>3, <1>4

\* What is read from a line is what it was made of.
LEMMA LineRead ==
    ASSUME NEW x, NEW t, NEW w, NEW l, NEW s, Line4(x, t, w, l, s)
    PROVE  ReadFrom(x, t, w, l, s) /\ x \in 0 .. Values[LineBytes] - 1
<1> DEFINE a == t * WindowMod + w
           b == a * LengthMod + l
<1>1. /\ t \in 0 .. 3 /\ w \in 0 .. WindowMod - 1
      /\ l \in 0 .. LengthMod - 1 /\ s \in 0 .. SeqnumMod - 1
      /\ x = b * SeqnumMod + s
  BY DEF Line4
<1>2. a \in Nat /\ a <= 4 * WindowMod - 1
  <2>1. t * WindowMod <= 3 * WindowMod
    BY <1>1, LayoutType, ProductGrows
  <2>2. t * WindowMod \in Nat
    BY <1>1, LayoutType
  <2> QED
    BY <1>1, <2>1, <2>2, LayoutType
<1>3. a \div WindowMod = t /\ a % WindowMod = w
  <2>1. t \in Int /\ w \in 0 .. WindowMod - 1 /\ WindowMod \in Nat \ {0} /\ a \in Int
        /\ a = t * WindowMod + w
    BY <1>1, <1>2, LayoutType
  <2> HIDE DEF a
  <2> QED
    BY <2>1, DivisionIs
<1> HIDE DEF a
<1>4. b \in Nat /\ b <= 4 * WindowMod * LengthMod - 1
  <2>1. a * LengthMod <= (4 * WindowMod - 1) * LengthMod
    BY <1>2, LayoutType, ProductGrows
  <2>2. (4 * WindowMod - 1) * LengthMod = 4 * WindowMod * LengthMod - LengthMod
    BY LayoutType
  <2>3. a * LengthMod \in Nat /\ 4 * WindowMod * LengthMod \in Nat
    BY <1>2, LayoutType
  <2> QED
    BY <1>1, <2>1, <2>2, <2>3, LayoutType
<1>5. b \div LengthMod = a /\ b % LengthMod = l
  <2>1. a \in Int /\ l \in 0 .. LengthMod - 1 /\ LengthMod \in Nat \ {0} /\ b \in Int
        /\ b = a * LengthMod + l
    BY <1>1, <1>2, <1>4, LayoutType
  <2> HIDE DEF b
  <2> QED
    BY <2>1, DivisionIs
<1> HIDE DEF b
<1>6. x \in Nat /\ x <= 4 * WindowMod * LengthMod * SeqnumMod - 1
  <2> DEFINE m == 4 * WindowMod * LengthMod
  <2>1. m \in Nat
    BY LayoutType
  <2> SUFFICES x \in Nat /\ x <= m * SeqnumMod - 1
    OBVIOUS
  <2>2. b \in Nat /\ b <= m - 1
    BY <1>4
  <2> HIDE DEF m
  <2>3. b * SeqnumMod <= (m - 1) * SeqnumMod
    BY <2>1, <2>2, LayoutType, ProductGrows
  <2>4. (m - 1) * SeqnumMod = m * SeqnumMod - SeqnumMod
    BY <2>1, LayoutType
  <2>5. b * SeqnumMod \in Nat /\ m * SeqnumMod \in Nat
    BY <2>1, <2>2, LayoutType
  <2> QED
    BY <1>1, <2>3, <2>4, <2>5, LayoutType
<1>7. x \div SeqnumMod = b /\ x % SeqnumMod = s
  <2>1. b \in Int /\ s \in 0 .. SeqnumMod - 1 /\ SeqnumMod \in Nat \ {0} /\ x \in Int
        /\ x = b * SeqnumMod + s
    BY <1>1, <1>4, <1>6, LayoutType
  <2> QED
    BY <2>1, DivisionIs
<1>8. ReadFrom(x, t, w, l, s)
  BY <1>3, <1>5, <1>6, <1>7, DividedLine DEF ReadFrom
<1> QED
  BY <1>6, <1>8, LayoutType

\* And a line is made of what is read from it.
LEMMA ReadMakesLine ==
    ASSUME NEW x \in 0 .. Values[LineBytes] - 1,
           NEW t, NEW w, NEW l, NEW s, ReadFrom(x, t, w, l, s)
    PROVE  Line4(x, t, w, l, s)
<1>1. x \in Nat /\ x < 4 * WindowMod * LengthMod * SeqnumMod
  BY LayoutType, ValuesIs
<1> DEFINE b == x \div SeqnumMod
           a == b \div LengthMod
<1>2. b \in Nat /\ s \in 0 .. SeqnumMod - 1 /\ x = b * SeqnumMod + s
  BY <1>1, LayoutType, DivisionHolds DEF ReadFrom
<1>3. l = b % LengthMod
  BY DEF ReadFrom
<1>4. t = a \div WindowMod /\ w = a % WindowMod
  BY <1>1, DividedLine DEF ReadFrom
<1> HIDE DEF b
<1>5. a \in Nat /\ l \in 0 .. LengthMod - 1 /\ b = a * LengthMod + l
  BY <1>2, <1>3, LayoutType, DivisionHolds
<1> HIDE DEF a
<1>6. t \in Nat /\ w \in 0 .. WindowMod - 1 /\ a = t * WindowMod + w
  BY <1>4, <1>5, LayoutType, DivisionHolds
<1>7. t <= 3
  <2> DEFINE m == WindowMod * LengthMod * SeqnumMod
  <2>1. m \in Nat \ {0} /\ 4 * WindowMod * LengthMod * SeqnumMod = 4 * m
    BY LayoutType
  <2>2. x >= t * m
    <3>1. a >= t * WindowMod /\ t * WindowMod \in Nat
      BY <1>6, LayoutType
    <3>2. b >= (t * WindowMod) * LengthMod /\ (t * WindowMod) * LengthMod \in Nat
      <4>1. (t * WindowMod) * LengthMod <= a * LengthMod
        BY <1>5, <3>1, LayoutType, ProductGrows
      <4> QED
        BY <1>5, <3>1, <4>1, LayoutType
    <3>3. x >= ((t * WindowMod) * LengthMod) * SeqnumMod
      <4>1. ((t * WindowMod) * LengthMod) * SeqnumMod <= b * SeqnumMod
        BY <1>2, <3>2, LayoutType, ProductGrows
      <4> QED
        BY <1>2, <3>2, <4>1, LayoutType
    <3>4. ((t * WindowMod) * LengthMod) * SeqnumMod = t * m
      BY <1>6, LayoutType
    <3> QED
      BY <3>3, <3>4
  <2> HIDE DEF m
  <2>3. CASE t >= 4
    <3>1. 4 * m <= t * m
      BY <1>6, <2>1, <2>3, ProductGrows
    <3> QED
      BY <1>1, <1>6, <2>1, <2>2, <3>1
  <2> QED
    BY <1>6, <2>3
<1> QED
  BY <1>2, <1>5, <1>6, <1>7 DEF Line4

-----------------------------------------------------------------------------
\* Pieces of sequences.

LEMMA PieceOf ==
    ASSUME NEW S, NEW s \in Seq(S), NEW m \in Nat \ {0}, NEW n \in 0 .. Len(s), m <= n + 1
    PROVE  /\ SubSeq(s, m, n) \in Seq(S) /\ Len(SubSeq(s, m, n)) = n - m + 1
           /\ \A i \in 1 .. n - m + 1 : SubSeq(s, m, n)[i] = s[m + i - 1]
<1>1. Len(s) \in Nat /\ \A i \in 1 .. Len(s) : s[i] \in S
  BY LenProperties, ElementOfSeq
<1>2. n \in Int /\ m \in Int /\ \A i \in m .. n : s[i] \in S
  BY <1>1
<1> QED
  BY <1>2, SubSeqProperties

\* The pieces of s \o t that lie in s or in t.
LEMMA PieceOfConcat ==
    ASSUME NEW S, NEW s \in Seq(S), NEW t \in Seq(S),
           NEW m \in Nat \ {0}, NEW n \in Nat, m <= n + 1
    PROVE  /\ n <= Len(s) => SubSeq(s \o t, m, n) = SubSeq(s, m, n)
           /\ m > Len(s) /\ n <= Len(s) + Len(t) =>
                SubSeq(s \o t, m, n) = SubSeq(t, m - Len(s), n - Len(s))
<1> DEFINE c == s \o t
<1>1. Len(s) \in Nat /\ Len(t) \in Nat
  BY LenProperties
<1>2. /\ c \in Seq(S) /\ Len(c) = Len(s) + Len(t)
      /\ \A i \in 1 .. Len(s) + Len(t) : c[i] = IF i <= Len(s) THEN s[i] ELSE t[i - Len(s)]
  BY ConcatProperties
<1> HIDE DEF c
<1>3. ASSUME n <= Len(s) + Len(t)
      PROVE  /\ SubSeq(c, m, n) \in Seq(S) /\ Len(SubSeq(c, m, n)) = n - m + 1
             /\ \A i \in 1 .. n - m + 1 : SubSeq(c, m, n)[i] = c[m + i - 1]
  <2>1. n \in 0 .. Len(c)
    BY <1>1, <1>2, <1>3
  <2> QED
    BY <1>2, <2>1, PieceOf
<1>4. ASSUME n <= Len(s)
      PROVE  SubSeq(c, m, n) = SubSeq(s, m, n)
  <2>1. n \in 0 .. Len(s) /\ n <= Len(s) + Len(t)
    BY <1>1, <1>4
  <2>2. /\ SubSeq(s, m, n) \in Seq(S) /\ Len(SubSeq(s, m, n)) = n - m + 1
        /\ \A i \in 1 .. n - m + 1 : SubSeq(s, m, n)[i] = s[m + i - 1]
    BY <2>1, PieceOf
  <2>3. ASSUME NEW i \in 1 .. n - m + 1
        PROVE  SubSeq(c, m, n)[i] = SubSeq(s, m, n)[i]
    <3>1. m + i - 1 \in 1 .. Len(s) + Len(t) /\ m + i - 1 <= Len(s)
      BY <1>1, <2>1
    <3>2. c[m + i - 1] = s[m + i - 1]
      BY <1>2, <3>1
    <3> QED
      BY <1>3, <2>1, <2>2, <3>2
  <2> QED
    BY <1>3, <2>1, <2>2, <2>3, SeqEqual
<1>5. ASSUME m > Len(s), n <= Len(s) + Len(t)
      PROVE  SubSeq(c, m, n) = SubSeq(t, m - Len(s), n - Len(s))
  <2> DEFINE a == m - Len(s)
             b == n - Len(s)
  <2>1. a \in Nat \ {0} /\ b \in 0 .. Len(t) /\ a <= b + 1 /\ b - a + 1 = n - m + 1
    BY <1>1, <1>5
  <2> HIDE DEF a, b
  <2>2. /\ SubSeq(t, a, b) \in Seq(S) /\ Len(SubSeq(t, a, b)) = n - m + 1
        /\ \A i \in 1 .. n - m + 1 : SubSeq(t, a, b)[i] = t[a + i - 1]
    <3>1. /\ SubSeq(t, a, b) \in Seq(S) /\ Len(SubSeq(t, a, b)) = b - a + 1
          /\ \A i \in 1 .. b - a + 1 : SubSeq(t, a, b)[i] = t[a + i - 1]
      BY <2>1, PieceOf
    <3> QED
      BY <2>1, <3>1
  <2>3. ASSUME NEW i \in 1 .. n - m + 1
        PROVE  SubSeq(c, m, n)[i] = SubSeq(t, a, b)[i]
    <3>1. /\ m + i - 1 \in 1 .. Len(s) + Len(t) /\ ~ (m + i - 1 <= Len(s))
          /\ (m + i - 1) - Len(s) = a + i - 1
      BY <1>1, <1>5 DEF a
    <3>2. c[m + i - 1] = t[a + i - 1]
      BY <1>2, <3>1
    <3> QED
      BY <1>3, <1>5, <2>2, <3>2
  <2>4. SubSeq(c, m, n) = SubSeq(t, a, b)
    BY <1>3, <1>5, <2>2, <2>3, SeqEqual
  <2> QED
    BY <2>4 DEF a, b
<1> QED
  BY <1>4, <1>5 DEF c

LEMMA HalvesOfConcat ==
    ASSUME NEW S, NEW s \in Seq(S), NEW t \in Seq(S)
    PROVE  /\ SubSeq(s \o t, 1, Len(s)) = s
           /\ SubSeq(s \o t, Len(s) + 1, Len(s) + Len(t)) = t
<1>1. Len(s) \in Nat /\ Len(t) \in Nat
  BY LenProperties
<1>2. SubSeq(s \o t, 1, Len(s)) = SubSeq(s, 1, Len(s))
  BY <1>1, PieceOfConcat
<1>3. SubSeq(s \o t, Len(s) + 1, Len(s) + Len(t)) = SubSeq(t, 1, Len(t))
  <2>1. /\ Len(s) + 1 \in Nat \ {0} /\ Len(s) + Len(t) \in Nat
        /\ Len(s) + 1 <= (Len(s) + Len(t)) + 1
        /\ (Len(s) + 1) - Len(s) = 1 /\ (Len(s) + Len(t)) - Len(s) = Len(t)
        /\ Len(s) + 1 > Len(s) /\ Len(s) + Len(t) <= Len(s) + Len(t)
    BY <1>1
  <2>2. SubSeq(s \o t, Len(s) + 1, Len(s) + Len(t))
          = SubSeq(t, (Len(s) + 1) - Len(s), (Len(s) + Len(t)) - Len(s))
    BY <2>1, PieceOfConcat
  <2> QED
    BY <2>1, <2>2
<1> QED
  BY <1>2, <1>3, SubSeqFull

-----------------------------------------------------------------------------
\* The layout of a datagram.

\* A packet whose fields fit, as any program may send it.
Packable(p) ==
    /\ p.type \in 0 .. 3 /\ p.window \in 0 .. WindowMod - 1
    /\ p.seqnum \in 0 .. SeqnumMod - 1 /\ p.timestamp \in 0 .. Values[StampBytes] - 1
    /\ p.payload \in Seq(Byte) /\ Len(p.payload) < LengthMod

HeaderOf(p) == BytesOf(Line(p), LineBytes) \o BytesOf(p.timestamp, StampBytes)

LEMMA CrcType ==
    ASSUME NEW s \in Seq(Byte), Len(s) = HeaderBytes \/ (Len(s) > 0 /\ Len(s) < LengthMod)
    PROVE  /\ Crc(s) \in 0 .. Values[CrcBytes] - 1 /\ Crc(s) \in Nat
           /\ \A i \in 1 .. Len(s) : \A b \in Byte \ {s[i]} : Crc([s EXCEPT ![i] = b]) # Crc(s)
<1>1. Len(s) \in Nat /\ s \in [1 .. Len(s) -> Byte]
  BY LenProperties
<1> DEFINE n == Len(s)
<1>2. n \in Nat /\ (n = HeaderBytes \/ (n > 0 /\ n < LengthMod)) /\ s \in [1 .. n -> Byte]
  BY <1>1
<1> HIDE DEF n
<1>3. n \in {LineBytes + StampBytes} \cup 1 .. LengthMod - 1
  BY <1>2, LayoutType
<1>4. /\ Crc(s) \in 0 .. Values[CrcBytes] - 1
      /\ \A i \in 1 .. n : \A b \in Byte \ {s[i]} : Crc([s EXCEPT ![i] = b]) # Crc(s)
  BY <1>2, <1>3, CrcAssumption
<1>5. Crc(s) \in Nat
  BY <1>4, LayoutType, ValuesIs
<1> QED
  BY <1>4, <1>5 DEF n

LEMMA LineOf ==
    ASSUME NEW p, Packable(p)
    PROVE  /\ Line4(Line(p), p.type, p.window, Len(p.payload), p.seqnum)
           /\ Line(p) \in 0 .. Values[LineBytes] - 1 /\ Line(p) \in Nat
           /\ Shifted(p) = Line(p)
<1>1. /\ p.type \in 0 .. 3 /\ p.window \in 0 .. WindowMod - 1
      /\ p.seqnum \in 0 .. SeqnumMod - 1
      /\ Len(p.payload) \in 0 .. LengthMod - 1
  BY LenProperties, LayoutType DEF Packable
<1>2. Line4(Line(p), p.type, p.window, Len(p.payload), p.seqnum)
  BY <1>1 DEF Line4, Line
<1>3. Line(p) \in 0 .. Values[LineBytes] - 1
  BY <1>2, LineRead
<1> DEFINE t == p.type
           w == p.window
           l == Len(p.payload)
           s == p.seqnum
<1>4. /\ Line(p) = ((t * WindowMod + w) * LengthMod + l) * SeqnumMod + s
      /\ Shifted(p) = t * (WindowMod * LengthMod * SeqnumMod) + w * (LengthMod * SeqnumMod)
                        + l * SeqnumMod + s
  BY DEF Line, Shifted
<1>5. t \in Nat /\ w \in Nat /\ l \in Nat /\ s \in Nat
  BY <1>1
<1> HIDE DEF t, w, l, s
<1>6. Shifted(p) = Line(p)
  BY <1>4, <1>5, LayoutType
<1> QED
  BY <1>2, <1>3, <1>6, LayoutType, ValuesIs

LEMMA HeaderIs ==
    ASSUME NEW p, Packable(p)
    PROVE  /\ HeaderOf(p) \in Seq(Byte) /\ Len(HeaderOf(p)) = HeaderBytes
           /\ SubSeq(HeaderOf(p), 1, LineBytes) = BytesOf(Line(p), LineBytes)
           /\ SubSeq(HeaderOf(p), LineBytes + 1, HeaderBytes) = BytesOf(p.timestamp, StampBytes)
<1> DEFINE a == BytesOf(Line(p), LineBytes)
           b == BytesOf(p.timestamp, StampBytes)
<1>1. a \in Seq(Byte) /\ Len(a) = LineBytes
  BY LineOf, LayoutType, BytesType
<1>2. b \in Seq(Byte) /\ Len(b) = StampBytes
  <2>1. p.timestamp \in Nat
    BY ValuesIs, LayoutType DEF Packable
  <2> QED
    BY <2>1, LayoutType, BytesType
<1>3. HeaderOf(p) = a \o b
  BY DEF HeaderOf
<1> HIDE DEF a, b
<1>4. HeaderOf(p) \in Seq(Byte) /\ Len(HeaderOf(p)) = LineBytes + StampBytes
  BY <1>1, <1>2, <1>3, ConcatProperties
<1>5. /\ SubSeq(a \o b, 1, Len(a)) = a
      /\ SubSeq(a \o b, Len(a) + 1, Len(a) + Len(b)) = b
  BY <1>1, <1>2, HalvesOfConcat
<1> QED
  BY <1>1, <1>2, <1>3, <1>4, <1>5, LayoutType DEF a, b

LEMMA WithCrcIs ==
    ASSUME NEW s \in Seq(Byte), Len(s) = HeaderBytes \/ (Len(s) > 0 /\ Len(s) < LengthMod)
    PROVE  /\ WithCrc(s) \in Seq(Byte) /\ Len(WithCrc(s)) = Len(s) + CrcBytes
           /\ SubSeq(WithCrc(s), 1, Len(s)) = s
           /\ SubSeq(WithCrc(s), Len(s) + 1, Len(s) + CrcBytes) = BytesOf(Crc(s), CrcBytes)
<1> DEFINE c == BytesOf(Crc(s), CrcBytes)
<1>1. c \in Seq(Byte) /\ Len(c) = CrcBytes
  BY CrcType, LayoutType, BytesType
<1>2. WithCrc(s) = s \o c
  BY DEF WithCrc
<1> HIDE DEF c
<1>3. s \o c \in Seq(Byte) /\ Len(s \o c) = Len(s) + CrcBytes
  BY <1>1, ConcatProperties
<1>4. SubSeq(s \o c, 1, Len(s)) = s /\ SubSeq(s \o c, Len(s) + 1, Len(s) + Len(c)) = c
  BY <1>1, HalvesOfConcat
<1> QED
  BY <1>1, <1>2, <1>3, <1>4 DEF c

\* A piece of a piece.
LEMMA PieceOfPiece ==
    ASSUME NEW S, NEW s \in Seq(S), NEW a \in Nat \ {0}, NEW b \in 0 .. Len(s), a <= b + 1,
           NEW m \in Nat \ {0}, NEW n \in 0 .. b - a + 1, m <= n + 1
    PROVE  SubSeq(SubSeq(s, a, b), m, n) = SubSeq(s, a + m - 1, a + n - 1)
<1> DEFINE t == SubSeq(s, a, b)
           m1 == a + m - 1
           n1 == a + n - 1
<1>1. Len(s) \in Nat
  BY LenProperties
<1>2. /\ t \in Seq(S) /\ Len(t) = b - a + 1
      /\ \A i \in 1 .. b - a + 1 : t[i] = s[a + i - 1]
  BY PieceOf
<1> HIDE DEF t
<1>3. n \in 0 .. Len(t)
  BY <1>2
<1>4. /\ SubSeq(t, m, n) \in Seq(S) /\ Len(SubSeq(t, m, n)) = n - m + 1
      /\ \A i \in 1 .. n - m + 1 : SubSeq(t, m, n)[i] = t[m + i - 1]
  BY <1>2, <1>3, PieceOf
<1>5. m1 \in Nat \ {0} /\ n1 \in 0 .. Len(s) /\ m1 <= n1 + 1 /\ n1 - m1 + 1 = n - m + 1
  BY <1>1
<1> HIDE DEF m1, n1
<1>6. /\ SubSeq(s, m1, n1) \in Seq(S) /\ Len(SubSeq(s, m1, n1)) = n1 - m1 + 1
      /\ \A i \in 1 .. n1 - m1 + 1 : SubSeq(s, m1, n1)[i] = s[m1 + i - 1]
  BY <1>5, PieceOf
<1>7. ASSUME NEW i \in 1 .. n - m + 1
      PROVE  SubSeq(t, m, n)[i] = SubSeq(s, m1, n1)[i]
  <2>1. m + i - 1 \in 1 .. b - a + 1 /\ a + (m + i - 1) - 1 = m1 + i - 1
    BY <1>1 DEF m1
  <2>2. t[m + i - 1] = s[m1 + i - 1]
    BY <1>2, <2>1
  <2> QED
    BY <1>4, <1>5, <1>6, <2>2
<1>8. SubSeq(t, m, n) = SubSeq(s, m1, n1)
  BY <1>4, <1>5, <1>6, <1>7, SeqEqual
<1> QED
  BY <1>8 DEF t, m1, n1

\* A piece of d once its byte i is b: that piece with its byte changed, or the same.
LEMMA PieceOfChanged ==
    ASSUME NEW d \in Seq(Byte), NEW i \in 1 .. Len(d), NEW b \in Byte,
           NEW m \in Nat \ {0}, NEW n \in 0 .. Len(d), m <= n + 1
    PROVE  SubSeq([d EXCEPT ![i] = b], m, n)
             = IF i \in m .. n THEN [SubSeq(d, m, n) EXCEPT ![i - m + 1] = b]
               ELSE SubSeq(d, m, n)
<1> DEFINE c == [d EXCEPT ![i] = b]
           u == SubSeq(d, m, n)
           v == [u EXCEPT ![i - m + 1] = b]
           w == SubSeq(c, m, n)
           k == n - m + 1
<1>1. Len(d) \in Nat /\ k \in Nat /\ \A j \in 1 .. k : m + j - 1 \in 1 .. Len(d)
  BY LenProperties
<1>2. c \in Seq(Byte) /\ Len(c) = Len(d) /\ \A j \in 1 .. Len(d) : c[j] = IF j = i THEN b ELSE d[j]
  BY ExceptSeq
<1>3. u \in Seq(Byte) /\ Len(u) = k /\ \A j \in 1 .. k : u[j] = d[m + j - 1]
  BY PieceOf
<1>4. w \in Seq(Byte) /\ Len(w) = k /\ \A j \in 1 .. k : w[j] = c[m + j - 1]
  <2> HIDE DEF c
  <2>1. n \in 0 .. Len(c)
    BY <1>2
  <2> QED
    BY <1>2, <2>1, PieceOf
<1> SUFFICES w = IF i \in m .. n THEN v ELSE u
  OBVIOUS
<1> HIDE DEF c, u, w, k
<1>5. ASSUME i \in m .. n
      PROVE  w = v
  <2>1. i - m + 1 \in 1 .. Len(u)
    BY <1>1, <1>3, <1>5 DEF k
  <2>2. v \in Seq(Byte) /\ Len(v) = k /\ \A j \in 1 .. k : v[j] = IF j = i - m + 1 THEN b ELSE u[j]
    BY <1>3, <2>1, ExceptSeq
  <2>3. \A j \in 1 .. k : (m + j - 1 = i <=> j = i - m + 1)
    BY <1>1
  <2>4. \A j \in 1 .. k : w[j] = v[j]
    BY <1>1, <1>2, <1>3, <1>4, <2>2, <2>3
  <2> HIDE DEF v
  <2> QED
    BY <1>4, <2>2, <2>4, SeqEqual
<1>6. ASSUME i \notin m .. n
      PROVE  w = u
  <2>1. \A j \in 1 .. k : m + j - 1 # i
    BY <1>1, <1>6 DEF k
  <2>2. \A j \in 1 .. k : w[j] = u[j]
    BY <1>1, <1>2, <1>3, <1>4, <2>1
  <2> QED
    BY <1>3, <1>4, <2>2, SeqEqual
<1> QED
  BY <1>5, <1>6

-----------------------------------------------------------------------------
\* A byte sequence and its CRC.

\* A sequence that pack computes a CRC of: a header or a payload.
Summed(s) == s \in Seq(Byte) /\ (Len(s) = HeaderBytes \/ (Len(s) > 0 /\ Len(s) < LengthMod))

\* unpack's check of a CRC: the piece and its CRC are what pack makes of the piece.
LEMMA CrcHoldsIs ==
    ASSUME NEW d \in Seq(Byte), NEW first \in Nat \ {0}, NEW n \in Nat,
           n = HeaderBytes \/ (n > 0 /\ n < LengthMod), first + n + CrcBytes - 1 <= Len(d)
    PROVE  /\ Summed(SubSeq(d, first, first + n - 1))
           /\ CrcHolds(d, first, n)
                <=> SubSeq(d, first, first + n + CrcBytes - 1)
                      = WithCrc(SubSeq(d, first, first + n - 1))
<1> DEFINE k == first + n - 1
           e == first + n + CrcBytes - 1
           s == SubSeq(d, first, k)
           c == SubSeq(d, k + 1, e)
           r == BytesOf(Crc(s), CrcBytes)
<1>1. /\ Len(d) \in Nat /\ CrcBytes \in Nat
      /\ first \in 1 .. Len(d) + 1 /\ k \in first - 1 .. Len(d) /\ e \in k .. Len(d)
      /\ k + 1 = first + n /\ e - (k + 1) + 1 = CrcBytes /\ k - first + 1 = n
      /\ k \in 0 .. Len(d) /\ e \in 0 .. Len(d) /\ k + 1 \in Nat \ {0}
      /\ first <= k + 1 /\ k + 1 <= e + 1
  BY LenProperties, Lengths
<1>2. CrcHolds(d, first, n) <=> NumberOf(c) = Crc(s)
  BY <1>1 DEF CrcHolds
<1> HIDE DEF k, e
<1>3. SubSeq(d, first, e) = s \o c
  BY <1>1, ConcatAdjacentSubSeq
<1>4. s \in Seq(Byte) /\ Len(s) = n
  BY <1>1, PieceOf
<1>5. c \in Seq(Byte) /\ Len(c) = CrcBytes
  BY <1>1, PieceOf
<1>6. WithCrc(s) = s \o r
  BY DEF WithCrc
<1>7. Crc(s) \in 0 .. Values[CrcBytes] - 1 /\ Crc(s) \in Nat
  BY <1>4, CrcType
<1> HIDE DEF s, c
<1>8. r \in Seq(Byte) /\ Len(r) = CrcBytes
  BY <1>1, <1>7, BytesType
<1>9. NumberOf(c) = Crc(s) => c = r
  BY <1>5, BytesOfNumber
<1>10. c = r => NumberOf(c) = Crc(s)
  BY <1>1, <1>7, NumberOfBytes
<1> HIDE DEF r
<1>11. s \o c = s \o r => c = r
  <2>1. /\ SubSeq(s \o c, Len(s) + 1, Len(s) + Len(c)) = c
        /\ SubSeq(s \o r, Len(s) + 1, Len(s) + Len(r)) = r
    BY <1>4, <1>5, <1>8, HalvesOfConcat
  <2> QED
    BY <1>5, <1>8, <2>1
<1>12. CrcHolds(d, first, n) <=> SubSeq(d, first, e) = WithCrc(s)
  BY <1>2, <1>3, <1>6, <1>9, <1>10, <1>11
<1>13. Summed(s)
  BY <1>4 DEF Summed
<1> QED
  BY <1>12, <1>13 DEF s, e, k

\* A changed byte is seen, in the sequence or in its CRC.
LEMMA ChangeSeen ==
    ASSUME NEW s, Summed(s), NEW i \in 1 .. Len(s) + CrcBytes, NEW b \in Byte,
           b # WithCrc(s)[i]
    PROVE  [WithCrc(s) EXCEPT ![i] = b] # WithCrc(SubSeq([WithCrc(s) EXCEPT ![i] = b], 1, Len(s)))
<1> DEFINE w == WithCrc(s)
           n == Len(s)
           x == [w EXCEPT ![i] = b]
           t == SubSeq(x, 1, n)
<1>0. s \in Seq(Byte) /\ n \in Nat /\ (n = HeaderBytes \/ (n > 0 /\ n < LengthMod)) /\ CrcBytes \in Nat
  BY LenProperties, Lengths DEF Summed
<1>1. /\ w \in Seq(Byte) /\ Len(w) = n + CrcBytes /\ SubSeq(w, 1, n) = s
      /\ SubSeq(w, n + 1, n + CrcBytes) = BytesOf(Crc(s), CrcBytes)
  BY <1>0, WithCrcIs
<1>2. s \in Seq(Byte) /\ Crc(s) \in 0 .. Values[CrcBytes] - 1
      /\ \A j \in 1 .. n : \A a \in Byte \ {s[j]} : Crc([s EXCEPT ![j] = a]) # Crc(s)
  BY <1>0, CrcType
<1> HIDE DEF w
<1>3. i \in 1 .. Len(w) /\ n \in 0 .. Len(w) /\ n + CrcBytes \in 0 .. Len(w)
      /\ n + 1 \in Nat \ {0} /\ n + 1 <= (n + CrcBytes) + 1
  BY <1>0, <1>1
<1>4. t = IF i \in 1 .. n THEN [s EXCEPT ![i] = b] ELSE s
  <2>1. SubSeq([w EXCEPT ![i] = b], 1, n)
          = IF i \in 1 .. n THEN [SubSeq(w, 1, n) EXCEPT ![i - 1 + 1] = b] ELSE SubSeq(w, 1, n)
    <3>1. 1 \in Nat \ {0} /\ 1 <= n + 1
      BY <1>0
    <3> HIDE DEF n
    <3> QED
      BY <1>1, <1>3, <3>1, PieceOfChanged
  <2>2. i - 1 + 1 = i
    BY <1>0
  <2> QED
    BY <1>1, <2>1, <2>2
<1>5. x \in Seq(Byte) /\ Len(x) = n + CrcBytes /\ x[i] = b /\ w[i] # b
  BY <1>0, <1>1, <1>3, ExceptSeq DEF w
<1>6. SubSeq(x, n + 1, n + CrcBytes)
        = IF i \in n + 1 .. n + CrcBytes
          THEN [BytesOf(Crc(s), CrcBytes) EXCEPT ![i - (n + 1) + 1] = b]
          ELSE BytesOf(Crc(s), CrcBytes)
  BY <1>0, <1>1, <1>3, PieceOfChanged
<1> HIDE DEF x
<1>7. t \in Seq(Byte) /\ Len(t) = n
  <2>1. n \in 0 .. Len(x)
    BY <1>0, <1>5
  <2> QED
    BY <1>0, <1>5, <2>1, PieceOf
<1> HIDE DEF t
<1>8. /\ SubSeq(WithCrc(t), n + 1, n + CrcBytes) = BytesOf(Crc(t), CrcBytes)
      /\ Crc(t) \in 0 .. Values[CrcBytes] - 1
  BY <1>0, <1>7, WithCrcIs, CrcType
<1>9. CASE i \in 1 .. n
  <2>1. s[i] # b
    <3>1. SubSeq(w, 1, n)[i] = w[1 + i - 1] /\ 1 + i - 1 = i
      BY <1>0, <1>1, <1>3, <1>9, PieceOf
    <3> QED
      BY <1>1, <1>5, <3>1
  <2>2. Crc(t) # Crc(s)
    BY <1>2, <1>4, <1>9, <2>1
  <2>3. SubSeq(x, n + 1, n + CrcBytes) = BytesOf(Crc(s), CrcBytes)
    BY <1>0, <1>6, <1>9
  <2>4. BytesOf(Crc(s), CrcBytes) # BytesOf(Crc(t), CrcBytes)
    BY <1>0, <1>2, <1>8, <2>2, NumberOfBytes
  <2> QED
    BY <1>8, <2>3, <2>4 DEF x, t, w, n
<1>10. CASE i \notin 1 .. n
  <2>1. t = s
    BY <1>4, <1>10
  <2>2. x # w
    BY <1>5
  <2> QED
    BY <2>1, <2>2 DEF x, t, w, n
<1> QED
  BY <1>9, <1>10

-----------------------------------------------------------------------------
\* The header and the payload of a datagram.

HeaderIn(d) == SubSeq(d, 1, HeaderBytes)

LEMMA HeaderPieces ==
    ASSUME NEW d \in Seq(Byte), Len(d) >= MinPacket
    PROVE  /\ Summed(HeaderIn(d)) /\ Len(HeaderIn(d)) = HeaderBytes
           /\ SubSeq(HeaderIn(d), 1, LineBytes) = SubSeq(d, 1, LineBytes)
           /\ SubSeq(HeaderIn(d), LineBytes + 1, HeaderBytes)
                = SubSeq(d, LineBytes + 1, HeaderBytes)
           /\ CrcHolds(d, 1, HeaderBytes) <=> SubSeq(d, 1, MinPacket) = WithCrc(HeaderIn(d))
<1>1. Len(d) \in Nat /\ HeaderBytes \in Nat /\ HeaderBytes \in 0 .. Len(d)
      /\ LineBytes \in Nat /\ LineBytes \in 0 .. HeaderBytes /\ CrcBytes \in Nat
      /\ MinPacket = HeaderBytes + CrcBytes
  BY LenProperties, Lengths
<1>2. HeaderIn(d) \in Seq(Byte) /\ Len(HeaderIn(d)) = HeaderBytes
  <2>1. 1 <= HeaderBytes + 1 /\ 1 \in Nat \ {0} /\ HeaderBytes - 1 + 1 = HeaderBytes
    BY <1>1
  <2> QED
    BY <1>1, <2>1, PieceOf DEF HeaderIn
<1>3. SubSeq(HeaderIn(d), 1, LineBytes) = SubSeq(d, 1, LineBytes)
  <2>1. LineBytes \in 0 .. HeaderBytes - 1 + 1 /\ 1 <= LineBytes + 1 /\ 1 <= HeaderBytes + 1
        /\ 1 + 1 - 1 = 1 /\ 1 + LineBytes - 1 = LineBytes /\ 1 \in Nat \ {0}
    BY <1>1
  <2>2. SubSeq(SubSeq(d, 1, HeaderBytes), 1, LineBytes)
          = SubSeq(d, 1 + 1 - 1, 1 + LineBytes - 1)
    BY <1>1, <2>1, PieceOfPiece
  <2> QED
    BY <2>1, <2>2 DEF HeaderIn
<1>4. SubSeq(HeaderIn(d), LineBytes + 1, HeaderBytes) = SubSeq(d, LineBytes + 1, HeaderBytes)
  <2>1. /\ HeaderBytes \in 0 .. HeaderBytes - 1 + 1 /\ LineBytes + 1 \in Nat \ {0}
        /\ LineBytes + 1 <= HeaderBytes + 1 /\ 1 <= HeaderBytes + 1 /\ 1 \in Nat \ {0}
        /\ 1 + (LineBytes + 1) - 1 = LineBytes + 1 /\ 1 + HeaderBytes - 1 = HeaderBytes
    BY <1>1
  <2>2. SubSeq(SubSeq(d, 1, HeaderBytes), LineBytes + 1, HeaderBytes)
          = SubSeq(d, 1 + (LineBytes + 1) - 1, 1 + HeaderBytes - 1)
    BY <1>1, <2>1, PieceOfPiece
  <2> QED
    BY <2>1, <2>2 DEF HeaderIn
<1>5. CrcHolds(d, 1, HeaderBytes) <=> SubSeq(d, 1, MinPacket) = WithCrc(HeaderIn(d))
  <2>1. /\ 1 + HeaderBytes + CrcBytes - 1 = MinPacket /\ 1 + HeaderBytes - 1 = HeaderBytes
        /\ 1 + HeaderBytes + CrcBytes - 1 <= Len(d)
    BY <1>1
  <2>2. CrcHolds(d, 1, HeaderBytes)
          <=> SubSeq(d, 1, 1 + HeaderBytes + CrcBytes - 1)
                = WithCrc(SubSeq(d, 1, 1 + HeaderBytes - 1))
    BY <1>1, <2>1, CrcHoldsIs
  <2> QED
    BY <2>1, <2>2 DEF HeaderIn
<1> QED
  BY <1>2, <1>3, <1>4, <1>5 DEF Summed

\* The fields of a datagram that begins with the header of p are those of p.
LEMMA FieldsRead ==
    ASSUME NEW d \in Seq(Byte), Len(d) >= MinPacket,
           NEW p, Packable(p), HeaderIn(d) = HeaderOf(p)
    PROVE  /\ TypeIn(d) = p.type /\ WindowIn(d) = p.window /\ SeqnumIn(d) = p.seqnum
           /\ LengthIn(d) = Len(p.payload) /\ StampIn(d) = p.timestamp
<1>1. NumberOf(SubSeq(d, 1, LineBytes)) = Line(p)
  <2>1. SubSeq(d, 1, LineBytes) = BytesOf(Line(p), LineBytes)
    BY HeaderPieces, HeaderIs
  <2> QED
    BY <2>1, LineOf, Lengths, NumberOfBytes
<1>2. StampIn(d) = p.timestamp
  <2>1. SubSeq(d, LineBytes + 1, HeaderBytes) = BytesOf(p.timestamp, StampBytes)
    BY HeaderPieces, HeaderIs
  <2>2. p.timestamp \in 0 .. Values[StampBytes] - 1
    BY DEF Packable
  <2> QED
    BY <2>1, <2>2, Lengths, NumberOfBytes DEF StampIn
<1>3. ReadFrom(Line(p), p.type, p.window, Len(p.payload), p.seqnum)
  BY LineOf, LineRead
<1> QED
  BY <1>1, <1>2, <1>3 DEF ReadFrom, TypeIn, WindowIn, LengthIn, SeqnumIn

\* The packet read from a datagram that is long enough has the header of the datagram.
LEMMA PacketRead ==
    ASSUME NEW d \in Seq(Byte), Len(d) >= MinPacket, Len(d) >= MinPacket + LengthIn(d)
    PROVE  /\ LengthIn(d) \in Nat /\ LengthIn(d) < LengthMod
           /\ Packable(PacketIn(d)) /\ Len(PayloadIn(d)) = LengthIn(d)
           /\ HeaderOf(PacketIn(d)) = HeaderIn(d)
<1> DEFINE line == SubSeq(d, 1, LineBytes)
           stamp == SubSeq(d, LineBytes + 1, HeaderBytes)
           x == NumberOf(line)
           p == PacketIn(d)
<1>1. /\ Len(d) \in Nat /\ LineBytes \in Nat /\ LineBytes \in 0 .. Len(d)
      /\ StampBytes \in Nat /\ HeaderBytes \in 0 .. Len(d) /\ HeaderBytes = LineBytes + StampBytes
      /\ LineBytes + 1 \in Nat \ {0} /\ LineBytes + 1 <= HeaderBytes + 1
      /\ MinPacket \in Nat /\ 1 \in Nat \ {0} /\ 1 <= LineBytes + 1
      /\ LineBytes - 1 + 1 = LineBytes /\ HeaderBytes - (LineBytes + 1) + 1 = StampBytes
  BY LenProperties, Lengths
<1>2. line \in Seq(Byte) /\ Len(line) = LineBytes
  BY <1>1, PieceOf
<1>3. stamp \in Seq(Byte) /\ Len(stamp) = StampBytes
  BY <1>1, PieceOf
<1>4. x \in 0 .. Values[LineBytes] - 1 /\ BytesOf(x, LineBytes) = line
  <2> HIDE DEF line
  <2> QED
    BY <1>2, NumberType, BytesOfNumber
<1>5. StampIn(d) \in 0 .. Values[StampBytes] - 1 /\ BytesOf(StampIn(d), StampBytes) = stamp
  <2>1. StampIn(d) = NumberOf(stamp)
    BY DEF StampIn
  <2> HIDE DEF stamp
  <2> QED
    BY <1>3, <2>1, NumberType, BytesOfNumber
<1>6. Line4(x, TypeIn(d), WindowIn(d), LengthIn(d), SeqnumIn(d))
  <2>1. ReadFrom(x, TypeIn(d), WindowIn(d), LengthIn(d), SeqnumIn(d))
    BY DEF ReadFrom, TypeIn, WindowIn, LengthIn, SeqnumIn
  <2> QED
    BY <1>4, <2>1, ReadMakesLine
<1>7. /\ TypeIn(d) \in 0 .. 3 /\ WindowIn(d) \in 0 .. WindowMod - 1
      /\ LengthIn(d) \in 0 .. LengthMod - 1 /\ SeqnumIn(d) \in 0 .. SeqnumMod - 1
      /\ x = ((TypeIn(d) * WindowMod + WindowIn(d)) * LengthMod + LengthIn(d)) * SeqnumMod
               + SeqnumIn(d)
  BY <1>6 DEF Line4
<1>8. PayloadIn(d) \in Seq(Byte) /\ Len(PayloadIn(d)) = LengthIn(d)
  <2> DEFINE k == LengthIn(d)
  <2>1. /\ MinPacket + 1 \in Nat \ {0} /\ MinPacket + k \in 0 .. Len(d)
        /\ MinPacket + 1 <= (MinPacket + k) + 1 /\ (MinPacket + k) - (MinPacket + 1) + 1 = k
    BY <1>1, <1>7, Lengths
  <2> HIDE DEF k
  <2>2. SubSeq(d, MinPacket + 1, MinPacket + k) \in Seq(Byte)
        /\ Len(SubSeq(d, MinPacket + 1, MinPacket + k)) = k
    BY <2>1, PieceOf
  <2> QED
    BY <2>2 DEF PayloadIn, k
<1>9. /\ p.type = TypeIn(d) /\ p.window = WindowIn(d) /\ p.seqnum = SeqnumIn(d)
      /\ p.timestamp = StampIn(d) /\ p.payload = PayloadIn(d)
  BY DEF PacketIn
<1> HIDE DEF p
<1>10. LengthIn(d) \in Nat /\ LengthIn(d) < LengthMod
  BY <1>7, Lengths
<1>11. Packable(p)
  BY <1>5, <1>7, <1>8, <1>9, <1>10 DEF Packable
<1>12. Line(p) = x
  BY <1>7, <1>8, <1>9 DEF Line
<1>13. HeaderOf(p) = line \o stamp
  BY <1>4, <1>5, <1>9, <1>12 DEF HeaderOf
<1>14. line \o stamp = HeaderIn(d)
  <2>1. /\ 1 \in 1 .. Len(d) + 1 /\ LineBytes \in 1 - 1 .. Len(d)
        /\ HeaderBytes \in LineBytes .. Len(d)
    BY <1>1
  <2> QED
    BY <2>1, ConcatAdjacentSubSeq DEF HeaderIn
<1> QED
  BY <1>8, <1>10, <1>11, <1>13, <1>14 DEF p

-----------------------------------------------------------------------------
\* The datagram that pack makes.

LEMMA EncodedIs ==
    ASSUME NEW p, Packable(p)
    PROVE  /\ Encoded(p) \in Seq(Byte) /\ Len(Encoded(p)) >= MinPacket
           /\ SubSeq(Encoded(p), 1, MinPacket) = WithCrc(HeaderOf(p))
           /\ HeaderIn(Encoded(p)) = HeaderOf(p)
           /\ Datagram(Shifted(p), p) = Encoded(p)
           /\ Len(p.payload) = 0 =>
                Len(Encoded(p)) = MinPacket /\ Encoded(p) = WithCrc(HeaderOf(p))
           /\ Len(p.payload) > 0 =>
                /\ Len(Encoded(p)) = MinPacket + Len(p.payload) + CrcBytes
                /\ Encoded(p) = WithCrc(HeaderOf(p)) \o WithCrc(p.payload)
                /\ SubSeq(Encoded(p), MinPacket + 1, MinPacket + Len(p.payload) + CrcBytes)
                     = WithCrc(p.payload)
<1> DEFINE q == p.payload
           h == WithCrc(HeaderOf(p))
           t == IF q = <<>> THEN <<>> ELSE WithCrc(q)
           d == Encoded(p)
           l == Len(q)
<1> SUFFICES /\ d \in Seq(Byte) /\ Len(d) >= MinPacket
             /\ SubSeq(d, 1, MinPacket) = h /\ HeaderIn(d) = HeaderOf(p)
             /\ Datagram(Shifted(p), p) = d
             /\ l = 0 => Len(d) = MinPacket /\ d = h
             /\ l > 0 => /\ Len(d) = MinPacket + l + CrcBytes
                         /\ d = h \o WithCrc(q)
                         /\ SubSeq(d, MinPacket + 1, MinPacket + l + CrcBytes)
                              = WithCrc(q)
  OBVIOUS
<1>1. d = h \o t
  BY DEF Encoded, Datagram, HeaderOf
<1>2. HeaderOf(p) \in Seq(Byte) /\ Len(HeaderOf(p)) = HeaderBytes
  BY HeaderIs
<1>3. h \in Seq(Byte) /\ Len(h) = MinPacket /\ SubSeq(h, 1, HeaderBytes) = HeaderOf(p)
  BY <1>2, WithCrcIs, Lengths
<1>4. q \in Seq(Byte) /\ l = Len(q) /\ l \in Nat /\ l < LengthMod
  BY LenProperties DEF Packable
<1> HIDE DEF q, l
<1>5. CASE l = 0
  <2>1. q = <<>>
    BY <1>4, <1>5, EmptySeq
  <2>2. d = h
    BY <1>1, <1>3, <2>1, ConcatEmptySeq
  <2> HIDE DEF h, t, d
  <2>3. SubSeq(h, 1, MinPacket) = h
    BY <1>3, SubSeqFull
  <2>4. Len(d) >= MinPacket
    BY <1>3, <2>2, Lengths
  <2>5. Datagram(Shifted(p), p) = d
    BY LineOf DEF Encoded, d
  <2> QED
    BY <1>3, <1>5, <2>2, <2>3, <2>4, <2>5 DEF HeaderIn
<1>6. CASE l > 0
  <2>1. q # <<>>
    BY <1>4, <1>6, EmptySeq
  <2>2. t = WithCrc(q)
    BY <2>1
  <2> HIDE DEF h, t, d
  <2>3. t \in Seq(Byte) /\ Len(t) = l + CrcBytes
    <3>1. Len(q) = HeaderBytes \/ (Len(q) > 0 /\ Len(q) < LengthMod)
      BY <1>4, <1>6
    <3>2. WithCrc(q) \in Seq(Byte) /\ Len(WithCrc(q)) = Len(q) + CrcBytes
      BY <1>4, <3>1, WithCrcIs
    <3> QED
      BY <1>4, <2>2, <3>2
  <2>4. d \in Seq(Byte) /\ Len(d) = MinPacket + l + CrcBytes
    <3>1. d \in Seq(Byte) /\ Len(d) = Len(h) + Len(t)
      BY <1>1, <1>3, <2>3, ConcatProperties
    <3>2. Len(h) = MinPacket /\ Len(t) = l + CrcBytes /\ MinPacket \in Nat /\ l \in Nat /\ CrcBytes \in Nat
      BY <1>3, <1>4, <2>3, Lengths
    <3> QED
      BY <3>1, <3>2
  <2>5. /\ SubSeq(d, 1, MinPacket) = h
        /\ SubSeq(d, MinPacket + 1, MinPacket + l + CrcBytes) = t
    <3>1. SubSeq(h \o t, 1, Len(h)) = h /\ SubSeq(h \o t, Len(h) + 1, Len(h) + Len(t)) = t
      BY <1>3, <2>3, HalvesOfConcat
    <3>2. Len(h) + Len(t) = MinPacket + l + CrcBytes
      BY <1>3, <1>4, <2>3, Lengths
    <3> QED
      BY <1>1, <1>3, <3>1, <3>2
  <2>6. SubSeq(d, 1, HeaderBytes) = HeaderOf(p)
    <3>1. /\ HeaderBytes \in Nat /\ 1 <= HeaderBytes + 1 /\ HeaderBytes <= Len(h)
          /\ 1 \in Nat \ {0}
      BY <1>3, Lengths
    <3>2. SubSeq(h \o t, 1, HeaderBytes) = SubSeq(h, 1, HeaderBytes)
      BY <1>3, <2>3, <3>1, PieceOfConcat
    <3> QED
      BY <1>1, <1>3, <3>2
  <2>7. Datagram(Shifted(p), p) = d
    BY LineOf DEF Encoded, d
  <2>8. Len(d) >= MinPacket
    BY <1>4, <2>4, Lengths
  <2>9. HeaderIn(d) = HeaderOf(p) /\ l # 0
    BY <1>6, <2>6 DEF HeaderIn
  <2>10. d = h \o WithCrc(q)
    BY <1>1, <2>2
  <2>11. SubSeq(d, MinPacket + 1, MinPacket + l + CrcBytes) = WithCrc(q)
    BY <2>2, <2>5
  <2> QED
    BY <2>4, <2>5, <2>7, <2>8, <2>9, <2>10, <2>11
<1> QED
  BY <1>4, <1>5, <1>6

-----------------------------------------------------------------------------
\* What is accepted.

\* What the decoders have in common: all but group 2's want CRC2 to be complete.
AcceptedByAny(d) ==
    /\ HeaderHolds(d)
    /\ Len(d) >= MinPacket + LengthIn(d)
    /\ LengthIn(d) > 0 /\ Len(d) >= MinPacket + LengthIn(d) + CrcBytes =>
         CrcHolds(d, MinPacket + 1, LengthIn(d))

LEMMA LengthRead ==
    ASSUME NEW d \in Seq(Byte), Len(d) >= MinPacket
    PROVE  LengthIn(d) \in 0 .. LengthMod - 1 /\ LengthIn(d) \in Nat
<1> DEFINE line == SubSeq(d, 1, LineBytes)
<1>1. line \in Seq(Byte) /\ Len(line) = LineBytes
  <2>1. /\ Len(d) \in Nat /\ LineBytes \in 0 .. Len(d) /\ 1 \in Nat \ {0} /\ 1 <= LineBytes + 1
        /\ LineBytes - 1 + 1 = LineBytes
    BY LenProperties, Lengths
  <2> QED
    BY <2>1, PieceOf
<1>2. LengthIn(d) = (NumberOf(line) \div SeqnumMod) % LengthMod
  BY DEF LengthIn
<1> HIDE DEF line
<1>3. NumberOf(line) \in Nat
  BY <1>1, NumberType, ValuesIs, Lengths
<1>4. NumberOf(line) \div SeqnumMod \in Nat
  BY <1>3, LayoutType, DivisionHolds
<1>5. LengthIn(d) \in 0 .. LengthMod - 1
  BY <1>2, <1>4, LayoutType, DivisionHolds
<1> QED
  BY <1>5, Lengths

LEMMA AnyAccepts ==
    ASSUME NEW d \in Seq(Byte)
    PROVE  /\ Accepts(d) \/ G12Accepts(d) \/ G3Accepts(d) \/ G2Accepts(d) => AcceptedByAny(d)
           /\ Accepts(d) \/ G12Accepts(d) \/ G3Accepts(d) =>
                (LengthIn(d) > 0 => Len(d) >= MinPacket + LengthIn(d) + CrcBytes)
<1> SUFFICES ASSUME HeaderHolds(d)
             PROVE  /\ Accepts(d) \/ G12Accepts(d) \/ G3Accepts(d) \/ G2Accepts(d)
                         => AcceptedByAny(d)
                    /\ Accepts(d) \/ G12Accepts(d) \/ G3Accepts(d) =>
                         (LengthIn(d) > 0 => Len(d) >= MinPacket + LengthIn(d) + CrcBytes)
  BY DEF Accepts, G12Accepts, G3Accepts, G2Accepts, HeaderHolds
<1>1. Len(d) \in Nat /\ Len(d) >= MinPacket /\ LengthIn(d) \in Nat
      /\ MinPacket \in Nat /\ CrcBytes \in Nat
  BY LengthRead, LenProperties, Lengths DEF HeaderHolds
<1> DEFINE complete == LengthIn(d) > 0 => Len(d) >= MinPacket + LengthIn(d) + CrcBytes
           holds == LengthIn(d) > 0 => CrcHolds(d, MinPacket + 1, LengthIn(d))
<1>2. complete => Len(d) >= MinPacket + LengthIn(d)
  BY <1>1
<1>3. Accepts(d) => complete /\ holds
  BY DEF Accepts
<1>4. G12Accepts(d) => complete /\ holds
  BY DEF G12Accepts
<1>5. G3Accepts(d) => complete /\ holds
  BY <1>1 DEF G3Accepts
<1>6. G2Accepts(d) => AcceptedByAny(d)
  BY DEF G2Accepts, AcceptedByAny
<1>7. complete /\ holds => AcceptedByAny(d)
  BY <1>2 DEF AcceptedByAny
<1> QED
  BY <1>3, <1>4, <1>5, <1>6, <1>7

\* The check of CRC2.
LEMMA PayloadPieces ==
    ASSUME NEW d \in Seq(Byte), NEW l \in Nat, l > 0, l < LengthMod,
           Len(d) >= MinPacket + l + CrcBytes
    PROVE  /\ CrcHolds(d, MinPacket + 1, l)
                <=> SubSeq(d, MinPacket + 1, MinPacket + l + CrcBytes)
                      = WithCrc(SubSeq(d, MinPacket + 1, MinPacket + l))
           /\ SubSeq(SubSeq(d, MinPacket + 1, MinPacket + l + CrcBytes), 1, l)
                = SubSeq(d, MinPacket + 1, MinPacket + l)
<1> DEFINE a == MinPacket + 1
           b == MinPacket + l + CrcBytes
<1>1. /\ Len(d) \in Nat /\ a \in Nat \ {0} /\ b \in 0 .. Len(d) /\ a <= b + 1
      /\ l \in 0 .. b - a + 1 /\ 1 <= l + 1 /\ a + 1 - 1 = a /\ a + l - 1 = MinPacket + l
      /\ a + l + CrcBytes - 1 = b /\ a + l + CrcBytes - 1 <= Len(d) /\ 1 \in Nat \ {0}
  BY LenProperties, Lengths
<1> SUFFICES /\ CrcHolds(d, a, l)
                  <=> SubSeq(d, a, b) = WithCrc(SubSeq(d, a, MinPacket + l))
             /\ SubSeq(SubSeq(d, a, b), 1, l) = SubSeq(d, a, MinPacket + l)
  OBVIOUS
<1> HIDE DEF a, b
<1>2. CrcHolds(d, a, l) <=> SubSeq(d, a, a + l + CrcBytes - 1) = WithCrc(SubSeq(d, a, a + l - 1))
  BY <1>1, CrcHoldsIs
<1>3. SubSeq(SubSeq(d, a, b), 1, l) = SubSeq(d, a + 1 - 1, a + l - 1)
  BY <1>1, PieceOfPiece
<1> QED
  BY <1>1, <1>2, <1>3

\* What the groups send is accepted by all of them, and read as it was.
LEMMA IntactRead ==
    ASSUME NEW p, Packable(p), Valid(p)
    PROVE  /\ Accepts(Encoded(p)) /\ G12Accepts(Encoded(p))
           /\ G3Accepts(Encoded(p)) /\ G2Accepts(Encoded(p))
           /\ PacketIn(Encoded(p))
                = [type |-> p.type, window |-> p.window, seqnum |-> p.seqnum,
                   timestamp |-> p.timestamp, payload |-> p.payload]
<1> DEFINE d == Encoded(p)
           q == p.payload
           l == Len(q)
<1>1. /\ d \in Seq(Byte) /\ Len(d) >= MinPacket /\ HeaderIn(d) = HeaderOf(p)
      /\ SubSeq(d, 1, MinPacket) = WithCrc(HeaderOf(p))
      /\ l = 0 => Len(d) = MinPacket
      /\ l > 0 => /\ Len(d) = MinPacket + l + CrcBytes
                  /\ SubSeq(d, MinPacket + 1, MinPacket + l + CrcBytes) = WithCrc(q)
  BY EncodedIs
<1>2. q \in Seq(Byte) /\ l \in Nat /\ l < LengthMod /\ l <= MaxPayload /\ p.type \in 1 .. 3
  BY LenProperties DEF Packable, Valid
<1>3. /\ TypeIn(d) = p.type /\ WindowIn(d) = p.window /\ SeqnumIn(d) = p.seqnum
      /\ LengthIn(d) = l /\ StampIn(d) = p.timestamp
  BY <1>1, FieldsRead
<1> SUFFICES Accepts(d) /\ G12Accepts(d) /\ G3Accepts(d) /\ G2Accepts(d) /\ PayloadIn(d) = q
  BY <1>3 DEF PacketIn
<1>4. q = <<>> \/ l > 0
  BY <1>2, EmptySeq
<1>5. Len(q) = l
  OBVIOUS
<1>6. p.type # 0
  BY <1>2
<1> HIDE DEF d, q, l
<1>7. HeaderHolds(d) /\ CrcHolds(d, 1, HeaderBytes) /\ LengthFits(d)
  BY <1>1, <1>2, <1>3, HeaderPieces DEF HeaderHolds, LengthFits
<1>8. ASSUME l > 0
      PROVE  /\ Len(d) >= MinPacket + l + CrcBytes /\ CrcHolds(d, MinPacket + 1, l)
             /\ SubSeq(d, MinPacket + 1, MinPacket + l) = q
  <2>1. Len(d) = MinPacket + l + CrcBytes /\ Len(d) >= MinPacket + l + CrcBytes
    BY <1>1, <1>2, <1>8, Lengths
  <2>2. SubSeq(WithCrc(q), 1, l) = q
    BY <1>2, <1>5, <1>8, WithCrcIs
  <2>3. SubSeq(d, MinPacket + 1, MinPacket + l) = q
    BY <1>1, <1>2, <1>8, <2>1, <2>2, PayloadPieces
  <2> QED
    BY <1>1, <1>2, <1>8, <2>1, <2>3, PayloadPieces
<1>9. PayloadIn(d) = q
  <2>1. CASE l > 0
    BY <1>3, <1>8, <2>1 DEF PayloadIn
  <2>2. CASE ~ (l > 0)
    <3>1. q = <<>> /\ l = 0
      BY <1>2, <1>4, <2>2
    <3>2. SubSeq(d, MinPacket + 1, MinPacket + 0) = <<>>
      <4>1. MinPacket + 0 \in 0 .. Len(d) /\ MinPacket + 1 <= (MinPacket + 0) + 1
            /\ MinPacket + 1 \in Nat \ {0} /\ (MinPacket + 0) - (MinPacket + 1) + 1 = 0
        BY <1>1, LenProperties, Lengths
      <4>2. /\ SubSeq(d, MinPacket + 1, MinPacket + 0) \in Seq(Byte)
            /\ Len(SubSeq(d, MinPacket + 1, MinPacket + 0)) = 0
        BY <1>1, <4>1, PieceOf
      <4> QED
        BY <4>2, EmptySeq
    <3> QED
      BY <1>3, <3>1, <3>2 DEF PayloadIn
  <2> QED
    BY <2>1, <2>2
<1>10. Len(d) \in Nat /\ Len(d) >= MinPacket + l /\ (l > 0 => Len(d) - MinPacket >= l + CrcBytes)
  BY <1>1, <1>2, <1>8, LenProperties, Lengths
<1>11. Accepts(d)
  BY <1>1, <1>2, <1>3, <1>7, <1>8 DEF Accepts
<1>12. G12Accepts(d)
  BY <1>3, <1>7, <1>8 DEF G12Accepts
<1>13. G3Accepts(d)
  BY <1>2, <1>3, <1>7, <1>8, <1>10 DEF G3Accepts
<1>14. G2Accepts(d)
  BY <1>3, <1>6, <1>7, <1>8, <1>10 DEF G2Accepts
<1> QED
  BY <1>9, <1>11, <1>12, <1>13, <1>14

\* The link's inversion of a byte.
Inverted(d, i) == [d EXCEPT ![i] = ByteMod - 1 - @]

\* A byte is not its inversion: there is an even number of bytes.
LEMMA InversionChanges ==
    ASSUME NEW b \in Byte
    PROVE  ByteMod - 1 - b \in Byte /\ ByteMod - 1 - b # b
BY LayoutAssumption DEF Byte

\* A datagram with an inverted byte is accepted by nobody.
LEMMA InvertedRejected ==
    ASSUME NEW p, Packable(p), NEW i \in 1 .. Len(Encoded(p))
    PROVE  ~ AcceptedByAny(Inverted(Encoded(p), i))
<1> DEFINE e == Encoded(p)
           b == ByteMod - 1 - e[i]
           d == [e EXCEPT ![i] = b]
           h == HeaderOf(p)
           q == p.payload
           l == Len(q)
<1>1. /\ e \in Seq(Byte) /\ Len(e) >= MinPacket
      /\ SubSeq(e, 1, MinPacket) = WithCrc(h) /\ HeaderIn(e) = h
      /\ l = 0 => Len(e) = MinPacket
      /\ l > 0 => /\ Len(e) = MinPacket + l + CrcBytes
                  /\ SubSeq(e, MinPacket + 1, MinPacket + l + CrcBytes) = WithCrc(q)
  BY EncodedIs
<1>2. h \in Seq(Byte) /\ Len(h) = HeaderBytes
  BY HeaderIs
<1>3. q \in Seq(Byte) /\ l \in Nat /\ l < LengthMod
  BY LenProperties DEF Packable
<1>4. Len(q) = l
  OBVIOUS
<1>5. Inverted(e, i) = d
  BY DEF Inverted
<1> SUFFICES ASSUME AcceptedByAny(d) PROVE FALSE
  BY <1>5
<1>6. HeaderIn(d) = h => LengthIn(d) = l \/ ~ (d \in Seq(Byte) /\ Len(d) >= MinPacket)
  BY FieldsRead
<1> HIDE DEF e, h, q, l
<1>7. e[i] \in Byte /\ b \in Byte /\ b # e[i] /\ i \in 1 .. Len(e)
  <2>1. i \in 1 .. Len(e)
    BY DEF e
  <2>2. e[i] \in Byte
    BY <1>1, <2>1, ElementOfSeq
  <2> QED
    BY <2>1, <2>2, InversionChanges
<1> HIDE DEF b
<1>8. d \in Seq(Byte) /\ Len(d) = Len(e)
  BY <1>1, <1>7, ExceptSeq
<1>9. SubSeq(d, 1, MinPacket) = WithCrc(HeaderIn(d)) /\ Len(e) \in Nat
  BY <1>1, <1>8, HeaderPieces, LenProperties DEF AcceptedByAny, HeaderHolds
<1>10. CASE i <= MinPacket
  <2>1. SubSeq(d, 1, MinPacket) = [WithCrc(h) EXCEPT ![i] = b]
    <3>1. MinPacket \in 0 .. Len(e) /\ 1 <= MinPacket + 1 /\ 1 \in Nat \ {0}
          /\ i \in 1 .. MinPacket /\ i - 1 + 1 = i
      BY <1>1, <1>7, <1>9, <1>10, Lengths
    <3>2. SubSeq(d, 1, MinPacket) = [SubSeq(e, 1, MinPacket) EXCEPT ![i - 1 + 1] = b]
      BY <1>1, <1>7, <3>1, PieceOfChanged
    <3> QED
      BY <1>1, <3>1, <3>2
  <2>2. HeaderIn(d) = SubSeq([WithCrc(h) EXCEPT ![i] = b], 1, Len(h))
    <3> HIDE DEF d
    <3>1. /\ MinPacket \in 0 .. Len(d) /\ 1 <= MinPacket + 1 /\ 1 \in Nat \ {0}
          /\ HeaderBytes \in 0 .. MinPacket - 1 + 1 /\ 1 <= HeaderBytes + 1
          /\ 1 + 1 - 1 = 1 /\ 1 + HeaderBytes - 1 = HeaderBytes
      BY <1>1, <1>8, <1>9, Lengths
    <3>2. SubSeq(SubSeq(d, 1, MinPacket), 1, HeaderBytes)
            = SubSeq(d, 1 + 1 - 1, 1 + HeaderBytes - 1)
      BY <1>8, <3>1, PieceOfPiece
    <3> QED
      BY <1>2, <2>1, <3>1, <3>2 DEF HeaderIn
  <2>3. WithCrc(h)[i] = e[i]
    <3>1. /\ MinPacket \in 0 .. Len(e) /\ 1 <= MinPacket + 1 /\ 1 \in Nat \ {0}
          /\ i \in 1 .. MinPacket - 1 + 1 /\ 1 + i - 1 = i
      BY <1>1, <1>7, <1>9, <1>10, Lengths
    <3>2. SubSeq(e, 1, MinPacket)[i] = e[1 + i - 1]
      BY <1>1, <3>1, PieceOf
    <3> QED
      BY <1>1, <3>1, <3>2
  <2>4. Summed(h) /\ i \in 1 .. Len(h) + CrcBytes /\ b # WithCrc(h)[i]
    BY <1>2, <1>7, <1>9, <1>10, <2>3, Lengths DEF Summed
  <2> HIDE DEF d
  <2> QED
    BY <1>7, <1>9, <2>1, <2>2, <2>4, ChangeSeen
<1>11. CASE i > MinPacket
  <2>1. l > 0 /\ Len(e) = MinPacket + l + CrcBytes
    BY <1>1, <1>3, <1>7, <1>9, <1>11, Lengths
  <2>2. HeaderIn(d) = h
    <3>1. HeaderBytes \in 0 .. Len(e) /\ 1 <= HeaderBytes + 1 /\ 1 \in Nat \ {0}
          /\ i \notin 1 .. HeaderBytes
      BY <1>1, <1>7, <1>9, <1>11, Lengths
    <3>2. SubSeq(d, 1, HeaderBytes) = SubSeq(e, 1, HeaderBytes)
      BY <1>1, <1>7, <3>1, PieceOfChanged
    <3> QED
      BY <1>1, <3>2 DEF HeaderIn
  <2>3. LengthIn(d) = l
    BY <1>1, <1>6, <1>8, <2>2
  <2> DEFINE a == MinPacket + 1
             z == MinPacket + l + CrcBytes
             j == i - a + 1
  <2>4. /\ a \in Nat \ {0} /\ z \in 0 .. Len(e) /\ a <= z + 1 /\ i \in a .. z
        /\ j \in 1 .. l + CrcBytes /\ a + j - 1 = i /\ z - a + 1 = l + CrcBytes
    BY <1>3, <1>7, <1>9, <1>11, <2>1, Lengths
  <2>5. CrcHolds(d, a, l)
    BY <1>8, <1>9, <2>1, <2>3 DEF AcceptedByAny
  <2>6. /\ SubSeq(d, a, z) = WithCrc(SubSeq(d, a, MinPacket + l))
        /\ SubSeq(SubSeq(d, a, z), 1, l) = SubSeq(d, a, MinPacket + l)
    <3> HIDE DEF d
    <3>1. Len(d) >= MinPacket + l + CrcBytes
      BY <1>8, <1>9, <2>1
    <3> QED
      BY <1>3, <1>8, <2>1, <2>5, <3>1, PayloadPieces
  <2>7. SubSeq(e, a, z) = WithCrc(q)
    BY <1>1, <2>1
  <2> HIDE DEF a, z, j
  <2>8. SubSeq(d, a, z) = [WithCrc(q) EXCEPT ![j] = b]
    <3>1. SubSeq(d, a, z) = [SubSeq(e, a, z) EXCEPT ![i - a + 1] = b]
      BY <1>1, <1>7, <2>4, PieceOfChanged
    <3> QED
      BY <2>7, <3>1 DEF j
  <2>9. WithCrc(q)[j] = e[i]
    <3>1. j \in 1 .. z - a + 1
      BY <2>4
    <3>2. SubSeq(e, a, z)[j] = e[a + j - 1]
      BY <1>1, <2>4, <3>1, PieceOf
    <3> QED
      BY <2>4, <2>7, <3>2
  <2>10. Summed(q) /\ j \in 1 .. Len(q) + CrcBytes /\ b # WithCrc(q)[j]
    BY <1>3, <1>4, <1>7, <2>1, <2>4, <2>9 DEF Summed
  <2>11. [WithCrc(q) EXCEPT ![j] = b] # WithCrc(SubSeq([WithCrc(q) EXCEPT ![j] = b], 1, Len(q)))
    BY <1>7, <2>10, ChangeSeen
  <2> HIDE DEF d
  <2> QED
    BY <1>4, <2>6, <2>8, <2>11
<1> QED
  BY <1>7, <1>9, <1>10, <1>11, Lengths

\* Nor is one that is cut after its header.
LEMMA CutRejected ==
    ASSUME NEW p, Packable(p), Len(p.payload) > 0
    PROVE  ~ AcceptedByAny(SubSeq(Encoded(p), 1, MinPacket))
<1> DEFINE e == Encoded(p)
           d == SubSeq(e, 1, MinPacket)
           l == Len(p.payload)
<1>1. /\ e \in Seq(Byte) /\ Len(e) >= MinPacket /\ HeaderIn(e) = HeaderOf(p)
  BY EncodedIs
<1>2. l \in Nat /\ l > 0
  BY LenProperties DEF Packable
<1> HIDE DEF e
<1>3. /\ Len(e) \in Nat /\ MinPacket \in 0 .. Len(e) /\ 1 <= MinPacket + 1 /\ 1 \in Nat \ {0}
      /\ HeaderBytes \in 0 .. MinPacket - 1 + 1 /\ 1 <= HeaderBytes + 1
      /\ 1 + 1 - 1 = 1 /\ 1 + HeaderBytes - 1 = HeaderBytes /\ MinPacket - 1 + 1 = MinPacket
  BY <1>1, LenProperties, Lengths
<1>4. d \in Seq(Byte) /\ Len(d) = MinPacket
  BY <1>1, <1>3, PieceOf
<1>5. HeaderIn(d) = HeaderOf(p)
  <2>1. SubSeq(SubSeq(e, 1, MinPacket), 1, HeaderBytes) = SubSeq(e, 1 + 1 - 1, 1 + HeaderBytes - 1)
    BY <1>1, <1>3, PieceOfPiece
  <2> QED
    BY <1>1, <1>3, <2>1 DEF HeaderIn
<1> HIDE DEF d
<1>6. LengthIn(d) = l
  <2>1. Len(d) >= MinPacket
    BY <1>4, Lengths
  <2> QED
    BY <1>4, <1>5, <2>1, FieldsRead
<1> HIDE DEF l
<1>7. ~ (Len(d) >= MinPacket + LengthIn(d))
  BY <1>2, <1>4, <1>6, Lengths
<1> QED
  BY <1>7 DEF AcceptedByAny, d, e

\* What is accepted begins with what pack makes of the packet that is read, all
\* of it if CRC2 is complete.
LEMMA AcceptedRead ==
    ASSUME NEW d \in Seq(Byte), AcceptedByAny(d)
    PROVE  /\ Packable(PacketIn(d)) /\ Len(PacketIn(d).payload) <= MaxPayload
           /\ \/ IsPrefix(Encoded(PacketIn(d)), d)
              \/ /\ LengthIn(d) > 0 /\ Len(d) < Len(Encoded(PacketIn(d)))
                 /\ Len(d) < MinPacket + LengthIn(d) + CrcBytes
                 /\ IsPrefix(SubSeq(Encoded(PacketIn(d)), 1,
                                    MinPacket + Len(PacketIn(d).payload)), d)
<1> DEFINE p == PacketIn(d)
           e == Encoded(p)
           l == LengthIn(d)
<1>1. Len(d) >= MinPacket /\ Len(d) >= MinPacket + l /\ LengthFits(d) /\ Len(d) \in Nat
  BY LenProperties DEF AcceptedByAny, HeaderHolds
<1>2. /\ l \in Nat /\ l < LengthMod /\ Packable(p) /\ Len(PayloadIn(d)) = l
      /\ HeaderOf(p) = HeaderIn(d)
  BY <1>1, PacketRead
<1>3. SubSeq(d, 1, MinPacket) = WithCrc(HeaderIn(d))
  BY <1>1, HeaderPieces DEF AcceptedByAny, HeaderHolds
<1>4. p.payload = PayloadIn(d)
  BY DEF PacketIn
<1>5. Len(p.payload) <= MaxPayload
  BY <1>1, <1>2, <1>4 DEF LengthFits
<1>6. /\ e \in Seq(Byte) /\ Len(e) >= MinPacket
      /\ l = 0 => Len(e) = MinPacket /\ e = SubSeq(d, 1, MinPacket)
      /\ l > 0 => /\ Len(e) = MinPacket + l + CrcBytes
                  /\ e = SubSeq(d, 1, MinPacket) \o WithCrc(PayloadIn(d))
  BY <1>2, <1>3, <1>4, EncodedIs
<1>7. Len(p.payload) = l
  BY <1>2, <1>4
<1>8. PayloadIn(d) = SubSeq(d, MinPacket + 1, MinPacket + l)
  BY DEF PayloadIn
<1>9. LengthIn(d) > 0 /\ Len(d) >= MinPacket + l + CrcBytes => CrcHolds(d, MinPacket + 1, l)
  BY DEF AcceptedByAny
<1> SUFFICES \/ IsPrefix(e, d)
             \/ /\ l > 0 /\ Len(d) < Len(e) /\ Len(d) < MinPacket + l + CrcBytes
                /\ IsPrefix(SubSeq(e, 1, MinPacket + l), d)
  BY <1>2, <1>5, <1>7
<1> HIDE DEF p, e, l
<1>10. ASSUME NEW n \in 0 .. Len(d)
       PROVE  IsPrefix(SubSeq(d, 1, n), d)
  <2>1. /\ 1 \in Nat \ {0} /\ 1 <= n + 1 /\ n - 1 + 1 = n
    BY <1>1
  <2>2. SubSeq(d, 1, n) \in Seq(Byte) /\ Len(SubSeq(d, 1, n)) = n
    BY <2>1, PieceOf
  <2>3. SubSeq(SubSeq(d, 1, n), 1, n) = SubSeq(d, 1, n)
    BY <2>2, SubSeqFull
  <2> QED
    BY <1>1, <2>2, <2>3 DEF IsPrefix
<1>11. CASE l = 0
  <2>1. MinPacket \in 0 .. Len(d)
    BY <1>1, Lengths
  <2> QED
    BY <1>6, <1>10, <1>11, <2>1
<1>12. CASE l > 0 /\ Len(d) >= MinPacket + l + CrcBytes
  <2>1. WithCrc(PayloadIn(d)) = SubSeq(d, MinPacket + 1, MinPacket + l + CrcBytes)
    BY <1>2, <1>8, <1>9, <1>12, PayloadPieces DEF l
  <2> DEFINE z == MinPacket + l + CrcBytes
  <2>2. z \in 0 .. Len(d) /\ 1 \in 1 .. Len(d) + 1 /\ MinPacket \in 1 - 1 .. Len(d)
        /\ z \in MinPacket .. Len(d)
    BY <1>1, <1>2, <1>12, Lengths
  <2>3. e = SubSeq(d, 1, z)
    <3>1. e = SubSeq(d, 1, MinPacket) \o SubSeq(d, MinPacket + 1, z)
      BY <1>6, <1>12, <2>1
    <3> HIDE DEF z
    <3> QED
      BY <2>2, <3>1, ConcatAdjacentSubSeq
  <2> QED
    BY <1>10, <2>2, <2>3
<1>13. CASE l > 0 /\ ~ (Len(d) >= MinPacket + l + CrcBytes)
  <2>1. Len(d) < MinPacket + l + CrcBytes /\ Len(d) < Len(e)
    BY <1>1, <1>2, <1>6, <1>13, Lengths
  <2> DEFINE h == SubSeq(d, 1, MinPacket)
             q == PayloadIn(d)
             w == WithCrc(q)
             n == MinPacket + l
  <2>2. h \in Seq(Byte) /\ Len(h) = MinPacket
    <3>1. MinPacket \in 0 .. Len(d) /\ 1 \in Nat \ {0} /\ 1 <= MinPacket + 1
          /\ MinPacket - 1 + 1 = MinPacket
      BY <1>1, Lengths
    <3> QED
      BY <3>1, PieceOf
  <2>3. q \in Seq(Byte) /\ Len(q) = l
    BY <1>2, <1>4 DEF Packable
  <2>4. e = h \o w
    BY <1>6, <1>13
  <2>5. SubSeq(d, 1, n) = h \o q
    <3>1. n \in MinPacket .. Len(d) /\ 1 \in 1 .. Len(d) + 1 /\ MinPacket \in 1 - 1 .. Len(d)
      BY <1>1, <1>2, Lengths
    <3>2. q = SubSeq(d, MinPacket + 1, n)
      BY <1>8
    <3> HIDE DEF n, q
    <3> QED
      BY <3>1, <3>2, ConcatAdjacentSubSeq
  <2>6. n \in 0 .. Len(d)
    BY <1>1, <1>2, Lengths
  <2> HIDE DEF h, q
  <2>7. w \in Seq(Byte) /\ Len(w) = l + CrcBytes /\ w = q \o BytesOf(Crc(q), CrcBytes)
    BY <1>2, <1>13, <2>3, WithCrcIs DEF WithCrc
  <2> DEFINE c == BytesOf(Crc(q), CrcBytes)
  <2>8. c \in Seq(Byte)
    BY <1>2, <1>13, <2>3, CrcType, BytesType, Lengths
  <2> HIDE DEF w, c
  <2>9. e = (h \o q) \o c
    <3>1. w = q \o c
      BY <2>7 DEF c
    <3>2. h \in Seq(Byte) /\ q \in Seq(Byte) /\ c \in Seq(Byte)
      BY <2>2, <2>3, <2>8
    <3>3. h \o (q \o c) = (h \o q) \o c
      BY <3>2, ConcatAssociative, SMTT(20)
    <3> QED
      BY <2>4, <3>1, <3>3
  <2>10. h \o q \in Seq(Byte) /\ Len(h \o q) = n
    BY <2>2, <2>3, ConcatProperties
  <2>11. SubSeq(e, 1, n) = h \o q
    <3> HIDE DEF n
    <3>1. SubSeq((h \o q) \o c, 1, Len(h \o q)) = h \o q
      BY <2>8, <2>10, HalvesOfConcat
    <3> QED
      BY <2>9, <2>10, <3>1
  <2>12. IsPrefix(SubSeq(e, 1, n), d)
    BY <1>10, <2>5, <2>6, <2>11
  <2> QED
    BY <1>13, <2>1, <2>12
<1> QED
  BY <1>2, <1>11, <1>12, <1>13

-----------------------------------------------------------------------------
\* The invariant.

PacketInv ==
    pkt \in [type : 0 .. TypeMod, window : Int, seqnum : Int,
             timestamp : 0 .. Values[StampBytes] - 1, payload : Seq(Byte)]

\* What the link has done to the datagram.
WireInv ==
    /\ damage \in {"none", "inverted", "cut"} /\ (pc = "built" => damage = "none")
    /\ pc \in {"sent", "received"} =>
         /\ wire \in Seq(Byte) /\ sender \in {"group", "other"}
         /\ sender = "group" =>
              /\ Valid(pkt)
              /\ damage = "none" => wire = Encoded(pkt)
              /\ damage = "inverted" =>
                   \E i \in 1 .. Len(Encoded(pkt)) : wire = Inverted(Encoded(pkt), i)
              /\ damage = "cut" =>
                   Len(pkt.payload) > 0 /\ wire = SubSeq(Encoded(pkt), 1, MinPacket)

\* What the reader has made of it.
GotInv ==
    pc = "received" =>
      \/ reader = "own" /\ got = IF Accepts(wire) THEN PacketIn(wire) ELSE None
      \/ reader = "G12" /\ got = IF G12Accepts(wire) THEN PacketIn(wire) ELSE None
      \/ reader = "G3" /\ got = IF G3Accepts(wire) THEN PacketIn(wire) ELSE None
      \/ reader = "G2" /\ got = IF G2Accepts(wire) THEN PacketIn(wire) ELSE None

CodecInv == PacketInv /\ WireInv /\ GotInv

LEMMA ValidPackable ==
    ASSUME PacketInv
    PROVE  Valid(pkt) => Packable(pkt)
<1> SUFFICES ASSUME Valid(pkt) PROVE Packable(pkt)
  OBVIOUS
<1>1. /\ pkt.type \in 1 .. 3 /\ pkt.window \in 0 .. WindowMod - 1
      /\ pkt.seqnum \in 0 .. SeqnumMod - 1 /\ Len(pkt.payload) <= MaxPayload
  BY DEF Valid
<1>2. pkt.timestamp \in 0 .. Values[StampBytes] - 1 /\ pkt.payload \in Seq(Byte)
  BY DEF PacketInv
<1>3. Len(pkt.payload) < LengthMod
  BY <1>1, <1>2, LenProperties, Lengths
<1> QED
  BY <1>1, <1>2, <1>3 DEF Packable

LEMMA InitInv == Init => CodecInv
<1> SUFFICES ASSUME Init PROVE CodecInv
  OBVIOUS
<1>1. damage = "none" /\ pc = "built"
  BY DEF Init
<1>2. ASSUME NEW s \in UNION {[1 .. n -> PayloadBytes] : n \in 0 .. MaxPayload + 1}
      PROVE  s \in Seq(Byte)
  <2>1. PICK n \in 0 .. MaxPayload + 1 : s \in [1 .. n -> PayloadBytes]
    BY <1>2
  <2>2. n \in Nat /\ PayloadBytes \subseteq Byte
    BY LayoutAssumption, Lengths
  <2>3. s \in [1 .. n -> Byte]
    BY <2>1, <2>2
  <2> QED
    BY <2>2, <2>3, SeqDef
<1> DEFINE P == UNION {[1 .. n -> PayloadBytes] : n \in 0 .. MaxPayload + 1}
<1>3. pkt \in [type : 0 .. TypeMod, window : {-1, 0, WindowMod - 1, WindowMod},
               seqnum : {-1, 0, SeqnumMod - 1, SeqnumMod}, timestamp : Stamps, payload : P]
  BY DEF Init
<1>4. /\ P \subseteq Seq(Byte) /\ Stamps \subseteq 0 .. Values[StampBytes] - 1
      /\ {-1, 0, WindowMod - 1, WindowMod} \subseteq Int
      /\ {-1, 0, SeqnumMod - 1, SeqnumMod} \subseteq Int
  BY <1>2, LayoutAssumption
<1> HIDE DEF P
<1>5. PacketInv
  BY <1>3, <1>4 DEF PacketInv
<1> QED
  BY <1>1, <1>5 DEF CodecInv, WireInv, GotInv

LEMMA SendsInv ==
    ASSUME CodecInv, NEW who \in {"group", "other"}, NEW bytes \in Seq(Byte),
           Sends(who, bytes), who = "group" => Valid(pkt) /\ bytes = Encoded(pkt)
    PROVE  CodecInv'
<1>1. /\ pc = "built" /\ pc' = "sent" /\ wire' = bytes /\ sender' = who
      /\ pkt' = pkt /\ damage' = damage
  BY DEF Sends
<1>2. damage = "none"
  BY <1>1 DEF CodecInv, WireInv
<1>3. PacketInv'
  BY <1>1 DEF CodecInv, PacketInv
<1>4. GotInv'
  BY <1>1 DEF GotInv
<1>5. WireInv'
  <2>1. who = "group" => Valid(pkt)' /\ bytes = Encoded(pkt)'
    BY <1>1
  <2>2. damage' = "none" /\ wire' = bytes /\ sender' = who
    BY <1>1, <1>2
  <2> QED
    BY <1>1, <2>1, <2>2 DEF WireInv
<1> QED
  BY <1>3, <1>4, <1>5 DEF CodecInv

LEMMA GroupSends ==
    ASSUME CodecInv, Valid(pkt), NEW bytes, Sends("group", bytes),
           bytes = Encoded(pkt) \/ bytes = Datagram(Shifted(pkt), pkt)
    PROVE  CodecInv'
<1>1. Packable(pkt)
  BY ValidPackable DEF CodecInv
<1>2. bytes = Encoded(pkt) /\ Encoded(pkt) \in Seq(Byte)
  BY <1>1, EncodedIs
<1> QED
  BY <1>2, SendsInv

LEMMA OtherSendsInv ==
    ASSUME CodecInv, NEW tail \in Seq(Byte), NEW missing \in Nat, OtherSends(tail, missing)
    PROVE  CodecInv'
<1> DEFINE e == Encoded(pkt)
           k == Len(e) - missing
<1>1. Packable(pkt)
  <2>1. /\ pkt.type < TypeMod /\ Len(pkt.payload) < LengthMod
        /\ pkt.window \in 0 .. WindowMod - 1 /\ pkt.seqnum \in 0 .. SeqnumMod - 1
    BY DEF OtherSends
  <2>2. /\ pkt.type \in 0 .. TypeMod /\ pkt.timestamp \in 0 .. Values[StampBytes] - 1
        /\ pkt.payload \in Seq(Byte)
    BY DEF CodecInv, PacketInv
  <2>3. pkt.type \in 0 .. 3
    BY <2>1, <2>2 DEF TypeMod
  <2> QED
    BY <2>1, <2>2, <2>3 DEF Packable
<1>2. e \in Seq(Byte)
  BY <1>1, EncodedIs
<1>3. missing <= Len(e) - MinPacket /\ Sends("other", SubSeq(e, 1, k) \o tail)
  BY DEF OtherSends
<1> HIDE DEF e
<1>4. k \in 0 .. Len(e) /\ 1 \in Nat \ {0} /\ 1 <= k + 1
  BY <1>2, <1>3, LenProperties, Lengths
<1> HIDE DEF k
<1>5. SubSeq(e, 1, k) \in Seq(Byte)
  BY <1>2, <1>4, PieceOf
<1>6. SubSeq(e, 1, k) \o tail \in Seq(Byte)
  BY <1>5, ConcatProperties
<1> QED
  BY <1>3, <1>6, SendsInv

LEMMA InvertInv ==
    ASSUME CodecInv, NEW i \in DOMAIN wire, Invert(i)
    PROVE  CodecInv'
<1>1. /\ pc = "sent" /\ damage = "none" /\ damage' = "inverted" /\ pc' = pc
      /\ wire' = Inverted(wire, i) /\ pkt' = pkt /\ sender' = sender
  BY DEF Invert, Inverted
<1>2. wire \in Seq(Byte) /\ sender \in {"group", "other"}
      /\ (sender = "group" => Valid(pkt) /\ wire = Encoded(pkt))
  BY <1>1 DEF CodecInv, WireInv
<1>3. i \in 1 .. Len(wire)
  BY <1>2, LenProperties
<1>4. Inverted(wire, i) \in Seq(Byte)
  <2>1. wire[i] \in Byte
    BY <1>2, <1>3, ElementOfSeq
  <2>2. ByteMod - 1 - wire[i] \in Byte
    BY <2>1, InversionChanges
  <2>3. Inverted(wire, i) = [wire EXCEPT ![i] = ByteMod - 1 - wire[i]]
    BY DEF Inverted
  <2> QED
    BY <1>2, <1>3, <2>2, <2>3, ExceptSeq
<1>5. PacketInv' /\ GotInv'
  BY <1>1 DEF CodecInv, PacketInv, GotInv
<1>6. sender = "group" =>
        Valid(pkt)' /\ \E j \in 1 .. Len(Encoded(pkt)') : wire' = Inverted(Encoded(pkt)', j)
  BY <1>1, <1>2, <1>3
<1>7. WireInv'
  <2>1. wire' \in Seq(Byte) /\ sender' \in {"group", "other"} /\ sender' = sender
        /\ damage' = "inverted" /\ pc' = "sent"
    BY <1>1, <1>2, <1>4
  <2> QED
    BY <1>6, <2>1 DEF WireInv
<1> QED
  BY <1>5, <1>7 DEF CodecInv

LEMMA CutInv ==
    ASSUME CodecInv, Cut
    PROVE  CodecInv'
<1>1. /\ pc = "sent" /\ damage = "none" /\ damage' = "cut" /\ pc' = pc
      /\ wire' = SubSeq(wire, 1, MinPacket) /\ pkt' = pkt /\ sender' = sender
      /\ Len(wire) > MinPacket
  BY DEF Cut
<1>2. wire \in Seq(Byte) /\ sender \in {"group", "other"}
      /\ (sender = "group" => Valid(pkt) /\ wire = Encoded(pkt))
  BY <1>1 DEF CodecInv, WireInv
<1>3. SubSeq(wire, 1, MinPacket) \in Seq(Byte)
  <2>1. MinPacket \in 0 .. Len(wire) /\ 1 \in Nat \ {0} /\ 1 <= MinPacket + 1
    BY <1>1, <1>2, LenProperties, Lengths
  <2> QED
    BY <1>2, <2>1, PieceOf
<1>4. PacketInv' /\ GotInv'
  BY <1>1 DEF CodecInv, PacketInv, GotInv
<1>5. sender = "group" => Len(pkt.payload) > 0
  <2> SUFFICES ASSUME sender = "group" PROVE Len(pkt.payload) > 0
    OBVIOUS
  <2>1. Packable(pkt) /\ wire = Encoded(pkt)
    BY <1>2, ValidPackable DEF CodecInv
  <2>2. Len(pkt.payload) \in Nat
    BY <2>1, LenProperties DEF Packable
  <2>3. Len(pkt.payload) = 0 => Len(wire) = MinPacket
    BY <2>1, EncodedIs
  <2> QED
    BY <1>1, <2>2, <2>3, Lengths
<1>6. sender = "group" =>
        /\ Valid(pkt)' /\ Len(pkt.payload)' > 0
        /\ wire' = SubSeq(Encoded(pkt)', 1, MinPacket)
  BY <1>1, <1>2, <1>5
<1>7. WireInv'
  <2>1. wire' \in Seq(Byte) /\ sender' \in {"group", "other"} /\ sender' = sender
        /\ damage' = "cut" /\ pc' = "sent"
    BY <1>1, <1>2, <1>3
  <2> QED
    BY <1>6, <2>1 DEF WireInv
<1> QED
  BY <1>4, <1>7 DEF CodecInv

LEMMA DecodesInv ==
    ASSUME CodecInv, NEW who, NEW packet, Decodes(who, packet),
           \/ who = "own" /\ packet = IF Accepts(wire) THEN PacketIn(wire) ELSE None
           \/ who = "G12" /\ packet = IF G12Accepts(wire) THEN PacketIn(wire) ELSE None
           \/ who = "G3" /\ packet = IF G3Accepts(wire) THEN PacketIn(wire) ELSE None
           \/ who = "G2" /\ packet = IF G2Accepts(wire) THEN PacketIn(wire) ELSE None
    PROVE  CodecInv'
<1>1. /\ pc = "sent" /\ pc' = "received" /\ reader' = who /\ got' = packet
      /\ pkt' = pkt /\ sender' = sender /\ wire' = wire /\ damage' = damage
  BY DEF Decodes
<1>2. PacketInv'
  BY <1>1 DEF CodecInv, PacketInv
<1>3. WireInv'
  BY <1>1 DEF CodecInv, WireInv
<1>4. GotInv'
  BY <1>1 DEF GotInv
<1> QED
  BY <1>2, <1>3, <1>4 DEF CodecInv

LEMMA NextInv == CodecInv /\ [Next]_vars => CodecInv'
<1> SUFFICES ASSUME CodecInv, [Next]_vars PROVE CodecInv'
  OBVIOUS
<1>1. CASE Pack
  BY <1>1, GroupSends DEF Pack
<1>2. CASE PackRaises
  <2>1. pc = "built" /\ pc' = "raised" /\ pkt' = pkt /\ damage' = damage
    BY <1>2 DEF PackRaises
  <2> QED
    BY <2>1 DEF CodecInv, PacketInv, WireInv, GotInv
<1>3. CASE G12Encode
  BY <1>3, GroupSends DEF G12Encode
<1>4. CASE G3Encode
  BY <1>4, GroupSends DEF G3Encode
<1>5. CASE G2Encode
  BY <1>5, GroupSends DEF G2Encode
<1>6. CASE \E tail \in {<<>>} \cup {<<b>> : b \in PayloadBytes} : OtherSends(tail, 0)
  <2>1. PICK tail \in {<<>>} \cup {<<b>> : b \in PayloadBytes} : OtherSends(tail, 0)
    BY <1>6
  <2>2. tail \in Seq(Byte)
    <3>1. CASE tail = <<>>
      BY <3>1
    <3>2. CASE tail \in {<<b>> : b \in PayloadBytes}
      <4>1. PICK b \in PayloadBytes : tail = <<b>>
        BY <3>2
      <4>2. b \in Byte
        BY LayoutAssumption
      <4> QED
        BY <4>1, <4>2
    <3> QED
      BY <3>1, <3>2
  <2> QED
    BY <2>1, <2>2, OtherSendsInv
<1>7. CASE \E missing \in 1 .. MaxPayload + CrcBytes : OtherSends(<<>>, missing)
  <2>1. PICK missing \in 1 .. MaxPayload + CrcBytes : OtherSends(<<>>, missing)
    BY <1>7
  <2>2. missing \in Nat /\ <<>> \in Seq(Byte)
    BY Lengths
  <2> QED
    BY <2>1, <2>2, OtherSendsInv
<1>8. CASE \E i \in DOMAIN wire : Invert(i)
  BY <1>8, InvertInv
<1>9. CASE Cut
  BY <1>9, CutInv
<1>10. CASE Receive
  BY <1>10, DecodesInv DEF Receive, Unpack
<1>11. CASE G12Decode
  BY <1>11, DecodesInv DEF G12Decode
<1>12. CASE G3Decode
  BY <1>12, DecodesInv DEF G3Decode
<1>13. CASE G2Decode
  BY <1>13, DecodesInv DEF G2Decode
<1>14. CASE UNCHANGED vars
  BY <1>14 DEF vars, CodecInv, PacketInv, WireInv, GotInv
<1> QED
  BY <1>1, <1>2, <1>3, <1>4, <1>5, <1>6, <1>7, <1>8, <1>9, <1>10, <1>11, <1>12, <1>13, <1>14
  DEF Next

-----------------------------------------------------------------------------
\* The reader accepts the datagram, and which do.
LEMMA GotIs ==
    ASSUME CodecInv, pc = "received"
    PROVE  /\ wire \in Seq(Byte) /\ WireInv
           /\ got # None => got = PacketIn(wire) /\ AcceptedByAny(wire)
           /\ got # None /\ reader # "G2" =>
                (LengthIn(wire) > 0 => Len(wire) >= MinPacket + LengthIn(wire) + CrcBytes)
           /\ got # None => Accepts(wire) \/ G12Accepts(wire) \/ G3Accepts(wire) \/ G2Accepts(wire)
           /\ got # None /\ reader # "G12" => Accepts(wire) \/ G3Accepts(wire) \/ G2Accepts(wire)
           /\ Accepts(wire) /\ G12Accepts(wire) /\ G3Accepts(wire) /\ G2Accepts(wire) =>
                got = PacketIn(wire)
<1>1. wire \in Seq(Byte)
  BY DEF CodecInv, WireInv
<1>2. /\ Accepts(wire) \/ G12Accepts(wire) \/ G3Accepts(wire) \/ G2Accepts(wire)
           => AcceptedByAny(wire)
      /\ Accepts(wire) \/ G12Accepts(wire) \/ G3Accepts(wire) =>
           (LengthIn(wire) > 0 => Len(wire) >= MinPacket + LengthIn(wire) + CrcBytes)
  BY <1>1, AnyAccepts
<1>3. GotInv /\ WireInv
  BY DEF CodecInv
<1> QED
  BY <1>1, <1>2, <1>3 DEF GotInv

(***************************************************************************)
(* Whatever the widths of the fields and the length of the payload, all    *)
(* groups read what any of them sent, if the link leaves it alone.         *)
(***************************************************************************)
THEOREM IntactAcceptedTheorem == Spec => []IntactAccepted
<1>1. CodecInv => IntactAccepted
  <2> SUFFICES ASSUME CodecInv, pc = "received", sender = "group", damage = "none"
               PROVE  got = pkt
    BY DEF IntactAccepted
  <2>1. wire = Encoded(pkt) /\ Valid(pkt) /\ Packable(pkt)
    BY ValidPackable DEF CodecInv, WireInv
  <2>2. got = PacketIn(wire)
    BY <2>1, GotIs, IntactRead
  <2>3. pkt \in [type : 0 .. TypeMod, window : Int, seqnum : Int,
                 timestamp : 0 .. Values[StampBytes] - 1, payload : Seq(Byte)]
    BY DEF CodecInv, PacketInv
  <2>4. pkt = [type |-> pkt.type, window |-> pkt.window, seqnum |-> pkt.seqnum,
               timestamp |-> pkt.timestamp, payload |-> pkt.payload]
    BY <2>3
  <2> QED
    BY <2>1, <2>2, <2>4, IntactRead
<1> QED
  BY <1>1, InitInv, NextInv, PTL DEF Spec

(***************************************************************************)
(* Whatever the CRC, if it sees the change of a single byte, no group      *)
(* accepts what another sent once link_sim has inverted a byte of it or    *)
(* cut it.                                                                 *)
(***************************************************************************)
THEOREM DamageRejectedTheorem == Spec => []DamageRejected
<1>1. CodecInv => DamageRejected
  <2> SUFFICES ASSUME CodecInv, pc = "received", sender = "group", damage # "none", got # None
               PROVE  FALSE
    BY DEF DamageRejected
  <2>1. Valid(pkt) /\ Packable(pkt)
    BY ValidPackable DEF CodecInv, WireInv
  <2>2. AcceptedByAny(wire)
    BY GotIs
  <2>3. CASE damage = "inverted"
    <3>1. PICK i \in 1 .. Len(Encoded(pkt)) : wire = Inverted(Encoded(pkt), i)
      BY <2>3 DEF CodecInv, WireInv
    <3> QED
      BY <2>1, <2>2, <3>1, InvertedRejected
  <2>4. CASE damage = "cut"
    <3>1. Len(pkt.payload) > 0 /\ wire = SubSeq(Encoded(pkt), 1, MinPacket)
      BY <2>4 DEF CodecInv, WireInv
    <3> QED
      BY <2>1, <2>2, <3>1, CutRejected
  <2>5. damage \in {"none", "inverted", "cut"}
    BY DEF CodecInv, WireInv
  <2> QED
    BY <2>3, <2>4, <2>5
<1> QED
  BY <1>1, InitInv, NextInv, PTL DEF Spec

(***************************************************************************)
(* Whatever arrives, from anyone, a packet that a decoder returns is one   *)
(* that pack accepts, and the datagram begins with what pack makes of it,  *)
(* but for the incomplete CRC2 that group 2 accepts.                       *)
(***************************************************************************)
THEOREM AcceptedRepacksTheorem == Spec => []AcceptedRepacks
<1>1. CodecInv => AcceptedRepacks
  <2> SUFFICES ASSUME CodecInv, pc = "received", got # None, ~ (reader = "G12" /\ got.type = 0)
               PROVE  /\ Valid(got)
                      /\ \/ IsPrefix(Encoded(got), wire)
                         \/ /\ reader = "G2" /\ sender = "other"
                            /\ Len(wire) < Len(Encoded(got))
                            /\ IsPrefix(SubSeq(Encoded(got), 1, MinPacket + Len(got.payload)), wire)
    BY DEF AcceptedRepacks
  <2>1. got = PacketIn(wire) /\ AcceptedByAny(wire) /\ wire \in Seq(Byte)
    BY GotIs
  <2>2. /\ Packable(got) /\ Len(got.payload) <= MaxPayload
        /\ \/ IsPrefix(Encoded(got), wire)
           \/ /\ LengthIn(wire) > 0 /\ Len(wire) < Len(Encoded(got))
              /\ Len(wire) < MinPacket + LengthIn(wire) + CrcBytes
              /\ IsPrefix(SubSeq(Encoded(got), 1, MinPacket + Len(got.payload)), wire)
    BY <2>1, AcceptedRead
  <2>3. got.type = TypeIn(wire)
    BY <2>1 DEF PacketIn
  <2>4. got.type # 0
    <3>1. CASE reader = "G12"
      BY <3>1
    <3>2. CASE reader # "G12"
      <4>1. Accepts(wire) \/ G3Accepts(wire) \/ G2Accepts(wire)
        BY <3>2, GotIs
      <4> QED
        BY <2>3, <4>1 DEF Accepts, G3Accepts, G2Accepts
    <3> QED
      BY <3>1, <3>2
  <2>5. Valid(got)
    <3>1. /\ got.type \in 0 .. 3 /\ got.window \in 0 .. WindowMod - 1
          /\ got.seqnum \in 0 .. SeqnumMod - 1
      BY <2>2 DEF Packable
    <3>2. got.type \in 1 .. 3
      BY <2>4, <3>1
    <3> QED
      BY <2>2, <3>1, <3>2 DEF Valid
  <2>6. ASSUME LengthIn(wire) > 0, Len(wire) < MinPacket + LengthIn(wire) + CrcBytes
        PROVE  reader = "G2" /\ sender = "other"
    <3>1. Len(wire) \in Nat /\ LengthIn(wire) \in Nat
          /\ ~ (Len(wire) >= MinPacket + LengthIn(wire) + CrcBytes)
      BY <2>1, <2>6, LenProperties, LengthRead, Lengths DEF AcceptedByAny, HeaderHolds
    <3>2. reader = "G2"
      BY <2>6, <3>1, GotIs
    <3>3. sender = "other"
      <4> SUFFICES ASSUME sender = "group" PROVE FALSE
        BY DEF CodecInv, WireInv
      <4>1. Valid(pkt) /\ Packable(pkt)
        BY ValidPackable DEF CodecInv, WireInv
      <4>2. CASE damage = "none"
        <5>1. wire = Encoded(pkt)
          BY <4>2 DEF CodecInv, WireInv
        <5>2. Accepts(wire)
          BY <4>1, <5>1, IntactRead
        <5> QED
          BY <2>6, <3>1, <5>2 DEF Accepts
      <4>3. CASE damage = "inverted"
        <5>1. PICK i \in 1 .. Len(Encoded(pkt)) : wire = Inverted(Encoded(pkt), i)
          BY <4>3 DEF CodecInv, WireInv
        <5> QED
          BY <2>1, <4>1, <5>1, InvertedRejected
      <4>4. CASE damage = "cut"
        <5>1. Len(pkt.payload) > 0 /\ wire = SubSeq(Encoded(pkt), 1, MinPacket)
          BY <4>4 DEF CodecInv, WireInv
        <5> QED
          BY <2>1, <4>1, <5>1, CutRejected
      <4> QED
        BY <4>2, <4>3, <4>4 DEF CodecInv, WireInv
    <3> QED
      BY <3>2, <3>3
  <2> QED
    BY <2>2, <2>5, <2>6
<1> QED
  BY <1>1, InitInv, NextInv, PTL DEF Spec
=============================================================================
