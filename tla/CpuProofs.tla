------------------------------- MODULE CpuProofs -------------------------------
(***************************************************************************)
(* Proofs about the processor, in every scenario and for words of any      *)
(* width.  It keeps its pipeline ahead of its program counter: whatever    *)
(* the handler, what it holds are words, what it fetched stands behind     *)
(* r15, and the next access is the right one of sequential and             *)
(* nonsequential.  And its banks are one flat file: copying registers      *)
(* between the file in use and the banks loses nothing, whatever modes     *)
(* its instructions and exceptions go through.                             *)
(***************************************************************************)
EXTENDS Arm7tdmi, FiniteSetTheorems, WellFoundedInduction, NaturalsInduction, TLAPS

\* A set of numbers that has any has a least one: how an induction over bits
\* or bytes is made here, from the well-foundedness of the numbers.
LEMMA NatLeast ==
  ASSUME NEW T \in SUBSET Nat, T # {}
  PROVE  \E x \in T : \A y \in T : x <= y
<1> DEFINE R == OpToRel(<, Nat)
<1>1. IsWellFoundedOn(R, Nat)
  BY NatLessThanWellFounded
<1>2. \A m, n \in Nat : ~(<<m, n>> \in R) => n <= m
  BY DEF OpToRel
<1> HIDE DEF R
<1>3. PICK x \in T : \A y \in T : ~ (<<y, x>> \in R)
  BY <1>1, WFMin
<1>4. \A y \in T : x <= y
  <2> SUFFICES ASSUME NEW y \in T PROVE x <= y
    OBVIOUS
  <2>1. x \in Nat /\ y \in Nat /\ ~(<<y, x>> \in R)
    BY <1>3
  <2>2. QED
    BY <1>2, <2>1
<1>5. QED
  BY <1>4

\* A power of two counts the subsets of an interval, and one number more makes
\* every subset two.
LEMMA Powers ==
  ASSUME NEW n \in Nat
  PROVE  2 ^ n \in Nat /\ 2 ^ n >= 1 /\ 2 ^ (n + 1) = 2 * 2 ^ n
<1> DEFINE A == SUBSET (1 .. n)
           B == SUBSET (1 .. n + 1)
           T == {X \cup {n + 1} : X \in A}
           f == [X \in A |-> X \cup {n + 1}]
<1>1. IsFiniteSet(1 .. n) /\ Cardinality(1 .. n) = n  BY FS_Interval
<1>2. IsFiniteSet(A) /\ Cardinality(A) = 2 ^ n  BY <1>1, FS_SUBSET
<1>3. IsFiniteSet(1 .. n + 1) /\ Cardinality(1 .. n + 1) = n + 1  BY FS_Interval
<1>4. Cardinality(B) = 2 ^ (n + 1)  BY <1>3, FS_SUBSET
<1>5. \A X \in A : n + 1 \notin X  OBVIOUS
<1>6. B = A \cup T
  <2>1. ASSUME NEW X \in B PROVE X \in A \cup T
    <3>1. CASE n + 1 \notin X
      <4>1. X \subseteq 1 .. n  BY <3>1
      <4> QED  BY <4>1
    <3>2. CASE n + 1 \in X
      <4> DEFINE Y == X \ {n + 1}
      <4>1. Y \in A /\ X = Y \cup {n + 1}  BY <3>2
      <4> QED  BY <4>1
    <3> QED  BY <3>1, <3>2
  <2>2. ASSUME NEW X \in A PROVE X \in B /\ X \cup {n + 1} \in B  OBVIOUS
  <2>3. A \subseteq B /\ T \subseteq B  BY <2>2
  <2>4. B \subseteq A \cup T  BY <2>1, Zenon
  <2> HIDE DEF A, B, T
  <2> QED  BY <2>3, <2>4
<1>7. A \cap T = {}  BY <1>5
<1>8. ExistsBijection(A, T)
  <2>1. f \in [A -> T]  OBVIOUS
  <2>2. \A X, Y \in A : f[X] = f[Y] => X = Y
    <3> SUFFICES ASSUME NEW X \in A, NEW Y \in A, f[X] = f[Y] PROVE X = Y  OBVIOUS
    <3>1. X = f[X] \ {n + 1} /\ Y = f[Y] \ {n + 1}  BY <1>5
    <3> QED  BY <3>1
  <2>3. \A t \in T : \E X \in A : f[X] = t  OBVIOUS
  <2> HIDE DEF A, T, f
  <2>4. f \in Bijection(A, T)  BY <2>1, <2>2, <2>3 DEF Bijection, Injection, Surjection, IsInjective
  <2> QED  BY <2>4 DEF ExistsBijection
<1>9. IsFiniteSet(T) /\ Cardinality(T) = 2 ^ n  BY <1>2, <1>8, FS_Bijection
<1>10. Cardinality(A) \in Nat  BY <1>2, FS_CardinalityType
<1>11. Cardinality(B) = Cardinality(A) + Cardinality(T) - Cardinality(A \cap T)
  BY <1>2, <1>6, <1>9, FS_Union
<1>12. Cardinality(A \cap T) = 0  BY <1>7, FS_EmptySet
<1>13. Cardinality(A) >= 1
  <2>1. {} \in A  OBVIOUS
  <2>2. Cardinality(A) # 0  BY <1>2, <2>1, FS_EmptySet
  <2> QED  BY <1>10, <2>2
<1> HIDE DEF A, B, T
<1> QED  BY <1>2, <1>4, <1>9, <1>10, <1>11, <1>12, <1>13
\* A power is a power of another times a third.
LEMMA PowersMultiply ==
  ASSUME NEW a \in Nat, NEW b \in Nat
  PROVE  2 ^ (a + b) = 2 ^ a * 2 ^ b
<1> DEFINE T == {n \in Nat : 2 ^ (a + n) # 2 ^ a * 2 ^ n}
<1>1. T = {}
  <2> SUFFICES ASSUME T # {} PROVE FALSE
    OBVIOUS
  <2>1. PICK n \in T : \A y \in T : n <= y
    BY NatLeast
  <2>2. n \in Nat /\ 2 ^ (a + n) # 2 ^ a * 2 ^ n
    BY <2>1
  <2>3. 2 ^ a \in Nat
    BY Powers
  <2>4. n # 0
    <3>1. 2 ^ (a + 0) = 2 ^ a /\ 2 ^ 0 = 1 /\ 2 ^ a * 1 = 2 ^ a
      BY <2>3
    <3>2. QED
      BY <2>2, <3>1
  <2>5. n - 1 \in Nat /\ n - 1 \notin T
    BY <2>1, <2>2, <2>4
  <2> DEFINE m == n - 1
  <2>6. m \in Nat /\ 2 ^ (a + m) = 2 ^ a * 2 ^ m /\ n = m + 1 /\ a + n = (a + m) + 1 /\ a + m \in Nat
    BY <2>5, <2>2
  <2> HIDE DEF m, T
  <2>7. 2 ^ (m + 1) = 2 * 2 ^ m /\ 2 ^ ((a + m) + 1) = 2 * 2 ^ (a + m) /\ 2 ^ m \in Nat
    BY <2>6, Powers
  <2>8. 2 * (2 ^ a * 2 ^ m) = 2 ^ a * (2 * 2 ^ m)
    <3> DEFINE x == 2 ^ a
               y == 2 ^ m
    <3>1. x \in Nat /\ y \in Nat
      BY <2>3, <2>7
    <3> HIDE DEF x, y
    <3>2. 2 * (x * y) = x * (2 * y)
      BY <3>1
    <3>3. QED
      BY <3>2 DEF x, y
  <2>9. 2 ^ (a + n) = 2 ^ a * 2 ^ n
    BY <2>6, <2>7, <2>8
  <2>10. QED
    BY <2>2, <2>9
<1>2. b \notin T
  BY <1>1
<1>3. QED
  BY <1>2

\* Five bits are the numbers below 32.
LEMMA PowerOfFive == 2 ^ 5 = 32
<1>1. 2 ^ 1 = 2 /\ 2 ^ (1 + 1) = 2 * 2 ^ 1 /\ 2 ^ (2 + 1) = 2 * 2 ^ 2
      /\ 2 ^ (3 + 1) = 2 * 2 ^ 3 /\ 2 ^ (4 + 1) = 2 * 2 ^ 4
  BY Powers
<1>2. QED
  BY <1>1

\* The number of words, as a product of powers.
LEMMA SizeIs ==
  /\ Size = 2 ^ Width
  /\ Size \in Nat /\ Size >= 32 /\ Size % 32 = 0 /\ Top \in Nat /\ Size = 2 * Top
  /\ \A n \in 0 .. Width : /\ 2 ^ n \in Nat /\ 2 ^ n >= 1
                           /\ 2 ^ (Width - n) \in Nat /\ 2 ^ (Width - n) >= 1
                           /\ Size = 2 ^ n * 2 ^ (Width - n)
<1> USE WidthAssumption, TopAssumption
<1>1. Size = 2 ^ Width
  <2> DEFINE m == Width - 1
  <2>1. m \in Nat /\ Width = m + 1 /\ Top = 2 ^ m
    OBVIOUS
  <2> HIDE DEF m
  <2>2. 2 ^ (m + 1) = 2 * 2 ^ m
    BY <2>1, Powers
  <2>3. QED
    BY <2>1, <2>2 DEF Size
<1>2. ASSUME NEW n \in 0 .. Width
      PROVE  /\ 2 ^ n \in Nat /\ 2 ^ n >= 1
             /\ 2 ^ (Width - n) \in Nat /\ 2 ^ (Width - n) >= 1
             /\ Size = 2 ^ n * 2 ^ (Width - n)
  <2> DEFINE m == Width - n
  <2>1. m \in Nat /\ n \in Nat /\ n + m = Width
    OBVIOUS
  <2> HIDE DEF m
  <2>2. 2 ^ (n + m) = 2 ^ n * 2 ^ m
    BY <2>1, PowersMultiply
  <2>3. 2 ^ n \in Nat /\ 2 ^ n >= 1 /\ 2 ^ m \in Nat /\ 2 ^ m >= 1
    BY <2>1, Powers
  <2>4. QED
    BY <1>1, <2>1, <2>2, <2>3 DEF m
<1>3. 2 ^ 5 = 32
  BY PowerOfFive
<1>4. PICK k : k \in Nat /\ k >= 1 /\ Size = 32 * k
  <2>1. 5 \in 0 .. Width
    OBVIOUS
  <2>2. QED
    BY <1>2, <1>3, <2>1
<1>5. Size \in Nat /\ Size >= 32 /\ Size % 32 = 0
  BY <1>4
<1>6. Top \in Nat /\ Size = 2 * Top
  BY DEF Size
<1>7. QED
  BY <1>1, <1>2, <1>5, <1>6

\* A word with some of its bits set: the sum exists, and keeps to a word.
Weight(S, n) == IF n \in S THEN 2 ^ n ELSE 0

IsSum(g, S, m) ==
  /\ DOMAIN g = 0 .. m /\ g[0] = 0
  /\ \A n \in 1 .. m : g[n] = g[n - 1] + Weight(S, n - 1)

\* There is a function that sums the weights of a set's bits, bit by bit.
LEMMA SumsExist ==
  ASSUME NEW S, NEW w \in Nat
  PROVE  \E g : IsSum(g, S, w)
<1> DEFINE T == {m \in Nat : ~ \E g : IsSum(g, S, m)}
<1>1. T = {}
  <2> SUFFICES ASSUME T # {} PROVE FALSE
    OBVIOUS
  <2>1. PICK m \in T : \A y \in T : m <= y
    BY NatLeast
  <2>2. m \in Nat /\ ~ \E g : IsSum(g, S, m)
    BY <2>1
  <2>3. m # 0
    <3>1. IsSum([n \in 0 .. 0 |-> 0], S, 0)
      BY DEF IsSum
    <3>2. QED
      BY <2>2, <3>1
  <2>4. m - 1 \in Nat /\ m - 1 \notin T
    BY <2>1, <2>2, <2>3
  <2>5. PICK g : IsSum(g, S, m - 1)
    BY <2>4
  <2> DEFINE h == [n \in 0 .. m |-> IF n = m THEN g[m - 1] + Weight(S, m - 1) ELSE g[n]]
  <2>6. DOMAIN h = 0 .. m /\ h[0] = 0
    BY <2>2, <2>3, <2>5 DEF IsSum
  <2>7. ASSUME NEW n \in 1 .. m PROVE h[n] = h[n - 1] + Weight(S, n - 1)
    <3>1. n \in 0 .. m /\ n - 1 \in 0 .. m /\ n - 1 # m
      BY <2>2
    <3>2. h[n - 1] = g[n - 1]
      BY <3>1
    <3>3. CASE n = m
      BY <3>1, <3>2, <3>3
    <3>4. CASE n # m
      <4>1. n \in 1 .. m - 1
        BY <2>2, <3>4
      <4>2. h[n] = g[n]
        BY <3>1, <3>4
      <4>3. QED
        BY <2>5, <3>2, <4>1, <4>2 DEF IsSum
    <3>5. QED
      BY <3>3, <3>4
  <2> HIDE DEF h
  <2>8. IsSum(h, S, m)
    BY <2>6, <2>7 DEF IsSum
  <2>9. QED
    BY <2>2, <2>8
<1>2. w \notin T
  BY <1>1
<1>3. QED
  BY <1>2

\* OfBits is such a sum at its last bit.
LEMMA OfBitsIs ==
  ASSUME NEW S
  PROVE  \E g : IsSum(g, S, Width) /\ OfBits(S) = g[Width]
<1> DEFINE P(f) == f = [n \in 0 .. Width |->
                         IF n = 0 THEN 0 ELSE f[n - 1] + (IF n - 1 \in S THEN 2 ^ (n - 1) ELSE 0)]
<1>0. Width \in Nat
  BY WidthAssumption
<1>1. PICK g : IsSum(g, S, Width)
  BY <1>0, SumsExist
<1> DEFINE h == [n \in 0 .. Width |-> g[n]]
<1>2. ASSUME NEW n \in 0 .. Width
      PROVE  h[n] = IF n = 0 THEN 0 ELSE h[n - 1] + (IF n - 1 \in S THEN 2 ^ (n - 1) ELSE 0)
  <2>1. CASE n = 0
    BY <1>1, <2>1 DEF IsSum
  <2>2. CASE n # 0
    <3>1. n \in 1 .. Width /\ n - 1 \in 0 .. Width
      BY <1>0, <2>2
    <3>2. h[n] = g[n] /\ h[n - 1] = g[n - 1]
      BY <3>1
    <3>3. g[n] = g[n - 1] + (IF n - 1 \in S THEN 2 ^ (n - 1) ELSE 0)
      BY <1>1, <3>1 DEF IsSum, Weight
    <3>4. QED
      BY <2>2, <3>2, <3>3
  <2>3. QED
    BY <2>1, <2>2
<1> DEFINE f == CHOOSE f : P(f)
<1>3. P(h)
  <2>1. h = [n \in 0 .. Width |-> h[n]]
    OBVIOUS
  <2> HIDE DEF h
  <2>2. QED
    BY <1>2, <2>1
<1>4. P(f)
  <2> HIDE DEF h, P
  <2>1. QED
    BY <1>3
<1>5. OfBits(S) = f[Width]
  BY DEF OfBits
<1> HIDE DEF f, h
<1>6. IsSum(f, S, Width)
  <2>1. DOMAIN f = 0 .. Width /\ f[0] = 0
    BY <1>0, <1>4
  <2>2. ASSUME NEW n \in 1 .. Width PROVE f[n] = f[n - 1] + Weight(S, n - 1)
    <3>1. n \in 0 .. Width /\ n # 0
      BY <1>0
    <3>2. f[n] = f[n - 1] + (IF n - 1 \in S THEN 2 ^ (n - 1) ELSE 0)
      BY <1>4, <3>1
    <3>3. QED
      BY <3>2 DEF Weight
  <2>3. QED
    BY <2>1, <2>2 DEF IsSum
<1>7. QED
  BY <1>5, <1>6

\* The sum of bits is a word, and a multiple of 32 if none of them is one of
\* the lowest five.
LEMMA SumsBounded ==
  ASSUME NEW S, NEW w \in Nat, NEW g, IsSum(g, S, w)
  PROVE  /\ g[w] \in Nat /\ g[w] < 2 ^ w
         /\ S \cap (0 .. 4) = {} => g[w] % 32 = 0
<1> DEFINE Good(m) == /\ g[m] \in Nat /\ g[m] < 2 ^ m
                      /\ S \cap (0 .. 4) = {} => (g[m] % 32 = 0) /\ (m <= 5 => g[m] = 0)
           T == {m \in 0 .. w : ~ Good(m)}
<1>1. T = {}
  <2> SUFFICES ASSUME T # {} PROVE FALSE
    OBVIOUS
  <2>1. PICK m \in T : \A y \in T : m <= y
    <3>1. T \in SUBSET Nat
      OBVIOUS
    <3>2. QED
      BY <3>1, NatLeast
  <2>2. m \in 0 .. w /\ ~ Good(m)
    BY <2>1
  <2>3. m # 0
    <3>1. Good(0)
      <4>1. g[0] = 0 /\ 2 ^ 0 = 1
        BY DEF IsSum
      <4>2. QED
        BY <4>1
    <3>2. QED
      BY <2>2, <3>1
  <2> DEFINE n == m - 1
  <2>4. n \in 0 .. w /\ n \notin T /\ m = n + 1 /\ n \in Nat
    BY <2>1, <2>2, <2>3
  <2> HIDE DEF n
  <2>5. Good(n)
    BY <2>4
  <2>6. g[m] = g[n] + Weight(S, n)
    <3>1. m \in 1 .. w /\ m - 1 = n
      BY <2>2, <2>3, <2>4
    <3>2. QED
      BY <3>1 DEF IsSum
  <2>7. 2 ^ n \in Nat /\ 2 ^ n >= 1 /\ 2 ^ m = 2 * 2 ^ n
    BY <2>4, Powers
  <2>8. Weight(S, n) \in {0, 2 ^ n}
    BY DEF Weight
  <2>9. g[m] \in Nat /\ g[m] < 2 ^ m
    BY <2>5, <2>6, <2>7, <2>8
  <2>10. ASSUME S \cap (0 .. 4) = {} PROVE (g[m] % 32 = 0) /\ (m <= 5 => g[m] = 0)
    <3>1. (g[n] % 32 = 0) /\ (n <= 5 => g[n] = 0) /\ g[n] \in Nat
      BY <2>5, <2>10
    <3>2. CASE n <= 4
      <4>1. n \notin S
        BY <2>4, <2>10, <3>2
      <4>2. g[m] = 0
        BY <2>6, <3>1, <3>2, <4>1, <2>4 DEF Weight
      <4>3. QED
        BY <4>2
    <3>3. CASE n > 4
      <4> DEFINE k == n - 5
      <4>1. k \in Nat /\ n = 5 + k
        BY <2>4, <3>3
      <4> HIDE DEF k
      <4>2. 2 ^ (5 + k) = 2 ^ 5 * 2 ^ k /\ 2 ^ k \in Nat
        BY <4>1, PowersMultiply, Powers
      <4>3. 2 ^ 5 = 32
        BY PowerOfFive
      <4>4. PICK p \in Nat : 2 ^ n = 32 * p
        BY <4>1, <4>2, <4>3
      <4>5. PICK q \in Nat : Weight(S, n) = 32 * q
        <5>1. Weight(S, n) = 32 * 0 \/ Weight(S, n) = 32 * p
          BY <2>8, <4>4
        <5>2. QED
          BY <5>1
      <4>6. g[m] % 32 = 0
        BY <2>6, <3>1, <4>5
      <4>7. ~(m <= 5)
        BY <2>4, <3>3
      <4>8. QED
        BY <4>6, <4>7
    <3>4. QED
      BY <2>4, <3>2, <3>3
  <2>11. QED
    BY <2>2, <2>9, <2>10
<1>2. w \notin T /\ w \in 0 .. w
  BY <1>1
<1>3. Good(w)
  BY <1>2
<1>4. QED
  BY <1>3

\* Bits make a word, and one that is a multiple of 32 if the lowest five are
\* clear.
LEMMA OfBitsWord ==
  ASSUME NEW S
  PROVE  /\ OfBits(S) \in Word
         /\ S \cap (0 .. 4) = {} => OfBits(S) % 32 = 0
<1>1. PICK g : IsSum(g, S, Width) /\ OfBits(S) = g[Width]
  BY OfBitsIs
<1>2. Width \in Nat /\ Size \in Nat /\ Width \in 0 .. Width
  BY SizeIs, WidthAssumption
<1>3. Size = 2 ^ Width
  BY SizeIs
<1>4. g[Width] \in Nat /\ g[Width] < Size /\ (S \cap (0 .. 4) = {} => g[Width] % 32 = 0)
  BY <1>1, <1>2, <1>3, SumsBounded
<1>5. QED
  BY <1>1, <1>2, <1>4 DEF Word

\* What is left of a number after wrapping is a word.
LEMMA WrapWord ==
  ASSUME NEW x \in Int
  PROVE  Wrap(x) \in Word
BY SizeIs DEF Wrap, Word

\* So are the results of the bitwise operators,
LEMMA BitwiseWord ==
  ASSUME NEW x, NEW y
  PROVE  And(x, y) \in Word /\ Or(x, y) \in Word /\ Xor(x, y) \in Word
BY OfBitsWord, Zenon DEF And, Or, Xor

\* of the complement,
LEMMA NotWord ==
  ASSUME NEW x \in Word
  PROVE  Not(x) \in Word
BY SizeIs DEF Not, Word

\* and an address with its low bits cleared, which is not beyond the address.
LEMMA AlignedWord ==
  ASSUME NEW x \in Word, NEW n \in {2, 4}
  PROVE  Aligned(x, n) \in Word /\ Aligned(x, n) <= x /\ Aligned(x, n) \in Nat
BY SizeIs DEF Aligned, Word

\* Words are the numbers below Size; those of five bits are among them.
LEMMA WordIs ==
  /\ Word \subseteq Nat /\ 0 \in Word /\ \A x \in 0 .. 31 : x \in Word
  /\ \A x \in Nat : x < Size => x \in Word
  /\ \A x \in Word : x < Size
BY SizeIs DEF Word

\* Sums, differences and what the logical operations compute.
LEMMA ComputedWord ==
  ASSUME NEW a \in Int, NEW b \in Int, NEW c \in Int
  PROVE  Added(a, b, c).value \in Word /\ Subtracted(a, b, c).value \in Word /\ Product(a, b) \in Word
<1>1. (a + b) + c \in Int /\ (a - b) - c \in Int /\ a + b + c \in Int /\ a * b \in Int
  OBVIOUS
<1>2. Wrap(a + b + c) \in Word /\ Wrap((a - b) - c) \in Word /\ Wrap(a * b) \in Word
  BY <1>1, WrapWord
<1>3. QED
  BY <1>2 DEF Added, Subtracted, Product

\* A rotation keeps to a word: its two parts do not meet.
LEMMA RotatedWord ==
  ASSUME NEW x \in Word, NEW n \in 0 .. Width
  PROVE  Rotated(x, n) \in Word
<1> DEFINE P == 2 ^ n
           Q == 2 ^ (Width - n)
<1>1. P \in Nat /\ P >= 1 /\ Q \in Nat /\ Q >= 1 /\ Size = P * Q
  BY SizeIs
<1>2. x \in Nat /\ x < Size
  BY WordIs
<1> DEFINE a == x \div P
           b == x % P
<1> HIDE DEF P, Q
<1>3. a \in Nat /\ b \in Nat /\ b < P /\ x = P * a + b
  BY <1>1, <1>2
<1> HIDE DEF a, b
<1>4. a < Q
  <2>1. SUFFICES ASSUME a >= Q PROVE FALSE
    BY <1>1, <1>3
  <2>2. P * a >= P * Q
    BY <1>1, <1>3, <2>1
  <2>3. QED
    BY <1>1, <1>2, <1>3, <2>2
<1> DEFINE u == (x * Q) % (P * Q)
<1>5. \E k \in Nat : u = k * Q /\ k <= P - 1
  <2>1. x * Q = (P * Q) * ((x * Q) \div (P * Q)) + u /\ u \in Nat /\ u < P * Q
    <3>1. x * Q \in Nat /\ P * Q \in Nat /\ P * Q > 0
      BY <1>1, <1>2
    <3>2. QED
      BY <3>1
  <2> DEFINE v == (x * Q) \div (P * Q)
  <2>2. v \in Nat
    BY <1>1, <1>2
  <2> HIDE DEF u, v
  <2>3. u = (x - P * v) * Q
    BY <1>1, <1>2, <2>1, <2>2 DEF v
  <2>4. x - P * v \in Int
    BY <1>1, <1>2, <2>2
  <2> DEFINE k == x - P * v
  <2>5. k \in Int /\ u = k * Q
    BY <2>3, <2>4
  <2> HIDE DEF k
  <2>6. k >= 0
    <3>1. SUFFICES ASSUME k <= -1 PROVE FALSE
      BY <2>5
    <3>2. k * Q <= (-1) * Q
      BY <1>1, <2>5, <3>1
    <3>3. QED
      BY <1>1, <2>1, <2>5, <3>2
  <2>7. k <= P - 1
    <3>1. SUFFICES ASSUME k >= P PROVE FALSE
      BY <1>1, <2>5
    <3>2. k * Q >= P * Q
      BY <1>1, <2>5, <3>1
    <3>3. QED
      BY <1>1, <2>1, <2>5, <3>2
  <2>8. QED
    BY <2>5, <2>6, <2>7
<1>6. PICK k \in Nat : u = k * Q /\ k <= P - 1
  BY <1>5
<1>7. u <= P * Q - Q /\ u \in Nat
  <2>1. k * Q <= (P - 1) * Q /\ k * Q \in Nat
    BY <1>1, <1>6
  <2>2. (P - 1) * Q = P * Q - Q
    BY <1>1
  <2>3. QED
    BY <1>6, <2>1, <2>2
<1>8. Wrap(x * Q) = u
  BY <1>1 DEF Wrap
<1> HIDE DEF u
<1>9. a + u \in Nat /\ a + u < Size
  BY <1>1, <1>3, <1>4, <1>7
<1>10. Rotated(x, n) = a + u
  BY <1>8 DEF Rotated, a, P, Q
<1>11. QED
  BY <1>9, <1>10, WordIs

\* The shifts.
LEMMA ShiftWord ==
  ASSUME NEW kind \in ShiftKind, NEW x \in Word, NEW amount \in Nat, NEW c, NEW immediate
  PROVE  DoShift(kind, x, amount, c, immediate).value \in Word
<1> USE WidthAssumption
<1> DEFINE n == amount % 2 ^ AmountWidth
<1>1. n \in Nat
  <2>1. 2 ^ AmountWidth \in Nat /\ 2 ^ AmountWidth >= 1
    BY Powers
  <2>2. QED
    BY <2>1
<1> HIDE DEF n
<1>2. x \in Nat /\ x < Size /\ Size \in Nat /\ Top \in Nat /\ Size = 2 * Top
  BY WordIs, SizeIs
<1>3. Adjusted(n) \in Nat /\ Effective(n, immediate) \in Nat
  BY <1>1 DEF Adjusted, Effective
<1>4. \A k \in Nat : 2 ^ k \in Nat /\ 2 ^ k >= 1
  BY Powers
<1>5. LSL(x, n, c).value \in Word
  <2> DEFINE k == Adjusted(n)
  <2>1. Wrap(x * 2 ^ k) \in Word
    BY <1>2, <1>3, <1>4, WrapWord
  <2>2. LSL(x, n, c).value \in {x, Wrap(x * 2 ^ k)}
    BY DEF LSL, Shift
  <2>3. QED
    BY <2>1, <2>2
<1>6. LSR(x, n, c, immediate).value \in Word
  <2> DEFINE k == Effective(n, immediate)
  <2>1. x \div 2 ^ k \in Nat /\ x \div 2 ^ k <= x
    <3> DEFINE p == 2 ^ k
    <3>1. p \in Nat /\ p >= 1
      BY <1>3, <1>4
    <3> HIDE DEF p
    <3>2. x \div p \in Nat /\ x \div p <= x
      BY <1>2, <3>1
    <3>3. QED
      BY <3>2 DEF p
  <2>2. LSR(x, n, c, immediate).value \in {x, x \div 2 ^ k}
    BY DEF LSR, Shift
  <2>3. QED
    BY <1>2, <2>1, <2>2, WordIs
<1>7. ASR(x, n, c, immediate).value \in Word
  <2> DEFINE k == Effective(n, immediate)
  <2>1. Signed(x) \in Int
    BY <1>2 DEF Signed
  <2>2. Signed(x) \div 2 ^ k \in Int
    BY <1>3, <1>4, <2>1
  <2>3. Wrap(Signed(x) \div 2 ^ k) \in Word
    BY <2>2, WrapWord
  <2>4. ASR(x, n, c, immediate).value \in {x, Wrap(Signed(x) \div 2 ^ k)}
    BY DEF ASR, Shift
  <2>5. QED
    BY <2>3, <2>4
<1>8. ROR(x, n, c, immediate).value \in Word
  <2> DEFINE k == n % Width
             y == (x \div 2) + (IF c THEN Top ELSE 0)
  <2>1. Rotated(x, k) \in Word
    BY <1>1, RotatedWord
  <2>2. y \in Word
    <3>1. x \div 2 \in Nat /\ x \div 2 < Top
      BY <1>2
    <3>2. y \in Nat /\ y < Size
      BY <1>2, <3>1
    <3>3. QED
      BY <3>2, WordIs
  <2> HIDE DEF y, k
  <2>3. ROR(x, n, c, immediate).value \in {x, y, Rotated(x, k)}
    BY DEF ROR, Shift, y, k
  <2>4. QED
    BY <2>1, <2>2, <2>3
<1>9. DoShift(kind, x, amount, c, immediate) \in
        {LSL(x, n, c), LSR(x, n, c, immediate), ASR(x, n, c, immediate), ROR(x, n, c, immediate)}
  BY DEF DoShift, ShiftKind, n
<1>10. QED
  BY <1>5, <1>6, <1>7, <1>8, <1>9

\* A rotated immediate operand is a word.
LEMMA ImmediateWord ==
  ASSUME NEW value \in Word, NEW rot \in 0 .. Width - 1, NEW c
  PROVE  Immediate(value, rot, c).value \in Word
<1>1. rot \in 0 .. Width
  BY WidthAssumption
<1>2. Immediate(value, rot, c).value \in {value, Rotated(value, rot)}
  BY DEF Immediate, Shift
<1>3. QED
  BY <1>1, <1>2, RotatedWord

\* The parts of a word that narrow loads take out of it, and their extension.
LEMMA PartWord ==
  ASSUME NEW n \in 1 .. Width, NEW x \in Int
  PROVE  x % 2 ^ n \in Word /\ x % 2 ^ n < 2 ^ n
<1>1. n \in 0 .. Width
  OBVIOUS
<1> DEFINE P == 2 ^ n
           Q == 2 ^ (Width - n)
<1>2. P \in Nat /\ P >= 1 /\ Q \in Nat /\ Q >= 1 /\ Size = P * Q
  BY <1>1, SizeIs
<1> HIDE DEF P, Q
<1>3. P <= Size
  BY <1>2
<1>4. x % P \in Nat /\ x % P < P
  BY <1>2
<1>5. x % P \in Word
  BY <1>2, <1>3, <1>4, SizeIs, WordIs
<1>6. QED
  BY <1>4, <1>5 DEF P

\* A byte or halfword with its sign extended is a word.
LEMMA ExtendedWord ==
  ASSUME NEW n \in 1 .. Width, NEW x \in Nat, x < 2 ^ n, x \in Word
  PROVE  Extended(x, n) \in Word
<1>1. n \in 0 .. Width
  OBVIOUS
<1> DEFINE P == 2 ^ n
           Q == 2 ^ (Width - n)
<1>2. P \in Nat /\ P >= 1 /\ Q \in Nat /\ Q >= 1 /\ Size = P * Q /\ Size \in Nat /\ x < P
  BY <1>1, SizeIs
<1> HIDE DEF P, Q
<1>3. P <= Size
  BY <1>2
<1>4. x + Size - P \in Nat /\ x + Size - P < Size
  BY <1>2, <1>3
<1>5. Extended(x, n) \in {x, x + Size - P}
  BY DEF Extended, P
<1>6. QED
  BY <1>4, <1>5, WordIs

LoadKind == {"word", "byte", "wordRotate", "byteSigned", "halfRotate", "halfSigned"}

\* What any kind of load makes of a word of memory is a word.
LEMMA LoadedWord ==
  ASSUME NEW kind \in LoadKind, NEW word \in Word, NEW address \in Nat
  PROVE  Loaded(kind, word, address) \in Word
<1>1. /\ HalfBits \in 1 .. Width /\ ByteBits \in 1 .. Width
      /\ ByteBits * (address % 4) \in 0 .. Width /\ HalfBits * ((address \div 2) % 2) \in Nat
  <2>1. PICK k \in Nat : Width = 4 * k /\ k >= 1
    BY WidthAssumption
  <2>2. HalfBits = 2 * k /\ ByteBits = k
    BY <2>1 DEF HalfBits, ByteBits
  <2>3. address % 4 \in {0, 1, 2, 3} /\ (address \div 2) % 2 \in {0, 1}
    OBVIOUS
  <2>4. QED
    BY <2>1, <2>2, <2>3
<1>2. word \in Nat
  BY WordIs
<1>3. \A k \in Nat : word \div 2 ^ k \in Int
  BY <1>2, Powers
<1>4. /\ ByteOf(word, address) \in Word /\ ByteOf(word, address) < 2 ^ ByteBits
      /\ HalfOf(word, address) \in Word /\ HalfOf(word, address) < 2 ^ HalfBits
  <2>1. word \div 2 ^ (ByteBits * (address % 4)) \in Int
        /\ word \div 2 ^ (HalfBits * ((address \div 2) % 2)) \in Int
    BY <1>1, <1>3
  <2>2. QED
    BY <1>1, <2>1, PartWord DEF ByteOf, HalfOf
<1>5. Extended(ByteOf(word, address), ByteBits) \in Word
      /\ Extended(HalfOf(word, address), HalfBits) \in Word
  BY <1>1, <1>4, ExtendedWord, WordIs
<1>6. Rotated(word, ByteBits * (address % 4)) \in Word
      /\ Rotated(HalfOf(word, address), ByteBits) \in Word
  <2>1. ByteBits \in 0 .. Width
    BY <1>1
  <2>2. QED
    BY <1>1, <1>4, <2>1, RotatedWord
<1>7. Loaded(kind, word, address) \in
        {word, ByteOf(word, address), Rotated(word, ByteBits * (address % 4)),
         Extended(ByteOf(word, address), ByteBits), Rotated(HalfOf(word, address), ByteBits),
         HalfOf(word, address), Extended(HalfOf(word, address), HalfBits)}
  BY DEF Loaded, LoadKind
<1>8. QED
  BY <1>4, <1>5, <1>6, <1>7

\* The halves of a long product.
LEMMA LongWord ==
  ASSUME NEW signed, NEW a \in Word, NEW b \in Word, NEW hi \in Word, NEW lo \in Word
  PROVE  /\ LongProduct(signed, a, b, hi, lo).hi \in Word
         /\ LongProduct(signed, a, b, hi, lo).lo \in Word
<1> DEFINE p == IF signed THEN Signed(a) * Signed(b) ELSE a * b
           z == p + hi * Size + lo
           r == z % (Size * Size)
<1>1. Size \in Nat /\ Size >= 32 /\ {a, b, hi, lo} \subseteq Nat
  BY SizeIs, WordIs
<1>2. p \in Int
  <2>1. Signed(a) \in Int /\ Signed(b) \in Int
    BY <1>1 DEF Signed
  <2>2. Signed(a) * Signed(b) \in Int /\ a * b \in Int
    BY <1>1, <2>1
  <2>3. QED
    BY <2>2
<1> HIDE DEF p
<1>3. z \in Int
  BY <1>1, <1>2
<1> HIDE DEF z
<1>4. r \in Nat /\ r < Size * Size
  <2>1. Size * Size \in Nat /\ Size * Size > 0
    BY <1>1
  <2>2. QED
    BY <1>3, <2>1
<1> HIDE DEF r
<1>5. r \div Size \in Nat /\ r \div Size < Size
  <2> DEFINE q == r \div Size
  <2>1. q \in Nat /\ q * Size <= r
    BY <1>1, <1>4
  <2> HIDE DEF q
  <2>2. q < Size
    <3>1. SUFFICES ASSUME q >= Size PROVE FALSE
      BY <1>1, <2>1
    <3>2. q * Size >= Size * Size
      BY <1>1, <2>1, <3>1
    <3>3. QED
      BY <1>1, <1>4, <2>1, <3>2
  <2>3. QED
    BY <2>1, <2>2 DEF q
<1>6. r % Size \in Nat /\ r % Size < Size
  BY <1>1, <1>4
<1>7. LongProduct(signed, a, b, hi, lo) = [hi |-> r \div Size, lo |-> r % Size]
  BY DEF LongProduct, r, z, p
<1>8. QED
  BY <1>5, <1>6, <1>7, WordIs

\* A CPU whose registers hold words and whose accesses make a sequence.
IsList(s) == \E S : s \in Seq(S)
Held(c) == HoldsWords(c) /\ IsList(c.bus)

\* The last of a list of accesses is the one just added.
LEMMA AppendedList ==
  ASSUME NEW s, IsList(s), NEW e
  PROVE  /\ IsList(Append(s, e)) /\ Append(s, e) # << >>
         /\ Append(s, e)[Len(Append(s, e))] = e
<1>1. PICK S : s \in Seq(S)
  BY DEF IsList
<1> DEFINE T == S \cup {e}
<1>2. s \in Seq(T)
  BY <1>1
<1>3. Append(s, e) \in Seq(T)
  BY <1>2
<1>4. Len(Append(s, e)) = Len(s) + 1 /\ Len(s) \in Nat
  BY <1>2
<1>5. Append(s, e)[Len(s) + 1] = e
  BY <1>2
<1>6. Append(s, e) # << >>
  BY <1>2, <1>4
<1>7. QED
  BY <1>3, <1>4, <1>5, <1>6 DEF IsList

\* The fields a CPU has.
LEMMA FieldsAre ==
  ASSUME NEW c, HoldsWords(c)
  PROVE  DOMAIN c = {"reg", "bank", "cpsr", "spsr", "pSpsr", "conflict", "cpuModeInvalid", "pipe",
                     "sequential", "irqLine", "latchIrqDisable", "bus", "slow", "contents", "booth"}
BY DEF HoldsWords, ResetState

\* The fields of a status register.
LEMMA PSRFields == DOMAIN ZeroPSR = {"mode", "t", "f", "i", "n", "z", "c", "v"}
BY DEF ZeroPSR

\* The state a reset makes holds words.
LEMMA ResetHolds == Held(ResetState)
<1>1. ResetState.bus \in Seq({})
  BY DEF ResetState
<1>2. HoldsMode(ZeroPSR)
  BY DEF HoldsMode, ZeroPSR
<1>3. HoldsMode(ResetState.cpsr)
  <2>1. ResetState.cpsr = [ZeroPSR EXCEPT !.mode = ModeNumber.svc, !.i = TRUE, !.f = TRUE]
    BY DEF ResetState
  <2>2. ModeNumber.svc = 19
    BY DEF ModeNumber
  <2>3. DOMAIN ResetState.cpsr = DOMAIN ZeroPSR /\ ResetState.cpsr.mode = 19 /\ ResetState.cpsr.t = FALSE
    BY <2>1, <2>2 DEF ZeroPSR
  <2>4. ResetState.cpsr.t \in BOOLEAN
    BY <2>3, Zenon
  <2>5. ResetState.cpsr.mode \in 0 .. 31
    BY <2>3
  <2>6. QED
    BY <2>3, <2>4, <2>5, Zenon DEF HoldsMode
<1>4. 0 \in Word
  BY WordIs
<1>5. HoldsWords(ResetState)
  BY <1>2, <1>3, <1>4 DEF HoldsWords, ResetState, Register, Bank
<1>6. QED
  BY <1>1, <1>5 DEF Held, IsList

\* What an access leaves alone.
LEMMA TouchKeeps ==
  ASSUME NEW c, Held(c), NEW k, NEW a, NEW v
  PROVE  LET d == Touch(c, k, a, v) IN
         /\ Held(d) /\ d.pipe = c.pipe /\ d.cpsr = c.cpsr /\ d.reg = c.reg /\ d.bank = c.bank
         /\ d.sequential = c.sequential /\ d.contents = c.contents
         /\ d.bus # << >> /\ d.bus[Len(d.bus)] = [kind |-> k, at |-> a, value |-> v]
<1> DEFINE d == Touch(c, k, a, v)
           e == [kind |-> k, at |-> a, value |-> v]
<1>1. /\ d.pipe = c.pipe /\ d.cpsr = c.cpsr /\ d.reg = c.reg /\ d.bank = c.bank
      /\ d.sequential = c.sequential /\ d.contents = c.contents /\ d.bus = Append(c.bus, e)
      /\ DOMAIN d = DOMAIN c /\ d.spsr = c.spsr /\ d.pSpsr = c.pSpsr
  BY FieldsAre DEF Held, Touch
<1>2. HoldsWords(d)
  BY <1>1 DEF Held, HoldsWords
<1>3. IsList(c.bus)
  BY DEF Held
<1>4. QED
  BY <1>1, <1>2, <1>3, AppendedList DEF Held

\* The modes and their banks.
LEMMA ModesAre ==
  /\ \A name \in DOMAIN ModeNumber : ModeNumber[name] \in 0 .. 31
  /\ {"svc", "irq", "und", "usr"} \subseteq DOMAIN ModeNumber
  /\ \A mode : BankOf(mode) \in Bank
<1>1. DOMAIN ModeNumber = {"usr", "fiq", "irq", "svc", "abt", "und", "sys"}
  BY DEF ModeNumber
<1>2. \A name \in DOMAIN ModeNumber : ModeNumber[name] \in 0 .. 31
  BY DEF ModeNumber
<1>3. ASSUME NEW mode PROVE BankOf(mode) \in Bank
  BY <1>1 DEF BankOf, Bank
<1>4. QED
  BY <1>1, <1>2, <1>3

\* Where r8 to r12 are moved to, if they are moved, there is a bank.
LEMMA FiveIs ==
  ASSUME NEW old \in Bank, NEW new \in Bank
  PROVE  FiveMove(old, new) = << >> \/ (FiveMove(old, new)[2] \in Bank)
BY DEF FiveMove, Bank

\* A change of mode, to an invalid one too, keeps words and leaves r15 and
\* the pipeline alone.
LEMMA SwitchKeeps ==
  ASSUME NEW c, Held(c), NEW mode \in 0 .. 31
  PROVE  LET d == SwitchMode(c, mode) IN
         /\ Held(d) /\ d.pipe = c.pipe /\ d.cpsr = [c.cpsr EXCEPT !.mode = mode]
         /\ d.reg[15] = c.reg[15] /\ d.sequential = c.sequential /\ d.bus = c.bus
<1> DEFINE old == BankOf(c.cpsr.mode)
           new == BankOf(mode)
           five == FiveMove(old, new)
           banked ==
             [b \in DOMAIN c.bank |->
               [r \in Banked |->
                 IF \/ r \in 8 .. 12 /\ five # <<>> /\ b = five[1]
                    \/ r \in 13 .. 14 /\ b = old
                 THEN c.reg[r] ELSE c.bank[b][r]]]
           entered ==
             [r \in 0 .. 15 |->
               CASE r \in Banked /\ new = "invalid" -> 0
                 [] r \in 13 .. 14 /\ new # "invalid" -> banked[new][r]
                 [] r \in 8 .. 12 /\ new # "invalid" /\ five # <<>> -> banked[five[2]][r]
                 [] OTHER -> c.reg[r]]
           selected == [c EXCEPT !.cpsr.mode = mode, !.pSpsr = new]
           d == SwitchMode(c, mode)
           full == [selected EXCEPT
              !.bank = banked, !.reg = entered,
              !.cpuModeInvalid = (new = "invalid"),
              !.spsr = IF new = "invalid" THEN [@ EXCEPT ![new] = ZeroPSR] ELSE @]
<1>1. old \in Bank /\ new \in Bank
  BY ModesAre
<1>2. five = << >> \/ five[2] \in Bank
  BY <1>1, FiveIs
<1>3. HoldsWords(c) /\ HoldsMode(c.cpsr) /\ HoldsMode(ZeroPSR)
  BY DEF Held, HoldsWords, HoldsMode, ZeroPSR
<1>4. /\ selected.cpsr = [c.cpsr EXCEPT !.mode = mode] /\ selected.pSpsr = new
      /\ DOMAIN selected = DOMAIN c /\ selected.reg = c.reg /\ selected.bank = c.bank
      /\ selected.spsr = c.spsr /\ selected.pipe = c.pipe /\ selected.sequential = c.sequential
      /\ selected.bus = c.bus /\ selected.contents = c.contents
  BY <1>3, FieldsAre
<1>5. HoldsMode([c.cpsr EXCEPT !.mode = mode])
  BY <1>3, PSRFields DEF HoldsMode
<1>6. CASE old = new
  <2>1. d = selected
    BY <1>6 DEF SwitchMode
  <2>2. HoldsWords(d)
    BY <2>1, <1>1, <1>3, <1>4, <1>5 DEF HoldsWords
  <2>3. QED
    BY <2>1, <2>2, <1>4 DEF Held
<1>7. CASE old # new
  <2>1. d = full
    BY <1>7, Zenon DEF SwitchMode
  <2>2. /\ full.cpsr = selected.cpsr /\ full.pSpsr = new
        /\ DOMAIN full = DOMAIN c /\ full.reg = entered /\ full.bank = banked
        /\ full.pipe = c.pipe /\ full.sequential = c.sequential
        /\ full.bus = c.bus /\ full.contents = c.contents
        /\ full.spsr = IF new = "invalid" THEN [c.spsr EXCEPT ![new] = ZeroPSR] ELSE c.spsr
    <3> HIDE DEF banked, entered, selected, new
    <3>1. DOMAIN selected = {"reg", "bank", "cpsr", "spsr", "pSpsr", "conflict", "cpuModeInvalid", "pipe",
                     "sequential", "irqLine", "latchIrqDisable", "bus", "slow", "contents", "booth"}
      BY <1>3, <1>4, FieldsAre
    <3>2. QED
      BY <3>1, <1>4
  <2>3. banked \in [Bank -> [Banked -> Word]]
    <3>1. /\ DOMAIN c.bank = Bank /\ \A b \in Bank, r \in Banked : c.bank[b][r] \in Word
          /\ \A r \in Banked : c.reg[r] \in Word
      BY <1>3 DEF HoldsWords, Banked, Register
    <3> HIDE DEF five, old
    <3>2. QED
      BY <3>1
  <2>4. entered \in [Register -> Word] /\ entered[15] = c.reg[15]
    <3> HIDE DEF banked, five
    <3>1. \A r \in Register : c.reg[r] \in Word
      BY <1>3 DEF HoldsWords
    <3>2. \A r \in Banked : banked[new][r] \in Word
      BY <2>3, <1>1
    <3>3. five # << >> => \A r \in Banked : banked[five[2]][r] \in Word
      BY <2>3, <1>2
    <3>4. 0 \in Word
      BY WordIs
    <3> HIDE DEF new
    <3>5. ASSUME NEW r \in Register PROVE entered[r] \in Word
      BY <3>1, <3>2, <3>3, <3>4 DEF Register, Banked
    <3>6. QED
      BY <3>5 DEF Register, Banked
  <2>5. DOMAIN full.spsr = Bank /\ \A b \in Bank : HoldsMode(full.spsr[b])
    <3> HIDE DEF full, new
    <3>1. DOMAIN c.spsr = Bank /\ \A b \in Bank : HoldsMode(c.spsr[b])
      BY <1>3 DEF HoldsWords
    <3>2. QED
      BY <3>1, <2>2, <1>3
  <2>6. HoldsWords(full)
    <3> HIDE DEF full, new, banked, entered, selected
    <3>1. c.contents \in Int /\ DOMAIN c = DOMAIN ResetState
      BY <1>3 DEF HoldsWords
    <3>2. QED
      BY <3>1, <2>2, <2>3, <2>4, <2>5, <1>1, <1>4, <1>5 DEF HoldsWords
  <2>7. QED
    <3> HIDE DEF full, new, banked, entered, selected
    <3>1. QED
      BY <2>1, <2>2, <2>4, <2>6, <1>4 DEF Held
<1>8. QED
  BY <1>6, <1>7

\* What the registers an instruction names give and take.
LEMMA GetRegWord ==
  ASSUME NEW c, Held(c), NEW r \in Register
  PROVE  GetReg(c, r) \in Word /\ c.reg[r] \in Word
<1>1. c.reg[r] \in Word
  BY DEF Held, HoldsWords
<1>2. Or(c.reg[r], c.bank["none"][r]) \in Word
  BY BitwiseWord
<1>3. QED
  BY <1>1, <1>2 DEF GetReg

\* So does a register set through the user-bank window, unless it is r15,
LEMMA SetRegKeeps ==
  ASSUME NEW c, Held(c), NEW r \in Register, NEW v \in Word
  PROVE  LET d == SetReg(c, r, v) IN
         /\ Held(d) /\ d.pipe = c.pipe /\ d.cpsr = c.cpsr /\ d.sequential = c.sequential
         /\ d.bus = c.bus /\ (r # 15 => d.reg[15] = c.reg[15])
<1> DEFINE d == SetReg(c, r, v)
           bank == IF ldmUsermode(c) /\ r \in Banked
                   THEN [c.bank EXCEPT !["none"][r] = v] ELSE c.bank
           reg == IF c.cpuModeInvalid /\ r \in Banked THEN c.reg ELSE [c.reg EXCEPT ![r] = v]
<1>1. HoldsWords(c)
  BY DEF Held
<1>2. /\ d.bank = bank /\ d.reg = reg /\ d.pipe = c.pipe /\ d.cpsr = c.cpsr
      /\ d.sequential = c.sequential /\ d.bus = c.bus /\ d.contents = c.contents
      /\ d.spsr = c.spsr /\ d.pSpsr = c.pSpsr /\ DOMAIN d = DOMAIN c
  BY <1>1, FieldsAre DEF SetReg
<1>3. bank \in [Bank -> [Banked -> Word]] /\ "none" \in Bank
  BY <1>1 DEF HoldsWords, Bank
<1>4. reg \in [Register -> Word] /\ (r # 15 => reg[15] = c.reg[15])
  BY <1>1 DEF HoldsWords, Register
<1>5. HoldsWords(d)
  <2> HIDE DEF d, bank, reg
  <2>1. QED
    BY <1>1, <1>2, <1>3, <1>4 DEF HoldsWords
<1>6. QED
  BY <1>2, <1>4, <1>5 DEF Held

\* one set without it,
LEMMA PutRegKeeps ==
  ASSUME NEW c, Held(c), NEW r \in Register, NEW v \in Word
  PROVE  LET d == PutReg(c, r, v) IN
         /\ Held(d) /\ d.pipe = c.pipe /\ d.cpsr = c.cpsr /\ d.sequential = c.sequential
         /\ d.bus = c.bus /\ d.reg[r] = v /\ (r # 15 => d.reg[15] = c.reg[15])
<1> DEFINE d == PutReg(c, r, v)
<1>1. HoldsWords(c)
  BY DEF Held
<1>2. /\ d.bank = c.bank /\ d.reg = [c.reg EXCEPT ![r] = v] /\ d.pipe = c.pipe /\ d.cpsr = c.cpsr
      /\ d.sequential = c.sequential /\ d.bus = c.bus /\ d.contents = c.contents
      /\ d.spsr = c.spsr /\ d.pSpsr = c.pSpsr /\ DOMAIN d = DOMAIN c
  BY <1>1, FieldsAre DEF PutReg
<1>3. c.reg \in [Register -> Word]
  BY <1>1 DEF HoldsWords
<1>4. d.reg \in [Register -> Word] /\ (r # 15 => d.reg[15] = c.reg[15]) /\ d.reg[r] = v
  BY <1>2, <1>3 DEF Register
<1>5. HoldsWords(d)
  <2> HIDE DEF d
  <2>1. QED
    BY <1>1, <1>2, <1>4 DEF HoldsWords
<1>6. QED
  BY <1>2, <1>4, <1>5 DEF Held

\* r15 moved on,
LEMMA AdvanceKeeps ==
  ASSUME NEW c, Held(c), NEW n \in Int
  PROVE  LET d == Advance(c, n) IN
         /\ Held(d) /\ d.pipe = c.pipe /\ d.cpsr = c.cpsr /\ d.sequential = c.sequential
         /\ d.bus = c.bus /\ d.reg[15] = Wrap(c.reg[15] + n)
<1>1. 15 \in Register
  BY DEF Register
<1>2. c.reg[15] \in Word
  BY <1>1 DEF Held, HoldsWords
<1>2a. c.reg[15] \in Int
  <2>1. c.reg[15] \in Nat
    BY <1>2, WordIs, Zenon
  <2>2. QED
    BY <2>1
<1>3. Wrap(c.reg[15] + n) \in Word
  BY <1>2a, WrapWord
<1>4. Advance(c, n) = PutReg(c, 15, Wrap(c.reg[15] + n))
  BY DEF Advance, PutReg
<1>5. QED
  BY <1>1, <1>3, <1>4, PutRegKeeps

\* The fields the properties do not read, and the two that say what the next
\* access is.
LEMMA FlagsKeep ==
  ASSUME NEW c, Held(c), NEW a
  PROVE  LET d == SetFlags(c, a) IN
         /\ Held(d) /\ d.pipe = c.pipe /\ d.cpsr.t = c.cpsr.t /\ d.cpsr.mode = c.cpsr.mode
         /\ d.sequential = c.sequential /\ d.bus = c.bus /\ d.reg = c.reg
<1> DEFINE d == SetFlags(c, a)
<1>1. HoldsWords(c) /\ HoldsMode(c.cpsr)
  BY DEF Held, HoldsWords
<1>2. DOMAIN c.cpsr = {"mode", "t", "f", "i", "n", "z", "c", "v"}
  BY <1>1, PSRFields DEF HoldsMode
<1>3. /\ d.bank = c.bank /\ d.reg = c.reg /\ d.pipe = c.pipe
      /\ d.cpsr = [c.cpsr EXCEPT !.n = a.n, !.z = a.z, !.c = a.c, !.v = a.v]
      /\ d.sequential = c.sequential /\ d.bus = c.bus /\ d.contents = c.contents
      /\ d.spsr = c.spsr /\ d.pSpsr = c.pSpsr /\ DOMAIN d = DOMAIN c
  BY <1>1, FieldsAre DEF SetFlags
<1>4. DOMAIN d.cpsr = DOMAIN c.cpsr /\ d.cpsr.mode = c.cpsr.mode /\ d.cpsr.t = c.cpsr.t
  <2> HIDE DEF d
  <2>1. QED
    BY <1>2, <1>3
<1>5. HoldsMode(d.cpsr)
  <2> HIDE DEF d
  <2>1. QED
    BY <1>1, <1>4, Zenon DEF HoldsMode
<1>6. HoldsWords(d)
  <2> HIDE DEF d
  <2>1. QED
    BY <1>1, <1>3, <1>5 DEF HoldsWords
<1>7. QED
  BY <1>3, <1>4, <1>6 DEF Held

\* the kind of the next fetch,
LEMMA SequenceKeeps ==
  ASSUME NEW c, Held(c)
  PROVE  /\ LET d == Sequential(c) IN
            /\ Held(d) /\ d.pipe = c.pipe /\ d.cpsr = c.cpsr /\ d.bus = c.bus /\ d.reg = c.reg
            /\ d.contents = c.contents /\ d.booth = c.booth
         /\ LET d == Nonsequential(c) IN
            /\ Held(d) /\ d.pipe = c.pipe /\ d.cpsr = c.cpsr /\ d.bus = c.bus /\ d.reg = c.reg
            /\ d.sequential = FALSE
<1>1. HoldsWords(c)
  BY DEF Held
<1>2. LET d == Sequential(c) IN
      /\ d.bank = c.bank /\ d.reg = c.reg /\ d.pipe = c.pipe /\ d.cpsr = c.cpsr
      /\ d.bus = c.bus /\ d.contents = c.contents /\ d.booth = c.booth
      /\ d.spsr = c.spsr /\ d.pSpsr = c.pSpsr /\ DOMAIN d = DOMAIN c
  BY <1>1, FieldsAre DEF Sequential
<1>3. LET d == Nonsequential(c) IN
      /\ d.bank = c.bank /\ d.reg = c.reg /\ d.pipe = c.pipe /\ d.cpsr = c.cpsr
      /\ d.bus = c.bus /\ d.contents = c.contents /\ d.sequential = FALSE
      /\ d.spsr = c.spsr /\ d.pSpsr = c.pSpsr /\ DOMAIN d = DOMAIN c
  BY <1>1, FieldsAre DEF Nonsequential
<1>4. HoldsWords(Sequential(c)) /\ HoldsWords(Nonsequential(c))
  BY <1>1, <1>2, <1>3 DEF HoldsWords
<1>5. QED
  BY <1>2, <1>3, <1>4 DEF Held

\* A status register that is written whole, or in the bit that names the state.
LEMMA StatusKeeps ==
  ASSUME NEW c, Held(c), NEW p, HoldsMode(p)
  PROVE  LET d == [c EXCEPT !.cpsr = p] IN
         /\ Held(d) /\ d.pipe = c.pipe /\ d.cpsr = p /\ d.bus = c.bus /\ d.reg = c.reg
         /\ d.sequential = c.sequential
<1> DEFINE d == [c EXCEPT !.cpsr = p]
<1>1. HoldsWords(c)
  BY DEF Held
<1>2. /\ d.bank = c.bank /\ d.reg = c.reg /\ d.pipe = c.pipe /\ d.cpsr = p
      /\ d.bus = c.bus /\ d.contents = c.contents /\ d.sequential = c.sequential
      /\ d.spsr = c.spsr /\ d.pSpsr = c.pSpsr /\ DOMAIN d = DOMAIN c
  BY <1>1, FieldsAre
<1>3. HoldsWords(d)
  <2> HIDE DEF d
  <2>1. QED
    BY <1>1, <1>2 DEF HoldsWords
<1>4. QED
  BY <1>2, <1>3 DEF Held

\* the Thumb bit,
LEMMA ThumbKeeps ==
  ASSUME NEW c, Held(c), NEW b \in BOOLEAN
  PROVE  LET d == [c EXCEPT !.cpsr.t = b] IN
         /\ Held(d) /\ d.pipe = c.pipe /\ d.cpsr.t = b /\ d.cpsr.mode = c.cpsr.mode
         /\ d.bus = c.bus /\ d.reg = c.reg /\ d.sequential = c.sequential
<1> DEFINE p == [c.cpsr EXCEPT !.t = b]
<1>1. HoldsMode(c.cpsr)
  BY DEF Held, HoldsWords
<1>2. DOMAIN c.cpsr = {"mode", "t", "f", "i", "n", "z", "c", "v"}
  BY <1>1, PSRFields DEF HoldsMode
<1>3. DOMAIN p = DOMAIN c.cpsr /\ p.mode = c.cpsr.mode
  BY <1>2
<1>4. p.t = b
  BY <1>2, Zenon
<1>5. HoldsMode(p)
  <2> HIDE DEF p
  <2>1. QED
    BY <1>1, <1>3, <1>4, Zenon DEF HoldsMode
<1>6. [c EXCEPT !.cpsr.t = b] = [c EXCEPT !.cpsr = p]
  BY Zenon
<1> HIDE DEF p
<1>7. /\ Held([c EXCEPT !.cpsr = p]) /\ [c EXCEPT !.cpsr = p].pipe = c.pipe
      /\ [c EXCEPT !.cpsr = p].cpsr = p /\ [c EXCEPT !.cpsr = p].bus = c.bus
      /\ [c EXCEPT !.cpsr = p].reg = c.reg /\ [c EXCEPT !.cpsr = p].sequential = c.sequential
  BY <1>5, StatusKeeps, Zenon
<1> DEFINE d == [c EXCEPT !.cpsr.t = b]
<1>8. /\ Held(d) /\ d.pipe = c.pipe /\ d.cpsr = p /\ d.bus = c.bus /\ d.reg = c.reg
      /\ d.sequential = c.sequential
  <2> HIDE DEF d
  <2>1. d = [c EXCEPT !.cpsr = p]
    BY <1>6, Zenon DEF d
  <2>2. QED
    BY <2>1, <1>7, Zenon
<1> HIDE DEF d
<1>9. d.cpsr.mode = c.cpsr.mode /\ d.cpsr.t = b
  BY <1>8, <1>3, <1>4, <1>5, Zenon
<1>10. QED
  BY <1>8, <1>9, Zenon DEF d

\* the interrupt mask,
LEMMA MaskKeeps ==
  ASSUME NEW c, Held(c)
  PROVE  LET d == [c EXCEPT !.cpsr.i = TRUE] IN
         /\ Held(d) /\ d.pipe = c.pipe /\ d.cpsr.t = c.cpsr.t /\ d.cpsr.mode = c.cpsr.mode
         /\ d.bus = c.bus /\ d.reg = c.reg /\ d.sequential = c.sequential
<1> DEFINE p == [c.cpsr EXCEPT !.i = TRUE]
<1>1. HoldsMode(c.cpsr)
  BY DEF Held, HoldsWords
<1>2. DOMAIN c.cpsr = {"mode", "t", "f", "i", "n", "z", "c", "v"}
  BY <1>1, PSRFields DEF HoldsMode
<1>3. DOMAIN p = DOMAIN c.cpsr /\ p.mode = c.cpsr.mode /\ p.t = c.cpsr.t
  BY <1>2
<1>5. HoldsMode(p)
  <2> HIDE DEF p
  <2>1. QED
    BY <1>1, <1>3, Zenon DEF HoldsMode
<1>6. [c EXCEPT !.cpsr.i = TRUE] = [c EXCEPT !.cpsr = p]
  BY Zenon
<1> HIDE DEF p
<1>7. /\ Held([c EXCEPT !.cpsr = p]) /\ [c EXCEPT !.cpsr = p].pipe = c.pipe
      /\ [c EXCEPT !.cpsr = p].cpsr = p /\ [c EXCEPT !.cpsr = p].bus = c.bus
      /\ [c EXCEPT !.cpsr = p].reg = c.reg /\ [c EXCEPT !.cpsr = p].sequential = c.sequential
  BY <1>5, StatusKeeps, Zenon
<1> DEFINE d == [c EXCEPT !.cpsr.i = TRUE]
<1>8. /\ Held(d) /\ d.pipe = c.pipe /\ d.cpsr = p /\ d.bus = c.bus /\ d.reg = c.reg
      /\ d.sequential = c.sequential
  <2> HIDE DEF d
  <2>1. d = [c EXCEPT !.cpsr = p]
    BY <1>6, Zenon DEF d
  <2>2. QED
    BY <2>1, <1>7, Zenon
<1> HIDE DEF d
<1>9. d.cpsr.mode = c.cpsr.mode /\ d.cpsr.t = c.cpsr.t
  BY <1>8, <1>3, <1>5, Zenon
<1>10. QED
  BY <1>8, <1>9, Zenon DEF d

\* and a bank's saved status.
LEMMA SavedStatusKeeps ==
  ASSUME NEW c, Held(c), NEW p, HoldsMode(p), NEW b \in Bank
  PROVE  LET d == [c EXCEPT !.spsr[b] = p] IN
         /\ Held(d) /\ d.pipe = c.pipe /\ d.cpsr = c.cpsr /\ d.bus = c.bus /\ d.reg = c.reg
         /\ d.sequential = c.sequential
<1> DEFINE d == [c EXCEPT !.spsr[b] = p]
<1>1. HoldsWords(c)
  BY DEF Held
<1>2. /\ d.bank = c.bank /\ d.reg = c.reg /\ d.pipe = c.pipe /\ d.cpsr = c.cpsr
      /\ d.bus = c.bus /\ d.contents = c.contents /\ d.sequential = c.sequential
      /\ d.spsr = [c.spsr EXCEPT ![b] = p] /\ d.pSpsr = c.pSpsr /\ DOMAIN d = DOMAIN c
  BY <1>1, FieldsAre
<1>3. HoldsWords(d)
  <2> HIDE DEF d
  <2>1. DOMAIN c.spsr = Bank /\ \A x \in Bank : HoldsMode(c.spsr[x])
    BY <1>1 DEF HoldsWords
  <2>2. DOMAIN d.spsr = Bank /\ \A x \in Bank : HoldsMode(d.spsr[x])
    BY <1>2, <2>1
  <2>3. QED
    BY <1>1, <1>2, <2>2 DEF HoldsWords
<1>4. QED
  BY <1>2, <1>3 DEF Held

\* The fields that say nothing about words: the conflict, what the bus is like.
LEMMA BesidesKeep ==
  ASSUME NEW c, Held(c)
  PROVE  /\ LET d == [c EXCEPT !.conflict = 2] IN
            /\ Held(d) /\ d.pipe = c.pipe /\ d.cpsr = c.cpsr /\ d.bus = c.bus /\ d.reg = c.reg
            /\ d.sequential = c.sequential
         /\ \A n \in Int : \A b :
            LET d == [c EXCEPT !.contents = n, !.booth = b] IN
            /\ Held(d) /\ d.pipe = c.pipe /\ d.cpsr = c.cpsr /\ d.bus = c.bus /\ d.reg = c.reg
            /\ d.sequential = c.sequential
         /\ LET d == Ended(c) IN
            /\ Held(d) /\ d.pipe = c.pipe /\ d.cpsr = c.cpsr /\ d.bus = c.bus /\ d.reg = c.reg
            /\ d.sequential = c.sequential
<1>1. HoldsWords(c)
  BY DEF Held
<1>2. ASSUME NEW d, d.bank = c.bank, d.reg = c.reg, d.cpsr = c.cpsr, d.bus = c.bus, d.contents \in Int,
             d.spsr = c.spsr, d.pSpsr = c.pSpsr, DOMAIN d = DOMAIN c
      PROVE  Held(d)
  BY <1>1, <1>2 DEF Held, HoldsWords
<1>3. c.contents \in Int
  BY <1>1 DEF HoldsWords
<1>4. LET d == [c EXCEPT !.conflict = 2] IN
      /\ d.bank = c.bank /\ d.reg = c.reg /\ d.pipe = c.pipe /\ d.cpsr = c.cpsr
      /\ d.bus = c.bus /\ d.contents = c.contents /\ d.sequential = c.sequential
      /\ d.spsr = c.spsr /\ d.pSpsr = c.pSpsr /\ DOMAIN d = DOMAIN c
  BY <1>1, FieldsAre
<1>5. LET d == Ended(c) IN
      /\ d.bank = c.bank /\ d.reg = c.reg /\ d.pipe = c.pipe /\ d.cpsr = c.cpsr
      /\ d.bus = c.bus /\ d.contents = 0 /\ d.sequential = c.sequential
      /\ d.spsr = c.spsr /\ d.pSpsr = c.pSpsr /\ DOMAIN d = DOMAIN c
  BY <1>1, FieldsAre DEF Ended
<1>6. ASSUME NEW n \in Int, NEW b
      PROVE  LET d == [c EXCEPT !.contents = n, !.booth = b] IN
             /\ d.bank = c.bank /\ d.reg = c.reg /\ d.pipe = c.pipe /\ d.cpsr = c.cpsr
             /\ d.bus = c.bus /\ d.contents = n /\ d.sequential = c.sequential
             /\ d.spsr = c.spsr /\ d.pSpsr = c.pSpsr /\ DOMAIN d = DOMAIN c
  BY <1>1, FieldsAre
<1>7. Held([c EXCEPT !.conflict = 2])
  BY <1>2, <1>3, <1>4, Zenon
<1>7a. Held(Ended(c))
  <2>1. 0 \in Int
    OBVIOUS
  <2>2. QED
    BY <2>1, <1>2, <1>5, Zenon
<1>8. ASSUME NEW n \in Int, NEW b PROVE Held([c EXCEPT !.contents = n, !.booth = b])
  BY <1>2, <1>6
<1>9. LET d == [c EXCEPT !.conflict = 2] IN
            /\ Held(d) /\ d.pipe = c.pipe /\ d.cpsr = c.cpsr /\ d.bus = c.bus /\ d.reg = c.reg
            /\ d.sequential = c.sequential
  BY <1>4, <1>7, Zenon
<1>10. ASSUME NEW n \in Int, NEW b
       PROVE LET d == [c EXCEPT !.contents = n, !.booth = b] IN
            /\ Held(d) /\ d.pipe = c.pipe /\ d.cpsr = c.cpsr /\ d.bus = c.bus /\ d.reg = c.reg
            /\ d.sequential = c.sequential
  BY <1>6, <1>8, Zenon
<1>11. LET d == Ended(c) IN
            /\ Held(d) /\ d.pipe = c.pipe /\ d.cpsr = c.cpsr /\ d.bus = c.bus /\ d.reg = c.reg
            /\ d.sequential = c.sequential
  BY <1>5, <1>7a, Zenon
<1>12. QED
  BY <1>9, <1>10, <1>11, Zenon

\* The remainder is the one number in its range that differs by a multiple.
LEMMA OneRemainder ==
  ASSUME NEW x \in Int, NEW k \in Int, NEW r \in Int, NEW S \in Nat, S > 0, 0 <= r, r < S,
         x = k * S + r
  PROVE  x % S = r
<1> DEFINE q == x \div S
           m == x % S
<1>1. q \in Int /\ m \in Int /\ 0 <= m /\ m < S /\ x = S * q + m
  OBVIOUS
<1> HIDE DEF q, m
<1>2. (k - q) * S = m - r
  BY <1>1
<1>3. k - q < 1
  <2>1. SUFFICES ASSUME k - q >= 1 PROVE FALSE
    BY <1>1
  <2>2. (k - q) * S >= 1 * S
    BY <1>1, <2>1
  <2>3. QED
    BY <1>1, <1>2, <2>2
<1>4. k - q > -1
  <2>1. SUFFICES ASSUME k - q <= -1 PROVE FALSE
    BY <1>1
  <2>2. (k - q) * S <= (-1) * S
    BY <1>1, <2>1
  <2>3. QED
    BY <1>1, <1>2, <2>2
<1>5. k = q
  BY <1>1, <1>3, <1>4
<1>6. QED
  BY <1>1, <1>5 DEF m

\* What wraps around and what does not.
LEMMA WrapIs ==
  /\ \A x \in Int : 0 <= x /\ x < Size => Wrap(x) = x
  /\ \A x \in Int : -Size <= x /\ x < 0 => Wrap(x) = x + Size
  /\ \A x \in Int : Size <= x /\ x < 2 * Size => Wrap(x) = x - Size
<1>1. Size \in Nat /\ Size > 0
  BY SizeIs
<1>2. ASSUME NEW x \in Int, 0 <= x, x < Size PROVE Wrap(x) = x
  BY <1>1, <1>2, OneRemainder, x = 0 * Size + x DEF Wrap
<1>3. ASSUME NEW x \in Int, -Size <= x, x < 0 PROVE Wrap(x) = x + Size
  <2>1. x + Size \in Int /\ 0 <= x + Size /\ x + Size < Size /\ x = (-1) * Size + (x + Size)
    BY <1>1, <1>3
  <2>2. QED
    BY <1>1, <2>1, OneRemainder DEF Wrap
<1>4. ASSUME NEW x \in Int, Size <= x, x < 2 * Size PROVE Wrap(x) = x - Size
  <2>1. x - Size \in Int /\ 0 <= x - Size /\ x - Size < Size /\ x = 1 * Size + (x - Size)
    BY <1>1, <1>4
  <2>2. QED
    BY <1>1, <2>1, OneRemainder DEF Wrap
<1>5. QED
  BY <1>2, <1>3, <1>4

\* The pc moves on and back by the same steps.
LEMMA StepsBack ==
  ASSUME NEW x \in Word, NEW w \in {2, 4}
  PROVE  /\ Wrap(Wrap(x + w) - w) = x
         /\ Wrap(Wrap(x + 2 * w) - 2 * w) = x
         /\ Wrap(Wrap(x + 2 * w) - w) = Wrap(x + w)
         /\ Wrap(Wrap(x + w) - 2 * w) = Wrap(x - w)
<1>1. Size \in Nat /\ Size >= 32 /\ x \in Nat /\ x < Size
  BY SizeIs, WordIs
<1>2. \A n \in 0 .. 8 : IF x + n < Size THEN Wrap(x + n) = x + n ELSE Wrap(x + n) = x + n - Size
  BY <1>1, WrapIs
<1>3. \A y \in Nat, n \in 0 .. 8 :
        y < Size => IF y >= n THEN Wrap(y - n) = y - n ELSE Wrap(y - n) = y - n + Size
  BY <1>1, WrapIs
<1>4. w \in 0 .. 8 /\ 2 * w \in 0 .. 8
  OBVIOUS
<1> DEFINE a == Wrap(x + w)
           b == Wrap(x + 2 * w)
<1>5. /\ a \in Nat /\ a < Size /\ (IF x + w < Size THEN a = x + w ELSE a = x + w - Size)
      /\ b \in Nat /\ b < Size /\ (IF x + 2 * w < Size THEN b = x + 2 * w ELSE b = x + 2 * w - Size)
  <2>1. IF x + w < Size THEN a = x + w ELSE a = x + w - Size
    BY <1>2, <1>4
  <2>2. IF x + 2 * w < Size THEN b = x + 2 * w ELSE b = x + 2 * w - Size
    BY <1>2, <1>4
  <2> HIDE DEF a, b
  <2>3. QED
    BY <2>1, <2>2, <1>1
<1> HIDE DEF a, b
<1>6. /\ IF a >= w THEN Wrap(a - w) = a - w ELSE Wrap(a - w) = a - w + Size
      /\ IF b >= 2 * w THEN Wrap(b - 2 * w) = b - 2 * w ELSE Wrap(b - 2 * w) = b - 2 * w + Size
      /\ IF b >= w THEN Wrap(b - w) = b - w ELSE Wrap(b - w) = b - w + Size
      /\ IF a >= 2 * w THEN Wrap(a - 2 * w) = a - 2 * w ELSE Wrap(a - 2 * w) = a - 2 * w + Size
      /\ IF x >= w THEN Wrap(x - w) = x - w ELSE Wrap(x - w) = x - w + Size
  BY <1>1, <1>3, <1>4, <1>5
<1>7. Wrap(a - w) = x
  BY <1>1, <1>4, <1>5, <1>6
<1>8. Wrap(b - 2 * w) = x
  BY <1>1, <1>4, <1>5, <1>6
<1>9. Wrap(b - w) = a
  BY <1>1, <1>4, <1>5, <1>6
<1>10. Wrap(a - 2 * w) = Wrap(x - w)
  BY <1>1, <1>4, <1>5, <1>6
<1>11. QED
  BY <1>7, <1>8, <1>9, <1>10 DEF a, b

\* The places that count are those of whole opcodes: the lowest bit of the pc
\* does not matter.
LEMMA LowBitIdle ==
  ASSUME NEW x \in Word, NEW thumb \in BOOLEAN, NEW w, w = IF thumb THEN 2 ELSE 4
  PROVE  /\ Fetched(Wrap(Aligned(x, 2) - w), thumb) = Fetched(Wrap(x - w), thumb)
         /\ Aligned(x, 2) \in Word
<1>1. Size \in Nat /\ Size >= 32 /\ Size % 32 = 0 /\ x \in Nat /\ x < Size
  BY SizeIs, WordIs
<1>2. PICK q \in Nat, e \in {0, 1} : x = 2 * q + e
  <2> DEFINE a == x \div 2
             b == x % 2
  <2>1. x \in Nat
    BY <1>1
  <2>2. x = 2 * a + b /\ a \in Nat /\ b \in {0, 1}
    BY <2>1
  <2> HIDE DEF a, b
  <2>3. QED
    BY <2>2
<1>3. Aligned(x, 2) = 2 * q
  BY <1>2 DEF Aligned
<1>4. PICK s \in Nat : Size = 2 * s
  BY SizeIs
<1>5. w \in {2, 4}
  OBVIOUS
<1>6. PICK v \in {1, 2} : w = 2 * v
  BY <1>5
<1>7. PICK h \in Nat : Wrap(2 * q - w) = 2 * h /\ Wrap(x - w) = 2 * h + e
  <2>1. CASE q >= v
    <3>1. Wrap(2 * q - w) = 2 * (q - v)
      <4>1. 2 * q - w \in Int /\ 0 <= 2 * q - w /\ 2 * q - w < Size /\ 2 * q - w = 2 * (q - v)
        BY <1>1, <1>2, <1>6, <2>1
      <4>2. QED
        BY <4>1, WrapIs
    <3>2. Wrap(x - w) = 2 * (q - v) + e
      <4>1. x - w \in Int /\ 0 <= x - w /\ x - w < Size /\ x - w = 2 * (q - v) + e
        BY <1>1, <1>2, <1>6, <2>1
      <4>2. QED
        BY <4>1, WrapIs
    <3>3. q - v \in Nat
      BY <2>1
    <3>4. QED
      BY <3>1, <3>2, <3>3
  <2>2. CASE q < v
    <3>1. Wrap(2 * q - w) = 2 * (q - v + s)
      <4>1. 2 * q - w \in Int /\ -Size <= 2 * q - w /\ 2 * q - w < 0 /\ 2 * q - w + Size = 2 * (q - v + s)
        BY <1>1, <1>2, <1>4, <1>6, <2>2
      <4>2. QED
        BY <4>1, WrapIs
    <3>2. Wrap(x - w) = 2 * (q - v + s) + e
      <4>1. x - w \in Int /\ -Size <= x - w /\ x - w < 0 /\ x - w + Size = 2 * (q - v + s) + e
        BY <1>1, <1>2, <1>4, <1>6, <2>2
      <4>2. QED
        BY <4>1, WrapIs
    <3>3. q - v + s \in Nat
      BY <1>1, <1>4, <2>2
    <3>4. QED
      BY <3>1, <3>2, <3>3
  <2>3. QED
    BY <2>1, <2>2, <1>6
<1>8. Aligned(2 * h, w) = Aligned(2 * h + e, w)
  <2>1. CASE w = 2
    <3>1. (2 * h) \div 2 = (2 * h + e) \div 2
      OBVIOUS
    <3>2. QED
      BY <2>1, <3>1 DEF Aligned
  <2>2. CASE w = 4
    <3>1. (2 * h) \div 4 = (2 * h + e) \div 4
      OBVIOUS
    <3>2. QED
      BY <2>2, <3>1 DEF Aligned
  <2>3. QED
    BY <1>5, <2>1, <2>2
<1>9. Aligned(x, 2) \in Word
  BY AlignedWord
<1>10. QED
  BY <1>3, <1>7, <1>8, <1>9 DEF Fetched

\* The distance between opcodes in each state.
Stride(thumb) == IF thumb THEN 2 ELSE 4

\* What the bus did last was to fetch the opcode behind the next one.
FetchedLast(c) ==
  LET last == c.bus[Len(c.bus)] IN
  c.bus # << >> /\ last.kind = "code" /\ last.at = c.pipe[2]

\* The CPU between two instructions: the inductive invariant.
Settled(c) ==
  /\ Held(c) /\ DOMAIN c.pipe = 1 .. 2 /\ Follows(c)
  /\ c.sequential => FetchedLast(c)

\* The CPU as a handler finds it, one opcode further.
Fed(c) ==
  /\ Held(c) /\ DOMAIN c.pipe = 1 .. 2
  /\ c.pipe[1].nop \/ c.pipe[1] = Fetched(Wrap(c.reg[15] - Stride(c.cpsr.t)), c.cpsr.t)
  /\ c.pipe[2] = Fetched(c.reg[15], c.cpsr.t)
  /\ FetchedLast(c)

\* What Held says, for where it is needed in pieces.
LEMMA HeldParts ==
  ASSUME NEW c, Held(c)
  PROVE  /\ c.cpsr.t \in BOOLEAN /\ c.cpsr.mode \in 0 .. 31 /\ HoldsMode(c.cpsr)
         /\ c.reg[15] \in Word /\ c.reg[15] \in Nat /\ 15 \in Register
         /\ \A r \in Register : c.reg[r] \in Word /\ c.reg[r] \in Nat
         /\ c.contents \in Int /\ c.pSpsr \in Bank /\ \A b \in Bank : HoldsMode(c.spsr[b])
<1>1. HoldsWords(c)
  BY DEF Held
<1>2. HoldsMode(c.cpsr)
  BY <1>1, Zenon DEF HoldsWords
<1>3. c.cpsr.t \in BOOLEAN /\ c.cpsr.mode \in 0 .. 31
  BY <1>2, Zenon DEF HoldsMode
<1>4. 15 \in Register
  BY DEF Register
<1>5. ASSUME NEW r \in Register PROVE c.reg[r] \in Word /\ c.reg[r] \in Nat
  <2>1. c.reg[r] \in Word
    BY GetRegWord
  <2>2. c.reg[r] \in Nat
    BY <2>1, WordIs, Zenon
  <2>3. QED
    BY <2>1, <2>2
<1>6. c.contents \in Int /\ c.pSpsr \in Bank /\ \A b \in Bank : HoldsMode(c.spsr[b])
  BY <1>1, Zenon DEF HoldsWords
<1>7. QED
  BY <1>2, <1>3, <1>4, <1>5, <1>6, Zenon

\* Opcodes are two or four bytes long.
LEMMA StrideIs ==
  ASSUME NEW thumb \in BOOLEAN
  PROVE  Stride(thumb) \in {2, 4} /\ Stride(thumb) \in Int
BY DEF Stride

\* What follows r15, with the length of an opcode by its name.
LEMMA FollowsIs ==
  ASSUME NEW c, c.cpsr.t \in BOOLEAN
  PROVE  Follows(c) <=>
           /\ c.pipe[1].nop \/ c.pipe[1] = Fetched(Wrap(c.reg[15] - 2 * Stride(c.cpsr.t)), c.cpsr.t)
           /\ c.pipe[2].nop \/ c.pipe[2] = Fetched(Wrap(c.reg[15] - Stride(c.cpsr.t)), c.cpsr.t)
<1> DEFINE w == Stride(c.cpsr.t)
           P(k) == c.pipe[k].nop \/ c.pipe[k] = Fetched(Wrap(c.reg[15] - (3 - k) * w), c.cpsr.t)
<1>1. w \in Int
  BY StrideIs
<1>2. Follows(c) <=> \A k \in 1 .. 2 : P(k)
  BY Zenon DEF Follows, Stride
<1>3. (\A k \in 1 .. 2 : P(k)) <=> P(1) /\ P(2)
  <2> HIDE DEF P
  <2>1. QED
    OBVIOUS
<1> HIDE DEF w
<1>4. (3 - 1) * w = 2 * w /\ (3 - 2) * w = w
  BY <1>1
<1>5. QED
  BY <1>2, <1>3, <1>4, Zenon DEF w

\* An instruction that moved the pc by itself, in the state it ran in, and
\* that marks the next access a sequential one only if the bus did nothing.
LEMMA SteppedSettles ==
  ASSUME NEW c, Fed(c), NEW d, Held(d), d.pipe = c.pipe, d.cpsr.t = c.cpsr.t,
         d.reg[15] = Wrap(c.reg[15] + Stride(c.cpsr.t)), d.sequential => d.bus = c.bus
  PROVE  Settled(d)
<1> DEFINE w == Stride(c.cpsr.t)
           x == c.reg[15]
<1>1. Held(c)
  BY DEF Fed
<1>2. c.cpsr.t \in BOOLEAN /\ x \in Word
  BY <1>1, HeldParts, Zenon
<1>3. w \in {2, 4}
  BY <1>2, StrideIs
<1>4. d.reg[15] = Wrap(x + w) /\ Wrap(Wrap(x + w) - w) = x /\ Wrap(Wrap(x + w) - 2 * w) = Wrap(x - w)
  BY <1>2, <1>3, StepsBack
<1>5. /\ d.pipe[1].nop \/ d.pipe[1] = Fetched(Wrap(x - w), c.cpsr.t)
      /\ d.pipe[2] = Fetched(x, c.cpsr.t) /\ FetchedLast(c) /\ DOMAIN d.pipe = 1 .. 2
  BY Zenon DEF Fed
<1> HIDE DEF w, x
<1>6. Follows(d)
  BY <1>2, <1>4, <1>5, FollowsIs DEF w
<1>7. d.sequential => FetchedLast(d)
  BY <1>5, Zenon DEF FetchedLast
<1>8. QED
  BY <1>5, <1>6, <1>7, Zenon DEF Settled

\* An access to the bus keeps words,
LEMMA TouchHeld ==
  ASSUME NEW c, Held(c), NEW k, NEW a, NEW v
  PROVE  Held(Touch(c, k, a, v))
<1>1. LET d == Touch(c, k, a, v) IN Held(d)
  BY TouchKeeps
<1>2. QED
  BY <1>1

\* and leaves registers, status and pipeline alone;
LEMMA TouchFields ==
  ASSUME NEW c, Held(c), NEW k, NEW a, NEW v
  PROVE  /\ Touch(c, k, a, v).cpsr = c.cpsr /\ Touch(c, k, a, v).reg = c.reg
         /\ Touch(c, k, a, v).pipe = c.pipe /\ Touch(c, k, a, v).sequential = c.sequential
<1>1. HoldsWords(c)
  BY DEF Held
<1>2. QED
  BY <1>1, FieldsAre DEF Touch

\* so does one for an opcode.
LEMMA CodeKeeps ==
  ASSUME NEW c, Held(c), NEW at, NEW thumb
  PROVE  /\ Held(Code(c, at, thumb))
         /\ Code(c, at, thumb).cpsr = c.cpsr /\ Code(c, at, thumb).reg = c.reg
<1>1. Held(Code(c, at, thumb))
  BY TouchHeld DEF Code
<1>2. Code(c, at, thumb).cpsr = c.cpsr
  BY TouchFields DEF Code
<1>3. Code(c, at, thumb).reg = c.reg
  BY TouchFields DEF Code
<1>4. QED
  BY <1>1, <1>2, <1>3

\* A handler that reloads the pipeline for the state the CPU is then in.
LEMMA ReloadSettles ==
  ASSUME NEW c, Held(c), NEW thumb \in BOOLEAN, c.cpsr.t = thumb
  PROVE  Settled(Reload(c, thumb))
<1> DEFINE w == Stride(thumb)
           x == c.reg[15]
           c0 == Code(c, x, thumb)
           c1 == Code(c0, Wrap(x + w), thumb)
           c2 == Advance(c1, 2 * w)
           p == <<Fetched(x, thumb), Fetched(Wrap(x + w), thumb)>>
           d == Reload(c, thumb)
<1>1. x \in Word /\ w \in {2, 4} /\ 2 * w \in Int
  BY HeldParts, StrideIs
<1>2. Held(c0) /\ c0.cpsr = c.cpsr /\ c0.reg = c.reg
  BY CodeKeeps, Zenon
<1>3. /\ Held(c1) /\ c1.cpsr = c.cpsr /\ c1.reg = c.reg /\ c1.bus # << >>
      /\ c1.bus[Len(c1.bus)] = [kind |-> "code", at |-> Fetched(Wrap(x + w), thumb), value |-> 0]
  <2> HIDE DEF c0, x, w
  <2>1. QED
    BY <1>2, TouchKeeps DEF Code
<1>4. Held(c2) /\ c2.cpsr = c.cpsr /\ c2.bus = c1.bus /\ c2.reg[15] = Wrap(x + 2 * w)
  <2> HIDE DEF c1, w
  <2>1. QED
    BY <1>1, <1>3, AdvanceKeeps, Zenon
<1>5. d = [c2 EXCEPT !.pipe = p, !.sequential = TRUE, !.latchIrqDisable = c.cpsr.i]
  BY Zenon DEF Reload, Stride
<1>6. /\ d.bank = c2.bank /\ d.reg = c2.reg /\ d.cpsr = c2.cpsr
      /\ d.bus = c2.bus /\ d.contents = c2.contents /\ d.pipe = p
      /\ d.spsr = c2.spsr /\ d.pSpsr = c2.pSpsr /\ DOMAIN d = DOMAIN c2
  <2> HIDE DEF c2, p, d
  <2>1. HoldsWords(c2)
    BY <1>4 DEF Held
  <2>2. QED
    BY <1>5, <2>1, FieldsAre
<1>7. Held(d)
  <2> HIDE DEF c2, d, p
  <2>1. HoldsWords(d)
    BY <1>4, <1>6 DEF Held, HoldsWords
  <2>2. QED
    BY <2>1, <1>4, <1>6 DEF Held
<1>8. /\ p[1] = Fetched(x, thumb) /\ p[2] = Fetched(Wrap(x + w), thumb) /\ DOMAIN p = 1 .. 2
  OBVIOUS
<1>9. Wrap(Wrap(x + 2 * w) - 2 * w) = x /\ Wrap(Wrap(x + 2 * w) - w) = Wrap(x + w)
  BY <1>1, StepsBack
<1>10. Follows(d)
  <2>1. d.cpsr.t = thumb /\ d.reg[15] = Wrap(x + 2 * w)
    BY <1>4, <1>6, Zenon
  <2> HIDE DEF d, p, x
  <2>2. /\ d.pipe[1] = Fetched(Wrap(d.reg[15] - 2 * w), thumb)
        /\ d.pipe[2] = Fetched(Wrap(d.reg[15] - w), thumb)
    BY <1>6, <1>8, <1>9, <2>1, Zenon
  <2>3. d.cpsr.t \in BOOLEAN
    BY <2>1, Zenon
  <2>4. QED
    BY <2>1, <2>2, <2>3, FollowsIs
<1>11. FetchedLast(d)
  <2> DEFINE e == [kind |-> "code", at |-> Fetched(Wrap(x + w), thumb), value |-> 0]
  <2>1. e.kind = "code" /\ e.at = Fetched(Wrap(x + w), thumb)
    OBVIOUS
  <2> HIDE DEF d, p, e, c1, c2, x, w
  <2>2. d.bus # << >> /\ d.bus[Len(d.bus)] = e
    BY <1>3, <1>4, <1>6, Zenon DEF e
  <2>3. QED
    BY <1>6, <1>8, <2>1, <2>2, Zenon DEF FetchedLast
<1>12. QED
  <2> HIDE DEF d, p
  <2>1. DOMAIN d.pipe = 1 .. 2
    BY <1>6, <1>8
  <2>2. QED
    BY <1>7, <1>10, <1>11, <2>1, Zenon DEF Settled, d

\* A jump to any word fetches what belongs before the new r15.
LEMMA JumpSettles ==
  ASSUME NEW c, Held(c), NEW at \in Word, NEW thumb \in BOOLEAN, c.cpsr.t = thumb
  PROVE  Settled(Jump(c, at, thumb))
<1>1. 15 \in Register
  BY DEF Register
<1>2. Held(PutReg(c, 15, at)) /\ PutReg(c, 15, at).cpsr = c.cpsr
  BY <1>1, PutRegKeeps, Zenon
<1>3. QED
  BY <1>2, ReloadSettles, Zenon DEF Jump

\* A register but the pc that is written last.
LEMMA PutSettles ==
  ASSUME NEW c, Settled(c), NEW r \in Register, NEW v \in Word, r # 15
  PROVE  Settled(PutReg(c, r, v))
<1> DEFINE d == PutReg(c, r, v)
<1>1. Held(c) /\ DOMAIN c.pipe = 1 .. 2 /\ Follows(c) /\ (c.sequential => FetchedLast(c))
  BY DEF Settled
<1>2. Held(d) /\ d.pipe = c.pipe /\ d.cpsr = c.cpsr /\ d.sequential = c.sequential
      /\ d.bus = c.bus /\ d.reg[15] = c.reg[15]
  BY <1>1, PutRegKeeps, Zenon
<1> HIDE DEF d
<1>3. Follows(d)
  BY <1>1, <1>2, Zenon DEF Follows
<1>4. d.sequential => FetchedLast(d)
  BY <1>1, <1>2, Zenon DEF FetchedLast
<1>5. QED
  BY <1>1, <1>2, <1>3, <1>4, Zenon DEF Settled, d

\* What Run does before it looks at the instruction.
LEMMA FetchFeeds ==
  ASSUME NEW c, Held(c), DOMAIN c.pipe = 1 .. 2, Follows(c)
  PROVE  /\ Fed(FetchedNext(c)) /\ FetchedNext(c).cpsr = c.cpsr
<1> DEFINE t == c.cpsr.t
           w == Stride(t)
           x == c.reg[15]
           y == Aligned(x, 2)
           c0 == PutReg(c, 15, y)
           c1 == [c EXCEPT !.latchIrqDisable = c.cpsr.i, !.reg[15] = Aligned(@, 2)]
           c2 == Code(c1, y, t)
           p == <<c.pipe[2], Fetched(y, t)>>
           d == FetchedNext(c)
<1>1. Held(c) /\ DOMAIN c.pipe = 1 .. 2 /\ Follows(c)
  OBVIOUS
<1>2. t \in BOOLEAN /\ x \in Word /\ 15 \in Register
  BY <1>1, HeldParts, Zenon
<1>3. /\ Fetched(Wrap(y - w), t) = Fetched(Wrap(x - w), t) /\ y \in Word
  BY <1>2, LowBitIdle, Zenon DEF Stride
<1>4. Held(c0) /\ c0.cpsr = c.cpsr /\ c0.pipe = c.pipe /\ c0.reg[15] = y /\ c0.bus = c.bus
  <2> HIDE DEF y
  <2>1. QED
    BY <1>1, <1>2, <1>3, PutRegKeeps
<1>5. c1 = [c0 EXCEPT !.latchIrqDisable = c.cpsr.i]
  <2>1. HoldsWords(c)
    BY <1>1 DEF Held
  <2>2. QED
    BY <2>1, FieldsAre DEF PutReg
<1>6. /\ c1.bank = c0.bank /\ c1.reg = c0.reg /\ c1.cpsr = c0.cpsr
      /\ c1.bus = c0.bus /\ c1.contents = c0.contents /\ c1.pipe = c0.pipe
      /\ c1.spsr = c0.spsr /\ c1.pSpsr = c0.pSpsr /\ DOMAIN c1 = DOMAIN c0
  <2> HIDE DEF c0, c1
  <2>1. HoldsWords(c0)
    BY <1>4 DEF Held
  <2>2. QED
    BY <1>5, <2>1, FieldsAre
<1>7. Held(c1)
  <2> HIDE DEF c0, c1
  <2>1. HoldsWords(c1)
    BY <1>4, <1>6 DEF Held, HoldsWords
  <2>2. QED
    BY <2>1, <1>4, <1>6 DEF Held
<1> DEFINE e == [kind |-> "code", at |-> Fetched(y, t), value |-> 0]
<1>8. /\ Held(c2) /\ c2.cpsr = c.cpsr /\ c2.reg[15] = y /\ c2.pipe = c.pipe
      /\ c2.bus # << >> /\ c2.bus[Len(c2.bus)] = e
  <2> HIDE DEF c0, c1, y, t
  <2>1. QED
    BY <1>4, <1>6, <1>7, TouchKeeps DEF Code
<1>9. d = [c2 EXCEPT !.pipe = p]
  <2>1. c1.reg[15] = y
    BY <1>4, <1>6, Zenon
  <2>2. d = [Code(c1, c1.reg[15], t) EXCEPT !.pipe = <<c.pipe[2], Fetched(c1.reg[15], t)>>]
    BY Zenon DEF FetchedNext
  <2> HIDE DEF c1, y, t, d
  <2>3. QED
    BY <2>1, <2>2, Zenon
<1>10. /\ d.bank = c2.bank /\ d.reg = c2.reg /\ d.cpsr = c2.cpsr
      /\ d.bus = c2.bus /\ d.contents = c2.contents /\ d.pipe = p
      /\ d.spsr = c2.spsr /\ d.pSpsr = c2.pSpsr /\ DOMAIN d = DOMAIN c2
  <2> HIDE DEF c2, p, d
  <2>1. HoldsWords(c2)
    BY <1>8 DEF Held
  <2>2. QED
    BY <1>9, <2>1, FieldsAre
<1>11. Held(d)
  <2> HIDE DEF c2, d, p
  <2>1. HoldsWords(d)
    BY <1>8, <1>10 DEF Held, HoldsWords
  <2>2. QED
    BY <2>1, <1>8, <1>10 DEF Held
<1>12. p[1] = c.pipe[2] /\ p[2] = Fetched(y, t) /\ DOMAIN p = 1 .. 2
  OBVIOUS
<1>13. e.kind = "code" /\ e.at = Fetched(y, t)
  OBVIOUS
<1>14. c.pipe[2].nop \/ c.pipe[2] = Fetched(Wrap(x - w), t)
  BY <1>1, <1>2, FollowsIs
<1>15. FetchedLast(d)
  <2> HIDE DEF d, p, e, c1, c2, x, w, y, t
  <2>1. QED
    BY <1>8, <1>10, <1>12, <1>13, Zenon DEF FetchedLast
<1>16. QED
  <2>1. d.cpsr.t = t /\ d.reg[15] = y /\ d.cpsr = c.cpsr
    BY <1>8, <1>10, Zenon
  <2> HIDE DEF d, p, e, c1, c2, x, w, y, t
  <2>2. d.pipe[1].nop \/ d.pipe[1] = Fetched(Wrap(d.reg[15] - Stride(d.cpsr.t)), d.cpsr.t)
    BY <1>3, <1>10, <1>12, <1>14, <2>1, Zenon DEF w
  <2>3. d.pipe[2] = Fetched(d.reg[15], d.cpsr.t) /\ DOMAIN d.pipe = 1 .. 2
    BY <1>10, <1>12, <2>1, Zenon
  <2>4. QED
    BY <1>11, <1>15, <2>1, <2>2, <2>3, Zenon DEF Fed, d

\* d is c but for registers other than the pc, banks, modes and flags.
Alike(c, d) ==
  /\ Held(d) /\ d.pipe = c.pipe /\ d.cpsr.t = c.cpsr.t /\ d.reg[15] = c.reg[15]
  /\ d.bus = c.bus /\ d.sequential = c.sequential

\* d is c moved on by an instruction; and one that used the bus, and says so.
Done(c, d) ==
  /\ Held(d) /\ d.pipe = c.pipe /\ d.cpsr.t = c.cpsr.t
  /\ d.reg[15] = Wrap(c.reg[15] + Stride(c.cpsr.t))
  /\ d.sequential => d.bus = c.bus
Busied(c, d) ==
  /\ Held(d) /\ d.pipe = c.pipe /\ d.cpsr.t = c.cpsr.t
  /\ d.reg[15] = Wrap(c.reg[15] + Stride(c.cpsr.t))
  /\ d.sequential = FALSE

\* What the three relations keep: words and the state of the CPU.
LEMMA AlikeHeld ==
  ASSUME NEW c, NEW d, Alike(c, d)
  PROVE  Held(d) /\ d.cpsr.t = c.cpsr.t /\ d.reg[15] = c.reg[15]
BY Zenon DEF Alike

\* The same of a handler that is done,
LEMMA DoneHeld ==
  ASSUME NEW c, NEW d, Done(c, d)
  PROVE  Held(d) /\ d.cpsr.t = c.cpsr.t
BY Zenon DEF Done

\* and of one that used the bus.
LEMMA BusiedHeld ==
  ASSUME NEW c, NEW d, Busied(c, d)
  PROVE  Held(d) /\ d.cpsr.t = c.cpsr.t
BY Zenon DEF Busied

\* A CPU is like itself.
LEMMA AlikeSelf ==
  ASSUME NEW c, Held(c)
  PROVE  Alike(c, c)
BY Zenon DEF Alike

\* The relations go on through changes that leave the CPU alike.
LEMMA AlikeOn ==
  ASSUME NEW c, NEW d, NEW e, Alike(d, e)
  PROVE  /\ Alike(c, d) => Alike(c, e)
         /\ Done(c, d) => Done(c, e)
         /\ Busied(c, d) => Busied(c, e)
<1>1. Alike(c, d) => Alike(c, e)
  BY Zenon DEF Alike
<1>2. Done(c, d) => Done(c, e)
  BY Zenon DEF Alike, Done
<1>3. Busied(c, d) => Busied(c, e)
  BY Zenon DEF Alike, Busied
<1>4. QED
  BY <1>1, <1>2, <1>3, Zenon

\* A handler that used the bus and moved on is done as well.
LEMMA BusiedIsDone ==
  ASSUME NEW c, NEW d, Busied(c, d)
  PROVE  Done(c, d)
BY Zenon DEF Busied, Done

\* Once a handler is done the pipeline is in order for the next instruction.
LEMMA DoneSettles ==
  ASSUME NEW c, Fed(c), NEW d, Done(c, d)
  PROVE  Settled(d)
<1>1. Held(d) /\ d.pipe = c.pipe /\ d.cpsr.t = c.cpsr.t
      /\ d.reg[15] = Wrap(c.reg[15] + Stride(c.cpsr.t)) /\ (d.sequential => d.bus = c.bus)
  BY Zenon DEF Done
<1>2. QED
  BY <1>1, SteppedSettles, Zenon

\* The operators that leave the pc and the bus alone.
LEMMA FlagsAlike ==
  ASSUME NEW c, Held(c), NEW a
  PROVE  Alike(c, SetFlags(c, a))
<1> DEFINE d == SetFlags(c, a)
<1>1. Held(d) /\ d.pipe = c.pipe /\ d.cpsr.t = c.cpsr.t /\ d.reg = c.reg
      /\ d.bus = c.bus /\ d.sequential = c.sequential
  BY FlagsKeep, Zenon
<1> HIDE DEF d
<1>2. QED
  BY <1>1, Zenon DEF Alike, d

\* Setting a register other than r15 leaves the CPU alike,
LEMMA SetAlike ==
  ASSUME NEW c, Held(c), NEW r \in Register, NEW v \in Word
  PROVE  /\ Held(SetReg(c, r, v)) /\ SetReg(c, r, v).cpsr.t = c.cpsr.t
         /\ r # 15 => Alike(c, SetReg(c, r, v))
<1> DEFINE d == SetReg(c, r, v)
<1>1. Held(d) /\ d.pipe = c.pipe /\ d.cpsr = c.cpsr /\ (r # 15 => d.reg[15] = c.reg[15])
      /\ d.bus = c.bus /\ d.sequential = c.sequential
  BY SetRegKeeps, Zenon
<1> HIDE DEF d
<1>2. QED
  BY <1>1, Zenon DEF Alike, d

\* without the window too;
LEMMA PutAlike ==
  ASSUME NEW c, Held(c), NEW r \in Register, NEW v \in Word
  PROVE  /\ Held(PutReg(c, r, v)) /\ PutReg(c, r, v).cpsr.t = c.cpsr.t
         /\ r # 15 => Alike(c, PutReg(c, r, v))
<1> DEFINE d == PutReg(c, r, v)
<1>1. Held(d) /\ d.pipe = c.pipe /\ d.cpsr = c.cpsr /\ (r # 15 => d.reg[15] = c.reg[15])
      /\ d.bus = c.bus /\ d.sequential = c.sequential
  BY PutRegKeeps, Zenon
<1> HIDE DEF d
<1>2. QED
  BY <1>1, Zenon DEF Alike, d

\* so does a change of mode
LEMMA SwitchAlike ==
  ASSUME NEW c, Held(c), NEW mode \in 0 .. 31
  PROVE  Alike(c, SwitchMode(c, mode))
<1> DEFINE d == SwitchMode(c, mode)
<1>1. Held(d) /\ d.pipe = c.pipe /\ d.cpsr = [c.cpsr EXCEPT !.mode = mode] /\ d.reg[15] = c.reg[15]
      /\ d.bus = c.bus /\ d.sequential = c.sequential
  BY SwitchKeeps, Zenon
<1>2. DOMAIN c.cpsr = {"mode", "t", "f", "i", "n", "z", "c", "v"}
  BY HeldParts, PSRFields DEF HoldsMode
<1> HIDE DEF d
<1>3. d.cpsr.t = c.cpsr.t
  BY <1>1, <1>2
<1>4. QED
  BY <1>1, <1>3, Zenon DEF Alike, d

\* and the opening of the user-bank window.
LEMMA ConflictAlike ==
  ASSUME NEW c, Held(c)
  PROVE  Alike(c, [c EXCEPT !.conflict = 2])
<1> DEFINE d == [c EXCEPT !.conflict = 2]
<1>1. Held(d) /\ d.pipe = c.pipe /\ d.cpsr = c.cpsr /\ d.reg = c.reg
      /\ d.bus = c.bus /\ d.sequential = c.sequential
  BY BesidesKeep, Zenon
<1> HIDE DEF d
<1>2. QED
  BY <1>1, Zenon DEF Alike, d

\* The access after an instruction that left the bus alone, and after the others.
LEMMA StepDone ==
  ASSUME NEW c, NEW d, Alike(c, d), NEW n, n = Stride(c.cpsr.t), n \in Int
  PROVE  Done(c, Advance(Sequential(d), n))
<1> DEFINE e == Sequential(d)
           f == Advance(e, n)
<1>1. Held(d) /\ d.pipe = c.pipe /\ d.cpsr.t = c.cpsr.t /\ d.reg[15] = c.reg[15] /\ d.bus = c.bus
  BY Zenon DEF Alike
<1>2. Held(e) /\ e.pipe = d.pipe /\ e.cpsr = d.cpsr /\ e.reg = d.reg /\ e.bus = d.bus
  BY <1>1, SequenceKeeps, Zenon
<1>3. Held(f) /\ f.pipe = e.pipe /\ f.cpsr = e.cpsr /\ f.bus = e.bus /\ f.reg[15] = Wrap(e.reg[15] + n)
  <2> HIDE DEF e
  <2>1. QED
    BY <1>2, AdvanceKeeps, Zenon
<1> HIDE DEF e, f
<1>4. QED
  BY <1>1, <1>2, <1>3, Zenon DEF Done, e, f

\* With r15 moved on the same is one that used the bus,
LEMMA StepBusied ==
  ASSUME NEW c, NEW d, Alike(c, d), NEW n, n = Stride(c.cpsr.t), n \in Int
  PROVE  Busied(c, Advance(Nonsequential(d), n))
<1> DEFINE e == Nonsequential(d)
           f == Advance(e, n)
<1>1. Held(d) /\ d.pipe = c.pipe /\ d.cpsr.t = c.cpsr.t /\ d.reg[15] = c.reg[15]
  BY Zenon DEF Alike
<1>2. Held(e) /\ e.pipe = d.pipe /\ e.cpsr = d.cpsr /\ e.reg = d.reg /\ e.sequential = FALSE
  BY <1>1, SequenceKeeps, Zenon
<1>3. Held(f) /\ f.pipe = e.pipe /\ f.cpsr = e.cpsr /\ f.sequential = e.sequential
      /\ f.reg[15] = Wrap(e.reg[15] + n)
  <2> HIDE DEF e
  <2>1. QED
    BY <1>2, AdvanceKeeps, Zenon
<1> HIDE DEF e, f
<1>4. QED
  BY <1>1, <1>2, <1>3, Zenon DEF Busied, e, f

\* and it remains so with each access,
LEMMA TouchBusied ==
  ASSUME NEW c, NEW d, Busied(c, d), NEW k, NEW a, NEW v
  PROVE  Busied(c, Touch(d, k, a, v))
<1> DEFINE e == Touch(d, k, a, v)
<1>1. Held(d) /\ d.pipe = c.pipe /\ d.cpsr.t = c.cpsr.t
      /\ d.reg[15] = Wrap(c.reg[15] + Stride(c.cpsr.t)) /\ d.sequential = FALSE
  BY Zenon DEF Busied
<1>2. Held(e)
  BY <1>1, TouchHeld, Zenon
<1>3. e.cpsr = d.cpsr /\ e.reg = d.reg /\ e.pipe = d.pipe /\ e.sequential = d.sequential
  BY <1>1, TouchFields
<1> HIDE DEF e
<1>4. QED
  BY <1>1, <1>2, <1>3, Zenon DEF Busied, e

\* be it an idle cycle, a read or a write.
LEMMA AccessBusied ==
  ASSUME NEW c, NEW d, Busied(c, d), NEW k, NEW a, NEW v
  PROVE  Busied(c, Idle(d)) /\ Busied(c, Read(d, k, a)) /\ Busied(c, Write(d, a, v))
BY TouchBusied, Zenon DEF Idle, Read, Write

\* What memory gives is a word, however narrow and wherever it lies.
LEMMA ReadWord ==
  ASSUME NEW c, Held(c), NEW kind \in LoadKind, NEW at \in Word
  PROVE  ReadAs(c, kind, at) \in Word
<1>1. at \in Nat /\ c.contents \in Int
  <2>1. at \in Nat
    BY WordIs, Zenon
  <2>2. QED
    BY <2>1, HeldParts, Zenon
<1>2. Aligned(at, 4) \in Nat
  BY AlignedWord
<1>3. c.contents + Aligned(at, 4) \in Int
  BY <1>1, <1>2
<1>4. Contents(c, at) \in Word
  BY <1>3, WrapWord, Zenon DEF Contents
<1>5. QED
  BY <1>1, <1>4, LoadedWord, Zenon DEF ReadAs

\* A status register fits a word, and a word holds a status register.
LEMMA StatusWord ==
  ASSUME NEW p, HoldsMode(p)
  PROVE  PSRWord(p) \in Word
<1> DEFINE S == {StatusBits[b] : b \in {x \in DOMAIN StatusBits : p[x]}}
           o == OfBits(S)
<1>1. S \cap (0 .. 4) = {}
  <2>1. ASSUME NEW b \in DOMAIN StatusBits PROVE StatusBits[b] \notin 0 .. 4
    BY WidthAssumption DEF StatusBits
  <2>2. QED
    BY <2>1
<1>2. o \in Word /\ o % 32 = 0
  BY <1>1, OfBitsWord, Zenon
<1>3. PSRWord(p) = p.mode + o
  BY DEF PSRWord
<1>4. p.mode \in 0 .. 31
  BY Zenon DEF HoldsMode
<1> DEFINE m == p.mode
<1> HIDE DEF o, m
<1>5. o \in Nat /\ o < Size /\ Size \in Nat
  <2>1. o \in Nat /\ o < Size
    BY <1>2, WordIs, Zenon
  <2>2. QED
    BY <2>1, SizeIs
<1>6. PICK k \in Nat : o = 32 * k
  BY <1>2, <1>5
<1>7. PICK n \in Nat : Size = 32 * n
  <2>1. Size % 32 = 0
    BY SizeIs
  <2>2. QED
    BY <2>1, <1>5
<1>8. m + o \in Nat /\ m + o < Size
  BY <1>4, <1>5, <1>6, <1>7 DEF m
<1>9. QED
  BY <1>3, <1>8, WordIs, Zenon DEF m

\* Any number names the fields of a status register, as MSR stores it.
LEMMA WordStatus ==
  ASSUME NEW w \in Int
  PROVE  HoldsMode(WordPSR(w))
<1> DEFINE q == WordPSR(w)
<1>1. DOMAIN q = DOMAIN ZeroPSR
  BY DEF WordPSR
<1>2. q.mode = w % 32
  BY PSRFields DEF WordPSR
<1>3. q.mode \in 0 .. 31
  BY <1>2
<1>4. q.t = Bit(w, StatusBits["t"])
  BY PSRFields, Zenon DEF WordPSR
<1>5. Bit(w, StatusBits["t"]) \in BOOLEAN
  BY Zenon DEF Bit
<1> HIDE DEF q
<1>6. HoldsMode(q)
  BY <1>1, <1>3, <1>4, <1>5, Zenon DEF HoldsMode
<1>7. QED
  BY <1>6, Zenon DEF q

\* Modes of four bits stand for those of five.
LEMMA RealMode ==
  ASSUME NEW p, HoldsMode(p)
  PROVE  HoldsMode([p EXCEPT !.mode = IF @ \div 16 = 1 THEN @ ELSE @ + 16])
<1> DEFINE m == IF p.mode \div 16 = 1 THEN p.mode ELSE p.mode + 16
           q == [p EXCEPT !.mode = m]
<1>1. DOMAIN p = DOMAIN ZeroPSR /\ p.t \in BOOLEAN /\ p.mode \in 0 .. 31
  BY Zenon DEF HoldsMode
<1>2. m \in 0 .. 31
  BY <1>1
<1>3. DOMAIN p = {"mode", "t", "f", "i", "n", "z", "c", "v"}
  BY <1>1, PSRFields, Zenon
<1> HIDE DEF m
<1>4. DOMAIN q = DOMAIN p /\ q.mode = m /\ q.t = p.t
  BY <1>3
<1> HIDE DEF q
<1>5. HoldsMode(q)
  BY <1>1, <1>2, <1>4, Zenon DEF HoldsMode
<1>6. QED
  BY <1>5, Zenon DEF q, m

\* The saved status of the mode, or the current one where there is none, is
\* one.
LEMMA SPSRHolds ==
  ASSUME NEW c, Held(c)
  PROVE  HoldsMode(GetSPSR(c))
<1> DEFINE p == IF c.pSpsr = "none" THEN c.cpsr ELSE c.spsr[c.pSpsr]
           q == [p EXCEPT !.mode = IF @ \div 16 = 1 THEN @ ELSE @ + 16]
<1>1. HoldsMode(p)
  BY HeldParts, Zenon
<1>2. HoldsMode(q)
  <2> HIDE DEF p
  <2>1. QED
    BY <1>1, RealMode, Zenon
<1>3. HoldsMode(PSROr(q, c.cpsr))
  <2> HIDE DEF q
  <2>1. Or(PSRWord(q), PSRWord(c.cpsr)) \in Word
    BY BitwiseWord
  <2>2. Or(PSRWord(q), PSRWord(c.cpsr)) \in Int
    <3>1. Or(PSRWord(q), PSRWord(c.cpsr)) \in Nat
      BY <2>1, WordIs, Zenon
    <3>2. QED
      BY <3>1
  <2>3. QED
    BY <2>2, WordStatus, Zenon DEF PSROr
<1>4. GetSPSR(c) = IF ldmUsermode(c) THEN PSROr(q, c.cpsr) ELSE q
  BY Zenon DEF GetSPSR
<1>5. QED
  <2> HIDE DEF q
  <2>1. QED
    BY <1>2, <1>3, <1>4, Zenon

\* A return from an exception leaves a CPU that a reload settles.
LEMMA RestoreHeld ==
  ASSUME NEW c, Held(c)
  PROVE  Held(RestorePSR(c))
<1> DEFINE p == GetSPSR(c)
           d == SwitchMode(c, p.mode)
<1>1. HoldsMode(p) /\ p.mode \in 0 .. 31
  BY SPSRHolds, Zenon DEF HoldsMode
<1>2. Held(d)
  <2> HIDE DEF p
  <2>1. Alike(c, d)
    BY <1>1, SwitchAlike, Zenon
  <2>2. QED
    BY <2>1, AlikeHeld, Zenon
<1>3. Held([d EXCEPT !.cpsr = p])
  <2> HIDE DEF d, p
  <2>1. QED
    BY <1>1, <1>2, StatusKeeps, Zenon
<1>4. QED
  BY <1>3, Zenon DEF RestorePSR

\* The entry to an exception.
LEMMA EnterAlike ==
  ASSUME NEW c, Held(c), NEW name \in {"svc", "irq", "und"}
  PROVE  Alike(c, Enter(c, name))
<1> DEFINE c1 == [c EXCEPT !.spsr[name] = c.cpsr]
           c2 == SwitchMode(c1, ModeNumber[name])
           c3 == [c2 EXCEPT !.cpsr.i = TRUE]
<1>1. name \in Bank /\ ModeNumber[name] \in 0 .. 31
  <2>1. name \in Bank
    BY DEF Bank
  <2>2. name \in DOMAIN ModeNumber
    BY ModesAre
  <2>3. QED
    BY <2>1, <2>2, ModesAre, Zenon
<1>2. HoldsMode(c.cpsr)
  BY HeldParts, Zenon
<1>3. /\ Held(c1) /\ c1.pipe = c.pipe /\ c1.cpsr = c.cpsr /\ c1.bus = c.bus /\ c1.reg = c.reg
      /\ c1.sequential = c.sequential
  BY <1>1, <1>2, SavedStatusKeeps, Zenon
<1>4. Alike(c, c1)
  <2> HIDE DEF c1
  <2>1. QED
    BY <1>3, Zenon DEF Alike
<1>5. Alike(c1, c2) /\ Held(c2)
  <2> HIDE DEF c1
  <2>1. Alike(c1, c2)
    BY <1>1, <1>3, SwitchAlike, Zenon
  <2>2. QED
    BY <2>1, AlikeHeld, Zenon
<1>6. Alike(c2, c3)
  <2> HIDE DEF c2
  <2>1. /\ Held(c3) /\ c3.pipe = c2.pipe /\ c3.cpsr.t = c2.cpsr.t /\ c3.bus = c2.bus
        /\ c3.reg = c2.reg /\ c3.sequential = c2.sequential
    BY <1>5, MaskKeeps, Zenon
  <2> HIDE DEF c3
  <2>2. QED
    BY <2>1, Zenon DEF Alike
<1>7. c3 = Enter(c, name)
  BY Zenon DEF Enter
<1> HIDE DEF c1, c2, c3
<1>8. QED
  BY <1>4, <1>5, <1>6, <1>7, AlikeOn, Zenon

\* A jump to a fixed place, as the exceptions make it.
LEMMA VectorSettles ==
  ASSUME NEW c, Held(c), NEW link \in Word, NEW at \in {4, 8, 24}
  PROVE  /\ c.cpsr.t = FALSE => Settled(Jump(SetReg(c, 14, link), at, FALSE))
         /\ c.cpsr.t = FALSE => Settled(Jump(PutReg(c, 14, link), at, FALSE))
         /\ Settled(Jump(SetReg([c EXCEPT !.cpsr.t = FALSE], 14, link), at, FALSE))
         /\ Settled(Jump(PutReg([c EXCEPT !.cpsr.t = FALSE], 14, link), at, FALSE))
<1>1. at \in Word
  BY WordIs
<1>2. 14 \in Register
  BY DEF Register
<1>3. FALSE \in BOOLEAN
  OBVIOUS
<1>4. ASSUME NEW d, Held(d), d.cpsr.t = FALSE
      PROVE  Settled(Jump(SetReg(d, 14, link), at, FALSE)) /\ Settled(Jump(PutReg(d, 14, link), at, FALSE))
  <2>1. /\ Held(SetReg(d, 14, link)) /\ SetReg(d, 14, link).cpsr.t = FALSE
    BY <1>2, <1>4, SetAlike, Zenon
  <2>2. /\ Held(PutReg(d, 14, link)) /\ PutReg(d, 14, link).cpsr.t = FALSE
    BY <1>2, <1>4, PutAlike, Zenon
  <2>3. QED
    BY <1>1, <1>3, <2>1, <2>2, JumpSettles, Zenon
<1>5. Held([c EXCEPT !.cpsr.t = FALSE]) /\ [c EXCEPT !.cpsr.t = FALSE].cpsr.t = FALSE
  BY <1>3, ThumbKeeps, Zenon
<1>6. QED
  BY <1>4, <1>5, Zenon

\* The operands and the results of the instructions that compute.
LEMMA LogicalValue ==
  ASSUME NEW r, NEW carry, NEW overflow
  PROVE  Logical(r, carry, overflow).value = r
BY DEF Logical

\* Every operation of the data-processing instructions results in a word.
LEMMA ComputedIsWord ==
  ASSUME NEW code \in Tests \cup {"AND", "EOR", "SUB", "RSB", "ADD", "ADC", "SBC", "RSC",
                                   "ORR", "MOV", "BIC", "MVN"},
         NEW a \in Word, NEW b \in Word, NEW carry, NEW p
  PROVE  Computed(code, a, b, carry, p).value \in Word
<1> DEFINE borrow == IF p.c THEN 0 ELSE 1
           r == Computed(code, a, b, carry, p)
           L(x) == Logical(x, carry, p.v)
<1>1. a \in Int /\ b \in Int
  <2>1. a \in Nat /\ b \in Nat
    BY WordIs, Zenon
  <2>2. QED
    BY <2>1
<1>2. borrow \in Int /\ 1 - borrow \in Int /\ 0 \in Int
  OBVIOUS
<1> HIDE DEF borrow
<1>3. \A x \in Int : /\ Added(a, b, x).value \in Word /\ Subtracted(a, b, x).value \in Word
                     /\ Subtracted(b, a, x).value \in Word
  BY <1>1, ComputedWord
<1>4. /\ And(a, b) \in Word /\ Xor(a, b) \in Word /\ Or(a, b) \in Word /\ And(a, Not(b)) \in Word
      /\ Not(b) \in Word
  BY BitwiseWord, NotWord
<1>5. code \in {"SUB", "CMP"} => r = Subtracted(a, b, 0)
  BY Zenon DEF Computed
<1>6. code = "RSB" => r = Subtracted(b, a, 0)
  BY Zenon DEF Computed
<1>7. code \in {"ADD", "CMN"} => r = Added(a, b, 0)
  BY Zenon DEF Computed
<1>8. code = "ADC" => r = Added(a, b, 1 - borrow)
  BY Zenon DEF Computed, borrow
<1>9. code = "SBC" => r = Subtracted(a, b, borrow)
  BY Zenon DEF Computed, borrow
<1>10. code = "RSC" => r = Subtracted(b, a, borrow)
  BY Zenon DEF Computed, borrow
<1>11. code \in {"AND", "TST"} => r = L(And(a, b))
  BY Zenon DEF Computed
<1>12. code \in {"EOR", "TEQ"} => r = L(Xor(a, b))
  BY Zenon DEF Computed
<1>13. code = "ORR" => r = L(Or(a, b))
  BY Zenon DEF Computed
<1>14. code = "BIC" => r = L(And(a, Not(b)))
  BY Zenon DEF Computed
<1>15. code = "MOV" => r = L(b)
  BY Zenon DEF Computed
<1>16. code = "MVN" => r = L(Not(b))
  BY Zenon DEF Computed
<1>17. ASSUME NEW x \in Word PROVE L(x).value \in Word
  BY LogicalValue
<1>18. code \in {"SUB", "CMP", "RSB", "ADD", "CMN", "ADC", "SBC", "RSC", "AND", "TST", "EOR", "TEQ",
                 "ORR", "BIC", "MOV", "MVN"}
  BY DEF Tests
<1> HIDE DEF r, L
<1>19. r.value \in Word
  BY <1>2, <1>3, <1>4, <1>5, <1>6, <1>7, <1>8, <1>9, <1>10, <1>11, <1>12, <1>13, <1>14, <1>15,
     <1>16, <1>17, <1>18, Zenon
<1>20. QED
  BY <1>19, Zenon DEF r

\* Every shifted operand is a word.
LEMMA ShiftedIsWord ==
  ASSUME NEW c, Held(c), NEW kinds, NEW s, Operand(s, kinds), NEW amount \in Nat
  PROVE  Shifted(c, s, amount).value \in Word
<1>1. CASE s.kind = "immediate"
  <2>1. Shifted(c, s, amount) = Immediate(s.value, s.rot, c.cpsr.c)
    BY <1>1, Zenon DEF Shifted
  <2>2. s.value \in Word /\ s.rot \in 0 .. Width - 1
    BY <1>1, Zenon DEF Operand
  <2>3. QED
    BY <2>1, <2>2, ImmediateWord, Zenon
<1>2. CASE s.kind # "immediate"
  <2> DEFINE immediate == s.kind = "amount"
             carry == c.cpsr.c
  <2>1. Shifted(c, s, amount) = DoShift(s.type, GetReg(c, s.rm), amount, carry, immediate)
    BY <1>2, Zenon DEF Shifted
  <2> HIDE DEF immediate, carry
  <2>2. s.rm \in Register /\ s.type \in ShiftKind
    BY <1>2, Zenon DEF Operand
  <2>3. GetReg(c, s.rm) \in Word
    BY <2>2, GetRegWord, Zenon
  <2>4. QED
    BY <2>1, <2>2, <2>3, ShiftWord, Zenon
<1>3. QED
  BY <1>1, <1>2

\* An ARM instruction: the CPU in that state, as its handler finds it.
InArm(c) == Fed(c) /\ c.cpsr.t = FALSE

\* What a handler of the ARM state starts from.
LEMMA InArmIs ==
  ASSUME NEW c, InArm(c)
  PROVE  /\ Fed(c) /\ Held(c) /\ c.cpsr.t = FALSE /\ FALSE \in BOOLEAN
         /\ Alike(c, c) /\ Stride(c.cpsr.t) = 4 /\ 4 \in Int
         /\ Done(c, Advance(Sequential(c), 4)) /\ Busied(c, Advance(Nonsequential(c), 4))
<1>1. Fed(c) /\ c.cpsr.t = FALSE /\ FALSE \in BOOLEAN
  BY Zenon DEF InArm
<1>2. Held(c)
  BY <1>1, Zenon DEF Fed
<1>3. Alike(c, c)
  BY <1>2, AlikeSelf, Zenon
<1>4. Stride(c.cpsr.t) = 4
  BY <1>1, Zenon DEF Stride
<1>5. 4 \in Int
  OBVIOUS
<1>6. Done(c, Advance(Sequential(c), 4)) /\ Busied(c, Advance(Nonsequential(c), 4))
  BY <1>3, <1>4, <1>5, StepDone, StepBusied, Zenon
<1>7. QED
  BY <1>1, <1>2, <1>3, <1>4, <1>5, <1>6, Zenon

\* The pc moved on before the bus is told, and told before the pc moves.
LEMMA StepFirst ==
  ASSUME NEW c, InArm(c)
  PROVE  /\ Busied(c, Nonsequential(Idle(Advance(c, 4))))
         /\ \A d : Alike(Sequential(c), d) => Done(c, Advance(d, 4))
<1>1. Held(c) /\ Stride(c.cpsr.t) = 4 /\ 4 \in Int
  BY InArmIs, Zenon
<1> DEFINE d == Advance(c, 4)
           e == Idle(d)
           f == Nonsequential(e)
           g == Sequential(c)
<1>2. Held(d) /\ d.pipe = c.pipe /\ d.cpsr = c.cpsr /\ d.reg[15] = Wrap(c.reg[15] + 4)
  BY <1>1, AdvanceKeeps, Zenon
<1>3. Held(e)
  <2> HIDE DEF d
  <2>1. QED
    BY <1>2, TouchHeld, Zenon DEF Idle
<1>4. e.pipe = d.pipe /\ e.cpsr = d.cpsr /\ e.reg = d.reg
  <2> HIDE DEF d
  <2>1. QED
    BY <1>2, TouchFields DEF Idle
<1>5. Held(f) /\ f.pipe = e.pipe /\ f.cpsr = e.cpsr /\ f.reg = e.reg /\ f.sequential = FALSE
  <2> HIDE DEF e
  <2>1. QED
    BY <1>3, SequenceKeeps, Zenon
<1>6. Busied(c, f)
  <2> HIDE DEF d, e, f
  <2>1. QED
    BY <1>1, <1>2, <1>4, <1>5, Zenon DEF Busied
<1>7. Held(g) /\ g.pipe = c.pipe /\ g.cpsr = c.cpsr /\ g.reg = c.reg /\ g.bus = c.bus
  BY <1>1, SequenceKeeps, Zenon
<1>8. ASSUME NEW h, Alike(g, h) PROVE Done(c, Advance(h, 4))
  <2> DEFINE k == Advance(h, 4)
  <2> HIDE DEF d, e, f, g
  <2>1. /\ Held(h) /\ h.pipe = g.pipe /\ h.cpsr.t = g.cpsr.t /\ h.reg[15] = g.reg[15]
        /\ h.bus = g.bus
    BY <1>8, Zenon DEF Alike
  <2>2. Held(k) /\ k.pipe = h.pipe /\ k.cpsr = h.cpsr /\ k.bus = h.bus /\ k.reg[15] = Wrap(h.reg[15] + 4)
    BY <1>1, <2>1, AdvanceKeeps, Zenon
  <2> HIDE DEF k
  <2>3. QED
    BY <1>1, <1>7, <2>1, <2>2, Zenon DEF Done, k
<1>9. QED
  BY <1>6, <1>8, Zenon

\* A reload in the state the CPU is in fetches what belongs before r15.
LEMMA SameSettles ==
  ASSUME NEW c, Held(c)
  PROVE  Settled(ReloadSame(c))
<1>1. c.cpsr.t \in BOOLEAN
  BY HeldParts, Zenon
<1>2. QED
  BY <1>1, ReloadSettles, Zenon DEF ReloadSame

\* Data processing: with the pc as the result it reloads, in the state that
\* its saved status brings.
LEMMA DataProcessingSettles ==
  ASSUME NEW c, InArm(c), NEW i, i.op = "DataProcessing", ArmEncoding(i),
         i.code \in Tests => i.rd # 15
  PROVE  Settled(ARM_DataProcessing(c, i))
<1> DEFINE byRegister == i.shifter.kind = "register"
           amount ==
             CASE byRegister -> GetReg(c, i.shifter.rs)
               [] i.shifter.kind = "amount" -> i.shifter.amount
               [] OTHER -> 0
           c1 == IF byRegister THEN Nonsequential(Idle(Advance(c, 4))) ELSE Sequential(c)
           op2 == Shifted(c1, i.shifter, amount)
           a == Computed(i.code, GetReg(c1, i.rn), op2.value, op2.carry, c.cpsr)
           test == i.code \in Tests
           c2 == IF i.s \/ test THEN SetFlags(c1, a) ELSE c1
           c3 == IF test THEN c2 ELSE SetReg(c2, i.rd, a.value)
           c4 == IF i.s /\ i.rd = 15 THEN RestorePSR(c3) ELSE c3
           kinds == {"immediate", "amount", "register"}
<1>1. /\ i.code \in Tests \cup {"AND", "EOR", "SUB", "RSB", "ADD", "ADC", "SBC", "RSC",
                                   "ORR", "MOV", "BIC", "MVN"}
      /\ {i.rd, i.rn} \subseteq Register
      /\ Operand(i.shifter, kinds)
  BY Zenon DEF ArmEncoding
<1>2. i.rd \in Register /\ i.rn \in Register
  BY <1>1, Zenon
<1>3. Fed(c) /\ Held(c)
  BY InArmIs, Zenon
<1>4. amount \in Nat
  <2>1. byRegister => GetReg(c, i.shifter.rs) \in Nat
    <3>1. byRegister => i.shifter.rs \in Register
      BY <1>1, Zenon DEF Operand
    <3>2. byRegister => GetReg(c, i.shifter.rs) \in Word
      BY <1>3, <3>1, GetRegWord, Zenon
    <3>3. QED
      BY <3>2, WordIs, Zenon
  <2>2. i.shifter.kind = "amount" => i.shifter.amount \in Nat
    BY <1>1, Zenon DEF Operand
  <2>3. 0 \in Nat
    OBVIOUS
  <2>4. QED
    BY <2>1, <2>2, <2>3, Zenon
<1>5. IF byRegister THEN Busied(c, c1) ELSE c1 = Sequential(c)
  BY StepFirst, Zenon
<1>6. Held(c1)
  <2>1. CASE byRegister
    BY <1>5, <2>1, BusiedHeld, Zenon
  <2>2. CASE ~byRegister
    BY <1>3, <1>5, <2>2, SequenceKeeps, Zenon
  <2>3. QED
    BY <2>1, <2>2, Zenon
<1> HIDE DEF byRegister, amount, c1, kinds
<1>7. op2.value \in Word
  BY <1>1, <1>4, <1>6, ShiftedIsWord, Zenon
<1>8. a.value \in Word
  <2>1. GetReg(c1, i.rn) \in Word
    BY <1>2, <1>6, GetRegWord, Zenon
  <2>2. QED
    BY <1>1, <1>7, <2>1, ComputedIsWord, Zenon
<1> HIDE DEF op2, a
<1>9. Alike(c1, c2) /\ Held(c2)
  <2>1. Alike(c1, c2)
    BY <1>6, FlagsAlike, AlikeSelf, Zenon
  <2>2. QED
    BY <2>1, AlikeHeld, Zenon
<1> HIDE DEF c2
<1>10. Held(c3) /\ (i.rd # 15 => Alike(c1, c3))
  <2>1. CASE test
    BY <1>9, <2>1, Zenon
  <2>2. CASE ~test
    <3>1. Held(c3) /\ (i.rd # 15 => Alike(c2, c3))
      BY <1>2, <1>8, <1>9, <2>2, SetAlike, Zenon
    <3>2. QED
      BY <1>9, <3>1, AlikeOn, Zenon
  <2>3. QED
    BY <2>1, <2>2, Zenon
<1> HIDE DEF c3
<1>11. Held(c4) /\ (i.rd # 15 => c4 = c3)
  BY <1>10, RestoreHeld, Zenon
<1> HIDE DEF c4
<1>12. ARM_DataProcessing(c, i) =
         CASE i.rd = 15 /\ ~test -> ReloadSame(c4)
           [] byRegister /\ (i.rd # 15 \/ test) -> c4
           [] OTHER -> Advance(c4, 4)
  BY Zenon DEF ARM_DataProcessing, c4, c3, c2, c1, a, op2, amount, byRegister
<1>13. CASE i.rd = 15
  <2>1. ARM_DataProcessing(c, i) = ReloadSame(c4)
    BY <1>12, <1>13, Zenon
  <2>2. QED
    BY <2>1, <1>11, SameSettles, Zenon
<1>14. CASE i.rd # 15 /\ byRegister
  <2>1. ARM_DataProcessing(c, i) = c4
    BY <1>12, <1>14, Zenon
  <2>2. Busied(c, c4)
    BY <1>5, <1>10, <1>11, <1>14, AlikeOn, Zenon
  <2>3. QED
    BY <1>3, <2>1, <2>2, BusiedIsDone, DoneSettles, Zenon
<1>15. CASE i.rd # 15 /\ ~byRegister
  <2>1. ARM_DataProcessing(c, i) = Advance(c4, 4)
    BY <1>12, <1>15, Zenon
  <2>2. Alike(Sequential(c), c4)
    BY <1>5, <1>10, <1>11, <1>15, Zenon
  <2>3. Done(c, Advance(c4, 4))
    BY <2>2, StepFirst, Zenon
  <2>4. QED
    BY <1>3, <2>1, <2>3, DoneSettles, Zenon
<1>16. QED
  BY <1>13, <1>14, <1>15, Zenon

\* A status register with some of its bytes replaced is one.
LEMMA MergedHolds ==
  ASSUME NEW p, HoldsMode(p), NEW q, HoldsMode(q), NEW i
  PROVE  HoldsMode(Merged(p, q, i))
<1> DEFINE m == Merged(p, q, i)
<1>1. /\ DOMAIN p = DOMAIN ZeroPSR /\ p.mode \in 0 .. 31 /\ p.t \in BOOLEAN
      /\ DOMAIN q = DOMAIN ZeroPSR /\ q.mode \in 0 .. 31 /\ q.t \in BOOLEAN
  BY Zenon DEF HoldsMode
<1>2. "mode" \in DOMAIN p /\ "t" \in DOMAIN p
  BY <1>1, PSRFields
<1>3. DOMAIN m = DOMAIN p
  BY DEF Merged
<1>4. \A b \in DOMAIN p : m[b] = p[b] \/ m[b] = q[b]
  BY Zenon DEF Merged
<1>5. m.mode \in 0 .. 31
  BY <1>1, <1>2, <1>4, Zenon
<1>6. m.t \in BOOLEAN
  BY <1>1, <1>2, <1>4, Zenon
<1> HIDE DEF m
<1>7. HoldsMode(m)
  BY <1>1, <1>3, <1>5, <1>6, Zenon DEF HoldsMode
<1>8. QED
  BY <1>7, Zenon DEF m

\* The transfers between a status register and the others.
LEMMA MSRAlike ==
  ASSUME NEW c, Held(c), NEW i, Operand(i.shifter, {"immediate", "amount"}),
         MSR(c, i).cpsr.t = c.cpsr.t
  PROVE  Alike(c, MSR(c, i))
<1> DEFINE w == IF i.shifter.kind = "immediate"
                THEN Immediate(i.shifter.value, i.shifter.rot, FALSE).value
                ELSE GetReg(c, i.shifter.rm)
           op == WordPSR(w)
           real == [op EXCEPT !.mode = IF @ \div 16 = 1 THEN @ ELSE @ + 16]
           fields == [i EXCEPT !.control = i.control /\ c.cpsr.mode # ModeNumber.usr]
           c1 == IF fields.control THEN SwitchMode(c, real.mode) ELSE c
           d == MSR(c, i)
<1>1. w \in Word
  <2>1. CASE i.shifter.kind = "immediate"
    <3>1. i.shifter.value \in Word /\ i.shifter.rot \in 0 .. Width - 1
      BY <2>1, Zenon DEF Operand
    <3> DEFINE carry == FALSE
    <3>2. w = Immediate(i.shifter.value, i.shifter.rot, carry).value
      BY <2>1, Zenon
    <3> HIDE DEF carry, w
    <3>3. QED
      BY <3>1, <3>2, ImmediateWord, Zenon
  <2>2. CASE i.shifter.kind # "immediate"
    <3>1. i.shifter.rm \in Register
      BY <2>2, Zenon DEF Operand
    <3>2. QED
      BY <2>2, <3>1, GetRegWord, Zenon
  <2>3. QED
    BY <2>1, <2>2, Zenon
<1> HIDE DEF w
<1>2. w \in Int
  <2>1. w \in Nat
    BY <1>1, WordIs, Zenon
  <2>2. QED
    BY <2>1
<1>3. HoldsMode(op)
  BY <1>2, WordStatus, Zenon
<1> HIDE DEF op
<1>4. HoldsMode(real) /\ real.mode \in 0 .. 31
  <2>1. HoldsMode(real)
    BY <1>3, RealMode, Zenon
  <2> HIDE DEF real
  <2>2. QED
    BY <2>1, Zenon DEF HoldsMode
<1> HIDE DEF real
<1>5. Alike(c, c1) /\ Held(c1)
  <2>1. Alike(c, c1)
    BY <1>4, SwitchAlike, AlikeSelf, Zenon
  <2>2. QED
    BY <2>1, AlikeHeld, Zenon
<1> HIDE DEF fields, c1
<1>6. CASE ~i.useSPSR
  <2> DEFINE p == Merged(c1.cpsr, real, fields)
             e == [c1 EXCEPT !.cpsr = p]
  <2>1. d = e
    BY <1>6, Zenon DEF MSR, c1, fields, real, op, w
  <2>2. HoldsMode(p)
    <3>1. HoldsMode(c1.cpsr)
      BY <1>5, HeldParts, Zenon
    <3>2. QED
      BY <1>4, <3>1, MergedHolds, Zenon
  <2> HIDE DEF p
  <2>3. Held(e) /\ e.pipe = c1.pipe /\ e.bus = c1.bus /\ e.reg = c1.reg /\ e.sequential = c1.sequential
    BY <1>5, <2>2, StatusKeeps, Zenon
  <2> HIDE DEF e
  <2>4. e.cpsr.t = c.cpsr.t
    BY <2>1, Zenon
  <2>5. Alike(c, e)
    BY <1>5, <2>3, <2>4, Zenon DEF Alike
  <2>6. QED
    BY <2>1, <2>5, Zenon
<1>7. CASE i.useSPSR /\ (c.pSpsr = "none" \/ c.cpuModeInvalid)
  <2>1. d = c
    BY <1>7, Zenon DEF MSR
  <2>2. QED
    BY <2>1, AlikeSelf, Zenon
<1>8. CASE i.useSPSR /\ ~(c.pSpsr = "none" \/ c.cpuModeInvalid)
  <2> DEFINE p == Merged(GetSPSR(c), op, i)
             e == [c EXCEPT !.spsr[c.pSpsr] = p]
  <2>1. d = e
    BY <1>8, Zenon DEF MSR, op, w
  <2>2. HoldsMode(p)
    BY <1>3, SPSRHolds, MergedHolds, Zenon
  <2>3. c.pSpsr \in Bank
    BY HeldParts, Zenon
  <2> HIDE DEF p
  <2>4. Held(e) /\ e.pipe = c.pipe /\ e.cpsr = c.cpsr /\ e.bus = c.bus /\ e.reg = c.reg
        /\ e.sequential = c.sequential
    BY <2>2, <2>3, SavedStatusKeeps, Zenon
  <2> HIDE DEF e
  <2>5. Alike(c, e)
    BY <2>4, Zenon DEF Alike
  <2>6. QED
    BY <2>1, <2>5, Zenon
<1>9. QED
  BY <1>6, <1>7, <1>8, Zenon

\* MRS and MSR move r15 on.
LEMMA StatusTransferSettles ==
  ASSUME NEW c, InArm(c), NEW i, i.op = "StatusTransfer", ArmEncoding(i), Predictable(c, i)
  PROVE  Settled(ARM_StatusTransfer(c, i))
<1>1. i.rd \in Register /\ Operand(i.shifter, {"immediate", "amount"})
  BY Zenon DEF ArmEncoding
<1>2. IF i.toStatus THEN MSR(c, i).cpsr.t = c.cpsr.t ELSE i.rd # 15
  BY Zenon DEF Predictable
<1>3. Fed(c) /\ Held(c) /\ Stride(c.cpsr.t) = 4 /\ 4 \in Int
  BY InArmIs, Zenon
<1> DEFINE d == IF i.toStatus THEN MSR(c, i) ELSE MRS(c, i)
<1>4. Alike(c, d)
  <2>1. CASE i.toStatus
    BY <1>1, <1>2, <1>3, <2>1, MSRAlike, Zenon
  <2>2. CASE ~i.toStatus
    <3> DEFINE p == IF i.useSPSR THEN GetSPSR(c) ELSE c.cpsr
    <3>1. HoldsMode(p)
      BY <1>3, SPSRHolds, HeldParts, Zenon
    <3> HIDE DEF p
    <3>2. PSRWord(p) \in Word
      BY <3>1, StatusWord, Zenon
    <3>3. MRS(c, i) = SetReg(c, i.rd, PSRWord(p))
      BY Zenon DEF MRS, p
    <3>4. QED
      BY <1>1, <1>2, <1>3, <2>2, <3>2, <3>3, SetAlike, Zenon
  <2>3. QED
    BY <2>1, <2>2, Zenon
<1>5. ARM_StatusTransfer(c, i) = Advance(Sequential(d), 4)
  BY Zenon DEF ARM_StatusTransfer
<1> HIDE DEF d
<1>6. QED
  BY <1>3, <1>4, <1>5, StepDone, DoneSettles, Zenon

\* A handler that writes its results last and reloads if the pc is one of them.
LEMMA SetBusied ==
  ASSUME NEW c, NEW d, Busied(c, d), NEW r \in Register, NEW v \in Word
  PROVE  /\ Held(SetReg(d, r, v)) /\ SetReg(d, r, v).cpsr.t = c.cpsr.t
         /\ r # 15 => Busied(c, SetReg(d, r, v))
<1>1. Held(d) /\ d.cpsr.t = c.cpsr.t
  BY BusiedHeld, Zenon
<1>2. Held(SetReg(d, r, v)) /\ SetReg(d, r, v).cpsr.t = d.cpsr.t
      /\ (r # 15 => Alike(d, SetReg(d, r, v)))
  BY <1>1, SetAlike, Zenon
<1>3. QED
  BY <1>1, <1>2, AlikeOn, Zenon

\* A reload if the pc is among the results, else the CPU has moved on.
LEMMA ReloadingSettles ==
  ASSUME NEW c, InArm(c), NEW d, Held(d), d.cpsr.t = c.cpsr.t, NEW rs, 15 \notin rs => Busied(c, d)
  PROVE  Settled(Reloading(d, rs))
<1>1. Fed(c) /\ c.cpsr.t = FALSE /\ FALSE \in BOOLEAN
  BY InArmIs, Zenon
<1>2. CASE 15 \in rs
  <2>1. Reloading(d, rs) = Reload(d, FALSE)
    BY <1>2, Zenon DEF Reloading
  <2>2. QED
    BY <1>1, <2>1, ReloadSettles, Zenon
<1>3. CASE 15 \notin rs
  <2>1. Reloading(d, rs) = d
    BY <1>3, Zenon DEF Reloading
  <2>2. QED
    BY <1>1, <1>3, <2>1, BusiedIsDone, DoneSettles, Zenon
<1>4. QED
  BY <1>2, <1>3, Zenon

\* A result that may be the pc.
LEMMA WriteBackSettles ==
  ASSUME NEW c, InArm(c), NEW d, Busied(c, d), NEW r \in Register, NEW v \in Word
  PROVE  Settled(Reloading(SetReg(d, r, v), {r}))
<1>1. /\ Held(SetReg(d, r, v)) /\ SetReg(d, r, v).cpsr.t = c.cpsr.t
      /\ r # 15 => Busied(c, SetReg(d, r, v))
  BY SetBusied, Zenon
<1>2. 15 \notin {r} => r # 15
  BY Zenon
<1>3. QED
  BY <1>1, <1>2, ReloadingSettles, Zenon

\* Words are integers.
LEMMA WordInt == \A x \in Word : x \in Nat /\ x \in Int
<1>1. \A x \in Word : x \in Nat
  BY WordIs, Zenon
<1>2. QED
  BY <1>1

\* Setting flags leaves the rest as it is.
LEMMA FlagsBusied ==
  ASSUME NEW c, NEW d, Busied(c, d), NEW a
  PROVE  Busied(c, SetFlags(d, a))
BY BusiedHeld, FlagsAlike, AlikeOn, Zenon

\* Multiplications of one word,
LEMMA MultiplySettles ==
  ASSUME NEW c, InArm(c), NEW i, i.op = "Multiply", ArmEncoding(i)
  PROVE  Settled(ARM_Multiply(c, i))
<1> DEFINE c0 == Advance(Nonsequential(c), 4)
           c1 == Idle(c0)
           x == Product(GetReg(Advance(c, 4), i.rm), GetReg(Advance(c, 4), i.rs))
           y == IF i.accumulate THEN GetReg(c1, i.rn) ELSE 0
           sum == Added(x, y, 0)
           c2 == IF i.s THEN SetFlags(c1, Logical(sum.value, c.booth, c.cpsr.v)) ELSE c1
<1>1. i.rd \in Register /\ i.rn \in Register /\ i.rm \in Register /\ i.rs \in Register
  <2>1. {i.rd, i.rn, i.rm, i.rs} \subseteq Register
    BY Zenon DEF ArmEncoding
  <2>2. QED
    BY <2>1, Zenon
<1>2. Busied(c, c0) /\ Held(c) /\ 4 \in Int
  BY InArmIs, Zenon
<1>3. Busied(c, c1) /\ Held(c1)
  <2> HIDE DEF c0
  <2>1. Busied(c, c1)
    BY <1>2, AccessBusied, Zenon
  <2>2. QED
    BY <2>1, BusiedHeld, Zenon
<1> HIDE DEF c0, c1
<1>4. x \in Int
  <2> DEFINE e == Advance(c, 4)
  <2>1. Held(e)
    BY <1>2, AdvanceKeeps, Zenon
  <2> HIDE DEF e
  <2>2. GetReg(e, i.rm) \in Int /\ GetReg(e, i.rs) \in Int
    BY <1>1, <2>1, GetRegWord, WordInt, Zenon
  <2>3. Product(GetReg(e, i.rm), GetReg(e, i.rs)) \in Word
    BY <2>2, ComputedWord
  <2>4. QED
    BY <2>3, WordInt, Zenon DEF e
<1>5. y \in Int
  <2>1. GetReg(c1, i.rn) \in Int
    BY <1>1, <1>3, GetRegWord, WordInt, Zenon
  <2>2. QED
    BY <2>1
<1> HIDE DEF x, y
<1>6. sum.value \in Word
  BY <1>4, <1>5, ComputedWord
<1> HIDE DEF sum
<1>7. Busied(c, c2)
  BY <1>3, FlagsBusied, Zenon
<1> HIDE DEF c2
<1>8. ARM_Multiply(c, i) = Reloading(SetReg(c2, i.rd, sum.value), {i.rd})
  BY Zenon DEF ARM_Multiply, c2, sum, x, y, c1, c0
<1>9. QED
  BY <1>1, <1>6, <1>7, <1>8, WriteBackSettles, Zenon

\* and of two, whose last result may be the pc.
LEMMA MultiplyLongSettles ==
  ASSUME NEW c, InArm(c), NEW i, i.op = "MultiplyLong", ArmEncoding(i)
  PROVE  Settled(ARM_MultiplyLong(c, i))
<1> DEFINE c0 == Advance(Nonsequential(c), 4)
           c1 == Idle(Idle(c0))
           p == LongProduct(i.signExtend, GetReg(Advance(c, 4), i.rm), GetReg(Advance(c, 4), i.rs),
                            IF i.accumulate THEN GetReg(c1, i.hi) ELSE 0,
                            IF i.accumulate THEN GetReg(c1, i.lo) ELSE 0)
           flags == [n |-> Negative(p.hi), z |-> p.hi = 0 /\ p.lo = 0,
                     c |-> c.booth, v |-> c.cpsr.v]
           c2 == IF i.s THEN SetFlags(c1, flags) ELSE c1
           c3 == SetReg(c2, i.lo, p.lo)
           c4 == SetReg(c3, i.hi, p.hi)
<1>1. i.lo \in Register /\ i.hi \in Register /\ i.rm \in Register /\ i.rs \in Register
  <2>1. {i.lo, i.hi, i.rm, i.rs} \subseteq Register
    BY Zenon DEF ArmEncoding
  <2>2. QED
    BY <2>1, Zenon
<1>2. Busied(c, c0) /\ Held(c) /\ 4 \in Int
  BY InArmIs, Zenon
<1>3. Busied(c, c1) /\ Held(c1)
  <2> HIDE DEF c0
  <2>1. Busied(c, Idle(c0))
    BY <1>2, AccessBusied, Zenon
  <2>2. Busied(c, c1)
    BY <2>1, AccessBusied, Zenon
  <2>3. QED
    BY <2>2, BusiedHeld, Zenon
<1> HIDE DEF c0, c1
<1>4. p.lo \in Word /\ p.hi \in Word
  <2> DEFINE e == Advance(c, 4)
             signed == i.signExtend
             hi == IF i.accumulate THEN GetReg(c1, i.hi) ELSE 0
             lo == IF i.accumulate THEN GetReg(c1, i.lo) ELSE 0
  <2>1. Held(e)
    BY <1>2, AdvanceKeeps, Zenon
  <2> HIDE DEF e
  <2>2. GetReg(e, i.rm) \in Word /\ GetReg(e, i.rs) \in Word
    BY <1>1, <2>1, GetRegWord, Zenon
  <2>3. hi \in Word /\ lo \in Word
    BY <1>1, <1>3, GetRegWord, WordIs, Zenon
  <2> HIDE DEF hi, lo, signed
  <2>4. /\ LongProduct(signed, GetReg(e, i.rm), GetReg(e, i.rs), hi, lo).hi \in Word
        /\ LongProduct(signed, GetReg(e, i.rm), GetReg(e, i.rs), hi, lo).lo \in Word
    BY <2>2, <2>3, LongWord, Zenon
  <2>5. QED
    BY <2>4, Zenon DEF e, signed, hi, lo
<1> HIDE DEF p, flags
<1>5. Busied(c, c2)
  BY <1>3, FlagsBusied, Zenon
<1> HIDE DEF c2
<1>6. Held(c3) /\ c3.cpsr.t = c.cpsr.t /\ (i.lo # 15 => Busied(c, c3))
  BY <1>1, <1>4, <1>5, SetBusied, Zenon
<1> HIDE DEF c3
<1>7. Held(c4) /\ c4.cpsr.t = c.cpsr.t
  BY <1>1, <1>4, <1>6, SetAlike, Zenon
<1>8. 15 \notin {i.lo, i.hi} => Busied(c, c4)
  BY <1>1, <1>4, <1>6, SetBusied, Zenon
<1> HIDE DEF c4
<1>9. ARM_MultiplyLong(c, i) = Reloading(c4, {i.lo, i.hi})
  BY Zenon DEF ARM_MultiplyLong, c4, c3, c2, flags, p, c1, c0
<1>10. QED
  BY <1>7, <1>8, <1>9, ReloadingSettles, Zenon

\* A swap of a register with memory.
LEMMA SingleDataSwapSettles ==
  ASSUME NEW c, InArm(c), NEW i, i.op = "SingleDataSwap", ArmEncoding(i)
  PROVE  Settled(ARM_SingleDataSwap(c, i))
<1> DEFINE c1 == Advance(Nonsequential(c), 4)
           at == GetReg(c1, i.rn)
           kind == IF i.byte THEN "byte" ELSE "wordRotate"
           c2 == Read(c1, kind, at)
           v == Narrow(kind, GetReg(c2, i.rm))
           c3 == Idle(Write(c2, at, v))
<1>1. i.rd \in Register /\ i.rn \in Register
  <2>1. {i.rd, i.rn, i.rm} \subseteq Register
    BY Zenon DEF ArmEncoding
  <2>2. QED
    BY <2>1, Zenon
<1>2. Busied(c, c1) /\ Held(c1)
  BY InArmIs, BusiedHeld, Zenon
<1> HIDE DEF c1
<1>3. at \in Word
  BY <1>1, <1>2, GetRegWord, Zenon
<1>4. kind \in LoadKind
  BY DEF LoadKind
<1> HIDE DEF at, kind
<1>5. ReadAs(c1, kind, at) \in Word
  BY <1>2, <1>3, <1>4, ReadWord, Zenon
<1>6. Busied(c, c2)
  BY <1>2, AccessBusied, Zenon
<1> HIDE DEF c2, v
<1>7. Busied(c, c3)
  BY <1>6, AccessBusied, Zenon
<1> HIDE DEF c3
<1>8. ARM_SingleDataSwap(c, i) = Reloading(SetReg(c3, i.rd, ReadAs(c1, kind, at)), {i.rd})
  BY Zenon DEF ARM_SingleDataSwap, c3, v, c2, kind, at, c1
<1>9. QED
  BY <1>1, <1>5, <1>7, <1>8, WriteBackSettles, Zenon

\* The word before an odd one.
LEMMA OddWord ==
  ASSUME NEW x \in Word, x % 2 = 1
  PROVE  x - 1 \in Word
<1>1. x \in Nat /\ x < Size
  BY WordIs, Zenon
<1>2. Size \in Nat
  BY SizeIs
<1>3. x - 1 \in Nat /\ x - 1 < Size
  BY <1>1, <1>2
<1>4. QED
  BY <1>3, WordIs, Zenon

\* BX, whose bit 0 says in which state the pipeline is reloaded.
LEMMA BranchAndExchangeSettles ==
  ASSUME NEW c, InArm(c), NEW i, i.op = "BranchAndExchange", ArmEncoding(i)
  PROVE  Settled(ARM_BranchAndExchange(c, i))
<1> DEFINE address == GetReg(c, i.rm)
           d == [c EXCEPT !.cpsr.t = TRUE]
<1>1. Held(c) /\ c.cpsr.t = FALSE /\ FALSE \in BOOLEAN /\ TRUE \in BOOLEAN
  BY InArmIs, Zenon
<1>2. address \in Word
  <2>1. i.rm \in Register
    BY Zenon DEF ArmEncoding
  <2>2. QED
    BY <1>1, <2>1, GetRegWord, Zenon
<1>3. Held(d) /\ d.cpsr.t = TRUE
  BY <1>1, ThumbKeeps, Zenon
<1>4. ARM_BranchAndExchange(c, i) = IF address % 2 = 1 THEN Jump(d, address - 1, TRUE)
                                    ELSE Jump(c, address, FALSE)
  BY Zenon DEF ARM_BranchAndExchange
<1> HIDE DEF address, d
<1>5. CASE address % 2 = 1
  <2>1. address - 1 \in Word
    BY <1>2, <1>5, OddWord, Zenon
  <2>2. Settled(Jump(d, address - 1, TRUE))
    BY <1>1, <1>3, <2>1, JumpSettles, Zenon
  <2>3. QED
    BY <1>4, <1>5, <2>2, Zenon
<1>6. CASE address % 2 # 1
  <2>1. Settled(Jump(c, address, FALSE))
    BY <1>1, <1>2, JumpSettles, Zenon
  <2>2. QED
    BY <1>4, <1>6, <2>1, Zenon
<1>7. QED
  BY <1>5, <1>6, Zenon

\* A transfer of any kind: the base is written back before what was loaded,
\* which may be the pc.
LEMMA TransferredSettles ==
  ASSUME NEW c, InArm(c), NEW i, {i.rd, i.rn} \subseteq Register,
         i.writeback \/ ~i.pre => i.rn # 15, i.kind \in LoadKind, NEW distance \in Int
  PROVE  Settled(Transferred(c, i, distance))
<1> DEFINE offset == IF i.add THEN distance ELSE Wrap(0 - distance)
           address == IF i.pre THEN Wrap(GetReg(c, i.rn) + offset) ELSE GetReg(c, i.rn)
           c1 == Advance(Nonsequential(c), 4)
           Rebased(x) ==
             IF i.writeback \/ ~i.pre THEN SetReg(x, i.rn, Wrap(GetReg(x, i.rn) + offset)) ELSE x
           loaded == Idle(Rebased(Read(c1, i.kind, address)))
<1>1. i.rd \in Register /\ i.rn \in Register
  BY Zenon
<1>2. Fed(c) /\ Held(c) /\ Busied(c, c1) /\ Held(c1)
  BY InArmIs, BusiedHeld, Zenon
<1>3. offset \in Int
  <2>1. 0 - distance \in Int
    OBVIOUS
  <2>2. Wrap(0 - distance) \in Int
    BY <2>1, WrapWord, WordInt, Zenon
  <2>3. QED
    BY <2>2, Zenon
<1> HIDE DEF offset, c1
<1>4. ASSUME NEW x, Held(x) PROVE GetReg(x, i.rn) \in Word /\ Wrap(GetReg(x, i.rn) + offset) \in Word
  <2>1. GetReg(x, i.rn) \in Word
    BY <1>1, <1>4, GetRegWord, Zenon
  <2>2. GetReg(x, i.rn) \in Int
    BY <2>1, WordInt, Zenon
  <2>3. GetReg(x, i.rn) + offset \in Int
    BY <1>3, <2>2
  <2>4. QED
    BY <2>1, <2>3, WrapWord, Zenon
<1>5. address \in Word
  BY <1>2, <1>4, Zenon
<1>6. ASSUME NEW x, Busied(c, x) PROVE Busied(c, Rebased(x))
  <2>1. CASE i.writeback \/ ~i.pre
    <3>1. Held(x)
      BY <1>6, BusiedHeld, Zenon
    <3>2. QED
      BY <1>1, <1>4, <1>6, <2>1, <3>1, SetBusied, Zenon
  <2>2. CASE ~(i.writeback \/ ~i.pre)
    BY <1>6, <2>2, Zenon
  <2>3. QED
    BY <2>1, <2>2, Zenon
<1> HIDE DEF address, Rebased
<1>7. Busied(c, loaded)
  <2> DEFINE e == Read(c1, i.kind, address)
  <2>1. Busied(c, e)
    BY <1>2, AccessBusied, Zenon
  <2>2. Busied(c, Rebased(e))
    BY <1>6, <2>1, Zenon
  <2>3. QED
    BY <2>2, AccessBusied, Zenon
<1> HIDE DEF loaded
<1>8. ReadAs(c1, i.kind, address) \in Word
  BY <1>2, <1>5, ReadWord, Zenon
<1>9. Settled(Reloading(SetReg(loaded, i.rd, ReadAs(c1, i.kind, address)), {i.rd}))
  BY <1>1, <1>7, <1>8, WriteBackSettles, Zenon
<1>10. Busied(c, Idle(c1))
  BY <1>2, AccessBusied, Zenon
<1>11. Busied(c, Rebased(Idle(c1)))
  BY <1>6, <1>10, Zenon
<1>12. Busied(c, Idle(Rebased(Idle(c1))))
  BY <1>11, AccessBusied, Zenon
<1> DEFINE v == Narrow(i.kind, GetReg(c1, i.rd))
<1>13. Busied(c, Rebased(Write(c1, address, v)))
  <2> HIDE DEF v
  <2>1. Busied(c, Write(c1, address, v))
    BY <1>2, AccessBusied, Zenon
  <2>2. QED
    BY <1>6, <2>1, Zenon
<1>14. Transferred(c, i, distance) \in
         {Reloading(SetReg(loaded, i.rd, ReadAs(c1, i.kind, address)), {i.rd}),
          Idle(Rebased(Idle(c1))), Rebased(Idle(c1)), Rebased(Write(c1, address, v))}
  <2> DEFINE T == Transferred(c, i, distance)
  <2>1. T = CASE i.load -> Reloading(SetReg(loaded, i.rd, ReadAs(c1, i.kind, address)), {i.rd})
              [] ~i.load /\ i.kind = "byteSigned" -> Idle(Rebased(Idle(c1)))
              [] ~i.load /\ i.kind = "halfSigned" -> Rebased(Idle(c1))
              [] OTHER -> Rebased(Write(c1, address, v))
    BY Zenon DEF Transferred, loaded, Rebased, c1, address, offset
  <2> HIDE DEF T, v
  <2>2. T = Reloading(SetReg(loaded, i.rd, ReadAs(c1, i.kind, address)), {i.rd})
        \/ T = Idle(Rebased(Idle(c1))) \/ T = Rebased(Idle(c1)) \/ T = Rebased(Write(c1, address, v))
    BY <2>1, Zenon
  <2>3. QED
    BY <2>2, Zenon DEF T
<1>15. \A x : Busied(c, x) => Settled(x)
  BY <1>2, BusiedIsDone, DoneSettles, Zenon
<1> HIDE DEF v
<1>16. QED
  BY <1>9, <1>11, <1>12, <1>13, <1>14, <1>15, Zenon

\* The two instructions that make one.
LEMMA OneTransferSettles ==
  ASSUME NEW c, InArm(c), NEW i, ArmEncoding(i), Predictable(c, i)
  PROVE  /\ i.op = "HalfwordSignedTransfer" => Settled(ARM_HalfwordSignedTransfer(c, i))
         /\ i.op = "SingleDataTransfer" => Settled(ARM_SingleDataTransfer(c, i))
<1>1. Held(c)
  BY InArmIs, Zenon
<1>2. ASSUME i.op = "HalfwordSignedTransfer" PROVE Settled(ARM_HalfwordSignedTransfer(c, i))
  <2> DEFINE distance == IF i.shifter.kind = "immediate" THEN i.shifter.value
                         ELSE GetReg(c, i.shifter.rm)
  <2>1. /\ i.kind \in {"halfRotate", "byteSigned", "halfSigned"}
        /\ {i.rd, i.rn} \subseteq Register /\ Operand(i.shifter, {"immediate", "amount"})
    BY <1>2, Zenon DEF ArmEncoding
  <2>2. i.writeback \/ ~i.pre => i.rn # 15
    BY <1>2, Zenon DEF Predictable
  <2>3. distance \in Word
    <3>1. i.shifter.kind = "immediate" => i.shifter.value \in Word
      BY <2>1, Zenon DEF Operand
    <3>2. i.shifter.kind # "immediate" => i.shifter.rm \in Register
      BY <2>1, Zenon DEF Operand
    <3>3. QED
      BY <1>1, <3>1, <3>2, GetRegWord, Zenon
  <2>4. distance \in Int
    BY <2>3, WordInt, Zenon
  <2>5. i.kind \in LoadKind
    BY <2>1 DEF LoadKind
  <2>6. ARM_HalfwordSignedTransfer(c, i) = Transferred(c, i, distance)
    BY Zenon DEF ARM_HalfwordSignedTransfer
  <2> HIDE DEF distance
  <2>7. QED
    BY <2>1, <2>2, <2>4, <2>5, <2>6, TransferredSettles, Zenon
<1>3. ASSUME i.op = "SingleDataTransfer" PROVE Settled(ARM_SingleDataTransfer(c, i))
  <2> DEFINE distance == IF i.shifter.kind = "immediate" THEN i.shifter.value
                         ELSE Shifted(c, i.shifter, i.shifter.amount).value
  <2>1. /\ i.kind \in {"byte", "wordRotate"}
        /\ {i.rd, i.rn} \subseteq Register /\ Operand(i.shifter, {"immediate", "amount"})
    BY <1>3, Zenon DEF ArmEncoding
  <2>2. i.writeback \/ ~i.pre => i.rn # 15
    BY <1>3, Zenon DEF Predictable
  <2>3. distance \in Word
    <3>1. i.shifter.kind = "immediate" => i.shifter.value \in Word
      BY <2>1, Zenon DEF Operand
    <3>2. i.shifter.kind # "immediate" => i.shifter.amount \in Nat
      BY <2>1, Zenon DEF Operand
    <3>3. QED
      BY <1>1, <2>1, <3>1, <3>2, ShiftedIsWord, Zenon
  <2>4. distance \in Int
    BY <2>3, WordInt, Zenon
  <2>5. i.kind \in LoadKind
    BY <2>1 DEF LoadKind
  <2>6. ARM_SingleDataTransfer(c, i) = Transferred(c, i, distance)
    BY Zenon DEF ARM_SingleDataTransfer
  <2> HIDE DEF distance
  <2>7. QED
    BY <2>1, <2>2, <2>4, <2>5, <2>6, TransferredSettles, Zenon
<1>4. QED
  BY <1>2, <1>3, Zenon

\* B and BL.
LEMMA BranchAndLinkSettles ==
  ASSUME NEW c, InArm(c), NEW i, i.op = "BranchAndLink", ArmEncoding(i)
  PROVE  Settled(ARM_BranchAndLink(c, i))
<1> DEFINE link == Wrap(c.reg[15] - 4)
           at == Wrap(c.reg[15] + 4 * i.offset)
           c1 == IF i.link THEN SetReg(c, 14, link) ELSE c
<1>1. Held(c) /\ c.cpsr.t = FALSE /\ FALSE \in BOOLEAN
  BY InArmIs, Zenon
<1>2. link \in Word /\ at \in Word
  <2>1. c.reg[15] \in Int
    BY <1>1, HeldParts, WordInt, Zenon
  <2>2. i.offset \in Int
    BY Zenon DEF ArmEncoding
  <2>3. c.reg[15] - 4 \in Int /\ c.reg[15] + 4 * i.offset \in Int
    BY <2>1, <2>2
  <2>4. QED
    BY <2>3, WrapWord, Zenon
<1>3. 14 \in Register
  BY DEF Register
<1>4. ARM_BranchAndLink(c, i) = Jump(c1, at, FALSE)
  BY Zenon DEF ARM_BranchAndLink
<1> HIDE DEF link, at
<1>5. Held(c1) /\ c1.cpsr.t = FALSE
  <2>1. Held(SetReg(c, 14, link)) /\ SetReg(c, 14, link).cpsr.t = c.cpsr.t
    BY <1>1, <1>2, <1>3, SetAlike, Zenon
  <2>2. CASE i.link
    BY <1>1, <2>1, <2>2, Zenon
  <2>3. CASE ~i.link
    BY <1>1, <2>3, Zenon
  <2>4. QED
    BY <2>2, <2>3, Zenon
<1> HIDE DEF c1
<1>6. QED
  BY <1>1, <1>2, <1>4, <1>5, JumpSettles, Zenon

\* The two instructions that trap.
LEMMA TrapsSettle ==
  ASSUME NEW c, InArm(c), NEW i
  PROVE  Settled(ARM_Undefined(c, i)) /\ Settled(ARM_SWI(c, i))
<1> DEFINE link == Wrap(c.reg[15] - 4)
<1>1. Held(c) /\ c.cpsr.t = FALSE
  BY InArmIs, Zenon
<1>2. link \in Word
  <2>1. c.reg[15] \in Int
    BY <1>1, HeldParts, WordInt, Zenon
  <2>2. c.reg[15] - 4 \in Int
    BY <2>1
  <2>3. QED
    BY <2>2, WrapWord, Zenon
<1> HIDE DEF link
<1>3. ASSUME NEW name \in {"svc", "irq", "und"}, NEW at \in {4, 8, 24}
      PROVE  Settled(Jump(SetReg(Enter(c, name), 14, link), at, FALSE))
  <2> DEFINE d == Enter(c, name)
  <2>1. Alike(c, d)
    BY <1>1, EnterAlike, Zenon
  <2> HIDE DEF d
  <2>2. Held(d) /\ d.cpsr.t = FALSE
    BY <1>1, <2>1, AlikeHeld, Zenon
  <2>3. Settled(Jump(SetReg(d, 14, link), at, FALSE))
    BY <1>2, <2>2, VectorSettles, Zenon
  <2>4. QED
    BY <2>3, Zenon DEF d
<1>4. "und" \in {"svc", "irq", "und"} /\ "svc" \in {"svc", "irq", "und"} /\ 4 \in {4, 8, 24} /\ 8 \in {4, 8, 24}
  OBVIOUS
<1>5. QED
  BY <1>3, <1>4, Zenon DEF ARM_Undefined, ARM_SWI, link

\* The units of a block one after the other: what the recursion computes.
AreUnits(g, c, i, list, low, far, m) ==
  /\ DOMAIN g = 0 .. m /\ g[0] = c
  /\ \A n \in 1 .. m :
       g[n] = IF n - 1 \in list THEN BlockUnit(g[n - 1], i, list, low, far, n - 1) ELSE g[n - 1]

\* There is a function that takes a block of registers one unit at a time.
LEMMA UnitsExist ==
  ASSUME NEW c, NEW i, NEW list, NEW low, NEW far, NEW w \in Nat
  PROVE  \E g : AreUnits(g, c, i, list, low, far, w)
<1> DEFINE T == {m \in Nat : ~ \E g : AreUnits(g, c, i, list, low, far, m)}
           Next1(x, n) == IF n - 1 \in list THEN BlockUnit(x, i, list, low, far, n - 1) ELSE x
<1>1. T = {}
  <2> SUFFICES ASSUME T # {} PROVE FALSE
    OBVIOUS
  <2>1. PICK m \in T : \A y \in T : m <= y
    BY NatLeast
  <2>2. m \in Nat /\ ~ \E g : AreUnits(g, c, i, list, low, far, m)
    BY <2>1
  <2>3. m # 0
    <3>1. AreUnits([n \in 0 .. 0 |-> c], c, i, list, low, far, 0)
      BY DEF AreUnits
    <3>2. QED
      BY <2>2, <3>1
  <2>4. m - 1 \in Nat /\ m - 1 \notin T
    BY <2>1, <2>2, <2>3
  <2>5. PICK g : AreUnits(g, c, i, list, low, far, m - 1)
    BY <2>4
  <2>6. /\ DOMAIN g = 0 .. m - 1 /\ g[0] = c
        /\ \A n \in 1 .. m - 1 : g[n] = Next1(g[n - 1], n)
    BY <2>5, Zenon DEF AreUnits
  <2> HIDE DEF Next1
  <2> DEFINE h == [n \in 0 .. m |-> IF n = m THEN Next1(g[m - 1], m) ELSE g[n]]
  <2>7. DOMAIN h = 0 .. m /\ h[0] = c
    BY <2>2, <2>3, <2>6
  <2>8. ASSUME NEW n \in 1 .. m PROVE h[n] = Next1(h[n - 1], n)
    <3>1. n \in 0 .. m /\ n - 1 \in 0 .. m /\ n - 1 # m
      BY <2>2
    <3>2. h[n - 1] = g[n - 1]
      BY <3>1
    <3>3. CASE n = m
      BY <3>1, <3>2, <3>3
    <3>4. CASE n # m
      <4>1. n \in 1 .. m - 1
        BY <2>2, <3>4
      <4>2. h[n] = g[n]
        BY <3>1, <3>4
      <4>3. QED
        BY <2>6, <3>2, <4>1, <4>2
    <3>5. QED
      BY <3>3, <3>4
  <2> HIDE DEF h
  <2>9. AreUnits(h, c, i, list, low, far, m)
    BY <2>7, <2>8, Zenon DEF AreUnits, Next1
  <2>10. QED
    BY <2>2, <2>9
<1>2. w \notin T
  BY <1>1
<1>3. QED
  BY <1>2

\* BlockUnits is such a function at its last register.
LEMMA BlockUnitsAre ==
  ASSUME NEW c, NEW i, NEW list, NEW low, NEW far
  PROVE  \E g : AreUnits(g, c, i, list, low, far, 16) /\ BlockUnits(c, i, list, low, far) = g[16]
<1> DEFINE P(f) == f = [n \in 0 .. 16 |->
                         CASE n = 0 -> c
                           [] n > 0 /\ n - 1 \in list -> BlockUnit(f[n - 1], i, list, low, far, n - 1)
                           [] OTHER -> f[n - 1]]
           Next1(x, n) == IF n - 1 \in list THEN BlockUnit(x, i, list, low, far, n - 1) ELSE x
           Body(f, n) == CASE n = 0 -> c
                           [] n > 0 /\ n - 1 \in list -> BlockUnit(f[n - 1], i, list, low, far, n - 1)
                           [] OTHER -> f[n - 1]
<1>1. PICK g : AreUnits(g, c, i, list, low, far, 16)
  BY UnitsExist
<1>2. ASSUME NEW x PROVE /\ Body(x, 0) = c
                         /\ \A n \in 1 .. 16 : Body(x, n) = Next1(x[n - 1], n)
  <2>1. Body(x, 0) = c
    OBVIOUS
  <2>2. ASSUME NEW n \in 1 .. 16 PROVE Body(x, n) = Next1(x[n - 1], n)
    <3>1. n # 0 /\ n > 0
      OBVIOUS
    <3>2. CASE n - 1 \in list
      BY <3>1, <3>2, Zenon
    <3>3. CASE n - 1 \notin list
      BY <3>1, <3>3, Zenon
    <3>4. QED
      BY <3>2, <3>3
  <2>3. QED
    BY <2>1, <2>2
<1>3. /\ DOMAIN g = 0 .. 16 /\ g[0] = c
      /\ \A n \in 1 .. 16 : g[n] = Next1(g[n - 1], n)
  BY <1>1, Zenon DEF AreUnits
<1>4. \A f : P(f) <=> f = [n \in 0 .. 16 |-> Body(f, n)]
  OBVIOUS
<1> DEFINE h == [n \in 0 .. 16 |-> g[n]]
<1>5. P(h)
  <2> HIDE DEF Body, Next1, P
  <2>1. ASSUME NEW n \in 0 .. 16 PROVE h[n] = Body(h, n)
    <3>1. CASE n = 0
      BY <1>2, <1>3, <3>1
    <3>2. CASE n # 0
      <4>1. n \in 1 .. 16 /\ n - 1 \in 0 .. 16
        BY <3>2
      <4>2. h[n] = g[n] /\ h[n - 1] = g[n - 1]
        BY <4>1
      <4> HIDE DEF h
      <4>3. QED
        BY <1>2, <1>3, <4>1, <4>2
    <3>3. QED
      BY <3>1, <3>2
  <2>2. h = [n \in 0 .. 16 |-> h[n]]
    OBVIOUS
  <2> HIDE DEF h
  <2>3. h = [n \in 0 .. 16 |-> Body(h, n)]
    BY <2>1, <2>2
  <2>4. QED
    BY <1>4, <2>3, Zenon
<1> DEFINE f == CHOOSE f : P(f)
<1>6. P(f)
  <2> HIDE DEF h, P
  <2>1. QED
    BY <1>5
<1>7. BlockUnits(c, i, list, low, far) = f[16]
  BY DEF BlockUnits
<1> HIDE DEF f, h
<1>8. AreUnits(f, c, i, list, low, far, 16)
  <2>1. f = [n \in 0 .. 16 |-> Body(f, n)]
    BY <1>4, <1>6, Zenon
  <2> HIDE DEF Body, P, Next1
  <2>2. DOMAIN f = 0 .. 16 /\ \A n \in 0 .. 16 : f[n] = Body(f, n)
    BY <2>1
  <2>3. f[0] = c
    BY <1>2, <2>2
  <2>4. ASSUME NEW n \in 1 .. 16 PROVE f[n] = Next1(f[n - 1], n)
    <3>1. n \in 0 .. 16
      OBVIOUS
    <3>2. QED
      BY <1>2, <2>2, <3>1
  <2>5. QED
    BY <2>2, <2>3, <2>4, Zenon DEF AreUnits, Next1
<1>9. QED
  BY <1>7, <1>8

\* How many units come before a register's own.
LEMMA BelowIs ==
  ASSUME NEW list \in SUBSET Register, NEW r
  PROVE  Below(list, r) \in Nat /\ Cardinality(list) \in Nat
<1>1. IsFiniteSet(Register)
  <2>1. 0 \in Int /\ 15 \in Int
    OBVIOUS
  <2>2. QED
    BY <2>1, FS_Interval, Zenon DEF Register
<1>2. IsFiniteSet(list) /\ IsFiniteSet({x \in list : x < r})
  <2>1. {x \in list : x < r} \subseteq Register
    OBVIOUS
  <2>2. QED
    BY <1>1, <2>1, FS_Subset
<1>3. QED
  BY <1>2, FS_CardinalityType DEF Below

\* One unit: it uses the bus, and only the unit of the pc moves the pc.
LEMMA UnitKeeps ==
  ASSUME NEW c, NEW x, Held(x), NEW i, i.rn \in Register, i.writeback => i.rn # 15,
         NEW list \in SUBSET Register, NEW low \in Int, NEW far \in Word, NEW r \in Register
  PROVE  /\ Held(BlockUnit(x, i, list, low, far, r))
         /\ (i.load => r # 15) /\ Busied(c, x) => Busied(c, BlockUnit(x, i, list, low, far, r))
<1> DEFINE Rebased(y) == IF i.writeback /\ Below(list, r) = 0 THEN SetReg(y, i.rn, far) ELSE y
           at == Wrap(low + 4 * (Below(list, r) + (IF PreUpwards(i) THEN 1 ELSE 0)))
           U == BlockUnit(x, i, list, low, far, r)
<1>1. U = IF i.load THEN SetReg(Rebased(Read(x, "word", at)), r, ReadAs(x, "word", at))
          ELSE Rebased(Write(x, at, GetReg(x, r)))
  BY Zenon DEF BlockUnit
<1>2. at \in Word
  <2>1. low + 4 * (Below(list, r) + (IF PreUpwards(i) THEN 1 ELSE 0)) \in Int
    BY BelowIs
  <2>2. QED
    BY <2>1, WrapWord, Zenon
<1>3. ASSUME NEW y, Held(y) PROVE Held(Rebased(y))
  BY <1>3, SetAlike, Zenon
<1>4. ASSUME NEW y, Busied(c, y) PROVE Busied(c, Rebased(y))
  <2>1. CASE i.writeback /\ Below(list, r) = 0
    BY <1>4, <2>1, SetBusied, BusiedHeld, Zenon
  <2>2. CASE ~(i.writeback /\ Below(list, r) = 0)
    BY <1>4, <2>2, Zenon
  <2>3. QED
    BY <2>1, <2>2, Zenon
<1> HIDE DEF Rebased, at, U
<1> DEFINE v == ReadAs(x, "word", at)
           y == Rebased(Read(x, "word", at))
           z == Rebased(Write(x, at, GetReg(x, r)))
<1>5. v \in Word
  <2>1. "word" \in LoadKind
    BY DEF LoadKind
  <2>2. QED
    BY <1>2, <2>1, ReadWord, Zenon
<1>6. Held(y) /\ Held(z)
  BY <1>3, TouchHeld, Zenon DEF Read, Write
<1>7. Busied(c, x) => Busied(c, y) /\ Busied(c, z)
  BY <1>4, AccessBusied, Zenon
<1> HIDE DEF v, y, z
<1>8. Held(SetReg(y, r, v)) /\ (r # 15 /\ Busied(c, y) => Busied(c, SetReg(y, r, v)))
  BY <1>5, <1>6, SetAlike, SetBusied, Zenon
<1>9. CASE i.load
  <2>1. U = SetReg(y, r, v)
    BY <1>1, <1>9, Zenon DEF y, v
  <2>2. QED
    BY <1>7, <1>8, <1>9, <2>1, Zenon DEF U
<1>10. CASE ~i.load
  <2>1. U = z
    BY <1>1, <1>10, Zenon DEF z
  <2>2. QED
    BY <1>6, <1>7, <1>10, <2>1, Zenon DEF U
<1>11. QED
  BY <1>9, <1>10, Zenon

\* All units.
LEMMA BlockUnitsKeep ==
  ASSUME NEW c, NEW x, Held(x), NEW i, i.rn \in Register, i.writeback => i.rn # 15,
         NEW list \in SUBSET Register, NEW low \in Int, NEW far \in Word
  PROVE  /\ Held(BlockUnits(x, i, list, low, far))
         /\ (i.load => 15 \notin list) /\ Busied(c, x) => Busied(c, BlockUnits(x, i, list, low, far))
<1>1. PICK g : AreUnits(g, x, i, list, low, far, 16) /\ BlockUnits(x, i, list, low, far) = g[16]
  BY BlockUnitsAre, Zenon
<1> DEFINE Good(m) == Held(g[m]) /\ ((i.load => 15 \notin list) /\ Busied(c, x) => Busied(c, g[m]))
           T == {m \in 0 .. 16 : ~ Good(m)}
<1>2. g[0] = x
  BY <1>1, Zenon DEF AreUnits
<1>3. ASSUME NEW m \in 1 .. 16, Good(m - 1) PROVE Good(m)
  <2>1. g[m] = IF m - 1 \in list THEN BlockUnit(g[m - 1], i, list, low, far, m - 1) ELSE g[m - 1]
    BY <1>1, Zenon DEF AreUnits
  <2>2. CASE m - 1 \in list
    <3>1. m - 1 \in Register /\ (i.load /\ (i.load => 15 \notin list) => m - 1 # 15)
      BY <2>2
    <3> DEFINE r == m - 1
               y == g[m - 1]
    <3> HIDE DEF r
    <3>2. Held(y) /\ ((i.load => 15 \notin list) /\ Busied(c, x) => Busied(c, y))
      BY <1>3, Zenon
    <3> HIDE DEF y
    <3>3. /\ Held(BlockUnit(y, i, list, low, far, r))
          /\ (i.load => r # 15) /\ Busied(c, y) => Busied(c, BlockUnit(y, i, list, low, far, r))
      BY <3>1, <3>2, UnitKeeps, Zenon DEF r
    <3>4. g[m] = BlockUnit(y, i, list, low, far, r)
      BY <2>1, <2>2, Zenon DEF y, r
    <3>5. QED
      BY <3>1, <3>2, <3>3, <3>4, Zenon DEF r
  <2>3. CASE m - 1 \notin list
    BY <1>3, <2>1, <2>3, Zenon
  <2>4. QED
    BY <2>2, <2>3, Zenon
<1>4. Good(0)
  BY <1>2, Zenon
<1> HIDE DEF Good
<1>5. T = {}
  <2> SUFFICES ASSUME T # {} PROVE FALSE
    OBVIOUS
  <2>1. T \in SUBSET Nat
    OBVIOUS
  <2>2. PICK m \in T : \A y \in T : m <= y
    BY <2>1, NatLeast
  <2>3. m \in 1 .. 16
    BY <1>4, <2>2
  <2>4. m - 1 \in 0 .. 16 /\ m - 1 \notin T
    BY <2>2, <2>3
  <2>5. Good(m - 1)
    BY <2>4
  <2>6. QED
    BY <1>3, <2>2, <2>3, <2>5
<1>6. Good(16)
  BY <1>5
<1>7. QED
  BY <1>1, <1>6, Zenon DEF Good

\* Block transfers: the user's bank, the pc with its status, and the base in
\* the list.
LEMMA BlockDataTransferSettles ==
  ASSUME NEW c, InArm(c), NEW i, i.op = "BlockDataTransfer", ArmEncoding(i), Predictable(c, i)
  PROVE  Settled(ARM_BlockDataTransfer(c, i))
<1> DEFINE list == IF i.list = {} THEN {15} ELSE i.list
           bytes == IF i.list = {} THEN 64 ELSE 4 * Cardinality(i.list)
           switch == /\ i.userMode
                     /\ ~(i.load /\ 15 \in list)
                     /\ c.cpsr.mode \notin {ModeNumber.usr, ModeNumber.sys}
           base == GetReg(c, i.rn)
           far == Wrap(IF i.add THEN base + bytes ELSE base - bytes)
           low == IF i.add THEN base ELSE far
           c1 == IF switch THEN SwitchMode(c, ModeNumber.usr) ELSE c
           c0 == Advance(Nonsequential(c1), 4)
           moved == BlockUnits(c0, i, list, low, far)
           loaded == IF switch THEN [Idle(moved) EXCEPT !.conflict = 2] ELSE Idle(moved)
           returned == IF i.userMode THEN RestorePSR(loaded) ELSE loaded
           c2 == CASE ~i.load -> moved
                   [] i.load /\ 15 \in list -> ReloadSame(returned)
                   [] OTHER -> loaded
<1>1. i.rn \in Register /\ i.list \subseteq Register /\ (i.writeback => i.rn # 15)
  <2>1. i.rn \in Register /\ i.list \subseteq Register
    BY Zenon DEF ArmEncoding
  <2>2. i.writeback => i.rn # 15
    BY Zenon DEF Predictable
  <2>3. QED
    BY <2>1, <2>2, Zenon
<1>2. Fed(c) /\ Held(c) /\ Stride(c.cpsr.t) = 4 /\ 4 \in Int
  BY InArmIs, Zenon
<1>3. base \in Int
  BY <1>1, <1>2, GetRegWord, WordInt, Zenon
<1>4. bytes \in Int
  BY <1>1, BelowIs
<1>5. list \in SUBSET Register
  BY <1>1 DEF Register
<1> HIDE DEF base, bytes, list
<1>6. far \in Word /\ low \in Int
  <2>1. (IF i.add THEN base + bytes ELSE base - bytes) \in Int
    BY <1>3, <1>4
  <2>2. far \in Word
    BY <2>1, WrapWord, Zenon
  <2>3. QED
    BY <1>3, <2>2, WordInt, Zenon
<1> HIDE DEF far, low
<1>7. Alike(c, c1)
  <2>1. ModeNumber.usr \in 0 .. 31
    BY ModesAre, Zenon
  <2>2. QED
    BY <1>2, <2>1, SwitchAlike, AlikeSelf, Zenon
<1> HIDE DEF c1
<1>8. Busied(c, c0) /\ Held(c0)
  <2>1. Busied(c, c0)
    BY <1>2, <1>7, StepBusied, Zenon
  <2>2. QED
    BY <2>1, BusiedHeld, Zenon
<1> HIDE DEF c0
<1>9. /\ Held(moved)
      /\ (i.load => 15 \notin list) => Busied(c, moved)
  <2>1. /\ Held(BlockUnits(c0, i, list, low, far))
        /\ (i.load => 15 \notin list) /\ Busied(c, c0)
             => Busied(c, BlockUnits(c0, i, list, low, far))
    BY <1>1, <1>5, <1>6, <1>8, BlockUnitsKeep, Zenon
  <2>2. QED
    BY <1>8, <2>1, Zenon
<1> HIDE DEF moved
<1>10. Held(loaded) /\ ((i.load => 15 \notin list) => Busied(c, loaded))
  <2> DEFINE e == Idle(moved)
  <2>1. Held(e)
    BY <1>9, TouchHeld, Zenon DEF Idle
  <2>2. (i.load => 15 \notin list) => Busied(c, e)
    BY <1>9, AccessBusied, Zenon
  <2> HIDE DEF e
  <2>3. Alike(e, [e EXCEPT !.conflict = 2])
    BY <2>1, ConflictAlike, Zenon
  <2>4. CASE switch
    <3>1. loaded = [e EXCEPT !.conflict = 2]
      BY <2>4, Zenon DEF e
    <3>2. QED
      BY <2>2, <2>3, <3>1, AlikeHeld, AlikeOn, Zenon
  <2>5. CASE ~switch
    <3>1. loaded = e
      BY <2>5, Zenon DEF e
    <3>2. QED
      BY <2>1, <2>2, <3>1, Zenon
  <2>6. QED
    BY <2>4, <2>5, Zenon
<1> HIDE DEF loaded
<1>11. Held(returned)
  BY <1>10, RestoreHeld, Zenon
<1> HIDE DEF returned
<1>12. ARM_BlockDataTransfer(c, i) = IF switch THEN SwitchMode(c2, c.cpsr.mode) ELSE c2
  BY Zenon DEF ARM_BlockDataTransfer, returned, loaded, moved, c0, c1, low, far, base, bytes, list
<1>13. CASE i.load /\ 15 \in list
  <2>1. ARM_BlockDataTransfer(c, i) = ReloadSame(returned)
    BY <1>12, <1>13, Zenon
  <2>2. QED
    BY <1>11, <2>1, SameSettles, Zenon
<1>14. CASE ~(i.load /\ 15 \in list)
  <2>1. c2 = moved \/ c2 = loaded
    BY <1>14, Zenon
  <2>2. Busied(c, c2)
    BY <1>9, <1>10, <1>14, <2>1, Zenon
  <2> HIDE DEF c2
  <2> DEFINE d == SwitchMode(c2, c.cpsr.mode)
  <2>3. Busied(c, d)
    <3>1. c.cpsr.mode \in 0 .. 31
      BY <1>2, HeldParts, Zenon
    <3>2. Alike(c2, d)
      BY <2>2, <3>1, BusiedHeld, SwitchAlike, Zenon
    <3> HIDE DEF d
    <3>3. QED
      BY <2>2, <3>2, AlikeOn, Zenon
  <2>4. ARM_BlockDataTransfer(c, i) \in {d, c2}
    BY <1>12, Zenon
  <2> HIDE DEF d
  <2>5. \A x : Busied(c, x) => Settled(x)
    BY <1>2, BusiedIsDone, DoneSettles, Zenon
  <2>6. QED
    BY <2>2, <2>3, <2>4, <2>5, Zenon
<1>15. QED
  BY <1>13, <1>14, Zenon

\* The CPU as a handler of the other state finds it.
InThumb(c) == Fed(c) /\ c.cpsr.t = TRUE

\* What a handler of the Thumb state starts from.
LEMMA InThumbIs ==
  ASSUME NEW c, InThumb(c)
  PROVE  /\ Fed(c) /\ Held(c) /\ c.cpsr.t = TRUE /\ TRUE \in BOOLEAN /\ Alike(c, c)
         /\ Busied(c, Busy(c)) /\ Held(Busy(c))
         /\ \A d : Alike(c, d) => Done(c, Stepped(d))
<1>1. Fed(c) /\ c.cpsr.t = TRUE /\ TRUE \in BOOLEAN
  BY Zenon DEF InThumb
<1>2. Held(c)
  BY <1>1, Zenon DEF Fed
<1>3. Alike(c, c)
  BY <1>2, AlikeSelf, Zenon
<1>4. Stride(c.cpsr.t) = 2
  BY <1>1, Zenon DEF Stride
<1>5. 2 \in Int
  OBVIOUS
<1>6. Busied(c, Busy(c))
  BY <1>3, <1>4, <1>5, StepBusied, Zenon DEF Busy
<1>7. \A d : Alike(c, d) => Done(c, Stepped(d))
  BY <1>4, <1>5, StepDone, Zenon DEF Stepped
<1>8. QED
  BY <1>1, <1>2, <1>3, <1>6, <1>7, BusiedHeld, Zenon

\* How it may end.
LEMMA DoneThumb ==
  ASSUME NEW c, InThumb(c)
  PROVE  /\ \A d : Alike(c, d) => Settled(Stepped(d))
         /\ \A d : Done(c, d) => Settled(d)
         /\ \A d : Busied(c, d) => Settled(d)
BY InThumbIs, BusiedIsDone, DoneSettles, Zenon

\* The low registers and the two that push and pop name.
LEMMA LowIs ==
  /\ LowRegister \subseteq Register /\ \A r \in LowRegister : r # 15
  /\ {13, 14, 15} \subseteq Register
BY DEF LowRegister, Register

\* A value and its flags.
LEMMA KeepAlike ==
  ASSUME NEW d, Held(d), NEW a, a.value \in Word, NEW rd \in LowRegister
  PROVE  Alike(d, Keep(d, a, rd))
<1> DEFINE e == SetFlags(d, a)
<1>1. Alike(d, e) /\ Held(e)
  BY FlagsAlike, AlikeHeld, Zenon
<1> HIDE DEF e
<1>2. Alike(e, PutReg(e, rd, a.value))
  BY <1>1, LowIs, PutAlike, Zenon
<1>3. Alike(d, PutReg(e, rd, a.value))
  BY <1>1, <1>2, AlikeOn, Zenon
<1>4. QED
  BY <1>3, Zenon DEF Keep, e

\* Shifts by a number,
LEMMA MoveShiftedRegisterSettles ==
  ASSUME NEW c, InThumb(c), NEW i, i.op = "MoveShiftedRegister", ThumbEncoding(i)
  PROVE  Settled(Thumb_MoveShiftedRegister(c, i))
<1> DEFINE immediate == TRUE
           s == DoShift(i.type, c.reg[i.rs], i.amount, c.cpsr.c, immediate)
           a == Logical(s.value, s.carry, c.cpsr.v)
           d == Keep(c, a, i.rd)
<1>1. i.rd \in LowRegister /\ i.rs \in LowRegister /\ i.type \in ShiftKind /\ i.amount \in Nat
  <2>1. {i.rd, i.rs} \subseteq LowRegister /\ i.type \in ShiftKind /\ i.amount \in Nat
    BY Zenon DEF ThumbEncoding
  <2>2. QED
    BY <2>1, Zenon
<1>2. s.value \in Word
  <2>1. c.reg[i.rs] \in Word
    BY <1>1, InThumbIs, LowIs, GetRegWord, Zenon
  <2> HIDE DEF immediate
  <2>2. QED
    BY <1>1, <2>1, ShiftWord, Zenon
<1> HIDE DEF immediate, s
<1>3. a.value \in Word
  BY <1>2, LogicalValue, Zenon
<1> HIDE DEF a
<1>4. Alike(c, d)
  BY <1>1, <1>3, InThumbIs, KeepAlike, Zenon
<1> HIDE DEF d
<1>5. Settled(Stepped(d))
  BY <1>4, DoneThumb, Zenon
<1>6. QED
  BY <1>5, Zenon DEF Thumb_MoveShiftedRegister, d, a, s, immediate

\* sums and differences of three registers,
LEMMA AddSubSettles ==
  ASSUME NEW c, InThumb(c), NEW i, i.op = "AddSub", ThumbEncoding(i)
  PROVE  Settled(Thumb_AddSub(c, i))
<1> DEFINE operand == IF i.immediate THEN i.field3 ELSE c.reg[i.field3]
           a == IF i.subtract THEN Subtracted(c.reg[i.rs], operand, 0)
                ELSE Added(c.reg[i.rs], operand, 0)
           d == Keep(c, a, i.rd)
<1>1. i.rd \in LowRegister /\ i.rs \in LowRegister /\ i.field3 \in LowRegister
  <2>1. {i.rd, i.rs, i.field3} \subseteq LowRegister
    BY Zenon DEF ThumbEncoding
  <2>2. QED
    BY <2>1, Zenon
<1>2. i.field3 \in Int
  BY <1>1 DEF LowRegister
<1>3. c.reg[i.rs] \in Int /\ c.reg[i.field3] \in Int
  BY <1>1, InThumbIs, LowIs, GetRegWord, WordInt, Zenon
<1>4. operand \in Int
  BY <1>2, <1>3
<1> HIDE DEF operand
<1>5. a.value \in Word
  BY <1>3, <1>4, ComputedWord
<1> HIDE DEF a
<1>6. Alike(c, d)
  BY <1>1, <1>5, InThumbIs, KeepAlike, Zenon
<1> HIDE DEF d
<1>7. Settled(Stepped(d))
  BY <1>6, DoneThumb, Zenon
<1>8. QED
  BY <1>7, Zenon DEF Thumb_AddSub, d, a, operand

\* and those with a number.
LEMMA Op3Settles ==
  ASSUME NEW c, InThumb(c), NEW i, i.op = "Op3", ThumbEncoding(i)
  PROVE  Settled(Thumb_Op3(c, i))
<1> DEFINE d == CASE i.code = "MOV" -> Keep(c, Logical(i.value, c.cpsr.c, c.cpsr.v), i.rd)
                  [] i.code = "CMP" -> SetFlags(c, Subtracted(c.reg[i.rd], i.value, 0))
                  [] i.code = "ADD" -> Keep(c, Added(c.reg[i.rd], i.value, 0), i.rd)
                  [] i.code = "SUB" -> Keep(c, Subtracted(c.reg[i.rd], i.value, 0), i.rd)
           m == Logical(i.value, c.cpsr.c, c.cpsr.v)
           s == Subtracted(c.reg[i.rd], i.value, 0)
           a == Added(c.reg[i.rd], i.value, 0)
<1>1. i.code \in {"MOV", "CMP", "ADD", "SUB"} /\ i.rd \in LowRegister /\ i.value \in Word
  BY Zenon DEF ThumbEncoding
<1>2. c.reg[i.rd] \in Int /\ i.value \in Int
  BY <1>1, InThumbIs, LowIs, GetRegWord, WordInt, Zenon
<1>3. m.value \in Word
  BY <1>1, LogicalValue, Zenon
<1>4. s.value \in Word /\ a.value \in Word
  BY <1>2, ComputedWord
<1>5. d = Keep(c, m, i.rd) \/ d = SetFlags(c, s) \/ d = Keep(c, a, i.rd) \/ d = Keep(c, s, i.rd)
  <2> HIDE DEF m, s, a
  <2>1. /\ i.code = "MOV" => d = Keep(c, m, i.rd)
        /\ i.code = "CMP" => d = SetFlags(c, s)
        /\ i.code = "ADD" => d = Keep(c, a, i.rd)
        /\ i.code = "SUB" => d = Keep(c, s, i.rd)
    BY Zenon DEF m, s, a
  <2> HIDE DEF d
  <2>2. QED
    BY <1>1, <2>1, Zenon
<1> HIDE DEF m, s, a, d
<1>6. Held(c)
  BY InThumbIs, Zenon
<1>7. Alike(c, Keep(c, m, i.rd)) /\ Alike(c, Keep(c, a, i.rd)) /\ Alike(c, Keep(c, s, i.rd))
  BY <1>1, <1>3, <1>4, <1>6, KeepAlike, Zenon
<1>8. Alike(c, SetFlags(c, s))
  BY <1>6, FlagsAlike, Zenon
<1>9. Alike(c, d)
  BY <1>5, <1>7, <1>8, Zenon
<1>10. Settled(Stepped(d))
  BY <1>9, DoneThumb, Zenon
<1>11. QED
  BY <1>10, Zenon DEF Thumb_Op3, d

\* A result kept in a low register with its flags,
LEMMA DoneKept ==
  ASSUME NEW c, NEW d, Done(c, d), NEW a, a.value \in Word, NEW rd \in LowRegister
  PROVE  Done(c, Keep(d, a, rd))
BY DoneHeld, KeepAlike, AlikeOn, Zenon

\* also after an access to the bus.
LEMMA BusiedKept ==
  ASSUME NEW c, NEW d, Busied(c, d), NEW a, a.value \in Word, NEW rd \in LowRegister
  PROVE  Busied(c, Keep(d, a, rd))
BY BusiedHeld, KeepAlike, AlikeOn, Zenon

\* The operations on two low registers, of which shifts and MUL take an idle
\* cycle.
LEMMA ALUSettles ==
  ASSUME NEW c, InThumb(c), NEW i, i.op = "ALU", ThumbEncoding(i)
  PROVE  Settled(Thumb_ALU(c, i))
<1> DEFINE a == c.reg[i.rd]
           b == c.reg[i.rs]
           immediate == FALSE
           s == DoShift(i.code, a, b, c.cpsr.c, immediate)
           borrow == IF c.cpsr.c THEN 0 ELSE 1
           Flags(r) == Logical(r, c.cpsr.c, c.cpsr.v)
           step == Stepped(c)
           working == Idle(Busy(c))
           d == Thumb_ALU(c, i)
<1>1. /\ i.code \in ShiftKind \cup {"AND", "EOR", "ORR", "BIC", "MVN", "TST", "ADC", "SBC",
                                       "NEG", "CMP", "CMN", "MUL"}
      /\ i.rd \in LowRegister /\ i.rs \in LowRegister
  <2>1. /\ i.code \in ShiftKind \cup {"AND", "EOR", "ORR", "BIC", "MVN", "TST", "ADC", "SBC",
                                       "NEG", "CMP", "CMN", "MUL"}
        /\ {i.rd, i.rs} \subseteq LowRegister
    BY Zenon DEF ThumbEncoding
  <2>2. QED
    BY <2>1, Zenon
<1>2. a \in Word /\ b \in Word /\ a \in Int /\ b \in Int /\ b \in Nat
  BY <1>1, InThumbIs, LowIs, GetRegWord, WordInt, Zenon
<1>3. Held(step) /\ Done(c, step)
  BY InThumbIs, DoneHeld, Zenon
<1>4. Busied(c, working)
  BY InThumbIs, AccessBusied, Zenon
<1>5. borrow \in Int /\ 1 - borrow \in Int /\ 0 \in Int
  OBVIOUS
<1> HIDE DEF borrow, step, working
<1>6. \A x \in Word : Flags(x).value \in Word
  BY LogicalValue, Zenon
<1>7. /\ And(a, b) \in Word /\ Xor(a, b) \in Word /\ Or(a, b) \in Word /\ And(a, Not(b)) \in Word
      /\ Not(b) \in Word
  <2> HIDE DEF a, b
  <2>1. QED
    BY <1>2, BitwiseWord, NotWord
<1>8. /\ \A x \in Int : Added(a, b, x).value \in Word /\ Subtracted(a, b, x).value \in Word
      /\ Subtracted(0, b, 0).value \in Word /\ Product(a, b) \in Word
  <2> HIDE DEF a, b
  <2>1. QED
    BY <1>2, ComputedWord
<1>9. ASSUME NEW x, x.value \in Word PROVE Settled(Keep(step, x, i.rd)) /\ Settled(Keep(working, x, i.rd))
  BY <1>1, <1>3, <1>4, <1>9, DoneKept, BusiedKept, DoneThumb, Zenon
<1>10. ASSUME NEW x PROVE Settled(SetFlags(step, x))
  <2>1. Done(c, SetFlags(step, x))
    BY <1>3, FlagsAlike, AlikeOn, Zenon
  <2>2. QED
    BY <2>1, DoneThumb, Zenon
<1> HIDE DEF a, b, s, immediate, d, Flags
<1>11. ASSUME i.code = "AND" PROVE Settled(d)
  <2>1. d = Keep(step, Flags(And(a, b)), i.rd)
    BY <1>11, Zenon DEF d, a, b, Flags, Thumb_ALU, step, borrow, working, ShiftKind
  <2>2. (Flags(And(a, b))).value \in Word
    BY <1>6, <1>7, Zenon
  <2>3. QED
    BY <1>9, <2>1, <2>2, Zenon
<1>12. ASSUME i.code = "EOR" PROVE Settled(d)
  <2>1. d = Keep(step, Flags(Xor(a, b)), i.rd)
    BY <1>12, Zenon DEF d, a, b, Flags, Thumb_ALU, step, borrow, working, ShiftKind
  <2>2. (Flags(Xor(a, b))).value \in Word
    BY <1>6, <1>7, Zenon
  <2>3. QED
    BY <1>9, <2>1, <2>2, Zenon
<1>13. ASSUME i.code = "ORR" PROVE Settled(d)
  <2>1. d = Keep(step, Flags(Or(a, b)), i.rd)
    BY <1>13, Zenon DEF d, a, b, Flags, Thumb_ALU, step, borrow, working, ShiftKind
  <2>2. (Flags(Or(a, b))).value \in Word
    BY <1>6, <1>7, Zenon
  <2>3. QED
    BY <1>9, <2>1, <2>2, Zenon
<1>14. ASSUME i.code = "BIC" PROVE Settled(d)
  <2>1. d = Keep(step, Flags(And(a, Not(b))), i.rd)
    BY <1>14, Zenon DEF d, a, b, Flags, Thumb_ALU, step, borrow, working, ShiftKind
  <2>2. (Flags(And(a, Not(b)))).value \in Word
    BY <1>6, <1>7, Zenon
  <2>3. QED
    BY <1>9, <2>1, <2>2, Zenon
<1>15. ASSUME i.code = "MVN" PROVE Settled(d)
  <2>1. d = Keep(step, Flags(Not(b)), i.rd)
    BY <1>15, Zenon DEF d, a, b, Flags, Thumb_ALU, step, borrow, working, ShiftKind
  <2>2. (Flags(Not(b))).value \in Word
    BY <1>6, <1>7, Zenon
  <2>3. QED
    BY <1>9, <2>1, <2>2, Zenon
<1>16. ASSUME i.code = "TST" PROVE Settled(d)
  <2>1. d = SetFlags(step, Flags(And(a, b)))
    BY <1>16, Zenon DEF d, a, b, Flags, Thumb_ALU, step, borrow, working, ShiftKind
  <2>2. QED
    BY <1>10, <2>1, Zenon
<1>17. ASSUME i.code = "ADC" PROVE Settled(d)
  <2>1. d = Keep(step, Added(a, b, 1 - borrow), i.rd)
    BY <1>17, Zenon DEF d, a, b, Flags, Thumb_ALU, step, borrow, working, ShiftKind
  <2>2. (Added(a, b, 1 - borrow)).value \in Word
    BY <1>5, <1>8, Zenon
  <2>3. QED
    BY <1>9, <2>1, <2>2, Zenon
<1>18. ASSUME i.code = "SBC" PROVE Settled(d)
  <2>1. d = Keep(step, Subtracted(a, b, borrow), i.rd)
    BY <1>18, Zenon DEF d, a, b, Flags, Thumb_ALU, step, borrow, working, ShiftKind
  <2>2. (Subtracted(a, b, borrow)).value \in Word
    BY <1>5, <1>8, Zenon
  <2>3. QED
    BY <1>9, <2>1, <2>2, Zenon
<1>19. ASSUME i.code = "NEG" PROVE Settled(d)
  <2>1. d = Keep(step, Subtracted(0, b, 0), i.rd)
    BY <1>19, Zenon DEF d, a, b, Flags, Thumb_ALU, step, borrow, working, ShiftKind
  <2>2. (Subtracted(0, b, 0)).value \in Word
    BY <1>8, Zenon
  <2>3. QED
    BY <1>9, <2>1, <2>2, Zenon
<1>20. ASSUME i.code = "CMP" PROVE Settled(d)
  <2>1. d = SetFlags(step, Subtracted(a, b, 0))
    BY <1>20, Zenon DEF d, a, b, Flags, Thumb_ALU, step, borrow, working, ShiftKind
  <2>2. QED
    BY <1>10, <2>1, Zenon
<1>21. ASSUME i.code = "CMN" PROVE Settled(d)
  <2>1. d = SetFlags(step, Added(a, b, 0))
    BY <1>21, Zenon DEF d, a, b, Flags, Thumb_ALU, step, borrow, working, ShiftKind
  <2>2. QED
    BY <1>10, <2>1, Zenon
<1>22. ASSUME i.code = "MUL" PROVE Settled(d)
  <2>1. d = Keep(working, Logical(Product(a, b), c.booth, c.cpsr.v), i.rd)
    BY <1>22, Zenon DEF d, a, b, Flags, Thumb_ALU, step, borrow, working, ShiftKind
  <2>2. (Logical(Product(a, b), c.booth, c.cpsr.v)).value \in Word
    <3>1. Product(a, b) \in Word
      BY <1>8, Zenon
    <3> DEFINE p == Product(a, b)
    <3> HIDE DEF p
    <3>2. Logical(p, c.booth, c.cpsr.v).value = p
      BY LogicalValue, Zenon
    <3>3. QED
      BY <3>1, <3>2, Zenon DEF p
  <2>3. QED
    BY <1>9, <2>1, <2>2, Zenon
<1>23. ASSUME i.code \in ShiftKind PROVE Settled(d)
  <2>1. i.code \notin {"AND", "EOR", "ORR", "BIC", "MVN", "TST", "ADC", "SBC",
                       "NEG", "CMP", "CMN", "MUL"}
    BY <1>23 DEF ShiftKind
  <2>2. d = Keep(working, Logical(s.value, s.carry, c.cpsr.v), i.rd)
    BY <1>23, <2>1, Zenon DEF d, a, b, s, immediate, Thumb_ALU, working
  <2>3. s.value \in Word
    BY <1>2, <1>23, ShiftWord, Zenon DEF s
  <2>4. Logical(s.value, s.carry, c.cpsr.v).value \in Word
    BY <2>3, LogicalValue, Zenon
  <2>5. QED
    BY <1>9, <2>2, <2>4, Zenon
<1>24. Settled(d)
  BY <1>1, <1>11, <1>12, <1>13, <1>14, <1>15, <1>16, <1>17, <1>18, <1>19, <1>20, <1>21, <1>22, <1>23, Zenon
<1>25. QED
  BY <1>24, Zenon DEF d

\* Jumps, and steps that only write a register.
LEMMA ThumbJumps ==
  ASSUME NEW c, InThumb(c), NEW at \in Word
  PROVE  /\ Settled(Jump(c, at, TRUE))
         /\ Settled(Jump([c EXCEPT !.cpsr.t = FALSE], at, FALSE))
         /\ \A d : Held(d) /\ d.cpsr.t = c.cpsr.t => Settled(Jump(d, at, TRUE))
<1>1. Held(c) /\ c.cpsr.t = TRUE /\ TRUE \in BOOLEAN /\ FALSE \in BOOLEAN
  BY InThumbIs, Zenon
<1> DEFINE d == [c EXCEPT !.cpsr.t = FALSE]
<1>2. Held(d) /\ d.cpsr.t = FALSE
  BY <1>1, ThumbKeeps, Zenon
<1> HIDE DEF d
<1>3. Settled(Jump(d, at, FALSE))
  BY <1>1, <1>2, JumpSettles, Zenon
<1>4. QED
  BY <1>1, <1>3, JumpSettles, Zenon DEF d

\* A register other than r15 is put and the CPU moves on.
LEMMA ThumbPuts ==
  ASSUME NEW c, InThumb(c), NEW r \in Register, r # 15, NEW v \in Word
  PROVE  Settled(Stepped(PutReg(c, r, v)))
BY InThumbIs, PutAlike, DoneThumb, Zenon

\* Operations on high registers, the pc among them, and BX.
LEMMA HighRegisterOps_BXSettles ==
  ASSUME NEW c, InThumb(c), NEW i, i.op = "HighRegisterOps_BX", ThumbEncoding(i)
  PROVE  Settled(Thumb_HighRegisterOps_BX(c, i))
<1> DEFINE operand == IF i.rs = 15 THEN Aligned(c.reg[15], 2) ELSE c.reg[i.rs]
           value == IF i.code = "ADD" THEN Wrap(c.reg[i.rd] + operand) ELSE operand
           x == Subtracted(c.reg[i.rd], operand, 0)
           d == Thumb_HighRegisterOps_BX(c, i)
<1>1. i.code \in {"ADD", "CMP", "MOV", "BX"} /\ i.rd \in Register /\ i.rs \in Register
  <2>1. i.code \in {"ADD", "CMP", "MOV", "BX"} /\ {i.rd, i.rs} \subseteq Register
    BY Zenon DEF ThumbEncoding
  <2>2. QED
    BY <2>1, Zenon
<1>2. Held(c)
  BY InThumbIs, Zenon
<1>3. operand \in Word
  <2>1. c.reg[15] \in Word /\ c.reg[i.rs] \in Word
    BY <1>1, <1>2, HeldParts, Zenon
  <2>2. 2 \in {2, 4}
    OBVIOUS
  <2>3. Aligned(c.reg[15], 2) \in Word
    BY <2>1, <2>2, AlignedWord, Zenon
  <2>4. QED
    BY <2>1, <2>3, Zenon
<1> HIDE DEF operand
<1>4. value \in Word
  <2>1. c.reg[i.rd] \in Int /\ operand \in Int
    BY <1>1, <1>2, <1>3, GetRegWord, WordInt, Zenon
  <2>2. c.reg[i.rd] + operand \in Int
    BY <2>1
  <2>3. QED
    BY <1>3, <2>2, WrapWord, Zenon
<1>5. Aligned(value, 2) \in Word
  <2>1. 2 \in {2, 4}
    OBVIOUS
  <2> HIDE DEF value
  <2>2. QED
    BY <1>4, <2>1, AlignedWord, Zenon
<1> HIDE DEF value, x, d
<1>6. operand % 2 = 0 \/ operand % 2 = 1
  <2>1. operand \in Int
    BY <1>3, WordInt, Zenon
  <2>2. QED
    BY <2>1
<1>7. ASSUME i.code = "BX", operand % 2 = 1 PROVE Settled(d)
  <2>1. operand % 2 # 0
    BY <1>7
  <2>2. d = Jump(c, operand - 1, TRUE)
    BY <1>7, <2>1, Zenon DEF d, operand, Thumb_HighRegisterOps_BX
  <2>3. operand - 1 \in Word
    BY <1>3, <1>7, OddWord, Zenon
  <2>4. QED
    BY <2>2, <2>3, ThumbJumps, Zenon
<1>8. ASSUME i.code = "BX", operand % 2 = 0 PROVE Settled(d)
  <2>1. operand % 2 # 1
    BY <1>8
  <2>2. d = Jump([c EXCEPT !.cpsr.t = FALSE], operand, FALSE)
    BY <1>8, <2>1, Zenon DEF d, operand, Thumb_HighRegisterOps_BX
  <2>3. QED
    BY <1>3, <2>2, ThumbJumps, Zenon
<1>9. ASSUME i.code = "CMP" PROVE Settled(d)
  <2>1. d = Stepped(SetFlags(c, x))
    BY <1>9, Zenon DEF d, x, operand, Thumb_HighRegisterOps_BX
  <2>2. Alike(c, SetFlags(c, x))
    BY <1>2, FlagsAlike, Zenon
  <2>3. QED
    BY <2>1, <2>2, DoneThumb, Zenon
<1>10. ASSUME i.code \in {"ADD", "MOV"}, i.rd = 15 PROVE Settled(d)
  <2>1. d = Jump(c, Aligned(value, 2), TRUE)
    BY <1>10, Zenon DEF d, value, operand, Thumb_HighRegisterOps_BX
  <2>2. QED
    BY <1>5, <2>1, ThumbJumps, Zenon
<1>11. ASSUME i.code \in {"ADD", "MOV"}, i.rd # 15 PROVE Settled(d)
  <2>1. d = Stepped(PutReg(c, i.rd, value))
    BY <1>11, Zenon DEF d, value, operand, Thumb_HighRegisterOps_BX
  <2>2. QED
    BY <1>1, <1>4, <1>11, <2>1, ThumbPuts, Zenon
<1>12. Settled(d)
  BY <1>1, <1>6, <1>7, <1>8, <1>9, <1>10, <1>11, Zenon
<1>13. QED
  BY <1>12, Zenon DEF d

\* One access: a load into a register, a store.
LEMMA LoadSettles ==
  ASSUME NEW c, InThumb(c), NEW kind \in LoadKind, NEW at \in Word, NEW rd \in LowRegister
  PROVE  Settled(Load(c, kind, at, rd))
<1> DEFINE d == Idle(Read(Busy(c), kind, at))
           v == ReadAs(c, kind, at)
<1>1. Busied(c, d)
  BY InThumbIs, AccessBusied, Zenon
<1>2. v \in Word
  BY InThumbIs, ReadWord, Zenon
<1> HIDE DEF d, v
<1>3. Alike(d, PutReg(d, rd, v))
  BY <1>1, <1>2, BusiedHeld, LowIs, PutAlike, Zenon
<1>4. Settled(PutReg(d, rd, v))
  BY <1>1, <1>3, AlikeOn, DoneThumb, Zenon
<1>5. QED
  BY <1>4, Zenon DEF Load, d, v

\* A store moves on.
LEMMA StoreSettles ==
  ASSUME NEW c, InThumb(c), NEW kind, NEW at, NEW rd
  PROVE  Settled(Store(c, kind, at, rd))
<1> DEFINE w == c.reg[rd]
           v == CASE kind = "byte" -> w % 2 ^ ByteBits
                  [] kind = "half" -> w % 2 ^ HalfBits
                  [] OTHER -> w
<1>1. Store(c, kind, at, rd) = Write(Busy(c), at, v)
  BY Zenon DEF Store
<1> HIDE DEF v
<1>2. Busied(c, Write(Busy(c), at, v))
  BY InThumbIs, AccessBusied, Zenon
<1>3. QED
  BY <1>1, <1>2, DoneThumb, Zenon

\* The addresses are words.
LEMMA SumWord ==
  ASSUME NEW x \in Word, NEW y \in Int
  PROVE  Wrap(x + y) \in Word /\ Wrap(x - y) \in Word
<1>1. x \in Int
  BY WordInt, Zenon
<1>2. x + y \in Int /\ x - y \in Int
  BY <1>1
<1>3. QED
  BY <1>2, WrapWord, Zenon

\* The base of loads and addresses relative to the pc.
LEMMA PCAlignedInt ==
  ASSUME NEW c, Held(c)
  PROVE  PCAligned(c) \in Int
<1>1. c.reg[15] \in Word /\ c.reg[15] \in Int /\ 4 \in {2, 4}
  <2>1. c.reg[15] \in Word /\ c.reg[15] \in Int
    BY HeldParts, WordInt, Zenon
  <2>2. QED
    BY <2>1
<1>2. Aligned(c.reg[15], 4) \in Int
  BY <1>1, AlignedWord, WordInt, Zenon
<1>3. QED
  BY <1>1, <1>2 DEF PCAligned

\* A load or a store, as the instruction says.
LEMMA TransfersSettle ==
  ASSUME NEW c, InThumb(c), NEW kind \in LoadKind, NEW other, NEW at \in Word, NEW i,
         i.rd \in LowRegister
  PROVE  Settled(IF i.load THEN Load(c, kind, at, i.rd) ELSE Store(c, other, at, i.rd))
<1>1. Settled(Load(c, kind, at, i.rd)) /\ Settled(Store(c, other, at, i.rd))
  BY LoadSettles, StoreSettles, Zenon
<1>2. CASE i.load
  BY <1>1, <1>2, Zenon
<1>3. CASE ~i.load
  BY <1>1, <1>3, Zenon
<1>4. QED
  BY <1>2, <1>3, Zenon

\* The kinds of loads.
LEMMA KindsAre ==
  {"byte", "wordRotate", "byteSigned", "halfRotate", "halfSigned", "word"} \subseteq LoadKind
BY DEF LoadKind

\* A load relative to the pc,
LEMMA RelativePCSettles ==
  ASSUME NEW c, InThumb(c), NEW i, i.op = "LoadStoreRelativePC", ThumbEncoding(i)
  PROVE  Settled(Thumb_LoadStoreRelativePC(c, i))
<1>1. i.rd \in LowRegister /\ i.offset \in Nat
  BY Zenon DEF ThumbEncoding
<1>2. PCAligned(c) \in Int
  BY InThumbIs, PCAlignedInt, Zenon
<1>3. PCAligned(c) + 4 * i.offset \in Int
  BY <1>1, <1>2
<1>4. Wrap(PCAligned(c) + 4 * i.offset) \in Word
  BY <1>3, WrapWord, Zenon
<1>5. QED
  BY <1>1, <1>4, KindsAre, LoadSettles, Zenon DEF Thumb_LoadStoreRelativePC

\* transfers at an offset in a register,
LEMMA OffsetRegSettles ==
  ASSUME NEW c, InThumb(c), NEW i, ThumbEncoding(i),
         i.op \in {"LoadStoreOffsetReg", "LoadStoreSigned"}
  PROVE  Settled(Thumb_LoadStoreOffsetReg(c, i)) /\ Settled(Thumb_LoadStoreSigned(c, i))
<1>1. /\ i.rd \in LowRegister /\ i.rb \in LowRegister /\ i.ro \in LowRegister
      /\ i.kind \in LoadKind
  <2>1. /\ {i.rd, i.rb, i.ro} \subseteq LowRegister
        /\ i.kind \in {"byte", "wordRotate", "byteSigned", "halfRotate", "halfSigned"}
    BY Zenon DEF ThumbEncoding
  <2>2. QED
    BY <2>1, KindsAre, Zenon
<1>2. c.reg[i.rb] \in Word /\ c.reg[i.ro] \in Int
  BY <1>1, InThumbIs, LowIs, GetRegWord, WordInt, Zenon
<1>3. Wrap(c.reg[i.rb] + c.reg[i.ro]) \in Word
  BY <1>2, SumWord, Zenon
<1>4. QED
  BY <1>1, <1>3, TransfersSettle, Zenon DEF Thumb_LoadStoreOffsetReg, Thumb_LoadStoreSigned

\* at a fixed one,
LEMMA OffsetImmSettles ==
  ASSUME NEW c, InThumb(c), NEW i, i.op = "LoadStoreOffsetImm", ThumbEncoding(i)
  PROVE  Settled(Thumb_LoadStoreOffsetImm(c, i))
<1> DEFINE y == i.offset * (IF i.kind = "byte" THEN 1 ELSE 4)
<1>1. i.rd \in LowRegister /\ i.rb \in LowRegister /\ i.offset \in Nat /\ i.kind \in LoadKind
  <2>1. {i.rd, i.rb} \subseteq LowRegister /\ i.offset \in Nat /\ i.kind \in {"byte", "wordRotate"}
    BY Zenon DEF ThumbEncoding
  <2>2. QED
    BY <2>1, KindsAre, Zenon
<1>2. y \in Int
  <2>1. CASE i.kind = "byte"
    BY <1>1, <2>1
  <2>2. CASE i.kind # "byte"
    BY <1>1, <2>2
  <2>3. QED
    BY <2>1, <2>2
<1>3. c.reg[i.rb] \in Word
  BY <1>1, InThumbIs, LowIs, GetRegWord, Zenon
<1> HIDE DEF y
<1>4. Wrap(c.reg[i.rb] + y) \in Word
  BY <1>2, <1>3, SumWord, Zenon
<1>5. QED
  BY <1>1, <1>4, TransfersSettle, Zenon DEF Thumb_LoadStoreOffsetImm, y

\* of halfwords,
LEMMA HwordSettles ==
  ASSUME NEW c, InThumb(c), NEW i, i.op = "LoadStoreHword", ThumbEncoding(i)
  PROVE  Settled(Thumb_LoadStoreHword(c, i))
<1>1. i.rd \in LowRegister /\ i.rb \in LowRegister /\ i.offset \in Nat
  <2>1. {i.rd, i.rb} \subseteq LowRegister /\ i.offset \in Nat
    BY Zenon DEF ThumbEncoding
  <2>2. QED
    BY <2>1, Zenon
<1>2. 2 * i.offset \in Int
  BY <1>1
<1>3. c.reg[i.rb] \in Word
  BY <1>1, InThumbIs, LowIs, GetRegWord, Zenon
<1>4. Wrap(c.reg[i.rb] + 2 * i.offset) \in Word
  BY <1>2, <1>3, SumWord, Zenon
<1>5. QED
  BY <1>1, <1>4, KindsAre, TransfersSettle, Zenon DEF Thumb_LoadStoreHword

\* and relative to the stack.
LEMMA RelativeToSPSettles ==
  ASSUME NEW c, InThumb(c), NEW i, i.op = "LoadStoreRelativeToSP", ThumbEncoding(i)
  PROVE  Settled(Thumb_LoadStoreRelativeToSP(c, i))
<1>1. i.rd \in LowRegister /\ i.offset \in Nat
  BY Zenon DEF ThumbEncoding
<1>2. 4 * i.offset \in Int
  BY <1>1
<1>3. c.reg[13] \in Word
  BY InThumbIs, LowIs, GetRegWord, Zenon
<1>4. Wrap(c.reg[13] + 4 * i.offset) \in Word
  BY <1>2, <1>3, SumWord, Zenon
<1>5. QED
  BY <1>1, <1>4, KindsAre, TransfersSettle, Zenon DEF Thumb_LoadStoreRelativeToSP

\* Addresses that are only computed.
LEMMA LoadAddressSettles ==
  ASSUME NEW c, InThumb(c), NEW i, i.op = "LoadAddress", ThumbEncoding(i)
  PROVE  Settled(Thumb_LoadAddress(c, i))
<1> DEFINE base == IF i.sp THEN c.reg[13] ELSE PCAligned(c)
<1>1. i.rd \in LowRegister /\ i.offset \in Nat
  BY Zenon DEF ThumbEncoding
<1>2. base \in Int
  <2>1. c.reg[13] \in Int /\ PCAligned(c) \in Int
    BY InThumbIs, LowIs, GetRegWord, WordInt, PCAlignedInt, Zenon
  <2>2. QED
    BY <2>1
<1> HIDE DEF base
<1>3. base + 4 * i.offset \in Int
  BY <1>1, <1>2
<1>4. Wrap(base + 4 * i.offset) \in Word
  BY <1>3, WrapWord, Zenon
<1>5. Settled(Stepped(PutReg(c, i.rd, Wrap(base + 4 * i.offset))))
  BY <1>1, <1>4, LowIs, ThumbPuts, Zenon
<1>6. QED
  BY <1>5, Zenon DEF Thumb_LoadAddress, base

\* The stack moved by a number.
LEMMA AddOffsetToSPSettles ==
  ASSUME NEW c, InThumb(c), NEW i, i.op = "AddOffsetToSP", ThumbEncoding(i)
  PROVE  Settled(Thumb_AddOffsetToSP(c, i))
<1> DEFINE v == IF i.sub THEN c.reg[13] - 4 * i.offset ELSE c.reg[13] + 4 * i.offset
<1>1. i.offset \in Int
  BY Zenon DEF ThumbEncoding
<1>2. c.reg[13] \in Int
  BY InThumbIs, LowIs, GetRegWord, WordInt, Zenon
<1>3. v \in Int
  BY <1>1, <1>2
<1> HIDE DEF v
<1>4. Wrap(v) \in Word
  BY <1>3, WrapWord, Zenon
<1>5. 13 \in Register /\ 13 # 15
  BY LowIs
<1>6. Settled(Stepped(PutReg(c, 13, Wrap(v))))
  BY <1>4, <1>5, ThumbPuts, Zenon
<1>7. QED
  BY <1>6, Zenon DEF Thumb_AddOffsetToSP, v

\* Branches.
LEMMA BranchesSettle ==
  ASSUME NEW c, InThumb(c), NEW i, ThumbEncoding(i),
         i.op \in {"ConditionalBranch", "UnconditionalBranch"}
  PROVE  Settled(Thumb_ConditionalBranch(c, i)) /\ Settled(Thumb_UnconditionalBranch(c, i))
<1>1. i.offset \in Int
  BY Zenon DEF ThumbEncoding
<1>2. c.reg[15] \in Word
  BY InThumbIs, HeldParts, Zenon
<1>3. 2 * i.offset \in Int
  BY <1>1
<1>4. Wrap(c.reg[15] + 2 * i.offset) \in Word
  BY <1>2, <1>3, SumWord, Zenon
<1>5. Settled(Jump(c, Wrap(c.reg[15] + 2 * i.offset), TRUE)) /\ Settled(Stepped(c))
  BY <1>4, ThumbJumps, InThumbIs, DoneThumb, Zenon
<1>6. QED
  BY <1>5, Zenon DEF Thumb_ConditionalBranch, Thumb_UnconditionalBranch

\* The two halves of BL.
LEMMA LongBranchLinkSettles ==
  ASSUME NEW c, InThumb(c), NEW i, i.op = "LongBranchLink", ThumbEncoding(i)
  PROVE  Settled(Thumb_LongBranchLink(c, i))
<1> DEFINE y == 4096 * i.offset
           far == Wrap(c.reg[15] + y)
           w == Wrap(c.reg[15] - 2)
           back == 2 * (w \div 2) + 1
           z == Wrap(c.reg[14] + 2 * i.offset)
           at == Aligned(z, 2)
<1>1. i.offset \in Int
  BY Zenon DEF ThumbEncoding
<1>2. c.reg[15] \in Word /\ c.reg[14] \in Word
  BY InThumbIs, LowIs, GetRegWord, Zenon
<1>3. y \in Int /\ 2 * i.offset \in Int /\ 2 \in Int /\ 2 \in {2, 4}
  BY <1>1
<1> HIDE DEF y
<1>4. far \in Word /\ w \in Word /\ z \in Word
  BY <1>2, <1>3, SumWord, Zenon
<1> HIDE DEF far, w, z
<1>5. at \in Word
  BY <1>3, <1>4, AlignedWord, Zenon
<1>6. back \in Word
  <2>1. w \in Nat /\ w < Size
    BY <1>4, WordIs, Zenon
  <2>2. Size \in Nat /\ Top \in Nat /\ Size = 2 * Top
    BY SizeIs
  <2>3. back \in Nat /\ back < Size
    BY <2>1, <2>2
  <2>4. QED
    BY <2>3, WordIs, Zenon
<1> HIDE DEF back, at
<1>7. 14 \in Register /\ 14 # 15
  BY LowIs
<1>8. Settled(Stepped(PutReg(c, 14, far)))
  BY <1>4, <1>7, ThumbPuts, Zenon
<1>9. Held(PutReg(c, 14, back)) /\ PutReg(c, 14, back).cpsr.t = c.cpsr.t
  BY <1>6, <1>7, InThumbIs, PutAlike, Zenon
<1>10. Settled(Jump(PutReg(c, 14, back), at, TRUE))
  BY <1>5, <1>9, ThumbJumps, Zenon
<1>11. Thumb_LongBranchLink(c, i) =
         IF ~i.second THEN Stepped(PutReg(c, 14, far)) ELSE Jump(PutReg(c, 14, back), at, TRUE)
  BY DEF Thumb_LongBranchLink, far, back, at, z, w, y
<1>12. QED
  BY <1>8, <1>10, <1>11, Zenon

\* SWI, which goes on in the ARM state.
LEMMA ThumbSWISettles ==
  ASSUME NEW c, InThumb(c), NEW i
  PROVE  Settled(Thumb_SWI(c, i))
<1> DEFINE d == Enter(c, "svc")
           link == Wrap(c.reg[15] - 2)
<1>1. "svc" \in {"svc", "irq", "und"} /\ 8 \in {4, 8, 24} /\ 2 \in Int
  OBVIOUS
<1>2. Held(d)
  BY <1>1, InThumbIs, EnterAlike, AlikeHeld, Zenon
<1>3. link \in Word
  BY <1>1, InThumbIs, HeldParts, SumWord, Zenon
<1> HIDE DEF d, link
<1>4. Settled(Jump(PutReg([d EXCEPT !.cpsr.t = FALSE], 14, link), 8, FALSE))
  BY <1>1, <1>2, <1>3, VectorSettles, Zenon
<1>5. QED
  BY <1>4, Zenon DEF Thumb_SWI, d, link

\* The units of a block of this state.
AreThumbUnits(g, what, c, list, low, m) ==
  /\ DOMAIN g = 0 .. m /\ g[0] = c
  /\ \A n \in 1 .. m :
       g[n] = IF n - 1 \in list THEN Unit(what, g[n - 1], list, low, n - 1) ELSE g[n - 1]

\* There is a function that takes a list of low registers one at a time.
LEMMA ThumbUnitsExist ==
  ASSUME NEW what, NEW c, NEW list, NEW low, NEW w \in Nat
  PROVE  \E g : AreThumbUnits(g, what, c, list, low, w)
<1> DEFINE T == {m \in Nat : ~ \E g : AreThumbUnits(g, what, c, list, low, m)}
           Next1(x, n) == IF n - 1 \in list THEN Unit(what, x, list, low, n - 1) ELSE x
<1>1. T = {}
  <2> SUFFICES ASSUME T # {} PROVE FALSE
    OBVIOUS
  <2>1. PICK m \in T : \A y \in T : m <= y
    BY NatLeast
  <2>2. m \in Nat /\ ~ \E g : AreThumbUnits(g, what, c, list, low, m)
    BY <2>1
  <2>3. m # 0
    <3>1. AreThumbUnits([n \in 0 .. 0 |-> c], what, c, list, low, 0)
      BY DEF AreThumbUnits
    <3>2. QED
      BY <2>2, <3>1
  <2>4. m - 1 \in Nat /\ m - 1 \notin T
    BY <2>1, <2>2, <2>3
  <2>5. PICK g : AreThumbUnits(g, what, c, list, low, m - 1)
    BY <2>4
  <2>6. /\ DOMAIN g = 0 .. m - 1 /\ g[0] = c
        /\ \A n \in 1 .. m - 1 : g[n] = Next1(g[n - 1], n)
    BY <2>5, Zenon DEF AreThumbUnits
  <2> HIDE DEF Next1
  <2> DEFINE h == [n \in 0 .. m |-> IF n = m THEN Next1(g[m - 1], m) ELSE g[n]]
  <2>7. DOMAIN h = 0 .. m /\ h[0] = c
    BY <2>2, <2>3, <2>6
  <2>8. ASSUME NEW n \in 1 .. m PROVE h[n] = Next1(h[n - 1], n)
    <3>1. n \in 0 .. m /\ n - 1 \in 0 .. m /\ n - 1 # m
      BY <2>2
    <3>2. h[n - 1] = g[n - 1]
      BY <3>1
    <3>3. CASE n = m
      BY <3>1, <3>2, <3>3
    <3>4. CASE n # m
      <4>1. n \in 1 .. m - 1
        BY <2>2, <3>4
      <4>2. h[n] = g[n]
        BY <3>1, <3>4
      <4>3. QED
        BY <2>6, <3>2, <4>1, <4>2
    <3>5. QED
      BY <3>3, <3>4
  <2> HIDE DEF h
  <2>9. AreThumbUnits(h, what, c, list, low, m)
    BY <2>7, <2>8, Zenon DEF AreThumbUnits, Next1
  <2>10. QED
    BY <2>2, <2>9
<1>2. w \notin T
  BY <1>1
<1>3. QED
  BY <1>2

\* Units is such a function at its last register.
LEMMA ThumbUnitsAre ==
  ASSUME NEW what, NEW c, NEW list, NEW low
  PROVE  \E g : AreThumbUnits(g, what, c, list, low, 8) /\ Units(what, c, list, low) = g[8]
<1> DEFINE P(f) == f = [n \in 0 .. 8 |->
                         CASE n = 0 -> c
                           [] n > 0 /\ n - 1 \in list -> Unit(what, f[n - 1], list, low, n - 1)
                           [] OTHER -> f[n - 1]]
           Next1(x, n) == IF n - 1 \in list THEN Unit(what, x, list, low, n - 1) ELSE x
           Body(f, n) == CASE n = 0 -> c
                           [] n > 0 /\ n - 1 \in list -> Unit(what, f[n - 1], list, low, n - 1)
                           [] OTHER -> f[n - 1]
<1>1. PICK g : AreThumbUnits(g, what, c, list, low, 8)
  BY ThumbUnitsExist
<1>2. ASSUME NEW x PROVE /\ Body(x, 0) = c
                         /\ \A n \in 1 .. 8 : Body(x, n) = Next1(x[n - 1], n)
  <2>1. Body(x, 0) = c
    OBVIOUS
  <2>2. ASSUME NEW n \in 1 .. 8 PROVE Body(x, n) = Next1(x[n - 1], n)
    <3>1. n # 0 /\ n > 0
      OBVIOUS
    <3>2. CASE n - 1 \in list
      BY <3>1, <3>2, Zenon
    <3>3. CASE n - 1 \notin list
      BY <3>1, <3>3, Zenon
    <3>4. QED
      BY <3>2, <3>3
  <2>3. QED
    BY <2>1, <2>2
<1>3. /\ DOMAIN g = 0 .. 8 /\ g[0] = c
      /\ \A n \in 1 .. 8 : g[n] = Next1(g[n - 1], n)
  BY <1>1, Zenon DEF AreThumbUnits
<1>4. \A f : P(f) <=> f = [n \in 0 .. 8 |-> Body(f, n)]
  OBVIOUS
<1> DEFINE h == [n \in 0 .. 8 |-> g[n]]
<1>5. P(h)
  <2> HIDE DEF Body, Next1, P
  <2>1. ASSUME NEW n \in 0 .. 8 PROVE h[n] = Body(h, n)
    <3>1. CASE n = 0
      BY <1>2, <1>3, <3>1
    <3>2. CASE n # 0
      <4>1. n \in 1 .. 8 /\ n - 1 \in 0 .. 8
        BY <3>2
      <4>2. h[n] = g[n] /\ h[n - 1] = g[n - 1]
        BY <4>1
      <4> HIDE DEF h
      <4>3. QED
        BY <1>2, <1>3, <4>1, <4>2
    <3>3. QED
      BY <3>1, <3>2
  <2>2. h = [n \in 0 .. 8 |-> h[n]]
    OBVIOUS
  <2> HIDE DEF h
  <2>3. h = [n \in 0 .. 8 |-> Body(h, n)]
    BY <2>1, <2>2
  <2>4. QED
    BY <1>4, <2>3, Zenon
<1> DEFINE f == CHOOSE f : P(f)
<1>6. P(f)
  <2> HIDE DEF h, P
  <2>1. QED
    BY <1>5
<1>7. Units(what, c, list, low) = f[8]
  BY DEF Units
<1> HIDE DEF f, h
<1>8. AreThumbUnits(f, what, c, list, low, 8)
  <2>1. f = [n \in 0 .. 8 |-> Body(f, n)]
    BY <1>4, <1>6, Zenon
  <2> HIDE DEF Body, P, Next1
  <2>2. DOMAIN f = 0 .. 8 /\ \A n \in 0 .. 8 : f[n] = Body(f, n)
    BY <2>1
  <2>3. f[0] = c
    BY <1>2, <2>2
  <2>4. ASSUME NEW n \in 1 .. 8 PROVE f[n] = Next1(f[n - 1], n)
    <3>1. n \in 0 .. 8
      OBVIOUS
    <3>2. QED
      BY <1>2, <2>2, <3>1
  <2>5. QED
    BY <2>2, <2>3, <2>4, Zenon DEF AreThumbUnits, Next1
<1>9. QED
  BY <1>7, <1>8

\* A unit is one more access to the bus,
LEMMA ThumbUnitKeeps ==
  ASSUME NEW c, NEW x, Busied(c, x), NEW what, NEW list \in SUBSET LowRegister, NEW low \in Int,
         NEW r \in LowRegister
  PROVE  Busied(c, Unit(what, x, list, low, r))
<1> DEFINE at == Address(list, low, r)
           v == ReadAs(x, "word", at)
           y == Read(x, "word", at)
           z == Write(x, at, x.reg[r])
<1>1. Held(x)
  BY BusiedHeld, Zenon
<1>2. at \in Word
  <2>1. list \in SUBSET Register
    BY LowIs
  <2>2. Below(list, r) \in Nat
    BY <2>1, BelowIs, Zenon
  <2>3. low + 4 * Below(list, r) \in Int
    BY <2>2
  <2>4. QED
    BY <2>3, WrapWord, Zenon DEF Address
<1> HIDE DEF at
<1>3. v \in Word
  BY <1>1, <1>2, KindsAre, ReadWord, Zenon
<1>4. Busied(c, y) /\ Busied(c, z)
  BY AccessBusied, Zenon
<1> HIDE DEF v, y, z
<1>5. Alike(y, PutReg(y, r, v))
  BY <1>3, <1>4, BusiedHeld, LowIs, PutAlike, Zenon
<1>6. Busied(c, PutReg(y, r, v))
  BY <1>4, <1>5, AlikeOn, Zenon
<1>7. Unit(what, x, list, low, r) = IF what = "load" THEN PutReg(y, r, v) ELSE z
  BY Zenon DEF Unit, y, z, v, at
<1>8. QED
  BY <1>4, <1>6, <1>7, Zenon

\* and so is any list of them.
LEMMA ThumbUnitsKeep ==
  ASSUME NEW c, NEW x, Busied(c, x), NEW what, NEW list \in SUBSET LowRegister, NEW low \in Int
  PROVE  Busied(c, Units(what, x, list, low))
<1>1. PICK g : AreThumbUnits(g, what, x, list, low, 8) /\ Units(what, x, list, low) = g[8]
  BY ThumbUnitsAre, Zenon
<1> DEFINE Good(m) == Busied(c, g[m])
           T == {m \in 0 .. 8 : ~ Good(m)}
<1>2. g[0] = x
  BY <1>1, Zenon DEF AreThumbUnits
<1>3. ASSUME NEW m \in 1 .. 8, Good(m - 1) PROVE Good(m)
  <2>1. g[m] = IF m - 1 \in list THEN Unit(what, g[m - 1], list, low, m - 1) ELSE g[m - 1]
    BY <1>1, Zenon DEF AreThumbUnits
  <2>2. m - 1 \in LowRegister
    BY DEF LowRegister
  <2>3. Busied(c, Unit(what, g[m - 1], list, low, m - 1))
    BY <1>3, <2>2, ThumbUnitKeeps, Zenon
  <2>4. CASE m - 1 \in list
    BY <2>1, <2>3, <2>4, Zenon
  <2>5. CASE m - 1 \notin list
    BY <1>3, <2>1, <2>5, Zenon
  <2>6. QED
    BY <2>4, <2>5, Zenon
<1>4. Good(0)
  BY <1>2, Zenon
<1> HIDE DEF Good
<1>5. T = {}
  <2> SUFFICES ASSUME T # {} PROVE FALSE
    OBVIOUS
  <2>1. T \in SUBSET Nat
    OBVIOUS
  <2>2. PICK m \in T : \A y \in T : m <= y
    BY <2>1, NatLeast
  <2>3. m \in 1 .. 8
    BY <1>4, <2>2
  <2>4. m - 1 \in 0 .. 8 /\ m - 1 \notin T
    BY <2>2, <2>3
  <2>5. Good(m - 1)
    BY <2>4
  <2>6. QED
    BY <1>3, <2>2, <2>3, <2>5
<1>6. Good(8)
  BY <1>5
<1>7. QED
  BY <1>1, <1>6, Zenon DEF Good

\* A register that is written among accesses.
LEMMA PutBusied ==
  ASSUME NEW c, NEW d, Busied(c, d), NEW r \in Register, r # 15, NEW v \in Word
  PROVE  Busied(c, PutReg(d, r, v))
BY BusiedHeld, PutAlike, AlikeOn, Zenon

\* PUSH and POP, which may end with the pc.
LEMMA PushPopSettles ==
  ASSUME NEW c, InThumb(c), NEW i, i.op = "PushPop", ThumbEncoding(i)
  PROVE  Settled(Thumb_PushPop(c, i))
<1> DEFINE sp == c.reg[13]
           units == Cardinality(i.list)
           high == Wrap(sp + 4 * units)
           popped == Units("load", Busy(c), i.list, sp)
           low == Wrap(sp - 4 * (IF i.r THEN units + 1 ELSE units))
           pushed == Units("store", PutReg(Busy(c), 13, low), i.list, low)
           nothing == i.list = {} /\ ~i.r
           bottom == Wrap(sp - 64)
           top == Wrap(sp + 64)
           above == Wrap(high + 4)
           end == Wrap(low + 4 * units)
           v == ReadAs(c, "word", sp)
           w == Aligned(ReadAs(c, "word", high), 2)
           first == Read(Busy(c), "word", sp)
           jumped == Jump(first, v, TRUE)
           c1 == PutReg(Busy(c), 13, bottom)
           last == Idle(PutReg(Read(popped, "word", high), 13, above))
<1>1. i.list \in SUBSET LowRegister /\ i.list \in SUBSET Register
  <2>1. i.list \subseteq LowRegister
    BY Zenon DEF ThumbEncoding
  <2>2. QED
    BY <2>1, LowIs
<1>2. Held(c) /\ Busied(c, Busy(c)) /\ Held(Busy(c)) /\ TRUE \in BOOLEAN
  BY InThumbIs, Zenon
<1>3. sp \in Word /\ sp \in Int
  BY <1>2, LowIs, GetRegWord, WordInt, Zenon
<1>4. 4 * units \in Int /\ 4 * (IF i.r THEN units + 1 ELSE units) \in Int /\ 64 \in Int /\ 4 \in Int
  BY <1>1, BelowIs
<1> HIDE DEF sp, units
<1>5. high \in Word /\ low \in Word /\ bottom \in Word /\ top \in Word
  BY <1>3, <1>4, SumWord, Zenon
<1>6. high \in Int /\ low \in Int
  BY <1>5, WordInt, Zenon
<1> HIDE DEF high, low, bottom, top
<1>7. above \in Word
  BY <1>4, <1>5, SumWord, Zenon
<1>8. 13 \in Register /\ 13 # 15 /\ 2 \in {2, 4}
  BY LowIs
<1>9. v \in Word
  BY <1>2, <1>3, KindsAre, ReadWord, Zenon
<1>10. w \in Word
  <2>1. ReadAs(c, "word", high) \in Word
    BY <1>2, <1>5, KindsAre, ReadWord, Zenon
  <2>2. QED
    BY <1>8, <2>1, AlignedWord, Zenon
<1> HIDE DEF v, w, above
<1>11. Busied(c, popped)
  BY <1>1, <1>2, <1>3, ThumbUnitsKeep, Zenon
<1>12. Busied(c, pushed)
  <2>1. Busied(c, PutReg(Busy(c), 13, low))
    BY <1>2, <1>5, <1>8, PutBusied, Zenon
  <2>2. QED
    BY <1>1, <1>6, <2>1, ThumbUnitsKeep, Zenon
<1> HIDE DEF popped, pushed
<1>13. Settled(PutReg(jumped, 13, top))
  <2>1. Busied(c, first)
    BY <1>2, AccessBusied, Zenon
  <2>2. Held(first) /\ first.cpsr.t = c.cpsr.t
    BY <2>1, BusiedHeld, Zenon
  <2> HIDE DEF first
  <2>3. Settled(jumped)
    BY <1>9, <2>2, ThumbJumps, Zenon
  <2> HIDE DEF jumped
  <2>4. QED
    BY <1>5, <1>8, <2>3, PutSettles, Zenon
<1> HIDE DEF jumped, first
<1>14. Settled(Write(c1, bottom, c1.reg[15]))
  <2>1. Busied(c, c1)
    BY <1>2, <1>5, <1>8, PutBusied, Zenon
  <2> HIDE DEF c1
  <2>2. QED
    BY <2>1, AccessBusied, DoneThumb, Zenon
<1> HIDE DEF c1
<1>15. Settled(Jump(last, w, TRUE))
  <2> DEFINE e == Read(popped, "word", high)
             f == PutReg(e, 13, above)
  <2>1. Busied(c, e)
    BY <1>11, AccessBusied, Zenon
  <2> HIDE DEF e
  <2>2. Busied(c, f)
    BY <1>7, <1>8, <2>1, PutBusied, Zenon
  <2> HIDE DEF f
  <2>3. Busied(c, Idle(f))
    BY <2>2, AccessBusied, Zenon
  <2>4. last = Idle(f)
    BY Zenon DEF last, f, e
  <2> HIDE DEF last
  <2>5. Held(last) /\ last.cpsr.t = c.cpsr.t
    BY <2>3, <2>4, BusiedHeld, Zenon
  <2>6. QED
    BY <1>10, <2>5, ThumbJumps, Zenon
<1> HIDE DEF last
<1>16. Settled(PutReg(Idle(popped), 13, high))
  <2>1. Busied(c, Idle(popped))
    BY <1>11, AccessBusied, Zenon
  <2>2. Busied(c, PutReg(Idle(popped), 13, high))
    BY <1>5, <1>8, <2>1, PutBusied, Zenon
  <2>3. QED
    BY <2>2, DoneThumb, Zenon
<1>17. Settled(Write(pushed, end, c.reg[14])) /\ Settled(pushed)
  BY <1>12, AccessBusied, DoneThumb, Zenon
<1> HIDE DEF end
<1> DEFINE d == Thumb_PushPop(c, i)
<1>18. d = CASE nothing /\ i.pop -> PutReg(jumped, 13, top)
             [] nothing /\ ~i.pop -> Write(c1, bottom, c1.reg[15])
             [] ~nothing /\ i.pop /\ i.r -> Jump(last, w, TRUE)
             [] ~nothing /\ i.pop /\ ~i.r -> PutReg(Idle(popped), 13, high)
             [] ~nothing /\ ~i.pop /\ i.r -> Write(pushed, end, c.reg[14])
             [] ~nothing /\ ~i.pop /\ ~i.r -> pushed
  BY DEF Thumb_PushPop, nothing, jumped, top, c1, bottom, last, w, popped, high, pushed, end, low,
         units, sp, above, first, v
<1> HIDE DEF d, nothing
<1>19. Settled(d)
  BY <1>13, <1>14, <1>15, <1>16, <1>17, <1>18, Zenon
<1>20. QED
  BY <1>19, Zenon DEF d

\* LDMIA and STMIA, with an empty list too, which stands for the pc.
LEMMA LoadStoreMultipleSettles ==
  ASSUME NEW c, InThumb(c), NEW i, i.op = "LoadStoreMultiple", ThumbEncoding(i)
  PROVE  Settled(Thumb_LoadStoreMultiple(c, i))
<1> DEFINE base == c.reg[i.rb]
           bytes == IF i.list = {} THEN 64 ELSE 4 * Cardinality(i.list)
           far == Wrap(base + bytes)
           loaded == Idle(Units("load", Busy(c), i.list, base))
           lowest == Min(i.list)
           x == c.reg[lowest]
           first == PutReg(Write(Busy(c), base, x), i.rb, far)
           second == Wrap(base + 4)
           stored == Units("store", first, i.list \ {lowest}, second)
           v == ReadAs(c, "word", base)
           jumped == Jump(Read(Busy(c), "word", base), v, TRUE)
           behind == Wrap(c.reg[15] + 2)
           d == Thumb_LoadStoreMultiple(c, i)
<1>1. i.list \in SUBSET LowRegister /\ i.list \in SUBSET Register /\ i.rb \in Register /\ i.rb # 15
      /\ i.list \ {lowest} \in SUBSET LowRegister
  <2>1. i.list \subseteq LowRegister /\ i.rb \in LowRegister
    BY Zenon DEF ThumbEncoding
  <2> HIDE DEF lowest
  <2>2. QED
    BY <2>1, LowIs
<1>2. Held(c) /\ Busied(c, Busy(c)) /\ Held(Busy(c)) /\ TRUE \in BOOLEAN
  BY InThumbIs, Zenon
<1>3. base \in Word /\ base \in Int
  BY <1>1, <1>2, GetRegWord, WordInt, Zenon
<1>4. bytes \in Int /\ 4 \in Int
  BY <1>1, BelowIs
<1> HIDE DEF base, bytes, lowest, x
<1>5. far \in Word /\ second \in Word
  BY <1>3, <1>4, SumWord, Zenon
<1>6. second \in Int
  BY <1>5, WordInt, Zenon
<1>7. v \in Word
  BY <1>2, <1>3, KindsAre, ReadWord, Zenon
<1> HIDE DEF far, second, v, behind
<1>8. Settled(PutReg(jumped, i.rb, far))
  <2> DEFINE e == Read(Busy(c), "word", base)
  <2>1. Busied(c, e)
    BY <1>2, AccessBusied, Zenon
  <2>2. Held(e) /\ e.cpsr.t = c.cpsr.t
    BY <2>1, BusiedHeld, Zenon
  <2> HIDE DEF e
  <2>3. Settled(Jump(e, v, TRUE))
    BY <1>7, <2>2, ThumbJumps, Zenon
  <2>4. Settled(PutReg(Jump(e, v, TRUE), i.rb, far))
    BY <1>1, <1>5, <2>3, PutSettles, Zenon
  <2>5. QED
    BY <2>4, Zenon DEF e
<1>9. Settled(PutReg(Write(Busy(c), base, behind), i.rb, far))
  <2>1. Busied(c, Write(Busy(c), base, behind))
    BY <1>2, AccessBusied, Zenon
  <2>2. QED
    BY <1>1, <1>5, <2>1, PutBusied, DoneThumb, Zenon
<1>10. Settled(loaded) /\ Settled(PutReg(loaded, i.rb, far))
  <2> DEFINE e == Units("load", Busy(c), i.list, base)
  <2>1. Busied(c, e)
    BY <1>1, <1>2, <1>3, ThumbUnitsKeep, Zenon
  <2> HIDE DEF e
  <2>2. Busied(c, Idle(e))
    BY <2>1, AccessBusied, Zenon
  <2>3. Busied(c, PutReg(Idle(e), i.rb, far))
    BY <1>1, <1>5, <2>2, PutBusied, Zenon
  <2>4. QED
    BY <2>2, <2>3, DoneThumb, Zenon DEF e
<1>11. Settled(stored)
  <2>1. Busied(c, Write(Busy(c), base, x))
    BY <1>2, AccessBusied, Zenon
  <2>2. Busied(c, first)
    BY <1>1, <1>5, <2>1, PutBusied, Zenon
  <2> HIDE DEF first
  <2>3. Busied(c, stored)
    BY <1>1, <1>6, <2>2, ThumbUnitsKeep, Zenon
  <2>4. QED
    BY <2>3, DoneThumb, Zenon
<1> HIDE DEF jumped, loaded, stored, first
<1> DEFINE none == i.list = {}
<1>12. d = CASE none /\ i.load -> PutReg(jumped, i.rb, far)
             [] none /\ ~i.load -> PutReg(Write(Busy(c), base, behind), i.rb, far)
             [] ~none /\ i.load -> IF i.rb \in i.list THEN loaded ELSE PutReg(loaded, i.rb, far)
             [] ~none /\ ~i.load -> stored
  BY DEF Thumb_LoadStoreMultiple, none, jumped, far, base, bytes, behind, loaded, stored, first,
         lowest, second, v, x
<1> HIDE DEF d, none
<1>13. Settled(d)
  BY <1>8, <1>9, <1>10, <1>11, <1>12, Zenon
<1>14. QED
  BY <1>13, Zenon DEF d

\* Every handler leaves a CPU that can run the next instruction.
LEMMA ArmSettles ==
  ASSUME NEW c, InArm(c), NEW i, ArmEncoding(i), Predictable(c, i)
  PROVE  Settled(ArmHandler(c, i))
<1>1. \/ i.op \in {"DataProcessing", "StatusTransfer", "Multiply", "MultiplyLong", "SingleDataSwap",
                  "BranchAndExchange"}
      \/ i.op \in {"HalfwordSignedTransfer", "BranchAndLink", "SingleDataTransfer",
                  "BlockDataTransfer", "Undefined", "SWI"}
  BY Zenon DEF ArmEncoding
<1>2. ASSUME i.op = "DataProcessing" PROVE Settled(ArmHandler(c, i))
  <2>1. ArmHandler(c, i) = ARM_DataProcessing(c, i)
    BY <1>2, Zenon DEF ArmHandler
  <2>2. i.code \in Tests => i.rd # 15
    BY <1>2, Zenon DEF Predictable
  <2>3. QED
    BY <1>2, <2>1, <2>2, DataProcessingSettles, Zenon
<1>3. ASSUME i.op = "StatusTransfer" PROVE Settled(ArmHandler(c, i))
  <2>1. ArmHandler(c, i) = ARM_StatusTransfer(c, i)
    BY <1>3, Zenon DEF ArmHandler
  <2>2. QED
    BY <1>3, <2>1, StatusTransferSettles, Zenon
<1>4. ASSUME i.op = "Multiply" PROVE Settled(ArmHandler(c, i))
  <2>1. ArmHandler(c, i) = ARM_Multiply(c, i)
    BY <1>4, Zenon DEF ArmHandler
  <2>2. QED
    BY <1>4, <2>1, MultiplySettles, Zenon
<1>5. ASSUME i.op = "MultiplyLong" PROVE Settled(ArmHandler(c, i))
  <2>1. ArmHandler(c, i) = ARM_MultiplyLong(c, i)
    BY <1>5, Zenon DEF ArmHandler
  <2>2. QED
    BY <1>5, <2>1, MultiplyLongSettles, Zenon
<1>6. ASSUME i.op = "SingleDataSwap" PROVE Settled(ArmHandler(c, i))
  <2>1. ArmHandler(c, i) = ARM_SingleDataSwap(c, i)
    BY <1>6, Zenon DEF ArmHandler
  <2>2. QED
    BY <1>6, <2>1, SingleDataSwapSettles, Zenon
<1>7. ASSUME i.op = "BranchAndExchange" PROVE Settled(ArmHandler(c, i))
  <2>1. ArmHandler(c, i) = ARM_BranchAndExchange(c, i)
    BY <1>7, Zenon DEF ArmHandler
  <2>2. QED
    BY <1>7, <2>1, BranchAndExchangeSettles, Zenon
<1>8. ASSUME i.op = "HalfwordSignedTransfer" PROVE Settled(ArmHandler(c, i))
  <2>1. ArmHandler(c, i) = ARM_HalfwordSignedTransfer(c, i)
    BY <1>8, Zenon DEF ArmHandler
  <2>2. QED
    BY <1>8, <2>1, OneTransferSettles, Zenon
<1>9. ASSUME i.op = "BranchAndLink" PROVE Settled(ArmHandler(c, i))
  <2>1. ArmHandler(c, i) = ARM_BranchAndLink(c, i)
    BY <1>9, Zenon DEF ArmHandler
  <2>2. QED
    BY <1>9, <2>1, BranchAndLinkSettles, Zenon
<1>10. ASSUME i.op = "SingleDataTransfer" PROVE Settled(ArmHandler(c, i))
  <2>1. ArmHandler(c, i) = ARM_SingleDataTransfer(c, i)
    BY <1>10, Zenon DEF ArmHandler
  <2>2. QED
    BY <1>10, <2>1, OneTransferSettles, Zenon
<1>11. ASSUME i.op = "BlockDataTransfer" PROVE Settled(ArmHandler(c, i))
  <2>1. ArmHandler(c, i) = ARM_BlockDataTransfer(c, i)
    BY <1>11, Zenon DEF ArmHandler
  <2>2. QED
    BY <1>11, <2>1, BlockDataTransferSettles, Zenon
<1>12. ASSUME i.op = "Undefined" PROVE Settled(ArmHandler(c, i))
  <2>1. ArmHandler(c, i) = ARM_Undefined(c, i)
    BY <1>12, Zenon DEF ArmHandler
  <2>2. QED
    BY <1>12, <2>1, TrapsSettle, Zenon
<1>13. ASSUME i.op = "SWI" PROVE Settled(ArmHandler(c, i))
  <2>1. ArmHandler(c, i) = ARM_SWI(c, i)
    BY <1>13, Zenon DEF ArmHandler
  <2>2. QED
    BY <1>13, <2>1, TrapsSettle, Zenon
<1>14. QED
  BY <1>1, <1>2, <1>3, <1>4, <1>5, <1>6, <1>7, <1>8, <1>9, <1>10, <1>11, <1>12, <1>13, Zenon

\* Every handler of the Thumb state settles.
LEMMA ThumbSettles ==
  ASSUME NEW c, InThumb(c), NEW i, ThumbEncoding(i)
  PROVE  Settled(ThumbHandler(c, i))
<1>1. \/ i.op \in {"MoveShiftedRegister", "AddSub", "Op3", "ALU", "HighRegisterOps_BX",
                  "LoadStoreRelativePC", "LoadStoreOffsetReg"}
      \/ i.op \in {"LoadStoreSigned", "LoadStoreOffsetImm", "LoadStoreHword",
                  "LoadStoreRelativeToSP", "LoadAddress", "AddOffsetToSP"}
      \/ i.op \in {"PushPop", "LoadStoreMultiple", "ConditionalBranch", "SWI",
                  "UnconditionalBranch", "LongBranchLink"}
  BY Zenon DEF ThumbEncoding
<1>2. ASSUME i.op = "MoveShiftedRegister" PROVE Settled(ThumbHandler(c, i))
  <2>1. ThumbHandler(c, i) = Thumb_MoveShiftedRegister(c, i)
    BY <1>2, Zenon DEF ThumbHandler
  <2>2. QED
    BY <1>2, <2>1, MoveShiftedRegisterSettles, Zenon
<1>3. ASSUME i.op = "AddSub" PROVE Settled(ThumbHandler(c, i))
  <2>1. ThumbHandler(c, i) = Thumb_AddSub(c, i)
    BY <1>3, Zenon DEF ThumbHandler
  <2>2. QED
    BY <1>3, <2>1, AddSubSettles, Zenon
<1>4. ASSUME i.op = "Op3" PROVE Settled(ThumbHandler(c, i))
  <2>1. ThumbHandler(c, i) = Thumb_Op3(c, i)
    BY <1>4, Zenon DEF ThumbHandler
  <2>2. QED
    BY <1>4, <2>1, Op3Settles, Zenon
<1>5. ASSUME i.op = "ALU" PROVE Settled(ThumbHandler(c, i))
  <2>1. ThumbHandler(c, i) = Thumb_ALU(c, i)
    BY <1>5, Zenon DEF ThumbHandler
  <2>2. QED
    BY <1>5, <2>1, ALUSettles, Zenon
<1>6. ASSUME i.op = "HighRegisterOps_BX" PROVE Settled(ThumbHandler(c, i))
  <2>1. ThumbHandler(c, i) = Thumb_HighRegisterOps_BX(c, i)
    BY <1>6, Zenon DEF ThumbHandler
  <2>2. QED
    BY <1>6, <2>1, HighRegisterOps_BXSettles, Zenon
<1>7. ASSUME i.op = "LoadStoreRelativePC" PROVE Settled(ThumbHandler(c, i))
  <2>1. ThumbHandler(c, i) = Thumb_LoadStoreRelativePC(c, i)
    BY <1>7, Zenon DEF ThumbHandler
  <2>2. QED
    BY <1>7, <2>1, RelativePCSettles, Zenon
<1>8. ASSUME i.op = "LoadStoreOffsetReg" PROVE Settled(ThumbHandler(c, i))
  <2>1. ThumbHandler(c, i) = Thumb_LoadStoreOffsetReg(c, i)
    BY <1>8, Zenon DEF ThumbHandler
  <2>2. QED
    BY <1>8, <2>1, OffsetRegSettles, Zenon
<1>9. ASSUME i.op = "LoadStoreSigned" PROVE Settled(ThumbHandler(c, i))
  <2>1. ThumbHandler(c, i) = Thumb_LoadStoreSigned(c, i)
    BY <1>9, Zenon DEF ThumbHandler
  <2>2. QED
    BY <1>9, <2>1, OffsetRegSettles, Zenon
<1>10. ASSUME i.op = "LoadStoreOffsetImm" PROVE Settled(ThumbHandler(c, i))
  <2>1. ThumbHandler(c, i) = Thumb_LoadStoreOffsetImm(c, i)
    BY <1>10, Zenon DEF ThumbHandler
  <2>2. QED
    BY <1>10, <2>1, OffsetImmSettles, Zenon
<1>11. ASSUME i.op = "LoadStoreHword" PROVE Settled(ThumbHandler(c, i))
  <2>1. ThumbHandler(c, i) = Thumb_LoadStoreHword(c, i)
    BY <1>11, Zenon DEF ThumbHandler
  <2>2. QED
    BY <1>11, <2>1, HwordSettles, Zenon
<1>12. ASSUME i.op = "LoadStoreRelativeToSP" PROVE Settled(ThumbHandler(c, i))
  <2>1. ThumbHandler(c, i) = Thumb_LoadStoreRelativeToSP(c, i)
    BY <1>12, Zenon DEF ThumbHandler
  <2>2. QED
    BY <1>12, <2>1, RelativeToSPSettles, Zenon
<1>13. ASSUME i.op = "LoadAddress" PROVE Settled(ThumbHandler(c, i))
  <2>1. ThumbHandler(c, i) = Thumb_LoadAddress(c, i)
    BY <1>13, Zenon DEF ThumbHandler
  <2>2. QED
    BY <1>13, <2>1, LoadAddressSettles, Zenon
<1>14. ASSUME i.op = "AddOffsetToSP" PROVE Settled(ThumbHandler(c, i))
  <2>1. ThumbHandler(c, i) = Thumb_AddOffsetToSP(c, i)
    BY <1>14, Zenon DEF ThumbHandler
  <2>2. QED
    BY <1>14, <2>1, AddOffsetToSPSettles, Zenon
<1>15. ASSUME i.op = "PushPop" PROVE Settled(ThumbHandler(c, i))
  <2>1. ThumbHandler(c, i) = Thumb_PushPop(c, i)
    BY <1>15, Zenon DEF ThumbHandler
  <2>2. QED
    BY <1>15, <2>1, PushPopSettles, Zenon
<1>16. ASSUME i.op = "LoadStoreMultiple" PROVE Settled(ThumbHandler(c, i))
  <2>1. ThumbHandler(c, i) = Thumb_LoadStoreMultiple(c, i)
    BY <1>16, Zenon DEF ThumbHandler
  <2>2. QED
    BY <1>16, <2>1, LoadStoreMultipleSettles, Zenon
<1>17. ASSUME i.op = "ConditionalBranch" PROVE Settled(ThumbHandler(c, i))
  <2>1. ThumbHandler(c, i) = Thumb_ConditionalBranch(c, i)
    BY <1>17, Zenon DEF ThumbHandler
  <2>2. QED
    BY <1>17, <2>1, BranchesSettle, Zenon
<1>18. ASSUME i.op = "SWI" PROVE Settled(ThumbHandler(c, i))
  <2>1. ThumbHandler(c, i) = Thumb_SWI(c, i)
    BY <1>18, Zenon DEF ThumbHandler
  <2>2. QED
    BY <1>18, <2>1, ThumbSWISettles, Zenon
<1>19. ASSUME i.op = "UnconditionalBranch" PROVE Settled(ThumbHandler(c, i))
  <2>1. ThumbHandler(c, i) = Thumb_UnconditionalBranch(c, i)
    BY <1>19, Zenon DEF ThumbHandler
  <2>2. QED
    BY <1>19, <2>1, BranchesSettle, Zenon
<1>20. ASSUME i.op = "LongBranchLink" PROVE Settled(ThumbHandler(c, i))
  <2>1. ThumbHandler(c, i) = Thumb_LongBranchLink(c, i)
    BY <1>20, Zenon DEF ThumbHandler
  <2>2. QED
    BY <1>20, <2>1, LongBranchLinkSettles, Zenon
<1>21. QED
  BY <1>1, <1>2, <1>3, <1>4, <1>5, <1>6, <1>7, <1>8, <1>9, <1>10, <1>11, <1>12, <1>13, <1>14, <1>15, <1>16, <1>17, <1>18, <1>19, <1>20, Zenon

\* Changes to a CPU between two instructions.
LEMMA SettledParts ==
  ASSUME NEW c, Settled(c)
  PROVE  Held(c) /\ DOMAIN c.pipe = 1 .. 2 /\ Follows(c)
BY Zenon DEF Settled

\* What the CPU consists of besides does not matter.
LEMMA SameAgain ==
  ASSUME NEW c, Settled(c), NEW d, Held(d), d.pipe = c.pipe, d.cpsr = c.cpsr, d.reg = c.reg,
         d.bus = c.bus, d.sequential = c.sequential
  PROVE  Settled(d)
<1>1. DOMAIN c.pipe = 1 .. 2 /\ Follows(c) /\ (c.sequential => FetchedLast(c))
  BY Zenon DEF Settled
<1>2. Follows(d)
  BY <1>1, Zenon DEF Follows
<1>3. d.sequential => FetchedLast(d)
  BY <1>1, Zenon DEF FetchedLast
<1>4. QED
  BY <1>1, <1>2, <1>3, Zenon DEF Settled

\* What a step chose of memory and multiplier is forgotten,
LEMMA EndedSettles ==
  ASSUME NEW c, Settled(c)
  PROVE  Settled(Ended(c))
BY SettledParts, BesidesKeep, SameAgain, Zenon

\* the interrupt line moves,
LEMMA LineSettles ==
  ASSUME NEW c, Settled(c), NEW v
  PROVE  Settled([c EXCEPT !.irqLine = v])
<1> DEFINE d == [c EXCEPT !.irqLine = v]
<1>1. Held(c) /\ HoldsWords(c)
  BY SettledParts DEF Held
<1>2. /\ d.bank = c.bank /\ d.reg = c.reg /\ d.pipe = c.pipe /\ d.cpsr = c.cpsr
      /\ d.bus = c.bus /\ d.contents = c.contents /\ d.sequential = c.sequential
      /\ d.spsr = c.spsr /\ d.pSpsr = c.pSpsr /\ DOMAIN d = DOMAIN c
  BY <1>1, FieldsAre
<1> HIDE DEF d
<1>3. Held(d)
  BY <1>1, <1>2 DEF Held, HoldsWords
<1>4. Settled(d)
  BY <1>2, <1>3, SameAgain, Zenon
<1>5. QED
  BY <1>4, Zenon DEF d

\* a state is loaded, from which the window and the latched mask are missing,
LEMMA RestoredSettles ==
  ASSUME NEW c, Settled(c)
  PROVE  Settled(Restored(c))
<1> DEFINE d == Restored(c)
<1>1. Held(c) /\ HoldsWords(c)
  BY SettledParts DEF Held
<1>2. /\ d.bank = c.bank /\ d.reg = c.reg /\ d.pipe = c.pipe /\ d.cpsr = c.cpsr
      /\ d.bus = c.bus /\ d.contents = c.contents /\ d.sequential = c.sequential
      /\ d.spsr = c.spsr /\ d.pSpsr = BankOf(c.cpsr.mode) /\ DOMAIN d = DOMAIN c
  BY <1>1, FieldsAre DEF Restored
<1>3. BankOf(c.cpsr.mode) \in Bank
  BY ModesAre
<1> HIDE DEF d
<1>4. Held(d)
  BY <1>1, <1>2, <1>3 DEF Held, HoldsWords
<1>5. Settled(d)
  BY <1>2, <1>4, SameAgain, Zenon
<1>6. QED
  BY <1>5, Zenon DEF d

\* or the CPU is reset, which puts two instructions into the pipeline that do
\* nothing.
LEMMA ResetSettles == Settled(ResetState)
<1>1. /\ DOMAIN ResetState.pipe = 1 .. 2 /\ ResetState.pipe[1] = Nop /\ ResetState.pipe[2] = Nop
  BY DEF ResetState
<1>2. Nop.nop
  BY Zenon DEF Nop
<1>3. ~ResetState.sequential
  BY Zenon DEF ResetState
<1>4. Follows(ResetState)
  <2>1. ResetState.cpsr.t \in BOOLEAN
    BY ResetHolds, HeldParts, Zenon
  <2>2. ResetState.pipe[1].nop /\ ResetState.pipe[2].nop
    BY <1>1, <1>2, Zenon
  <2> DEFINE s == ResetState
  <2> HIDE DEF s
  <2>3. s.cpsr.t \in BOOLEAN /\ s.pipe[1].nop /\ s.pipe[2].nop
    BY <2>1, <2>2, Zenon DEF s
  <2>4. \A k \in 1 .. 2 : s.pipe[k].nop
    BY <2>3
  <2>5. Follows(s)
    BY <2>4, Zenon DEF Follows
  <2>6. QED
    BY <2>5, Zenon DEF s
<1>5. QED
  BY <1>1, <1>3, <1>4, ResetHolds, Zenon DEF Settled

\* A step begins with no accesses.
LEMMA BegunKeeps ==
  ASSUME Settled(cpu), NEW slow
  PROVE  /\ Held(Begun(slow)) /\ DOMAIN Begun(slow).pipe = 1 .. 2 /\ Follows(Begun(slow))
         /\ Begun(slow).cpsr = cpu.cpsr
<1> DEFINE d == Begun(slow)
<1>1. Held(cpu) /\ HoldsWords(cpu) /\ DOMAIN cpu.pipe = 1 .. 2 /\ Follows(cpu)
  BY SettledParts DEF Held
<1>2. /\ d.bank = cpu.bank /\ d.reg = cpu.reg /\ d.pipe = cpu.pipe /\ d.cpsr = cpu.cpsr
      /\ d.bus = << >> /\ d.contents = cpu.contents
      /\ d.spsr = cpu.spsr /\ d.pSpsr = cpu.pSpsr /\ DOMAIN d = DOMAIN cpu
  BY <1>1, FieldsAre DEF Begun
<1>3. IsList(<< >>)
  <2>1. << >> \in Seq({})
    OBVIOUS
  <2>2. QED
    BY <2>1 DEF IsList
<1> HIDE DEF d
<1>4. Held(d)
  BY <1>1, <1>2, <1>3 DEF Held, HoldsWords
<1>5. Follows(d)
  BY <1>1, <1>2, Zenon DEF Follows
<1>6. QED
  BY <1>1, <1>2, <1>4, <1>5, Zenon DEF d

\* What a handler and the entry to an interrupt begin with.
LEMMA ReadyFed ==
  ASSUME Settled(cpu), NEW slow, NEW contents \in Int, NEW booth
  PROVE  Fed(Ready(slow, contents, booth)) /\ Ready(slow, contents, booth).cpsr = cpu.cpsr
<1> DEFINE c == FetchedNext(Begun(slow))
           d == [c EXCEPT !.contents = contents, !.booth = booth]
<1>1. Fed(c) /\ c.cpsr = cpu.cpsr
  <2> DEFINE b == Begun(slow)
  <2>1. Held(b) /\ DOMAIN b.pipe = 1 .. 2 /\ Follows(b) /\ b.cpsr = cpu.cpsr
    BY BegunKeeps, Zenon
  <2> HIDE DEF b
  <2>2. Fed(FetchedNext(b)) /\ FetchedNext(b).cpsr = b.cpsr
    BY <2>1, FetchFeeds, Zenon
  <2>3. QED
    BY <2>1, <2>2, Zenon DEF b
<1> HIDE DEF c
<1>2. Held(c)
  BY <1>1, Zenon DEF Fed
<1>3. Held(d) /\ d.pipe = c.pipe /\ d.cpsr = c.cpsr /\ d.bus = c.bus /\ d.reg = c.reg
  BY <1>2, BesidesKeep, Zenon
<1>4. Ready(slow, contents, booth) = d
  BY Zenon DEF Ready, c
<1> HIDE DEF d
<1>5. /\ DOMAIN c.pipe = 1 .. 2
      /\ c.pipe[1].nop \/ c.pipe[1] = Fetched(Wrap(c.reg[15] - Stride(c.cpsr.t)), c.cpsr.t)
      /\ c.pipe[2] = Fetched(c.reg[15], c.cpsr.t)
      /\ FetchedLast(c)
  BY <1>1, Zenon DEF Fed
<1>6. FetchedLast(d)
  BY <1>3, <1>5, Zenon DEF FetchedLast
<1>7. Fed(d)
  BY <1>3, <1>5, <1>6, Zenon DEF Fed
<1>8. QED
  BY <1>1, <1>3, <1>4, <1>7, Zenon

\* An instruction whose condition does not hold moves on.
LEMMA SkippedSettles ==
  ASSUME Settled(cpu), NEW slow, cpu.cpsr.t = FALSE
  PROVE  Settled(Skipped(FetchedNext(Begun(slow))))
<1> DEFINE c == FetchedNext(Begun(slow))
<1>1. Fed(c) /\ c.cpsr = cpu.cpsr
  <2> DEFINE b == Begun(slow)
  <2>1. Held(b) /\ DOMAIN b.pipe = 1 .. 2 /\ Follows(b) /\ b.cpsr = cpu.cpsr
    BY BegunKeeps, Zenon
  <2> HIDE DEF b
  <2>2. Fed(FetchedNext(b)) /\ FetchedNext(b).cpsr = b.cpsr
    BY <2>1, FetchFeeds, Zenon
  <2>3. QED
    BY <2>1, <2>2, Zenon DEF b
<1> HIDE DEF c
<1>2. InArm(c)
  BY <1>1, Zenon DEF InArm
<1>3. Done(c, Advance(Sequential(c), 4))
  BY <1>2, InArmIs, Zenon
<1>4. Settled(Skipped(c))
  BY <1>1, <1>3, DoneSettles, Zenon DEF Skipped
<1>5. QED
  BY <1>4, Zenon DEF c

\* An interrupt fetches what r15 asks for before it jumps to its vector.
LEMMA InterruptedSettles ==
  ASSUME Settled(cpu), NEW slow
  PROVE  Settled(Interrupted(Begun(slow)))
<1> DEFINE b == Begun(slow)
           d == Code(b, b.reg[15], b.cpsr.t)
           e == Enter(d, "irq")
           link == IF b.cpsr.t THEN b.reg[15] ELSE Wrap(b.reg[15] - 4)
<1>1. Held(b)
  BY BegunKeeps, Zenon
<1> HIDE DEF b
<1>2. Held(d)
  BY <1>1, CodeKeeps, Zenon
<1>3. "irq" \in {"svc", "irq", "und"} /\ 24 \in {4, 8, 24} /\ 4 \in Int
  OBVIOUS
<1> HIDE DEF d
<1>4. Held(e)
  BY <1>2, <1>3, EnterAlike, AlikeHeld, Zenon
<1>5. link \in Word
  BY <1>1, <1>3, HeldParts, SumWord, Zenon
<1> HIDE DEF e, link
<1>6. Settled(Jump(SetReg([e EXCEPT !.cpsr.t = FALSE], 14, link), 24, FALSE))
  BY <1>3, <1>4, <1>5, VectorSettles, Zenon
<1>7. QED
  BY <1>6, Zenon DEF Interrupted, e, link, d, b

\* The inductive invariant.
CpuInv == scenario \in DOMAIN Scenario /\ Settled(cpu) /\ Settled(saved.cpu)

\* Every scenario starts with it,
LEMMA CpuStarts ==
  ASSUME CpuInit
  PROVE  CpuInv
<1>1. scenario \in DOMAIN Scenario /\ cpu \in Scenario[scenario].start /\ saved.cpu = ResetState
  BY DEF CpuInit
<1>2. /\ HoldsWords(cpu) /\ Follows(cpu) /\ DOMAIN cpu.pipe = 1 .. 2 /\ cpu.sequential = FALSE
      /\ cpu.bus = << >>
  BY <1>1, ScenarioAssumption, Zenon
<1>3. IsList(<< >>)
  <2>1. << >> \in Seq({})
    OBVIOUS
  <2>2. QED
    BY <2>1 DEF IsList
<1>4. Held(cpu)
  BY <1>2, <1>3, Zenon DEF Held
<1>5. Settled(cpu)
  BY <1>2, <1>4, Zenon DEF Settled
<1>6. QED
  BY <1>1, <1>5, ResetSettles, Zenon DEF CpuInv

\* and every step keeps it: each instruction by the lemma of its handler.
LEMMA CpuGoesOn ==
  ASSUME CpuInv, [CpuNext]_cpuVars
  PROVE  CpuInv'
<1> USE DEF CpuInv
<1>1. Settled(cpu) /\ Settled(saved.cpu) /\ scenario \in DOMAIN Scenario
  OBVIOUS
<1>2. cpu.cpsr.t \in BOOLEAN
  BY <1>1, SettledParts, HeldParts, Zenon
<1>3. ASSUME NEW v \in BOOLEAN, SetIRQLine(v) PROVE CpuInv'
  <2>1. cpu' = [cpu EXCEPT !.irqLine = v] /\ saved' = saved /\ scenario' = scenario
    BY <1>3 DEF SetIRQLine
  <2>2. Settled([cpu EXCEPT !.irqLine = v])
    BY <1>1, LineSettles, Zenon
  <2>3. QED
    BY <1>1, <2>1, <2>2, Zenon
<1>4. ASSUME NEW slow \in Bounds.waits, SignalIRQ(slow) PROVE CpuInv'
  <2>1. cpu' = Ended(Interrupted(Begun(slow))) /\ saved' = saved /\ scenario' = scenario
    BY <1>4 DEF SignalIRQ
  <2>2. Settled(Ended(Interrupted(Begun(slow))))
    BY <1>1, InterruptedSettles, EndedSettles, Zenon
  <2>3. QED
    BY <1>1, <2>1, <2>2, Zenon
<1>5. ASSUME NEW slow \in Bounds.waits, NEW cond, Skip(cond, slow) PROVE CpuInv'
  <2>1. /\ cpu' = Ended(Skipped(FetchedNext(Begun(slow)))) /\ saved' = saved
        /\ scenario' = scenario /\ ~cpu.cpsr.t
    BY <1>5 DEF Skip, Running
  <2>2. cpu.cpsr.t = FALSE
    BY <1>2, <2>1, Zenon
  <2>3. Settled(Ended(Skipped(FetchedNext(Begun(slow)))))
    BY <1>1, <2>2, SkippedSettles, EndedSettles, Zenon
  <2>4. QED
    BY <1>1, <2>1, <2>3, Zenon
<1>6. ASSUME NEW slow \in Bounds.waits, NEW contents \in Bounds.contents, NEW booth \in Bounds.booth
      PROVE  contents \in Int
  BY <1>1, ScenarioAssumption, Zenon DEF Bounds
<1>7. ASSUME NEW slow \in Bounds.waits, NEW contents \in Bounds.contents, NEW booth \in Bounds.booth,
             NEW i \in Bounds.arm, RunArm(i, slow, contents, booth)
      PROVE  CpuInv'
  <2> DEFINE c == Ready(slow, contents, booth)
  <2>1. /\ cpu' = Ended(ArmHandler(c, i)) /\ saved' = saved /\ scenario' = scenario
        /\ ~cpu.cpsr.t /\ Predictable(c, i)
    BY <1>7 DEF RunArm, Running
  <2>2. Fed(c) /\ c.cpsr = cpu.cpsr
    BY <1>1, <1>6, ReadyFed, Zenon
  <2> HIDE DEF c
  <2>3. InArm(c)
    BY <1>2, <2>1, <2>2, Zenon DEF InArm
  <2>4. ArmEncoding(i)
    BY <1>1, ScenarioAssumption, Zenon DEF Bounds
  <2>5. Settled(Ended(ArmHandler(c, i)))
    BY <2>1, <2>3, <2>4, ArmSettles, EndedSettles, Zenon
  <2>6. QED
    BY <1>1, <2>1, <2>5, Zenon
<1>8. ASSUME NEW slow \in Bounds.waits, NEW contents \in Bounds.contents, NEW booth \in Bounds.booth,
             NEW i \in Bounds.thumb, RunThumb(i, slow, contents, booth)
      PROVE  CpuInv'
  <2> DEFINE c == Ready(slow, contents, booth)
  <2>1. /\ cpu' = Ended(ThumbHandler(c, i)) /\ saved' = saved /\ scenario' = scenario
        /\ cpu.cpsr.t
    BY <1>8 DEF RunThumb, Running
  <2>2. Fed(c) /\ c.cpsr = cpu.cpsr
    BY <1>1, <1>6, ReadyFed, Zenon
  <2> HIDE DEF c
  <2>3. InThumb(c)
    BY <1>2, <2>1, <2>2, Zenon DEF InThumb
  <2>4. ThumbEncoding(i)
    BY <1>1, ScenarioAssumption, Zenon DEF Bounds
  <2>5. Settled(Ended(ThumbHandler(c, i)))
    BY <2>3, <2>4, ThumbSettles, EndedSettles, Zenon
  <2>6. QED
    BY <1>1, <2>1, <2>5, Zenon
<1>9. ASSUME CopyState PROVE CpuInv'
  <2>1. cpu' = cpu /\ saved'.cpu = cpu /\ scenario' = scenario
    BY <1>9 DEF CopyState
  <2>2. QED
    BY <1>1, <2>1, Zenon
<1>10. ASSUME LoadState PROVE CpuInv'
  <2>1. cpu' = Restored(saved.cpu) /\ saved' = saved /\ scenario' = scenario
    BY <1>10 DEF LoadState
  <2>2. Settled(Restored(saved.cpu))
    BY <1>1, RestoredSettles, Zenon
  <2>3. QED
    BY <1>1, <2>1, <2>2, Zenon
<1>11. ASSUME Reset PROVE CpuInv'
  <2>1. cpu' = ResetState /\ saved' = saved /\ scenario' = scenario
    BY <1>11 DEF Reset
  <2>2. QED
    BY <1>1, <2>1, ResetSettles, Zenon
<1>12. CASE UNCHANGED cpuVars
  <2>1. cpu' = cpu /\ saved' = saved /\ scenario' = scenario
    BY <1>12 DEF cpuVars
  <2>2. QED
    BY <1>1, <2>1, Zenon
<1>13. QED
  BY <1>3, <1>4, <1>5, <1>7, <1>8, <1>9, <1>10, <1>11, <1>12, Zenon DEF CpuNext

\* So it always holds.
LEMMA CpuInvAlways == CpuSpec => []CpuInv
<1>1. CpuInit => CpuInv
  BY CpuStarts
<1>2. CpuInv /\ [CpuNext]_cpuVars => CpuInv'
  BY CpuGoesOn
<1>3. QED
  BY <1>1, <1>2, PTL DEF CpuSpec

\* In every program the opcodes in the pipeline are those before r15, in the
\* state (ARM or Thumb) the CPU is in, or instructions a reset put there: every
\* handler of handler16.go and handler32.go that may write r15, change the state
\* or restore a status reloads the pipeline as it must, and every other one moves
\* r15 on by the length of one opcode, whatever was loaded, saved or reset, for
\* words of any width and any scenario of starts and encodings.
THEOREM PipelineFollows == CpuSpec => []PipelineFollowsPC
<1>1. CpuInv => PipelineFollowsPC
  BY SettledParts, Zenon DEF CpuInv, PipelineFollowsPC
<1>2. QED
  BY <1>1, CpuInvAlways, PTL

\* In every program the next fetch is called a sequential access only if the last
\* thing the CPU did on the bus was to fetch the opcode before it: a data access,
\* an idle cycle of a multiplication or a jump to elsewhere comes between them only
\* where the handler has set Pipe.Access back to nonsequential.
THEOREM SequentialAccess == CpuSpec => []SequentialContinues
<1>1. CpuInv => SequentialContinues
  BY Zenon DEF CpuInv, Settled, FetchedLast, SequentialContinues
<1>2. QED
  BY <1>1, CpuInvAlways, PTL

\* Registers and banks hold words, and status registers a mode of five bits, in
\* the CPU and in the state that was saved of it: no handler computes, loads or
\* merges anything else, and no change of mode, to an invalid one either, leaves
\* the banks.
THEOREM RegistersHoldWords == CpuSpec => [](HoldsWords(cpu) /\ HoldsWords(saved.cpu))
<1>1. CpuInv => HoldsWords(cpu) /\ HoldsWords(saved.cpu)
  BY SettledParts, Zenon DEF CpuInv, Held
<1>2. QED
  BY <1>1, CpuInvAlways, PTL
-----------------------------------------------------------------------------
(***************************************************************************)
(* The banks.                                                              *)
(***************************************************************************)
\* The fields, the registers and the banks of a CPU, whatever they hold,
Shaped(c) ==
  /\ DOMAIN c = DOMAIN ResetState
  /\ DOMAIN c.reg = Register
  /\ DOMAIN c.bank = Bank /\ \A b \in Bank : DOMAIN c.bank[b] = Banked
  /\ DOMAIN c.cpsr = DOMAIN ZeroPSR
  /\ DOMAIN c.spsr = Bank /\ \A b \in Bank : DOMAIN c.spsr[b] = DOMAIN ZeroPSR

\* and a CPU d that differs from c in the registers R, in r15 and in what is no
\* register; in the user-bank window the user's registers of that name differ too.
StoresOnly(c, d, R) ==
  /\ Shaped(d)
  /\ d.cpsr.mode = c.cpsr.mode /\ d.pSpsr = c.pSpsr /\ d.spsr = c.spsr
  /\ d.conflict # 0 => c.conflict # 0
  /\ \A r \in Register : r \notin R /\ r # 15 => d.reg[r] = c.reg[r]
  /\ \A b \in Bank, r \in Banked :
       ~(b = "none" /\ r \in R /\ c.conflict # 0) => d.bank[b][r] = c.bank[b][r]

\* The fields of such a CPU.
LEMMA ShapedFields ==
  ASSUME NEW c, Shaped(c)
  PROVE  /\ DOMAIN c = {"reg", "bank", "cpsr", "spsr", "pSpsr", "conflict", "cpuModeInvalid", "pipe",
                        "sequential", "irqLine", "latchIrqDisable", "bus", "slow", "contents", "booth"}
         /\ DOMAIN c.cpsr = {"mode", "t", "f", "i", "n", "z", "c", "v"}
BY PSRFields DEF Shaped, ResetState

\* A CPU that holds words is one.
LEMMA HeldShaped ==
  ASSUME NEW c, HoldsWords(c)
  PROVE  Shaped(c)
<1>1. \A b \in Bank : c.bank[b] \in [Banked -> Word]
  BY DEF HoldsWords
<1>2. \A b \in Bank : DOMAIN c.bank[b] = Banked
  BY <1>1
<1>3. QED
  BY <1>2 DEF HoldsWords, HoldsMode, Shaped

\* Nothing is stored at first,
LEMMA StoresNone ==
  ASSUME NEW c, Shaped(c), NEW R
  PROVE  StoresOnly(c, c, R)
BY DEF StoresOnly

\* what is stored in two goes is stored,
LEMMA StoresChain ==
  ASSUME NEW c, NEW d, NEW e, NEW R, NEW S, StoresOnly(c, d, R), StoresOnly(d, e, S), S \subseteq R
  PROVE  StoresOnly(c, e, R)
BY DEF StoresOnly

\* and what leaves the registers as they are stores nothing.
LEMMA StoresNext ==
  ASSUME NEW c, NEW R, NEW d, StoresOnly(c, d, R),
         NEW e, Shaped(e), e.cpsr.mode = d.cpsr.mode, e.pSpsr = d.pSpsr, e.spsr = d.spsr,
         e.conflict # 0 => d.conflict # 0, e.bank = d.bank,
         \A r \in Register : r # 15 => e.reg[r] = d.reg[r]
  PROVE  StoresOnly(c, e, R)
BY DEF StoresOnly

\* Accesses, flags and r15 are no stores,
LEMMA StoresBus ==
  ASSUME NEW c, NEW R, NEW d, StoresOnly(c, d, R), NEW k, NEW a, NEW v
  PROVE  StoresOnly(c, Touch(d, k, a, v), R)
<1> DEFINE e == Touch(d, k, a, v)
<1>1. Shaped(d)
  BY DEF StoresOnly
<1>2. /\ e.cpsr = d.cpsr /\ e.pSpsr = d.pSpsr /\ e.spsr = d.spsr /\ e.bank = d.bank
      /\ e.reg = d.reg /\ DOMAIN e = DOMAIN d /\ (e.conflict # 0 => d.conflict # 0)
  BY <1>1, ShapedFields DEF Touch
<1> HIDE DEF e
<1>3. Shaped(e)
  BY <1>1, <1>2 DEF Shaped
<1>4. StoresOnly(c, e, R)
  BY <1>2, <1>3, StoresNext
<1>5. QED
  BY <1>4, Zenon DEF e

\* nor is the kind of the next access, nor any of the fields the banks do not know.
LEMMA StoresAside ==
  ASSUME NEW c, NEW R, NEW d, StoresOnly(c, d, R), NEW f, NEW n, NEW v
  PROVE  /\ StoresOnly(c, SetFlags(d, f), R)
         /\ StoresOnly(c, Sequential(d), R) /\ StoresOnly(c, Nonsequential(d), R)
         /\ StoresOnly(c, Advance(d, n), R)
         /\ StoresOnly(c, [d EXCEPT !.cpsr.t = v], R)
<1>1. Shaped(d)
  BY DEF StoresOnly
<1>2. StoresOnly(c, SetFlags(d, f), R)
  <2> DEFINE e == SetFlags(d, f)
  <2>1. /\ e.cpsr = [d.cpsr EXCEPT !.n = f.n, !.z = f.z, !.c = f.c, !.v = f.v]
        /\ e.pSpsr = d.pSpsr /\ e.spsr = d.spsr /\ e.bank = d.bank
        /\ e.reg = d.reg /\ DOMAIN e = DOMAIN d /\ e.conflict = d.conflict
    BY <1>1, ShapedFields DEF SetFlags
  <2> HIDE DEF e
  <2>2. e.cpsr.mode = d.cpsr.mode /\ DOMAIN e.cpsr = DOMAIN d.cpsr
    BY <1>1, <2>1, ShapedFields
  <2>3. Shaped(e)
    BY <1>1, <2>1, <2>2 DEF Shaped
  <2>4. StoresOnly(c, e, R)
    BY <2>1, <2>2, <2>3, StoresNext
  <2>5. QED
    BY <2>4, Zenon DEF e
<1>3. StoresOnly(c, Sequential(d), R)
  <2> DEFINE e == Sequential(d)
  <2>1. /\ e.cpsr = d.cpsr /\ e.pSpsr = d.pSpsr /\ e.spsr = d.spsr /\ e.bank = d.bank
        /\ e.reg = d.reg /\ DOMAIN e = DOMAIN d /\ e.conflict = d.conflict
    BY <1>1, ShapedFields DEF Sequential
  <2> HIDE DEF e
  <2>2. Shaped(e)
    BY <1>1, <2>1 DEF Shaped
  <2>3. StoresOnly(c, e, R)
    BY <2>1, <2>2, StoresNext
  <2>4. QED
    BY <2>3, Zenon DEF e
<1>4. StoresOnly(c, Nonsequential(d), R)
  <2> DEFINE e == Nonsequential(d)
  <2>1. /\ e.cpsr = d.cpsr /\ e.pSpsr = d.pSpsr /\ e.spsr = d.spsr /\ e.bank = d.bank
        /\ e.reg = d.reg /\ DOMAIN e = DOMAIN d /\ e.conflict = d.conflict
    BY <1>1, ShapedFields DEF Nonsequential
  <2> HIDE DEF e
  <2>2. Shaped(e)
    BY <1>1, <2>1 DEF Shaped
  <2>3. StoresOnly(c, e, R)
    BY <2>1, <2>2, StoresNext
  <2>4. QED
    BY <2>3, Zenon DEF e
<1>5. StoresOnly(c, Advance(d, n), R)
  <2> DEFINE e == Advance(d, n)
             v15 == Wrap(d.reg[15] + n)
  <2>1. /\ e.cpsr = d.cpsr /\ e.pSpsr = d.pSpsr /\ e.spsr = d.spsr /\ e.bank = d.bank
        /\ e.reg = [d.reg EXCEPT ![15] = v15] /\ DOMAIN e = DOMAIN d /\ e.conflict = d.conflict
    BY <1>1, ShapedFields DEF Advance
  <2> HIDE DEF e, v15
  <2>2. DOMAIN e.reg = Register /\ \A r \in Register : r # 15 => e.reg[r] = d.reg[r]
    BY <1>1, <2>1 DEF Shaped
  <2>3. Shaped(e)
    BY <1>1, <2>1, <2>2 DEF Shaped
  <2>4. StoresOnly(c, e, R)
    BY <2>1, <2>2, <2>3, StoresNext
  <2>5. QED
    BY <2>4, Zenon DEF e
<1>6. StoresOnly(c, [d EXCEPT !.cpsr.t = v], R)
  <2> DEFINE e == [d EXCEPT !.cpsr.t = v]
  <2>1. /\ e.cpsr = [d.cpsr EXCEPT !.t = v]
        /\ e.pSpsr = d.pSpsr /\ e.spsr = d.spsr /\ e.bank = d.bank
        /\ e.reg = d.reg /\ DOMAIN e = DOMAIN d /\ e.conflict = d.conflict
    BY <1>1, ShapedFields
  <2> HIDE DEF e
  <2>2. e.cpsr.mode = d.cpsr.mode /\ DOMAIN e.cpsr = DOMAIN d.cpsr
    BY <1>1, <2>1, ShapedFields
  <2>3. Shaped(e)
    BY <1>1, <2>1, <2>2 DEF Shaped
  <2>4. StoresOnly(c, e, R)
    BY <2>1, <2>2, <2>3, StoresNext
  <2>5. QED
    BY <2>4, Zenon DEF e
<1>7. QED
  BY <1>2, <1>3, <1>4, <1>5, <1>6, Zenon

\* A register is stored by either way to set it.
LEMMA StoresTo ==
  ASSUME NEW c, NEW R, NEW d, StoresOnly(c, d, R), NEW r \in Register, r \in R \/ r = 15, NEW v
  PROVE  StoresOnly(c, SetReg(d, r, v), R) /\ StoresOnly(c, PutReg(d, r, v), R)
<1>1. Shaped(d) /\ DOMAIN d.reg = Register
  BY DEF StoresOnly, Shaped
<1> DEFINE reg == [d.reg EXCEPT ![r] = v]
<1>2. DOMAIN reg = Register /\ \A q \in Register : q \notin R /\ q # 15 => reg[q] = d.reg[q]
  BY <1>1
<1> DEFINE bank == [d.bank EXCEPT !["none"][r] = v]
<1>3. ASSUME r \in Banked
      PROVE  /\ DOMAIN bank = Bank /\ \A b \in Bank : DOMAIN bank[b] = Banked
             /\ \A b \in Bank, q \in Banked : ~(b = "none" /\ q \in R) => bank[b][q] = d.bank[b][q]
  <2>1. DOMAIN d.bank = Bank /\ \A b \in Bank : DOMAIN d.bank[b] = Banked
    BY <1>1 DEF Shaped
  <2>2. r \in R /\ "none" \in Bank
    BY <1>3 DEF Banked, Bank
  <2>3. bank["none"] = [d.bank["none"] EXCEPT ![r] = v] /\ DOMAIN bank = Bank
    BY <2>1, <2>2
  <2>4. \A b \in Bank : b # "none" => bank[b] = d.bank[b]
    BY <2>1, <2>2
  <2> HIDE DEF bank
  <2>5. QED
    BY <2>1, <2>2, <2>3, <2>4
<1>4. StoresOnly(c, PutReg(d, r, v), R)
  <2> DEFINE e == PutReg(d, r, v)
  <2>1. /\ e.cpsr = d.cpsr /\ e.pSpsr = d.pSpsr /\ e.spsr = d.spsr /\ e.bank = d.bank
        /\ e.reg = reg /\ DOMAIN e = DOMAIN d /\ e.conflict = d.conflict
    BY <1>1, ShapedFields DEF PutReg
  <2> HIDE DEF e, reg
  <2>2. Shaped(e)
    BY <1>1, <1>2, <2>1 DEF Shaped
  <2>3. StoresOnly(c, e, R)
    BY <1>2, <2>1, <2>2 DEF StoresOnly
  <2>4. QED
    BY <2>3, Zenon DEF e
<1>5. StoresOnly(c, SetReg(d, r, v), R)
  <2> DEFINE e == SetReg(d, r, v)
             to == ldmUsermode(d) /\ r \in Banked
             not == d.cpuModeInvalid /\ r \in Banked
  <2>1. /\ e.cpsr = d.cpsr /\ e.pSpsr = d.pSpsr /\ e.spsr = d.spsr
        /\ e.bank = (IF to THEN bank ELSE d.bank) /\ e.reg = (IF not THEN d.reg ELSE reg)
        /\ DOMAIN e = DOMAIN d /\ e.conflict = d.conflict
    BY <1>1, ShapedFields DEF SetReg
  <2>2. to => r \in Banked /\ d.conflict # 0
    BY Zenon DEF ldmUsermode
  <2> HIDE DEF e, reg, bank, to, not
  <2>3. DOMAIN e.reg = Register /\ \A q \in Register : q \notin R /\ q # 15 => e.reg[q] = d.reg[q]
    BY <1>1, <1>2, <2>1
  <2>4. /\ DOMAIN e.bank = Bank /\ \A b \in Bank : DOMAIN e.bank[b] = Banked
        /\ \A b \in Bank, q \in Banked :
             ~(b = "none" /\ q \in R /\ d.conflict # 0) => e.bank[b][q] = d.bank[b][q]
    <3>1. CASE to
      BY <1>3, <2>1, <2>2, <3>1
    <3>2. CASE ~to
      BY <1>1, <2>1, <3>2 DEF Shaped
    <3>3. QED
      BY <3>1, <3>2
  <2>5. Shaped(e)
    BY <1>1, <2>1, <2>3, <2>4 DEF Shaped
  <2>6. StoresOnly(c, e, R)
    BY <2>1, <2>3, <2>4, <2>5 DEF StoresOnly
  <2>7. QED
    BY <2>6, Zenon DEF e
<1>6. QED
  BY <1>4, <1>5, Zenon

\* To jump is to store nothing.
LEMMA StoresJump ==
  ASSUME NEW c, NEW R, NEW d, StoresOnly(c, d, R), NEW thumb, NEW at
  PROVE  StoresOnly(c, Reload(d, thumb), R) /\ StoresOnly(c, Jump(d, at, thumb), R)
<1>1. ASSUME NEW x, StoresOnly(c, x, R) PROVE StoresOnly(c, Reload(x, thumb), R)
  <2> DEFINE width == IF thumb THEN 2 ELSE 4
             pc == x.reg[15]
             next == Wrap(pc + width)
             c1 == Code(Code(x, pc, thumb), next, thumb)
             c2 == Advance(c1, 2 * width)
             pipe == <<Fetched(pc, thumb), Fetched(next, thumb)>>
             i == x.cpsr.i
             e == [c2 EXCEPT !.pipe = pipe, !.sequential = TRUE, !.latchIrqDisable = i]
  <2> HIDE DEF width, pc, next, pipe, i
  <2>1. StoresOnly(c, c1, R)
    BY <1>1, StoresBus DEF Code
  <2> HIDE DEF c1
  <2>2. StoresOnly(c, c2, R)
    BY <2>1, StoresAside
  <2> HIDE DEF c2
  <2>3. Shaped(c2)
    BY <2>2 DEF StoresOnly
  <2>4. /\ e.cpsr = c2.cpsr /\ e.pSpsr = c2.pSpsr /\ e.spsr = c2.spsr /\ e.bank = c2.bank
        /\ e.reg = c2.reg /\ DOMAIN e = DOMAIN c2 /\ e.conflict = c2.conflict
    BY <2>3, ShapedFields
  <2>5. e = Reload(x, thumb)
    BY Zenon DEF Reload, c2, c1, pipe, next, pc, width, i
  <2> HIDE DEF e
  <2>6. Shaped(e)
    BY <2>3, <2>4 DEF Shaped
  <2>7. StoresOnly(c, e, R)
    BY <2>2, <2>4, <2>6, StoresNext
  <2>8. QED
    BY <2>5, <2>7, Zenon
<1>2. 15 \in Register
  BY DEF Register
<1>3. StoresOnly(c, PutReg(d, 15, at), R)
  BY <1>2, StoresTo
<1>4. QED
  BY <1>1, <1>3, Zenon DEF Jump

\* The slots that stores to the registers R reach, in a bank of c,
Reached(c, bank, R) ==
  {Slot(bank, r) : r \in R}
    \cup IF ldmUsermode(c) THEN {Slot("none", r) : r \in R \cap (8 .. 14)} ELSE {}

\* and CPUs whose flat files agree outside some slots.
AgreeOutside(c, d, W) == \A s \in Slots \ W : File(d)[s] = File(c)[s]

\* A slot belongs to a bank that has the register.
LEMMA SlotsAre ==
  ASSUME NEW s \in Slots
  PROVE  /\ s = <<s[1], s[2]>> /\ s[1] \in RealBank /\ s[2] \in 0 .. 14 \cup {SavedStatus}
         /\ s[2] \in 0 .. 7 => s[1] = "none"
         /\ s[2] \in 8 .. 12 => s[1] \in {"none", "fiq"}
         /\ s[2] = SavedStatus => s[1] # "none"
<1>1. CASE s \in {<<"none", r>> : r \in 0 .. 14}
  BY <1>1 DEF RealBank, Bank, SavedStatus
<1>2. CASE s \in {<<"fiq", r>> : r \in 8 .. 12}
  BY <1>2 DEF RealBank, Bank, SavedStatus
<1>3. CASE s \in {<<b, r>> : b \in RealBank \ {"none"}, r \in {13, 14, SavedStatus}}
  BY <1>3 DEF RealBank, Bank, SavedStatus
<1>4. QED
  BY <1>1, <1>2, <1>3 DEF Slots

\* What a slot holds.
LEMMA FileIs ==
  ASSUME NEW c, NEW s \in Slots
  PROVE  LET b == s[1]
             r == s[2]
             here == BankOf(c.cpsr.mode)
         IN  /\ r = SavedStatus => File(c)[s] = PSRWord(c.spsr[b])
             /\ r \in 0 .. 7 => File(c)[s] = c.reg[r]
             /\ r \in 8 .. 12 /\ (b = "fiq" <=> here = "fiq") => File(c)[s] = c.reg[r]
             /\ r \in 8 .. 12 /\ ~(b = "fiq" <=> here = "fiq") => File(c)[s] = c.bank[b][r]
             /\ r \in 13 .. 14 /\ b = here => File(c)[s] = c.reg[r]
             /\ r \in 13 .. 14 /\ b # here => File(c)[s] = c.bank[b][r]
<1> DEFINE b == s[1]
           r == s[2]
           here == BankOf(c.cpsr.mode)
           kept == PSRWord(c.spsr[b])
           v == CASE r = SavedStatus -> kept
                  [] r \in 0 .. 7 -> c.reg[r]
                  [] r \in 8 .. 12 -> IF (b = "fiq") = (here = "fiq") THEN c.reg[r] ELSE c.bank[b][r]
                  [] r \in 13 .. 14 -> IF b = here THEN c.reg[r] ELSE c.bank[b][r]
<1>1. File(c)[s] = v
  BY Zenon DEF File
<1>2. SavedStatus = 16
  BY DEF SavedStatus
<1> HIDE DEF b, r, here, kept
<1>3. r = SavedStatus => v = kept
  BY <1>2
<1>4. r \in 0 .. 7 => v = c.reg[r]
  BY <1>2
<1>5. r \in 8 .. 12 => v = IF (b = "fiq") = (here = "fiq") THEN c.reg[r] ELSE c.bank[b][r]
  BY <1>2
<1>6. r \in 13 .. 14 => v = IF b = here THEN c.reg[r] ELSE c.bank[b][r]
  BY <1>2
<1> HIDE DEF v
<1>7. QED
  BY <1>1, <1>3, <1>4, <1>5, <1>6 DEF b, r, here, kept

\* A store reaches the slots of its registers and no other.
LEMMA StoresReach ==
  ASSUME NEW c, NEW d, NEW R, StoresOnly(c, d, R)
  PROVE  AgreeOutside(c, d, Reached(c, BankOf(c.cpsr.mode), R))
<1> DEFINE here == BankOf(c.cpsr.mode)
<1>1. SUFFICES ASSUME NEW s \in Slots, s \notin Reached(c, here, R)
               PROVE  File(d)[s] = File(c)[s]
  BY Zenon DEF AgreeOutside
<1> DEFINE b == s[1]
           r == s[2]
<1>2. /\ s = <<b, r>> /\ b \in RealBank /\ r \in 0 .. 14 \cup {SavedStatus}
      /\ r \in 0 .. 7 => b = "none"
      /\ r \in 8 .. 12 => b \in {"none", "fiq"}
  BY SlotsAre
<1>3. BankOf(d.cpsr.mode) = here /\ d.spsr = c.spsr
  BY Zenon DEF StoresOnly
<1>4. r \in R => s # Slot(here, r)
  <2>1. r \in R => Slot(here, r) \in Reached(c, here, R)
    <3> HIDE DEF r, here
    <3>1. QED
      BY Zenon DEF Reached
  <2>2. QED
    BY <1>1, <2>1, Zenon
<1>5. r \in R /\ r \in 8 .. 14 /\ c.conflict # 0 => s # Slot("none", r)
  <2>1. r \in R /\ r \in 8 .. 14 /\ c.conflict # 0 => Slot("none", r) \in Reached(c, here, R)
    <3> HIDE DEF r, here
    <3>1. QED
      BY Zenon DEF Reached, ldmUsermode
  <2>2. QED
    BY <1>1, <2>1, Zenon
<1> HIDE DEF here
<1>6. b \in Bank
  BY <1>2 DEF RealBank
<1>7. CASE r = SavedStatus
  <2>1. File(c)[s] = PSRWord(c.spsr[b]) /\ File(d)[s] = PSRWord(d.spsr[b])
    BY <1>7, FileIs, Zenon
  <2>2. QED
    BY <1>3, <2>1, Zenon
<1>8. CASE r \in 0 .. 7
  <2>1. File(c)[s] = c.reg[r] /\ File(d)[s] = d.reg[r]
    BY <1>8, FileIs, Zenon
  <2>2. Slot(here, r) = s
    BY <1>2, <1>8 DEF Slot, SavedStatus
  <2>3. r \in Register /\ r # 15
    BY <1>8 DEF Register
  <2>4. d.reg[r] = c.reg[r]
    BY <1>4, <2>2, <2>3, Zenon DEF StoresOnly
  <2>5. QED
    BY <2>1, <2>4, Zenon
<1>9. CASE r \in 8 .. 14
  <2>1. r \in Register /\ r # 15 /\ r \in Banked
    BY <1>9 DEF Register, Banked
  <2> DEFINE mine == IF r \in 8 .. 12 THEN (b = "fiq" <=> here = "fiq") ELSE b = here
  <2>2. CASE mine
    <3>1. File(c)[s] = c.reg[r] /\ File(d)[s] = d.reg[r]
      <4>1. r \in 8 .. 12 \/ r \in 13 .. 14
        BY <1>9
      <4>2. r \in 13 .. 14 => r \notin 8 .. 12
        OBVIOUS
      <4>3. QED
        BY <1>3, <2>2, <4>1, <4>2, FileIs, Zenon DEF here
    <3>2. Slot(here, r) = s
      <4>1. CASE r \in 8 .. 12
        BY <1>2, <2>2, <4>1 DEF Slot, SavedStatus
      <4>2. CASE r \notin 8 .. 12
        BY <1>2, <1>9, <2>2, <4>2 DEF Slot, SavedStatus
      <4>3. QED
        BY <4>1, <4>2, Zenon
    <3>3. d.reg[r] = c.reg[r]
      BY <1>4, <2>1, <3>2, Zenon DEF StoresOnly
    <3>4. QED
      BY <3>1, <3>3, Zenon
  <2>3. CASE ~mine
    <3>1. File(c)[s] = c.bank[b][r] /\ File(d)[s] = d.bank[b][r]
      <4>1. r \in 8 .. 12 \/ r \in 13 .. 14
        BY <1>9
      <4>2. r \in 13 .. 14 => r \notin 8 .. 12
        OBVIOUS
      <4>3. QED
        BY <1>3, <2>3, <4>1, <4>2, FileIs, Zenon DEF here
    <3>2. b = "none" => Slot("none", r) = s
      BY <1>2, <1>9 DEF Slot, SavedStatus
    <3>3. ~(b = "none" /\ r \in R /\ c.conflict # 0)
      BY <1>5, <1>9, <3>2, Zenon
    <3>4. d.bank[b][r] = c.bank[b][r]
      BY <1>6, <2>1, <3>3, Zenon DEF StoresOnly
    <3>5. QED
      BY <3>1, <3>4, Zenon
  <2>4. QED
    BY <2>2, <2>3, Zenon
<1>10. QED
  BY <1>2, <1>7, <1>8, <1>9

\* What a mode that does not exist destroys,
Lost(mode) == IF BankOf(mode) = "invalid" THEN {<<"none", r>> : r \in 8 .. 12} ELSE {}

\* and a CPU whose saved status is the one of its mode.
Selected(c) == c.pSpsr = BankOf(c.cpsr.mode)

\* The flat files of three CPUs.
LEMMA AgreeChain ==
  ASSUME NEW c, NEW d, NEW e, NEW V, NEW W, AgreeOutside(c, d, V), AgreeOutside(d, e, W)
  PROVE  AgreeOutside(c, e, V \cup W)
BY Zenon DEF AgreeOutside

\* CPUs whose registers, banks and saved statuses are the same have one file.
LEMMA SameFile ==
  ASSUME NEW c, NEW d, d.reg = c.reg, d.bank = c.bank, d.spsr = c.spsr,
         BankOf(d.cpsr.mode) = BankOf(c.cpsr.mode)
  PROVE  File(d) = File(c)
<1> DEFINE G(reg, bank, spsr, here) ==
             [s \in Slots |->
               CASE s[2] = SavedStatus -> PSRWord(spsr[s[1]])
                 [] s[2] \in 0 .. 7 -> reg[s[2]]
                 [] s[2] \in 8 .. 12 ->
                      IF (s[1] = "fiq") = (here = "fiq") THEN reg[s[2]] ELSE bank[s[1]][s[2]]
                 [] s[2] \in 13 .. 14 -> IF s[1] = here THEN reg[s[2]] ELSE bank[s[1]][s[2]]]
<1>1. File(c) = G(c.reg, c.bank, c.spsr, BankOf(c.cpsr.mode))
  BY Zenon DEF File
<1>2. File(d) = G(d.reg, d.bank, d.spsr, BankOf(d.cpsr.mode))
  BY Zenon DEF File
<1> HIDE DEF G
<1>3. QED
  BY <1>1, <1>2, Zenon

\* A change of mode carries every register to where its slot is looked for.
LEMMA SwitchAgrees ==
  ASSUME NEW c, Shaped(c), NEW mode
  PROVE  LET d == SwitchMode(c, mode) IN
         /\ Shaped(d) /\ AgreeOutside(c, d, Lost(mode))
         /\ d.cpsr = [c.cpsr EXCEPT !.mode = mode] /\ d.cpsr.mode = mode
         /\ d.pSpsr = BankOf(mode) /\ d.conflict = c.conflict
<1> DEFINE old == BankOf(c.cpsr.mode)
           new == BankOf(mode)
           five == FiveMove(old, new)
           banked ==
             [b \in DOMAIN c.bank |->
               [r \in Banked |->
                 IF \/ r \in 8 .. 12 /\ five # <<>> /\ b = five[1]
                    \/ r \in 13 .. 14 /\ b = old
                 THEN c.reg[r] ELSE c.bank[b][r]]]
           entered ==
             [r \in 0 .. 15 |->
               CASE r \in Banked /\ new = "invalid" -> 0
                 [] r \in 13 .. 14 /\ new # "invalid" -> banked[new][r]
                 [] r \in 8 .. 12 /\ new # "invalid" /\ five # <<>> -> banked[five[2]][r]
                 [] OTHER -> c.reg[r]]
           selected == [c EXCEPT !.cpsr.mode = mode, !.pSpsr = new]
           d == SwitchMode(c, mode)
           gone == IF new = "invalid" THEN [c.spsr EXCEPT ![new] = ZeroPSR] ELSE c.spsr
           full == [selected EXCEPT
              !.bank = banked, !.reg = entered,
              !.cpuModeInvalid = (new = "invalid"),
              !.spsr = IF new = "invalid" THEN [@ EXCEPT ![new] = ZeroPSR] ELSE @]
<1>1. old \in Bank /\ new \in Bank
  BY ModesAre
<1>2. /\ selected.cpsr = [c.cpsr EXCEPT !.mode = mode] /\ selected.pSpsr = new
      /\ DOMAIN selected = DOMAIN c /\ selected.reg = c.reg /\ selected.bank = c.bank
      /\ selected.spsr = c.spsr /\ selected.conflict = c.conflict
  BY ShapedFields
<1>3. selected.cpsr.mode = mode /\ DOMAIN selected.cpsr = DOMAIN ZeroPSR
  BY <1>2, ShapedFields DEF Shaped
<1>4. CASE old = new
  <2>1. d = selected
    BY <1>4, Zenon DEF SwitchMode
  <2> HIDE DEF selected, d
  <2>2. Shaped(d)
    BY <1>2, <1>3, <2>1 DEF Shaped
  <2>3. AgreeOutside(c, d, Lost(mode))
    <3>1. /\ d.reg = c.reg /\ d.bank = c.bank /\ d.spsr = c.spsr
          /\ BankOf(d.cpsr.mode) = BankOf(c.cpsr.mode)
      BY <1>2, <1>3, <1>4, <2>1, Zenon DEF old, new
    <3>2. File(d) = File(c)
      BY <3>1, SameFile, Zenon
    <3>3. QED
      BY <3>2, Zenon DEF AgreeOutside
  <2>4. QED
    BY <1>2, <1>3, <2>1, <2>2, <2>3, Zenon DEF new, d
<1>5. CASE old # new
  <2>1. d = full
    BY <1>5, Zenon DEF SwitchMode
  <2>2. /\ full.cpsr = selected.cpsr /\ full.pSpsr = new
        /\ DOMAIN full = DOMAIN c /\ full.reg = entered /\ full.bank = banked
        /\ full.conflict = c.conflict /\ full.spsr = gone
    <3> HIDE DEF banked, entered, selected, new
    <3>1. DOMAIN selected = {"reg", "bank", "cpsr", "spsr", "pSpsr", "conflict", "cpuModeInvalid", "pipe",
                     "sequential", "irqLine", "latchIrqDisable", "bus", "slow", "contents", "booth"}
      BY <1>2, ShapedFields, Zenon
    <3>2. QED
      BY <3>1, <1>2
  <2>3. /\ d.cpsr = [c.cpsr EXCEPT !.mode = mode] /\ d.cpsr.mode = mode /\ d.pSpsr = new
        /\ d.conflict = c.conflict /\ d.reg = entered /\ d.bank = banked /\ d.spsr = gone
        /\ DOMAIN d = DOMAIN c /\ DOMAIN d.cpsr = DOMAIN ZeroPSR
    <3> HIDE DEF full, d, selected, banked, entered, new, gone
    <3>1. QED
      BY <1>2, <1>3, <2>1, <2>2
  <2> HIDE DEF d, full, selected
  <2>4. DOMAIN c.bank = Bank
    BY DEF Shaped
  <2>5. \A b \in Bank, r \in Banked : banked[b][r] =
          IF (r \in 8 .. 12 /\ five # << >> /\ b = five[1]) \/ (r \in 13 .. 14 /\ b = old)
          THEN c.reg[r] ELSE c.bank[b][r]
    <3> HIDE DEF five, old
    <3>1. QED
      BY <2>4
  <2>6. DOMAIN banked = Bank /\ \A b \in Bank : DOMAIN banked[b] = Banked
    <3> HIDE DEF five, old
    <3>1. QED
      BY <2>4
  <2> HIDE DEF banked
  <2>7. /\ DOMAIN entered = 0 .. 15
        /\ \A r \in 0 .. 7 : entered[r] = c.reg[r]
        /\ \A r \in 13 .. 14 : new # "invalid" => entered[r] = banked[new][r]
        /\ \A r \in 8 .. 12 : new # "invalid" /\ five # << >> => entered[r] = banked[five[2]][r]
        /\ \A r \in 8 .. 12 : new # "invalid" /\ five = << >> => entered[r] = c.reg[r]
    <3> HIDE DEF five, new
    <3>1. QED
      BY DEF Banked
  <2> HIDE DEF entered
  <2>8. /\ DOMAIN gone = Bank /\ \A b \in RealBank : gone[b] = c.spsr[b]
        /\ \A b \in Bank : DOMAIN gone[b] = DOMAIN ZeroPSR
    <3> HIDE DEF new
    <3>1. QED
      BY <1>1 DEF Shaped, RealBank
  <2> HIDE DEF gone
  <2>9. Shaped(d)
    BY <2>3, <2>6, <2>7, <2>8 DEF Shaped, Register
  <2>10. AgreeOutside(c, d, Lost(mode))
    <3>1. SUFFICES ASSUME NEW s \in Slots, s \notin Lost(mode) PROVE File(d)[s] = File(c)[s]
      BY Zenon DEF AgreeOutside
    <3> DEFINE b == s[1]
               r == s[2]
    <3>2. /\ s = <<b, r>> /\ b \in RealBank /\ r \in 0 .. 14 \cup {SavedStatus}
          /\ r \in 0 .. 7 => b = "none"
          /\ r \in 8 .. 12 => b \in {"none", "fiq"}
      BY SlotsAre
    <3>3. BankOf(d.cpsr.mode) = new /\ BankOf(c.cpsr.mode) = old /\ b \in Bank
      BY <2>3, <3>2 DEF RealBank
    <3>4. new = "invalid" /\ r \in 8 .. 12 => b = "fiq"
      BY <3>1, <3>2 DEF Lost
    <3> HIDE DEF old, new
    <3>5. CASE r = SavedStatus
      <4>1. File(c)[s] = PSRWord(c.spsr[b]) /\ File(d)[s] = PSRWord(d.spsr[b])
        BY <3>5, FileIs, Zenon
      <4>2. QED
        BY <2>3, <2>8, <3>2, <4>1, Zenon
    <3>6. CASE r \in 0 .. 7
      <4>1. File(c)[s] = c.reg[r] /\ File(d)[s] = d.reg[r]
        BY <3>6, FileIs, Zenon
      <4>2. QED
        BY <2>3, <2>7, <3>6, <4>1, Zenon
    <3>7. CASE r \in 13 .. 14
      <4>1. /\ b = old => File(c)[s] = c.reg[r]
            /\ b # old => File(c)[s] = c.bank[b][r]
        BY <3>3, <3>7, FileIs, Zenon
      <4>2. /\ b = new => File(d)[s] = d.reg[r]
            /\ b # new => File(d)[s] = d.bank[b][r]
        BY <3>3, <3>7, FileIs, Zenon
      <4>3. b # "invalid" /\ r \in Banked /\ ~(r \in 8 .. 12)
        BY <3>2, <3>7 DEF RealBank, Banked
      <4>4. banked[b][r] = IF b = old THEN c.reg[r] ELSE c.bank[b][r]
        BY <2>5, <3>3, <3>7, <4>3
      <4>5. b = new => d.reg[r] = banked[b][r]
        <5>1. d.reg = entered
          BY <2>3, Zenon
        <5>2. new # "invalid" => entered[r] = banked[new][r]
          BY <2>7, <3>7, Zenon
        <5>3. QED
          BY <5>1, <5>2, <4>3, Zenon
      <4>6. d.bank[b][r] = banked[b][r]
        BY <2>3, Zenon
      <4>7. QED
        BY <4>1, <4>2, <4>4, <4>5, <4>6, Zenon
    <3>8. CASE r \in 8 .. 12
      <4>1. /\ (b = "fiq" <=> old = "fiq") => File(c)[s] = c.reg[r]
            /\ ~(b = "fiq" <=> old = "fiq") => File(c)[s] = c.bank[b][r]
        BY <3>3, <3>8, FileIs, Zenon
      <4>2. /\ (b = "fiq" <=> new = "fiq") => File(d)[s] = d.reg[r]
            /\ ~(b = "fiq" <=> new = "fiq") => File(d)[s] = d.bank[b][r]
        BY <3>3, <3>8, FileIs, Zenon
      <4>3. r \in Banked /\ ~(r \in 13 .. 14)
        BY <3>8 DEF Banked
      <4>4. banked[b][r] = IF five # << >> /\ b = five[1] THEN c.reg[r] ELSE c.bank[b][r]
        BY <2>5, <3>3, <3>8, <4>3
      <4>5. /\ new # "invalid" /\ five # << >> => d.reg[r] = banked[five[2]][r]
            /\ new # "invalid" /\ five = << >> => d.reg[r] = c.reg[r]
            /\ d.bank[b][r] = banked[b][r]
        BY <2>3, <2>7, <3>8, Zenon
      <4>6. /\ old = "fiq" => five # << >> /\ five[1] = "fiq" /\ five[2] = "none"
            /\ old # "fiq" /\ new = "fiq" => five # << >> /\ five[1] = "none" /\ five[2] = "fiq"
            /\ old # "fiq" /\ new # "fiq" => five = << >>
        <5>1. old = "fiq" => five = <<"fiq", "none">>
          <6>1. old = "fiq" => new # "fiq"
            BY <1>5
          <6>2. QED
            BY <6>1, Zenon DEF FiveMove
        <5>2. old # "fiq" /\ new = "fiq" => five = <<"none", "fiq">>
          BY Zenon DEF FiveMove
        <5>3. old # "fiq" /\ new # "fiq" => five = << >>
          BY Zenon DEF FiveMove
        <5> HIDE DEF five
        <5>4. QED
          BY <5>1, <5>2, <5>3
      <4> HIDE DEF five, b, r
      <4>7. CASE old = "fiq"
        <5>1. new # "fiq"
          BY <1>5, <4>7
        <5>2. CASE b = "fiq"
          BY <4>1, <4>2, <4>4, <4>5, <4>6, <4>7, <5>1, <5>2, Zenon
        <5>3. CASE b # "fiq"
          <6>1. b = "none" /\ new # "invalid" /\ "none" # "fiq"
            BY <3>2, <3>4, <3>8, <5>3
          <6>2. File(c)[s] = c.bank[b][r] /\ File(d)[s] = d.reg[r]
            BY <4>1, <4>2, <4>7, <5>1, <5>3, Zenon
          <6>3. d.reg[r] = banked[b][r] /\ b # five[1]
            BY <4>5, <4>6, <4>7, <6>1, Zenon
          <6>4. QED
            BY <4>4, <6>2, <6>3, Zenon
        <5>4. QED
          BY <5>2, <5>3, Zenon
      <4>8. CASE old # "fiq" /\ new = "fiq"
        <5>1. new # "invalid" /\ "none" # "fiq"
          BY <4>8
        <5>2. CASE b = "fiq"
          <6>1. File(c)[s] = c.bank[b][r] /\ File(d)[s] = d.reg[r]
            BY <4>1, <4>2, <4>8, <5>2, Zenon
          <6>2. d.reg[r] = banked[b][r] /\ b # five[1]
            BY <4>5, <4>6, <4>8, <5>1, <5>2, Zenon
          <6>3. QED
            BY <4>4, <6>1, <6>2, Zenon
        <5>3. CASE b # "fiq"
          <6>1. b = "none"
            BY <3>2, <3>8, <5>3
          <6>2. File(c)[s] = c.reg[r] /\ File(d)[s] = d.bank[b][r]
            BY <4>1, <4>2, <4>8, <5>3, Zenon
          <6>3. banked[b][r] = c.reg[r]
            BY <4>4, <4>6, <4>8, <6>1, Zenon
          <6>4. QED
            BY <4>5, <6>2, <6>3, Zenon
        <5>4. QED
          BY <5>2, <5>3, Zenon
      <4>9. CASE old # "fiq" /\ new # "fiq"
        <5>1. five = << >>
          BY <4>6, <4>9, Zenon
        <5>2. banked[b][r] = c.bank[b][r]
          BY <4>4, <5>1, Zenon
        <5>3. CASE b = "fiq"
          BY <4>1, <4>2, <4>5, <4>9, <5>2, <5>3, Zenon
        <5>4. CASE b # "fiq"
          <6>1. new # "invalid"
            BY <3>4, <3>8, <5>4, Zenon
          <6>2. QED
            BY <4>1, <4>2, <4>5, <4>9, <5>1, <5>4, <6>1, Zenon
        <5>5. QED
          BY <5>3, <5>4, Zenon
      <4>10. QED
        BY <4>7, <4>8, <4>9, Zenon
    <3>9. r = SavedStatus \/ r \in 0 .. 7 \/ r \in 8 .. 12 \/ r \in 13 .. 14
      BY <3>2
    <3>10. QED
      BY <3>5, <3>6, <3>7, <3>8, <3>9, Zenon
  <2>11. QED
    BY <2>3, <2>9, <2>10, Zenon DEF new, d
<1>6. QED
  BY <1>4, <1>5, Zenon

\* The registers that each instruction names, r15 aside.
LEMMA NamedIs ==
  ASSUME NEW i
  PROVE  /\ i.op \in {"DataProcessing", "Op3", "ALU", "HighRegisterOps_BX"} =>
              Named(i) = (IF i.code \in Tests \cup {"BX"} THEN {} ELSE {i.rd}) \ {15}
         /\ i.op = "StatusTransfer" =>
              Named(i) = (IF ~i.toStatus THEN {i.rd} ELSE IF i.useSPSR THEN {SavedStatus} ELSE {}) \ {15}
         /\ i.op = "MultiplyLong" => Named(i) = {i.lo, i.hi} \ {15}
         /\ i.op \in {"Multiply", "SingleDataSwap", "MoveShiftedRegister", "AddSub", "LoadAddress",
                      "LoadStoreRelativePC"} => Named(i) = {i.rd} \ {15}
         /\ i.op = "BranchAndLink" => Named(i) = (IF i.link THEN {14} ELSE {}) \ {15}
         /\ i.op = "LongBranchLink" => Named(i) = {14} \ {15}
         /\ i.op \in {"HalfwordSignedTransfer", "SingleDataTransfer"} =>
              Named(i) = ((IF i.load THEN {i.rd} ELSE {})
                            \cup IF i.writeback \/ ~i.pre THEN {i.rn} ELSE {}) \ {15}
         /\ i.op = "BlockDataTransfer" =>
              Named(i) = ((IF i.load THEN i.list ELSE {})
                            \cup IF i.writeback THEN {i.rn} ELSE {}) \ {15}
         /\ i.op \in {"LoadStoreOffsetReg", "LoadStoreSigned", "LoadStoreOffsetImm",
                      "LoadStoreHword", "LoadStoreRelativeToSP"} =>
              Named(i) = (IF i.load THEN {i.rd} ELSE {}) \ {15}
         /\ i.op = "AddOffsetToSP" => Named(i) = {13} \ {15}
         /\ i.op = "PushPop" => Named(i) = ({13} \cup IF i.pop THEN i.list ELSE {}) \ {15}
         /\ i.op = "LoadStoreMultiple" =>
              Named(i) = ({i.rb} \cup IF i.load THEN i.list ELSE {}) \ {15}
         /\ i.op \in {"none", "SWI", "Undefined", "BranchAndExchange", "ConditionalBranch",
                      "UnconditionalBranch"} => Named(i) = {}
<1>1. i.op \in {"DataProcessing", "Op3", "ALU", "HighRegisterOps_BX"} =>
        Named(i) = (IF i.code \in Tests \cup {"BX"} THEN {} ELSE {i.rd}) \ {15}
  BY Zenon DEF Named
<1>2. i.op = "StatusTransfer" =>
        Named(i) = (IF ~i.toStatus THEN {i.rd} ELSE IF i.useSPSR THEN {SavedStatus} ELSE {}) \ {15}
  BY Zenon DEF Named
<1>3. i.op = "MultiplyLong" => Named(i) = {i.lo, i.hi} \ {15}
  BY Zenon DEF Named
<1>4. i.op \in {"Multiply", "SingleDataSwap", "MoveShiftedRegister", "AddSub", "LoadAddress",
                "LoadStoreRelativePC"} => Named(i) = {i.rd} \ {15}
  BY Zenon DEF Named
<1>5. i.op = "BranchAndLink" => Named(i) = (IF i.link THEN {14} ELSE {}) \ {15}
  BY Zenon DEF Named
<1>6. i.op = "LongBranchLink" => Named(i) = {14} \ {15}
  BY Zenon DEF Named
<1>7. i.op \in {"HalfwordSignedTransfer", "SingleDataTransfer"} =>
        Named(i) = ((IF i.load THEN {i.rd} ELSE {})
                      \cup IF i.writeback \/ ~i.pre THEN {i.rn} ELSE {}) \ {15}
  BY Zenon DEF Named
<1>8. i.op = "BlockDataTransfer" =>
        Named(i) = ((IF i.load THEN i.list ELSE {}) \cup IF i.writeback THEN {i.rn} ELSE {}) \ {15}
  BY Zenon DEF Named
<1>9. i.op \in {"LoadStoreOffsetReg", "LoadStoreSigned", "LoadStoreOffsetImm",
                "LoadStoreHword", "LoadStoreRelativeToSP"} =>
        Named(i) = (IF i.load THEN {i.rd} ELSE {}) \ {15}
  BY Zenon DEF Named
<1>10. i.op = "AddOffsetToSP" => Named(i) = {13} \ {15}
  BY Zenon DEF Named
<1>11. i.op = "PushPop" => Named(i) = ({13} \cup IF i.pop THEN i.list ELSE {}) \ {15}
  BY Zenon DEF Named
<1>12. i.op = "LoadStoreMultiple" => Named(i) = ({i.rb} \cup IF i.load THEN i.list ELSE {}) \ {15}
  BY Zenon DEF Named
<1>13. i.op \in {"none", "SWI", "Undefined", "BranchAndExchange", "ConditionalBranch",
                 "UnconditionalBranch"} => Named(i) = {}
  BY Zenon DEF Named
<1>14. QED
  BY <1>1, <1>2, <1>3, <1>4, <1>5, <1>6, <1>7, <1>8, <1>9, <1>10, <1>11, <1>12, <1>13, Zenon

\* What the handlers are made of stores nothing,
Aside(c, R) ==
  /\ \A d : StoresOnly(c, d, R) =>
       /\ StoresOnly(c, Stepped(d), R) /\ StoresOnly(c, Busy(d), R) /\ StoresOnly(c, Idle(d), R)
       /\ StoresOnly(c, Sequential(d), R) /\ StoresOnly(c, Nonsequential(d), R)
  /\ \A d, k, a : StoresOnly(c, d, R) => StoresOnly(c, Read(d, k, a), R)
  /\ \A d, a, v : StoresOnly(c, d, R) => StoresOnly(c, Write(d, a, v), R)
  /\ \A d, f : StoresOnly(c, d, R) => StoresOnly(c, SetFlags(d, f), R)
  /\ \A d, n : StoresOnly(c, d, R) => StoresOnly(c, Advance(d, n), R)
  /\ \A d, v : StoresOnly(c, d, R) => StoresOnly(c, [d EXCEPT !.cpsr.t = v], R)
  /\ \A d, at, thumb : StoresOnly(c, d, R) => StoresOnly(c, Jump(d, at, thumb), R)
  /\ \A d, thumb : StoresOnly(c, d, R) => StoresOnly(c, Reload(d, thumb), R)
  /\ \A d, k, a, r : StoresOnly(c, d, R) => StoresOnly(c, Store(d, k, a, r), R)

\* or stores a register the instruction names.
May(R, r) == r \in Register /\ (r \in R \/ r = 15)

Storing(c, R) ==
  /\ \A d, r, v : StoresOnly(c, d, R) /\ May(R, r) =>
       StoresOnly(c, SetReg(d, r, v), R) /\ StoresOnly(c, PutReg(d, r, v), R)
  /\ \A d, f, r : StoresOnly(c, d, R) /\ May(R, r) => StoresOnly(c, Keep(d, f, r), R)
  /\ \A d, k, a, r : StoresOnly(c, d, R) /\ May(R, r) => StoresOnly(c, Load(d, k, a, r), R)

\* The small operators handlers are built from store nothing but r15, or only what
\* they are given to store.
LEMMA HandlersStore ==
  ASSUME NEW c, NEW R
  PROVE  Aside(c, R) /\ Storing(c, R)
<1>1. \A x, n : StoresOnly(c, x, R) =>
        /\ StoresOnly(c, Sequential(x), R) /\ StoresOnly(c, Nonsequential(x), R)
        /\ StoresOnly(c, Advance(x, n), R) /\ StoresOnly(c, SetFlags(x, n), R)
        /\ StoresOnly(c, [x EXCEPT !.cpsr.t = n], R)
  BY StoresAside, Zenon
<1>2. \A x, kind, at, w : StoresOnly(c, x, R) => StoresOnly(c, Touch(x, kind, at, w), R)
  BY StoresBus, Zenon
<1>3. \A x, r, w : StoresOnly(c, x, R) /\ May(R, r) =>
        StoresOnly(c, SetReg(x, r, w), R) /\ StoresOnly(c, PutReg(x, r, w), R)
  BY StoresTo, Zenon DEF May
<1>4. \A x, at, thumb : StoresOnly(c, x, R) =>
        StoresOnly(c, Reload(x, thumb), R) /\ StoresOnly(c, Jump(x, at, thumb), R)
  BY StoresJump, Zenon
<1>5. \A x : StoresOnly(c, x, R) => StoresOnly(c, Stepped(x), R) /\ StoresOnly(c, Busy(x), R)
  BY <1>1, Zenon DEF Stepped, Busy
<1>6. \A x, kind, at, w : StoresOnly(c, x, R) =>
        StoresOnly(c, Idle(x), R) /\ StoresOnly(c, Read(x, kind, at), R) /\ StoresOnly(c, Write(x, at, w), R)
  BY <1>2, Zenon DEF Idle, Read, Write
<1>7. \A x, k, a, r : StoresOnly(c, x, R) => StoresOnly(c, Store(x, k, a, r), R)
  BY <1>5, <1>6, Zenon DEF Store
<1>8. Aside(c, R)
  BY <1>1, <1>4, <1>5, <1>6, <1>7, Zenon DEF Aside
<1>9. \A x, f, r : StoresOnly(c, x, R) /\ May(R, r) => StoresOnly(c, Keep(x, f, r), R)
  BY <1>1, <1>3, Zenon DEF Keep
<1>10. \A x, k, a, r : StoresOnly(c, x, R) /\ May(R, r) => StoresOnly(c, Load(x, k, a, r), R)
  BY <1>3, <1>5, <1>6, Zenon DEF Load
<1>11. QED
  BY <1>3, <1>8, <1>9, <1>10, Zenon DEF Storing

\* What an instruction names it may store.
LEMMA NamedMay ==
  ASSUME NEW R, NEW X, NEW r \in X, R = X \ {15}, r \in Register
  PROVE  May(R, r)
BY DEF May

\* A list of low registers, loaded or stored one at a time.
LEMMA UnitsStore ==
  ASSUME NEW c, NEW R, NEW x, StoresOnly(c, x, R), NEW what, NEW list \in SUBSET LowRegister, NEW low,
         what = "load" => list \subseteq R
  PROVE  StoresOnly(c, Units(what, x, list, low), R)
<1>1. PICK g : AreThumbUnits(g, what, x, list, low, 8) /\ Units(what, x, list, low) = g[8]
  BY ThumbUnitsAre, Zenon
<1> DEFINE Good(m) == StoresOnly(c, g[m], R)
           T == {m \in 0 .. 8 : ~ Good(m)}
<1>2. g[0] = x
  BY <1>1, Zenon DEF AreThumbUnits
<1>3. ASSUME NEW m \in 1 .. 8, Good(m - 1) PROVE Good(m)
  <2>1. g[m] = IF m - 1 \in list THEN Unit(what, g[m - 1], list, low, m - 1) ELSE g[m - 1]
    BY <1>1, Zenon DEF AreThumbUnits
  <2> DEFINE y == g[m - 1]
             r == m - 1
  <2>2. r \in Register
    BY DEF Register
  <2>3. StoresOnly(c, y, R)
    BY <1>3, Zenon
  <2> HIDE DEF y, r
  <2>4. ASSUME r \in list PROVE StoresOnly(c, Unit(what, y, list, low, r), R)
    <3>1. what = "load" => May(R, r)
      BY <2>2, <2>4 DEF May
    <3>2. Aside(c, R) /\ Storing(c, R)
      BY HandlersStore, Zenon
    <3>3. QED
      BY <2>3, <3>1, <3>2, Zenon DEF Aside, Storing, Unit
  <2>5. CASE r \in list
    BY <2>1, <2>4, <2>5, Zenon DEF y, r
  <2>6. CASE r \notin list
    BY <2>1, <2>3, <2>6, Zenon DEF y, r
  <2>7. QED
    BY <2>5, <2>6, Zenon
<1>4. Good(0)
  BY <1>2, Zenon
<1> HIDE DEF Good
<1>5. T = {}
  <2> SUFFICES ASSUME T # {} PROVE FALSE
    OBVIOUS
  <2>1. T \in SUBSET Nat
    OBVIOUS
  <2>2. PICK m \in T : \A y \in T : m <= y
    BY <2>1, NatLeast
  <2>3. m \in 1 .. 8
    BY <1>4, <2>2
  <2>4. m - 1 \in 0 .. 8 /\ m - 1 \notin T
    BY <2>2, <2>3
  <2>5. Good(m - 1)
    BY <2>4
  <2>6. QED
    BY <1>3, <2>2, <2>3, <2>5
<1>6. Good(8)
  BY <1>5
<1>7. QED
  BY <1>1, <1>6, Zenon DEF Good

\* The handlers of the Thumb state store what their instructions name.
LEMMA ThumbStores ==
  ASSUME NEW c, Held(c), NEW i, ThumbEncoding(i), i.op # "SWI"
  PROVE  StoresOnly(c, ThumbHandler(c, i), Named(i))
<1> DEFINE R == Named(i)
           S(d) == StoresOnly(c, d, R)
<1>1. Aside(c, R) /\ Storing(c, R) /\ S(c)
  BY HandlersStore, HeldShaped, StoresNone, Zenon DEF Held
<1>2. \A r \in LowRegister \cup {13, 14, 15} : r \in Register
  BY DEF Register, LowRegister
<1>3. \A X, r : R = X \ {15} /\ r \in X /\ r \in Register => May(R, r)
  BY NamedMay, Zenon
<1>4. ASSUME i.op = "MoveShiftedRegister" PROVE S(ThumbHandler(c, i))
  <2>1. ThumbHandler(c, i) = Thumb_MoveShiftedRegister(c, i)
    BY <1>4, Zenon DEF ThumbHandler
  <2>2. i.rd \in LowRegister
    BY <1>4, Zenon DEF ThumbEncoding
  <2>3. R = {i.rd} \ {15}
    BY <1>4, NamedIs, Zenon
  <2>4. May(R, i.rd)
    BY <1>2, <1>3, <2>2, <2>3, Zenon
  <2> HIDE DEF R
  <2>5. QED
    BY <1>1, <2>1, <2>4, Zenon DEF Thumb_MoveShiftedRegister, Aside, Storing
<1>5. ASSUME i.op = "AddSub" PROVE S(ThumbHandler(c, i))
  <2>1. ThumbHandler(c, i) = Thumb_AddSub(c, i)
    BY <1>5, Zenon DEF ThumbHandler
  <2>2. i.rd \in LowRegister
    BY <1>5, Zenon DEF ThumbEncoding
  <2>3. R = {i.rd} \ {15}
    BY <1>5, NamedIs, Zenon
  <2>4. May(R, i.rd)
    BY <1>2, <1>3, <2>2, <2>3, Zenon
  <2> HIDE DEF R
  <2>5. QED
    BY <1>1, <2>1, <2>4, Zenon DEF Thumb_AddSub, Aside, Storing
<1>6. ASSUME i.op = "Op3" PROVE S(ThumbHandler(c, i))
  <2>1. ThumbHandler(c, i) = Thumb_Op3(c, i)
    BY <1>6, Zenon DEF ThumbHandler
  <2>2. i.rd \in LowRegister /\ i.code \in {"MOV", "CMP", "ADD", "SUB"}
    BY <1>6, Zenon DEF ThumbEncoding
  <2>3. R = (IF i.code \in Tests \cup {"BX"} THEN {} ELSE {i.rd}) \ {15}
    BY <1>6, NamedIs, Zenon
  <2>4. i.code # "CMP" => i.code \notin Tests \cup {"BX"}
    BY <2>2 DEF Tests
  <2>5. i.code # "CMP" => May(R, i.rd)
    BY <1>2, <1>3, <2>2, <2>3, <2>4, Zenon
  <2> HIDE DEF R
  <2>6. QED
    BY <1>1, <2>1, <2>2, <2>5, Zenon DEF Thumb_Op3, Aside, Storing
<1>7. ASSUME i.op = "ALU" PROVE S(ThumbHandler(c, i))
  <2>1. ThumbHandler(c, i) = Thumb_ALU(c, i)
    BY <1>7, Zenon DEF ThumbHandler
  <2>2. i.rd \in LowRegister
        /\ i.code \in ShiftKind \cup {"AND", "EOR", "ORR", "BIC", "MVN", "TST", "ADC", "SBC",
                                      "NEG", "CMP", "CMN", "MUL"}
    BY <1>7, Zenon DEF ThumbEncoding
  <2>3. R = (IF i.code \in Tests \cup {"BX"} THEN {} ELSE {i.rd}) \ {15}
    BY <1>7, NamedIs, Zenon
  <2>4. i.code \notin {"CMP", "CMN", "TST"} => i.code \notin Tests \cup {"BX"}
    BY <2>2 DEF Tests, ShiftKind
  <2>5. i.code \notin {"CMP", "CMN", "TST"} => May(R, i.rd)
    BY <1>2, <1>3, <2>2, <2>3, <2>4, Zenon
  <2> HIDE DEF R
  <2>6. \A x, f : S(x) => S(SetFlags(x, f)) /\ (i.code \notin {"CMP", "CMN", "TST"} => S(Keep(x, f, i.rd)))
    BY <1>1, <2>5, Zenon DEF Aside, Storing
  <2>7. S(Stepped(c)) /\ S(Idle(Busy(c)))
    BY <1>1, Zenon DEF Aside
  <2> HIDE DEF S
  <2>8. CASE i.code \in {"CMP", "CMN", "TST"}
    <3>1. \A f : S(SetFlags(Stepped(c), f))
      BY <2>6, <2>7, Zenon
    <3>2. QED
      BY <2>1, <2>8, <3>1, Zenon DEF Thumb_ALU, ShiftKind
  <2>9. CASE i.code \in {"AND", "EOR", "ORR", "BIC", "MVN", "ADC", "SBC", "NEG", "MUL"}
    BY <2>1, <2>6, <2>7, <2>9, Zenon DEF Thumb_ALU
  <2>10. CASE i.code \in ShiftKind
    <3>1. i.code \in {"LSL", "LSR", "ASR", "ROR"}
      BY <2>10 DEF ShiftKind
    <3>2. QED
      BY <2>1, <2>6, <2>7, <2>10, <3>1, Zenon DEF Thumb_ALU
  <2>11. QED
    BY <2>2, <2>8, <2>9, <2>10, Zenon
<1>8. ASSUME i.op = "HighRegisterOps_BX" PROVE S(ThumbHandler(c, i))
  <2>1. ThumbHandler(c, i) = Thumb_HighRegisterOps_BX(c, i)
    BY <1>8, Zenon DEF ThumbHandler
  <2>2. i.rd \in Register /\ i.rs \in Register /\ i.code \in {"ADD", "CMP", "MOV", "BX"}
    BY <1>8, Zenon DEF ThumbEncoding
  <2>3. R = (IF i.code \in Tests \cup {"BX"} THEN {} ELSE {i.rd}) \ {15}
    BY <1>8, NamedIs, Zenon
  <2>4. i.code \in {"ADD", "MOV"} => i.code \notin Tests \cup {"BX"}
    BY DEF Tests
  <2>5. i.code \in {"ADD", "MOV"} => May(R, i.rd)
    BY <1>3, <2>2, <2>3, <2>4, Zenon
  <2> HIDE DEF R
  <2> DEFINE operand == IF i.rs = 15 THEN Aligned(c.reg[15], 2) ELSE c.reg[i.rs]
             value == IF i.code = "ADD" THEN Wrap(c.reg[i.rd] + operand) ELSE operand
  <2>6. Thumb_HighRegisterOps_BX(c, i) =
          CASE i.code = "BX" /\ operand % 2 = 1 -> Jump(c, operand - 1, TRUE)
            [] i.code = "BX" /\ operand % 2 = 0 ->
                 Jump([c EXCEPT !.cpsr.t = FALSE], operand, FALSE)
            [] i.code = "CMP" -> Stepped(SetFlags(c, Subtracted(c.reg[i.rd], operand, 0)))
            [] i.code \in {"ADD", "MOV"} /\ i.rd = 15 -> Jump(c, Aligned(value, 2), TRUE)
            [] OTHER -> Stepped(PutReg(c, i.rd, value))
    BY Zenon DEF Thumb_HighRegisterOps_BX
  <2> HIDE DEF operand, value
  <2>7. /\ S(Jump(c, operand - 1, TRUE)) /\ S(Jump([c EXCEPT !.cpsr.t = FALSE], operand, FALSE))
        /\ S(Stepped(SetFlags(c, Subtracted(c.reg[i.rd], operand, 0))))
        /\ S(Jump(c, Aligned(value, 2), TRUE))
    BY <1>1, Zenon DEF Aside
  <2>8. i.code \in {"ADD", "MOV"} => S(Stepped(PutReg(c, i.rd, value)))
    BY <1>1, <2>5, Zenon DEF Aside, Storing
  <2>9. ~(i.code = "BX" /\ operand % 2 = 1) /\ ~(i.code = "BX" /\ operand % 2 = 0) => i.code # "BX"
    <3>1. c.reg[15] \in Word /\ c.reg[i.rs] \in Word
      BY <1>2, <2>2, GetRegWord, Zenon
    <3>2. operand \in Word
      BY <3>1, AlignedWord, Zenon DEF operand
    <3>3. operand \in Nat
      BY <3>2, WordInt, Zenon
    <3>4. operand % 2 = 0 \/ operand % 2 = 1
      BY <3>3
    <3>5. QED
      BY <3>4, Zenon
  <2> HIDE DEF S
  <2>10. QED
    BY <2>1, <2>2, <2>6, <2>7, <2>8, <2>9, Zenon
<1>9. ASSUME i.op = "LoadStoreRelativePC" PROVE S(ThumbHandler(c, i))
  <2>1. ThumbHandler(c, i) = Thumb_LoadStoreRelativePC(c, i)
    BY <1>9, Zenon DEF ThumbHandler
  <2>2. i.rd \in LowRegister
    BY <1>9, Zenon DEF ThumbEncoding
  <2>3. R = {i.rd} \ {15}
    BY <1>9, NamedIs, Zenon
  <2>4. May(R, i.rd)
    BY <1>2, <1>3, <2>2, <2>3, Zenon
  <2> HIDE DEF R
  <2>5. \A k, a : S(Load(c, k, a, i.rd))
    BY <1>1, <2>4, Zenon DEF Storing
  <2> HIDE DEF S
  <2>6. QED
    BY <2>1, <2>5, Zenon DEF Thumb_LoadStoreRelativePC
<1>10. ASSUME i.op = "LoadAddress" PROVE S(ThumbHandler(c, i))
  <2>1. ThumbHandler(c, i) = Thumb_LoadAddress(c, i)
    BY <1>10, Zenon DEF ThumbHandler
  <2>2. i.rd \in LowRegister
    BY <1>10, Zenon DEF ThumbEncoding
  <2>3. R = {i.rd} \ {15}
    BY <1>10, NamedIs, Zenon
  <2>4. May(R, i.rd)
    BY <1>2, <1>3, <2>2, <2>3, Zenon
  <2> HIDE DEF R
  <2>5. QED
    BY <1>1, <2>1, <2>4, Zenon DEF Thumb_LoadAddress, Aside, Storing
<1>11. ASSUME i.op = "LoadStoreOffsetReg" PROVE S(ThumbHandler(c, i))
  <2>1. ThumbHandler(c, i) = Thumb_LoadStoreOffsetReg(c, i)
    BY <1>11, Zenon DEF ThumbHandler
  <2>2. i.rd \in LowRegister
    BY <1>11, Zenon DEF ThumbEncoding
  <2>3. R = (IF i.load THEN {i.rd} ELSE {}) \ {15}
    BY <1>11, NamedIs, Zenon
  <2>4. i.load => May(R, i.rd)
    BY <1>2, <1>3, <2>2, <2>3, Zenon
  <2> HIDE DEF R
  <2>5. \A k, a, r : S(Store(c, k, a, r)) /\ (i.load => S(Load(c, k, a, i.rd)))
    BY <1>1, <2>4, Zenon DEF Aside, Storing
  <2> HIDE DEF S
  <2>6. QED
    BY <2>1, <2>5, Zenon DEF Thumb_LoadStoreOffsetReg
<1>12. ASSUME i.op = "LoadStoreSigned" PROVE S(ThumbHandler(c, i))
  <2>1. ThumbHandler(c, i) = Thumb_LoadStoreSigned(c, i)
    BY <1>12, Zenon DEF ThumbHandler
  <2>2. i.rd \in LowRegister
    BY <1>12, Zenon DEF ThumbEncoding
  <2>3. R = (IF i.load THEN {i.rd} ELSE {}) \ {15}
    BY <1>12, NamedIs, Zenon
  <2>4. i.load => May(R, i.rd)
    BY <1>2, <1>3, <2>2, <2>3, Zenon
  <2> HIDE DEF R
  <2>5. \A k, a, r : S(Store(c, k, a, r)) /\ (i.load => S(Load(c, k, a, i.rd)))
    BY <1>1, <2>4, Zenon DEF Aside, Storing
  <2> HIDE DEF S
  <2>6. QED
    BY <2>1, <2>5, Zenon DEF Thumb_LoadStoreSigned
<1>13. ASSUME i.op = "LoadStoreOffsetImm" PROVE S(ThumbHandler(c, i))
  <2>1. ThumbHandler(c, i) = Thumb_LoadStoreOffsetImm(c, i)
    BY <1>13, Zenon DEF ThumbHandler
  <2>2. i.rd \in LowRegister
    BY <1>13, Zenon DEF ThumbEncoding
  <2>3. R = (IF i.load THEN {i.rd} ELSE {}) \ {15}
    BY <1>13, NamedIs, Zenon
  <2>4. i.load => May(R, i.rd)
    BY <1>2, <1>3, <2>2, <2>3, Zenon
  <2> HIDE DEF R
  <2>5. \A k, a, r : S(Store(c, k, a, r)) /\ (i.load => S(Load(c, k, a, i.rd)))
    BY <1>1, <2>4, Zenon DEF Aside, Storing
  <2> HIDE DEF S
  <2>6. QED
    BY <2>1, <2>5, Zenon DEF Thumb_LoadStoreOffsetImm
<1>14. ASSUME i.op = "LoadStoreHword" PROVE S(ThumbHandler(c, i))
  <2>1. ThumbHandler(c, i) = Thumb_LoadStoreHword(c, i)
    BY <1>14, Zenon DEF ThumbHandler
  <2>2. i.rd \in LowRegister
    BY <1>14, Zenon DEF ThumbEncoding
  <2>3. R = (IF i.load THEN {i.rd} ELSE {}) \ {15}
    BY <1>14, NamedIs, Zenon
  <2>4. i.load => May(R, i.rd)
    BY <1>2, <1>3, <2>2, <2>3, Zenon
  <2> HIDE DEF R
  <2>5. \A k, a, r : S(Store(c, k, a, r)) /\ (i.load => S(Load(c, k, a, i.rd)))
    BY <1>1, <2>4, Zenon DEF Aside, Storing
  <2> HIDE DEF S
  <2>6. QED
    BY <2>1, <2>5, Zenon DEF Thumb_LoadStoreHword
<1>15. ASSUME i.op = "LoadStoreRelativeToSP" PROVE S(ThumbHandler(c, i))
  <2>1. ThumbHandler(c, i) = Thumb_LoadStoreRelativeToSP(c, i)
    BY <1>15, Zenon DEF ThumbHandler
  <2>2. i.rd \in LowRegister
    BY <1>15, Zenon DEF ThumbEncoding
  <2>3. R = (IF i.load THEN {i.rd} ELSE {}) \ {15}
    BY <1>15, NamedIs, Zenon
  <2>4. i.load => May(R, i.rd)
    BY <1>2, <1>3, <2>2, <2>3, Zenon
  <2> HIDE DEF R
  <2>5. \A k, a, r : S(Store(c, k, a, r)) /\ (i.load => S(Load(c, k, a, i.rd)))
    BY <1>1, <2>4, Zenon DEF Aside, Storing
  <2> HIDE DEF S
  <2>6. QED
    BY <2>1, <2>5, Zenon DEF Thumb_LoadStoreRelativeToSP
<1>16. ASSUME i.op = "AddOffsetToSP" PROVE S(ThumbHandler(c, i))
  <2>1. ThumbHandler(c, i) = Thumb_AddOffsetToSP(c, i)
    BY <1>16, Zenon DEF ThumbHandler
  <2>2. May(R, 13)
    BY <1>16, <1>2, <1>3, NamedIs, Zenon
  <2> HIDE DEF R
  <2>3. QED
    BY <1>1, <2>1, <2>2, Zenon DEF Thumb_AddOffsetToSP, Aside, Storing
<1>17. ASSUME i.op = "LongBranchLink" PROVE S(ThumbHandler(c, i))
  <2>1. ThumbHandler(c, i) = Thumb_LongBranchLink(c, i)
    BY <1>17, Zenon DEF ThumbHandler
  <2>2. May(R, 14)
    BY <1>17, <1>2, <1>3, NamedIs, Zenon
  <2> HIDE DEF R
  <2>3. \A v, at : S(Stepped(PutReg(c, 14, v))) /\ S(Jump(PutReg(c, 14, v), at, TRUE))
    BY <1>1, <2>2, Zenon DEF Aside, Storing
  <2> HIDE DEF S
  <2> DEFINE far == Wrap(c.reg[15] + 4096 * i.offset)
             back == 2 * (Wrap(c.reg[15] - 2) \div 2) + 1
             at == Aligned(Wrap(c.reg[14] + 2 * i.offset), 2)
  <2>4. Thumb_LongBranchLink(c, i) = IF ~i.second THEN Stepped(PutReg(c, 14, far))
                                     ELSE Jump(PutReg(c, 14, back), at, TRUE)
    BY DEF Thumb_LongBranchLink
  <2> HIDE DEF far, back, at
  <2>5. QED
    BY <2>1, <2>3, <2>4, Zenon
<1>18. ASSUME i.op = "ConditionalBranch" PROVE S(ThumbHandler(c, i))
  <2>1. ThumbHandler(c, i) = Thumb_ConditionalBranch(c, i)
    BY <1>18, Zenon DEF ThumbHandler
  <2> HIDE DEF R
  <2>2. QED
    BY <1>1, <2>1, Zenon DEF Thumb_ConditionalBranch, Aside
<1>19. ASSUME i.op = "UnconditionalBranch" PROVE S(ThumbHandler(c, i))
  <2>1. ThumbHandler(c, i) = Thumb_UnconditionalBranch(c, i)
    BY <1>19, Zenon DEF ThumbHandler
  <2> HIDE DEF R
  <2>2. QED
    BY <1>1, <2>1, Zenon DEF Thumb_UnconditionalBranch, Aside
<1>20. ASSUME i.op = "PushPop" PROVE S(ThumbHandler(c, i))
  <2>1. ThumbHandler(c, i) = Thumb_PushPop(c, i)
    BY <1>20, Zenon DEF ThumbHandler
  <2>2. i.list \in SUBSET LowRegister
    BY <1>20, Zenon DEF ThumbEncoding
  <2>3. R = ({13} \cup IF i.pop THEN i.list ELSE {}) \ {15}
    BY <1>20, NamedIs, Zenon
  <2>4. May(R, 13) /\ (i.pop => i.list \subseteq R)
    <3>1. 15 \notin i.list
      BY <2>2 DEF LowRegister
    <3>2. QED
      BY <1>2, <1>3, <2>3, <3>1, Zenon
  <2> HIDE DEF R
  <2>5. \A x, v : S(x) => S(PutReg(x, 13, v))
    BY <1>1, <2>4, Zenon DEF Storing
  <2>6. \A x, low : i.pop /\ S(x) => S(Units("load", x, i.list, low))
    BY <2>2, <2>4, UnitsStore, Zenon
  <2>7. \A x, low : S(x) => S(Units("store", x, i.list, low))
    <3>1. "store" # "load"
      OBVIOUS
    <3>2. QED
      BY <2>2, <3>1, UnitsStore, Zenon
  <2>8. /\ S(Busy(c)) /\ \A x : S(x) => S(Idle(x))
        /\ \A x, k, a : S(x) => S(Read(x, k, a))
        /\ \A x, a, v : S(x) => S(Write(x, a, v))
        /\ \A x, at : S(x) => S(Jump(x, at, TRUE))
    BY <1>1, Zenon DEF Aside
  <2> DEFINE sp == c.reg[13]
             units == Cardinality(i.list)
             high == Wrap(sp + 4 * units)
             popped == Units("load", Busy(c), i.list, sp)
             low == Wrap(sp - 4 * (IF i.r THEN units + 1 ELSE units))
             pushed == Units("store", PutReg(Busy(c), 13, low), i.list, low)
             nothing == i.list = {} /\ ~i.r
             bottom == Wrap(sp - 64)
             jumped == Jump(Read(Busy(c), "word", sp), ReadAs(c, "word", sp), TRUE)
             c1 == PutReg(Busy(c), 13, bottom)
  <2>9. Thumb_PushPop(c, i) =
          CASE nothing /\ i.pop -> PutReg(jumped, 13, Wrap(sp + 64))
            [] nothing /\ ~i.pop -> Write(c1, bottom, c1.reg[15])
            [] ~nothing /\ i.pop /\ i.r ->
                 Jump(Idle(PutReg(Read(popped, "word", high), 13, Wrap(high + 4))),
                      Aligned(ReadAs(c, "word", high), 2), TRUE)
            [] ~nothing /\ i.pop /\ ~i.r -> PutReg(Idle(popped), 13, high)
            [] ~nothing /\ ~i.pop /\ i.r -> Write(pushed, Wrap(low + 4 * units), c.reg[14])
            [] ~nothing /\ ~i.pop /\ ~i.r -> pushed
    BY Zenon DEF Thumb_PushPop
  <2> HIDE DEF S
  <2>10. /\ S(PutReg(jumped, 13, Wrap(sp + 64))) /\ S(Write(c1, bottom, c1.reg[15]))
         /\ S(Write(pushed, Wrap(low + 4 * units), c.reg[14])) /\ S(pushed)
    BY <2>5, <2>7, <2>8, Zenon
  <2>11. i.pop =>
           /\ S(Jump(Idle(PutReg(Read(popped, "word", high), 13, Wrap(high + 4))),
                     Aligned(ReadAs(c, "word", high), 2), TRUE))
           /\ S(PutReg(Idle(popped), 13, high))
    BY <2>5, <2>6, <2>8, Zenon
  <2> HIDE DEF sp, units, high, popped, low, pushed, nothing, bottom, jumped, c1
  <2>12. QED
    BY <2>1, <2>9, <2>10, <2>11, Zenon
<1>21. ASSUME i.op = "LoadStoreMultiple" PROVE S(ThumbHandler(c, i))
  <2>1. ThumbHandler(c, i) = Thumb_LoadStoreMultiple(c, i)
    BY <1>21, Zenon DEF ThumbHandler
  <2>2. i.list \in SUBSET LowRegister /\ i.rb \in LowRegister
    BY <1>21, Zenon DEF ThumbEncoding
  <2>3. R = ({i.rb} \cup IF i.load THEN i.list ELSE {}) \ {15}
    BY <1>21, NamedIs, Zenon
  <2>4. May(R, i.rb) /\ (i.load => i.list \subseteq R)
    <3>1. 15 \notin i.list
      BY <2>2 DEF LowRegister
    <3>2. QED
      BY <1>2, <1>3, <2>2, <2>3, <3>1, Zenon
  <2> HIDE DEF R
  <2>5. \A x, v : S(x) => S(PutReg(x, i.rb, v))
    BY <1>1, <2>4, Zenon DEF Storing
  <2>6. \A x, low : i.load /\ S(x) => S(Units("load", x, i.list, low))
    BY <2>2, <2>4, UnitsStore, Zenon
  <2>7. \A x, low, lowest : S(x) => S(Units("store", x, i.list \ {lowest}, low))
    <3>1. "store" # "load" /\ \A lowest : i.list \ {lowest} \in SUBSET LowRegister
      BY <2>2
    <3>2. QED
      BY <3>1, UnitsStore, Zenon
  <2>8. /\ S(Busy(c)) /\ \A x : S(x) => S(Idle(x))
        /\ \A x, k, a : S(x) => S(Read(x, k, a))
        /\ \A x, a, v : S(x) => S(Write(x, a, v))
        /\ \A x, at : S(x) => S(Jump(x, at, TRUE))
    BY <1>1, Zenon DEF Aside
  <2> HIDE DEF S
  <2> DEFINE base == c.reg[i.rb]
             far == Wrap(base + (IF i.list = {} THEN 64 ELSE 4 * Cardinality(i.list)))
             loaded == Idle(Units("load", Busy(c), i.list, base))
             lowest == Min(i.list)
             first == PutReg(Write(Busy(c), base, c.reg[lowest]), i.rb, far)
             x1 == PutReg(Jump(Read(Busy(c), "word", base), ReadAs(c, "word", base), TRUE), i.rb, far)
             x2 == PutReg(Write(Busy(c), base, Wrap(c.reg[15] + 2)), i.rb, far)
             x3 == PutReg(loaded, i.rb, far)
             x4 == Units("store", first, i.list \ {lowest}, Wrap(base + 4))
  <2>9. Thumb_LoadStoreMultiple(c, i) =
          CASE i.list = {} /\ i.load -> x1
            [] i.list = {} /\ ~i.load -> x2
            [] i.list # {} /\ i.load -> IF i.rb \in i.list THEN loaded ELSE x3
            [] i.list # {} /\ ~i.load -> x4
    BY Zenon DEF Thumb_LoadStoreMultiple
  <2>10. S(x1) /\ S(x2) /\ S(x4)
    <3>1. S(x1) /\ S(x2) /\ S(first)
      BY <2>5, <2>8, Zenon
    <3> HIDE DEF first, lowest
    <3>2. QED
      BY <2>7, <3>1, Zenon
  <2>11. i.load => S(loaded) /\ S(x3)
    BY <2>5, <2>6, <2>8, Zenon
  <2> HIDE DEF x1, x2, x3, x4, loaded
  <2>12. QED
    BY <2>1, <2>9, <2>10, <2>11, Zenon
<1>22. \/ i.op \in {"MoveShiftedRegister", "AddSub", "Op3", "ALU", "HighRegisterOps_BX",
                  "LoadStoreRelativePC", "LoadStoreOffsetReg"}
      \/ i.op \in {"LoadStoreSigned", "LoadStoreOffsetImm", "LoadStoreHword",
                  "LoadStoreRelativeToSP", "LoadAddress", "AddOffsetToSP"}
      \/ i.op \in {"PushPop", "LoadStoreMultiple", "ConditionalBranch",
                  "UnconditionalBranch", "LongBranchLink"}
  BY Zenon DEF ThumbEncoding
<1> HIDE DEF S
<1>23. S(ThumbHandler(c, i))
  BY <1>4, <1>5, <1>6, <1>7, <1>8, <1>9, <1>10, <1>11, <1>12, <1>13, <1>14, <1>15, <1>16, <1>17, <1>18, <1>19, <1>20, <1>21, <1>22, Zenon
<1>24. QED
  BY <1>23, Zenon DEF S

\* The handlers of the ARM state that stay in their mode store what their
\* instructions name.
LEMMA ArmStores ==
  ASSUME NEW c, Held(c), NEW i, ArmEncoding(i),
         i.op \in {"Multiply", "MultiplyLong", "SingleDataSwap", "BranchAndExchange",
                   "HalfwordSignedTransfer", "BranchAndLink", "SingleDataTransfer"}
  PROVE  StoresOnly(c, ArmHandler(c, i), Named(i))
<1> DEFINE R == Named(i)
           S(d) == StoresOnly(c, d, R)
<1>1. Aside(c, R) /\ Storing(c, R) /\ S(c)
  BY HandlersStore, HeldShaped, StoresNone, Zenon DEF Held
<1>2. \A X, r : R = X \ {15} /\ r \in X /\ r \in Register => May(R, r)
  BY NamedMay, Zenon
<1>3. \A x, rs : S(x) => S(Reloading(x, rs))
  <2> HIDE DEF R
  <2>1. QED
    BY <1>1, Zenon DEF Reloading, Aside
<1>4. 14 \in Register
  BY DEF Register
<1>5. /\ \A x : S(x) => S(Idle(x)) /\ S(Nonsequential(x))
      /\ \A x, f : S(x) => S(SetFlags(x, f)) /\ S(Advance(x, f))
      /\ \A x, k, a : S(x) => S(Read(x, k, a))
      /\ \A x, a, v : S(x) => S(Write(x, a, v))
      /\ \A x, at, thumb : S(x) => S(Jump(x, at, thumb))
  <2> HIDE DEF R
  <2>1. QED
    BY <1>1, Zenon DEF Aside
<1>6. S(Advance(Nonsequential(c), 4)) /\ S(c)
  <2> HIDE DEF S
  <2>1. QED
    BY <1>1, <1>5, Zenon
<1>7. ASSUME i.op = "Multiply" PROVE S(ArmHandler(c, i))
  <2>1. ArmHandler(c, i) = ARM_Multiply(c, i)
    BY <1>7, Zenon DEF ArmHandler
  <2>2. i.rd \in Register
    BY <1>7, Zenon DEF ArmEncoding
  <2>3. May(R, i.rd)
    BY <1>2, <1>7, <2>2, NamedIs, Zenon
  <2> HIDE DEF R
  <2>4. \A x, v : S(x) => S(Reloading(SetReg(x, i.rd, v), {i.rd}))
    BY <1>1, <1>3, <2>3, Zenon DEF Storing
  <2> HIDE DEF S
  <2> DEFINE c1 == Idle(Advance(Nonsequential(c), 4))
             sum == Added(Product(GetReg(Advance(c, 4), i.rm), GetReg(Advance(c, 4), i.rs)),
                          IF i.accumulate THEN GetReg(c1, i.rn) ELSE 0, 0)
             c2 == IF i.s THEN SetFlags(c1, Logical(sum.value, c.booth, c.cpsr.v)) ELSE c1
  <2>5. S(c1)
    BY <1>5, <1>6, Zenon
  <2>6. ARM_Multiply(c, i) = Reloading(SetReg(c2, i.rd, sum.value), {i.rd})
    BY Zenon DEF ARM_Multiply
  <2> HIDE DEF c1, sum
  <2>7. S(c2)
    BY <1>5, <2>5, Zenon
  <2> HIDE DEF c2
  <2>8. QED
    BY <2>1, <2>4, <2>6, <2>7, Zenon
<1>8. ASSUME i.op = "MultiplyLong" PROVE S(ArmHandler(c, i))
  <2>1. ArmHandler(c, i) = ARM_MultiplyLong(c, i)
    BY <1>8, Zenon DEF ArmHandler
  <2>2. i.lo \in Register /\ i.hi \in Register
    BY <1>8, Zenon DEF ArmEncoding
  <2>3. R = {i.lo, i.hi} \ {15}
    BY <1>8, NamedIs, Zenon
  <2>4. May(R, i.lo) /\ May(R, i.hi)
    BY <1>2, <2>2, <2>3, Zenon
  <2> HIDE DEF R
  <2>5. \A x, v, w : S(x) => S(Reloading(SetReg(SetReg(x, i.lo, v), i.hi, w), {i.lo, i.hi}))
    BY <1>1, <1>3, <2>4, Zenon DEF Storing
  <2> HIDE DEF S
  <2> DEFINE c1 == Idle(Idle(Advance(Nonsequential(c), 4)))
             p == LongProduct(i.signExtend, GetReg(Advance(c, 4), i.rm), GetReg(Advance(c, 4), i.rs),
                       IF i.accumulate THEN GetReg(c1, i.hi) ELSE 0,
                       IF i.accumulate THEN GetReg(c1, i.lo) ELSE 0)
             flags == [n |-> Negative(p.hi), z |-> p.hi = 0 /\ p.lo = 0,
                       c |-> c.booth, v |-> c.cpsr.v]
             c2 == IF i.s THEN SetFlags(c1, flags) ELSE c1
  <2>6. S(c1)
    BY <1>5, <1>6, Zenon
  <2>7. ARM_MultiplyLong(c, i) = Reloading(SetReg(SetReg(c2, i.lo, p.lo), i.hi, p.hi), {i.lo, i.hi})
    BY Zenon DEF ARM_MultiplyLong
  <2> HIDE DEF c1, p, flags
  <2>8. S(c2)
    BY <1>5, <2>6, Zenon
  <2> HIDE DEF c2
  <2>9. QED
    BY <2>1, <2>5, <2>7, <2>8, Zenon
<1>9. ASSUME i.op = "SingleDataSwap" PROVE S(ArmHandler(c, i))
  <2>1. ArmHandler(c, i) = ARM_SingleDataSwap(c, i)
    BY <1>9, Zenon DEF ArmHandler
  <2>2. i.rd \in Register
    BY <1>9, Zenon DEF ArmEncoding
  <2>3. May(R, i.rd)
    BY <1>2, <1>9, <2>2, NamedIs, Zenon
  <2> HIDE DEF R
  <2>4. \A x, v : S(x) => S(Reloading(SetReg(x, i.rd, v), {i.rd}))
    BY <1>1, <1>3, <2>3, Zenon DEF Storing
  <2> HIDE DEF S
  <2> DEFINE c1 == Advance(Nonsequential(c), 4)
             at == GetReg(c1, i.rn)
             kind == IF i.byte THEN "byte" ELSE "wordRotate"
             c2 == Read(c1, kind, at)
             c3 == Idle(Write(c2, at, Narrow(kind, GetReg(c2, i.rm))))
  <2>5. ARM_SingleDataSwap(c, i) = Reloading(SetReg(c3, i.rd, ReadAs(c1, kind, at)), {i.rd})
    BY Zenon DEF ARM_SingleDataSwap
  <2>6. S(c3)
    BY <1>5, <1>6, Zenon
  <2> HIDE DEF c1, at, kind, c2, c3
  <2>7. QED
    BY <2>1, <2>4, <2>5, <2>6, Zenon
<1>10. ASSUME i.op = "BranchAndExchange" PROVE S(ArmHandler(c, i))
  <2>1. ArmHandler(c, i) = ARM_BranchAndExchange(c, i)
    BY <1>10, Zenon DEF ArmHandler
  <2> HIDE DEF R
  <2>2. S([c EXCEPT !.cpsr.t = TRUE])
    BY <1>1, Zenon DEF Aside
  <2> HIDE DEF S
  <2>3. QED
    BY <1>5, <1>6, <2>1, <2>2, Zenon DEF ARM_BranchAndExchange
<1>11. ASSUME i.op \in {"HalfwordSignedTransfer", "SingleDataTransfer"} PROVE S(ArmHandler(c, i))
  <2>1. i.rd \in Register /\ i.rn \in Register
    <3>1. CASE i.op = "HalfwordSignedTransfer"
      BY <3>1, Zenon DEF ArmEncoding
    <3>2. CASE i.op = "SingleDataTransfer"
      BY <3>2, Zenon DEF ArmEncoding
    <3>3. QED
      BY <1>11, <3>1, <3>2, Zenon
  <2>2. R = ((IF i.load THEN {i.rd} ELSE {}) \cup IF i.writeback \/ ~i.pre THEN {i.rn} ELSE {}) \ {15}
    BY <1>11, NamedIs, Zenon
  <2>3. (i.load => May(R, i.rd)) /\ (i.writeback \/ ~i.pre => May(R, i.rn))
    BY <1>2, <2>1, <2>2, Zenon
  <2> HIDE DEF R
  <2>4. ASSUME NEW distance PROVE S(Transferred(c, i, distance))
    <3> DEFINE offset == IF i.add THEN distance ELSE Wrap(0 - distance)
               address == IF i.pre THEN Wrap(GetReg(c, i.rn) + offset) ELSE GetReg(c, i.rn)
               c1 == Advance(Nonsequential(c), 4)
               Rebased(x) ==
                 IF i.writeback \/ ~i.pre THEN SetReg(x, i.rn, Wrap(GetReg(x, i.rn) + offset)) ELSE x
               loaded == Idle(Rebased(Read(c1, i.kind, address)))
               x1 == Reloading(SetReg(loaded, i.rd, ReadAs(c1, i.kind, address)), {i.rd})
               x2 == Idle(Rebased(Idle(c1)))
               x3 == Rebased(Idle(c1))
               x4 == Rebased(Write(c1, address, Narrow(i.kind, GetReg(c1, i.rd))))
    <3>1. Transferred(c, i, distance) =
            CASE i.load -> x1
              [] ~i.load /\ i.kind = "byteSigned" -> x2
              [] ~i.load /\ i.kind = "halfSigned" -> x3
              [] OTHER -> x4
      BY Zenon DEF Transferred
    <3> HIDE DEF offset, address
    <3>2. \A x : S(x) => S(Rebased(x))
      <4>1. \A x, v : (i.writeback \/ ~i.pre) /\ S(x) => S(SetReg(x, i.rn, v))
        BY <1>1, <2>3, Zenon DEF Storing
      <4> HIDE DEF S
      <4>2. QED
        BY <4>1, Zenon
    <3> HIDE DEF Rebased
    <3>3. \A x, v : i.load /\ S(x) => S(Reloading(SetReg(x, i.rd, v), {i.rd}))
      BY <1>1, <1>3, <2>3, Zenon DEF Storing
    <3> HIDE DEF S
    <3>4. S(x2) /\ S(x3) /\ S(x4) /\ S(loaded)
      BY <1>5, <1>6, <3>2, Zenon
    <3> HIDE DEF loaded
    <3>5. i.load => S(x1)
      BY <3>3, <3>4, Zenon
    <3> HIDE DEF x1, x2, x3, x4
    <3>6. QED
      BY <3>1, <3>4, <3>5, Zenon
  <2> HIDE DEF S
  <2>5. \E distance : ArmHandler(c, i) = Transferred(c, i, distance)
    <3>1. CASE i.op = "HalfwordSignedTransfer"
      <4>1. ArmHandler(c, i) = ARM_HalfwordSignedTransfer(c, i)
        BY <3>1, Zenon DEF ArmHandler
      <4>2. QED
        BY <4>1, Zenon DEF ARM_HalfwordSignedTransfer
    <3>2. CASE i.op = "SingleDataTransfer"
      <4>1. ArmHandler(c, i) = ARM_SingleDataTransfer(c, i)
        BY <3>2, Zenon DEF ArmHandler
      <4>2. QED
        BY <4>1, Zenon DEF ARM_SingleDataTransfer
    <3>3. QED
      BY <1>11, <3>1, <3>2, Zenon
  <2>6. QED
    BY <2>4, <2>5, Zenon
<1>12. ASSUME i.op = "BranchAndLink" PROVE S(ArmHandler(c, i))
  <2>1. ArmHandler(c, i) = ARM_BranchAndLink(c, i)
    BY <1>12, Zenon DEF ArmHandler
  <2>2. R = (IF i.link THEN {14} ELSE {}) \ {15}
    BY <1>12, NamedIs, Zenon
  <2>3. i.link => May(R, 14)
    BY <1>2, <1>4, <2>2, Zenon
  <2> HIDE DEF R
  <2>4. \A v : i.link => S(SetReg(c, 14, v))
    BY <1>1, <2>3, Zenon DEF Storing
  <2> HIDE DEF S
  <2> DEFINE link == Wrap(c.reg[15] - 4)
             at == Wrap(c.reg[15] + 4 * i.offset)
             c1 == IF i.link THEN SetReg(c, 14, link) ELSE c
  <2>5. ARM_BranchAndLink(c, i) = Jump(c1, at, FALSE)
    BY Zenon DEF ARM_BranchAndLink
  <2> HIDE DEF link, at
  <2>6. S(c1)
    BY <1>6, <2>4, Zenon
  <2> HIDE DEF c1
  <2>7. QED
    BY <1>5, <2>1, <2>5, <2>6, Zenon
<1> HIDE DEF S
<1>13. S(ArmHandler(c, i))
  BY <1>7, <1>8, <1>9, <1>10, <1>11, <1>12, Zenon
<1>14. QED
  BY <1>13, Zenon DEF S

\* What an instruction may do to the file: write the registers R of a bank, and
\* end in a mode that destroys some.
Writes(c, d, bank, R) ==
  Shaped(d) /\ Selected(d) /\ AgreeOutside(c, d, Reached(c, bank, R) \cup Lost(d.cpsr.mode))

\* A handler that stays in its mode writes what it stores.
LEMMA StoresWrite ==
  ASSUME NEW c, Selected(c), NEW d, NEW R, StoresOnly(c, d, R)
  PROVE  Writes(c, d, BankOf(c.cpsr.mode), R)
<1>1. AgreeOutside(c, d, Reached(c, BankOf(c.cpsr.mode), R))
  BY StoresReach, Zenon
<1>2. Shaped(d) /\ d.cpsr.mode = c.cpsr.mode /\ d.pSpsr = c.pSpsr
  BY Zenon DEF StoresOnly
<1>3. Selected(d)
  BY <1>2, Zenon DEF Selected
<1>4. QED
  BY <1>1, <1>2, <1>3, Zenon DEF Writes, AgreeOutside

\* Two such steps of which the second stores nothing or changes the mode.
LEMMA WritesNext ==
  ASSUME NEW c, NEW bank, NEW R, NEW d, Writes(c, d, bank, R), NEW e, StoresOnly(d, e, {})
  PROVE  Writes(c, e, bank, R)
<1>1. AgreeOutside(d, e, Reached(d, BankOf(d.cpsr.mode), {}))
  BY StoresReach, Zenon
<1>2. Reached(d, BankOf(d.cpsr.mode), {}) = {}
  BY DEF Reached
<1>3. Shaped(e) /\ e.cpsr.mode = d.cpsr.mode /\ e.pSpsr = d.pSpsr
  BY Zenon DEF StoresOnly
<1>4. Selected(e)
  BY <1>3, Zenon DEF Writes, Selected
<1>5. AgreeOutside(c, e, (Reached(c, bank, R) \cup Lost(d.cpsr.mode)) \cup {})
  BY <1>1, <1>2, AgreeChain, Zenon DEF Writes
<1>6. QED
  BY <1>3, <1>4, <1>5, Zenon DEF Writes, AgreeOutside

\* One that goes on in another mode loses only the bank that mode has not.
LEMMA WritesSwitched ==
  ASSUME NEW c, NEW bank, NEW R, NEW d, AgreeOutside(c, d, Reached(c, bank, R)),
         NEW e, Shaped(e), Selected(e), AgreeOutside(d, e, Lost(e.cpsr.mode))
  PROVE  Writes(c, e, bank, R)
BY AgreeChain, Zenon DEF Writes

\* The status register holds its fields whatever it is given.
LEMMA StatusSet ==
  ASSUME NEW c, Shaped(c), NEW p, DOMAIN p = DOMAIN ZeroPSR, p.mode = c.cpsr.mode
  PROVE  LET d == [c EXCEPT !.cpsr = p] IN
         StoresOnly(c, d, {}) /\ d.cpsr = p
<1> DEFINE d == [c EXCEPT !.cpsr = p]
<1>1. /\ d.cpsr = p /\ d.pSpsr = c.pSpsr /\ d.spsr = c.spsr /\ d.bank = c.bank
      /\ d.reg = c.reg /\ DOMAIN d = DOMAIN c /\ d.conflict = c.conflict
  BY ShapedFields
<1> HIDE DEF d
<1>2. Shaped(d)
  BY <1>1 DEF Shaped
<1>3. StoresOnly(c, c, {})
  BY StoresNone, Zenon
<1>4. StoresOnly(c, d, {})
  BY <1>1, <1>2, <1>3, StoresNext
<1>5. QED
  BY <1>1, <1>4, Zenon DEF d

\* Status registers made from others have all fields.
LEMMA StatusFields ==
  /\ \A w : DOMAIN WordPSR(w) = DOMAIN ZeroPSR
  /\ \A p, v : DOMAIN [p EXCEPT !.mode = v] = DOMAIN p
  /\ \A p, q, i : DOMAIN Merged(p, q, i) = DOMAIN p
  /\ \A c : Shaped(c) /\ c.pSpsr \in Bank => DOMAIN GetSPSR(c) = DOMAIN ZeroPSR
<1>1. \A w : DOMAIN WordPSR(w) = DOMAIN ZeroPSR
  BY DEF WordPSR
<1>2. \A p, v : DOMAIN [p EXCEPT !.mode = v] = DOMAIN p
  OBVIOUS
<1>3. \A p, q, i : DOMAIN Merged(p, q, i) = DOMAIN p
  BY DEF Merged
<1>4. ASSUME NEW c, Shaped(c), c.pSpsr \in Bank PROVE DOMAIN GetSPSR(c) = DOMAIN ZeroPSR
  <2> DEFINE p == IF c.pSpsr = "none" THEN c.cpsr ELSE c.spsr[c.pSpsr]
             m == IF p.mode \div 16 = 1 THEN p.mode ELSE p.mode + 16
             q == [p EXCEPT !.mode = m]
  <2>1. GetSPSR(c) = IF ldmUsermode(c) THEN PSROr(q, c.cpsr) ELSE q
    BY Zenon DEF GetSPSR
  <2>2. DOMAIN p = DOMAIN ZeroPSR
    BY <1>4, Zenon DEF Shaped
  <2> HIDE DEF p, m
  <2>3. DOMAIN q = DOMAIN ZeroPSR
    BY <1>2, <2>2, Zenon
  <2>4. DOMAIN PSROr(q, c.cpsr) = DOMAIN ZeroPSR
    BY <1>1, Zenon DEF PSROr
  <2> HIDE DEF q
  <2>5. QED
    BY <2>1, <2>3, <2>4, Zenon
<1>5. QED
  BY <1>1, <1>2, <1>3, <1>4, Zenon

\* A return from an exception changes the mode and stores nothing,
LEMMA RestoreAgrees ==
  ASSUME NEW c, Shaped(c), Selected(c)
  PROVE  LET d == RestorePSR(c) IN
         Shaped(d) /\ Selected(d) /\ AgreeOutside(c, d, Lost(d.cpsr.mode))
<1> DEFINE p == GetSPSR(c)
           e == SwitchMode(c, p.mode)
           d == [e EXCEPT !.cpsr = p]
<1>1. d = RestorePSR(c)
  BY Zenon DEF RestorePSR
<1>2. c.pSpsr \in Bank
  BY ModesAre, Zenon DEF Selected
<1>3. DOMAIN p = DOMAIN ZeroPSR
  BY <1>2, StatusFields, Zenon
<1> HIDE DEF p
<1>4. /\ Shaped(e) /\ AgreeOutside(c, e, Lost(p.mode)) /\ e.cpsr.mode = p.mode
      /\ e.pSpsr = BankOf(p.mode)
  BY SwitchAgrees, Zenon
<1> HIDE DEF e
<1>5. StoresOnly(e, d, {}) /\ d.cpsr = p
  BY <1>3, <1>4, StatusSet, Zenon
<1> HIDE DEF d
<1>6. Writes(c, e, "none", {})
  <2>1. AgreeOutside(c, c, Reached(c, "none", {}))
    BY Zenon DEF AgreeOutside
  <2>2. Selected(e)
    BY <1>4, Zenon DEF Selected
  <2>3. AgreeOutside(c, e, Lost(e.cpsr.mode))
    BY <1>4, Zenon
  <2>4. QED
    BY <1>4, <2>1, <2>2, <2>3, WritesSwitched, Zenon
<1>7. Writes(c, d, "none", {})
  BY <1>5, <1>6, WritesNext, Zenon
<1>8. Reached(c, "none", {}) = {}
  BY DEF Reached
<1>9. Shaped(d) /\ Selected(d) /\ AgreeOutside(c, d, Lost(d.cpsr.mode))
  BY <1>7, <1>8, Zenon DEF Writes, AgreeOutside
<1>10. QED
  BY <1>1, <1>9, Zenon

\* also after stores, and before a reload.
LEMMA RestoreWrites ==
  ASSUME NEW c, Selected(c), NEW d, NEW R, StoresOnly(c, d, R)
  PROVE  /\ Writes(c, RestorePSR(d), BankOf(c.cpsr.mode), R)
         /\ Writes(c, ReloadSame(RestorePSR(d)), BankOf(c.cpsr.mode), R)
<1> DEFINE e == RestorePSR(d)
<1>1. Writes(c, d, BankOf(c.cpsr.mode), R)
  BY StoresWrite, Zenon
<1>2. Shaped(d) /\ Selected(d)
  BY <1>1, Zenon DEF Writes
<1>3. AgreeOutside(c, d, Reached(c, BankOf(c.cpsr.mode), R))
  BY StoresReach, Zenon
<1>4. Shaped(e) /\ Selected(e) /\ AgreeOutside(d, e, Lost(e.cpsr.mode))
  BY <1>2, RestoreAgrees, Zenon
<1> HIDE DEF e
<1>5. Writes(c, e, BankOf(c.cpsr.mode), R)
  BY <1>3, <1>4, WritesSwitched, Zenon
<1>6. StoresOnly(e, ReloadSame(e), {})
  BY <1>4, StoresNone, StoresJump, Zenon DEF ReloadSame
<1>7. Writes(c, ReloadSame(e), BankOf(c.cpsr.mode), R)
  BY <1>5, <1>6, WritesNext, Zenon
<1>8. QED
  BY <1>5, <1>7, Zenon DEF e

\* Computations write their destination, and return from an exception if it is
\* r15 and they set the flags.
LEMMA DataProcessingWrites ==
  ASSUME NEW c, Held(c), Selected(c), NEW i, i.op = "DataProcessing", ArmEncoding(i),
         i.code \in Tests => i.rd # 15
  PROVE  Writes(c, ARM_DataProcessing(c, i), BankOf(c.cpsr.mode), Named(i))
<1> DEFINE R == Named(i)
           S(x) == StoresOnly(c, x, R)
           byRegister == i.shifter.kind = "register"
           amount ==
             CASE byRegister -> GetReg(c, i.shifter.rs)
               [] i.shifter.kind = "amount" -> i.shifter.amount
               [] OTHER -> 0
           c1 == IF byRegister THEN Nonsequential(Idle(Advance(c, 4))) ELSE Sequential(c)
           op2 == Shifted(c1, i.shifter, amount)
           a == Computed(i.code, GetReg(c1, i.rn), op2.value, op2.carry, c.cpsr)
           test == i.code \in Tests
           c2 == IF i.s \/ test THEN SetFlags(c1, a) ELSE c1
           c3 == IF test THEN c2 ELSE SetReg(c2, i.rd, a.value)
           c4 == IF i.s /\ i.rd = 15 THEN RestorePSR(c3) ELSE c3
<1>1. Aside(c, R) /\ Storing(c, R) /\ S(c)
  BY HandlersStore, HeldShaped, StoresNone, Zenon DEF Held
<1>2. i.rd \in Register /\ i.code \in Tests \cup {"AND", "EOR", "SUB", "RSB", "ADD", "ADC", "SBC",
                                                  "RSC", "ORR", "MOV", "BIC", "MVN"}
  <2>1. {i.rd, i.rn} \subseteq Register
    BY Zenon DEF ArmEncoding
  <2>2. i.code \in Tests \cup {"AND", "EOR", "SUB", "RSB", "ADD", "ADC", "SBC", "RSC",
                               "ORR", "MOV", "BIC", "MVN"}
    BY Zenon DEF ArmEncoding
  <2>3. QED
    BY <2>1, <2>2, Zenon
<1>3. ~test => May(R, i.rd)
  <2>1. ~test => i.code \notin Tests \cup {"BX"}
    BY <1>2
  <2>2. R = (IF i.code \in Tests \cup {"BX"} THEN {} ELSE {i.rd}) \ {15}
    BY NamedIs, Zenon
  <2> HIDE DEF R
  <2>3. ~test => R = {i.rd} \ {15}
    BY <2>1, <2>2, Zenon
  <2>4. QED
    BY <1>2, <2>3, NamedMay, Zenon
<1> HIDE DEF R
<1>4. S(c1)
  BY <1>1, Zenon DEF Aside
<1>5. ARM_DataProcessing(c, i) =
        CASE i.rd = 15 /\ ~test -> ReloadSame(c4)
          [] byRegister /\ (i.rd # 15 \/ test) -> c4
          [] OTHER -> Advance(c4, 4)
  BY Zenon DEF ARM_DataProcessing
<1> HIDE DEF c1, a, op2, amount, byRegister
<1>6. S(c2)
  BY <1>1, <1>4, Zenon DEF Aside
<1> HIDE DEF c2
<1>7. S(c3)
  BY <1>1, <1>3, <1>6, Zenon DEF Storing
<1> HIDE DEF c3
<1>8. CASE i.s /\ i.rd = 15
  <2>1. ARM_DataProcessing(c, i) = ReloadSame(RestorePSR(c3))
    BY <1>5, <1>8, Zenon
  <2>2. QED
    BY <1>7, <2>1, RestoreWrites, Zenon DEF R
<1>9. CASE ~(i.s /\ i.rd = 15)
  <2>1. c4 = c3
    BY <1>9, Zenon
  <2>2. S(Advance(c3, 4)) /\ S(ReloadSame(c3))
    BY <1>1, <1>7, Zenon DEF Aside, ReloadSame
  <2> HIDE DEF S, test
  <2>3. S(ARM_DataProcessing(c, i))
    BY <1>5, <1>7, <2>1, <2>2, Zenon
  <2>4. QED
    BY <2>3, StoresWrite, Zenon DEF S, R
<1>10. QED
  BY <1>8, <1>9, Zenon

\* The saved status of a bank is a slot of its own.
LEMMA SavedSlot ==
  ASSUME NEW c, Shaped(c), NEW b \in Bank, NEW p, DOMAIN p = DOMAIN ZeroPSR
  PROVE  LET d == [c EXCEPT !.spsr[b] = p] IN
         /\ Shaped(d) /\ AgreeOutside(c, d, {<<b, SavedStatus>>})
         /\ <<b, SavedStatus>> \in Slots => File(d)[<<b, SavedStatus>>] = PSRWord(p)
         /\ d.cpsr = c.cpsr /\ d.pSpsr = c.pSpsr /\ d.conflict = c.conflict
<1> DEFINE d == [c EXCEPT !.spsr[b] = p]
           spsr == [c.spsr EXCEPT ![b] = p]
<1>1. /\ d.cpsr = c.cpsr /\ d.pSpsr = c.pSpsr /\ d.spsr = spsr /\ d.bank = c.bank
      /\ d.reg = c.reg /\ DOMAIN d = DOMAIN c /\ d.conflict = c.conflict
  BY ShapedFields
<1>2. /\ DOMAIN spsr = Bank /\ \A x \in Bank : DOMAIN spsr[x] = DOMAIN ZeroPSR
      /\ spsr[b] = p /\ \A x \in Bank : x # b => spsr[x] = c.spsr[x]
  BY DEF Shaped
<1> HIDE DEF d, spsr
<1>3. Shaped(d)
  BY <1>1, <1>2 DEF Shaped
<1>4. ASSUME NEW s \in Slots, s # <<b, SavedStatus>> PROVE File(d)[s] = File(c)[s]
  <2> DEFINE x == s[1]
             r == s[2]
  <2>1. s = <<x, r>> /\ x \in RealBank /\ r \in 0 .. 14 \cup {SavedStatus}
    BY SlotsAre
  <2>2. CASE r = SavedStatus
    <3>1. x \in Bank /\ x # b
      BY <1>4, <2>1, <2>2 DEF RealBank
    <3>2. File(c)[s] = PSRWord(c.spsr[x]) /\ File(d)[s] = PSRWord(d.spsr[x])
      BY <2>2, FileIs, Zenon
    <3>3. QED
      BY <1>1, <1>2, <3>1, <3>2, Zenon
  <2>3. CASE r # SavedStatus
    <3>1. r \in 0 .. 7 \/ r \in 8 .. 14
      BY <2>1, <2>3
    <3> DEFINE here == BankOf(c.cpsr.mode)
               mine == IF r \in 8 .. 12 THEN (x = "fiq" <=> here = "fiq") ELSE x = here
    <3>2. BankOf(d.cpsr.mode) = here
      BY <1>1, Zenon
    <3>3. r \in 13 .. 14 => r \notin 8 .. 12
      OBVIOUS
    <3>4. /\ r \in 0 .. 7 => File(c)[s] = c.reg[r] /\ File(d)[s] = d.reg[r]
          /\ r \in 8 .. 14 /\ mine => File(c)[s] = c.reg[r] /\ File(d)[s] = d.reg[r]
          /\ r \in 8 .. 14 /\ ~mine => File(c)[s] = c.bank[x][r] /\ File(d)[s] = d.bank[x][r]
      <4>1. r \in 8 .. 14 => r \in 8 .. 12 \/ r \in 13 .. 14
        BY <2>1, <2>3
      <4>2. r \in 0 .. 7 => File(c)[s] = c.reg[r] /\ File(d)[s] = d.reg[r]
        BY FileIs, Zenon
      <4>3. r \in 8 .. 14 /\ mine => File(c)[s] = c.reg[r] /\ File(d)[s] = d.reg[r]
        BY <3>2, <3>3, <4>1, FileIs, Zenon
      <4>4. r \in 8 .. 14 /\ ~mine => File(c)[s] = c.bank[x][r] /\ File(d)[s] = d.bank[x][r]
        BY <3>2, <3>3, <4>1, FileIs, Zenon
      <4>5. QED
        BY <4>2, <4>3, <4>4, Zenon
    <3> HIDE DEF mine
    <3>5. QED
      BY <1>1, <3>1, <3>4, Zenon
  <2>4. QED
    BY <2>2, <2>3, Zenon
<1>5. <<b, SavedStatus>> \in Slots => File(d)[<<b, SavedStatus>>] = PSRWord(p)
  <2> DEFINE s == <<b, SavedStatus>>
  <2>1. s[1] = b /\ s[2] = SavedStatus
    OBVIOUS
  <2> HIDE DEF s
  <2>2. s \in Slots => File(d)[s] = PSRWord(d.spsr[b])
    BY <2>1, FileIs, Zenon
  <2>3. QED
    BY <1>1, <1>2, <2>2, Zenon DEF s
<1>6. QED
  BY <1>1, <1>3, <1>4, <1>5, Zenon DEF d, AgreeOutside

\* A transfer from or to a status register writes a register, changes the mode, or
\* writes the saved status of the mode it is in.
LEMMA StatusTransferWrites ==
  ASSUME NEW c, Held(c), Selected(c), NEW i, i.op = "StatusTransfer", ArmEncoding(i)
  PROVE  Writes(c, ARM_StatusTransfer(c, i), BankOf(c.cpsr.mode), Named(i))
<1> DEFINE R == Named(i)
           here == BankOf(c.cpsr.mode)
           x == IF i.toStatus THEN MSR(c, i) ELSE MRS(c, i)
<1>1. R = (IF ~i.toStatus THEN {i.rd} ELSE IF i.useSPSR THEN {SavedStatus} ELSE {}) \ {15}
  BY NamedIs, Zenon
<1>2. i.rd \in Register
  BY Zenon DEF ArmEncoding
<1>3. Aside(c, R) /\ Storing(c, R) /\ StoresOnly(c, c, R) /\ Shaped(c)
  BY HandlersStore, HeldShaped, StoresNone, Zenon DEF Held
<1>4. Writes(c, c, here, R)
  BY <1>3, StoresWrite, Zenon
<1>5. ASSUME ~i.toStatus PROVE Writes(c, x, here, R)
  <2>1. R = {i.rd} \ {15}
    BY <1>1, <1>5, Zenon
  <2> HIDE DEF R
  <2>2. May(R, i.rd)
    BY <1>2, <2>1, NamedMay, Zenon
  <2>3. StoresOnly(c, x, R)
    BY <1>3, <1>5, <2>2, Zenon DEF Storing, MRS
  <2>4. Writes(c, x, here, R)
    BY <2>3, StoresWrite, Zenon
  <2>5. QED
    BY <2>4, Zenon
<1>6. ASSUME i.toStatus PROVE Writes(c, x, here, R)
  <2> DEFINE w == IF i.shifter.kind = "immediate"
                  THEN Immediate(i.shifter.value, i.shifter.rot, FALSE).value
                  ELSE GetReg(c, i.shifter.rm)
             op == WordPSR(w)
             real == [op EXCEPT !.mode = IF @ \div 16 = 1 THEN @ ELSE @ + 16]
             fields == [i EXCEPT !.control = i.control /\ c.cpsr.mode # ModeNumber.usr]
             c1 == IF fields.control THEN SwitchMode(c, real.mode) ELSE c
             p == Merged(c1.cpsr, real, fields)
             q == Merged(GetSPSR(c), op, i)
             y == [c1 EXCEPT !.cpsr = p]
             z == [c EXCEPT !.spsr[c.pSpsr] = q]
  <2>1. x = CASE ~i.useSPSR -> y
              [] i.useSPSR /\ (c.pSpsr = "none" \/ c.cpuModeInvalid) -> c
              [] OTHER -> z
    BY <1>6, Zenon DEF MSR
  <2>2. c.pSpsr \in Bank /\ c.pSpsr = here
    BY ModesAre, Zenon DEF Selected
  <2>3. DOMAIN q = DOMAIN ZeroPSR
    <3>1. DOMAIN GetSPSR(c) = DOMAIN ZeroPSR
      BY <1>3, <2>2, StatusFields, Zenon
    <3>2. DOMAIN q = DOMAIN GetSPSR(c)
      BY DEF Merged
    <3>3. QED
      BY <3>1, <3>2, Zenon
  <2> HIDE DEF w, op, real, q, R
  <2>4. CASE ~i.useSPSR
    <3>1. Writes(c, c1, here, R)
      <4>1. CASE fields.control
        <5> DEFINE e == SwitchMode(c, real.mode)
        <5>1. Shaped(e) /\ AgreeOutside(c, e, Lost(real.mode)) /\ e.cpsr.mode = real.mode
              /\ e.pSpsr = BankOf(real.mode)
          BY <1>3, SwitchAgrees, Zenon
        <5>2. c1 = e
          BY <4>1, Zenon
        <5> HIDE DEF e, c1
        <5>3. Selected(e) /\ AgreeOutside(c, e, Lost(e.cpsr.mode))
          BY <5>1, Zenon DEF Selected
        <5>4. AgreeOutside(c, c, Reached(c, here, R))
          BY Zenon DEF AgreeOutside
        <5>5. Writes(c, e, here, R)
          BY <5>1, <5>3, <5>4, WritesSwitched, Zenon
        <5>6. QED
          BY <5>2, <5>5, Zenon
      <4>2. CASE ~fields.control
        <5>1. c1 = c
          BY <4>2, Zenon
        <5>2. QED
          BY <1>4, <5>1, Zenon
      <4>3. QED
        BY <4>1, <4>2, Zenon
    <3>2. Shaped(c1)
      BY <3>1, Zenon DEF Writes
    <3>3. "mode" \in DOMAIN c1.cpsr /\ DOMAIN c1.cpsr = DOMAIN ZeroPSR
      BY <3>2, ShapedFields DEF Shaped
    <3>4. p.mode = IF fields.control THEN real.mode ELSE c1.cpsr.mode
      BY <3>3, Zenon DEF Merged
    <3>5. p.mode = c1.cpsr.mode
      <4>1. CASE fields.control
        <5>1. SwitchMode(c, real.mode).cpsr.mode = real.mode
          BY <1>3, SwitchAgrees, Zenon
        <5>2. QED
          BY <3>4, <4>1, <5>1, Zenon
      <4>2. CASE ~fields.control
        BY <3>4, <4>2, Zenon
      <4>3. QED
        BY <4>1, <4>2, Zenon
    <3>6. DOMAIN p = DOMAIN ZeroPSR
      <4>1. DOMAIN p = DOMAIN c1.cpsr
        BY DEF Merged
      <4>2. QED
        BY <3>3, <4>1, Zenon
    <3> HIDE DEF p, c1
    <3>7. StoresOnly(c1, y, {})
      BY <3>2, <3>5, <3>6, StatusSet, Zenon
    <3> HIDE DEF y
    <3>8. Writes(c, y, here, R)
      BY <3>1, <3>7, WritesNext, Zenon
    <3>9. x = y
      BY <2>1, <2>4, Zenon
    <3>10. QED
      BY <3>8, <3>9, Zenon DEF R
  <2>5. CASE i.useSPSR /\ (c.pSpsr = "none" \/ c.cpuModeInvalid)
    <3>1. x = c
      BY <2>1, <2>5, Zenon
    <3>2. QED
      BY <1>4, <3>1, Zenon DEF R
  <2>6. CASE i.useSPSR /\ ~(c.pSpsr = "none" \/ c.cpuModeInvalid)
    <3>1. /\ Shaped(z) /\ AgreeOutside(c, z, {<<here, SavedStatus>>})
          /\ z.cpsr = c.cpsr /\ z.pSpsr = c.pSpsr
      BY <1>3, <2>2, <2>3, SavedSlot, Zenon
    <3>2. x = z
      BY <2>1, <2>6, Zenon
    <3> HIDE DEF z
    <3>3. SavedStatus \in R
      <4>1. R = {SavedStatus} \ {15}
        BY <1>1, <1>6, <2>6, Zenon
      <4>2. QED
        BY <4>1 DEF SavedStatus
    <3>4. <<here, SavedStatus>> = Slot(here, SavedStatus)
      BY DEF Slot, SavedStatus
    <3>5. <<here, SavedStatus>> \in Reached(c, here, R)
      <4> HIDE DEF here
      <4>1. QED
        BY <3>3, <3>4, Zenon DEF Reached
    <3>6. AgreeOutside(c, z, Reached(c, here, R) \cup Lost(z.cpsr.mode))
      BY <3>1, <3>5, Zenon DEF AgreeOutside
    <3>7. Selected(z)
      BY <3>1, Zenon DEF Selected
    <3>8. Writes(c, z, here, R)
      BY <3>1, <3>6, <3>7, Zenon DEF Writes
    <3>9. QED
      BY <3>2, <3>8, Zenon DEF R
  <2>7. QED
    BY <2>4, <2>5, <2>6, Zenon
<1>7. Writes(c, x, here, R)
  BY <1>5, <1>6, Zenon
<1>8. ARM_StatusTransfer(c, i) = Advance(Sequential(x), 4)
  BY Zenon DEF ARM_StatusTransfer
<1> HIDE DEF x, here, R
<1>9. Shaped(x)
  BY <1>7, Zenon DEF Writes
<1>10. StoresOnly(x, Advance(Sequential(x), 4), {})
  BY <1>9, StoresNone, StoresAside, Zenon
<1>11. Writes(c, Advance(Sequential(x), 4), here, R)
  BY <1>7, <1>10, WritesNext, Zenon
<1>12. QED
  BY <1>8, <1>11, Zenon DEF here, R

\* The banks of the modes.
LEMMA BanksAre ==
  /\ BankOf(ModeNumber.usr) = "none" /\ BankOf(ModeNumber.sys) = "none"
  /\ \A name \in {"svc", "irq", "und"} : BankOf(ModeNumber[name]) = name
<1>1. DOMAIN ModeNumber = {"usr", "fiq", "irq", "svc", "abt", "und", "sys"}
  BY DEF ModeNumber
<1>2. /\ ModeNumber["usr"] = 16 /\ ModeNumber["fiq"] = 17 /\ ModeNumber["irq"] = 18
      /\ ModeNumber["svc"] = 19 /\ ModeNumber["abt"] = 23 /\ ModeNumber["und"] = 27
      /\ ModeNumber["sys"] = 31
  BY DEF ModeNumber
<1>3. \A x, y \in DOMAIN ModeNumber : ModeNumber[x] = ModeNumber[y] => x = y
  BY <1>1, <1>2
<1>4. ASSUME NEW x \in DOMAIN ModeNumber
      PROVE  BankOf(ModeNumber[x]) = IF x \in {"usr", "sys"} THEN "none" ELSE x
  <2> DEFINE m == ModeNumber[x]
             name == CHOOSE y \in DOMAIN ModeNumber : ModeNumber[y] = m
  <2>1. name \in DOMAIN ModeNumber /\ ModeNumber[name] = m
    <3> HIDE DEF m
    <3>1. \E y \in DOMAIN ModeNumber : ModeNumber[y] = m
      BY Zenon DEF m
    <3>2. QED
      BY <3>1, Zenon
  <2>2. BankOf(m) = IF name \in {"usr", "sys"} THEN "none" ELSE name
    <3> HIDE DEF m
    <3>1. \E y \in DOMAIN ModeNumber : ModeNumber[y] = m
      BY Zenon DEF m
    <3>2. QED
      BY <3>1, Zenon DEF BankOf
  <2> HIDE DEF name
  <2>3. name = x
    BY <1>3, <2>1, Zenon
  <2>4. QED
    BY <2>2, <2>3, Zenon
<1>5. QED
  BY <1>1, <1>4

\* A list of registers, loaded or stored one at a time.
LEMMA BlockStores ==
  ASSUME NEW c, NEW R, NEW x, StoresOnly(c, x, R), NEW i, NEW list \in SUBSET Register, NEW low, NEW far,
         i.writeback => May(R, i.rn), i.load => \A r \in list : May(R, r)
  PROVE  StoresOnly(c, BlockUnits(x, i, list, low, far), R)
<1>1. PICK g : AreUnits(g, x, i, list, low, far, 16) /\ BlockUnits(x, i, list, low, far) = g[16]
  BY BlockUnitsAre, Zenon
<1> DEFINE S(y) == StoresOnly(c, y, R)
           Good(m) == S(g[m])
           T == {m \in 0 .. 16 : ~ Good(m)}
<1>2. g[0] = x
  BY <1>1, Zenon DEF AreUnits
<1>3. /\ \A y, k, a : S(y) => S(Read(y, k, a))
      /\ \A y, a, v : S(y) => S(Write(y, a, v))
      /\ \A y, v : i.writeback /\ S(y) => S(SetReg(y, i.rn, v))
      /\ \A y, r, v : i.load /\ r \in list /\ S(y) => S(SetReg(y, r, v))
  BY HandlersStore, Zenon DEF Aside, Storing
<1>4. ASSUME NEW y, NEW r \in list, S(y) PROVE S(BlockUnit(y, i, list, low, far, r))
  <2> DEFINE Rebased(z) == IF i.writeback /\ Below(list, r) = 0 THEN SetReg(z, i.rn, far) ELSE z
             at == Wrap(low + 4 * (Below(list, r) + (IF PreUpwards(i) THEN 1 ELSE 0)))
  <2>1. BlockUnit(y, i, list, low, far, r) =
          IF i.load THEN SetReg(Rebased(Read(y, "word", at)), r, ReadAs(y, "word", at))
          ELSE Rebased(Write(y, at, GetReg(y, r)))
    BY Zenon DEF BlockUnit
  <2> HIDE DEF S, at
  <2>2. \A z : S(z) => S(Rebased(z))
    BY <1>3, Zenon
  <2> HIDE DEF Rebased
  <2>3. QED
    BY <1>3, <1>4, <2>1, <2>2, Zenon
<1>5. ASSUME NEW m \in 1 .. 16, Good(m - 1) PROVE Good(m)
  <2>1. g[m] = IF m - 1 \in list THEN BlockUnit(g[m - 1], i, list, low, far, m - 1) ELSE g[m - 1]
    BY <1>1, Zenon DEF AreUnits
  <2> HIDE DEF S
  <2>2. QED
    BY <1>4, <1>5, <2>1, Zenon
<1>6. Good(0)
  BY <1>2, Zenon
<1> HIDE DEF Good
<1>7. T = {}
  <2> SUFFICES ASSUME T # {} PROVE FALSE
    OBVIOUS
  <2>1. T \in SUBSET Nat
    OBVIOUS
  <2>2. PICK m \in T : \A y \in T : m <= y
    BY <2>1, NatLeast
  <2>3. m \in 1 .. 16
    BY <1>6, <2>2
  <2>4. m - 1 \in 0 .. 16 /\ m - 1 \notin T
    BY <2>2, <2>3
  <2>5. Good(m - 1)
    BY <2>4
  <2>6. QED
    BY <1>5, <2>2, <2>3, <2>5
<1>8. Good(16)
  BY <1>7
<1>9. QED
  BY <1>1, <1>8, Zenon DEF Good

\* Block transfers write their registers in the bank that is meant: that of the
\* mode, or the user's by way of user mode.
LEMMA BlockDataTransferWrites ==
  ASSUME NEW c, Held(c), Selected(c), NEW i, i.op = "BlockDataTransfer", ArmEncoding(i)
  PROVE  Writes(c, ARM_BlockDataTransfer(c, i), NamedBank(c, i), Named(i))
<1> DEFINE R == Named(i)
           here == BankOf(c.cpsr.mode)
           list == IF i.list = {} THEN {15} ELSE i.list
           bytes == IF i.list = {} THEN 64 ELSE 4 * Cardinality(i.list)
           switch == /\ i.userMode
                     /\ ~(i.load /\ 15 \in list)
                     /\ c.cpsr.mode \notin {ModeNumber.usr, ModeNumber.sys}
           base == GetReg(c, i.rn)
           far == Wrap(IF i.add THEN base + bytes ELSE base - bytes)
           low == IF i.add THEN base ELSE far
           c1 == IF switch THEN SwitchMode(c, ModeNumber.usr) ELSE c
           c0 == Advance(Nonsequential(c1), 4)
           moved == BlockUnits(c0, i, list, low, far)
           idled == Idle(moved)
           loaded == IF switch THEN [idled EXCEPT !.conflict = 2] ELSE idled
           returned == IF i.userMode THEN RestorePSR(loaded) ELSE loaded
           c2 == CASE ~i.load -> moved
                   [] i.load /\ 15 \in list -> ReloadSame(returned)
                   [] OTHER -> loaded
<1>1. i.rn \in Register /\ i.list \subseteq Register /\ Shaped(c)
  <2>1. i.rn \in Register /\ i.list \subseteq Register
    BY Zenon DEF ArmEncoding
  <2>2. QED
    BY <2>1, HeldShaped, Zenon DEF Held
<1>2. list \in SUBSET Register
  BY <1>1 DEF Register
<1>3. R = ((IF i.load THEN i.list ELSE {}) \cup IF i.writeback THEN {i.rn} ELSE {}) \ {15}
  BY NamedIs, Zenon
<1>4. UserTransfer(c, i) <=> i.userMode /\ ~(i.load /\ 15 \in list)
  BY Zenon DEF UserTransfer
<1>5. (i.writeback => May(R, i.rn)) /\ (i.load => \A r \in list : May(R, r))
  <2> HIDE DEF R
  <2>1. i.writeback => May(R, i.rn)
    BY <1>1, <1>3 DEF May
  <2>2. i.load => \A r \in list : May(R, r)
    BY <1>1, <1>2, <1>3 DEF May
  <2>3. QED
    BY <2>1, <2>2, Zenon
<1>6. ARM_BlockDataTransfer(c, i) = IF switch THEN SwitchMode(c2, c.cpsr.mode) ELSE c2
  BY Zenon DEF ARM_BlockDataTransfer
<1> HIDE DEF list, bytes, base, far, low, R
<1>7. ASSUME Shaped(c1) PROVE Shaped(moved) /\ StoresOnly(c1, moved, R) /\ StoresOnly(c1, idled, R)
  <2>1. StoresOnly(c1, c0, R)
    BY <1>7, StoresNone, StoresAside, Zenon
  <2> HIDE DEF c1, c0
  <2>2. StoresOnly(c1, moved, R)
    BY <1>2, <1>5, <2>1, BlockStores, Zenon
  <2> HIDE DEF moved
  <2>3. StoresOnly(c1, idled, R)
    BY <2>2, StoresBus, Zenon DEF Idle
  <2>4. QED
    BY <2>2, <2>3, Zenon DEF StoresOnly
<1>8. CASE ~switch
  <2>1. c1 = c /\ loaded = idled /\ ARM_BlockDataTransfer(c, i) = c2
    BY <1>6, <1>8, Zenon
  <2>2. NamedBank(c, i) = here
    <3>1. UserTransfer(c, i) => c.cpsr.mode \in {ModeNumber.usr, ModeNumber.sys}
      BY <1>4, <1>8, Zenon
    <3>2. UserTransfer(c, i) => here = "none"
      BY <3>1, BanksAre, Zenon
    <3>3. QED
      BY <3>2, Zenon DEF NamedBank
  <2> HIDE DEF c1
  <2>3. StoresOnly(c, moved, R) /\ StoresOnly(c, idled, R)
    BY <1>1, <1>7, <2>1, Zenon
  <2> HIDE DEF moved, idled
  <2>4. Writes(c, moved, here, R) /\ Writes(c, idled, here, R)
    BY <2>3, StoresWrite, Zenon
  <2>5. StoresOnly(c, ReloadSame(idled), R)
    BY <2>3, StoresJump, Zenon DEF ReloadSame
  <2>6. Writes(c, ReloadSame(idled), here, R) /\ Writes(c, ReloadSame(RestorePSR(idled)), here, R)
    BY <2>3, <2>5, StoresWrite, RestoreWrites, Zenon
  <2>7. Writes(c, c2, here, R)
    <3> HIDE DEF here, loaded
    <3>1. QED
      BY <2>1, <2>4, <2>6, Zenon
  <2>8. QED
    BY <2>1, <2>2, <2>7, Zenon DEF R
<1>9. CASE switch
  <2>1. c1 = SwitchMode(c, ModeNumber.usr) /\ loaded = [idled EXCEPT !.conflict = 2]
        /\ ARM_BlockDataTransfer(c, i) = SwitchMode(c2, c.cpsr.mode)
    BY <1>6, <1>9, Zenon
  <2>2. NamedBank(c, i) = "none"
    BY <1>4, <1>9, Zenon DEF NamedBank
  <2>3. c2 = moved \/ c2 = loaded
    BY <1>9, Zenon
  <2> HIDE DEF switch, c2, c1, loaded
  <2>4. /\ Shaped(c1) /\ AgreeOutside(c, c1, Lost(ModeNumber.usr))
        /\ c1.cpsr.mode = ModeNumber.usr /\ c1.conflict = c.conflict
    <3> DEFINE m == ModeNumber.usr
               e == SwitchMode(c, m)
    <3>1. c1 = e
      BY <2>1, Zenon
    <3> HIDE DEF m
    <3>2. Shaped(e) /\ AgreeOutside(c, e, Lost(m)) /\ e.cpsr.mode = m /\ e.conflict = c.conflict
      BY <1>1, SwitchAgrees, Zenon
    <3> HIDE DEF e
    <3>3. /\ Shaped(c1) /\ AgreeOutside(c, c1, Lost(m))
          /\ c1.cpsr.mode = m /\ c1.conflict = c.conflict
      BY <3>1, <3>2, Zenon
    <3>4. QED
      BY <3>3, Zenon DEF m
  <2>5. AgreeOutside(c, c1, {})
    <3>1. Lost(ModeNumber.usr) = {}
      BY BanksAre DEF Lost
    <3>2. QED
      BY <2>4, <3>1, Zenon
  <2>6. Shaped(moved) /\ StoresOnly(c1, moved, R) /\ StoresOnly(c1, idled, R)
    BY <1>7, <2>4, Zenon
  <2> HIDE DEF moved, idled
  <2>7. Reached(c1, BankOf(c1.cpsr.mode), R) = Reached(c, "none", R)
    BY <2>4, BanksAre, Zenon DEF Reached, ldmUsermode
  <2>8. \A x : StoresOnly(c1, x, R) => AgreeOutside(c, x, Reached(c, "none", R))
    <3>1. \A x : StoresOnly(c1, x, R) => AgreeOutside(c1, x, Reached(c, "none", R))
      BY <2>7, StoresReach, Zenon
    <3>2. QED
      BY <2>5, <3>1, Zenon DEF AgreeOutside
  <2>9. Shaped(loaded) /\ File(loaded) = File(idled)
    <3>1. Shaped(idled)
      BY <2>6, Zenon DEF StoresOnly
    <3>2. /\ loaded.cpsr = idled.cpsr /\ loaded.spsr = idled.spsr /\ loaded.bank = idled.bank
          /\ loaded.reg = idled.reg /\ DOMAIN loaded = DOMAIN idled
      BY <2>1, <3>1, ShapedFields
    <3>3. Shaped(loaded)
      BY <3>1, <3>2 DEF Shaped
    <3>4. QED
      BY <3>2, <3>3, SameFile, Zenon
  <2>10. Shaped(c2) /\ AgreeOutside(c, c2, Reached(c, "none", R))
    <3>1. AgreeOutside(c, moved, Reached(c, "none", R)) /\ AgreeOutside(c, idled, Reached(c, "none", R))
      BY <2>6, <2>8, Zenon
    <3>2. AgreeOutside(c, loaded, Reached(c, "none", R))
      BY <2>9, <3>1, Zenon DEF AgreeOutside
    <3>3. QED
      BY <2>3, <2>6, <2>9, <3>1, <3>2, Zenon
  <2> DEFINE d == SwitchMode(c2, c.cpsr.mode)
  <2>11. /\ Shaped(d) /\ AgreeOutside(c2, d, Lost(c.cpsr.mode)) /\ d.cpsr.mode = c.cpsr.mode
         /\ d.pSpsr = BankOf(c.cpsr.mode)
    BY <2>10, SwitchAgrees, Zenon
  <2>12. ARM_BlockDataTransfer(c, i) = d
    BY <2>1, Zenon
  <2> HIDE DEF d
  <2>13. Selected(d) /\ AgreeOutside(c2, d, Lost(d.cpsr.mode))
    BY <2>11, Zenon DEF Selected
  <2>14. Writes(c, d, "none", R)
    BY <2>10, <2>11, <2>13, WritesSwitched, Zenon
  <2>15. QED
    BY <2>2, <2>12, <2>14, Zenon DEF R
<1>10. QED
  BY <1>8, <1>9, Zenon

\* What an exception does: it saves the status in its own bank, and may write the
\* return address there.
Trapped(c, d, name) ==
  /\ Shaped(d) /\ Selected(d) /\ BankOf(d.cpsr.mode) = name
  /\ AgreeOutside(c, d, Reached(c, name, {14, SavedStatus}))
  /\ File(d)[<<name, SavedStatus>>] = PSRWord(c.cpsr)

\* A handler that stores in r14 after Enter takes an exception.
LEMMA EnterTraps ==
  ASSUME NEW c, Shaped(c), Selected(c), NEW name \in {"svc", "irq", "und"},
         NEW d, StoresOnly(Enter(c, name), d, {14})
  PROVE  Trapped(c, d, name)
<1> DEFINE kept == [c EXCEPT !.spsr[name] = c.cpsr]
           slot == <<name, SavedStatus>>
           m == ModeNumber[name]
           e == SwitchMode(kept, m)
           p == [e.cpsr EXCEPT !.i = TRUE]
           masked == [e EXCEPT !.cpsr = p]
<1>1. name \in Bank /\ name # "invalid" /\ name # "none" /\ slot \in Slots /\ BankOf(m) = name
  <2>1. name \in Bank /\ name # "invalid" /\ name # "none"
    BY DEF Bank
  <2>2. slot \in Slots
    BY <2>1 DEF Slots, RealBank
  <2>3. BankOf(m) = name
    BY BanksAre, Zenon
  <2>4. QED
    BY <2>1, <2>2, <2>3, Zenon
<1>2. DOMAIN c.cpsr = DOMAIN ZeroPSR
  BY Zenon DEF Shaped
<1>3. masked = Enter(c, name)
  <2>1. [e EXCEPT !.cpsr.i = TRUE] = masked
    BY Zenon
  <2>2. Enter(c, name) = [e EXCEPT !.cpsr.i = TRUE]
    BY Zenon DEF Enter
  <2>3. QED
    BY <2>1, <2>2, Zenon
<1> HIDE DEF m
<1>4. /\ Shaped(kept) /\ AgreeOutside(c, kept, {slot}) /\ File(kept)[slot] = PSRWord(c.cpsr)
      /\ kept.conflict = c.conflict
  <2> DEFINE p0 == c.cpsr
             x == [c EXCEPT !.spsr[name] = p0]
  <2>1. x = kept /\ DOMAIN p0 = DOMAIN ZeroPSR
    BY <1>2, Zenon
  <2> HIDE DEF p0, kept
  <2>2. Shaped(x) /\ AgreeOutside(c, x, {<<name, SavedStatus>>}) /\ x.conflict = c.conflict
    <3>1. Shaped(x)
      BY <1>1, <2>1, SavedSlot, Zenon
    <3>2. AgreeOutside(c, x, {<<name, SavedStatus>>})
      BY <1>1, <2>1, SavedSlot
    <3>3. x.conflict = c.conflict
      BY ShapedFields
    <3>4. QED
      BY <3>1, <3>2, <3>3, Zenon
  <2>3. x.spsr[name] = p0
    BY <1>1, ShapedFields DEF Shaped
  <2> HIDE DEF x
  <2>4. File(x)[slot] = PSRWord(p0)
    <3>1. slot[1] = name /\ slot[2] = SavedStatus
      OBVIOUS
    <3> HIDE DEF slot
    <3>2. File(x)[slot] = PSRWord(x.spsr[slot[1]])
      BY <1>1, <3>1, FileIs, Zenon
    <3>3. QED
      BY <2>3, <3>1, <3>2, Zenon
  <2> HIDE DEF slot
  <2>5. /\ Shaped(kept) /\ AgreeOutside(c, kept, {slot}) /\ File(kept)[slot] = PSRWord(p0)
        /\ kept.conflict = c.conflict
    <3>1. slot = <<name, SavedStatus>>
      BY DEF slot
    <3>2. QED
      BY <2>1, <2>2, <2>4, <3>1, Zenon
  <2>6. QED
    BY <2>5, Zenon DEF p0
<1> HIDE DEF kept
<1>5. /\ Shaped(e) /\ AgreeOutside(kept, e, Lost(m)) /\ e.cpsr.mode = m
      /\ e.pSpsr = BankOf(m) /\ e.conflict = kept.conflict
  BY <1>4, SwitchAgrees, Zenon
<1>6. Lost(m) = {}
  BY <1>1 DEF Lost
<1>7. DOMAIN p = DOMAIN ZeroPSR /\ p.mode = m
  <2>1. DOMAIN e.cpsr = {"mode", "t", "f", "i", "n", "z", "c", "v"}
    BY <1>5, ShapedFields, Zenon
  <2> HIDE DEF e
  <2>2. DOMAIN p = DOMAIN e.cpsr /\ p.mode = e.cpsr.mode
    BY <2>1
  <2>3. QED
    BY <1>5, <2>1, <2>2, PSRFields, Zenon
<1> HIDE DEF e, p
<1>8. StoresOnly(e, masked, {}) /\ masked.cpsr = p /\ masked.conflict = e.conflict
  <2>1. StoresOnly(e, masked, {}) /\ masked.cpsr = p
    BY <1>5, <1>7, StatusSet, Zenon
  <2>2. masked.conflict = e.conflict
    BY <1>5, ShapedFields
  <2>3. QED
    BY <2>1, <2>2, Zenon
<1>9. Selected(e)
  BY <1>5, Zenon DEF Selected
<1> HIDE DEF masked
<1>10. Shaped(masked) /\ Selected(masked) /\ AgreeOutside(e, masked, {})
  <2>1. Writes(e, masked, BankOf(e.cpsr.mode), {})
    BY <1>8, <1>9, StoresWrite, Zenon
  <2>2. Reached(e, BankOf(e.cpsr.mode), {}) = {}
    BY DEF Reached
  <2>3. Lost(masked.cpsr.mode) = {}
    BY <1>6, <1>7, <1>8, Zenon
  <2>4. QED
    BY <2>1, <2>2, <2>3, Zenon DEF Writes, AgreeOutside
<1>11. AgreeOutside(c, masked, {slot}) /\ File(masked)[slot] = PSRWord(c.cpsr)
  BY <1>1, <1>4, <1>5, <1>6, <1>10, Zenon DEF AgreeOutside
<1>12. StoresOnly(masked, d, {14}) /\ masked.cpsr.mode = m
  BY <1>3, <1>7, <1>8, Zenon
<1>13. Writes(masked, d, name, {14}) /\ AgreeOutside(masked, d, Reached(masked, name, {14}))
  <2>1. BankOf(masked.cpsr.mode) = name
    BY <1>1, <1>12, Zenon
  <2>2. QED
    BY <1>10, <1>12, <2>1, StoresWrite, StoresReach, Zenon
<1>14. d.cpsr.mode = m
  BY <1>12, Zenon DEF StoresOnly
<1>15. Reached(masked, name, {14}) = Reached(c, name, {14})
  <2>1. masked.conflict = c.conflict
    BY <1>4, <1>5, <1>8, Zenon
  <2>2. QED
    BY <2>1, Zenon DEF Reached, ldmUsermode
<1>16. /\ slot \notin Reached(c, name, {14})
       /\ Reached(c, name, {14}) \cup {slot} \subseteq Reached(c, name, {14, SavedStatus})
  BY DEF Reached, Slot, SavedStatus
<1> HIDE DEF slot
<1>17. File(d)[slot] = PSRWord(c.cpsr)
  BY <1>1, <1>11, <1>13, <1>15, <1>16, Zenon DEF AgreeOutside
<1>18. AgreeOutside(c, d, Reached(c, name, {14, SavedStatus}))
  BY <1>11, <1>13, <1>15, <1>16, Zenon DEF AgreeOutside
<1>19. Shaped(d) /\ Selected(d)
  BY <1>13, Zenon DEF Writes
<1>20. QED
  BY <1>1, <1>14, <1>17, <1>18, <1>19, Zenon DEF Trapped, slot

\* The traps, and the entry to an interrupt, do.
LEMMA HandlersTrap ==
  ASSUME NEW c, Shaped(c), Selected(c), NEW i
  PROVE  /\ Trapped(c, ARM_Undefined(c, i), "und") /\ Trapped(c, ARM_SWI(c, i), "svc")
         /\ Trapped(c, Thumb_SWI(c, i), "svc")
         /\ \A v, at : Trapped(c, Jump(SetReg([Enter(c, "irq") EXCEPT !.cpsr.t = FALSE], 14, v), at, FALSE), "irq")
<1>1. ASSUME NEW name \in {"svc", "irq", "und"}
      PROVE  /\ \A v, at : Trapped(c, Jump(SetReg(Enter(c, name), 14, v), at, FALSE), name)
             /\ \A v, at : Trapped(c, Jump(PutReg([Enter(c, name) EXCEPT !.cpsr.t = FALSE], 14, v), at, FALSE), name)
             /\ \A v, at : Trapped(c, Jump(SetReg([Enter(c, name) EXCEPT !.cpsr.t = FALSE], 14, v), at, FALSE), name)
  <2> DEFINE e == Enter(c, name)
             R == {14}
  <2>1. Shaped(e)
    <3> DEFINE kept == [c EXCEPT !.spsr[name] = c.cpsr]
               x == SwitchMode(kept, ModeNumber[name])
               p == [x.cpsr EXCEPT !.i = TRUE]
    <3>1. name \in Bank /\ DOMAIN c.cpsr = DOMAIN ZeroPSR
      BY DEF Bank, Shaped
    <3>2. Shaped(kept)
      BY <3>1, SavedSlot, Zenon
    <3> HIDE DEF kept
    <3>3. Shaped(x)
      BY <3>2, SwitchAgrees, Zenon
    <3> HIDE DEF x
    <3>4. p.mode = x.cpsr.mode /\ DOMAIN p = DOMAIN ZeroPSR
      BY <3>3, ShapedFields DEF Shaped
    <3>5. [x EXCEPT !.cpsr.i = TRUE] = [x EXCEPT !.cpsr = p]
      BY Zenon
    <3>6. e = [x EXCEPT !.cpsr = p]
      BY <3>5, Zenon DEF Enter, x, kept
    <3> HIDE DEF e, p
    <3>7. Shaped(e)
      BY <3>3, <3>4, <3>6, StatusSet, Zenon DEF StoresOnly
    <3>8. QED
      BY <3>7, Zenon DEF e
  <2> HIDE DEF e
  <2>2. StoresOnly(e, e, R) /\ Aside(e, R) /\ Storing(e, R)
    BY <2>1, StoresNone, HandlersStore, Zenon
  <2>3. May(R, 14)
    BY DEF May, Register
  <2> HIDE DEF R
  <2>4. \A v, at : /\ StoresOnly(e, Jump(SetReg(e, 14, v), at, FALSE), R)
                   /\ StoresOnly(e, Jump(PutReg([e EXCEPT !.cpsr.t = FALSE], 14, v), at, FALSE), R)
                   /\ StoresOnly(e, Jump(SetReg([e EXCEPT !.cpsr.t = FALSE], 14, v), at, FALSE), R)
    BY <2>2, <2>3, Zenon DEF Aside, Storing
  <2>5. \A d : StoresOnly(e, d, R) => Trapped(c, d, name)
    BY EnterTraps, Zenon DEF e, R
  <2>6. QED
    BY <2>4, <2>5, Zenon DEF e
<1>2. QED
  BY <1>1, Zenon DEF ARM_Undefined, ARM_SWI, Thumb_SWI

\* An ARM instruction that traps not writes what it names, in the bank it names,
LEMMA ArmWrites ==
  ASSUME NEW c, Held(c), Selected(c), NEW i, ArmEncoding(i), Predictable(c, i), ~Traps(i)
  PROVE  Writes(c, ArmHandler(c, i), NamedBank(c, i), Named(i))
<1>1. \/ i.op \in {"Multiply", "MultiplyLong", "SingleDataSwap", "BranchAndExchange",
                   "HalfwordSignedTransfer", "BranchAndLink", "SingleDataTransfer"}
      \/ i.op \in {"DataProcessing", "StatusTransfer", "BlockDataTransfer"}
  BY Zenon DEF ArmEncoding, Traps
<1>2. i.op # "BlockDataTransfer" => NamedBank(c, i) = BankOf(c.cpsr.mode)
  BY Zenon DEF NamedBank, UserTransfer
<1>3. ASSUME i.op \in {"Multiply", "MultiplyLong", "SingleDataSwap", "BranchAndExchange",
                       "HalfwordSignedTransfer", "BranchAndLink", "SingleDataTransfer"}
      PROVE  Writes(c, ArmHandler(c, i), NamedBank(c, i), Named(i))
  BY <1>2, <1>3, ArmStores, StoresWrite, Zenon
<1>4. ASSUME i.op = "DataProcessing"
      PROVE  Writes(c, ArmHandler(c, i), NamedBank(c, i), Named(i))
  <2>1. ArmHandler(c, i) = ARM_DataProcessing(c, i)
    BY <1>4, Zenon DEF ArmHandler
  <2>2. i.code \in Tests => i.rd # 15
    BY <1>4, Zenon DEF Predictable
  <2>3. QED
    BY <1>2, <1>4, <2>1, <2>2, DataProcessingWrites, Zenon
<1>5. ASSUME i.op = "StatusTransfer"
      PROVE  Writes(c, ArmHandler(c, i), NamedBank(c, i), Named(i))
  <2>1. ArmHandler(c, i) = ARM_StatusTransfer(c, i)
    BY <1>5, Zenon DEF ArmHandler
  <2>2. QED
    BY <1>2, <1>5, <2>1, StatusTransferWrites, Zenon
<1>6. ASSUME i.op = "BlockDataTransfer"
      PROVE  Writes(c, ArmHandler(c, i), NamedBank(c, i), Named(i))
  <2>1. ArmHandler(c, i) = ARM_BlockDataTransfer(c, i)
    BY <1>6, Zenon DEF ArmHandler
  <2>2. QED
    BY <1>6, <2>1, BlockDataTransferWrites, Zenon
<1>7. QED
  BY <1>1, <1>3, <1>4, <1>5, <1>6, Zenon

\* and so does a Thumb instruction;
LEMMA ThumbWrites ==
  ASSUME NEW c, Held(c), Selected(c), NEW i, ThumbEncoding(i), ~Traps(i)
  PROVE  Writes(c, ThumbHandler(c, i), NamedBank(c, i), Named(i))
<1>1. i.op # "SWI"
  BY Zenon DEF Traps
<1>2. i.op # "BlockDataTransfer"
  BY Zenon DEF ThumbEncoding
<1>3. NamedBank(c, i) = BankOf(c.cpsr.mode)
  BY <1>2, Zenon DEF NamedBank, UserTransfer
<1>4. QED
  BY <1>1, <1>3, ThumbStores, StoresWrite, Zenon

\* the others are exceptions.
LEMMA TrapsTrap ==
  ASSUME NEW c, Held(c), Selected(c), NEW i, Traps(i)
  PROVE  /\ ArmEncoding(i) => Trapped(c, ArmHandler(c, i), TrapBank(i))
         /\ ThumbEncoding(i) => Trapped(c, ThumbHandler(c, i), TrapBank(i))
<1>1. /\ Trapped(c, ARM_Undefined(c, i), "und") /\ Trapped(c, ARM_SWI(c, i), "svc")
      /\ Trapped(c, Thumb_SWI(c, i), "svc")
  BY HandlersTrap, HeldShaped, Zenon DEF Held
<1>2. CASE i.op = "SWI"
  <2>1. ArmHandler(c, i) = ARM_SWI(c, i) /\ ThumbHandler(c, i) = Thumb_SWI(c, i) /\ TrapBank(i) = "svc"
    BY <1>2, Zenon DEF ArmHandler, ThumbHandler, TrapBank
  <2>2. QED
    BY <1>1, <2>1, Zenon
<1>3. CASE i.op = "Undefined"
  <2>1. ArmHandler(c, i) = ARM_Undefined(c, i) /\ TrapBank(i) = "und" /\ ~ThumbEncoding(i)
    BY <1>3, Zenon DEF ArmHandler, ThumbEncoding, TrapBank
  <2>2. QED
    BY <1>1, <2>1, Zenon
<1>4. QED
  BY <1>2, <1>3, Zenon DEF Traps

\* What a CPU that was changed in no register writes, it would have written before.
LEMMA FromThere ==
  ASSUME NEW c, Selected(c), NEW b, StoresOnly(c, b, {}), b.cpsr = c.cpsr
  PROVE  /\ Selected(b)
         /\ \A d, bank, R : Writes(b, d, bank, R) => Writes(c, d, bank, R)
         /\ \A d, name : Trapped(b, d, name) => Trapped(c, d, name)
<1>1. Selected(b)
  BY Zenon DEF Selected, StoresOnly
<1>2. AgreeOutside(c, b, {})
  <2>1. AgreeOutside(c, b, Reached(c, BankOf(c.cpsr.mode), {}))
    BY StoresReach, Zenon
  <2>2. Reached(c, BankOf(c.cpsr.mode), {}) = {}
    BY DEF Reached
  <2>3. QED
    BY <2>1, <2>2, Zenon
<1>3. ASSUME NEW bank, NEW R PROVE Reached(b, bank, R) \subseteq Reached(c, bank, R)
  <2>1. ldmUsermode(b) => ldmUsermode(c)
    BY Zenon DEF ldmUsermode, StoresOnly
  <2>2. QED
    BY <2>1 DEF Reached
<1>4. ASSUME NEW d, NEW bank, NEW R, NEW W, AgreeOutside(b, d, Reached(b, bank, R) \cup W)
      PROVE  AgreeOutside(c, d, Reached(c, bank, R) \cup W)
  BY <1>2, <1>3, <1>4, Zenon DEF AgreeOutside
<1>5. ASSUME NEW d, NEW bank, NEW R, AgreeOutside(b, d, Reached(b, bank, R))
      PROVE  AgreeOutside(c, d, Reached(c, bank, R))
  BY <1>2, <1>3, <1>5, Zenon DEF AgreeOutside
<1>6. QED
  BY <1>1, <1>4, <1>5, Zenon DEF Writes, Trapped

\* What a step chose does not outlive it, and is in no register.
LEMMA EndedWrites ==
  ASSUME NEW c, NEW d, Shaped(d)
  PROVE  /\ \A bank, R : Writes(c, d, bank, R) => Writes(c, Ended(d), bank, R)
         /\ \A name : Trapped(c, d, name) => Trapped(c, Ended(d), name)
<1> DEFINE e == Ended(d)
<1>1. /\ e.cpsr = d.cpsr /\ e.pSpsr = d.pSpsr /\ e.spsr = d.spsr /\ e.bank = d.bank
      /\ e.reg = d.reg /\ DOMAIN e = DOMAIN d
  BY ShapedFields DEF Ended
<1> HIDE DEF e
<1>2. Shaped(e)
  BY <1>1 DEF Shaped
<1>3. File(e) = File(d)
  BY <1>1, SameFile, Zenon
<1>4. Selected(d) => Selected(e)
  BY <1>1, Zenon DEF Selected
<1>5. \A bank, R : Writes(c, d, bank, R) => Writes(c, e, bank, R)
  BY <1>1, <1>2, <1>3, <1>4, Zenon DEF Writes, AgreeOutside
<1>6. \A name : Trapped(c, d, name) => Trapped(c, e, name)
  BY <1>1, <1>2, <1>3, <1>4, Zenon DEF Trapped, AgreeOutside
<1>7. QED
  BY <1>5, <1>6, Zenon DEF e

\* What comes before a handler stores nothing,
LEMMA FetchStores ==
  ASSUME Settled(cpu), NEW slow
  PROVE  /\ StoresOnly(cpu, Begun(slow), {}) /\ Begun(slow).cpsr = cpu.cpsr
         /\ StoresOnly(cpu, FetchedNext(Begun(slow)), {})
<1> DEFINE b == Begun(slow)
           latch == b.cpsr.i
           pc == Aligned(b.reg[15], 2)
           c1 == [b EXCEPT !.latchIrqDisable = latch, !.reg[15] = pc]
           c2 == Code(c1, pc, b.cpsr.t)
           pipe == <<b.pipe[2], Fetched(pc, b.cpsr.t)>>
           c3 == [c2 EXCEPT !.pipe = pipe]
<1>1. Held(cpu) /\ Shaped(cpu)
  BY SettledParts, HeldShaped, Zenon DEF Held
<1>2. StoresOnly(cpu, cpu, {})
  BY <1>1, StoresNone, Zenon
<1>3. StoresOnly(cpu, b, {}) /\ b.cpsr = cpu.cpsr /\ Shaped(b)
  <2>1. /\ b.cpsr = cpu.cpsr /\ b.pSpsr = cpu.pSpsr /\ b.spsr = cpu.spsr /\ b.bank = cpu.bank
        /\ b.reg = cpu.reg /\ DOMAIN b = DOMAIN cpu /\ b.conflict = cpu.conflict
    BY <1>1, ShapedFields DEF Begun
  <2> HIDE DEF b
  <2>2. Shaped(b)
    BY <1>1, <2>1 DEF Shaped
  <2>3. QED
    BY <1>2, <2>1, <2>2, StoresNext
<1>4. FetchedNext(b) = c3
  <2>1. DOMAIN b.reg = Register /\ 15 \in Register
    BY <1>3 DEF Shaped, Register
  <2>2. c1.reg[15] = pc
    <3> HIDE DEF b, pc, latch
    <3>1. QED
      BY <1>3, <2>1, ShapedFields
  <2>3. FetchedNext(b) =
          [Code(c1, c1.reg[15], b.cpsr.t) EXCEPT !.pipe = <<b.pipe[2], Fetched(c1.reg[15], b.cpsr.t)>>]
    BY Zenon DEF FetchedNext
  <2> HIDE DEF c1, pc, b
  <2>4. QED
    BY <2>2, <2>3, Zenon
<1> HIDE DEF b, pc, latch
<1>5. StoresOnly(cpu, c1, {})
  <2>1. /\ c1.cpsr = b.cpsr /\ c1.pSpsr = b.pSpsr /\ c1.spsr = b.spsr /\ c1.bank = b.bank
        /\ c1.reg = [b.reg EXCEPT ![15] = pc] /\ DOMAIN c1 = DOMAIN b /\ c1.conflict = b.conflict
    BY <1>3, ShapedFields
  <2> HIDE DEF c1
  <2>2. DOMAIN c1.reg = Register /\ \A r \in Register : r # 15 => c1.reg[r] = b.reg[r]
    BY <1>3, <2>1 DEF Shaped
  <2>3. Shaped(c1)
    BY <1>3, <2>1, <2>2 DEF Shaped
  <2>4. QED
    BY <1>3, <2>1, <2>2, <2>3, StoresNext
<1> HIDE DEF c1
<1>6. StoresOnly(cpu, c2, {}) /\ Shaped(c2)
  <2>1. StoresOnly(cpu, c2, {})
    BY <1>5, StoresBus DEF Code
  <2> HIDE DEF c2
  <2>2. QED
    BY <2>1, Zenon DEF StoresOnly
<1> HIDE DEF c2, pipe
<1>7. StoresOnly(cpu, c3, {})
  <2>1. /\ c3.cpsr = c2.cpsr /\ c3.pSpsr = c2.pSpsr /\ c3.spsr = c2.spsr /\ c3.bank = c2.bank
        /\ c3.reg = c2.reg /\ DOMAIN c3 = DOMAIN c2 /\ c3.conflict = c2.conflict
    BY <1>6, ShapedFields
  <2> HIDE DEF c3
  <2>2. Shaped(c3)
    BY <1>6, <2>1 DEF Shaped
  <2>3. QED
    BY <1>6, <2>1, <2>2, StoresNext
<1> HIDE DEF c3
<1>8. QED
  BY <1>3, <1>4, <1>7, Zenon DEF b

\* also with what the step chose,
LEMMA ReadyStores ==
  ASSUME Settled(cpu), NEW slow, NEW contents \in Int, NEW booth
  PROVE  LET c == Ready(slow, contents, booth) IN
         StoresOnly(cpu, c, {}) /\ c.cpsr = cpu.cpsr /\ Held(c)
<1> DEFINE f == FetchedNext(Begun(slow))
           d == [f EXCEPT !.contents = contents, !.booth = booth]
<1>1. d = Ready(slow, contents, booth)
  BY Zenon DEF Ready
<1>2. d.cpsr = cpu.cpsr /\ Held(d)
  <2> HIDE DEF d
  <2>1. QED
    BY <1>1, ReadyFed, Zenon DEF Fed
<1>3. StoresOnly(cpu, f, {}) /\ Shaped(f)
  BY FetchStores, Zenon DEF StoresOnly
<1> HIDE DEF f
<1>4. /\ d.cpsr = f.cpsr /\ d.pSpsr = f.pSpsr /\ d.spsr = f.spsr /\ d.bank = f.bank
      /\ d.reg = f.reg /\ DOMAIN d = DOMAIN f /\ d.conflict = f.conflict
  BY <1>3, ShapedFields
<1> HIDE DEF d
<1>5. Shaped(d)
  BY <1>3, <1>4 DEF Shaped
<1>6. StoresOnly(cpu, d, {})
  BY <1>3, <1>4, <1>5, StoresNext
<1>7. QED
  BY <1>1, <1>2, <1>6, Zenon

\* and so does an instruction that is skipped; an interrupt is an exception.
LEMMA AsidesWrite ==
  ASSUME Settled(cpu), Selected(cpu), NEW slow
  PROVE  /\ Writes(cpu, Ended(Skipped(FetchedNext(Begun(slow)))), "none", {})
         /\ Trapped(cpu, Ended(Interrupted(Begun(slow))), "irq")
<1>1. Writes(cpu, Ended(Skipped(FetchedNext(Begun(slow)))), "none", {})
  <2> DEFINE f == FetchedNext(Begun(slow))
             g == Skipped(f)
  <2>1. StoresOnly(cpu, f, {})
    BY FetchStores, Zenon
  <2> HIDE DEF f
  <2>2. StoresOnly(cpu, g, {})
    BY <2>1, StoresAside, Zenon DEF Skipped
  <2> HIDE DEF g
  <2>3. Writes(cpu, g, BankOf(cpu.cpsr.mode), {})
    BY <2>2, StoresWrite, Zenon
  <2>4. Reached(cpu, BankOf(cpu.cpsr.mode), {}) = Reached(cpu, "none", {})
    BY DEF Reached
  <2>5. Writes(cpu, g, "none", {}) /\ Shaped(g)
    BY <2>3, <2>4, Zenon DEF Writes
  <2>6. Writes(cpu, Ended(g), "none", {})
    BY <2>5, EndedWrites, Zenon
  <2>7. QED
    BY <2>6, Zenon DEF f, g
<1>2. Trapped(cpu, Ended(Interrupted(Begun(slow))), "irq")
  <2> DEFINE b == Begun(slow)
             c == Code(b, b.reg[15], b.cpsr.t)
             link == IF b.cpsr.t THEN b.reg[15] ELSE Wrap(b.reg[15] - 4)
             d == Interrupted(b)
  <2>1. StoresOnly(cpu, b, {}) /\ b.cpsr = cpu.cpsr
    BY FetchStores, Zenon
  <2> HIDE DEF b
  <2>2. StoresOnly(cpu, c, {}) /\ Shaped(c) /\ c.cpsr = cpu.cpsr
    <3>1. StoresOnly(cpu, c, {})
      BY <2>1, StoresBus, Zenon DEF Code
    <3>2. Shaped(b)
      BY <2>1, Zenon DEF StoresOnly
    <3>3. c.cpsr = b.cpsr
      BY <3>2, ShapedFields DEF Code, Touch
    <3>4. QED
      BY <2>1, <3>1, <3>3, Zenon DEF StoresOnly
  <2>3. d = Jump(SetReg([Enter(c, "irq") EXCEPT !.cpsr.t = FALSE], 14, link), 24, FALSE)
    BY Zenon DEF Interrupted
  <2> HIDE DEF c, link, d
  <2>4. Selected(c)
    BY <2>2, FromThere, Zenon
  <2>5. Trapped(c, d, "irq")
    BY <2>2, <2>3, <2>4, HandlersTrap, Zenon
  <2>6. Trapped(cpu, d, "irq") /\ Shaped(d)
    BY <2>2, <2>5, FromThere, Zenon DEF Trapped
  <2>7. Trapped(cpu, Ended(d), "irq")
    BY <2>6, EndedWrites, Zenon
  <2>8. QED
    BY <2>7, Zenon DEF b, d
<1>3. QED
  BY <1>1, <1>2, Zenon

\* The line of the interrupt controller is no register, and what is loaded has
\* the registers that were saved.
LEMMA LineAndLoad ==
  ASSUME Settled(cpu), Selected(cpu), Settled(saved.cpu)
  PROVE  /\ \A v : Writes(cpu, [cpu EXCEPT !.irqLine = v], "none", {})
         /\ File(Restored(saved.cpu)) = File(saved.cpu) /\ Selected(Restored(saved.cpu))
<1>1. Shaped(cpu) /\ Shaped(saved.cpu)
  BY SettledParts, HeldShaped, Zenon DEF Held
<1>2. ASSUME NEW v PROVE Writes(cpu, [cpu EXCEPT !.irqLine = v], "none", {})
  <2> DEFINE d == [cpu EXCEPT !.irqLine = v]
  <2>1. /\ d.cpsr = cpu.cpsr /\ d.pSpsr = cpu.pSpsr /\ d.spsr = cpu.spsr /\ d.bank = cpu.bank
        /\ d.reg = cpu.reg /\ DOMAIN d = DOMAIN cpu /\ d.conflict = cpu.conflict
    BY <1>1, ShapedFields
  <2> HIDE DEF d
  <2>2. Shaped(d)
    BY <1>1, <2>1 DEF Shaped
  <2>3. File(d) = File(cpu)
    BY <2>1, SameFile, Zenon
  <2>4. Selected(d)
    BY <2>1, Zenon DEF Selected
  <2>5. Writes(cpu, d, "none", {})
    BY <2>2, <2>3, <2>4, Zenon DEF Writes, AgreeOutside
  <2>6. QED
    BY <2>5, Zenon DEF d
<1>3. File(Restored(saved.cpu)) = File(saved.cpu) /\ Selected(Restored(saved.cpu))
  <2> DEFINE c == saved.cpu
             d == Restored(c)
  <2> HIDE DEF c
  <2>1. /\ d.cpsr = c.cpsr /\ d.pSpsr = BankOf(c.cpsr.mode) /\ d.spsr = c.spsr /\ d.bank = c.bank
        /\ d.reg = c.reg
    BY <1>1, ShapedFields DEF Restored, c
  <2> HIDE DEF d
  <2>2. File(d) = File(c)
    BY <2>1, SameFile, Zenon
  <2>3. Selected(d)
    BY <2>1, Zenon DEF Selected
  <2>4. QED
    BY <2>2, <2>3, Zenon DEF c, d
<1>4. QED
  BY <1>2, <1>3, Zenon

\* The promise is made in the terms of Banks, as the CPU is.
LEMMA PromiseIs ==
  /\ F!Slots = Slots /\ F!SavedStatus = SavedStatus
  /\ \A mode : F!BankOf(mode) = BankOf(mode)
  /\ \A bank, r : F!Slot(bank, r) = Slot(bank, r)
<1>1. F!Slots = Slots /\ F!SavedStatus = SavedStatus
  BY DEF F!Slots, Slots, F!RealBank, RealBank, F!Bank, Bank, F!SavedStatus, SavedStatus
<1>2. \A mode : F!BankOf(mode) = BankOf(mode)
  BY DEF F!BankOf, BankOf, F!ModeNumber, ModeNumber
<1>3. \A bank, r : F!Slot(bank, r) = Slot(bank, r)
  BY <1>1 DEF F!Slot, Slot
<1>4. QED
  BY <1>1, <1>2, <1>3, Zenon

\* A CPU that writes is an instruction of the promise,
LEMMA InstructionKept ==
  ASSUME ran'.kind = "instruction", saved' = saved,
         Writes(cpu, cpu', ran'.bank, Named(ran'.instr))
  PROVE  F!Next
<1> DEFINE bank == ran'.bank
           R == Named(ran'.instr)
           W == Reached(cpu, bank, R) \cup Lost(cpu'.cpsr.mode)
<1>1. \A s \in Slots \ W : File(cpu')[s] = File(cpu)[s]
  BY Zenon DEF Writes, AgreeOutside
<1>2. F!Reach(bank, R) = Reached(cpu, bank, R)
  <2> HIDE DEF bank, R
  <2>1. QED
    BY PromiseIs DEF F!Reach, Reached
<1>3. F!Destroyed = Lost(cpu'.cpsr.mode)
  BY PromiseIs DEF F!Destroyed, Lost
<1>4. F!OnlyWrites(R)
  <2> HIDE DEF R
  <2>1. QED
    BY <1>1, <1>2, <1>3, PromiseIs, Zenon DEF F!OnlyWrites
<1>5. QED
  BY <1>4, Zenon DEF F!Instruction, F!Next

\* and one that traps is an exception.
LEMMA ExceptionKept ==
  ASSUME ran'.kind = "exception", saved' = saved, Trapped(cpu, cpu', ran'.bank)
  PROVE  F!Next
<1> DEFINE bank == ran'.bank
           R == {14, SavedStatus}
<1>1. \A s \in Slots \ Reached(cpu, bank, R) : File(cpu')[s] = File(cpu)[s]
  BY Zenon DEF Trapped, AgreeOutside
<1>2. F!Reach(bank, R) = Reached(cpu, bank, R)
  <2> HIDE DEF bank, R
  <2>1. QED
    BY PromiseIs DEF F!Reach, Reached
<1>3. F!OnlyWrites(R)
  <2> HIDE DEF R
  <2>1. QED
    BY <1>1, <1>2, PromiseIs, Zenon DEF F!OnlyWrites
<1>4. F!BankOf(cpu'.cpsr.mode) = bank /\ File(cpu')[<<bank, SavedStatus>>] = PSRWord(cpu.cpsr)
  BY PromiseIs, Zenon DEF Trapped
<1>5. QED
  BY <1>3, <1>4, PromiseIs, Zenon DEF F!Exception, F!Next

\* The inductive invariant: what the handlers rely on, and a saved status that
\* is the one of the mode the CPU is in.
BanksInv == CpuInv /\ Selected(cpu)

\* Every step is one of the promise, and keeps it.
LEMMA StepsKeepPromise ==
  ASSUME BanksInv, CpuNext
  PROVE  F!Next /\ Selected(cpu')
<1>1. /\ Settled(cpu) /\ Settled(saved.cpu) /\ Selected(cpu) /\ scenario \in DOMAIN Scenario
  BY Zenon DEF BanksInv, CpuInv
<1> DEFINE Goal == F!Next /\ Selected(cpu')
<1>2. ASSUME ran' = Event("instruction", "none"), saved' = saved, Writes(cpu, cpu', "none", {})
      PROVE  Goal
  <2>1. ran'.kind = "instruction" /\ ran'.bank = "none" /\ Named(ran'.instr) = {}
    <3>1. ran'.kind = "instruction" /\ ran'.bank = "none" /\ ran'.instr = NoInstr
      BY <1>2 DEF Event
    <3>2. NoInstr.op = "none"
      BY DEF NoInstr
    <3>3. QED
      BY <3>1, <3>2, NamedIs
  <2>2. QED
    BY <1>2, <2>1, InstructionKept, Zenon DEF Writes
<1>3. ASSUME NEW v \in BOOLEAN, SetIRQLine(v) PROVE Goal
  <2>1. /\ cpu' = [cpu EXCEPT !.irqLine = v] /\ saved' = saved
        /\ ran' = Event("instruction", "none")
    BY <1>3 DEF SetIRQLine
  <2>2. QED
    BY <1>1, <1>2, <2>1, LineAndLoad, Zenon
<1>4. ASSUME NEW slow \in Bounds.waits, SignalIRQ(slow) PROVE Goal
  <2>1. cpu' = Ended(Interrupted(Begun(slow))) /\ saved' = saved /\ ran' = Event("exception", "irq")
    BY <1>4 DEF SignalIRQ
  <2>2. Trapped(cpu, cpu', "irq")
    BY <1>1, <2>1, AsidesWrite, Zenon
  <2>3. ran'.kind = "exception" /\ ran'.bank = "irq"
    BY <2>1 DEF Event
  <2>4. QED
    BY <2>1, <2>2, <2>3, ExceptionKept, Zenon DEF Trapped
<1>5. ASSUME NEW slow \in Bounds.waits, NEW cond, Skip(cond, slow) PROVE Goal
  <2>1. /\ cpu' = Ended(Skipped(FetchedNext(Begun(slow)))) /\ saved' = saved
        /\ ran' = Event("instruction", "none")
    BY <1>5 DEF Skip, Running
  <2>2. Writes(cpu, cpu', "none", {})
    BY <1>1, <2>1, AsidesWrite, Zenon
  <2>3. QED
    BY <1>2, <2>1, <2>2, Zenon
<1>6. ASSUME NEW contents \in Bounds.contents
      PROVE  contents \in Int
  BY <1>1, ScenarioAssumption, Zenon DEF Bounds
<1>7. ASSUME NEW slow, NEW contents \in Bounds.contents, NEW booth
      PROVE  LET c == Ready(slow, contents, booth) IN
             /\ Held(c) /\ Selected(c)
             /\ \A i : NamedBank(c, i) = NamedBank(cpu, i)
             /\ \A d, bank, R : Writes(c, d, bank, R) => Writes(cpu, Ended(d), bank, R)
             /\ \A d, name : Trapped(c, d, name) => Trapped(cpu, Ended(d), name)
  <2> DEFINE c == Ready(slow, contents, booth)
  <2>1. StoresOnly(cpu, c, {}) /\ c.cpsr = cpu.cpsr /\ Held(c)
    BY <1>1, <1>6, ReadyStores, Zenon
  <2> HIDE DEF c
  <2>2. /\ Selected(c)
        /\ \A d, bank, R : Writes(c, d, bank, R) => Writes(cpu, d, bank, R)
        /\ \A d, name : Trapped(c, d, name) => Trapped(cpu, d, name)
    BY <1>1, <2>1, FromThere, Zenon
  <2>3. \A d, bank, R : Writes(c, d, bank, R) => Writes(cpu, Ended(d), bank, R)
    BY <2>2, EndedWrites, Zenon DEF Writes
  <2>4. \A d, name : Trapped(c, d, name) => Trapped(cpu, Ended(d), name)
    BY <2>2, EndedWrites, Zenon DEF Trapped
  <2>5. \A i : NamedBank(c, i) = NamedBank(cpu, i)
    BY <2>1, Zenon DEF NamedBank, UserTransfer
  <2>6. QED
    BY <2>1, <2>2, <2>3, <2>4, <2>5, Zenon DEF c
<1>8. ASSUME NEW i, ran' = Ran(i), saved' = saved,
             ~Traps(i) => Writes(cpu, cpu', NamedBank(cpu, i), Named(i)),
             Traps(i) => Trapped(cpu, cpu', TrapBank(i))
      PROVE  Goal
  <2>1. CASE Traps(i)
    <3>1. ran'.kind = "exception" /\ ran'.bank = TrapBank(i)
      BY <1>8, <2>1 DEF Ran
    <3>2. QED
      BY <1>8, <2>1, <3>1, ExceptionKept, Zenon DEF Trapped
  <2>2. CASE ~Traps(i)
    <3>1. ran'.kind = "instruction" /\ ran'.bank = NamedBank(cpu, i) /\ ran'.instr = i
      BY <1>8, <2>2 DEF Ran
    <3>2. QED
      BY <1>8, <2>2, <3>1, InstructionKept, Zenon DEF Writes
  <2>3. QED
    BY <2>1, <2>2, Zenon
<1>9. ASSUME NEW slow \in Bounds.waits, NEW contents \in Bounds.contents, NEW booth \in Bounds.booth,
             NEW i \in Bounds.arm, RunArm(i, slow, contents, booth)
      PROVE  Goal
  <2> DEFINE c == Ready(slow, contents, booth)
             d == ArmHandler(c, i)
  <2>1. cpu' = Ended(d) /\ saved' = saved /\ ran' = Ran(i) /\ Predictable(c, i)
    BY <1>9 DEF RunArm, Running
  <2>2. ArmEncoding(i)
    BY <1>1, ScenarioAssumption, Zenon DEF Bounds
  <2>3. /\ Held(c) /\ Selected(c) /\ NamedBank(c, i) = NamedBank(cpu, i)
        /\ \A x, bank, R : Writes(c, x, bank, R) => Writes(cpu, Ended(x), bank, R)
        /\ \A x, name : Trapped(c, x, name) => Trapped(cpu, Ended(x), name)
    BY <1>7, Zenon
  <2> HIDE DEF c
  <2>4. ~Traps(i) => Writes(c, d, NamedBank(cpu, i), Named(i))
    BY <2>1, <2>2, <2>3, ArmWrites, Zenon
  <2>5. Traps(i) => Trapped(c, d, TrapBank(i))
    BY <2>2, <2>3, TrapsTrap, Zenon
  <2> HIDE DEF d
  <2>6. QED
    BY <1>8, <2>1, <2>3, <2>4, <2>5, Zenon
<1>10. ASSUME NEW slow \in Bounds.waits, NEW contents \in Bounds.contents, NEW booth \in Bounds.booth,
              NEW i \in Bounds.thumb, RunThumb(i, slow, contents, booth)
       PROVE  Goal
  <2> DEFINE c == Ready(slow, contents, booth)
             d == ThumbHandler(c, i)
  <2>1. cpu' = Ended(d) /\ saved' = saved /\ ran' = Ran(i)
    BY <1>10 DEF RunThumb, Running
  <2>2. ThumbEncoding(i)
    BY <1>1, ScenarioAssumption, Zenon DEF Bounds
  <2>3. /\ Held(c) /\ Selected(c) /\ NamedBank(c, i) = NamedBank(cpu, i)
        /\ \A x, bank, R : Writes(c, x, bank, R) => Writes(cpu, Ended(x), bank, R)
        /\ \A x, name : Trapped(c, x, name) => Trapped(cpu, Ended(x), name)
    BY <1>7, Zenon
  <2> HIDE DEF c
  <2>4. ~Traps(i) => Writes(c, d, NamedBank(cpu, i), Named(i))
    BY <2>2, <2>3, ThumbWrites, Zenon
  <2>5. Traps(i) => Trapped(c, d, TrapBank(i))
    BY <2>2, <2>3, TrapsTrap, Zenon
  <2> HIDE DEF d
  <2>6. QED
    BY <1>8, <2>1, <2>3, <2>4, <2>5, Zenon
<1>11. ASSUME CopyState PROVE Goal
  <2>1. cpu' = cpu /\ saved'.cpu = cpu /\ ran'.kind = "save"
    BY <1>11 DEF CopyState, Event
  <2>2. F!Save
    BY <2>1, Zenon DEF F!Save
  <2>3. QED
    BY <1>1, <2>1, <2>2, Zenon DEF F!Next
<1>12. ASSUME LoadState PROVE Goal
  <2>1. cpu' = Restored(saved.cpu) /\ saved' = saved /\ ran'.kind = "load"
    BY <1>12 DEF LoadState, Event
  <2>2. File(cpu') = File(saved.cpu) /\ Selected(cpu')
    BY <1>1, <2>1, LineAndLoad, Zenon
  <2>3. F!Load
    BY <2>1, <2>2, Zenon DEF F!Load
  <2>4. QED
    BY <2>2, <2>3, Zenon DEF F!Next
<1>13. ASSUME Reset PROVE Goal
  <2>1. cpu' = ResetState /\ saved' = saved /\ ran'.kind = "reset"
    BY <1>13 DEF Reset, Event
  <2>2. ResetState.pSpsr = "svc" /\ ResetState.cpsr.mode = ModeNumber.svc
    BY PSRFields DEF ResetState
  <2>3. BankOf(ModeNumber.svc) = "svc"
    BY BanksAre
  <2>4. Selected(cpu')
    BY <2>1, <2>2, <2>3, Zenon DEF Selected
  <2>5. QED
    BY <2>1, <2>4, Zenon DEF F!Reset, F!Next
<1> HIDE DEF Goal
<1>14. Goal
  BY <1>3, <1>4, <1>5, <1>9, <1>10, <1>11, <1>12, <1>13, Zenon DEF CpuNext
<1>15. QED
  BY <1>14, Zenon DEF Goal

\* Banking loses nothing and mixes nothing up: of the registers of all modes, in
\* one flat file, every instruction of either state changes those it names, in
\* the bank of its mode or the user's, every exception its own r14 and saved
\* status, and a load brings back what was saved, through whatever changes of
\* mode, for words of any width and any scenario (SwitchMode, GetReg, SetReg, the
\* handlers of handler16.go and handler32.go, CopyState and LoadState).
THEOREM BankingIsFlat == CpuSpec => ImplementsRegisters
<1>1. CpuInit => BanksInv
  <2>1. ASSUME CpuInit PROVE Selected(cpu)
    BY <2>1, ScenarioAssumption, Zenon DEF CpuInit, Selected
  <2>2. QED
    BY <2>1, CpuStarts, Zenon DEF BanksInv
<1>2. BanksInv /\ [CpuNext]_cpuVars => BanksInv'
  <2>1. ASSUME BanksInv, CpuNext PROVE Selected(cpu')
    BY <2>1, StepsKeepPromise
  <2>2. ASSUME BanksInv, UNCHANGED cpuVars PROVE Selected(cpu')
    BY <2>2 DEF cpuVars, BanksInv, Selected
  <2>3. QED
    BY <2>1, <2>2, CpuGoesOn, Zenon DEF BanksInv
<1>3. BanksInv /\ [CpuNext]_cpuVars => [F!Next]_(F!vars)
  <2>1. ASSUME BanksInv, CpuNext PROVE F!Next
    BY <2>1, StepsKeepPromise
  <2>2. ASSUME UNCHANGED cpuVars PROVE UNCHANGED F!vars
    BY <2>2 DEF cpuVars, F!vars
  <2>3. QED
    BY <2>1, <2>2, Zenon
<1>4. F!Init
  BY DEF F!Init
<1>5. QED
  BY <1>1, <1>2, <1>3, <1>4, PTL DEF CpuSpec, ImplementsRegisters, F!Spec
=============================================================================
