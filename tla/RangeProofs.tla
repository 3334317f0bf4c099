----------------------------- MODULE RangeProofs -----------------------------
(***************************************************************************)
(* Proofs about AddressRanges, for every width of the numbers: 32, 128 and *)
(* 16 bits in the code.                                                    *)
(*                                                                         *)
(* The provers know nothing of powers of two.  What is needed of them is   *)
(* derived from the number of subsets of a finite set (PowDoubles); the    *)
(* rest is arithmetic on quotients and remainders, and each induction on   *)
(* a number of bits is a least counterexample.                             *)
(***************************************************************************)
EXTENDS AddressRanges, FiniteSetTheorems, WellFoundedInduction, TLAPS

Bit(n, i) == (n \div 2^i) % 2

LEMMA LeastNatural ==
    ASSUME NEW T \in SUBSET Nat, T # {}
    PROVE  \E m \in T : \A k \in T : m <= k
<1>1. PICK m \in T : \A k \in T : ~(<<k, m>> \in OpToRel(<, Nat))
  BY WFMin, NatLessThanWellFounded
<1>2. \A k \in T : ~(k < m)
  BY <1>1 DEF OpToRel
<1>3. QED
  BY <1>2

(***************************************************************************)
(* Powers of two.                                                          *)
(***************************************************************************)
LEMMA SubsetsCounted ==
    ASSUME NEW n \in Nat
    PROVE  /\ IsFiniteSet(SUBSET (1 .. n)) /\ Cardinality(SUBSET (1 .. n)) = 2^n
           /\ 2^n \in Nat
<1>1. IsFiniteSet(1 .. n) /\ Cardinality(1 .. n) = n
  BY FS_Interval
<1>2. IsFiniteSet(SUBSET (1 .. n)) /\ Cardinality(SUBSET (1 .. n)) = 2^n
  BY <1>1, FS_SUBSET
<1>3. QED
  BY <1>2, FS_CardinalityType

\* The subsets of n + 1 elements: those without the last one, and as many with it.
LEMMA PowDoubles ==
    ASSUME NEW n \in Nat
    PROVE  2^(n + 1) = 2 * 2^n
<1> DEFINE S == SUBSET (1 .. n)
           T == {s \cup {n + 1} : s \in S}
           f == [s \in S |-> s \cup {n + 1}]
<1>1. IsFiniteSet(S) /\ Cardinality(S) = 2^n /\ 2^n \in Nat
  BY SubsetsCounted
<1>2. Cardinality(SUBSET (1 .. (n + 1))) = 2^(n + 1)
  BY SubsetsCounted
<1>3. \A s \in S : n + 1 \notin s
  OBVIOUS
<1>4. f \in Bijection(S, T)
  <2>1. \A a, b \in S : f[a] = f[b] => a = b
    BY <1>3
  <2>2. f \in [S -> T] /\ \A t \in T : \E s \in S : f[s] = t
    OBVIOUS
  <2>3. QED
    BY <2>1, <2>2 DEF Bijection, Injection, Surjection, IsInjective
<1>5. IsFiniteSet(T) /\ Cardinality(T) = Cardinality(S)
  BY <1>1, <1>4, FS_Bijection DEF ExistsBijection
<1>6. S \cap T = {}
  BY <1>3
<1>7. S \cup T = SUBSET (1 .. (n + 1))
  <2>1. S \cup T \subseteq SUBSET (1 .. (n + 1))
    <3>1. \A s \in S : s \subseteq 1 .. (n + 1) /\ s \cup {n + 1} \subseteq 1 .. (n + 1)
      OBVIOUS
    <3>2. QED
      BY <3>1
  <2>2. ASSUME NEW s \in SUBSET (1 .. (n + 1)), n + 1 \notin s
        PROVE  s \in S
    BY <2>2
  <2>3. ASSUME NEW s \in SUBSET (1 .. (n + 1)), n + 1 \in s
        PROVE  s \in T
    <3>1. s \ {n + 1} \in S
      OBVIOUS
    <3>2. s = (s \ {n + 1}) \cup {n + 1}
      BY <2>3
    <3>3. QED
      BY <3>1, <3>2
  <2>4. QED
    BY <2>1, <2>2, <2>3
<1> HIDE DEF S, T
<1>8. Cardinality(S \cup T) = Cardinality(S) + Cardinality(T) - Cardinality(S \cap T)
  BY <1>1, <1>5, FS_Union
<1>9. Cardinality(S \cap T) = 0
  BY <1>6, FS_EmptySet
<1>10. Cardinality(S \cup T) = 2^(n + 1)
  BY <1>2, <1>7
<1>11. Cardinality(S \cup T) = 2^n + 2^n - 0
  BY <1>1, <1>5, <1>8, <1>9
<1>12. \A x \in Nat : x + x - 0 = 2 * x
  OBVIOUS
<1>13. 2^n + 2^n - 0 = 2 * 2^n
  BY <1>1, <1>12
<1>14. QED
  BY <1>10, <1>11, <1>13

LEMMA PowPositive ==
    ASSUME NEW n \in Nat
    PROVE  2^n \in Nat \ {0}
<1> DEFINE T == {m \in Nat : 2^m = 0}
<1>1. \A m \in Nat : 2^m \in Nat
  BY SubsetsCounted
<1>2. SUFFICES ASSUME T # {} PROVE FALSE
  BY <1>1
<1>3. PICK m \in T : \A k \in T : m <= k
  BY <1>2, LeastNatural
<1>4. CASE m = 0
  BY <1>4
<1>5. CASE m # 0
  <2>1. m - 1 \in Nat /\ m = (m - 1) + 1
    BY <1>5
  <2>2. 2^m = 2 * 2^(m - 1)
    BY <2>1, PowDoubles
  <2>3. 2^(m - 1) = 0
    BY <2>1, <2>2, <1>1
  <2>4. QED
    BY <2>1, <2>3, <1>3
<1>6. QED
  BY <1>4, <1>5

LEMMA PowAdds ==
    ASSUME NEW a \in Nat, NEW b \in Nat
    PROVE  2^(a + b) = 2^a * 2^b
<1> DEFINE T == {m \in Nat : 2^(a + m) # 2^a * 2^m}
<1>1. SUFFICES ASSUME T # {} PROVE FALSE
  OBVIOUS
<1>2. PICK m \in T : \A k \in T : m <= k
  BY <1>1, LeastNatural
<1>3. 2^a \in Nat
  BY PowPositive
<1>4. CASE m = 0
  <2>1. a + m = a /\ 2^m = 1
    BY <1>4
  <2>2. QED
    BY <2>1, <1>3
<1>5. CASE m # 0
  <2>1. m - 1 \in Nat /\ m = (m - 1) + 1 /\ a + m = (a + (m - 1)) + 1 /\ a + (m - 1) \in Nat
    BY <1>5
  <2>2. 2^(a + (m - 1)) = 2^a * 2^(m - 1)
    BY <2>1, <1>2
  <2>3. 2^(a + m) = 2 * 2^(a + (m - 1)) /\ 2^m = 2 * 2^(m - 1)
    BY <2>1, PowDoubles
  <2>4. 2^(m - 1) \in Nat
    BY <2>1, PowPositive
  <2>5. \A x, y \in Nat : 2 * (x * y) = x * (2 * y)
    OBVIOUS
  <2>6. QED
    BY <2>2, <2>3, <2>4, <2>5, <1>3
<1>6. QED
  BY <1>4, <1>5

\* The smaller power divides the larger one.
LEMMA PowSplits ==
    ASSUME NEW n \in Nat, NEW m \in 0 .. n
    PROVE  /\ n - m \in Nat /\ 2^n = 2^m * 2^(n - m)
           /\ 2^n \in Nat \ {0} /\ 2^m \in Nat \ {0} /\ 2^(n - m) \in Nat \ {0}
<1>1. m \in Nat /\ n - m \in Nat /\ n = m + (n - m)
  OBVIOUS
<1>2. QED
  BY <1>1, PowAdds, PowPositive

LEMMA PowGrows ==
    ASSUME NEW n \in Nat, NEW m \in 0 .. n
    PROVE  2^m <= 2^n /\ (m < n => 2 * 2^m <= 2^n)
<1>1. 2^n = 2^m * 2^(n - m) /\ 2^n \in Nat \ {0} /\ 2^m \in Nat \ {0} /\ 2^(n - m) \in Nat \ {0}
  BY PowSplits
<1>2. \A x, y \in Nat \ {0} : x <= x * y
  OBVIOUS
<1>3. 2^m <= 2^n
  BY <1>1, <1>2
<1>4. ASSUME m < n PROVE 2 * 2^m <= 2^n
  <2>1. m + 1 \in 0 .. n
    BY <1>4
  <2>2. 2^(m + 1) <= 2^n
    <3>1. 2^n = 2^(m + 1) * 2^(n - (m + 1)) /\ 2^(m + 1) \in Nat \ {0} /\ 2^(n - (m + 1)) \in Nat \ {0}
      BY <2>1, PowSplits
    <3>2. QED
      BY <3>1, <1>2
  <2>3. QED
    BY <2>2, PowDoubles
<1>5. QED
  BY <1>3, <1>4

(***************************************************************************)
(* Quotients and remainders.                                               *)
(***************************************************************************)
LEMMA Division ==
    ASSUME NEW n \in Nat, NEW d \in Nat \ {0}
    PROVE  n = d * (n \div d) + (n % d) /\ n % d \in 0 .. (d - 1) /\ n \div d \in Nat
OBVIOUS

LEMMA DivisionIs ==
    ASSUME NEW d \in Nat \ {0}, NEW q \in Nat, NEW r \in 0 .. (d - 1)
    PROVE  (d * q + r) \div d = q /\ (d * q + r) % d = r
OBVIOUS

(***************************************************************************)
(* Bits.                                                                   *)
(***************************************************************************)
LEMMA BitIsBit ==
    ASSUME NEW n \in Nat, NEW i \in Nat
    PROVE  Bit(n, i) \in {0, 1}
<1>1. 2^i \in Nat \ {0}
  BY PowPositive
<1>2. n \div 2^i \in Nat
  BY <1>1, Division
<1>3. \A x \in Nat : x % 2 \in {0, 1}
  OBVIOUS
<1>4. QED
  BY <1>2, <1>3 DEF Bit

\* The bits below m are those of the remainder.
LEMMA BitsOfRemainder ==
    ASSUME NEW n \in Nat, NEW m \in Nat, NEW j \in 0 .. (m - 1)
    PROVE  Bit(n, j) = Bit(n % 2^m, j)
<1> DEFINE P == 2^m
           J == 2^j
           K == 2^(m - (j + 1))
           h == n \div P
           l == n % P
           q == l \div J
           r == l % J
<1>1. P = J * (2 * K) /\ P \in Nat \ {0} /\ J \in Nat \ {0} /\ K \in Nat \ {0}
  <2>1. j \in 0 .. m /\ m - j = (m - (j + 1)) + 1 /\ m - (j + 1) \in Nat /\ j \in Nat
    OBVIOUS
  <2>2. P = J * 2^(m - j) /\ P \in Nat \ {0} /\ J \in Nat \ {0}
    BY <2>1, PowSplits
  <2>3. 2^(m - j) = 2 * K
    BY <2>1, PowDoubles
  <2>4. QED
    BY <2>1, <2>2, <2>3, PowPositive
<1> HIDE DEF P, J, K
<1>2. n = P * h + l /\ l \in Nat /\ h \in Nat
  <2>1. P \in Nat \ {0}
    BY <1>1
  <2>2. n = P * (n \div P) + (n % P) /\ n % P \in 0 .. (P - 1) /\ n \div P \in Nat
    BY <2>1, Division
  <2>3. QED
    BY <2>1, <2>2
<1> HIDE DEF h, l
<1>3. l = J * q + r /\ r \in 0 .. (J - 1) /\ q \in Nat
  <2>1. J \in Nat \ {0} /\ l \in Nat
    BY <1>1, <1>2
  <2>2. QED
    BY <2>1, Division
<1>4. l \div J = q
  OBVIOUS
<1> HIDE DEF q, r
<1>5. n = J * (2 * (K * h) + q) + r
  BY <1>1, <1>2, <1>3
<1>6. K * h \in Nat
  BY <1>1, <1>2
<1>7. n \div J = 2 * (K * h) + q
  <2>1. 2 * (K * h) + q \in Nat
    BY <1>3, <1>6
  <2>2. QED
    BY <1>1, <1>3, <1>5, <2>1, DivisionIs
<1>8. (2 * (K * h) + q) % 2 = q % 2
  BY <1>3, <1>6
<1>9. QED
  BY <1>4, <1>7, <1>8 DEF Bit, J, l, P

\* One more bit of a remainder.
LEMMA RemainderStep ==
    ASSUME NEW n \in Nat, NEW m \in Nat
    PROVE  n % 2^(m + 1) = (n % 2^m) + Bit(n, m) * 2^m
<1> DEFINE P == 2^m
           h == n \div P
           l == n % P
           q == h \div 2
           b == h % 2
<1>1. P \in Nat \ {0} /\ 2^(m + 1) = 2 * P
  BY PowPositive, PowDoubles
<1> HIDE DEF P
<1>2. n = P * h + l /\ l \in 0 .. (P - 1) /\ h \in Nat
  <2>1. n = P * (n \div P) + (n % P) /\ n % P \in 0 .. (P - 1) /\ n \div P \in Nat
    BY <1>1, Division
  <2>2. QED
    BY <2>1
<1> HIDE DEF h, l
<1>3. h = 2 * q + b /\ b \in 0 .. 1 /\ q \in Nat
  BY <1>2
<1>4. b = Bit(n, m)
  BY DEF b, h, P, Bit
<1> HIDE DEF q, b
<1>5. n = (2 * P) * q + (l + b * P)
  BY <1>1, <1>2, <1>3
<1>6. l + b * P \in 0 .. (2 * P - 1)
  <2>1. b = 0 \/ b = 1
    BY <1>3
  <2>2. QED
    BY <2>1, <1>1, <1>2
<1>7. 2 * P \in Nat \ {0}
  BY <1>1
<1>8. n % (2 * P) = l + b * P
  BY <1>3, <1>5, <1>6, <1>7, DivisionIs
<1>9. QED
  BY <1>1, <1>4, <1>8 DEF l, P

\* A remainder is zero exactly if all its bits are.
LEMMA ZeroBits ==
    ASSUME NEW n \in Nat, NEW m \in Nat
    PROVE  n % 2^m = 0 <=> \A j \in 0 .. (m - 1) : Bit(n, j) = 0
<1>1. ASSUME n % 2^m = 0, NEW j \in 0 .. (m - 1)
      PROVE  Bit(n, j) = 0
  <2>1. Bit(n, j) = Bit(0, j)
    BY <1>1, BitsOfRemainder
  <2>2. 2^j \in Nat \ {0}
    BY PowPositive
  <2>3. 0 \div 2^j = 0
    BY <2>2
  <2>4. Bit(0, j) = 0 % 2
    BY <2>3 DEF Bit
  <2>5. 0 % 2 = 0
    OBVIOUS
  <2>6. QED
    BY <2>1, <2>4, <2>5
<1>2. ASSUME \A j \in 0 .. (m - 1) : Bit(n, j) = 0, n % 2^m # 0
      PROVE  FALSE
  <2> DEFINE T == {k \in 0 .. m : n % 2^k # 0}
  <2>1. T # {} /\ T \in SUBSET Nat
    BY <1>2
  <2>2. PICK k \in T : \A i \in T : k <= i
    <3> HIDE DEF T
    <3>1. QED
      BY <2>1, LeastNatural
  <2>3. k # 0
    <3>1. 2^0 = 1
      OBVIOUS
    <3>2. n % 1 = 0
      OBVIOUS
    <3>3. QED
      BY <2>2, <3>1, <3>2
  <2>4. k - 1 \in 0 .. (m - 1) /\ k = (k - 1) + 1 /\ k - 1 \in Nat
    BY <2>2, <2>3
  <2>5. n % 2^(k - 1) = 0
    BY <2>2, <2>4
  <2>6. n % 2^k = (n % 2^(k - 1)) + Bit(n, k - 1) * 2^(k - 1)
    BY <2>4, RemainderStep
  <2>7. 2^(k - 1) \in Nat
    BY <2>4, PowPositive
  <2>8. n % 2^k = 0
    BY <1>2, <2>4, <2>5, <2>6, <2>7
  <2>9. QED
    BY <2>2, <2>8
<1>3. QED
  BY <1>1, <1>2

\* The highest bits of a power of two less a small number are set.
LEMMA TopOnes ==
    ASSUME NEW m \in Nat, NEW j \in 0 .. (m - 1), NEW s \in 1 .. 2^j
    PROVE  2^m - s \in Nat /\ Bit(2^m - s, j) = 1
<1> DEFINE P == 2^m
           J == 2^j
           K == 2^(m - (j + 1))
<1>1. P \in Nat \ {0} /\ J \in Nat \ {0} /\ K \in Nat \ {0} /\ P = J * (2 * K)
  <2>1. j \in 0 .. m /\ m - j = (m - (j + 1)) + 1 /\ m - (j + 1) \in Nat /\ j \in Nat
    OBVIOUS
  <2>2. P = J * 2^(m - j) /\ P \in Nat \ {0} /\ J \in Nat \ {0}
    BY <2>1, PowSplits
  <2>3. 2^(m - j) = 2 * K
    BY <2>1, PowDoubles
  <2>4. QED
    BY <2>1, <2>2, <2>3, PowPositive
<1>2. s \in 1 .. J
  OBVIOUS
<1> HIDE DEF P, J, K
<1>3. P - s = J * (2 * K - 1) + (J - s)
  BY <1>1, <1>2
<1>4. J - s \in 0 .. (J - 1) /\ 2 * K - 1 \in Nat /\ J \in Nat \ {0}
  BY <1>1, <1>2
<1>5. P - s \in Nat
  BY <1>3, <1>4
<1>6. (P - s) \div J = 2 * K - 1
  <2>1. (J * (2 * K - 1) + (J - s)) \div J = 2 * K - 1
    BY <1>4, DivisionIs
  <2>2. QED
    BY <1>3, <2>1
<1>7. (2 * K - 1) % 2 = 1
  <2>1. K \in Nat \ {0}
    BY <1>1
  <2>2. QED
    BY <2>1
<1>8. QED
  BY <1>5, <1>6, <1>7 DEF Bit, P, J

\* A remainder is as large as it can be exactly if all its bits are set.
LEMMA OneBits ==
    ASSUME NEW n \in Nat, NEW m \in Nat
    PROVE  n % 2^m = 2^m - 1 <=> \A j \in 0 .. (m - 1) : Bit(n, j) = 1
<1>1. ASSUME n % 2^m = 2^m - 1, NEW j \in 0 .. (m - 1)
      PROVE  Bit(n, j) = 1
  <2>1. Bit(n, j) = Bit(2^m - 1, j)
    BY <1>1, BitsOfRemainder
  <2>2. 1 \in 1 .. 2^j
    BY PowPositive
  <2>3. QED
    BY <2>1, <2>2, TopOnes
<1>2. ASSUME \A j \in 0 .. (m - 1) : Bit(n, j) = 1, n % 2^m # 2^m - 1
      PROVE  FALSE
  <2> DEFINE T == {k \in 0 .. m : n % 2^k # 2^k - 1}
  <2>1. T # {} /\ T \in SUBSET Nat
    BY <1>2
  <2>2. PICK k \in T : \A i \in T : k <= i
    <3> HIDE DEF T
    <3>1. QED
      BY <2>1, LeastNatural
  <2>3. k # 0
    <3>1. 2^0 = 1
      OBVIOUS
    <3>2. n % 1 = 0
      OBVIOUS
    <3>3. n % 2^0 = 2^0 - 1
      BY <3>1, <3>2
    <3>4. n % 2^k # 2^k - 1
      BY <2>2
    <3>5. QED
      BY <3>3, <3>4
  <2>4. k - 1 \in 0 .. (m - 1) /\ k = (k - 1) + 1 /\ k - 1 \in Nat
    BY <2>2, <2>3
  <2>5. n % 2^(k - 1) = 2^(k - 1) - 1
    BY <2>2, <2>4
  <2>6. n % 2^k = (n % 2^(k - 1)) + Bit(n, k - 1) * 2^(k - 1) /\ 2^k = 2 * 2^(k - 1)
    BY <2>4, RemainderStep, PowDoubles
  <2>7. 2^(k - 1) \in Nat
    BY <2>4, PowPositive
  <2>8. Bit(n, k - 1) = 1
    BY <1>2, <2>4
  <2>9. n % 2^k = 2^k - 1
    BY <2>5, <2>6, <2>7, <2>8
  <2>10. QED
    BY <2>2, <2>9
<1>3. QED
  BY <1>1, <1>2

\* A number is small if its high bits are not set.
LEMMA SmallBits ==
    ASSUME NEW w \in Nat, NEW n \in 0 .. (2^w - 1), NEW m \in 0 .. w
    PROVE  n < 2^m <=> \A j \in m .. (w - 1) : Bit(n, j) = 0
<1>1. 2^w \in Nat /\ n \in Nat
  BY PowPositive
<1>2. ASSUME n < 2^m, NEW j \in m .. (w - 1)
      PROVE  Bit(n, j) = 0
  <2>1. j \in Nat /\ m \in 0 .. j
    OBVIOUS
  <2>2. 2^m <= 2^j /\ 2^j \in Nat \ {0} /\ 2^m \in Nat
    BY <2>1, PowGrows, PowPositive
  <2>3. n \div 2^j = 0
    BY <1>1, <1>2, <2>2
  <2>4. 0 % 2 = 0
    OBVIOUS
  <2>5. QED
    BY <2>3, <2>4 DEF Bit
<1>3. ASSUME \A j \in m .. (w - 1) : Bit(n, j) = 0, ~(n < 2^m)
      PROVE  FALSE
  <2> DEFINE T == {k \in 0 .. w : n < 2^k}
  <2>1. T # {} /\ T \in SUBSET Nat
    <3>1. n < 2^w
      BY <1>1
    <3>2. QED
      BY <3>1
  <2>2. PICK k \in T : \A i \in T : k <= i
    <3> HIDE DEF T
    <3>1. QED
      BY <2>1, LeastNatural
  <2>3. k \in 0 .. w /\ n < 2^k
    OBVIOUS
  <2>4. m < k
    <3>1. CASE k <= m
      <4>1. m \in Nat /\ k \in 0 .. m
        BY <2>3, <3>1
      <4>2. 2^k <= 2^m /\ 2^k \in Nat /\ 2^m \in Nat
        BY <2>3, <4>1, PowGrows, PowPositive
      <4>3. QED
        BY <1>1, <1>3, <2>3, <4>2
    <3>2. QED
      BY <2>3, <3>1
  <2>5. k - 1 \in m .. (w - 1) /\ k - 1 \in Nat /\ k = (k - 1) + 1 /\ k - 1 \in 0 .. w
    BY <2>3, <2>4
  <2>6. ~(n < 2^(k - 1))
    BY <2>2, <2>5
  <2>7. 2^k = 2 * 2^(k - 1) /\ 2^(k - 1) \in Nat \ {0}
    BY <2>5, PowDoubles, PowPositive
  <2>8. n = 2^(k - 1) * 1 + (n - 2^(k - 1)) /\ n - 2^(k - 1) \in 0 .. (2^(k - 1) - 1)
    BY <1>1, <2>3, <2>6, <2>7
  <2>9. n \div 2^(k - 1) = 1
    <3> DEFINE r == n - 2^(k - 1)
    <3>1. (2^(k - 1) * 1 + r) \div 2^(k - 1) = 1
      BY <2>7, <2>8, DivisionIs
    <3>2. QED
      BY <2>8, <3>1
  <2>10. Bit(n, k - 1) = 1
    <3>1. 1 % 2 = 1
      OBVIOUS
    <3>2. QED
      BY <2>9, <3>1 DEF Bit
  <2>11. QED
    BY <1>3, <2>5, <2>10
<1>4. QED
  BY <1>2, <1>3

\* The bits above m are those of the quotient.
LEMMA BitsOfQuotient ==
    ASSUME NEW n \in Nat, NEW p \in Nat, NEW m \in Nat, n \div 2^m = p \div 2^m,
           NEW j \in Nat, m <= j
    PROVE  Bit(n, j) = Bit(p, j)
<1> DEFINE P == 2^m
           K == 2^(j - m)
<1>1. P \in Nat \ {0} /\ K \in Nat \ {0} /\ 2^j = P * K
  <2>1. m \in 0 .. j
    OBVIOUS
  <2>2. QED
    BY <2>1, PowSplits
<1> HIDE DEF P, K
<1>2. ASSUME NEW x \in Nat
      PROVE  x \div (P * K) = (x \div P) \div K
  <2> DEFINE h == x \div P
             l == x % P
             q == h \div K
             r == h % K
  <2>1. P \in Nat \ {0} /\ K \in Nat \ {0}
    BY <1>1
  <2>2. x = P * h + l /\ l \in 0 .. (P - 1) /\ h \in Nat
    <3>1. x = P * (x \div P) + (x % P) /\ x % P \in 0 .. (P - 1) /\ x \div P \in Nat
      BY <2>1, Division
    <3>2. QED
      BY <3>1
  <2> HIDE DEF h, l
  <2>3. h = K * q + r /\ r \in 0 .. (K - 1) /\ q \in Nat
    BY <2>1, <2>2, Division
  <2> HIDE DEF q, r
  <2>4. x = (P * K) * q + (P * r + l)
    BY <2>1, <2>2, <2>3
  <2>5. P * r + l \in 0 .. (P * K - 1)
    <3>1. r + 1 <= K /\ r \in Nat /\ l \in Nat /\ l <= P - 1
      BY <2>1, <2>2, <2>3
    <3>2. P * (r + 1) <= P * K
      BY <2>1, <3>1
    <3>3. P * (r + 1) = P * r + P
      BY <2>1, <3>1
    <3>4. P * r \in Nat /\ P * K \in Nat
      BY <2>1, <3>1
    <3>5. QED
      BY <2>1, <3>1, <3>2, <3>3, <3>4
  <2>6. P * K \in Nat \ {0}
    BY <2>1
  <2>7. ((P * K) * q + (P * r + l)) \div (P * K) = q
    BY <2>3, <2>5, <2>6, DivisionIs
  <2>8. QED
    BY <2>4, <2>7 DEF q, h
<1>3. n \div P = p \div P
  BY DEF P
<1>4. n \div 2^j = p \div 2^j
  BY <1>1, <1>2, <1>3
<1>5. QED
  BY <1>4 DEF Bit

(***************************************************************************)
(* Ranges and masks.                                                       *)
(***************************************************************************)
LEMMA Widths ==
    /\ Width \in Nat \ {0} /\ 2^Width \in Nat \ {0} /\ MaxValue = 2^Width - 1 /\ MaxValue \in Nat
    /\ Values = 0 .. (2^Width - 1)
BY RangesAssumption, PowPositive DEF MaxValue, Values

\* The diagram of a range has the numbers between its ends.
LEMMA DiagramIs ==
    ASSUME NEW low \in Values, NEW high \in Values
    PROVE  Diagram(RangeOf(low, high)) = low .. high
<1> DEFINE r == RangeOf(low, high)
<1>1. r.lower = low /\ r.upper = high /\ low \in Nat /\ high \in Nat /\ Values = 0 .. MaxValue /\ MaxValue \in Nat
  BY Widths DEF RangeOf, Values
<1>2. CASE r = FullRange
  <2>1. low = 0 /\ high = MaxValue
    BY <1>2 DEF RangeOf, FullRange
  <2>2. QED
    BY <1>1, <1>2, <2>1 DEF Diagram
<1>3. CASE r # FullRange /\ IsSingleton(r)
  <2>1. low = high
    BY <1>1, <1>3 DEF IsSingleton
  <2>2. Diagram(r) = {low}
    BY <1>1, <1>3 DEF Diagram
  <2>3. low .. high = {low}
    BY <1>1, <2>1
  <2>4. QED
    BY <2>2, <2>3
<1>4. CASE r # FullRange /\ ~IsSingleton(r)
  <2>1. Diagram(r) = {n \in Values : low <= n /\ n <= high}
    BY <1>1, <1>4 DEF Diagram
  <2>2. \A n \in Values : n \in Nat
    BY <1>1
  <2>3. \A n \in low .. high : n \in Values
    BY <1>1
  <2>4. QED
    BY <1>1, <2>1, <2>2, <2>3
<1>5. QED
  BY <1>2, <1>3, <1>4

\* The addresses of a block, counted one by one.
LEMMA BlockIs ==
    ASSUME NEW low \in Values, NEW size \in 1 .. 2^Width
    PROVE  LET Block == {low + k : k \in 0 .. (size - 1)} IN
           /\ Block = low .. (low + size - 1) /\ low \in Block
           /\ Block \subseteq Values <=> low + size <= 2^Width
<1> DEFINE Block == {low + k : k \in 0 .. (size - 1)}
<1>1. low \in Nat /\ size \in Nat \ {0} /\ 2^Width \in Nat
  BY Widths
<1>2. \A n \in low .. (low + size - 1) : n - low \in 0 .. (size - 1) /\ n = low + (n - low)
  BY <1>1
<1>3. \A k \in 0 .. (size - 1) : low + k \in low .. (low + size - 1)
  BY <1>1
<1>4. Block = low .. (low + size - 1)
  BY <1>2, <1>3
<1> HIDE DEF Block
<1>5. low \in Block /\ low + size - 1 \in Block
  BY <1>1, <1>4
<1>6. Block \subseteq Values <=> low + size <= 2^Width
  BY <1>1, <1>4, <1>5, Widths
<1>7. QED
  BY <1>4, <1>5, <1>6 DEF Block

\* A network, given by its first address and its mask, is a block or is refused
\* when the block does not fit, although the sum wraps around.
LEMMA NetworkRangeIs ==
    ASSUME NEW low \in Values, NEW size \in 1 .. 2^Width, NEW careful \in BOOLEAN
    PROVE  NetworkRange(low, 2^Width - size, careful) =
               IF (careful /\ HostBitsSet(low, 2^Width - size)) \/ ~(low + size <= 2^Width)
               THEN Refused ELSE RangeOf(low, low + size - 1)
<1> DEFINE P == 2^Width
           mask == P - size
           upper == Wrapped(low + Complement(mask))
<1>1. P \in Nat \ {0} /\ low \in 0 .. (P - 1) /\ size \in 1 .. P /\ MaxValue = P - 1
  BY Widths
<1>2. upper = (low + (size - 1)) % P
  <2>1. Complement(mask) = size - 1
    BY <1>1 DEF Complement
  <2>2. QED
    BY <2>1 DEF Wrapped
<1> HIDE DEF P
<1>3. CASE low + size <= P
  <2>1. low + (size - 1) \in 0 .. (P - 1)
    BY <1>1, <1>3
  <2>2. low + (size - 1) = P * 0 + (low + (size - 1))
    BY <1>1
  <2>3. (low + (size - 1)) % P = low + (size - 1)
    BY <1>1, <2>1, <2>2, DivisionIs
  <2>4. ~(upper < low) /\ upper = low + size - 1
    BY <1>1, <1>2, <2>3
  <2>5. QED
    BY <1>3, <2>4 DEF NetworkRange, P
<1>4. CASE ~(low + size <= P)
  <2>1. low + (size - 1) = P * 1 + (low + size - 1 - P) /\ low + size - 1 - P \in 0 .. (P - 1)
    BY <1>1, <1>4
  <2>2. (low + (size - 1)) % P = low + size - 1 - P
    <3> DEFINE r == low + size - 1 - P
    <3>1. (P * 1 + r) % P = r
      BY <1>1, <2>1, DivisionIs
    <3>2. QED
      BY <2>1, <3>1
  <2>3. upper < low
    BY <1>1, <1>2, <2>2
  <2>4. QED
    BY <1>4, <2>3 DEF NetworkRange, P
<1>5. QED
  BY <1>3, <1>4

LEMMA PrefixMaskIs ==
    ASSUME NEW bits \in 0 .. Width
    PROVE  /\ Width - bits \in 0 .. Width /\ 2^(Width - bits) \in 1 .. 2^Width
           /\ PrefixMask(bits) = 2^Width - 2^(Width - bits)
<1>1. Width - bits \in 0 .. Width /\ Width \in Nat /\ bits \in Nat
  BY Widths
<1>2. 2^(Width - bits) \in 1 .. 2^Width
  BY <1>1, PowGrows, PowPositive
<1>3. CASE bits < Width
  <2> DEFINE B == 2^bits
             K == 2^(Width - bits)
  <2>1. 2^Width = B * K /\ B \in Nat \ {0} /\ K \in Nat \ {0}
    BY <1>1, PowSplits
  <2>2. MaxValue = 2^Width - 1 /\ MaxValue \in Nat
    BY Widths
  <2> HIDE DEF B, K
  <2>3. MaxValue = B * (K - 1) + (B - 1)
    BY <2>1, <2>2
  <2>4. K - 1 \in Nat /\ B - 1 \in 0 .. (B - 1)
    BY <2>1
  <2>5. MaxValue \div B = K - 1
    BY <2>1, <2>3, <2>4, DivisionIs
  <2>6. PrefixMask(bits) = MaxValue - (K - 1)
    BY <1>3, <2>5 DEF PrefixMask, Complement, B
  <2>7. 2^Width - K = MaxValue - (K - 1)
    <3>1. \A x \in Nat, y \in Nat : x - y = (x - 1) - (y - 1)
      OBVIOUS
    <3>2. 2^Width \in Nat
      BY Widths
    <3>3. QED
      BY <2>1, <2>2, <3>1, <3>2
  <2>8. QED
    BY <1>1, <1>2, <2>6, <2>7 DEF K
<1>4. CASE bits = Width
  <2>1. 2^(Width - bits) = 1
    <3>1. Width - bits = 0
      BY <1>1, <1>4
    <3>2. 2^0 = 1
      OBVIOUS
    <3>3. QED
      BY <3>1, <3>2
  <2>2. PrefixMask(bits) = MaxValue
    BY <1>1, <1>4 DEF PrefixMask
  <2>3. QED
    BY <1>1, <1>2, <2>1, <2>2, Widths
<1>5. QED
  BY <1>1, <1>3, <1>4

\* The mask of a prefix has its high bits set.
LEMMA PrefixBits ==
    ASSUME NEW k \in 0 .. Width
    PROVE  Bits(2^Width - 2^k) = k .. (Width - 1)
<1> DEFINE mask == 2^Width - 2^k
           K == 2^k
           H == 2^(Width - k)
<1>1. Width \in Nat /\ 2^Width = K * H /\ K \in Nat \ {0} /\ H \in Nat \ {0}
  BY Widths, PowSplits
<1>2. mask % K = 0 /\ mask \in Nat
  <2>1. mask = K * H - K
    BY <1>1
  <2> HIDE DEF mask, K, H
  <2>2. mask = K * (H - 1) + 0 /\ H - 1 \in Nat /\ 0 \in 0 .. (K - 1)
    BY <1>1, <2>1
  <2>3. (K * (H - 1) + 0) % K = 0
    BY <1>1, <2>2, DivisionIs
  <2>4. K * (H - 1) + 0 \in Nat
    BY <1>1, <2>2
  <2>5. QED
    BY <2>2, <2>3, <2>4
<1>3. k \in Nat
  BY <1>1
<1>4. \A j \in 0 .. (k - 1) : Bit(mask, j) = 0
  BY <1>2, <1>3, ZeroBits
<1>5. ASSUME NEW j \in k .. (Width - 1)
      PROVE  Bit(mask, j) = 1
  <2>1. j \in 0 .. (Width - 1) /\ j \in Nat /\ k \in 0 .. j
    BY <1>1
  <2>2. 2^k \in 1 .. 2^j
    BY <2>1, PowGrows, PowPositive
  <2>3. QED
    BY <1>1, <2>1, <2>2, TopOnes
<1> HIDE DEF mask
<1>6. Bits(mask) = {j \in 0 .. (Width - 1) : Bit(mask, j) = 1}
  BY DEF Bits, Bit
<1>7. \A j \in 0 .. (Width - 1) : j \in 0 .. (k - 1) \/ j \in k .. (Width - 1)
  BY <1>1
<1>8. k .. (Width - 1) \subseteq 0 .. (Width - 1)
  BY <1>1
<1>9. Bits(mask) = k .. (Width - 1)
  BY <1>4, <1>5, <1>6, <1>7, <1>8
<1>10. QED
  BY <1>9 DEF mask

\* The strict parser refuses exactly the networks that are not aligned.
LEMMA HostBitsOfPrefix ==
    ASSUME NEW low \in Values, NEW k \in 0 .. Width
    PROVE  HostBitsSet(low, 2^Width - 2^k) <=> low % 2^k # 0
<1>1. low \in Nat /\ k \in Nat /\ Width \in Nat
  BY Widths
<1>2. Bits(low) = {j \in 0 .. (Width - 1) : Bit(low, j) = 1}
  BY DEF Bits, Bit
<1>3. \A j \in 0 .. (Width - 1) : Bit(low, j) \in {0, 1}
  BY <1>1, BitIsBit
<1>4. Bits(low) \subseteq k .. (Width - 1) <=> \A j \in 0 .. (k - 1) : Bit(low, j) = 0
  <2>1. ASSUME Bits(low) \subseteq k .. (Width - 1), NEW j \in 0 .. (k - 1)
        PROVE  Bit(low, j) = 0
    <3>1. j \in 0 .. (Width - 1) /\ j \notin k .. (Width - 1)
      BY <1>1
    <3>2. QED
      BY <1>2, <1>3, <2>1, <3>1
  <2>2. ASSUME \A j \in 0 .. (k - 1) : Bit(low, j) = 0, NEW j \in Bits(low)
        PROVE  j \in k .. (Width - 1)
    <3>1. j \in 0 .. (Width - 1) /\ Bit(low, j) = 1
      BY <1>2
    <3>2. j \notin 0 .. (k - 1)
      BY <2>2, <3>1
    <3>3. QED
      BY <1>1, <3>1, <3>2
  <2>3. QED
    BY <2>1, <2>2
<1>5. QED
  BY <1>1, <1>4, PrefixBits, ZeroBits DEF HostBitsSet

(***************************************************************************)
(* What is read.                                                           *)
(***************************************************************************)
IsRange(r) == \E low, high \in Values : low <= high /\ r = RangeOf(low, high)

\* ReadsWhatIsMeant, of a result of the parser.
Right(r) ==
    /\ IF Meant # {} /\ Meant \subseteq Values /\ (strict /\ kind = "address" => Aligned)
       THEN r # Refused /\ Diagram(r) = Meant ELSE r = Refused
    /\ r # Refused => IsRange(r)

LEMMA RangesAreRead ==
    ASSUME NEW low \in Values, NEW high \in Values
    PROVE  RangeOf(low, high) # Refused /\ (low <= high => IsRange(RangeOf(low, high)))
BY Widths DEF RangeOf, Refused, IsRange

\* A text is one of these.
LEMMA TextCases ==
    ASSUME text \in Texts
    PROVE  /\ text.low \in Values
           /\ \/ text.form = "all"
              \/ text.form = "single"
              \/ text.form = "prefix" /\ text.high \in 0 .. (Width + 1)
              \/ text.form = "mask" /\ text.high \in Values
              \/ text.form = "range" /\ text.high \in Values
<1>1. 0 \in Values
  BY Widths
<1>2. CASE text = Text("all", 0, 0)
  BY <1>1, <1>2 DEF Text
<1>3. CASE \E low \in Values : text = Text("single", low, 0)
  BY <1>3 DEF Text
<1>4. CASE \E low \in Values, bits \in 0 .. (Width + 1) : text = Text("prefix", low, bits)
  BY <1>4 DEF Text
<1>5. CASE \E form \in {"mask", "range"}, low \in Values, high \in Values : text = Text(form, low, high)
  BY <1>5 DEF Text
<1>6. QED
  BY <1>2, <1>3, <1>4, <1>5 DEF Texts

LEMMA ReadSingle ==
    ASSUME text \in Texts, text.form = "single"
    PROVE  Right(RangeOf(text.low, text.low))
<1>1. text.low \in Values /\ text.low \in Nat
  BY TextCases, Widths
<1>2. Meant = {text.low} /\ Aligned
  BY DEF Meant, Aligned
<1>3. Diagram(RangeOf(text.low, text.low)) = text.low .. text.low
  BY <1>1, DiagramIs
<1>4. text.low .. text.low = {text.low} /\ text.low <= text.low
  BY <1>1
<1>5. QED
  BY <1>1, <1>2, <1>3, <1>4, RangesAreRead DEF Right

LEMMA ReadRange ==
    ASSUME text \in Texts, text.form = "range"
    PROVE  Right(IF text.low > text.high THEN Refused ELSE RangeOf(text.low, text.high))
<1>1. text.low \in Values /\ text.high \in Values /\ text.low \in Nat /\ text.high \in Nat
  BY TextCases, Widths
<1>2. Meant = text.low .. text.high /\ Aligned
  BY DEF Meant, Aligned
<1>3. CASE text.low > text.high
  <2>1. Meant = {}
    BY <1>1, <1>2, <1>3
  <2>2. QED
    BY <1>3, <2>1 DEF Right
<1>4. CASE ~(text.low > text.high)
  <2>1. text.low <= text.high /\ text.low \in text.low .. text.high
    BY <1>1, <1>4
  <2>2. text.low .. text.high \subseteq Values
    BY <1>1, Widths
  <2>3. Diagram(RangeOf(text.low, text.high)) = text.low .. text.high
    BY <1>1, DiagramIs
  <2>4. QED
    BY <1>1, <1>2, <1>4, <2>1, <2>2, <2>3, RangesAreRead DEF Right
<1>5. QED
  BY <1>3, <1>4

\* A network with a mask or a prefix.
LEMMA ReadBlock ==
    ASSUME text.low \in Values, kind = "address", strict \in BOOLEAN, NEW size \in 1 .. 2^Width,
           Meant = {text.low + k : k \in 0 .. (size - 1)},
           HostBitsSet(text.low, 2^Width - size) <=> ~Aligned
    PROVE  Right(NetworkRange(text.low, 2^Width - size, strict))
<1> DEFINE Block == {text.low + k : k \in 0 .. (size - 1)}
           r == NetworkRange(text.low, 2^Width - size, strict)
<1>1. /\ Block = text.low .. (text.low + size - 1) /\ text.low \in Block
      /\ Block \subseteq Values <=> text.low + size <= 2^Width
  BY BlockIs
<1>2. r = IF (strict /\ HostBitsSet(text.low, 2^Width - size)) \/ ~(text.low + size <= 2^Width)
          THEN Refused ELSE RangeOf(text.low, text.low + size - 1)
  BY NetworkRangeIs
<1> HIDE DEF Block, r
<1>3. CASE text.low + size <= 2^Width /\ (strict => Aligned)
  <2>1. text.low + size - 1 \in Values /\ text.low <= text.low + size - 1
    BY <1>3, Widths
  <2>2. r = RangeOf(text.low, text.low + size - 1)
    BY <1>2, <1>3
  <2>3. Diagram(r) = Block
    BY <1>1, <2>1, <2>2, DiagramIs
  <2>4. r # Refused /\ IsRange(r)
    BY <2>1, <2>2, RangesAreRead
  <2>5. Meant = Block
    BY DEF Block
  <2>6. Right(r)
    BY <1>1, <1>3, <2>3, <2>4, <2>5 DEF Right
  <2>7. QED
    BY <2>6 DEF r
<1>4. CASE ~(text.low + size <= 2^Width /\ (strict => Aligned))
  <2>1. r = Refused
    BY <1>2, <1>4
  <2>2. Meant = Block
    BY DEF Block
  <2>3. Right(r)
    BY <1>1, <1>4, <2>1, <2>2 DEF Right
  <2>4. QED
    BY <2>3 DEF r
<1>5. QED
  BY <1>3, <1>4

LEMMA ReadPrefix ==
    ASSUME text \in Texts, text.form = "prefix", kind = "address", strict \in BOOLEAN
    PROVE  Right(ReadAddress(text, strict))
<1>1. text.low \in Values /\ text.high \in 0 .. (Width + 1) /\ Width \in Nat
  BY TextCases, Widths
<1>2. CASE text.high > Width
  <2>1. Meant = {}
    BY <1>2 DEF Meant
  <2>2. ReadAddress(text, strict) = Refused
    BY <1>2 DEF ReadAddress
  <2>3. QED
    BY <2>1, <2>2 DEF Right
<1>3. CASE ~(text.high > Width)
  <2> DEFINE k == Width - text.high
             size == 2^k
  <2>1. text.high \in 0 .. Width
    BY <1>1, <1>3
  <2>2. k \in 0 .. Width /\ size \in 1 .. 2^Width /\ PrefixMask(text.high) = 2^Width - size
    BY <2>1, PrefixMaskIs
  <2>3. Meant = {text.low + i : i \in 0 .. (size - 1)}
    BY <1>3 DEF Meant
  <2>4. ReadAddress(text, strict) = NetworkRange(text.low, 2^Width - size, strict)
    BY <1>3, <2>2 DEF ReadAddress
  <2>5. Aligned <=> text.low % size = 0
    BY DEF Aligned
  <2>6. HostBitsSet(text.low, 2^Width - size) <=> text.low % size # 0
    <3> HIDE DEF k
    <3>1. QED
      BY <1>1, <2>2, HostBitsOfPrefix
  <2> HIDE DEF size
  <2>7. QED
    BY <1>1, <2>2, <2>3, <2>4, <2>5, <2>6, ReadBlock
<1>4. QED
  BY <1>2, <1>3

LEMMA ReadMask ==
    ASSUME text \in Texts, text.form = "mask", kind = "address", strict \in BOOLEAN
    PROVE  Right(ReadAddress(text, strict))
<1> DEFINE size == 2^Width - text.high
<1>1. text.low \in Values /\ text.high \in Values
  BY TextCases
<1>2. size \in 1 .. 2^Width /\ 2^Width - size = text.high
  BY <1>1, Widths
<1>3. Meant = {text.low + i : i \in 0 .. (size - 1)}
  BY DEF Meant
<1>4. ReadAddress(text, strict) = NetworkRange(text.low, 2^Width - size, strict)
  BY <1>2 DEF ReadAddress
<1>5. HostBitsSet(text.low, text.high) <=> ~Aligned
  <2>1. Aligned <=> \A i \in 0 .. (Width - 1) : Bit(text.low, i) <= Bit(text.high, i)
    BY DEF Aligned, Bit
  <2>2. HostBitsSet(text.low, text.high) <=>
            \E i \in 0 .. (Width - 1) : Bit(text.low, i) = 1 /\ Bit(text.high, i) # 1
    BY DEF HostBitsSet, Bits, Bit
  <2>3. \A n \in Values : \A i \in 0 .. (Width - 1) : Bit(n, i) \in {0, 1}
    BY Widths, BitIsBit
  <2>4. \A x, y \in {0, 1} : x <= y <=> ~(x = 1 /\ y # 1)
    OBVIOUS
  <2>5. QED
    BY <1>1, <2>1, <2>2, <2>3, <2>4
<1> HIDE DEF size
<1>6. QED
  BY <1>1, <1>2, <1>3, <1>4, <1>5, ReadBlock

LEMMA ReadAddressRight ==
    ASSUME text \in Texts, kind = "address", strict \in BOOLEAN
    PROVE  Right(ReadAddress(text, strict))
<1>1. CASE text.form = "all"
  <2>1. Meant = {} /\ ReadAddress(text, strict) = Refused
    BY <1>1 DEF Meant, ReadAddress
  <2>2. QED
    BY <2>1 DEF Right
<1>2. CASE text.form = "single"
  <2>1. ReadAddress(text, strict) = RangeOf(text.low, text.low)
    BY <1>2 DEF ReadAddress
  <2>2. QED
    BY <1>2, <2>1, ReadSingle
<1>3. CASE text.form = "range"
  <2>1. ReadAddress(text, strict) = IF text.low > text.high THEN Refused ELSE RangeOf(text.low, text.high)
    BY <1>3 DEF ReadAddress
  <2>2. QED
    BY <1>3, <2>1, ReadRange
<1>4. QED
  BY <1>1, <1>2, <1>3, TextCases, ReadPrefix, ReadMask

LEMMA ReadPortsRight ==
    ASSUME text \in Texts, kind = "ports"
    PROVE  Right(ReadPorts(text))
<1>1. CASE text.form = "all"
  <2>1. 0 \in Values /\ MaxValue \in Values /\ 0 <= MaxValue /\ Values = 0 .. MaxValue
    BY Widths DEF Values
  <2>2. Meant = Values /\ ReadPorts(text) = RangeOf(0, MaxValue)
    BY <1>1 DEF Meant, ReadPorts, FullRange, RangeOf
  <2>3. QED
    BY <2>1, <2>2, DiagramIs, RangesAreRead DEF Right
<1>2. CASE text.form = "single"
  <2>1. ReadPorts(text) = RangeOf(text.low, text.low)
    BY <1>2 DEF ReadPorts
  <2>2. QED
    BY <1>2, <2>1, ReadSingle
<1>3. CASE text.form = "range"
  <2>1. ReadPorts(text) = IF text.low > text.high THEN Refused ELSE RangeOf(text.low, text.high)
    BY <1>3 DEF ReadPorts
  <2>2. QED
    BY <1>3, <2>1, ReadRange
<1>4. CASE text.form \in {"prefix", "mask"}
  <2>1. Meant = {} /\ ReadPorts(text) = Refused
    BY <1>4 DEF Meant, ReadPorts
  <2>2. QED
    BY <2>1 DEF Right
<1>5. QED
  BY <1>1, <1>2, <1>3, <1>4, TextCases

(***************************************************************************)
(* What is displayed.                                                      *)
(***************************************************************************)
\* Adding one to a number carries up to its lowest bit that is not set.
LEMMA Carry ==
    ASSUME NEW n \in Nat, NEW k \in Nat, n % 2^(k + 1) = 2^k - 1
    PROVE  /\ Bit(n + 1, k) = 1
           /\ \A j \in Nat : k < j => Bit(n + 1, j) = Bit(n, j)
<1> DEFINE K == 2^k
           q == n \div (2 * K)
<1>1. K \in Nat \ {0} /\ 2^(k + 1) = 2 * K /\ 2 * K \in Nat \ {0}
  BY PowPositive, PowDoubles
<1>2. n = (2 * K) * q + (K - 1) /\ q \in Nat
  <2>1. n % (2 * K) = K - 1
    BY <1>1
  <2> HIDE DEF K
  <2>2. n = (2 * K) * (n \div (2 * K)) + (n % (2 * K)) /\ n \div (2 * K) \in Nat
    BY <1>1, Division
  <2>3. QED
    BY <2>1, <2>2
<1> HIDE DEF K, q
<1>3. n + 1 = (2 * K) * q + K /\ K \in 0 .. (2 * K - 1)
  <2>1. (2 * K) * q \in Nat
    BY <1>1, <1>2
  <2>2. \A x \in Nat : x + (K - 1) + 1 = x + K
    BY <1>1
  <2>3. QED
    BY <1>1, <1>2, <2>1, <2>2
<1>4. (n + 1) \div (2 * K) = q /\ (n + 1) % (2 * K) = K
  BY <1>1, <1>2, <1>3, DivisionIs
<1>5. Bit(n + 1, k) = 1
  <2>1. Bit(n + 1, k) = Bit((n + 1) % 2^(k + 1), k)
    <3>1. k + 1 \in Nat /\ k \in 0 .. ((k + 1) - 1) /\ n + 1 \in Nat
      OBVIOUS
    <3>2. QED
      BY <3>1, BitsOfRemainder
  <2>2. Bit(K, k) = (K \div K) % 2
    BY DEF Bit, K
  <2>3. K \div K = 1 /\ 1 % 2 = 1
    BY <1>1
  <2>4. QED
    BY <1>1, <1>4, <2>1, <2>2, <2>3
<1>6. ASSUME NEW j \in Nat, k < j
      PROVE  Bit(n + 1, j) = Bit(n, j)
  <2>1. (n + 1) \div 2^(k + 1) = n \div 2^(k + 1)
    BY <1>1, <1>4 DEF q
  <2>2. k + 1 \in Nat /\ k + 1 <= j /\ n + 1 \in Nat
    BY <1>6
  <2>3. QED
    BY <2>1, <2>2, BitsOfQuotient
<1>7. QED
  BY <1>5, <1>6

\* A number whose lowest bits only are set is one less than a power of two.
LEMMA LowOnes ==
    ASSUME NEW n \in Values, NEW k \in 0 .. Width,
           \A j \in 0 .. (k - 1) : Bit(n, j) = 1, \A j \in k .. (Width - 1) : Bit(n, j) = 0
    PROVE  n = 2^k - 1 /\ Cardinality(Bits(n)) = k
<1>1. Width \in Nat /\ n \in 0 .. (2^Width - 1) /\ n \in Nat /\ k \in Nat /\ 2^k \in Nat \ {0}
  BY Widths, PowPositive
<1>2. n < 2^k
  BY <1>1, SmallBits
<1>3. n % 2^k = 2^k - 1
  BY <1>1, OneBits
<1>4. n % 2^k = n
  BY <1>1, <1>2
<1>5. Bits(n) = 0 .. (k - 1)
  <2>1. Bits(n) = {j \in 0 .. (Width - 1) : Bit(n, j) = 1}
    BY DEF Bits, Bit
  <2>2. \A j \in 0 .. (Width - 1) : j \in 0 .. (k - 1) \/ j \in k .. (Width - 1)
    BY <1>1
  <2>3. 0 .. (k - 1) \subseteq 0 .. (Width - 1)
    BY <1>1
  <2>4. QED
    BY <2>1, <2>2, <2>3
<1>6. Cardinality(0 .. (k - 1)) = k
  <2>1. Cardinality(0 .. (k - 1)) = IF 0 > k - 1 THEN 0 ELSE (k - 1) - 0 + 1
    BY <1>1, FS_Interval
  <2>2. QED
    BY <1>1, <2>1
<1>7. QED
  BY <1>3, <1>4, <1>5, <1>6

\* The sizes that are displayed as a prefix.
LEMMA PowerOf2Is ==
    ASSUME NEW n \in Values, n # 0, n = MaxValue \/ Bits(n + 1) \cap Bits(n) = {}
    PROVE  \E k \in 0 .. Width : n = 2^k - 1 /\ Cardinality(Bits(n)) = k
<1> DEFINE T == {i \in 0 .. Width : i = Width \/ Bit(n, i) = 0}
<1>1. Width \in Nat /\ n \in Nat /\ n \in 0 .. (2^Width - 1) /\ MaxValue = 2^Width - 1 /\ 2^Width \in Nat \ {0}
  BY Widths
<1>2. PICK k \in T : \A i \in T : k <= i
  <2>1. Width \in T /\ T \in SUBSET Nat
    BY <1>1
  <2> HIDE DEF T
  <2>2. QED
    BY <2>1, LeastNatural
<1>3. k \in 0 .. Width /\ k \in Nat /\ (k = Width \/ Bit(n, k) = 0)
  BY <1>1
<1>4. ASSUME NEW j \in 0 .. (k - 1)
      PROVE  Bit(n, j) = 1
  <2>1. j \in 0 .. Width /\ j # Width /\ j < k /\ j \in Nat
    BY <1>1, <1>3
  <2>2. j \notin T
    <3> HIDE DEF T
    <3>1. QED
      BY <1>2, <1>3, <2>1
  <2>3. Bit(n, j) # 0
    BY <2>1, <2>2
  <2>4. QED
    BY <1>1, <2>1, <2>3, BitIsBit
<1> HIDE DEF T
<1>5. ASSUME NEW j \in k .. (Width - 1)
      PROVE  Bit(n, j) = 0
  <2>1. Bit(n, k) = 0 /\ k \in 0 .. (Width - 1) /\ k < Width /\ j \in Nat /\ j \in 0 .. (Width - 1)
    BY <1>1, <1>3
  <2>2. n % 2^(k + 1) = 2^k - 1
    <3>1. n % 2^k = 2^k - 1
      BY <1>1, <1>3, <1>4, OneBits
    <3>2. n % 2^(k + 1) = (n % 2^k) + Bit(n, k) * 2^k
      BY <1>1, <1>3, RemainderStep
    <3>3. 2^k \in Nat
      BY <1>3, PowPositive
    <3>4. QED
      BY <2>1, <3>1, <3>2, <3>3
  <2>3. n # MaxValue
    <3>1. 1 \in 1 .. 2^k
      BY <1>3, PowPositive
    <3>2. Bit(2^Width - 1, k) = 1
      BY <1>1, <2>1, <3>1, TopOnes
    <3>3. QED
      BY <1>1, <2>1, <3>2
  <2>4. Bit(n + 1, k) = 1 /\ (k < j => Bit(n + 1, j) = Bit(n, j))
    BY <1>1, <1>3, <2>1, <2>2, Carry
  <2>5. CASE j = k
    BY <2>1, <2>5
  <2>6. CASE j # k
    <3>1. k < j
      BY <1>3, <2>6
    <3>2. Bit(n + 1, j) = Bit(n, j)
      BY <2>4, <3>1
    <3>3. j \in Bits(n) => j \in Bits(n + 1)
      BY <2>1, <3>2 DEF Bits, Bit
    <3>4. j \notin Bits(n)
      BY <2>3, <3>3
    <3>5. Bit(n, j) # 1
      BY <2>1, <3>4 DEF Bits, Bit
    <3>6. QED
      BY <1>1, <2>1, <3>5, BitIsBit
  <2>7. QED
    BY <2>5, <2>6
<1>6. QED
  BY <1>3, <1>4, <1>5, LowOnes

\* An address range that is displayed is read back.
LEMMA AddressReadsBack ==
    ASSUME NEW low \in Values, NEW high \in Values, low <= high
    PROVE  LET displayed == DisplayAddress(RangeOf(low, high)) IN
           ReadAddress(displayed, FALSE) =
               IF displayed.form = "offset" THEN Refused ELSE RangeOf(low, high)
<1> DEFINE r == RangeOf(low, high)
           displayed == DisplayAddress(r)
           diff == high - low
<1>1. low \in Nat /\ high \in Nat /\ diff \in Values /\ r.lower = low /\ r.upper = high
  BY Widths DEF RangeOf
<1>2. IsSingleton(r) <=> low = high
  BY <1>1 DEF IsSingleton
<1>3. IsPowerOf2(r) <=> diff = 0 \/ diff = MaxValue \/ Bits(diff + 1) \cap Bits(diff) = {}
  BY <1>1 DEF IsPowerOf2
<1> HIDE DEF r
<1>4. CASE IsSingleton(r)
  <2>1. displayed = Text("single", low, 0)
    <3>1. IsPowerOf2(r)
      BY <1>1, <1>2, <1>3, <1>4
    <3>2. QED
      BY <1>1, <1>4, <3>1 DEF DisplayAddress
  <2>2. displayed.form = "single" /\ displayed.low = low
    BY <2>1 DEF Text
  <2>3. ReadAddress(displayed, FALSE) = RangeOf(low, low)
    BY <2>2 DEF ReadAddress
  <2>4. QED
    BY <1>2, <1>4, <2>2, <2>3 DEF r
<1>5. CASE ~IsSingleton(r) /\ IsPowerOf2(r)
  <2>1. displayed = Text("prefix", low, Width - Cardinality(Bits(diff)))
    BY <1>1, <1>5 DEF DisplayAddress
  <2>2. PICK k \in 0 .. Width : diff = 2^k - 1 /\ Cardinality(Bits(diff)) = k
    <3>1. diff # 0
      BY <1>1, <1>2, <1>5
    <3> HIDE DEF diff
    <3>2. QED
      BY <1>1, <1>3, <1>5, <3>1, PowerOf2Is
  <2>3. displayed.form = "prefix" /\ displayed.low = low /\ displayed.high = Width - k
    BY <2>1, <2>2 DEF Text
  <2>4. Width \in Nat /\ k \in Nat /\ Width - k \in 0 .. Width /\ Width - (Width - k) = k /\ ~(Width - k > Width)
    BY Widths
  <2>5. PrefixMask(Width - k) = 2^Width - 2^k /\ 2^k \in 1 .. 2^Width
    BY <2>4, PrefixMaskIs
  <2>6. ReadAddress(displayed, FALSE) = NetworkRange(low, 2^Width - 2^k, FALSE)
    BY <2>3, <2>4, <2>5 DEF ReadAddress
  <2>7. low + 2^k <= 2^Width /\ low + 2^k - 1 = high
    <3>1. 2^k \in Nat /\ 2^Width \in Nat /\ high \in 0 .. (2^Width - 1)
      BY <2>5, Widths
    <3>2. high = low + (2^k - 1)
      BY <1>1, <2>2
    <3>3. QED
      BY <1>1, <3>1, <3>2
  <2>8. NetworkRange(low, 2^Width - 2^k, FALSE) = RangeOf(low, high)
    BY <2>5, <2>7, NetworkRangeIs
  <2>9. QED
    BY <2>3, <2>6, <2>8 DEF r
<1>6. CASE ~IsSingleton(r) /\ ~IsPowerOf2(r) /\ diff < ShortDisplay
  <2>1. displayed = Text("offset", low, diff)
    BY <1>1, <1>6 DEF DisplayAddress
  <2>2. displayed.form = "offset"
    BY <2>1 DEF Text
  <2>3. ReadAddress(displayed, FALSE) = Refused
    BY <2>2 DEF ReadAddress
  <2>4. QED
    BY <2>2, <2>3 DEF r
<1>7. CASE ~IsSingleton(r) /\ ~IsPowerOf2(r) /\ ~(diff < ShortDisplay)
  <2>1. displayed = Text("range", low, high)
    BY <1>1, <1>7 DEF DisplayAddress
  <2>2. displayed.form = "range" /\ displayed.low = low /\ displayed.high = high
    BY <2>1 DEF Text
  <2>3. ReadAddress(displayed, FALSE) = RangeOf(low, high)
    BY <1>1, <2>2 DEF ReadAddress
  <2>4. QED
    BY <2>2, <2>3 DEF r
<1>8. QED
  BY <1>4, <1>5, <1>6, <1>7

LEMMA PortsReadBack ==
    ASSUME NEW low \in Values, NEW high \in Values, low <= high
    PROVE  ReadPorts(DisplayPorts(RangeOf(low, high))) = RangeOf(low, high)
<1>1. low \in Nat /\ high \in Nat
  BY Widths
<1>2. CASE low = high
  BY <1>1, <1>2 DEF DisplayPorts, ReadPorts, RangeOf, IsSingleton, Text
<1>3. CASE low # high
  BY <1>1, <1>3 DEF DisplayPorts, ReadPorts, RangeOf, IsSingleton, Text
<1>4. QED
  BY <1>2, <1>3

(***************************************************************************)
(* The invariant: what has been read is the reading of the text, what is   *)
(* displayed the display of the range.                                     *)
(***************************************************************************)
RangeInv ==
    /\ kind \in {"address", "ports"} /\ text \in Texts /\ strict \in BOOLEAN
    /\ step \in {"written", "read", "displayed"}
    /\ step # "written" => range = IF kind = "address" THEN ReadAddress(text, strict) ELSE ReadPorts(text)
    /\ step = "displayed" =>
          range # Refused /\ shown = IF kind = "address" THEN DisplayAddress(range) ELSE DisplayPorts(range)

LEMMA AlwaysRangeInv == Spec => []RangeInv
<1>1. Init => RangeInv
  BY DEF Init, RangeInv
<1>2. ASSUME RangeInv, [Next]_vars
      PROVE  RangeInv'
  <2>1. text' = text /\ Texts' = Texts
    BY <1>2 DEF Next, Read, Display, vars, Texts, Values, Text, MaxValue
  <2>2. CASE Read
    BY <1>2, <2>1, <2>2 DEF Read, RangeInv
  <2>3. CASE Display
    BY <1>2, <2>1, <2>3 DEF Display, RangeInv
  <2>4. CASE UNCHANGED vars
    BY <1>2, <2>1, <2>4 DEF vars, RangeInv
  <2>5. QED
    BY <1>2, <2>2, <2>3, <2>4 DEF Next
<1>3. QED
  BY <1>1, <1>2, PTL DEF Spec

LEMMA WhatIsRead ==
    ASSUME RangeInv, step # "written"
    PROVE  Right(range)
BY ReadAddressRight, ReadPortsRight DEF RangeInv

\* For every width: a text is read as the addresses, or ports, it stands for,
\* or is refused; the sum of a network and its mask never wraps around
\* (ipv4parser.cpp and ipv6parser.cpp, parse_address; serviceparser.cpp).
THEOREM ReadingCorrect == Spec => []ReadsWhatIsMeant
<1>1. RangeInv => ReadsWhatIsMeant
  BY WhatIsRead DEF ReadsWhatIsMeant, Right
<1>2. QED
  BY <1>1, AlwaysRangeInv, PTL

\* For every width: what is displayed is read back as the same range, but for
\* the short form, which is refused (rangeimpl.h, is_power_of_2; ipv4range.cpp).
THEOREM DisplayCorrect == Spec => []DisplayReadsBack
<1>1. ASSUME RangeInv, step = "displayed"
      PROVE  IF kind = "ports" THEN ReadPorts(shown) = range
             ELSE ReadAddress(shown, FALSE) = IF shown.form = "offset" THEN Refused ELSE range
  <2>1. Right(range) /\ range # Refused
    BY <1>1, WhatIsRead DEF RangeInv
  <2>2. PICK low \in Values, high \in Values : low <= high /\ range = RangeOf(low, high)
    BY <2>1 DEF Right, IsRange
  <2>3. CASE kind = "ports"
    <3>1. shown = DisplayPorts(range)
      BY <1>1, <2>3 DEF RangeInv
    <3>2. QED
      BY <2>2, <2>3, <3>1, PortsReadBack
  <2>4. CASE kind = "address"
    <3>1. shown = DisplayAddress(range)
      BY <1>1, <2>4 DEF RangeInv
    <3>2. QED
      BY <2>2, <2>4, <3>1, AddressReadsBack
  <2>5. QED
    BY <1>1, <2>3, <2>4 DEF RangeInv
<1>2. RangeInv => DisplayReadsBack
  BY <1>1 DEF DisplayReadsBack
<1>3. QED
  BY <1>2, AlwaysRangeInv, PTL

=============================================================================
