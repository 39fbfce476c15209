----------------------------- MODULE BuddyProofs -----------------------------
(***************************************************************************)
(* What the index arithmetic of the buddy allocator computes, for every    *)
(* index and every order: which blocks a merge joins and a split yields,   *)
(* and which order add_region() and get_size_order() pick.                 *)
(***************************************************************************)
EXTENDS Buddy, FiniteSetTheorems, WellFoundedInduction, TLAPS

-----------------------------------------------------------------------------
(* Powers of two.                                                          *)

(* A set of naturals that is not empty has a smallest element.  Stands in  *)
(* for induction below.                                                    *)
LEMMA MinNat ==
  ASSUME NEW S \in SUBSET Nat, S # {}
  PROVE  \E m \in S : \A k \in S : m <= k
<1>1. \E x \in S : \A y \in S : ~ (<<y, x>> \in OpToRel(<, Nat))
  BY Zenon, NatLessThanWellFounded, WFMin
<1>2. \A x \in Nat, y \in Nat : <<y, x>> \in OpToRel(<, Nat) <=> y < x
  BY DEF OpToRel
<1>3. \E R : /\ \E x \in S : \A y \in S : ~ (<<y, x>> \in R)
             /\ \A x \in Nat, y \in Nat : <<y, x>> \in R <=> y < x
  BY <1>1, <1>2, Zenon
<1>4. PICK R : /\ \E x \in S : \A y \in S : ~ (<<y, x>> \in R)
               /\ \A x \in Nat, y \in Nat : <<y, x>> \in R <=> y < x
  BY SMTT(30), <1>3
<1>5. PICK x \in S : \A y \in S : ~ (<<y, x>> \in R)
  BY <1>4
<1>6. \A y \in S : ~ (y < x)
  BY Zenon, <1>4, <1>5
<1> QED
  BY <1>6

(* 2^n is the number of subsets of 1..n. *)
LEMMA Pow2Card ==
  ASSUME NEW n \in Nat
  PROVE  /\ IsFiniteSet(SUBSET (1 .. n))
         /\ Cardinality(SUBSET (1 .. n)) = 2^n
<1>1. IsFiniteSet(1 .. n) /\ Cardinality(1 .. n) = n
  <2>1. IsFiniteSet(1 .. n) /\ Cardinality(1 .. n) = IF 1 > n THEN 0 ELSE n - 1 + 1
    BY FS_Interval
  <2> QED
    BY <2>1
<1> QED
  BY <1>1, FS_SUBSET, Zenon

(* 1 << n is a natural number. *)
LEMMA Pow2Nat == \A n \in Nat : 2^n \in Nat
<1> TAKE n \in Nat
<1>1. Cardinality(SUBSET (1 .. n)) \in Nat
  BY Zenon, Pow2Card, FS_CardinalityType
<1> QED
  BY Zenon, <1>1, Pow2Card

(* 1 << (n + 1) is twice 1 << n: the subsets with n + 1 are as many as the *)
(* subsets without it.                                                     *)
LEMMA Pow2Succ == \A n \in Nat : 2^(n + 1) = 2 * 2^n
<1> TAKE n \in Nat
<1> DEFINE A == SUBSET (1 .. n)
           B == {T \in SUBSET (1 .. (n + 1)) : n + 1 \in T}
           f == [T \in A |-> T \cup {n + 1}]
<1>1. IsFiniteSet(A) /\ Cardinality(A) = 2^n
  BY Pow2Card
<1>2. Cardinality(SUBSET (1 .. (n + 1))) = 2^(n + 1)
  <2>1. n + 1 \in Nat
    OBVIOUS
  <2> QED
    BY Zenon, <2>1, Pow2Card
<1>3. A \cup B = SUBSET (1 .. (n + 1))
  <2>1. \A T \in SUBSET (1 .. (n + 1)) : n + 1 \notin T => T \in A
    OBVIOUS
  <2>2. A \subseteq SUBSET (1 .. (n + 1))
    OBVIOUS
  <2> QED
    BY <2>1, <2>2
<1>4. A \cap B = {}
  OBVIOUS
<1>5. f \in Bijection(A, B)
  <2>1. f \in [A -> B]
    OBVIOUS
  <2>2. ASSUME NEW a \in A, NEW b \in A, f[a] = f[b]
        PROVE  a = b
    BY <2>2
  <2>3. ASSUME NEW T \in B
        PROVE  \E a \in A : f[a] = T
    <3>1. T \ {n + 1} \in A
      OBVIOUS
    <3>2. f[T \ {n + 1}] = T
      BY <3>1
    <3> QED
      BY Zenon, <3>1, <3>2
  <2> QED
    BY Zenon, <2>1, <2>2, <2>3 DEF Bijection, Injection, Surjection, IsInjective
<1>6. IsFiniteSet(B) /\ Cardinality(B) = Cardinality(A)
  BY <1>5, <1>1, FS_Bijection DEF ExistsBijection
<1>7. Cardinality(A \cup B) = Cardinality(A) + Cardinality(B)
  <2> HIDE DEF A, B, f
  <2>1. Cardinality(A \cup B)
          = Cardinality(A) + Cardinality(B) - Cardinality(A \cap B)
    BY <1>1, <1>6, FS_Union
  <2>2. Cardinality(A \cap B) = 0
    BY <1>4, FS_EmptySet
  <2>3. Cardinality(A) \in Nat /\ Cardinality(B) \in Nat
    BY <1>1, <1>6, FS_CardinalityType
  <2> QED
    BY <2>1, <2>2, <2>3
<1> HIDE DEF A, B, f
<1>8. 2^(n + 1) = 2^n + 2^n
  BY Zenon, <1>1, <1>2, <1>3, <1>6, <1>7
<1>9. 2^n \in Nat
  BY Pow2Nat
<1> QED
  BY <1>8, <1>9

(* 1 << n is above n, so it is not zero. *)
LEMMA Pow2Above == \A n \in Nat : 2^n > n
<1> DEFINE Bad == {n \in Nat : ~ (2^n > n)}
<1>1. SUFFICES ASSUME Bad # {} PROVE FALSE
  OBVIOUS
<1>2. PICK m \in Bad : \A k \in Bad : m <= k
  BY Zenon, <1>1, MinNat
<1>3. CASE m = 0
  BY <1>2, <1>3
<1>4. CASE m > 0
  <2>1. m - 1 \in Nat /\ m - 1 \notin Bad
    BY <1>2, <1>4
  <2>2. 2^(m - 1) \in Nat /\ 2^(m - 1) > m - 1
    BY <2>1, Pow2Nat
  <2>3. 2^((m - 1) + 1) = 2 * 2^(m - 1)
    BY <2>1, Pow2Succ
  <2>4. 2^m = 2 * 2^(m - 1)
    BY <2>3, (m - 1) + 1 = m
  <2>5. \A x \in Nat : x > m - 1 => 2 * x > m
    BY <1>2, <1>4
  <2>6. 2^m > m
    BY <2>2, <2>4, <2>5
  <2> QED
    BY <2>6, <1>2
<1> QED
  BY <1>2, <1>3, <1>4

(* A power of two is at least one. *)
LEMMA Pow2Pos == \A n \in Nat : 2^n \in Nat /\ 2^n >= 1
BY Pow2Nat, Pow2Above

(* A larger power of two is a multiple of a smaller one. *)
LEMMA Pow2Divides ==
  ASSUME NEW a \in Nat
  PROVE  \A b \in Nat : b >= a => \E k \in Nat : k >= 1 /\ 2^b = k * 2^a
<1> DEFINE Good(b) == \E k \in Nat : k >= 1 /\ 2^b = k * 2^a
           Bad == {b \in Nat : b >= a /\ ~ Good(b)}
<1>1. SUFFICES ASSUME Bad # {} PROVE FALSE
  OBVIOUS
<1>2. PICK m \in Bad : \A k \in Bad : m <= k
  BY Zenon, <1>1, MinNat
<1>3. CASE m = a
  <2>1. 2^m = 1 * 2^a
    BY <1>3, Pow2Nat
  <2>2. Good(m)
    BY <2>1
  <2> QED
    BY <1>2, <2>2
<1>4. CASE m > a
  <2>1. m - 1 \in Nat /\ Good(m - 1)
    BY <1>2, <1>4
  <2>2. PICK k \in Nat : k >= 1 /\ 2^(m - 1) = k * 2^a
    BY <2>1
  <2>3. 2^((m - 1) + 1) = 2 * 2^(m - 1)
    BY <2>1, Pow2Succ
  <2>4. 2^m = 2 * (k * 2^a)
    BY <2>2, <2>3, (m - 1) + 1 = m
  <2>5. 2^a \in Nat
    BY Pow2Nat
  <2>6. 2^m = (2 * k) * 2^a /\ 2 * k \in Nat /\ 2 * k >= 1
    BY <2>2, <2>4, <2>5
  <2>7. Good(m)
    BY Zenon, <2>6
  <2> QED
    BY <1>2, <2>7
<1> QED
  BY <1>2, <1>3, <1>4

(* A larger exponent, a larger power. *)
LEMMA Pow2Mono ==
  ASSUME NEW a \in Nat, NEW b \in Nat, a <= b
  PROVE  2^a <= 2^b
<1>1. PICK k \in Nat : k >= 1 /\ 2^b = k * 2^a
  BY Zenon, Pow2Divides
<1>2. 2^a \in Nat
  BY Pow2Nat
<1>3. \A x \in Nat : k * x >= x
  BY <1>1
<1> QED
  BY <1>1, <1>2, <1>3

-----------------------------------------------------------------------------
(* Division.                                                               *)

(* Quotient and remainder. *)
LEMMA DivMod ==
  ASSUME NEW i \in Nat, NEW d \in Nat, d >= 1
  PROVE  /\ i % d \in Nat /\ i % d < d
         /\ i \div d \in Nat
         /\ i = (i \div d) * d + (i % d)
<1>1. d > 0
  OBVIOUS
<1>2. i % d \in Nat /\ i % d < d /\ i \div d \in Nat
  BY <1>1
<1>3. i = d * (i \div d) + (i % d)
  BY <1>1
<1>4. \A x \in Nat : d * x = x * d
  OBVIOUS
<1> QED
  BY <1>2, <1>3, <1>4

(* A multiple is divided without a remainder. *)
LEMMA DivOfMultiple ==
  ASSUME NEW k \in Nat, NEW d \in Nat, d >= 1
  PROVE  (k * d) \div d = k /\ (k * d) % d = 0
OBVIOUS

(* A quotient and a remainder are those of the sum. *)
LEMMA DivUnique ==
  ASSUME NEW q \in Nat, NEW d \in Nat, d >= 1, NEW r \in Nat, r < d
  PROVE  (q * d + r) \div d = q /\ (q * d + r) % d = r
<1> DEFINE x == q * d + r
<1>1. x \in Nat /\ x = q * d + r
  OBVIOUS
<1> HIDE DEF x
<1> DEFINE y == x \div d
           s == x % d
<1>2. s \in Nat /\ s < d /\ y \in Nat /\ x = y * d + s
  BY <1>1, DivMod
<1> HIDE DEF y, s
<1>3. q * d + r = y * d + s /\ q * d \in Nat /\ y * d \in Nat
  BY <1>1, <1>2
<1>4. ASSUME y < q PROVE FALSE
  <2>1. PICK e \in Nat : q = y + 1 + e
    BY <1>2, <1>4, q - y - 1 \in Nat
  <2>2. q * d = y * d + d + e * d /\ e * d \in Nat
    BY <1>2, <2>1
  <2>3. \A A, B, C \in Nat : A + r = B + s => A # B + d + C
    BY <1>2
  <2> QED BY ZenonT(60), <1>3, <2>2, <2>3
<1>5. ASSUME y > q PROVE FALSE
  <2>1. PICK e \in Nat : y = q + 1 + e
    BY <1>2, <1>5, y - q - 1 \in Nat
  <2>2. y * d = q * d + d + e * d /\ e * d \in Nat
    BY <1>2, <2>1
  <2>3. \A A, B, C \in Nat : A + r = B + s => B # A + d + C
    BY <1>2
  <2> QED BY <1>3, <2>2, <2>3
<1>6. y = q
  BY <1>2, <1>4, <1>5
<1>7. s = r
  BY <1>2, <1>3, <1>6
<1> QED BY <1>6, <1>7 DEF x, y, s

(* Dividing by a product is dividing twice. *)
LEMMA DivDiv ==
  ASSUME NEW p \in Nat, NEW a \in Nat, a >= 1, NEW b \in Nat, b >= 1
  PROVE  p \div (b * a) = (p \div a) \div b
<1> DEFINE q == p \div a
           r == p % a
<1>1. q \in Nat /\ r \in Nat /\ r < a /\ p = q * a + r
  BY DivMod
<1> HIDE DEF q, r
<1> DEFINE u == q \div b
           v == q % b
<1>2. u \in Nat /\ v \in Nat /\ v < b /\ q = u * b + v
  BY <1>1, DivMod
<1> HIDE DEF u, v
<1>3. b * a \in Nat /\ b * a >= 1 /\ v * a + r \in Nat
  <2>1. PICK e \in Nat : b = 1 + e
    BY b - 1 \in Nat
  <2>2. b * a = a + e * a /\ e * a \in Nat
    BY <2>1
  <2>3. v * a \in Nat
    BY <1>2
  <2> QED BY <2>2, <2>3, <1>1
<1>4. v * a + r < b * a
  <2>1. PICK e \in Nat : b = v + 1 + e
    BY <1>2, b - v - 1 \in Nat
  <2>2. b * a = v * a + a + e * a /\ e * a \in Nat /\ v * a \in Nat
    BY <2>1, <1>2
  <2> QED BY <1>1, <2>2
<1>5. p = u * (b * a) + (v * a + r)
  <2>1. (u * b + v) * a = u * (b * a) + v * a
    BY <1>2
  <2>2. u * (b * a) \in Nat /\ v * a \in Nat
    BY <1>2, <1>3
  <2> QED BY <1>1, <1>2, <2>1, <2>2
<1> DEFINE d == b * a
           s == v * a + r
<1>6. d \in Nat /\ d >= 1 /\ s \in Nat /\ s < d /\ p = u * d + s
  BY <1>3, <1>4, <1>5
<1> HIDE DEF d, s
<1>7. p \div d = u
  BY <1>2, <1>6, DivUnique
<1> QED BY <1>7 DEF d, u, q

(* A multiple of the divisor is added to the quotient. *)
LEMMA DivAdd ==
  ASSUME NEW p \in Nat, NEW c \in Nat, NEW d \in Nat, d >= 1
  PROVE  /\ (p + c * d) \div d = p \div d + c
         /\ (p + c * d) % d = p % d
<1> DEFINE q == p \div d
           r == p % d
<1>1. q \in Nat /\ r \in Nat /\ r < d /\ p = q * d + r
  BY DivMod
<1> HIDE DEF q, r
<1>2. p + c * d = (q + c) * d + r /\ q + c \in Nat
  BY <1>1
<1>3. ((q + c) * d + r) \div d = q + c /\ ((q + c) * d + r) % d = r
  BY <1>1, <1>2, DivUnique
<1> QED BY <1>2, <1>3 DEF q, r

(* A smaller number has no larger quotient. *)
LEMMA DivMono ==
  ASSUME NEW p \in Nat, NEW s \in Nat, p <= s, NEW d \in Nat, d >= 1
  PROVE  p \div d \in Nat /\ s \div d \in Nat /\ p \div d <= s \div d
<1> DEFINE x == p \div d
           y == s \div d
<1>1. /\ x \in Nat /\ p % d \in Nat /\ p = x * d + (p % d)
      /\ y \in Nat /\ s % d \in Nat /\ s % d < d /\ s = y * d + (s % d)
  BY DivMod
<1> HIDE DEF x, y
<1>2. ASSUME x > y PROVE FALSE
  <2>1. PICK e \in Nat : x = y + 1 + e
    BY <1>1, <1>2, x - y - 1 \in Nat
  <2>2. x * d = y * d + d + e * d /\ e * d \in Nat /\ y * d \in Nat
    BY <1>1, <2>1
  <2> QED BY <1>1, <2>2
<1> QED BY <1>1, <1>2 DEF x, y

(* A number below a multiple of the divisor has a smaller quotient. *)
LEMMA DivBelow ==
  ASSUME NEW p \in Nat, NEW c \in Nat, NEW d \in Nat, d >= 1, p < c * d
  PROVE  p \div d < c
<1> DEFINE x == p \div d
<1>1. x \in Nat /\ p % d \in Nat /\ p = x * d + (p % d)
  BY DivMod
<1> HIDE DEF x
<1>2. ASSUME x >= c PROVE FALSE
  <2>1. PICK e \in Nat : x = c + e
    BY <1>1, <1>2, x - c \in Nat
  <2>2. x * d = c * d + e * d /\ e * d \in Nat /\ c * d \in Nat
    BY <1>1, <2>1
  <2> QED BY <1>1, <2>2
<1> QED BY <1>1, <1>2 DEF x

(* The place of a quotient in the tables of one level. *)
LEMMA Place ==
  ASSUME NEW q \in Nat, NEW t \in Nat, NEW d \in Nat, d >= 1
  PROVE  (t + q \div d) * d + (q % d) = t * d + q
<1> DEFINE u == q \div d
           v == q % d
<1>1. u \in Nat /\ v \in Nat /\ q = u * d + v
  BY DivMod
<1> HIDE DEF u, v
<1>2. (t + u) * d + v = t * d + (u * d + v)
  BY <1>1
<1> QED BY ZenonT(60), <1>1, <1>2 DEF u, v

(* An aligned index is a multiple of the block size. *)
LEMMA AlignedMultiple ==
  ASSUME NEW i \in Nat, NEW o \in Nat
  PROVE  Aligned(i, o) <=> \E k \in Nat : i = k * 2^o
<1>1. 2^o \in Nat /\ 2^o >= 1
  BY Pow2Pos
<1>2. ASSUME Aligned(i, o) PROVE \E k \in Nat : i = k * 2^o
  <2>1. i % 2^o = 0
    BY <1>2 DEF Aligned
  <2>2. i \div 2^o \in Nat /\ i = (i \div 2^o) * 2^o + (i % 2^o)
    BY Zenon, <1>1, DivMod
  <2>3. i = (i \div 2^o) * 2^o
    BY <2>1, <2>2, <1>1
  <2> QED
    BY Zenon, <2>2, <2>3
<1>3. ASSUME NEW k \in Nat, i = k * 2^o PROVE Aligned(i, o)
  BY <1>1, <1>3, DivOfMultiple DEF Aligned
<1> QED
  BY <1>2, <1>3

(* A block that is aligned to its size is aligned to every smaller size. *)
LEMMA AlignedDown ==
  ASSUME NEW i \in Nat, NEW a \in Nat, NEW b \in Nat, a <= b, Aligned(i, b)
  PROVE  Aligned(i, a)
<1>1. PICK k \in Nat : i = k * 2^b
  BY AlignedMultiple
<1>2. PICK m \in Nat : 2^b = m * 2^a
  BY Pow2Divides
<1>3. 2^a \in Nat
  BY Pow2Nat
<1>4. \A x \in Nat : k * (m * x) = (k * m) * x
  OBVIOUS
<1>5. i = (k * m) * 2^a /\ k * m \in Nat
  BY <1>1, <1>2, <1>3, <1>4
<1> QED
  BY <1>5, AlignedMultiple

-----------------------------------------------------------------------------
(* Buddies.                                                                *)

(* Bit(i, o) is the parity of i >> o. *)
LEMMA ParityOfBit ==
  ASSUME NEW i, NEW o, NEW m \in Nat
  PROVE  /\ i \div 2^o = 2 * m => Bit(i, o) = 0
         /\ i \div 2^o = 2 * m + 1 => Bit(i, o) = 1
<1>1. (2 * m) % 2 = 0 /\ (2 * m + 1) % 2 = 1
  OBVIOUS
<1> QED
  BY <1>1 DEF Bit

(* An aligned index is either the lower or the upper half of the block one *)
(* order up, and get_buddy_index and get_combined_index tell which.        *)
LEMMA BuddyHalves ==
  ASSUME NEW i \in Nat, NEW o \in Nat, Aligned(i, o)
  PROVE  \E m \in Nat :
           \/ /\ i = m * 2^(o + 1)
              /\ get_buddy_index(i, o) = i + 2^o
              /\ get_combined_index(i, o) = i
           \/ /\ i = m * 2^(o + 1) + 2^o
              /\ get_buddy_index(i, o) = i - 2^o
              /\ get_combined_index(i, o) = i - 2^o
<1>1. 2^o \in Nat /\ 2^o >= 1 /\ 2^(o + 1) = 2 * 2^o
  BY Pow2Pos, Pow2Succ
<1>2. PICK k \in Nat : i = k * 2^o
  BY AlignedMultiple
<1>3. i \div 2^o = k
  BY <1>1, <1>2, DivOfMultiple
<1>4. PICK m \in Nat : k = 2 * m \/ k = 2 * m + 1
  <2>1. k \div 2 \in Nat /\ (k = 2 * (k \div 2) \/ k = 2 * (k \div 2) + 1)
    OBVIOUS
  <2> QED
    BY <2>1
<1>5. CASE k = 2 * m
  <2>1. Bit(i, o) = 0
    BY <1>3, <1>5, ParityOfBit
  <2>2. \A d \in Nat : k * d = m * (2 * d)
    BY <1>5
  <2>3. i = m * 2^(o + 1)
    BY <1>1, <1>2, <2>2
  <2> QED
    BY <2>1, <2>3 DEF get_buddy_index, get_combined_index
<1>6. CASE k = 2 * m + 1
  <2>1. Bit(i, o) = 1
    BY <1>3, <1>6, ParityOfBit
  <2>2. \A d \in Nat : k * d = m * (2 * d) + d
    BY <1>6
  <2>3. i = m * 2^(o + 1) + 2^o
    BY <1>1, <1>2, <2>2
  <2> QED
    BY <2>1, <2>3 DEF get_buddy_index, get_combined_index
<1> QED
  BY <1>4, <1>5, <1>6

(* The merge of free_block: for an aligned block, the buddy is aligned and *)
(* disjoint from it, and together they are the aligned block one order up  *)
(* that starts at the combined index.                                      *)
THEOREM MergeIsExact ==
  ASSUME NEW i \in Nat, NEW o \in Nat, Aligned(i, o)
  PROVE  LET b == get_buddy_index(i, o)
             j == get_combined_index(i, o)
         IN  /\ b \in Nat /\ b # i /\ Aligned(b, o)
             /\ j \in Nat /\ Aligned(j, o + 1)
             /\ Block(i, o) \cap Block(b, o) = {}
             /\ Block(j, o + 1) = Block(i, o) \cup Block(b, o)
             /\ get_buddy_index(b, o) = i
<1> DEFINE b == get_buddy_index(i, o)
           j == get_combined_index(i, o)
           d == 2^o
<1>1. d \in Nat /\ d >= 1 /\ 2^(o + 1) = 2 * d
  BY Pow2Pos, Pow2Succ
<1>2. PICK m \in Nat : \/ i = m * 2^(o + 1) /\ b = i + 2^o /\ j = i
                       \/ i = m * 2^(o + 1) + 2^o /\ b = i - 2^o /\ j = i - 2^o
  BY ZenonT(30), BuddyHalves
<1>3. j = m * 2^(o + 1) /\ j \in Nat
  BY <1>1, <1>2
<1>4. \/ i = j /\ b = j + d
      \/ i = j + d /\ b = j
  BY <1>1, <1>2, <1>3
<1>5. Aligned(j, o + 1)
  BY <1>3, AlignedMultiple, o + 1 \in Nat
<1>6. Aligned(j, o)
  BY <1>3, <1>5, AlignedDown
<1>7. Aligned(j + d, o)
  <2>1. PICK k \in Nat : j = k * 2^o
    BY <1>3, <1>6, AlignedMultiple
  <2>2. \A x \in Nat : k * x + x = (k + 1) * x
    OBVIOUS
  <2>3. j + d = (k + 1) * 2^o /\ k + 1 \in Nat /\ j + d \in Nat
    BY <1>1, <1>3, <2>1, <2>2
  <2> QED
    BY <2>3, AlignedMultiple
<1>8. get_buddy_index(b, o) = i
  <2>1. b \in Nat /\ Aligned(b, o)
    BY <1>1, <1>3, <1>4, <1>6, <1>7
  <2>2. PICK n \in Nat :
          \/ /\ b = n * 2^(o + 1)
             /\ get_buddy_index(b, o) = b + 2^o
             /\ get_combined_index(b, o) = b
          \/ /\ b = n * 2^(o + 1) + 2^o
             /\ get_buddy_index(b, o) = b - 2^o
             /\ get_combined_index(b, o) = b - 2^o
    <3> HIDE DEF b
    <3> QED
      BY Zenon, <2>1, BuddyHalves
  <2>3. \A x, y, z \in Nat : z >= 1 => x * (2 * z) # y * (2 * z) + z
    <3> TAKE x, y, z \in Nat
    <3>1. ASSUME z >= 1, x * (2 * z) = y * (2 * z) + z PROVE FALSE
      <4>1. (2 * x) * z = (2 * y + 1) * z
        BY <3>1
      <4>2. ((2 * x) * z) \div z = 2 * x /\ ((2 * y + 1) * z) \div z = 2 * y + 1
        BY <3>1, DivOfMultiple, 2 * x \in Nat, 2 * y + 1 \in Nat
      <4> QED
        BY <4>1, <4>2
    <3> QED
      BY <3>1
  <2>4. n * 2^(o + 1) \in Nat
    BY <1>1
  <2>5. CASE b = j
    <3>1. b # n * 2^(o + 1) + 2^o
      BY <1>1, <1>3, <2>3, <2>5
    <3> QED
      BY <1>1, <1>3, <1>4, <2>2, <2>5, <3>1
  <2>6. CASE b = j + d
    <3>1. b # n * 2^(o + 1)
      BY <1>1, <1>3, <2>3, <2>6
    <3> QED
      BY <1>1, <1>3, <1>4, <2>2, <2>6, <3>1
  <2> QED
    BY <1>4, <2>5, <2>6
<1>9. Block(i, o) \cap Block(b, o) = {}
  BY <1>1, <1>3, <1>4 DEF Block
<1>10. Block(j, o + 1) = Block(i, o) \cup Block(b, o)
  BY <1>1, <1>3, <1>4 DEF Block
<1>11. /\ b \in Nat /\ b # i /\ Aligned(b, o)
       /\ j \in Nat /\ Aligned(j, o + 1)
  BY <1>1, <1>3, <1>4, <1>5, <1>6, <1>7
<1> QED
  BY <1>8, <1>9, <1>10, <1>11

(* The split of alloc_block: an aligned block one order up is its lower    *)
(* half, which is returned, and the buddy, which is listed; both are       *)
(* aligned and they do not overlap.                                        *)
THEOREM SplitIsExact ==
  ASSUME NEW i \in Nat, NEW o \in Nat, Aligned(i, o + 1)
  PROVE  LET b == get_buddy_index(i, o)
         IN  /\ b = i + 2^o
             /\ Aligned(i, o) /\ Aligned(b, o)
             /\ Block(i, o) \cap Block(b, o) = {}
             /\ Block(i, o + 1) = Block(i, o) \cup Block(b, o)
<1> DEFINE b == get_buddy_index(i, o)
<1>1. 2^o \in Nat /\ 2^o >= 1 /\ 2^(o + 1) = 2 * 2^o /\ o + 1 \in Nat
  BY Pow2Pos, Pow2Succ
<1>2. Aligned(i, o)
  BY <1>1, AlignedDown
<1>3. PICK k \in Nat : i = k * 2^(o + 1)
  BY Zenon, <1>1, AlignedMultiple
<1>4. \A x \in Nat : k * (2 * x) = (2 * k) * x
  OBVIOUS
<1>5. i = (2 * k) * 2^o /\ 2 * k \in Nat
  BY <1>1, <1>3, <1>4
<1>6. i \div 2^o = 2 * k
  BY <1>1, <1>5, DivOfMultiple
<1>7. b = i + 2^o
  BY <1>6, ParityOfBit DEF get_buddy_index
<1>8. Aligned(b, o)
  BY <1>2, MergeIsExact
<1>9. Block(i, o) \cap Block(b, o) = {} /\ Block(i, o + 1) = Block(i, o) \cup Block(b, o)
  BY <1>1, <1>7 DEF Block
<1> QED
  BY <1>2, <1>7, <1>8, <1>9

(* Multiples of a block size are at least one block apart. *)
LEMMA MultiplesApart ==
  ASSUME NEW u \in Nat, NEW v \in Nat, NEW w \in Nat, w >= 1, u * w < v * w
  PROVE  u < v /\ (u + 1) * w <= v * w
<1>1. \A x, y \in Nat : x <= y => x * w <= y * w
  <2> TAKE x, y \in Nat
  <2>1. ASSUME x <= y PROVE x * w <= y * w
    <3>1. PICK e \in Nat : y = x + e
      BY <2>1, y - x \in Nat
    <3>2. (x + e) * w = x * w + e * w /\ e * w \in Nat /\ x * w \in Nat
      OBVIOUS
    <3> QED
      BY <3>1, <3>2
  <2> QED
    BY <2>1
<1>2. u * w \in Nat /\ v * w \in Nat
  OBVIOUS
<1>3. u < v
  <2>1. ASSUME v <= u PROVE FALSE
    BY <1>1, <1>2, <2>1
  <2> QED
    BY <2>1
<1>4. u + 1 \in Nat /\ u + 1 <= v
  BY <1>3
<1> QED
  BY <1>1, <1>3, <1>4

(* Aligned blocks are nested or disjoint: a block that meets a block of at *)
(* least its own order lies within it.                                     *)
THEOREM BlocksNest ==
  ASSUME NEW i \in Nat, NEW a \in Nat, Aligned(i, a),
         NEW j \in Nat, NEW b \in Nat, Aligned(j, b),
         a <= b, Block(i, a) \cap Block(j, b) # {}
  PROVE  Block(i, a) \subseteq Block(j, b)
<1>1. PICK k \in Nat : i = k * 2^a
  BY AlignedMultiple
<1>2. PICK m \in Nat : j = m * 2^b
  BY AlignedMultiple
<1>3. PICK n \in Nat : 2^b = n * 2^a
  BY Pow2Divides
<1>4. 2^a \in Nat /\ 2^a >= 1 /\ 2^b \in Nat
  BY Pow2Pos
<1> DEFINE d == 2^a
           lo == m * n
           hi == m * n + n
<1>5. lo \in Nat /\ hi \in Nat
  OBVIOUS
<1>6. j = lo * d /\ j + 2^b = hi * d
  <2>1. \A x \in Nat : m * (n * x) = (m * n) * x /\ (m * n) * x + n * x = (m * n + n) * x
    OBVIOUS
  <2> QED
    BY <1>2, <1>3, <1>4, <2>1
<1>7. i + d = (k + 1) * d /\ k + 1 \in Nat
  <2>1. \A x \in Nat : k * x + x = (k + 1) * x
    OBVIOUS
  <2> QED
    BY <1>1, <1>4, <2>1
<1>8. PICK x \in Nat : i <= x /\ x < i + d /\ j <= x /\ x < j + 2^b
  <2>1. PICK x : x \in Block(i, a) /\ x \in Block(j, b)
    OBVIOUS
  <2> QED
    BY <1>4, <2>1 DEF Block
<1> HIDE DEF d, lo, hi
<1>9. d \in Nat /\ d >= 1
  BY <1>4 DEF d
<1>10. lo * d <= k * d
  <2>1. lo * d < (k + 1) * d
    BY <1>1, <1>6, <1>7, <1>8, <1>9
  <2>2. (lo + 1) * d <= (k + 1) * d
    BY <1>5, <1>7, <1>9, <2>1, MultiplesApart
  <2>3. (lo + 1) * d = lo * d + d /\ (k + 1) * d = k * d + d
    BY <1>5, <1>9
  <2>4. lo * d \in Nat /\ k * d \in Nat
    BY <1>5, <1>9
  <2> QED
    BY <1>9, <2>2, <2>3, <2>4
<1>11. (k + 1) * d <= hi * d
  <2>1. k * d < hi * d
    BY <1>1, <1>4, <1>6, <1>8, <1>9 DEF d
  <2> QED
    BY <1>5, <1>9, <2>1, MultiplesApart
<1>12. j <= i /\ i + 2^a <= j + 2^b
  BY <1>1, <1>6, <1>7, <1>10, <1>11 DEF d
<1> QED
  BY <1>4, <1>12 DEF Block

(* Below a multiple of the largest block size no block lacks its buddy. *)
LEMMA BuddyBelowMultiple ==
  ASSUME NEW i \in Nat, NEW o \in Nat, Aligned(i, o),
         NEW n \in Nat, o < n, NEW end \in Nat, Aligned(end, n), i < end
  PROVE  get_buddy_index(i, o) < end
<1> DEFINE b == get_buddy_index(i, o)
           j == get_combined_index(i, o)
           d == 2^(o + 1)
<1>1. o + 1 \in Nat /\ o + 1 <= n /\ d \in Nat /\ d >= 1
  BY Pow2Pos
<1>2. /\ b \in Nat /\ j \in Nat /\ Aligned(j, o + 1)
      /\ Block(j, o + 1) = Block(i, o) \cup Block(b, o)
  BY MergeIsExact
<1>3. i \in Block(i, o) /\ b \in Block(b, o)
  BY <1>2, Pow2Pos DEF Block
<1>4. j <= i /\ b < j + d
  <2>1. i \in Block(j, o + 1) /\ b \in Block(j, o + 1)
    BY <1>2, <1>3
  <2> HIDE DEF b, j
  <2> QED
    BY <1>1, <1>2, <2>1 DEF Block
<1> HIDE DEF b, j
<1>5. PICK k \in Nat : j = k * d
  BY <1>1, <1>2, AlignedMultiple
<1>6. PICK m \in Nat : end = m * d
  <2>1. Aligned(end, o + 1)
    BY <1>1, AlignedDown
  <2> QED
    BY <1>1, <2>1, AlignedMultiple
<1> HIDE DEF d
<1>7. k * d < m * d
  BY <1>2, <1>4, <1>5, <1>6
<1>8. (k + 1) * d <= m * d
  BY <1>1, <1>7, MultiplesApart
<1>9. (k + 1) * d = j + d
  BY <1>1, <1>5
<1> QED
  BY <1>1, <1>2, <1>4, <1>6, <1>8, <1>9 DEF b

-----------------------------------------------------------------------------
(* Orders.                                                                 *)

(* 63 - count.leading_zeros() for a count that is not zero. *)
LEMMA HighestBitIs ==
  ASSUME NEW count \in Nat, count >= 1
  PROVE  /\ HighestBit(count) \in Nat
         /\ 2^HighestBit(count) <= count
         /\ count < 2^(HighestBit(count) + 1)
<1> DEFINE S == {o \in Nat : count < 2^(o + 1)}
           P(o) == 2^o <= count /\ count < 2^(o + 1)
<1>1. count \in S
  <2>1. count + 1 \in Nat /\ 2^(count + 1) > count + 1 /\ 2^(count + 1) \in Nat
    BY Pow2Above, Pow2Nat
  <2> QED
    BY <2>1
<1>2. PICK m \in S : \A k \in S : m <= k
  BY Zenon, <1>1, MinNat
<1>3. 2^m <= count
  <2>1. CASE m = 0
    BY <2>1
  <2>2. CASE m > 0
    <3>1. m - 1 \in Nat /\ m - 1 \notin S
      BY <1>2, <2>2
    <3>2. ~ (count < 2^((m - 1) + 1))
      BY <3>1
    <3>3. ~ (count < 2^m)
      BY <3>2, (m - 1) + 1 = m
    <3> QED
      BY <3>3, Pow2Nat
  <2> QED
    BY <2>1, <2>2, <1>2
<1>4. m \in 0 .. count /\ P(m)
  BY <1>1, <1>2, <1>3
<1>5. HighestBit(count) = CHOOSE o \in 0 .. count : P(o)
  BY DEF HighestBit
<1>6. HighestBit(count) \in 0 .. count /\ P(HighestBit(count))
  BY <1>4, <1>5
<1> QED
  BY <1>6

(* index.trailing_zeros() for an index that is not zero: the index is      *)
(* aligned to that order.                                                  *)
LEMMA TrailingZerosAligned ==
  ASSUME NEW i \in Nat, i >= 1
  PROVE  TrailingZeros(i) \in Nat /\ Aligned(i, TrailingZeros(i))
<1> DEFINE S == {o \in Nat : ~ Aligned(i, o + 1)}
           P(o) == Aligned(i, o) /\ Bit(i, o) = 1
<1>1. i \in S
  <2>1. i + 1 \in Nat /\ 2^(i + 1) \in Nat /\ 2^(i + 1) > i
    BY Pow2Above, Pow2Nat
  <2>2. ASSUME NEW k \in Nat, i = k * 2^(i + 1)
        PROVE  FALSE
    <3>1. k >= 1
      BY <2>1, <2>2
    <3>2. \A x \in Nat : k * x >= x
      BY <3>1
    <3> QED
      BY <2>1, <2>2, <3>2
  <2> QED
    BY <2>1, <2>2, AlignedMultiple
<1>2. PICK m \in S : \A k \in S : m <= k
  BY Zenon, <1>1, MinNat
<1>3. Aligned(i, m)
  <2>1. CASE m = 0
    <3>1. i = i * 2^0
      OBVIOUS
    <3> QED
      BY Zenon, <2>1, <3>1, AlignedMultiple
  <2>2. CASE m > 0
    <3>1. m - 1 \in Nat /\ m - 1 \notin S
      BY <1>2, <2>2
    <3>2. Aligned(i, (m - 1) + 1)
      BY <3>1
    <3> QED
      BY <3>2, (m - 1) + 1 = m
  <2> QED
    BY <1>2, <2>1, <2>2
<1>4. Bit(i, m) = 1
  <2>1. PICK n \in Nat : \/ i = n * 2^(m + 1)
                         \/ i = n * 2^(m + 1) + 2^m
    BY ZenonT(30), <1>2, <1>3, BuddyHalves
  <2>2. i # n * 2^(m + 1)
    BY <1>2, AlignedMultiple, m + 1 \in Nat
  <2>3. 2^m \in Nat /\ 2^m >= 1 /\ 2^(m + 1) = 2 * 2^m
    BY <1>2, Pow2Pos, Pow2Succ
  <2>4. \A x \in Nat : n * (2 * x) + x = (2 * n + 1) * x
    OBVIOUS
  <2>5. i = (2 * n + 1) * 2^m /\ 2 * n + 1 \in Nat
    BY <2>1, <2>2, <2>3, <2>4
  <2>6. i \div 2^m = 2 * n + 1
    BY <2>3, <2>5, DivOfMultiple
  <2> QED
    BY Zenon, <2>6, ParityOfBit
<1>5. m \in 0 .. i /\ P(m)
  BY <1>1, <1>2, <1>3, <1>4
<1>6. TrailingZeros(i) = CHOOSE o \in 0 .. i : P(o)
  BY DEF TrailingZeros
<1>7. TrailingZeros(i) \in 0 .. i /\ P(TrailingZeros(i))
  BY <1>5, <1>6
<1> QED
  BY <1>7

(* The order add_region() picks is an order of the free lists, the block   *)
(* is aligned, and it lies within the pages that are left: every round of  *)
(* the loop makes progress and none goes past the region.                  *)
THEOREM RegionOrderFits ==
  ASSUME NEW i \in Nat, NEW n \in Nat, n >= 1
  PROVE  LET o == region_order(i, n)
         IN  o \in Order /\ Aligned(i, o) /\ 2^o <= n
<1> DEFINE o == region_order(i, n)
           z == TrailingZeros(i)
           h == HighestBit(n)
<1>1. h \in Nat /\ 2^h <= n
  BY HighestBitIs
<1>2. z \in Nat
  BY TrailingZerosAligned DEF TrailingZeros
<1>3. MAX_ORDER \in Nat
  BY MaxOrderAssumption
<1>4. o \in Nat /\ o <= z /\ o <= h /\ o <= MAX_ORDER
  BY <1>1, <1>2, <1>3 DEF region_order, MinOf
<1>5. Aligned(i, o)
  <2>1. CASE i = 0
    <3>1. 0 = 0 * 2^o
      BY <1>4, Pow2Nat
    <3> QED
      BY <1>4, <2>1, <3>1, AlignedMultiple
  <2>2. CASE i >= 1
    BY <1>2, <1>4, <2>2, TrailingZerosAligned, AlignedDown
  <2> QED
    BY <2>1, <2>2
<1>6. 2^o <= n
  <2>1. 2^o <= 2^h
    BY <1>1, <1>4, Pow2Mono
  <2> QED
    BY <1>1, <1>4, <2>1, Pow2Nat
<1>7. o \in Order
  BY <1>3, <1>4 DEF Order
<1> QED
  BY <1>5, <1>6, <1>7

(* get_size_order(count) is the smallest order whose blocks hold count     *)
(* pages; without such an order the caller runs into the index panic.      *)
THEOREM SizeOrderIsTight ==
  ASSUME NEW count \in Nat, count >= 1
  PROVE  LET o == get_size_order(count)
         IN  \/ /\ o \in Order
                /\ count <= 2^o
                /\ \A p \in Order : count <= 2^p => o <= p
             \/ /\ o = NoOrder
                /\ count > 2^MAX_ORDER
<1> DEFINE h == HighestBit(count)
           needed == IF count # 2^h THEN h + 1 ELSE h
<1>1. h \in Nat /\ 2^h <= count /\ count < 2^(h + 1)
  BY HighestBitIs
<1>2. h + 1 \in Nat /\ 2^h \in Nat /\ 2^(h + 1) \in Nat
  BY <1>1, Pow2Nat
<1>3. MAX_ORDER \in Nat
  BY MaxOrderAssumption
<1>4. needed \in Nat /\ count <= 2^needed
  BY <1>1, <1>2
<1>5. ASSUME NEW p \in Nat, count <= 2^p
      PROVE  needed <= p
  <2>1. SUFFICES ASSUME p < needed PROVE FALSE
    BY <1>4
  <2>2. p <= h
    BY <1>1, <2>1
  <2>3. 2^p \in Nat /\ 2^p <= 2^h
    BY <1>1, <2>2, Pow2Mono, Pow2Nat
  <2>4. count = 2^h
    BY <1>1, <1>2, <1>5, <2>3
  <2>5. p < h
    BY <1>1, <2>1, <2>4
  <2>6. p + 1 \in Nat /\ 2^(p + 1) <= 2^h /\ 2^(p + 1) = 2 * 2^p
    BY <1>1, <2>5, Pow2Mono, Pow2Succ
  <2>7. 2^p >= 1
    BY Pow2Pos
  <2> QED
    BY <1>2, <1>5, <2>3, <2>4, <2>6, <2>7
<1>6. get_size_order(count) = IF needed > MAX_ORDER THEN NoOrder ELSE needed
  BY DEF get_size_order
<1> HIDE DEF needed, h
<1>7. CASE needed > MAX_ORDER
  <2>1. ~ (count <= 2^MAX_ORDER)
    BY <1>3, <1>4, <1>5, <1>7
  <2> QED
    BY <1>3, <1>6, <1>7, <2>1, Pow2Nat
<1>8. CASE ~ (needed > MAX_ORDER)
  <2>1. get_size_order(count) = needed /\ needed \in Order
    BY <1>3, <1>4, <1>6, <1>8 DEF Order
  <2>2. Order \subseteq Nat
    BY DEF Order
  <2> QED
    BY <1>4, <1>5, <2>1, <2>2
<1> QED
  BY <1>7, <1>8

=============================================================================
