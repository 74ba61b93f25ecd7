------------------------- MODULE ModularArithmetic --------------------------
(***************************************************************************)
(* Facts about the remainder of natural numbers, for the rings of this     *)
(* project: their counters wrap around at the word size and their slots    *)
(* are addressed by counter modulo capacity.  And induction, as a fact     *)
(* about sets of numbers.                                                  *)
(***************************************************************************)
EXTENDS Integers, WellFoundedInduction, TLAPS

(* Quotient and remainder exist and rebuild the number.                    *)
LEMMA DivMod ==
    ASSUME NEW n \in Nat, NEW m \in Nat \ {0}
    PROVE  /\ n \div m \in Nat
           /\ n % m \in 0 .. m - 1
           /\ n = m * (n \div m) + (n % m)
  BY SMT

(* A decomposition with a remainder in range is the decomposition.         *)
LEMMA ModUnique ==
    ASSUME NEW n \in Nat, NEW m \in Nat \ {0},
           NEW q \in Nat, NEW r \in 0 .. m - 1, n = m * q + r
    PROVE  n % m = r
  BY SMT

(* Wrapping at a multiple of c does not disturb the remainder modulo c.    *)
LEMMA NestedMod ==
    ASSUME NEW n \in Nat, NEW m \in Nat \ {0}, NEW c \in Nat \ {0}, m % c = 0
    PROVE  (n % m) % c = n % c
  <1>1. PICK q \in Nat, r \in 0 .. m - 1 : n = m * q + r /\ r = n % m
    BY DivMod
  <1>2. PICK k \in Nat : m = c * k
    <2>1. m \div c \in Nat /\ m = c * (m \div c) + (m % c)
      BY DivMod
    <2>2. m = c * (m \div c)
      BY <2>1
    <2> QED BY <2>1, <2>2
  <1>3. r \in Nat
    OBVIOUS
  <1>4. PICK s \in Nat, t \in 0 .. c - 1 : r = c * s + t /\ t = r % c
    BY <1>3, DivMod
  <1>5. n = c * (k * q + s) + t
    <2>1. (c * k) * q = c * (k * q)
      OBVIOUS
    <2>2. c * (k * q + s) = c * (k * q) + c * s
      OBVIOUS
    <2>3. n = (c * k) * q + (c * s + t)
      BY <1>1, <1>2, <1>4
    <2> QED BY <2>1, <2>2, <2>3
  <1>6. k * q + s \in Nat
    OBVIOUS
  <1>7. n % c = t
    BY <1>5, <1>6, ModUnique
  <1> QED BY <1>1, <1>4, <1>7

(* Adding less than the modulus: the remainder moves by that much, modulo  *)
(* one wrap.                                                               *)
LEMMA ModAdd ==
    ASSUME NEW n \in Nat, NEW m \in Nat \ {0}, NEW d \in 0 .. m - 1
    PROVE  (n + d) % m = IF (n % m) + d < m THEN (n % m) + d ELSE (n % m) + d - m
  <1>1. PICK q \in Nat, r \in 0 .. m - 1 : n = m * q + r /\ r = n % m
    BY DivMod
  <1>2. n + d \in Nat /\ q + 1 \in Nat
    OBVIOUS
  <1>3. CASE r + d < m
    <2>1. n + d = m * q + (r + d) /\ r + d \in 0 .. m - 1
      BY <1>1, <1>3
    <2>2. (n + d) % m = r + d
      BY <2>1, <1>2, ModUnique
    <2> QED BY <2>2, <1>1, <1>3
  <1>4. CASE r + d >= m
    <2> m * (q + 1) = m * q + m
      OBVIOUS
    <2>1. n + d = m * (q + 1) + (r + d - m)
      BY <1>1
    <2>2. r + d - m \in 0 .. m - 1
      BY <1>4
    <2>3. (n + d) % m = r + d - m
      BY <2>1, <2>2, <1>2, ModUnique
    <2> QED BY <2>3, <1>1, <1>4
  <1> QED BY <1>3, <1>4

(* The remainder of the successor: one more, or zero at the wrap.          *)
LEMMA ModSucc ==
    ASSUME NEW n \in Nat, NEW m \in Nat \ {0}
    PROVE  (n + 1) % m = IF n % m = m - 1 THEN 0 ELSE (n % m) + 1
  <1>1. n + 1 \in Nat /\ n % m \in 0 .. m - 1
    BY DivMod
  <1>2. (n + 1) % m \in 0 .. m - 1
    BY <1>1, DivMod
  <1>3. CASE m = 1
    BY <1>1, <1>2, <1>3
  <1>4. CASE m # 1
    <2>1. 1 \in 0 .. m - 1
      BY <1>4
    <2>2. (n + 1) % m = IF (n % m) + 1 < m THEN (n % m) + 1 ELSE (n % m) + 1 - m
      BY <2>1, ModAdd
    <2> QED BY <1>1, <2>2
  <1> QED BY <1>3, <1>4

(* Two numbers less than m apart have the same remainder only if equal.    *)
LEMMA ModDistinct ==
    ASSUME NEW a \in Nat, NEW b \in Nat, NEW m \in Nat \ {0},
           a < b, b - a < m
    PROVE  a % m # b % m
  <1>1. b - a \in 0 .. m - 1 /\ b = a + (b - a)
    OBVIOUS
  <1>2. b % m = IF (a % m) + (b - a) < m THEN (a % m) + (b - a)
                                         ELSE (a % m) + (b - a) - m
    BY <1>1, ModAdd
  <1>3. a % m \in 0 .. m - 1
    BY DivMod
  <1> QED BY <1>1, <1>2, <1>3

(* A multiple of c that is added does not disturb the remainder.           *)
LEMMA ModPlusMultiple ==
    ASSUME NEW n \in Nat, NEW m \in Nat, NEW c \in Nat \ {0}, m % c = 0
    PROVE  (n + m) % c = n % c
  <1>1. PICK q \in Nat, r \in 0 .. c - 1 : n = c * q + r /\ r = n % c
    BY DivMod
  <1>2. PICK k \in Nat : m = c * k
    <2>1. m \div c \in Nat /\ m = c * (m \div c) + (m % c)
      BY DivMod
    <2>2. m = c * (m \div c)
      BY <2>1
    <2> QED BY <2>1, <2>2
  <1>3. n + m = c * (q + k) + r
    <2>1. c * (q + k) = c * q + c * k
      OBVIOUS
    <2>2. n + m = (c * q + r) + c * k
      BY <1>1, <1>2
    <2> QED BY <2>1, <2>2
  <1>4. q + k \in Nat /\ n + m \in Nat
    OBVIOUS
  <1>5. (n + m) % c = r
    BY <1>3, <1>4, ModUnique
  <1> QED BY <1>1, <1>5

(* Multiplication by a natural number keeps the order.                     *)
LEMMA TimesMonotone ==
    ASSUME NEW a \in Nat, NEW b \in Nat, NEW c \in Nat, a <= b
    PROVE  a * c <= b * c /\ a * c \in Nat
  <1>1. b * c = a * c + (b - a) * c
    OBVIOUS
  <1>2. (b - a) * c \in Nat /\ a * c \in Nat
    OBVIOUS
  <1> QED BY <1>1, <1>2

-----------------------------------------------------------------------------
(* A set of natural numbers that is not empty has a smallest one.          *)
LEMMA SmallestNumber ==
    ASSUME NEW S, S \subseteq Nat, S # {}
    PROVE  \E x \in S : \A y \in S : x <= y
  <1> DEFINE R == OpToRel(<, Nat)
  <1>1. IsWellFoundedOn(R, Nat)
    BY NatLessThanWellFounded
  <1>2. \A x, y \in Nat : y < x => <<y, x>> \in R
    BY DEF OpToRel
  <1> HIDE DEF R
  <1>3. PICK x \in S : \A y \in S : ~(<<y, x>> \in R)
    BY <1>1, WFMin
  <1>4. ASSUME NEW y \in S PROVE x <= y
    <2>1. x \in Nat /\ y \in Nat /\ ~(<<y, x>> \in R)
      BY <1>3
    <2>2. ~(y < x)
      BY <1>2, <2>1
    <2> QED BY <2>1, <2>2
  <1> QED BY <1>4

(* Induction over the natural numbers, for a set.                          *)
LEMMA Induction ==
    ASSUME NEW S, 0 \in S, \A n \in Nat : n \in S => n + 1 \in S
    PROVE  \A n \in Nat : n \in S
  <1> DEFINE T == Nat \ S
  <1>1. SUFFICES ASSUME T # {} PROVE FALSE
    OBVIOUS
  <1>2. PICK x \in T : \A y \in T : x <= y
    <2>1. T \subseteq Nat
      OBVIOUS
    <2> HIDE DEF T
    <2> QED BY <1>1, <2>1, SmallestNumber
  <1>3. x \in Nat /\ x \notin S /\ x # 0
    OBVIOUS
  <1>4. x - 1 \in Nat /\ (x - 1) + 1 = x /\ ~(x <= x - 1)
    BY <1>3
  <1>5. x - 1 \in S
    BY <1>2, <1>4
  <1> QED BY <1>3, <1>4, <1>5
=============================================================================
