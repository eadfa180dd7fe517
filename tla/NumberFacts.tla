----------------------------- MODULE NumberFacts ----------------------------
(***************************************************************************)
(* Facts that the other proofs rest on: about quotient and remainder, since *)
(* cursors, sequence numbers, units of the fragment offset and aligned     *)
(* records all wrap or round with % and \div, and about least elements,    *)
(* since the scans of the code stop at the first match.                    *)
(***************************************************************************)
EXTENDS Integers, WellFoundedInduction, TLAPS

(* A number is its divisor times a quotient, plus a smaller remainder. *)
LEMMA Division ==
    ASSUME NEW n \in Nat, n > 0, NEW a \in Int
    PROVE  /\ a % n \in 0 .. (n - 1)
           /\ \E q \in Int : a = n * q + (a % n)
<1>1. a % n \in 0 .. (n - 1)
  OBVIOUS
<1>2. a \div n \in Int /\ a = n * (a \div n) + (a % n)
  OBVIOUS
<1> QED BY <1>1, <1>2

(* Quotient and remainder are unique. *)
LEMMA DivisionUnique ==
    ASSUME NEW n \in Nat, n > 0, NEW q1 \in Int, NEW q2 \in Int,
           NEW r1 \in 0 .. (n - 1), NEW r2 \in 0 .. (n - 1),
           n * q1 + r1 = n * q2 + r2
    PROVE  r1 = r2 /\ q1 = q2
<1>1. CASE q1 >= q2 + 1
  <2>1. n * q1 >= n * (q2 + 1)
    BY <1>1
  <2> QED BY <2>1
<1>2. CASE q2 >= q1 + 1
  <2>1. n * q2 >= n * (q1 + 1)
    BY <1>2
  <2> QED BY <2>1
<1> QED BY <1>1, <1>2

(* A number that is a multiple of n plus r < n has remainder r. *)
LEMMA Remainder ==
    ASSUME NEW n \in Nat, n > 0, NEW a \in Int, NEW q \in Int,
           NEW r \in 0 .. (n - 1), a = n * q + r
    PROVE  a % n = r
<1>1. PICK p \in Int : a = n * p + (a % n)
  BY Division
<1>2. a % n \in 0 .. (n - 1)
  BY Division
<1>3. n * p + (a % n) = n * q + r
  BY <1>1
<1>4. \A x \in 0 .. (n - 1) : n * p + x = n * q + r => x = r
  BY DivisionUnique
<1> QED BY <1>2, <1>3, <1>4

(* Reducing modulo a multiple first does not change a remainder. *)
LEMMA RemainderOfMultiple ==
    ASSUME NEW n \in Nat, n > 0, NEW w \in Nat, w > 0, w % n = 0,
           NEW a \in Int
    PROVE  (a % w) % n = a % n
<1>1. PICK m \in Int : w = n * m
  <2>1. PICK m \in Int : w = n * m + (w % n)
    BY Division
  <2>2. w = n * m
    BY <2>1
  <2> QED BY <2>2
<1>2. PICK q \in Int : a = w * q + (a % w)
  BY Division
<1>3. a % w \in Int /\ a % n \in 0 .. (n - 1)
  BY Division
<1>4. PICK p \in Int : a = n * p + (a % n)
  BY Division
<1> DEFINE r == a % n
           b == a % w
<1>5. b \in Int /\ r \in 0 .. (n - 1) /\ a = w * q + b /\ a = n * p + r
  BY <1>2, <1>3, <1>4
<1> HIDE DEF r, b
<1>6. w * q = n * (m * q)
  BY <1>1
<1>7. n * (p - m * q) = n * p - n * (m * q)
  OBVIOUS
<1>8. p - m * q \in Int /\ b = n * (p - m * q) + r
  BY <1>5, <1>6, <1>7
<1>9. b % n = r
  BY <1>5, <1>8, Remainder
<1> QED BY <1>9 DEF r, b

(* Numbers with one remainder are a multiple of n apart. *)
LEMMA SameRemainder ==
    ASSUME NEW n \in Nat, n > 0, NEW a \in Int, NEW b \in Int,
           a < b, b - a < n
    PROVE  a % n # b % n
<1>1. PICK p \in Int : a = n * p + (a % n)
  BY Division
<1>2. PICK q \in Int : b = n * q + (b % n)
  BY Division
<1> DEFINE r == a % n
<1>3. SUFFICES ASSUME b % n = r PROVE FALSE
  OBVIOUS
<1>4. r \in Int /\ a = n * p + r /\ b = n * q + r
  BY <1>1, <1>2, <1>3, Division
<1> HIDE DEF r
<1>5. n * (q - p) = n * q - n * p
  OBVIOUS
<1>6. b - a = n * (q - p)
  BY <1>4, <1>5
<1>7. CASE q - p >= 1
  <2>1. n * (q - p) >= n
    BY <1>7
  <2> QED BY <1>6, <2>1
<1>8. CASE q - p <= 0
  <2>1. n * (q - p) <= 0
    BY <1>8
  <2> QED BY <1>6, <2>1
<1> QED BY <1>7, <1>8

(* Subtracting remainders modulo n gives the distance, when it is below n. *)
LEMMA RemainderDistance ==
    ASSUME NEW n \in Nat, n > 0, NEW a \in Int, NEW b \in Int,
           a <= b, b - a < n
    PROVE  ((b % n) - (a % n)) % n = b - a
<1>1. PICK p \in Int : a = n * p + (a % n)
  BY Division
<1>2. PICK q \in Int : b = n * q + (b % n)
  BY Division
<1> DEFINE r == a % n
           s == b % n
<1>3. r \in Int /\ s \in Int /\ a = n * p + r /\ b = n * q + s
  BY <1>1, <1>2, Division
<1> HIDE DEF r, s
<1>4. n * (p - q) = n * p - n * q
  OBVIOUS
<1>5. /\ s - r \in Int
      /\ p - q \in Int
      /\ b - a \in 0 .. (n - 1)
      /\ s - r = n * (p - q) + (b - a)
  BY <1>3, <1>4
<1>6. (s - r) % n = b - a
  BY <1>5, Remainder
<1> QED BY <1>6 DEF r, s

(* The sum and the difference of two multiples are multiples. *)
LEMMA MultiplesAdd ==
    ASSUME NEW n \in Nat, n > 0, NEW a \in Int, NEW b \in Int,
           a % n = 0, b % n = 0
    PROVE  (a + b) % n = 0 /\ (a - b) % n = 0
<1>1. PICK p \in Int : a = n * p + (a % n)
  BY Division
<1>2. PICK q \in Int : b = n * q + (b % n)
  BY Division
<1>3. n * (p + q) = n * p + n * q /\ n * (p - q) = n * p - n * q
  OBVIOUS
<1>4. /\ a + b = n * (p + q) + 0 /\ a - b = n * (p - q) + 0
      /\ p + q \in Int /\ p - q \in Int /\ 0 \in 0 .. (n - 1)
      /\ a + b \in Int /\ a - b \in Int
  BY <1>1, <1>2, <1>3
<1> QED BY <1>4, Remainder

(* Different multiples of n are at least n apart. *)
LEMMA MultiplesApart ==
    ASSUME NEW n \in Nat, n > 0, NEW a \in Int, NEW b \in Int,
           a % n = 0, b % n = 0, a < b
    PROVE  a + n <= b
<1>1. a % n = b % n
  OBVIOUS
<1> QED BY <1>1, SameRemainder

(* Quotients grow with the dividend. *)
LEMMA QuotientGrows ==
    ASSUME NEW n \in Nat, n > 0, NEW a \in Nat, NEW b \in Nat
    PROVE  /\ a \div n \in Nat /\ n * (a \div n) <= a
           /\ a <= b => a \div n <= b \div n
           /\ a + n <= b => a \div n < b \div n
<1> DEFINE p == a \div n
           q == b \div n
           r == a % n
           s == b % n
<1>1. /\ p \in Int /\ q \in Int /\ r \in 0 .. (n - 1) /\ s \in 0 .. (n - 1)
      /\ a = n * p + r /\ b = n * q + s
  BY Division
<1> HIDE DEF p, q, r, s
<1>2. p >= 0
  <2>1. ASSUME p <= -1 PROVE FALSE
    <3>1. n * p <= n * (-1)
      BY <1>1, <2>1
    <3> QED BY <1>1, <3>1
  <2> QED BY <1>1, <2>1
<1>3. ASSUME a <= b PROVE p <= q
  <2>1. ASSUME q + 1 <= p PROVE FALSE
    <3>1. n * (q + 1) <= n * p
      BY <1>1, <2>1
    <3>2. n * (q + 1) = n * q + n
      BY <1>1
    <3> QED BY <1>1, <1>3, <3>1, <3>2
  <2> QED BY <1>1, <2>1
<1>4. ASSUME a + n <= b PROVE p < q
  <2>1. ASSUME q <= p PROVE FALSE
    <3>1. n * q <= n * p
      BY <1>1, <2>1
    <3> QED BY <1>1, <1>4, <3>1
  <2> QED BY <1>1, <2>1
<1> QED BY <1>1, <1>2, <1>3, <1>4 DEF p, q

(* Every set of naturals that is not empty has a least element. *)
LEMMA LeastElement ==
    ASSUME NEW T, T \subseteq Nat, T # {}
    PROVE  \E x \in T : \A y \in T : x <= y
<1> DEFINE R == OpToRel(<, Nat)
<1>1. IsWellFoundedOn(R, Nat)
  BY NatLessThanWellFounded
<1>2. \A x, y \in Nat : y < x => <<y, x>> \in R
  BY DEF OpToRel
<1> HIDE DEF R
<1>3. PICK x \in T : \A y \in T : ~(<<y, x>> \in R)
  BY <1>1, WFMin
<1>4. ASSUME NEW y \in T PROVE x <= y
  <2>1. x \in Nat /\ y \in Nat /\ ~(<<y, x>> \in R)
    BY <1>3
  <2>2. ~(y < x)
    BY <1>2, <2>1
  <2> QED BY <2>1, <2>2
<1> QED BY <1>4
=============================================================================
