----------------------------- MODULE Arithmetic -----------------------------
(***************************************************************************)
(* Natural numbers, as the provers need them told: division and products,  *)
(* of which offsets in an image are made, and induction, by which what a   *)
(* recursive function gives is proved.  Induction is stated of a set of    *)
(* numbers, not of a predicate, which no installed prover can instantiate. *)
(***************************************************************************)
EXTENDS Integers, WellFoundedInduction, TLAPS

\* A set of natural numbers that is not empty has a least one.
LEMMA LeastMember ==
  ASSUME NEW T \in SUBSET Nat, T # {}
  PROVE  \E x \in T : \A y \in T : x <= y
  <1>1. IsWellFoundedOn(OpToRel(<, Nat), Nat)
    BY NatLessThanWellFounded, Zenon
  <1>2. \A R, S : IsWellFoundedOn(R, S) =>
          \A U : U \subseteq S /\ U # {} =>
            \E x \in U : \A y \in U : ~ (<<y, x>> \in R)
    BY WFMin, Zenon
  <1>3. PICK x \in T : \A y \in T : ~ (<<y, x>> \in OpToRel(<, Nat))
    BY <1>1, <1>2, Zenon
  <1>4. \A y \in T : ~ (y < x)
    BY <1>3 DEF OpToRel
  <1> QED
    BY <1>4

\* A set of natural numbers that has each one all lesser ones of which it has
\* is the set of all.
LEMMA Induction ==
  ASSUME NEW T \in SUBSET Nat,
         \A k \in Nat : (\A j \in Nat : j < k => j \in T) => k \in T
  PROVE  \A k \in Nat : k \in T
  <1> DEFINE U == Nat \ T
  <1> SUFFICES ASSUME U # {} PROVE FALSE
    OBVIOUS
  <1>1. PICK x \in U : \A y \in U : x <= y
    BY LeastMember
  <1>2. \A j \in Nat : j < x => j \in T
    BY <1>1
  <1> QED
    BY <1>1, <1>2

\* The remainder of what is r more than a multiple of m.
LEMMA ModIs ==
  ASSUME NEW m \in Nat \ {0}, NEW q \in Nat, NEW r \in Nat, r < m
  PROVE  (q * m + r) % m = r
  <1> DEFINE x == q * m + r
  <1>1. q * m \in Nat /\ x \in Nat
    OBVIOUS
  <1>2. PICK d \in Int : x = d * m + (x % m)
    <2>1. x = (x \div m) * m + (x % m) /\ x \div m \in Int
      <3> HIDE DEF x
      <3> QED
        BY <1>1
    <2> QED
      BY <2>1
  <1>3. x % m \in 0 .. m - 1
    OBVIOUS
  <1>4. d = q
    <2>1. CASE d < q
      <3>1. d + 1 <= q
        BY <2>1
      <3>2. (d + 1) * m <= q * m
        BY <3>1
      <3>3. (d + 1) * m = d * m + m
        OBVIOUS
      <3> QED
        BY <3>2, <3>3, <1>2, <1>3, <1>1
    <2>2. CASE q < d
      <3>1. (q + 1) * m <= d * m
        BY <2>2
      <3>2. (q + 1) * m = q * m + m
        OBVIOUS
      <3> QED
        BY <3>1, <3>2, <1>2, <1>3, <1>1
    <2> QED
      BY <2>1, <2>2
  <1> QED
    BY <1>2, <1>4, <1>1, <1>3

\* The quotient of a multiple of m.
LEMMA DivIs ==
  ASSUME NEW m \in Nat \ {0}, NEW q \in Nat
  PROVE  (q * m) \div m = q
  <1> DEFINE x == q * m
             d == x \div m
  <1>1. x \in Nat
    OBVIOUS
  <1>2. (q * m + 0) % m = 0
    BY ModIs
  <1>3. x % m = 0
    BY <1>2, <1>1
  <1>4. d \in Int /\ x = d * m
    <2> HIDE DEF x
    <2> QED
      BY <1>1, <1>3
  <1>5. d = q
    <2> HIDE DEF d
    <2>1. CASE d < q
      <3>1. (d + 1) * m <= q * m /\ (d + 1) * m = d * m + m
        BY <2>1, <1>4
      <3> QED
        BY <3>1, <1>4
    <2>2. CASE q < d
      <3>1. (q + 1) * m <= d * m /\ (q + 1) * m = q * m + m
        BY <2>2, <1>4
      <3> QED
        BY <3>1, <1>4
    <2> QED
      BY <2>1, <2>2, <1>4
  <1> QED
    BY <1>5

\* A product grows with its first factor, by the second for each one.
LEMMA Products ==
  ASSUME NEW m \in Nat, NEW a \in Nat, NEW b \in Nat
  PROVE  /\ a * m \in Nat
         /\ (a + 1) * m = a * m + m
         /\ (a + b) * m = a * m + b * m
         /\ a <= b => a * m <= b * m
         /\ m >= 1 => a <= a * m
  OBVIOUS

\* What is subtracted from a whole span and multiplied is, reduced, what is
\* left of the span.
LEMMA ModLess ==
  ASSUME NEW u \in Nat \ {0}, NEW m \in Nat \ {0}, NEW k \in Nat \ {0}, k * m < u
  PROVE  ((u - k) * m) % u = u - k * m
  <1> DEFINE r == u - k * m
  <1>1. k * m \in Nat /\ k * m >= 1 /\ k < u
    BY Products
  <1>2. r \in Nat /\ r < u
    BY <1>1
  <1>3. (u - k) * m = (m - 1) * u + r
    <2>1. (u - k) * m = u * m - k * m
      BY <1>1
    <2>2. (m - 1) * u = u * m - u
      OBVIOUS
    <2>3. u * m \in Nat
      OBVIOUS
    <2> QED
      BY <1>1, <2>1, <2>2, <2>3
  <1> HIDE DEF r
  <1>4. ((m - 1) * u + r) % u = r
    BY <1>2, ModIs
  <1> QED
    BY <1>3, <1>4 DEF r
=============================================================================
