---------------------------- MODULE ProofLemmas -----------------------------
(***************************************************************************)
(* What the proofs about several components need of natural numbers and of  *)
(* sequences.  The induction theorems of the library take a predicate as a  *)
(* parameter; here induction is stated with a set in its place, which        *)
(* follows from the well-foundedness of < on Nat.                           *)
(***************************************************************************)
EXTENDS Integers, FiniteSetsExt, SequenceTheorems, WellFoundedInduction, TLAPS

NatLess == {p \in Nat \X Nat : p[1] < p[2]}

\* A set of natural numbers that has an element has a least one.
LEMMA LeastNat ==
  ASSUME NEW S, S \subseteq Nat, S # {}
  PROVE  \E x \in S : \A y \in S : x <= y
<1>1. OpToRel(<, Nat) = NatLess
  BY Zenon DEF OpToRel, NatLess
<1>2. IsWellFoundedOn(NatLess, Nat)
  BY <1>1, NatLessThanWellFounded, Zenon
<1>3. PICK x \in S : \A y \in S : ~ (<<y, x>> \in NatLess)
  BY <1>2, WFMin, Zenon
<1>4. \A y \in S : /\ <<y, x>> \in Nat \X Nat
                   /\ <<y, x>>[1] = y /\ <<y, x>>[2] = x
  OBVIOUS
<1>5. \A y \in S : ~ (y < x)
  BY <1>3, <1>4, Zenon DEF NatLess
<1>6. QED
  BY <1>5

\* A set that holds 0, and with each number below n the next one, holds all
\* numbers up to n.
LEMMA NatInductionIn ==
  ASSUME NEW S, NEW n \in Nat,
         0 \in S, \A k \in 0 .. n - 1 : k \in S => k + 1 \in S
  PROVE  0..n \subseteq S
<1> SUFFICES ASSUME (0..n) \ S # {} PROVE FALSE
  OBVIOUS
<1>1. PICK x \in (0..n) \ S : \A y \in (0..n) \ S : x <= y
  <2>1. (0..n) \ S \subseteq Nat
    OBVIOUS
  <2>2. QED
    BY <2>1, LeastNat
<1>2. x - 1 \in 0 .. n - 1
  BY <1>1
<1>3. x - 1 \in S
  BY <1>1, <1>2
<1>4. QED
  BY <1>1, <1>2, <1>3

\* g starts with a, and F[i] makes each value of the one before.
Recurses(g, n, a, F) == g[0] = a /\ \A i \in 1..n : g[i] = F[i][g[i - 1]]

\* A recursion over the numbers up to n has a table.
LEMMA RecursionIn ==
  ASSUME NEW n \in Nat, NEW D, NEW a \in D, NEW F \in [1..n -> [D -> D]]
  PROVE  \E g : g \in [0..n -> D] /\ Recurses(g, n, a, F)
<1> DEFINE Table(g, m) == g[0] = a /\ \A i \in 1..m : g[i] = F[i][g[i - 1]]
           S == {m \in 0..n : \E g \in [0..n -> D] : Table(g, m)}
<1>1. 0 \in S
  <2> DEFINE g == [i \in 0..n |-> a]
  <2>1. 0 \in 0..n /\ \A i : i \notin 1..0
    OBVIOUS
  <2>2. g \in [0..n -> D] /\ g[0] = a
    BY <2>1, Zenon
  <2> HIDE DEF g
  <2>3. QED
    BY <2>1, <2>2, Zenon
<1>2. ASSUME NEW m \in 0 .. n - 1, m \in S PROVE m + 1 \in S
  <2>1. PICK g \in [0..n -> D] : Table(g, m)
    BY <1>2, Zenon
  <2> DEFINE h == [i \in 0..n |-> IF i = m + 1 THEN F[m + 1][g[m]] ELSE g[i]]
  <2>2. /\ m + 1 \in 0..n /\ m + 1 \in 1..n /\ m \in 0..n /\ 0 \in 0..n /\ 0 # m + 1
        /\ m # m + 1 /\ (m + 1) - 1 = m
        /\ \A i \in 1 .. m + 1 : i # m + 1 => i \in 1..m /\ i \in 0..n
        /\ \A i \in 1..m : i - 1 \in 0..n /\ i - 1 # m + 1
    OBVIOUS
  <2>3. F[m + 1] \in [D -> D] /\ g[m] \in D
    BY <2>2, Zenon
  <2>4. h \in [0..n -> D]
    BY <2>3, Zenon
  <2>5. h[0] = a /\ h[m + 1] = F[m + 1][g[m]] /\ h[m] = g[m]
        /\ \A i \in 1..m : i \in 0..n => h[i] = g[i] /\ h[i - 1] = g[i - 1]
    <3>1. \A i \in 1..m : i # m + 1
      OBVIOUS
    <3>2. QED
      BY <2>1, <2>2, <3>1, Zenon
  <2> HIDE DEF h
  <2>6. ASSUME NEW i \in 1 .. m + 1 PROVE h[i] = F[i][h[i - 1]]
    <3>1. CASE i = m + 1
      BY <2>2, <2>5, <3>1, Zenon
    <3>2. CASE i # m + 1
      BY <2>1, <2>2, <2>5, <3>2, Zenon
    <3>3. QED
      BY <3>1, <3>2, Zenon
  <2>7. QED
    BY <2>2, <2>4, <2>5, <2>6, Zenon
<1> HIDE DEF S
<1>3. n \in S
  <2>1. 0..n \subseteq S
    BY <1>1, <1>2, NatInductionIn, Zenon
  <2>2. n \in 0..n
    OBVIOUS
  <2>3. QED
    BY <2>1, <2>2, Zenon
<1>4. QED
  BY <1>3, Zenon DEF S, Recurses

\* Max is FiniteSetsExt's CHOOSE: what it is, where there is a largest element.
LEMMA MaxIs ==
  ASSUME NEW S, S \subseteq Int, NEW m \in S, \A x \in S : x <= m
  PROVE  Max(S) = m
<1>1. \E x \in S : \A y \in S : x >= y
  OBVIOUS
<1>2. Max(S) \in S /\ \A y \in S : Max(S) >= y
  BY <1>1, Zenon DEF Max
<1>3. Max(S) \in Int /\ m \in Int /\ Max(S) >= m /\ Max(S) <= m
  BY <1>2, Zenon
<1>4. QED
  BY <1>3

\* A new largest element.
LEMMA MaxAdded ==
  ASSUME NEW S, S \subseteq Int, NEW m \in Int, \A x \in S : x < m
  PROVE  Max(S \cup {m}) = m
<1>1. S \cup {m} \subseteq Int /\ m \in S \cup {m} /\ \A x \in S \cup {m} : x <= m
  OBVIOUS
<1>2. QED
  BY <1>1, MaxIs

\* A bounded set of natural numbers that has an element has a largest one.
LEMMA MaxBounded ==
  ASSUME NEW n \in Nat, NEW S, S \subseteq 0..n, S # {}
  PROVE  Max(S) \in S /\ \A x \in S : x <= Max(S)
<1> DEFINE T == {n - x : x \in S}
<1>1. T \subseteq Nat /\ T # {}
  <2>1. \A x \in S : n - x \in Nat
    OBVIOUS
  <2>2. PICK x \in S : TRUE
    OBVIOUS
  <2>3. n - x \in T
    BY <2>2
  <2>4. QED
    BY <2>1, <2>3
<1>2. PICK t \in T : \A y \in T : t <= y
  BY <1>1, LeastNat
<1>3. PICK m \in S : t = n - m
  OBVIOUS
<1>4. \A x \in S : x <= m
  <2> SUFFICES ASSUME NEW x \in S PROVE x <= m
    OBVIOUS
  <2>1. n - x \in T
    OBVIOUS
  <2>2. n - m <= n - x
    BY <1>2, <1>3, <2>1
  <2>3. QED
    BY <2>2
<1>5. S \subseteq Int
  OBVIOUS
<1>6. QED
  BY <1>4, <1>5, MaxIs

\* Min of a set of natural numbers.
LEMMA MinOfNats ==
  ASSUME NEW S, S \subseteq Nat, S # {}
  PROVE  Min(S) \in S /\ \A x \in S : Min(S) <= x
<1>1. \E x \in S : \A y \in S : x <= y
  BY LeastNat
<1>2. QED
  BY <1>1, Zenon DEF Min

LEMMA FunctionIsSeq ==
  ASSUME NEW S, NEW n \in Nat, NEW f \in [1..n -> S]
  PROVE  f \in Seq(S)
BY SeqDef, Zenon

\* A sequence whose elements are in T is one over T.
LEMMA SeqRetyped ==
  ASSUME NEW S, NEW T, NEW s \in Seq(S), \A i \in 1..Len(s) : s[i] \in T
  PROVE  s \in Seq(T)
<1>1. s \in [1..Len(s) -> S] /\ Len(s) \in Nat
  BY LenProperties
<1>2. s \in [1..Len(s) -> T]
  BY <1>1, Zenon
<1>3. QED
  BY <1>1, <1>2, FunctionIsSeq

-----------------------------------------------------------------------------
(* Division. *)

\* Quotient and remainder, as the solver knows them for integers...
LEMMA DivMod ==
  ASSUME NEW a \in Int, NEW c \in Int, c > 0
  PROVE  a = c * (a \div c) + (a % c)
OBVIOUS

\* ... and for natural numbers.
LEMMA ModOf ==
  ASSUME NEW a \in Nat, NEW c \in Nat, c > 0
  PROVE  /\ a % c \in 0 .. c - 1
         /\ a \div c \in Nat /\ a = c * (a \div c) + (a % c)
<1>1. a % c \in 0 .. c - 1
  OBVIOUS
<1>2. a \div c \in Int
  OBVIOUS
<1>3. a = c * (a \div c) + (a % c)
  BY DivMod
<1>4. a \div c >= 0
  OBVIOUS
<1>5. QED
  BY <1>1, <1>2, <1>3, <1>4

\* Two numbers with the same remainder differ by a multiple.
LEMMA SameMod ==
  ASSUME NEW a \in Nat, NEW b \in Nat, NEW c \in Nat, c > 0, a % c = b % c
  PROVE  \E q \in Int : a - b = q * c
<1>1. /\ a \div c \in Nat /\ a = c * (a \div c) + (a % c)
      /\ b \div c \in Nat /\ b = c * (b \div c) + (b % c)
  BY ModOf
<1>2. PICK x \in Nat, y \in Nat : a = c * x + (a % c) /\ b = c * y + (b % c)
  BY <1>1, Zenon
<1>3. PICK r \in Int : r = a % c
  OBVIOUS
<1>4. a = c * x + r /\ b = c * y + r
  BY <1>2, <1>3, Zenon
<1>5. a - b = (x - y) * c
  BY <1>4
<1>6. x - y \in Int
  OBVIOUS
<1>7. QED
  BY <1>5, <1>6, Zenon

\* A multiple has no remainder.
LEMMA Divides ==
  ASSUME NEW c \in Nat, NEW d \in Nat, d > 0, NEW q \in Nat, c = q * d
  PROVE  c % d = 0
OBVIOUS
=============================================================================
