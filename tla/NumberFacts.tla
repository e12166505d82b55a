----------------------------- MODULE NumberFacts -----------------------------
(***************************************************************************)
(* Facts about quotients and remainders that the proofs about caches,      *)
(* buckets and blocks rest on: the sizes divided by are parameters there,  *)
(* which the provers' arithmetic does not decide by itself.  And induction *)
(* for numbers up to a bound, by least counterexamples: a set takes the    *)
(* place of the operator that the library's induction theorems ask for.    *)
(***************************************************************************)
EXTENDS Integers, Sequences, WellFoundedInduction, TLAPS

\* Products of naturals are naturals, and grow with a factor.
LEMMA Products ==
  ASSUME NEW x \in Nat, NEW y \in Nat, NEW n \in Nat
  PROVE  x * n \in Nat /\ (x <= y => x * n <= y * n)
<1>1. x * n \in Nat
  OBVIOUS
<1>2. ASSUME x <= y PROVE x * n <= y * n
  <2>1. PICK k \in Nat : y = x + k
    <3>1. y - x \in Nat /\ y = x + (y - x)
      BY <1>2
    <3> QED BY <3>1
  <2>2. y * n = x * n + k * n /\ k * n \in Nat
    BY <2>1
  <2> QED BY <1>1, <2>2
<1> QED BY <1>1, <1>2

\* Quotient and remainder make up the dividend.
LEMMA Division ==
  ASSUME NEW a \in Nat, NEW n \in Nat \ {0}
  PROVE  /\ a \div n \in Nat /\ a % n \in 0 .. n - 1
         /\ a = (a \div n) * n + (a % n)
OBVIOUS

\* No other quotient does.
LEMMA QuotientIsUnique ==
  ASSUME NEW n \in Nat \ {0}, NEW t \in Nat, NEW r \in 0 .. n - 1
  PROVE  (t * n + r) \div n = t
<1> DEFINE a == t * n + r
           d == a \div n
<1>1. a \in Nat
  BY Products
<1>2. d \in Nat /\ a % n \in 0 .. n - 1 /\ a = d * n + (a % n)
  BY <1>1, Division
<1>3. t * n + r = d * n + (a % n)
  BY <1>2
<1> HIDE DEF d, a
<1>4. (t + 1) * n = t * n + n /\ (d + 1) * n = d * n + n /\ t * n \in Nat /\ d * n \in Nat
  BY <1>2, Products
<1>5. ~(d < t)
  <2> SUFFICES ASSUME d < t PROVE FALSE
    OBVIOUS
  <2>1. (d + 1) * n <= t * n
    BY <1>2, Products
  <2> QED BY <1>2, <1>3, <1>4, <2>1
<1>6. ~(t < d)
  <2> SUFFICES ASSUME t < d PROVE FALSE
    OBVIOUS
  <2>1. (t + 1) * n <= d * n
    BY <1>2, Products
  <2> QED BY <1>2, <1>3, <1>4, <2>1
<1>7. d = t
  BY <1>2, <1>5, <1>6
<1> QED BY <1>7, Zenon DEF d, a

\* No other remainder does.
LEMMA RemainderIsUnique ==
  ASSUME NEW n \in Nat \ {0}, NEW t \in Nat, NEW r \in 0 .. n - 1
  PROVE  (t * n + r) % n = r
<1> DEFINE a == t * n + r
<1>1. a \in Nat
  BY Products
<1>2. a = (a \div n) * n + (a % n) /\ a % n \in 0 .. n - 1
  BY <1>1, Division
<1>3. a \div n = t
  BY QuotientIsUnique
<1>4. a = t * n + (a % n)
  BY <1>2, <1>3
<1>5. t * n \in Nat /\ a = t * n + r
  BY Products
<1> HIDE DEF a
<1>6. a % n = r
  BY <1>2, <1>4, <1>5
<1> QED BY <1>6, Zenon DEF a

\* A number below the divisor is its own remainder.
LEMMA SmallRemainder ==
  ASSUME NEW n \in Nat \ {0}, NEW r \in 0 .. n - 1
  PROVE  r % n = r
<1>1. (0 * n + r) % n = r
  BY RemainderIsUnique
<1>2. 0 * n + r = r
  OBVIOUS
<1> QED BY <1>1, <1>2

\* The remainder of a successor, from that of the number.
LEMMA NextRemainder ==
  ASSUME NEW a \in Nat, NEW n \in Nat \ {0}
  PROVE  ((a % n) + 1) % n = (a + 1) % n
<1> DEFINE d == a \div n
           r == a % n
<1>1. d \in Nat /\ r \in 0 .. n - 1 /\ a = d * n + r
  BY Division
<1> HIDE DEF d, r
<1>2. CASE r + 1 < n
  <2>1. r + 1 \in 0 .. n - 1
    BY <1>1, <1>2
  <2>2. (d * n + (r + 1)) % n = r + 1 /\ (r + 1) % n = r + 1
    BY <1>1, <2>1, RemainderIsUnique, SmallRemainder
  <2>3. d * n + (r + 1) = a + 1
    BY <1>1
  <2>4. (r + 1) % n = (a + 1) % n
    BY <2>2, <2>3
  <2> QED BY <2>4, Zenon DEF r
<1>3. CASE r + 1 = n
  <2>1. 0 \in 0 .. n - 1
    BY <1>3, <1>1
  <2>2. (1 * n + 0) % n = 0 /\ ((d + 1) * n + 0) % n = 0
    BY <1>1, <2>1, RemainderIsUnique
  <2>3. 1 * n + 0 = r + 1 /\ (d + 1) * n + 0 = a + 1
    BY <1>1, <1>3
  <2>4. (r + 1) % n = (a + 1) % n
    BY <2>2, <2>3
  <2> QED BY <2>4, Zenon DEF r
<1> QED BY <1>1, <1>2, <1>3

\* Adding a multiple of the divisor adds to the quotient and leaves the remainder.
LEMMA MultipleAdded ==
  ASSUME NEW a \in Nat, NEW i \in Nat, NEW n \in Nat \ {0}, a % n = 0
  PROVE  (a + i) \div n = (a \div n) + (i \div n) /\ (a + i) % n = i % n
<1> DEFINE t == a \div n
           d == i \div n
           r == i % n
<1>1. t \in Nat /\ a = t * n
  <2>1. t \in Nat /\ a = t * n + (a % n) /\ t * n \in Nat
    BY Division, Products
  <2> QED BY <2>1
<1>2. d \in Nat /\ r \in 0 .. n - 1 /\ i = d * n + r
  BY Division
<1> HIDE DEF t, d, r
<1>3. a + i = (t + d) * n + r /\ t + d \in Nat
  <2>1. (t + d) * n = t * n + d * n /\ t * n \in Nat /\ d * n \in Nat
    BY <1>1, <1>2, Products
  <2> QED BY <1>1, <1>2, <2>1
<1>4. ((t + d) * n + r) \div n = t + d /\ ((t + d) * n + r) % n = r
  BY <1>2, <1>3, QuotientIsUnique, RemainderIsUnique
<1>5. (a + i) \div n = t + d /\ (a + i) % n = r
  BY <1>3, <1>4
<1> QED BY <1>5 DEF t, d, r

\* What is left of a number without its remainder is a multiple.
LEMMA WithoutRemainder ==
  ASSUME NEW a \in Nat, NEW n \in Nat \ {0}
  PROVE  a - (a % n) \in Nat /\ (a - (a % n)) % n = 0
<1> DEFINE d == a \div n
           r == a % n
<1>1. d \in Nat /\ r \in 0 .. n - 1 /\ a = d * n + r /\ d * n \in Nat
  BY Division, Products
<1> HIDE DEF d, r
<1>2. (d * n + 0) % n = 0 /\ d * n + 0 = a - r
  BY <1>1, RemainderIsUnique
<1>3. a - r \in Nat /\ (a - r) % n = 0
  BY <1>1, <1>2
<1> QED BY <1>3 DEF r

\* Between a multiple and a greater one there is room for the divisor.
LEMMA NextMultiple ==
  ASSUME NEW a \in Nat, NEW b \in Nat, NEW n \in Nat \ {0}, a % n = 0, b % n = 0, a < b
  PROVE  a + n <= b
<1> DEFINE t == a \div n
           u == b \div n
<1>1. t \in Nat /\ a = t * n /\ u \in Nat /\ b = u * n
  <2>1. /\ t \in Nat /\ a = t * n + (a % n) /\ t * n \in Nat
        /\ u \in Nat /\ b = u * n + (b % n) /\ u * n \in Nat
    BY Division, Products
  <2> QED BY <2>1
<1> HIDE DEF t, u
<1>2. ~(u <= t)
  <2> SUFFICES ASSUME u <= t PROVE FALSE
    OBVIOUS
  <2>1. u * n <= t * n
    BY <1>1, Products
  <2> QED BY <1>1, <2>1
<1>3. (t + 1) * n <= u * n
  <2>1. t + 1 \in Nat /\ t + 1 <= u
    BY <1>1, <1>2
  <2> QED BY <1>1, <2>1, Products
<1>4. (t + 1) * n = t * n + n
  BY <1>1
<1> QED BY <1>1, <1>3, <1>4

----------------------------------------------------------------------------
\* The order of the naturals, as a relation.
Less == {r \in Nat \X Nat : r[1] < r[2]}
\* The naturals are well founded.
LEMMA NatWF == IsWellFoundedOn(Less, Nat)
<1>1. IsWellFoundedOn(OpToRel(<, Nat), Nat)
  BY NatLessThanWellFounded
<1>2. Less = OpToRel(<, Nat)
  BY Zenon DEF Less, OpToRel
<1> QED BY <1>1, <1>2
\* Every nonempty set of naturals has a least element.
LEMMA LeastNatural ==
  ASSUME NEW T, T \subseteq Nat, T # {}
  PROVE \E x \in T : \A y \in T : x <= y
<1>1. PICK x \in T : \A y \in T : ~ (<<y,x>> \in Less)
  BY NatWF, WFMin
<1>2. \A y \in T : <<y, x>> \in Less <=> y < x
  BY DEF Less
<1>3. \A y \in T : ~ (y < x) /\ x \in Nat /\ y \in Nat
  BY <1>1, <1>2
<1>4. \A y \in T : x <= y
  BY <1>3
<1> QED BY <1>4

\* Induction, for a set: what has 0, and with a number up to N the next, has all of them.
LEMMA AllNaturals ==
  ASSUME NEW N \in Nat, NEW S, 0 \in S, \A n \in 0 .. N - 1 : n \in S => n + 1 \in S
  PROVE  0 .. N \subseteq S
<1> SUFFICES ASSUME NEW n \in 0 .. N, n \notin S PROVE FALSE
  OBVIOUS
<1> DEFINE T == { x \in 0 .. N : x \notin S }
<1>1. T \subseteq Nat /\ n \in T
  OBVIOUS
<1>2. PICK x \in T : \A y \in T : x <= y
  BY <1>1, LeastNatural, Zenon
<1>3. x # 0 /\ x \in 1 .. N /\ x \notin S
  OBVIOUS
<1>4. x - 1 \in 0 .. N - 1 /\ x - 1 \notin T
  BY <1>2, <1>3
<1>5. x - 1 \in S
  BY <1>4
<1> QED BY <1>3, <1>4, <1>5

\* The values t[0], ..., t[N] in A start with a and go on by step.
Runs(t, N, A, a, step) ==
  t \in [0 .. N -> A] /\ t[0] = a /\ \A j \in 1 .. N : t[j] = step[<<t[j - 1], j>>]

\* Recursion: the sequence of values that starts with a and goes on by step exists.
LEMMA Recursion ==
  ASSUME NEW N \in Nat, NEW A, NEW a \in A, NEW step \in [A \X (1 .. N) -> A]
  PROVE  \E t : Runs(t, N, A, a, step)
<1> DEFINE Good(t, n) == t[0] = a /\ \A j \in 1 .. n : t[j] = step[<<t[j - 1], j>>]
           S == { n \in 0 .. N : \E t \in [0 .. n -> A] : Good(t, n) }
<1>1. 0 \in S
  <2> DEFINE t == [j \in 0 .. 0 |-> a]
  <2>1. t \in [0 .. 0 -> A] /\ Good(t, 0)
    OBVIOUS
  <2> HIDE DEF t, Good
  <2> QED BY <2>1
<1>2. ASSUME NEW n \in 0 .. N - 1, n \in S
      PROVE  n + 1 \in S
  <2>1. PICK t \in [0 .. n -> A] : Good(t, n)
    BY <1>2
  <2> DEFINE s == [j \in 0 .. n + 1 |-> IF j = n + 1 THEN step[<<t[n], n + 1>>] ELSE t[j]]
  <2>2. t[n] \in A /\ n + 1 \in 1 .. N /\ step[<<t[n], n + 1>>] \in A
    OBVIOUS
  <2>3. s \in [0 .. n + 1 -> A]
    BY <2>2
  <2>4. s[n + 1] = step[<<t[n], n + 1>>] /\ \A j \in 0 .. n : s[j] = t[j]
    OBVIOUS
  <2> HIDE DEF s
  <2>5. Good(s, n + 1)
    <3>1. s[0] = a
      BY <2>1, <2>4
    <3>2. ASSUME NEW j \in 1 .. n + 1 PROVE s[j] = step[<<s[j - 1], j>>]
      <4>1. CASE j = n + 1
        BY <2>4, <4>1
      <4>2. CASE j # n + 1
        <5>1. j \in 1 .. n /\ j \in 0 .. n /\ j - 1 \in 0 .. n
          BY <4>2
        <5> QED BY <2>1, <2>4, <5>1
      <4> QED BY <4>1, <4>2
    <3> QED BY <3>1, <3>2
  <2> HIDE DEF Good
  <2> QED BY <2>2, <2>3, <2>5
<1> HIDE DEF S
<1>3. 0 .. N \subseteq S
  BY <1>1, <1>2, AllNaturals
<1>4. N \in S
  BY <1>3
<1> QED BY <1>4 DEF S, Runs
=============================================================================
