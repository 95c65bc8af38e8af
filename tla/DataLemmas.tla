----------------------------- MODULE DataLemmas -----------------------------
(***************************************************************************)
(* What the proofs about data rest on: induction over the naturals stated  *)
(* of sets, functions defined by a step from the value before, powers of   *)
(* two, quotients and remainders, and concatenations.                      *)
(***************************************************************************)
EXTENDS Integers, Sequences, SequencesExt, FiniteSetTheorems, SequenceTheorems,
        NaturalsInduction, WellFoundedInduction, TLAPS

-----------------------------------------------------------------------------
(* Induction on numbers, stated of sets: a set of numbers has a least one.  *)

LEMMA Least ==
    ASSUME NEW S \in SUBSET Nat, S # {}
    PROVE  \E n \in S : \A m \in S : n <= m
<1> DEFINE R == {ss \in Nat \X Nat : ss[1] < ss[2]}
<1>1. IsWellFoundedOn(R, Nat)
  BY NatLessThanWellFounded DEF OpToRel
<1>2. \A m, n \in Nat : m < n => <<m, n>> \in R
  OBVIOUS
<1> HIDE DEF R
<1>3. \E n \in S : \A m \in S : ~ (<<m, n>> \in R)
  BY <1>1, WFMin
<1>4. PICK n \in S : \A m \in S : ~ (<<m, n>> \in R)
  BY <1>3
<1>5. \A m \in S : m \in Nat /\ n \in Nat /\ ~ (m < n)
  BY <1>2, <1>4
<1> QED
  BY <1>5

\* What holds of 0 and, with n, of n + 1 holds of every number.
LEMMA Induct ==
    ASSUME NEW S \in SUBSET Nat, 0 \in S, \A n \in S : n + 1 \in S
    PROVE  \A n \in Nat : n \in S
<1> SUFFICES ASSUME Nat \ S # {}
             PROVE  FALSE
  OBVIOUS
<1>1. PICK n \in Nat \ S : \A m \in Nat \ S : n <= m
  BY Least
<1>2. n - 1 \in S
  BY <1>1
<1> QED
  BY <1>1, <1>2

\* The same from one number of an interval to the next.
LEMMA InductTo ==
    ASSUME NEW n \in Nat, NEW S, 0 \in S, \A i \in 0..n - 1 : i \in S => i + 1 \in S
    PROVE  \A i \in 0..n : i \in S
<1> DEFINE T == {i \in Nat : i <= n => i \in S}
<1>1. 0 \in T /\ T \in SUBSET Nat
  OBVIOUS
<1>2. ASSUME NEW i \in T
      PROVE  i + 1 \in T
  <2>1. CASE i + 1 <= n
    <3>1. i \in Nat /\ i <= n /\ i \in 0..n - 1
      BY <2>1
    <3> QED
      BY <3>1
  <2>2. CASE ~ (i + 1 <= n)
    BY <2>2
  <2> QED
    BY <2>1, <2>2
<1> HIDE DEF T
<1>3. \A i \in Nat : i \in T
  BY <1>1, <1>2, Induct
<1> QED
  BY <1>3 DEF T

-----------------------------------------------------------------------------
(* Functions defined by a step from the value before.                      *)

\* f starts with first and goes on as g makes of the value before.
Stepped(f, n, first, g) ==
    f = [i \in 0..n |-> IF i = 0 THEN first ELSE g[<<i, f[i - 1]>>]]

LEMMA StepFurther ==
    ASSUME NEW n \in Nat, NEW first, NEW g, NEW f, Stepped(f, n, first, g)
    PROVE  \E h : Stepped(h, n + 1, first, g)
<1> DEFINE h == [i \in 0..n + 1 |-> IF i = n + 1 THEN g[<<i, f[i - 1]>>] ELSE f[i]]
<1>1. \A i \in 0..n : h[i] = f[i]
  OBVIOUS
<1>2. \A i \in 0..n + 1 : h[i] = IF i = 0 THEN first ELSE g[<<i, h[i - 1]>>]
  <2> SUFFICES ASSUME NEW i \in 0..n + 1
               PROVE  h[i] = IF i = 0 THEN first ELSE g[<<i, h[i - 1]>>]
    OBVIOUS
  <2>1. i # 0 => i - 1 \in 0..n /\ h[i - 1] = f[i - 1]
    BY <1>1
  <2>2. CASE i = n + 1
    BY <2>1, <2>2
  <2>3. CASE i # n + 1
    <3>1. i \in 0..n /\ h[i] = f[i]
      BY <1>1, <2>3
    <3>2. f[i] = IF i = 0 THEN first ELSE g[<<i, f[i - 1]>>]
      BY <3>1 DEF Stepped
    <3> HIDE DEF h
    <3> QED
      BY <2>1, <3>1, <3>2
  <2> QED
    BY <2>2, <2>3
<1>3. h = [i \in 0..n + 1 |-> h[i]]
  OBVIOUS
<1> HIDE DEF h
<1>4. [i \in 0..n + 1 |-> h[i]]
        = [i \in 0..n + 1 |-> IF i = 0 THEN first ELSE g[<<i, h[i - 1]>>]]
  BY <1>2, Zenon
<1> QED
  BY <1>3, <1>4 DEF Stepped

\* There is one, and it stays in a set that its first value is in and that
\* its steps keep to.
LEMMA StepFunction ==
    ASSUME NEW n \in Nat, NEW T, NEW first \in T, NEW g \in [(1..n) \X T -> T]
    PROVE  \E f : f \in [0..n -> T] /\ Stepped(f, n, first, g)
<1> DEFINE S == {m \in Nat : \E f : Stepped(f, m, first, g)}
<1>1. 0 \in S
  <2> DEFINE f == [i \in 0..0 |-> first]
  <2>1. \A i \in 0..0 : first = IF i = 0 THEN first ELSE g[<<i, f[i - 1]>>]
    OBVIOUS
  <2>2. f = [i \in 0..0 |-> IF i = 0 THEN first ELSE g[<<i, f[i - 1]>>]]
    BY <2>1, Zenon
  <2> HIDE DEF f
  <2>3. Stepped(f, 0, first, g)
    BY <2>2 DEF Stepped
  <2> QED
    BY <2>3
<1>2. ASSUME NEW m \in S
      PROVE  m + 1 \in S
  BY StepFurther
<1>3. S \in SUBSET Nat
  OBVIOUS
<1> HIDE DEF S
<1>4. n \in S
  BY <1>1, <1>2, <1>3, Induct
<1>5. PICK f : Stepped(f, n, first, g)
  BY <1>4 DEF S
<1> DEFINE R == {i \in 0..n : f[i] \in T}
<1>6. 0 \in R
  BY <1>5 DEF Stepped
<1>7. ASSUME NEW i \in 0..n - 1, i \in R
      PROVE  i + 1 \in R
  <2>1. i + 1 \in 0..n /\ i + 1 \in 1..n /\ i + 1 # 0 /\ (i + 1) - 1 = i
    OBVIOUS
  <2>2. f[i + 1] = g[<<i + 1, f[i]>>]
    BY <1>5, <2>1 DEF Stepped
  <2>3. f[i] \in T
    BY <1>7
  <2>4. g[<<i + 1, f[i]>>] \in T
    BY <2>1, <2>3
  <2> QED
    BY <2>1, <2>2, <2>4
<1>8. \A i \in 0..n : f[i] \in T
  <2> HIDE DEF R
  <2>1. \A i \in 0..n : i \in R
    BY <1>6, <1>7, InductTo
  <2> QED
    BY <2>1 DEF R
<1>9. f \in [0..n -> T]
  <2>1. f = [i \in 0..n |-> f[i]]
    BY <1>5 DEF Stepped
  <2> QED
    BY <1>8, <2>1
<1> QED
  BY <1>5, <1>9

\* Its values, one by one.
LEMMA StepsRead ==
    ASSUME NEW n \in Nat, NEW T, NEW first, NEW g, NEW f \in [0..n -> T],
           Stepped(f, n, first, g)
    PROVE  /\ f[0] = first
           /\ \A i \in 1..n : f[i] = g[<<i, f[i - 1]>>] /\ f[i - 1] \in T
<1>1. 0 \in 0..n /\ \A i \in 1..n : i \in 0..n /\ i # 0 /\ i - 1 \in 0..n
  OBVIOUS
<1>2. \A i \in 0..n : f[i] = IF i = 0 THEN first ELSE g[<<i, f[i - 1]>>]
  BY Zenon DEF Stepped
<1> QED
  BY <1>1, <1>2

-----------------------------------------------------------------------------
(* Powers of two.                                                          *)

\* The power of two, counted as the subsets of 1..n.
LEMMA PowerIs ==
    ASSUME NEW n \in Nat
    PROVE  /\ IsFiniteSet(SUBSET (1..n)) /\ Cardinality(SUBSET (1..n)) = 2^n
           /\ 2^n \in Nat
<1>1. n \in Int /\ 1 \in Int /\ (1 > n => n = 0)
  OBVIOUS
<1>2. IsFiniteSet(1..n) /\ Cardinality(1..n) = IF 1 > n THEN 0 ELSE n - 1 + 1
  BY <1>1, FS_Interval
<1>3. Cardinality(1..n) = n
  BY <1>1, <1>2
<1>4. IsFiniteSet(SUBSET (1..n)) /\ Cardinality(SUBSET (1..n)) = 2^Cardinality(1..n)
  BY <1>2, FS_SUBSET, Zenon
<1>5. Cardinality(SUBSET (1..n)) = 2^n
  BY <1>3, <1>4, Zenon
<1>6. Cardinality(SUBSET (1..n)) \in Nat
  BY <1>4, FS_CardinalityType, Zenon
<1> QED
  BY <1>4, <1>5, <1>6, Zenon

\* The subsets of the empty set are one.
LEMMA PowerZero == 2^0 = 1
<1>1. 1..0 = {} /\ 0 \in Nat
  OBVIOUS
<1>2. Cardinality(SUBSET (1..0)) = 2^0
  BY <1>1, PowerIs, Zenon
<1>3. SUBSET (1..0) = {{}}
  BY <1>1
<1>4. Cardinality({{}}) = 1
  BY FS_Singleton
<1> QED
  BY <1>2, <1>3, <1>4, Zenon

\* An element more doubles them.
LEMMA PowerDoubles ==
    ASSUME NEW n \in Nat
    PROVE  2^(n + 1) = 2 * 2^n
<1> DEFINE A == SUBSET (1..n)
           B == {s \cup {n + 1} : s \in A}
           f == [s \in A |-> s \cup {n + 1}]
<1>1. n + 1 \notin 1..n /\ 1..(n + 1) = (1..n) \cup {n + 1}
  OBVIOUS
<1>2. SUBSET (1..(n + 1)) = A \cup B
  <2>1. ASSUME NEW s \in SUBSET (1..(n + 1)), n + 1 \in s
        PROVE  s \in B
    <3>1. s \ {n + 1} \in A
      BY <1>1
    <3>2. s = (s \ {n + 1}) \cup {n + 1}
      BY <2>1
    <3> QED
      BY <3>1, <3>2
  <2>2. ASSUME NEW s \in SUBSET (1..(n + 1)), n + 1 \notin s
        PROVE  s \in A
    BY <1>1, <2>2
  <2>3. \A s \in A : s \in SUBSET (1..(n + 1))
    BY <1>1
  <2>4. \A s \in B : s \in SUBSET (1..(n + 1))
    BY <1>1
  <2> HIDE DEF A, B
  <2> QED
    BY <2>1, <2>2, <2>3, <2>4
<1>3. A \cap B = {}
  BY <1>1
<1>4. IsFiniteSet(A) /\ Cardinality(A) = 2^n /\ 2^n \in Nat
  BY PowerIs, Zenon
<1>5. f \in Bijection(A, B)
  <2>1. f \in [A -> B]
    OBVIOUS
  <2>2. \A s, t \in A : s \cup {n + 1} = t \cup {n + 1} => s = t
    BY <1>1
  <2>3. DOMAIN f = A /\ \A s \in A : f[s] = s \cup {n + 1}
    OBVIOUS
  <2>4. \A t \in B : \E s \in A : t = s \cup {n + 1}
    OBVIOUS
  <2> HIDE DEF A, B, f
  <2>5. f \in Injection(A, B)
    BY <2>1, <2>2, <2>3 DEF Injection, IsInjective
  <2>6. f \in Surjection(A, B)
    BY <2>1, <2>3, <2>4 DEF Surjection
  <2> QED
    BY <2>5, <2>6 DEF Bijection
<1> HIDE DEF A, B, f
<1>6. IsFiniteSet(B) /\ Cardinality(B) = Cardinality(A)
  <2>1. ExistsBijection(A, B)
    BY <1>5 DEF ExistsBijection
  <2> QED
    BY <1>4, <2>1, FS_Bijection, Zenon
<1>7. Cardinality(A \cup B) = Cardinality(A) + Cardinality(B) - Cardinality({})
  BY <1>3, <1>4, <1>6, FS_Union
<1>8. Cardinality({}) = 0 /\ Cardinality(A) \in Nat
  BY <1>4, FS_EmptySet, FS_CardinalityType
<1>9. Cardinality(A \cup B) = 2 * Cardinality(A)
  BY <1>6, <1>7, <1>8
<1>10. n + 1 \in Nat
  OBVIOUS
<1>11. Cardinality(SUBSET (1..(n + 1))) = 2^(n + 1)
  BY <1>10, PowerIs, Zenon
<1> QED
  BY <1>2, <1>4, <1>9, <1>11, Zenon

\* What is used of powers of two, for every exponent.
LEMMA PowerNext ==
    ASSUME NEW n \in Nat
    PROVE  2^n \in Nat /\ 2^n >= 1 /\ 2^(n + 1) = 2 * 2^n /\ 2^(n + 1) \in Nat
<1> DEFINE S == {m \in Nat : 2^m >= 1}
<1>1. \A m \in Nat : 2^m \in Nat /\ 2^(m + 1) = 2 * 2^m
  BY PowerIs, PowerDoubles, Zenon
<1>2. 0 \in S
  BY PowerZero
<1>3. ASSUME NEW m \in S
      PROVE  m + 1 \in S
  BY <1>1
<1>4. S \in SUBSET Nat
  OBVIOUS
<1> HIDE DEF S
<1>5. n \in S
  BY <1>2, <1>3, <1>4, Induct
<1> QED
  BY <1>1, <1>5 DEF S

LEMMA PowerBefore ==
    ASSUME NEW n \in Nat \ {0}
    PROVE  2^(n - 1) \in Nat /\ 2^(n - 1) >= 1 /\ 2^n = 2 * 2^(n - 1) /\ 2^n \in Nat
<1>1. n - 1 \in Nat /\ (n - 1) + 1 = n
  OBVIOUS
<1> DEFINE m == n - 1
<1>2. m \in Nat /\ m + 1 = n
  BY <1>1
<1> HIDE DEF m
<1>3. 2^m \in Nat /\ 2^m >= 1 /\ 2^(m + 1) = 2 * 2^m /\ 2^(m + 1) \in Nat
  BY <1>2, PowerNext
<1>4. 2^n = 2 * 2^m
  BY <1>2, <1>3, Zenon
<1> QED
  BY <1>3, <1>4 DEF m

LEMMA PowerSum ==
    ASSUME NEW a \in Nat, NEW b \in Nat
    PROVE  2^(a + b) = 2^a * 2^b
<1> DEFINE S == {m \in Nat : 2^(a + m) = 2^a * 2^m}
<1>1. 0 \in S
  <2>1. a + 0 = a /\ 2^a \in Nat
    BY PowerNext
  <2>2. 2^(a + 0) = 2^a
    BY <2>1, Zenon
  <2>3. 2^a = 2^a * 2^0
    BY <2>1, PowerZero
  <2> QED
    BY <2>2, <2>3
<1>2. ASSUME NEW m \in S
      PROVE  m + 1 \in S
  <2>1. m \in Nat /\ a + m \in Nat /\ a + (m + 1) = (a + m) + 1
    OBVIOUS
  <2>2. 2^(a + (m + 1)) = 2 * 2^(a + m)
    <3>1. 2^((a + m) + 1) = 2 * 2^(a + m)
      BY <2>1, PowerDoubles
    <3> QED
      BY <2>1, <3>1, Zenon
  <2>3. 2^(m + 1) = 2 * 2^m
    BY <2>1, PowerDoubles
  <2> DEFINE p == 2^a
             q == 2^m
  <2>4. p \in Nat /\ q \in Nat
    BY <2>1, PowerNext
  <2>5. 2^(a + m) = p * q
    OBVIOUS
  <2>6. 2^(a + (m + 1)) = 2 * (p * q) /\ 2^(m + 1) = 2 * q /\ 2^a = p
    BY <2>2, <2>3, <2>5
  <2> HIDE DEF p, q
  <2>7. 2 * (p * q) = p * (2 * q)
    BY <2>4
  <2>8. 2^(a + (m + 1)) = 2^a * 2^(m + 1)
    BY <2>6, <2>7, Zenon
  <2> QED
    BY <2>1, <2>8
<1>3. S \in SUBSET Nat
  OBVIOUS
<1> HIDE DEF S
<1>4. b \in S
  BY <1>1, <1>2, <1>3, Induct
<1> QED
  BY <1>4 DEF S

LEMMA PowerGrows ==
    ASSUME NEW a \in Nat, NEW b \in Nat, a <= b
    PROVE  2^a <= 2^b
<1> DEFINE d == b - a
<1>1. d \in Nat /\ a + d = b
  OBVIOUS
<1> HIDE DEF d
<1>2. 2^(a + d) = 2^a * 2^d
  BY <1>1, PowerSum
<1>3. 2^b = 2^a * 2^d
  BY <1>1, <1>2, Zenon
<1> DEFINE p == 2^a
           q == 2^d
<1>4. p \in Nat /\ q \in Nat /\ q >= 1
  BY <1>1, PowerNext
<1>5. 2^b = p * q /\ 2^a = p
  BY <1>3
<1> HIDE DEF p, q
<1>6. p <= p * q
  BY <1>4
<1> QED
  BY <1>5, <1>6

LEMMA PowerPositive ==
    ASSUME NEW n \in Nat
    PROVE  2^n \in Nat \ {0}
<1> DEFINE p == 2^n
<1>1. 0 \in Nat /\ 0 <= n /\ 2^0 = 1
  BY PowerZero
<1>2. p \in Nat /\ 2^0 <= p
  BY <1>1, PowerIs, PowerGrows
<1>3. p \in Nat /\ 1 <= p
  BY <1>1, <1>2
<1> HIDE DEF p
<1>4. p \in Nat \ {0}
  BY <1>3
<1> QED
  BY <1>4 DEF p

-----------------------------------------------------------------------------
(* Quotients and remainders.                                               *)

LEMMA DivMod ==
    ASSUME NEW a \in Int, NEW n \in Nat \ {0}
    PROVE  /\ a \div n \in Int /\ a % n \in 0..n - 1
           /\ a = n * (a \div n) + (a % n)
  OBVIOUS

\* There is one quotient with one remainder.
LEMMA DivModIs ==
    ASSUME NEW n \in Nat \ {0}, NEW q \in Int, NEW r \in 0..n - 1
    PROVE  /\ (q * n + r) \div n = q /\ (q * n + r) % n = r
           /\ (n * q + r) \div n = q /\ (n * q + r) % n = r
<1> DEFINE a == q * n + r
<1>1. a \in Int /\ a = n * q + r
  OBVIOUS
<1> HIDE DEF a
<1> DEFINE d == a \div n
           m == a % n
<1>2. d \in Int /\ m \in 0..n - 1 /\ a = n * d + m
  BY <1>1, DivMod
<1> HIDE DEF d, m
<1>3. n * (d - q) = r - m
  BY <1>1, <1>2
<1>4. ~ (d - q >= 1)
  <2> SUFFICES ASSUME d - q >= 1
               PROVE  FALSE
    OBVIOUS
  <2>1. n * (d - q) >= n
    BY <1>2
  <2> QED
    BY <1>2, <1>3, <2>1
<1>5. ~ (d - q <= -1)
  <2> SUFFICES ASSUME d - q <= -1
               PROVE  FALSE
    OBVIOUS
  <2>1. n * (d - q) <= -n
    BY <1>2
  <2> QED
    BY <1>2, <1>3, <2>1
<1>6. d = q
  BY <1>2, <1>4, <1>5
<1>7. m = r
  BY <1>2, <1>3, <1>6
<1> QED
  BY <1>1, <1>6, <1>7 DEF a, d, m

-----------------------------------------------------------------------------
(* Sequences of sequences, one after another.                              *)

\* f runs through the concatenations of the first i sequences of ss.
Flattens(f, ss) ==
    f = [i \in 1..Len(ss) |-> IF i = 1 THEN ss[i] ELSE f[i - 1] \o ss[i]]

LEMMA FlattensUpTo ==
    ASSUME NEW S, NEW ss \in Seq(Seq(S))
    PROVE  \A n \in Nat : n <= Len(ss) => \E f : Flattens(f, SubSeq(ss, 1, n))
<1> DEFINE T == {n \in Nat : n <= Len(ss) => \E f : Flattens(f, SubSeq(ss, 1, n))}
<1>1. 0 \in T
  <2>1. Len(SubSeq(ss, 1, 0)) = 0
    OBVIOUS
  <2>2. Flattens([i \in {} |-> 0], SubSeq(ss, 1, 0))
    BY <2>1 DEF Flattens
  <2> QED
    BY <2>2
<1>2. ASSUME NEW n \in T
      PROVE  n + 1 \in T
  <2> SUFFICES ASSUME n + 1 <= Len(ss)
               PROVE  \E f : Flattens(f, SubSeq(ss, 1, n + 1))
    BY <1>2
  <2> DEFINE s == SubSeq(ss, 1, n)
             t == SubSeq(ss, 1, n + 1)
  <2>1. PICK f : Flattens(f, s)
    BY <1>2
  <2>2. Len(s) = n /\ Len(t) = n + 1 /\ \A i \in 1..n : s[i] = t[i]
    BY <1>2
  <2>3. f = [i \in 1..n |-> IF i = 1 THEN s[i] ELSE f[i - 1] \o s[i]]
    BY <2>1, <2>2 DEF Flattens
  <2> DEFINE h == [i \in 1..(n + 1) |->
                     IF i = n + 1
                     THEN IF i = 1 THEN t[i] ELSE f[i - 1] \o t[i]
                     ELSE f[i]]
  <2> HIDE DEF s, t
  <2>4. \A i \in 1..n : h[i] = f[i]
    BY <1>2
  <2>5. \A i \in 1..(n + 1) :
           h[i] = IF i = 1 THEN t[i] ELSE h[i - 1] \o t[i]
    <3> SUFFICES ASSUME NEW i \in 1..(n + 1)
                 PROVE  h[i] = IF i = 1 THEN t[i] ELSE h[i - 1] \o t[i]
      OBVIOUS
    <3>1. n \in Nat
      BY <1>2
    <3>2. CASE i = n + 1
      <4>1. i # 1 => i - 1 \in 1..n /\ h[i - 1] = f[i - 1]
        BY <2>4, <3>1, <3>2
      <4> QED
        BY <3>2, <4>1
    <3>3. CASE i # n + 1
      <4>1. i \in 1..n
        BY <3>1, <3>3
      <4>2. f[i] = IF i = 1 THEN s[i] ELSE f[i - 1] \o s[i]
        BY <2>3, <4>1
      <4>3. i # 1 => i - 1 \in 1..n /\ h[i - 1] = f[i - 1]
        BY <2>4, <3>1, <4>1
      <4>4. h[i] = f[i] /\ s[i] = t[i]
        BY <2>2, <2>4, <4>1
      <4> QED
        BY <4>2, <4>3, <4>4
    <3> QED
      BY <3>2, <3>3
  <2>6. h = [i \in 1..(n + 1) |-> IF i = 1 THEN t[i] ELSE h[i - 1] \o t[i]]
    <3>1. h = [i \in 1..(n + 1) |-> h[i]]
      OBVIOUS
    <3> HIDE DEF h
    <3>2. [i \in 1..(n + 1) |-> h[i]] =
          [i \in 1..(n + 1) |-> IF i = 1 THEN t[i] ELSE h[i - 1] \o t[i]]
      BY <2>5, Zenon
    <3> QED
      BY <3>1, <3>2
  <2>7. Flattens(h, t)
    BY <2>2, <2>6 DEF Flattens
  <2> QED
    BY <2>7 DEF t
<1>3. T \in SUBSET Nat
  OBVIOUS
<1> HIDE DEF T
<1>4. \A n \in Nat : n \in T
  BY <1>1, <1>2, <1>3, Induct
<1> QED
  BY <1>4 DEF T

LEMMA FlattenIs ==
    ASSUME NEW S, NEW ss \in Seq(Seq(S)), Len(ss) # 0
    PROVE  \E f : Flattens(f, ss) /\ FlattenSeq(ss) = f[Len(ss)]
<1>1. SubSeq(ss, 1, Len(ss)) = ss /\ Len(ss) \in Nat
  OBVIOUS
<1>2. \E f : Flattens(f, ss)
  <2>1. \A n \in Nat : n <= Len(ss) => \E f : Flattens(f, SubSeq(ss, 1, n))
    BY FlattensUpTo
  <2>2. \E f : Flattens(f, SubSeq(ss, 1, Len(ss)))
    BY <1>1, <2>1
  <2> QED
    BY <1>1, <2>2
<1>3. Flattens(CHOOSE f : Flattens(f, ss), ss)
  BY <1>2
<1>4. FlattenSeq(ss) = (CHOOSE f : Flattens(f, ss))[Len(ss)]
  BY DEF FlattenSeq, Flattens
<1> QED
  BY <1>3, <1>4

\* The first sequences, and one more.
LEMMA OneMore ==
    ASSUME NEW S, NEW ss \in Seq(S), NEW n \in Nat, n < Len(ss)
    PROVE  /\ SubSeq(ss, 1, n) \in Seq(S)
           /\ Len(SubSeq(ss, 1, n)) = n
           /\ ss[n + 1] \in S
           /\ SubSeq(ss, 1, n + 1) = Append(SubSeq(ss, 1, n), ss[n + 1])
<1> DEFINE s == SubSeq(ss, 1, n)
           t == SubSeq(ss, 1, n + 1)
<1>1. /\ s \in Seq(S) /\ Len(s) = n
      /\ \A i \in 1..n : s[i] = ss[i]
  OBVIOUS
<1>2. /\ t \in Seq(S) /\ Len(t) = n + 1
      /\ \A i \in 1..(n + 1) : t[i] = ss[i]
  OBVIOUS
<1>3. ss[n + 1] \in S
  OBVIOUS
<1> HIDE DEF s, t
<1>4. /\ Append(s, ss[n + 1]) \in Seq(S)
      /\ Len(Append(s, ss[n + 1])) = n + 1
      /\ \A i \in 1..(n + 1) : Append(s, ss[n + 1])[i] = ss[i]
  BY <1>1, <1>3
<1>5. t = Append(s, ss[n + 1])
  BY <1>2, <1>4, SeqEqual
<1> QED
  BY <1>1, <1>3, <1>5 DEF s, t

LEMMA FlattenNone == FlattenSeq(<<>>) = <<>>
BY DEF FlattenSeq

LEMMA FlattenOne ==
    ASSUME NEW S, NEW s \in Seq(S)
    PROVE  FlattenSeq(<<s>>) = s
<1>2. <<s>> \in Seq(Seq(S)) /\ Len(<<s>>) = 1
  OBVIOUS
<1> DEFINE ss == <<s>>
<1>3. ss[1] = s /\ ss \in Seq(Seq(S)) /\ Len(ss) = 1 /\ Len(ss) # 0
  OBVIOUS
<1> HIDE DEF ss
<1>4. PICK f : Flattens(f, ss) /\ FlattenSeq(ss) = f[Len(ss)]
  BY <1>3, FlattenIs
<1>5. f[1] = ss[1]
  BY <1>3, <1>4 DEF Flattens
<1> QED
  BY <1>3, <1>4, <1>5 DEF ss

\* Concatenations of the first sequences do not depend on the later ones.
LEMMA FlattensAgree ==
    ASSUME NEW S, NEW ss \in Seq(Seq(S)), NEW s \in Seq(S),
           NEW f, Flattens(f, ss), NEW h, Flattens(h, Append(ss, s))
    PROVE  \A n \in Nat : n \in 1..Len(ss) => h[n] = f[n]
<1> DEFINE T == {n \in Nat : n \in 1..Len(ss) => h[n] = f[n]}
           tt == Append(ss, s)
<1>1. Len(tt) = Len(ss) + 1 /\ \A i \in 1..Len(ss) : tt[i] = ss[i]
  OBVIOUS
<1> HIDE DEF tt
<1>2. Len(ss) \in Nat
  OBVIOUS
<1>3. h = [i \in 1..Len(tt) |-> IF i = 1 THEN tt[i] ELSE h[i - 1] \o tt[i]]
  BY DEF Flattens, tt
<1>4. f = [i \in 1..Len(ss) |-> IF i = 1 THEN ss[i] ELSE f[i - 1] \o ss[i]]
  BY DEF Flattens
<1>5. ASSUME NEW n \in T
      PROVE  n + 1 \in T
  <2> SUFFICES ASSUME n + 1 \in 1..Len(ss)
               PROVE  h[n + 1] = f[n + 1]
    BY <1>5
  <2>1. n \in Nat /\ n + 1 \in 1..Len(tt) /\ (n + 1) - 1 = n
    BY <1>1, <1>2, <1>5
  <2>2. f[n + 1] = IF n + 1 = 1 THEN ss[n + 1] ELSE f[n] \o ss[n + 1]
    <3>1. f[n + 1] = IF n + 1 = 1 THEN ss[n + 1] ELSE f[(n + 1) - 1] \o ss[n + 1]
      BY <1>4
    <3> QED
      BY <2>1, <3>1
  <2>3. h[n + 1] = IF n + 1 = 1 THEN tt[n + 1] ELSE h[n] \o tt[n + 1]
    <3>1. h[n + 1] = IF n + 1 = 1 THEN tt[n + 1] ELSE h[(n + 1) - 1] \o tt[n + 1]
      BY <1>3, <2>1
    <3> QED
      BY <2>1, <3>1
  <2>4. n # 0 => h[n] = f[n]
    BY <1>2, <1>5, <2>1
  <2> QED
    BY <1>1, <2>1, <2>2, <2>3, <2>4
<1>6. 0 \in T /\ T \in SUBSET Nat
  OBVIOUS
<1> HIDE DEF T
<1>7. \A n \in Nat : n \in T
  BY <1>5, <1>6, Induct
<1> QED
  BY <1>7 DEF T

\* One more sequence is one more piece.
LEMMA FlattenAppend ==
    ASSUME NEW S, NEW ss \in Seq(Seq(S)), NEW s \in Seq(S)
    PROVE  FlattenSeq(Append(ss, s)) = FlattenSeq(ss) \o s
<1> DEFINE tt == Append(ss, s)
<1>1. /\ tt \in Seq(Seq(S)) /\ Len(tt) = Len(ss) + 1
      /\ tt[Len(ss) + 1] = s
  OBVIOUS
<1>2. Len(ss) \in Nat /\ Len(tt) # 0 /\ Len(tt) \in 1..Len(tt) /\ Len(tt) - 1 = Len(ss)
  BY <1>1
<1> HIDE DEF tt
<1>3. PICK h : Flattens(h, tt) /\ FlattenSeq(tt) = h[Len(tt)]
  BY <1>1, <1>2, FlattenIs
<1>4. h[Len(tt)] = IF Len(tt) = 1 THEN s ELSE h[Len(ss)] \o s
  <2>1. h = [i \in 1..Len(tt) |-> IF i = 1 THEN tt[i] ELSE h[i - 1] \o tt[i]]
    BY <1>3 DEF Flattens
  <2>2. h[Len(tt)] = IF Len(tt) = 1 THEN tt[Len(tt)]
                     ELSE h[Len(tt) - 1] \o tt[Len(tt)]
    BY <1>2, <2>1
  <2> QED
    BY <1>1, <1>2, <2>2
<1>5. CASE Len(ss) = 0
  <2>1. ss = <<>>
    BY <1>5
  <2>2. FlattenSeq(ss) = <<>>
    BY <2>1, FlattenNone
  <2>3. <<>> \o s = s
    OBVIOUS
  <2> QED
    BY <1>1, <1>3, <1>4, <1>5, <2>2, <2>3 DEF tt
<1>6. CASE Len(ss) # 0
  <2>1. PICK f : Flattens(f, ss) /\ FlattenSeq(ss) = f[Len(ss)]
    BY <1>6, FlattenIs
  <2>2. \A n \in Nat : n \in 1..Len(ss) => h[n] = f[n]
    BY <1>3, <2>1, FlattensAgree DEF tt
  <2>3. h[Len(ss)] = f[Len(ss)]
    BY <1>2, <1>6, <2>2
  <2> QED
    BY <1>1, <1>2, <1>3, <1>4, <1>6, <2>1, <2>3 DEF tt
<1> QED
  BY <1>5, <1>6

LEMMA FlattenUpToType ==
    ASSUME NEW S, NEW ss \in Seq(Seq(S))
    PROVE  \A n \in Nat : n <= Len(ss) => FlattenSeq(SubSeq(ss, 1, n)) \in Seq(S)
<1> DEFINE T == {n \in Nat : n <= Len(ss) =>
                    FlattenSeq(SubSeq(ss, 1, n)) \in Seq(S)}
<1>1. 0 \in T
  <2>1. SubSeq(ss, 1, 0) = <<>>
    OBVIOUS
  <2>2. FlattenSeq(<<>>) = <<>>
    BY FlattenNone
  <2>3. FlattenSeq(SubSeq(ss, 1, 0)) \in Seq(S)
    <3>1. <<>> \in Seq(S)
      OBVIOUS
    <3> QED
      BY <2>1, <2>2, <3>1
  <2> QED
    BY <2>3
<1>2. ASSUME NEW n \in T
      PROVE  n + 1 \in T
  <2> SUFFICES ASSUME n + 1 <= Len(ss)
               PROVE  FlattenSeq(SubSeq(ss, 1, n + 1)) \in Seq(S)
    BY <1>2
  <2>1. n \in Nat /\ n < Len(ss) /\ FlattenSeq(SubSeq(ss, 1, n)) \in Seq(S)
    BY <1>2
  <2>2. /\ SubSeq(ss, 1, n) \in Seq(Seq(S)) /\ ss[n + 1] \in Seq(S)
        /\ SubSeq(ss, 1, n + 1) = Append(SubSeq(ss, 1, n), ss[n + 1])
    BY <2>1, OneMore
  <2>3. FlattenSeq(SubSeq(ss, 1, n + 1))
           = FlattenSeq(SubSeq(ss, 1, n)) \o ss[n + 1]
    BY <2>2, FlattenAppend
  <2>4. FlattenSeq(SubSeq(ss, 1, n)) \o ss[n + 1] \in Seq(S)
    BY <2>1, <2>2, ConcatProperties
  <2> QED
    BY <2>3, <2>4
<1>3. T \in SUBSET Nat
  OBVIOUS
<1> HIDE DEF T
<1>4. \A n \in Nat : n \in T
  BY <1>1, <1>2, <1>3, Induct
<1> QED
  BY <1>4 DEF T

LEMMA FlattenType ==
    ASSUME NEW S, NEW ss \in Seq(Seq(S))
    PROVE  FlattenSeq(ss) \in Seq(S)
<1>1. SubSeq(ss, 1, Len(ss)) = ss /\ Len(ss) \in Nat
  OBVIOUS
<1>2. \A n \in Nat : n <= Len(ss) => FlattenSeq(SubSeq(ss, 1, n)) \in Seq(S)
  BY FlattenUpToType
<1>3. FlattenSeq(SubSeq(ss, 1, Len(ss))) \in Seq(S)
  BY <1>1, <1>2
<1> QED
  BY <1>1, <1>3

\* The first n + 1 sequences in one piece: the first n, then the next.
Grows(S, ss, n) ==
    LET a == FlattenSeq(SubSeq(ss, 1, n))
        b == FlattenSeq(SubSeq(ss, 1, n + 1))
    IN  /\ a \in Seq(S) /\ b \in Seq(S) /\ ss[n + 1] \in Seq(S)
        /\ Len(b) = Len(a) + Len(ss[n + 1])
        /\ \A k \in 1..Len(a) : b[k] = a[k]
        /\ \A c \in 1..Len(ss[n + 1]) : b[Len(a) + c] = ss[n + 1][c]

LEMMA FlattenNext ==
    ASSUME NEW S, NEW ss \in Seq(Seq(S)), NEW n \in Nat, n < Len(ss)
    PROVE  Grows(S, ss, n)
<1> DEFINE a == FlattenSeq(SubSeq(ss, 1, n))
           b == FlattenSeq(SubSeq(ss, 1, n + 1))
           s == ss[n + 1]
<1>1. /\ SubSeq(ss, 1, n) \in Seq(Seq(S)) /\ s \in Seq(S)
      /\ SubSeq(ss, 1, n + 1) = Append(SubSeq(ss, 1, n), s)
  BY OneMore
<1>2. a \in Seq(S)
  BY <1>1, FlattenType
<1>3. b = a \o s
  BY <1>1, FlattenAppend
<1> HIDE DEF a, b, s
<1>4. /\ b \in Seq(S)
      /\ Len(b) = Len(a) + Len(s)
      /\ \A k \in 1..Len(a) : b[k] = a[k]
      /\ \A c \in 1..Len(s) : b[Len(a) + c] = s[c]
  BY <1>1, <1>2, <1>3, ConcatProperties
<1> QED
  BY <1>1, <1>2, <1>4 DEF a, b, s, Grows

\* Where the c-th element of the g-th sequence comes.
LEMMA FlattenNth ==
    ASSUME NEW S, NEW ss \in Seq(Seq(S)), NEW g \in DOMAIN ss,
           NEW c \in DOMAIN ss[g]
    PROVE  LET k == Len(FlattenSeq(SubSeq(ss, 1, g - 1))) + c
           IN  k \in DOMAIN FlattenSeq(ss) /\ FlattenSeq(ss)[k] = ss[g][c]
<1> DEFINE k == Len(FlattenSeq(SubSeq(ss, 1, g - 1))) + c
           Upto(n) == FlattenSeq(SubSeq(ss, 1, n))
           T == {n \in Nat : g <= n /\ n <= Len(ss) =>
                    k \in DOMAIN Upto(n) /\ Upto(n)[k] = ss[g][c]}
<1>1. g \in Nat /\ g >= 1 /\ g <= Len(ss) /\ g - 1 \in Nat /\ (g - 1) + 1 = g
  OBVIOUS
<1>2. 0 \in T
  BY <1>1
<1>3. ASSUME NEW n \in T
      PROVE  n + 1 \in T
  <2> SUFFICES ASSUME g <= n + 1, n + 1 <= Len(ss)
               PROVE  k \in DOMAIN Upto(n + 1) /\ Upto(n + 1)[k] = ss[g][c]
    BY <1>3
  <2>1. n \in Nat /\ n < Len(ss)
    BY <1>3
  <2>2. /\ Upto(n) \in Seq(S) /\ Upto(n + 1) \in Seq(S)
        /\ ss[n + 1] \in Seq(S)
        /\ Len(Upto(n + 1)) = Len(Upto(n)) + Len(ss[n + 1])
        /\ \A i \in 1..Len(Upto(n)) : Upto(n + 1)[i] = Upto(n)[i]
        /\ \A i \in 1..Len(ss[n + 1]) :
              Upto(n + 1)[Len(Upto(n)) + i] = ss[n + 1][i]
    BY <2>1, FlattenNext DEF Grows
  <2>3. CASE g = n + 1
    <3>1. k = Len(Upto(n)) + c
      BY <1>1, <2>1, <2>3
    <3>2. c \in 1..Len(ss[n + 1])
      BY <2>2, <2>3
    <3> HIDE DEF k, Upto
    <3>3. Len(Upto(n)) \in Nat /\ Len(ss[n + 1]) \in Nat
      BY <2>2
    <3>4. k \in 1..(Len(Upto(n)) + Len(ss[n + 1]))
      BY <3>1, <3>2, <3>3
    <3> QED
      BY <2>2, <2>3, <3>1, <3>2, <3>4
  <2>4. CASE g # n + 1
    <3>1. g <= n /\ n <= Len(ss)
      BY <1>1, <2>1, <2>4
    <3>2. k \in DOMAIN Upto(n) /\ Upto(n)[k] = ss[g][c]
      BY <1>3, <3>1
    <3> HIDE DEF k, Upto
    <3>3. k \in 1..Len(Upto(n)) /\ Len(Upto(n)) \in Nat /\ Len(ss[n + 1]) \in Nat
      BY <2>2, <3>2
    <3>4. k \in 1..Len(Upto(n + 1))
      BY <2>2, <3>3
    <3> QED
      BY <2>2, <3>2, <3>3, <3>4
  <2> QED
    BY <2>3, <2>4
<1>4. T \in SUBSET Nat
  OBVIOUS
<1>5. \A n \in Nat : n \in T
  <2> HIDE DEF T
  <2> QED
    BY <1>2, <1>3, <1>4, Induct
<1>6. SubSeq(ss, 1, Len(ss)) = ss /\ Len(ss) \in Nat
  OBVIOUS
<1>7. k \in DOMAIN Upto(Len(ss)) /\ Upto(Len(ss))[k] = ss[g][c]
  BY <1>1, <1>5, <1>6
<1> QED
  BY <1>6, <1>7

\* Nothing else is in the concatenation.
LEMMA FlattenFrom ==
    ASSUME NEW S, NEW ss \in Seq(Seq(S))
    PROVE  \A k \in DOMAIN FlattenSeq(ss) :
              \E g \in DOMAIN ss : \E c \in DOMAIN ss[g] :
                 FlattenSeq(ss)[k] = ss[g][c]
<1> DEFINE Upto(n) == FlattenSeq(SubSeq(ss, 1, n))
           T == {n \in Nat : n <= Len(ss) =>
                    \A k \in DOMAIN Upto(n) :
                       \E g \in DOMAIN ss : \E c \in DOMAIN ss[g] :
                          Upto(n)[k] = ss[g][c]}
<1>1. 0 \in T
  <2>1. SubSeq(ss, 1, 0) = <<>>
    OBVIOUS
  <2>2. FlattenSeq(<<>>) = <<>>
    BY FlattenNone
  <2>3. Upto(0) = <<>>
    BY <2>1, <2>2
  <2>4. DOMAIN Upto(0) = {}
    BY <2>3
  <2> HIDE DEF Upto
  <2> QED
    BY <2>4
<1>2. ASSUME NEW n \in T
      PROVE  n + 1 \in T
  <2> SUFFICES ASSUME n + 1 <= Len(ss), NEW k \in DOMAIN Upto(n + 1)
               PROVE  \E g \in DOMAIN ss : \E c \in DOMAIN ss[g] :
                         Upto(n + 1)[k] = ss[g][c]
    BY <1>2
  <2>1. n \in Nat /\ n < Len(ss) /\ n + 1 \in DOMAIN ss
    BY <1>2
  <2>3. \A i \in DOMAIN Upto(n) :
           \E g \in DOMAIN ss : \E c \in DOMAIN ss[g] : Upto(n)[i] = ss[g][c]
    BY <1>2, <2>1
  <2> HIDE DEF T
  <2>2. /\ Upto(n) \in Seq(S) /\ Upto(n + 1) \in Seq(S)
        /\ ss[n + 1] \in Seq(S)
        /\ Len(Upto(n + 1)) = Len(Upto(n)) + Len(ss[n + 1])
        /\ \A i \in 1..Len(Upto(n)) : Upto(n + 1)[i] = Upto(n)[i]
        /\ \A i \in 1..Len(ss[n + 1]) :
              Upto(n + 1)[Len(Upto(n)) + i] = ss[n + 1][i]
    BY <2>1, FlattenNext DEF Grows
  <2> HIDE DEF Upto
  <2>4. /\ Len(Upto(n)) \in Nat /\ Len(ss[n + 1]) \in Nat
        /\ DOMAIN Upto(n) = 1..Len(Upto(n))
        /\ DOMAIN ss[n + 1] = 1..Len(ss[n + 1])
        /\ k \in 1..Len(Upto(n + 1))
    BY <2>2
  <2>5. CASE k <= Len(Upto(n))
    BY <2>2, <2>3, <2>4, <2>5
  <2>6. CASE ~ (k <= Len(Upto(n)))
    <3>1. k \in 1..(Len(Upto(n)) + Len(ss[n + 1]))
      BY <2>2, <2>4
    <3>2. k - Len(Upto(n)) \in 1..Len(ss[n + 1])
      BY <2>4, <2>6, <3>1
    <3>3. k = Len(Upto(n)) + (k - Len(Upto(n)))
      BY <2>4
    <3>4. Upto(n + 1)[k] = ss[n + 1][k - Len(Upto(n))]
      BY <2>2, <3>2, <3>3
    <3> QED
      BY <2>1, <2>4, <3>2, <3>4
  <2> QED
    BY <2>5, <2>6
<1>3. T \in SUBSET Nat
  OBVIOUS
<1>4. \A n \in Nat : n \in T
  <2> HIDE DEF T
  <2> QED
    BY <1>1, <1>2, <1>3, Induct
<1>5. SubSeq(ss, 1, Len(ss)) = ss /\ Len(ss) \in Nat
  OBVIOUS
<1>6. Upto(Len(ss)) = FlattenSeq(ss)
  BY <1>5
<1> HIDE DEF Upto
<1>7. \A k \in DOMAIN Upto(Len(ss)) :
         \E g \in DOMAIN ss : \E c \in DOMAIN ss[g] :
            Upto(Len(ss))[k] = ss[g][c]
  BY <1>4, <1>5
<1> QED
  BY <1>6, <1>7

\* Concatenating maps.
LEMMA FlattenMap ==
    ASSUME NEW S, NEW ss \in Seq(Seq(S)), NEW R, NEW tt \in Seq(Seq(R)),
           NEW F, Len(tt) = Len(ss),
           \A g \in DOMAIN ss : /\ Len(tt[g]) = Len(ss[g])
                                /\ \A c \in DOMAIN ss[g] : tt[g][c] = F[ss[g][c]]
    PROVE  /\ Len(FlattenSeq(tt)) = Len(FlattenSeq(ss))
           /\ \A k \in DOMAIN FlattenSeq(ss) :
                 FlattenSeq(tt)[k] = F[FlattenSeq(ss)[k]]
<1> DEFINE A(n) == FlattenSeq(SubSeq(ss, 1, n))
           B(n) == FlattenSeq(SubSeq(tt, 1, n))
           T == {n \in Nat : n <= Len(ss) =>
                    /\ Len(B(n)) = Len(A(n))
                    /\ \A k \in 1..Len(A(n)) : B(n)[k] = F[A(n)[k]]}
<1>1. 0 \in T
  <2>1. SubSeq(ss, 1, 0) = <<>> /\ SubSeq(tt, 1, 0) = <<>>
    OBVIOUS
  <2>2. FlattenSeq(<<>>) = <<>>
    BY FlattenNone
  <2>3. A(0) = <<>> /\ B(0) = <<>>
    BY <2>1, <2>2
  <2>4. Len(A(0)) = 0 /\ Len(B(0)) = 0
    BY <2>3
  <2> HIDE DEF A, B
  <2> QED
    BY <2>4
<1>2. ASSUME NEW n \in T
      PROVE  n + 1 \in T
  <2> SUFFICES ASSUME n + 1 <= Len(ss)
               PROVE  /\ Len(B(n + 1)) = Len(A(n + 1))
                      /\ \A k \in 1..Len(A(n + 1)) : B(n + 1)[k] = F[A(n + 1)[k]]
    BY <1>2
  <2> DEFINE s == ss[n + 1]
             t == tt[n + 1]
  <2>1. n \in Nat /\ n < Len(ss) /\ n < Len(tt) /\ n + 1 \in DOMAIN ss
    BY <1>2
  <2>4. /\ Len(B(n)) = Len(A(n))
        /\ \A k \in 1..Len(A(n)) : B(n)[k] = F[A(n)[k]]
    BY <1>2, <2>1
  <2> HIDE DEF T
  <2>2. /\ A(n) \in Seq(S) /\ A(n + 1) \in Seq(S) /\ s \in Seq(S)
        /\ Len(A(n + 1)) = Len(A(n)) + Len(s)
        /\ \A i \in 1..Len(A(n)) : A(n + 1)[i] = A(n)[i]
        /\ \A i \in 1..Len(s) : A(n + 1)[Len(A(n)) + i] = s[i]
    BY <2>1, FlattenNext DEF Grows
  <2>3. /\ B(n) \in Seq(R) /\ B(n + 1) \in Seq(R) /\ t \in Seq(R)
        /\ Len(B(n + 1)) = Len(B(n)) + Len(t)
        /\ \A i \in 1..Len(B(n)) : B(n + 1)[i] = B(n)[i]
        /\ \A i \in 1..Len(t) : B(n + 1)[Len(B(n)) + i] = t[i]
    <3>1. Grows(R, tt, n)
      BY <2>1, FlattenNext
    <3> QED
      BY <3>1 DEF Grows
  <2>5. Len(t) = Len(s) /\ \A c \in 1..Len(s) : t[c] = F[s[c]]
    <3>1. Len(t) = Len(s) /\ \A c \in DOMAIN s : t[c] = F[s[c]]
      BY <2>1
    <3>2. DOMAIN s = 1..Len(s)
      BY <2>2
    <3> QED
      BY <3>1, <3>2
  <2> HIDE DEF A, B, s, t
  <2>6. Len(A(n)) \in Nat /\ Len(s) \in Nat
    BY <2>2
  <2>7. Len(B(n + 1)) = Len(A(n + 1))
    BY <2>2, <2>3, <2>4, <2>5
  <2>8. ASSUME NEW k \in 1..Len(A(n + 1))
        PROVE  B(n + 1)[k] = F[A(n + 1)[k]]
    <3>1. k \in 1..(Len(A(n)) + Len(s))
      BY <2>2
    <3>2. CASE k <= Len(A(n))
      <4>1. k \in 1..Len(A(n)) /\ k \in 1..Len(B(n))
        BY <2>4, <2>6, <3>1, <3>2
      <4>2. A(n + 1)[k] = A(n)[k]
        BY <2>2, <4>1
      <4>3. B(n + 1)[k] = B(n)[k]
        BY <2>3, <4>1
      <4> QED
        BY <2>4, <4>1, <4>2, <4>3
    <3>3. CASE ~ (k <= Len(A(n)))
      <4>1. k - Len(A(n)) \in 1..Len(s) /\ k = Len(A(n)) + (k - Len(A(n)))
        BY <2>6, <3>1, <3>3
      <4>2. A(n + 1)[k] = s[k - Len(A(n))]
        BY <2>2, <4>1
      <4>3. B(n + 1)[k] = t[k - Len(A(n))]
        BY <2>3, <2>4, <2>5, <4>1
      <4> QED
        BY <2>5, <4>1, <4>2, <4>3
    <3> QED
      BY <3>2, <3>3
  <2> QED
    BY <2>7, <2>8
<1>3. T \in SUBSET Nat
  OBVIOUS
<1>4. \A n \in Nat : n \in T
  <2> HIDE DEF T
  <2> QED
    BY <1>1, <1>2, <1>3, Induct
<1>5. /\ SubSeq(ss, 1, Len(ss)) = ss /\ Len(ss) \in Nat
      /\ SubSeq(tt, 1, Len(ss)) = tt
  OBVIOUS
<1>6. A(Len(ss)) = FlattenSeq(ss) /\ B(Len(ss)) = FlattenSeq(tt)
  BY <1>5
<1>7. FlattenSeq(ss) \in Seq(S)
  BY FlattenType
<1> HIDE DEF A, B
<1>8. /\ Len(B(Len(ss))) = Len(A(Len(ss)))
      /\ \A k \in 1..Len(A(Len(ss))) : B(Len(ss))[k] = F[A(Len(ss))[k]]
  BY <1>4, <1>5
<1>9. DOMAIN FlattenSeq(ss) = 1..Len(FlattenSeq(ss))
  BY <1>7
<1> QED
  BY <1>6, <1>8, <1>9

=============================================================================
