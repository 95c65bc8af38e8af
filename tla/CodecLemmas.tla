---------------------------- MODULE CodecLemmas ----------------------------
(***************************************************************************)
(* What the operators of the codecs compute, proved for words of every     *)
(* width and blocks of every length: a word is the bits read of it and     *)
(* what is built of bits has those bits; the transforms undo themselves;   *)
(* a dictionary holds every value once and finds it again; a variable-     *)
(* length number is read back; the kernels of delta compute what its plain *)
(* loop does, and the models of vectors give back what they coded.         *)
(***************************************************************************)
EXTENDS Transforms, Shuffles, Raw, Formats, Dictionary, Delta, Fpc, DataLemmas

----------------------------------------------------------------------------
(* Bits.                                                                   *)

\* f adds up the first bits.
BitSums(f, w, bits) ==
    /\ f \in [0..w -> Nat] /\ f[0] = 0
    /\ \A i \in 0..w - 1 : f[i + 1] = f[i] + bits[i] * 2^i

LEMMA FromBitsIs ==
    ASSUME NEW w \in Nat, NEW bits, \A i \in 0..w - 1 : bits[i] \in Nat
    PROVE  \E f : BitSums(f, w, bits) /\ FromBits(w, bits) = f[w]
<1> DEFINE Def(f) == f = [i \in 0..w |-> IF i = 0 THEN 0
                                         ELSE f[i - 1] + bits[i - 1] * 2^(i - 1)]
           g == [p \in (1..w) \X Nat |-> p[2] + bits[p[1] - 1] * 2^(p[1] - 1)]
<1>1. g \in [(1..w) \X Nat -> Nat]
  <2> SUFFICES ASSUME NEW p \in (1..w) \X Nat
               PROVE  p[2] + bits[p[1] - 1] * 2^(p[1] - 1) \in Nat
    OBVIOUS
  <2>1. p[1] - 1 \in 0..w - 1 /\ p[1] - 1 \in Nat /\ p[2] \in Nat
    OBVIOUS
  <2> DEFINE q == 2^(p[1] - 1)
             b == bits[p[1] - 1]
  <2>2. q \in Nat /\ b \in Nat
    BY <2>1, PowerNext
  <2> HIDE DEF q, b
  <2>3. p[2] + b * q \in Nat
    BY <2>1, <2>2
  <2> QED
    BY <2>3 DEF q, b
<1>2. \A i \in 1..w, v \in Nat : g[<<i, v>>] = v + bits[i - 1] * 2^(i - 1)
  OBVIOUS
<1> HIDE DEF g
<1>3. PICK f : f \in [0..w -> Nat] /\ Stepped(f, w, 0, g)
  BY <1>1, StepFunction
<1>4. \A i \in 0..w : f[i] = IF i = 0 THEN 0 ELSE f[i - 1] + bits[i - 1] * 2^(i - 1)
  <2> SUFFICES ASSUME NEW i \in 0..w, i # 0
               PROVE  f[i] = f[i - 1] + bits[i - 1] * 2^(i - 1)
    BY <1>3 DEF Stepped
  <2>1. i \in 1..w /\ i - 1 \in 0..w
    OBVIOUS
  <2>2. f[i] = g[<<i, f[i - 1]>>] /\ f[i - 1] \in Nat
    BY <1>3, <2>1 DEF Stepped
  <2> QED
    BY <1>2, <2>1, <2>2
<1>5. Def(f)
  <2>1. f = [i \in 0..w |-> f[i]]
    BY <1>3
  <2>2. [i \in 0..w |-> f[i]]
          = [i \in 0..w |-> IF i = 0 THEN 0 ELSE f[i - 1] + bits[i - 1] * 2^(i - 1)]
    BY <1>4, Zenon
  <2> QED
    BY <2>1, <2>2, Zenon
<1> DEFINE h == CHOOSE h : Def(h)
<1>6. Def(h)
  BY <1>5, Zenon
<1>7. FromBits(w, bits) = h[w]
  BY DEF FromBits
<1> HIDE DEF h
<1>8. h[0] = 0
  BY <1>6
<1>9. \A i \in 0..w - 1 : h[i + 1] = h[i] + bits[i] * 2^i
  <2> TAKE i \in 0..w - 1
  <2>1. i + 1 \in 0..w /\ i + 1 # 0 /\ (i + 1) - 1 = i
    OBVIOUS
  <2>2. h[i + 1] = h[(i + 1) - 1] + bits[(i + 1) - 1] * 2^((i + 1) - 1)
    BY <1>6, <2>1
  <2> QED
    BY <2>1, <2>2, Zenon
<1>10. h \in [0..w -> Nat]
  <2> DEFINE S == {i \in 0..w : h[i] \in Nat}
  <2>1. 0 \in S
    BY <1>8
  <2>2. ASSUME NEW i \in 0..w - 1, i \in S
        PROVE  i + 1 \in S
    <3> DEFINE q == 2^i
               b == bits[i]
    <3>1. q \in Nat /\ b \in Nat /\ h[i] \in Nat /\ h[i + 1] = h[i] + b * q
      BY <1>9, <2>2, PowerNext
    <3> HIDE DEF q, b
    <3>2. h[i + 1] \in Nat
      BY <3>1
    <3> QED
      BY <3>2
  <2> HIDE DEF S
  <2>3. \A i \in 0..w : i \in S
    BY <2>1, <2>2, InductTo
  <2>4. \A i \in 0..w : h[i] \in Nat
    BY <2>3 DEF S
  <2>5. h = [i \in 0..w |-> h[i]]
    BY <1>6
  <2> QED
    BY <2>4, <2>5
<1> QED
  BY <1>7, <1>8, <1>9, <1>10 DEF BitSums

\* A word is less than the power of its width.
LEMMA FromBitsBelow ==
    ASSUME NEW w \in Nat, NEW bits, \A i \in 0..w - 1 : bits[i] \in {0, 1}
    PROVE  FromBits(w, bits) \in WordsOf(w)
<1>0. \A i \in 0..w - 1 : bits[i] \in Nat
  OBVIOUS
<1>1. PICK f : BitSums(f, w, bits) /\ FromBits(w, bits) = f[w]
  BY <1>0, FromBitsIs
<1> DEFINE S == {i \in 0..w : f[i] < 2^i}
<1>2. 0 \in S
  BY <1>1, PowerZero DEF BitSums
<1>3. ASSUME NEW i \in 0..w - 1, i \in S
      PROVE  i + 1 \in S
  <2>1. 2^i \in Nat /\ 2^(i + 1) = 2 * 2^i /\ bits[i] \in {0, 1} /\ f[i] \in Nat
    BY <1>1, PowerNext DEF BitSums
  <2>2. f[i + 1] = f[i] + bits[i] * 2^i /\ f[i] < 2^i
    BY <1>1, <1>3 DEF BitSums
  <2>3. bits[i] * 2^i <= 2^i
    BY <2>1
  <2> QED
    BY <2>1, <2>2, <2>3
<1> HIDE DEF S
<1>4. w \in S
  <2>1. \A i \in 0..w : i \in S
    BY <1>2, <1>3, InductTo
  <2> QED
    BY <2>1
<1>5. f[w] \in Nat /\ f[w] < 2^w /\ 2^w \in Nat
  <2>1. f[w] < 2^w
    BY <1>4, Zenon DEF S
  <2>2. f[w] \in Nat
    BY <1>1 DEF BitSums
  <2> QED
    BY <2>1, <2>2, PowerNext
<1>6. f[w] \in 0..2^w - 1
  BY <1>5
<1> QED
  BY <1>1, <1>6 DEF WordsOf

\* A bit of a word: what a division by its power leaves of the whole.
LEMMA BitOf ==
    ASSUME NEW j \in Nat, NEW low \in 0..2^j - 1, NEW b \in {0, 1}, NEW rest \in Nat
    PROVE  Bit(low + 2^j * (b + 2 * rest), j) = b
<1> DEFINE p == 2^j
           q == b + 2 * rest
<1>1. p \in Nat \ {0} /\ q \in Nat /\ low \in 0..p - 1
  BY PowerNext
<1>2. (low + p * q) = p * q + low
  <2> HIDE DEF p, q
  <2> QED
    BY <1>1
<1>3. (p * q + low) \div p = q
  <2> HIDE DEF p, q
  <2> QED
    BY <1>1, DivModIs
<1>4. q % 2 = b
  OBVIOUS
<1> HIDE DEF p, q
<1>5. ((low + p * q) \div p) % 2 = b
  BY <1>2, <1>3, <1>4
<1> QED
  BY <1>5 DEF Bit, p, q

\* A word that was put together of bits has those bits.
LEMMA BitsComeBack ==
    ASSUME NEW w \in Nat, NEW bits, \A i \in 0..w - 1 : bits[i] \in {0, 1},
           NEW j \in 0..w - 1
    PROVE  Bit(FromBits(w, bits), j) = bits[j]
<1>0. \A i \in 0..w - 1 : bits[i] \in Nat
  OBVIOUS
<1>1. PICK f : BitSums(f, w, bits) /\ FromBits(w, bits) = f[w]
  BY <1>0, FromBitsIs
<1>2. FromBits(j, bits) \in WordsOf(j)
  BY FromBitsBelow
<1>3. PICK e : BitSums(e, j, bits) /\ FromBits(j, bits) = e[j]
  <2>1. j \in Nat /\ \A i \in 0..j - 1 : bits[i] \in Nat
    OBVIOUS
  <2> QED
    BY <2>1, FromBitsIs
\* the sums below j are those of the shorter word
<1>4. f[j] \in 0..2^j - 1
  <2> DEFINE S == {i \in 0..j : f[i] = e[i]}
  <2>1. 0 \in S
    BY <1>1, <1>3 DEF BitSums
  <2>2. ASSUME NEW i \in 0..j - 1, i \in S
        PROVE  i + 1 \in S
    <3>1. f[i + 1] = f[i] + bits[i] * 2^i /\ e[i + 1] = e[i] + bits[i] * 2^i
      BY <1>1, <1>3 DEF BitSums
    <3> QED
      BY <2>2, <3>1
  <2> HIDE DEF S
  <2>3. j \in S
    BY <2>1, <2>2, InductTo
  <2> QED
    BY <1>2, <1>3, <2>3 DEF S, WordsOf
\* and those above j are multiples of the next power
<1> DEFINE n == w - (j + 1)
           T == {k \in 0..n : \E rest \in Nat :
                    f[(j + 1) + k] = f[j] + 2^j * (bits[j] + 2 * rest)}
<1>5. n \in Nat /\ j \in Nat /\ bits[j] \in {0, 1} /\ 2^j \in Nat
  BY PowerNext
<1>6. 0 \in T
  <2>1. f[j + 1] = f[j] + bits[j] * 2^j
    BY <1>1 DEF BitSums
  <2>2. bits[j] * 2^j = 2^j * (bits[j] + 2 * 0)
    BY <1>5
  <2>3. (j + 1) + 0 = j + 1
    OBVIOUS
  <2>4. f[(j + 1) + 0] = f[j] + 2^j * (bits[j] + 2 * 0)
    BY <2>1, <2>2, <2>3
  <2> QED
    BY <1>5, <2>4
<1>7. ASSUME NEW k \in 0..n - 1, k \in T
      PROVE  k + 1 \in T
  <2>1. PICK rest \in Nat : f[(j + 1) + k] = f[j] + 2^j * (bits[j] + 2 * rest)
    BY <1>7
  <2> DEFINE i == (j + 1) + k
  <2>2. i \in 0..w - 1 /\ i + 1 = (j + 1) + (k + 1) /\ k \in Nat /\ j + 1 \in Nat
    OBVIOUS
  <2>3. f[i + 1] = f[i] + bits[i] * 2^i /\ bits[i] \in Nat
    <3>1. \A m \in 0..w - 1 : f[m + 1] = f[m] + bits[m] * 2^m /\ bits[m] \in Nat
      BY <1>0, <1>1 DEF BitSums
    <3>2. i \in 0..w - 1
      BY <2>2
    <3> HIDE DEF i
    <3> QED
      BY <3>1, <3>2
  <2>4. 2^i = 2 * 2^j * 2^k
    <3>1. 2^((j + 1) + k) = 2^(j + 1) * 2^k
      BY <2>2, PowerSum
    <3>2. 2^(j + 1) = 2 * 2^j
      BY <1>5, PowerNext
    <3> QED
      BY <3>1, <3>2
  <2> DEFINE x == 2^j
             y == 2^k
             more == rest + bits[i] * y
  <2>5. x \in Nat /\ y \in Nat /\ f[j] \in Nat
    BY <1>1, <1>5, <2>2, PowerNext DEF BitSums
  <2>6. 2^i = 2 * x * y
    BY <2>4
  <2>7. f[i] = f[j] + x * (bits[j] + 2 * rest)
    BY <2>1
  <2>8. more \in Nat
    <3> HIDE DEF y, i
    <3> QED
      BY <2>3, <2>5
  <2> HIDE DEF i, x, y
  <2>9. bits[i] * (2 * x * y) = x * (2 * (bits[i] * y))
    BY <2>3, <2>5
  <2>10. x * (bits[j] + 2 * rest) + x * (2 * (bits[i] * y)) = x * (bits[j] + 2 * more)
    BY <1>5, <2>3, <2>5
  <2>11. f[i + 1] = f[j] + x * (bits[j] + 2 * more)
    <3> DEFINE u == x * (bits[j] + 2 * rest)
               v == x * (2 * (bits[i] * y))
               z == x * (bits[j] + 2 * more)
    <3>1. f[i + 1] = (f[j] + u) + v
      BY <2>3, <2>6, <2>7, <2>9
    <3>2. u \in Nat /\ v \in Nat /\ z \in Nat
      BY <1>5, <2>3, <2>5, <2>8
    <3>3. u + v = z
      BY <2>10
    <3> HIDE DEF u, v, z
    <3>4. f[i + 1] = f[j] + z
      BY <2>5, <3>1, <3>2, <3>3
    <3> QED
      BY <3>4 DEF z
  <2> HIDE DEF more
  <2>12. f[(j + 1) + (k + 1)] = f[j] + 2^j * (bits[j] + 2 * more)
    BY <2>2, <2>11 DEF x
  <2>13. k + 1 \in 0..n
    BY <1>5
  <2> QED
    BY <2>8, <2>12, <2>13
<1> HIDE DEF T
<1>8. n \in T
  BY <1>5, <1>6, <1>7, InductTo
<1>9. (j + 1) + n = w
  OBVIOUS
<1>10. PICK rest \in Nat : f[w] = f[j] + 2^j * (bits[j] + 2 * rest)
  BY <1>8, <1>9 DEF T
<1>11. Bit(f[j] + 2^j * (bits[j] + 2 * rest), j) = bits[j]
  BY <1>4, <1>5, <1>10, BitOf
<1> QED
  BY <1>1, <1>10, <1>11, Zenon

\* A bit is zero or one, and adds its weight to the remainder below it.
LEMMA BitIs ==
    ASSUME NEW a \in Nat, NEW i \in Nat
    PROVE  /\ Bit(a, i) \in {0, 1}
           /\ a % 2^(i + 1) = (a % 2^i) + Bit(a, i) * 2^i
<1> DEFINE p == 2^i
           q == a \div p
           r == a % p
           d == q \div 2
           b == q % 2
<1>1. p \in Nat \ {0} /\ 2^(i + 1) = 2 * p
  BY PowerNext
<1>2. q \in Int /\ r \in 0..p - 1 /\ a = p * q + r
  <2> HIDE DEF p
  <2> QED
    BY <1>1, DivMod
<1>3. d \in Int /\ b \in 0..1 /\ q = 2 * d + b
  <2> HIDE DEF q
  <2> QED
    BY <1>2
<1>4. Bit(a, i) = b /\ a % 2^i = r
  BY DEF Bit
<1> HIDE DEF p, q, r, d, b
<1>5. p * b + r \in 0..2 * p - 1
  <2>1. b = 0 \/ b = 1
    BY <1>3
  <2>2. b = 0 => p * b = 0
    BY <1>1
  <2>3. b = 1 => p * b = p
    BY <1>1
  <2> QED
    BY <1>1, <1>2, <2>1, <2>2, <2>3
<1>6. a = (2 * p) * d + (p * b + r)
  <2>1. p * (2 * d + b) = (2 * p) * d + p * b
    BY <1>1, <1>3
  <2>2. p * q = (2 * p) * d + p * b
    BY <1>3, <2>1
  <2>3. (2 * p) * d \in Int /\ p * b \in Int
    BY <1>1, <1>3
  <2> QED
    BY <1>2, <2>2, <2>3
<1>7. 2 * p \in Nat \ {0}
  BY <1>1
<1>8. a % (2 * p) = p * b + r
  BY <1>3, <1>5, <1>6, <1>7, DivModIs
<1>9. p * b + r = r + b * p
  BY <1>1, <1>2, <1>3
<1> QED
  BY <1>1, <1>3, <1>4, <1>8, <1>9 DEF p

\* A word is what its bits make.
LEMMA WordOfBits ==
    ASSUME NEW w \in Nat, NEW a \in WordsOf(w),
           NEW bits, \A i \in 0..w - 1 : bits[i] = Bit(a, i)
    PROVE  FromBits(w, bits) = a
<1>1. a \in Nat /\ a < 2^w /\ 2^w \in Nat
  BY PowerNext DEF WordsOf
<1>2. \A i \in 0..w - 1 : bits[i] \in Nat
  <2> TAKE i \in 0..w - 1
  <2>1. i \in Nat
    OBVIOUS
  <2>2. Bit(a, i) \in {0, 1}
    BY <1>1, <2>1, BitIs
  <2> QED
    BY <2>2
<1>3. PICK f : BitSums(f, w, bits) /\ FromBits(w, bits) = f[w]
  BY <1>2, FromBitsIs
<1> DEFINE S == {i \in 0..w : f[i] = a % 2^i}
<1>4. 0 \in S
  <2>1. a % 1 = 0
    BY <1>1
  <2>2. a % 2^0 = 0
    BY <2>1, PowerZero
  <2> QED
    BY <1>3, <2>2 DEF BitSums
<1>5. ASSUME NEW i \in 0..w - 1, i \in S
      PROVE  i + 1 \in S
  <2>1. f[i + 1] = f[i] + Bit(a, i) * 2^i
    BY <1>3 DEF BitSums
  <2>2. a % 2^(i + 1) = (a % 2^i) + Bit(a, i) * 2^i
    BY <1>1, BitIs
  <2>3. f[i] = a % 2^i
    BY <1>5
  <2> QED
    BY <2>1, <2>2, <2>3
<1> HIDE DEF S
<1>6. w \in S
  <2>1. \A i \in 0..w : i \in S
    BY <1>4, <1>5, InductTo
  <2> QED
    BY <2>1
<1>7. f[w] = a % 2^w
  BY <1>6, Zenon DEF S
<1>8. a % 2^w = a
  BY <1>1
<1> QED
  BY <1>3, <1>7, <1>8

\* Two words with the same bits are one.
LEMMA SameBits ==
    ASSUME NEW w \in Nat, NEW a \in WordsOf(w), NEW b \in WordsOf(w),
           \A i \in 0..w - 1 : Bit(a, i) = Bit(b, i)
    PROVE  a = b
<1> DEFINE bits == [i \in 0..w - 1 |-> Bit(a, i)]
<1>1. \A i \in 0..w - 1 : bits[i] = Bit(a, i) /\ bits[i] = Bit(b, i)
  OBVIOUS
<1> HIDE DEF bits
<1>2. FromBits(w, bits) = a
  BY <1>1, WordOfBits
<1>3. FromBits(w, bits) = b
  BY <1>1, WordOfBits
<1> QED
  BY <1>2, <1>3

----------------------------------------------------------------------------
(* Exclusive or.                                                           *)

\* The exclusive or of words is a word, bit by bit.
LEMMA XorBits ==
    ASSUME NEW w \in Nat, NEW a \in WordsOf(w), NEW b \in WordsOf(w)
    PROVE  /\ Xor(w, a, b) \in WordsOf(w)
           /\ \A i \in 0..w - 1 : /\ Bit(Xor(w, a, b), i) = (Bit(a, i) + Bit(b, i)) % 2
                                  /\ Bit(a, i) \in {0, 1} /\ Bit(b, i) \in {0, 1}
<1> DEFINE bits == [i \in 0..w - 1 |-> (Bit(a, i) + Bit(b, i)) % 2]
<1>1. a \in Nat /\ b \in Nat
  BY PowerNext DEF WordsOf
<1>2. \A i \in 0..w - 1 : Bit(a, i) \in {0, 1} /\ Bit(b, i) \in {0, 1}
  <2> TAKE i \in 0..w - 1
  <2>1. i \in Nat
    OBVIOUS
  <2> QED
    BY <1>1, <2>1, BitIs
<1>3. \A i \in 0..w - 1 : bits[i] = (Bit(a, i) + Bit(b, i)) % 2 /\ bits[i] \in {0, 1}
  BY <1>2
<1>4. Xor(w, a, b) = FromBits(w, bits)
  BY DEF Xor
<1> HIDE DEF bits
<1>5. FromBits(w, bits) \in WordsOf(w)
  BY <1>3, FromBitsBelow
<1>6. \A i \in 0..w - 1 : Bit(FromBits(w, bits), i) = bits[i]
  BY <1>3, BitsComeBack
<1> QED
  BY <1>2, <1>3, <1>4, <1>5, <1>6

\* A difference of bit patterns is undone by the pattern it was taken from.
LEMMA XorUndone ==
    ASSUME NEW w \in Nat, NEW a \in WordsOf(w), NEW b \in WordsOf(w)
    PROVE  Xor(w, b, Xor(w, a, b)) = a
<1> DEFINE d == Xor(w, a, b)
<1>1. /\ d \in WordsOf(w)
      /\ \A i \in 0..w - 1 : /\ Bit(d, i) = (Bit(a, i) + Bit(b, i)) % 2
                             /\ Bit(a, i) \in {0, 1} /\ Bit(b, i) \in {0, 1}
  BY XorBits
<1> HIDE DEF d
<1> DEFINE e == Xor(w, b, d)
<1>2. /\ e \in WordsOf(w)
      /\ \A i \in 0..w - 1 : Bit(e, i) = (Bit(b, i) + Bit(d, i)) % 2
  BY <1>1, XorBits
<1> HIDE DEF e
<1>3. \A i \in 0..w - 1 : Bit(e, i) = Bit(a, i)
  <2> TAKE i \in 0..w - 1
  <2> DEFINE x == Bit(a, i)
             y == Bit(b, i)
             z == Bit(d, i)
  <2>1. x \in {0, 1} /\ y \in {0, 1} /\ z = (x + y) % 2 /\ Bit(e, i) = (y + z) % 2
    BY <1>1, <1>2
  <2> HIDE DEF x, y, z
  <2>2. (y + z) % 2 = x
    BY <2>1
  <2> QED
    BY <2>1, <2>2 DEF x
<1>4. e = a
  BY <1>2, <1>3, SameBits
<1> QED
  BY <1>4 DEF d, e

\* Nothing changes a word by exclusive or.
LEMMA XorZero ==
    ASSUME NEW w \in Nat, NEW a \in WordsOf(w)
    PROVE  Xor(w, a, 0) = a
<1>1. 0 \in WordsOf(w)
  BY PowerNext DEF WordsOf
<1>2. \A i \in 0..w - 1 : Bit(0, i) = 0
  <2> TAKE i \in 0..w - 1
  <2> DEFINE p == 2^i
  <2>1. p \in Nat \ {0}
    BY PowerNext
  <2>2. Bit(0, i) = (0 \div p) % 2
    BY DEF Bit
  <2> HIDE DEF p
  <2>3. (p * 0 + 0) \div p = 0 /\ p * 0 + 0 = 0
    BY <2>1, DivModIs
  <2>4. 0 \div p = 0
    BY <2>3
  <2> QED
    BY <2>2, <2>4
<1> DEFINE e == Xor(w, a, 0)
<1>3. /\ e \in WordsOf(w)
      /\ \A i \in 0..w - 1 : Bit(e, i) = (Bit(a, i) + Bit(0, i)) % 2 /\ Bit(a, i) \in {0, 1}
  BY <1>1, XorBits
<1> HIDE DEF e
<1>4. \A i \in 0..w - 1 : Bit(e, i) = Bit(a, i)
  BY <1>2, <1>3
<1>5. e = a
  BY <1>3, <1>4, SameBits
<1> QED
  BY <1>5 DEF e

\* The bits of what is missing from all ones.
LEMMA BitOfComplement ==
    ASSUME NEW w \in Nat, NEW a \in WordsOf(w), NEW i \in 0..w - 1
    PROVE  Bit(2^w - 1 - a, i) = 1 - Bit(a, i)
<1> DEFINE p == 2^i
           q == a \div p
           r == a % p
           n == w - i
           h == 2^(n - 1)
<1>1. i \in Nat /\ n \in Nat \ {0} /\ i + n = w
  OBVIOUS
<1>2. p \in Nat \ {0}
  BY <1>1, PowerNext
<1>3. 2^n = 2 * h /\ h \in Nat
  <2> HIDE DEF n
  <2> QED
    BY <1>1, PowerBefore
<1>4. 2^w = p * (2 * h)
  <2>1. 2^(i + n) = 2^i * 2^n
    BY <1>1, PowerSum
  <2> QED
    BY <1>1, <1>3, <2>1
<1>5. a \in Nat
  BY PowerNext DEF WordsOf
<1>6. q \in Int /\ r \in 0..p - 1 /\ a = p * q + r
  <2> HIDE DEF p
  <2> QED
    BY <1>2, <1>5, DivMod
<1>7. Bit(a, i) = q % 2 /\ Bit(2^w - 1 - a, i) = ((2^w - 1 - a) \div p) % 2
  BY DEF Bit
<1> HIDE DEF p, q, r, n, h
<1>8. 2^w - 1 - a = p * (2 * h - 1 - q) + (p - 1 - r)
  <2>1. p * (2 * h - 1 - q) = p * (2 * h) - p - p * q
    BY <1>2, <1>3, <1>6
  <2>2. p * (2 * h) \in Int /\ p * q \in Int
    BY <1>2, <1>3, <1>6
  <2> QED
    BY <1>2, <1>4, <1>6, <2>1, <2>2
<1>9. (2^w - 1 - a) \div p = 2 * h - 1 - q
  <2>1. 2 * h - 1 - q \in Int /\ p - 1 - r \in 0..p - 1
    BY <1>2, <1>3, <1>6
  <2> QED
    <3> DEFINE u == 2 * h - 1 - q
               v == p - 1 - r
    <3>1. u \in Int /\ v \in 0..p - 1
      BY <2>1
    <3> HIDE DEF u, v
    <3>2. (p * u + v) \div p = u
      BY <1>2, <3>1, DivModIs
    <3> QED
      BY <1>8, <3>2 DEF u, v
<1>10. (2 * h - 1 - q) % 2 = 1 - (q % 2)
  BY <1>3, <1>6
<1> QED
  BY <1>7, <1>9, <1>10

\* The exclusive or with all ones is the complement.
LEMMA XorOnes ==
    ASSUME NEW w \in Nat, NEW a \in WordsOf(w)
    PROVE  Xor(w, a, 2^w - 1) = 2^w - 1 - a
<1>1. 2^w \in Nat /\ 2^w >= 1 /\ a \in 0..2^w - 1
  BY PowerNext DEF WordsOf
<1>2. 0 \in WordsOf(w) /\ 2^w - 1 \in WordsOf(w) /\ 2^w - 1 - a \in WordsOf(w)
  BY <1>1 DEF WordsOf
<1>3. \A i \in 0..w - 1 : Bit(2^w - 1, i) = 1
  <2> TAKE i \in 0..w - 1
  <2>1. Bit(2^w - 1 - 0, i) = 1 - Bit(0, i)
    BY <1>2, BitOfComplement
  <2>2. Bit(0, i) = 0
    <3> DEFINE p == 2^i
    <3>1. p \in Nat \ {0}
      BY PowerNext
    <3>2. Bit(0, i) = (0 \div p) % 2
      BY DEF Bit
    <3> HIDE DEF p
    <3>3. (p * 0 + 0) \div p = 0 /\ p * 0 + 0 = 0
      BY <3>1, DivModIs
    <3> QED
      BY <3>2, <3>3
  <2>3. 2^w - 1 - 0 = 2^w - 1
    BY <1>1
  <2> QED
    BY <2>1, <2>2, <2>3
<1> DEFINE o == 2^w - 1
           c == 2^w - 1 - a
           e == Xor(w, a, o)
<1>4. o \in WordsOf(w) /\ c \in WordsOf(w)
      /\ \A i \in 0..w - 1 : Bit(o, i) = 1 /\ Bit(c, i) = 1 - Bit(a, i)
  BY <1>2, <1>3, BitOfComplement
<1> HIDE DEF o, c
<1>5. /\ e \in WordsOf(w)
      /\ \A i \in 0..w - 1 : Bit(e, i) = (Bit(a, i) + Bit(o, i)) % 2 /\ Bit(a, i) \in {0, 1}
  BY <1>4, XorBits
<1> HIDE DEF e
<1>6. \A i \in 0..w - 1 : Bit(e, i) = Bit(c, i)
  BY <1>4, <1>5
<1>7. e = c
  BY <1>4, <1>5, <1>6, SameBits
<1> QED
  BY <1>7 DEF o, c, e

----------------------------------------------------------------------------
(* The transforms of single elements.                                      *)

\* A sign moved to the lowest bit moves back.
LEMMA ZigzagBack ==
    ASSUME NEW w \in Nat \ {0}, NEW v \in WordsOf(w)
    PROVE  ZigzagDec(w, ZigzagEnc(w, v)) = v
<1> DEFINE h == 2^(w - 1)
<1>1. h \in Nat \ {0} /\ 2^w = 2 * h
  BY PowerBefore
<1>2. v \in 0..2 * h - 1
  BY <1>1 DEF WordsOf
<1>3. 2^1 = 2
  OBVIOUS
<1>4. Shr(v, w - 1) = v \div h
  BY DEF Shr
<1>5. Shl(w, v, 1) = (v * 2) % (2 * h)
  BY <1>1, <1>3 DEF Shl
<1>6. \A z : Shr(z, 1) = z \div 2
  BY <1>3 DEF Shr
<1>7. \A x : Neg(w, x) = (2 * h - x) % (2 * h)
  BY <1>1 DEF Neg
<1> HIDE DEF h
<1>8. CASE v < h
  <2>1. v \div h = 0
    BY <1>1, <1>2, <1>8
  <2>2. (v * 2) % (2 * h) = 2 * v
    BY <1>1, <1>2, <1>8
  <2>3. 2 * v \in WordsOf(w)
    BY <1>1, <1>2, <1>8 DEF WordsOf
  <2>4. ZigzagEnc(w, v) = 2 * v
    BY <1>4, <1>5, <2>1, <2>2, <2>3, XorZero DEF ZigzagEnc
  <2>5. (2 * v) \div 2 = v /\ (2 * v) % 2 = 0 /\ (2 * h - 0) % (2 * h) = 0
    BY <1>1, <1>2
  <2>6. Shr(2 * v, 1) = v /\ Neg(w, (2 * v) % 2) = 0
    BY <1>6, <1>7, <2>5
  <2> QED
    BY <2>4, <2>6, XorZero DEF ZigzagDec
<1>9. CASE ~ (v < h)
  <2>1. v \div h = 1
    <3>1. v - h \in 0..h - 1 /\ v = 1 * h + (v - h) /\ 1 \in Int
      BY <1>1, <1>2, <1>9
    <3> QED
      BY <1>1, <3>1, DivModIs
  <2>2. (v * 2) % (2 * h) = 2 * v - 2 * h
    <3>1. 2 * v - 2 * h \in 0..2 * h - 1 /\ v * 2 = 1 * (2 * h) + (2 * v - 2 * h)
      BY <1>1, <1>2, <1>9
    <3> DEFINE n == 2 * h
               r == 2 * v - 2 * h
    <3>2. n \in Nat \ {0} /\ 1 \in Int /\ r \in 0..n - 1 /\ v * 2 = 1 * n + r
      BY <1>1, <3>1
    <3> HIDE DEF n, r
    <3>3. (v * 2) % n = r
      BY <3>2, DivModIs
    <3> QED
      BY <3>3 DEF n, r
  <2>3. 2 * v - 2 * h \in WordsOf(w)
    BY <1>1, <1>2, <1>9 DEF WordsOf
  <2> DEFINE c == 2 * h - 1 - v
             z == 2 * c + 1
  <2>4. 2^w - 1 - (2 * v - 2 * h) = z
    BY <1>1, <1>2
  <2>5. Xor(w, 2 * v - 2 * h, 2^w - 1) = z
    BY <2>3, <2>4, XorOnes
  <2>6. ZigzagEnc(w, v) = z
    BY <1>4, <1>5, <2>1, <2>2, <2>5 DEF ZigzagEnc
  <2>7. z \div 2 = c /\ z % 2 = 1 /\ (2 * h - 1) % (2 * h) = 2 * h - 1
    BY <1>1, <1>2
  <2>8. Shr(z, 1) = c /\ Neg(w, z % 2) = 2 * h - 1
    BY <1>6, <1>7, <2>7
  <2>9. c \in WordsOf(w) /\ 2 * h - 1 = 2^w - 1 /\ 2^w - 1 - c = v
    BY <1>1, <1>2, <1>9 DEF WordsOf
  <2> HIDE DEF c, z
  <2>10. Xor(w, c, 2^w - 1) = v
    BY <2>9, XorOnes
  <2> QED
    BY <2>6, <2>8, <2>9, <2>10 DEF ZigzagDec
<1> QED
  BY <1>8, <1>9

----------------------------------------------------------------------------
(* The byte shuffle.                                                       *)

\* The lanes of two interleaved registers, the lanes counted from zero.
LEMMA Interleave1 ==
    ASSUME NEW u, NEW v, NEW k \in 0..15
    PROVE  LET at == k \div 2 IN
           /\ InterleaveGroups(1, u, v)[1][k + 1]
                = IF k % 2 = 0 THEN u[at + 1] ELSE v[at + 1]
           /\ InterleaveGroups(1, u, v)[2][k + 1]
                = IF k % 2 = 0 THEN u[(8 + at) + 1] ELSE v[(8 + at) + 1]
<1>1. k + 1 \in 1..16 /\ (k + 1) - 1 = k /\ k \div 1 = k /\ k % 1 = 0
  OBVIOUS
<1>2. 0 * 8 + (k \div 2) * 1 + 0 = k \div 2 /\ 1 * 8 + (k \div 2) * 1 + 0 = 8 + k \div 2
  OBVIOUS
<1> QED
  BY <1>1, <1>2 DEF InterleaveGroups

\* Where a round of interleaving by twos puts each lane.
LEMMA Interleave2 ==
    ASSUME NEW u, NEW v, NEW k \in 0..15
    PROVE  LET at == 2 * (k \div 4) + (k % 2) IN
           /\ InterleaveGroups(2, u, v)[1][k + 1]
                = IF (k \div 2) % 2 = 0 THEN u[at + 1] ELSE v[at + 1]
           /\ InterleaveGroups(2, u, v)[2][k + 1]
                = IF (k \div 2) % 2 = 0 THEN u[(8 + at) + 1] ELSE v[(8 + at) + 1]
<1> DEFINE at == 2 * (k \div 4) + (k % 2)
<1>1. k + 1 \in 1..16 /\ (k + 1) - 1 = k
  OBVIOUS
<1>2. 0 * 8 + ((k \div 2) \div 2) * 2 + (k % 2) = at
      /\ 1 * 8 + ((k \div 2) \div 2) * 2 + (k % 2) = 8 + at
  OBVIOUS
<1> HIDE DEF at
<1>3. /\ InterleaveGroups(2, u, v)[1][k + 1]
            = IF (k \div 2) % 2 = 0 THEN u[at + 1] ELSE v[at + 1]
      /\ InterleaveGroups(2, u, v)[2][k + 1]
            = IF (k \div 2) % 2 = 0 THEN u[(8 + at) + 1] ELSE v[(8 + at) + 1]
  BY <1>1, <1>2 DEF InterleaveGroups
<1> QED
  BY <1>3 DEF at

\* Where a round by fours does.
LEMMA Interleave4 ==
    ASSUME NEW u, NEW v, NEW k \in 0..15
    PROVE  LET at == 4 * (k \div 8) + (k % 4) IN
           /\ InterleaveGroups(4, u, v)[1][k + 1]
                = IF (k \div 4) % 2 = 0 THEN u[at + 1] ELSE v[at + 1]
           /\ InterleaveGroups(4, u, v)[2][k + 1]
                = IF (k \div 4) % 2 = 0 THEN u[(8 + at) + 1] ELSE v[(8 + at) + 1]
<1> DEFINE at == 4 * (k \div 8) + (k % 4)
<1>1. k + 1 \in 1..16 /\ (k + 1) - 1 = k
  OBVIOUS
<1>2. 0 * 8 + ((k \div 4) \div 2) * 4 + (k % 4) = at
      /\ 1 * 8 + ((k \div 4) \div 2) * 4 + (k % 4) = 8 + at
  OBVIOUS
<1> HIDE DEF at
<1>3. /\ InterleaveGroups(4, u, v)[1][k + 1]
            = IF (k \div 4) % 2 = 0 THEN u[at + 1] ELSE v[at + 1]
      /\ InterleaveGroups(4, u, v)[2][k + 1]
            = IF (k \div 4) % 2 = 0 THEN u[(8 + at) + 1] ELSE v[(8 + at) + 1]
  BY <1>1, <1>2 DEF InterleaveGroups
<1> QED
  BY <1>3 DEF at

\* The two registers an interleaving gives, and those of several after
\* another.
IsPair(a) == a = <<a[1], a[2]>>

\* A round returns two registers.
LEMMA PairIs ==
    ASSUME NEW g, NEW u, NEW v
    PROVE  IsPair(InterleaveGroups(g, u, v))
  BY DEF InterleaveGroups, IsPair

\* Two pairs in one sequence.
LEMMA TwoPairs ==
    ASSUME NEW a, NEW b, IsPair(a), IsPair(b)
    PROVE  a \o b = <<a[1], a[2], b[1], b[2]>>
<1>1. ASSUME NEW p, NEW q, NEW c, NEW d
      PROVE  <<p, q>> \o <<c, d>> = <<p, q, c, d>>
  <2> DEFINE T == {p, q, c, d}
             s == <<p, q>> \o <<c, d>>
             t == <<p, q, c, d>>
  <2>1. s \in Seq(T) /\ t \in Seq(T) /\ Len(s) = Len(t)
    OBVIOUS
  <2>2. \A i \in 1..Len(s) : s[i] = t[i]
    OBVIOUS
  <2> HIDE DEF s, t
  <2>3. s = t
    BY <2>1, <2>2, SeqEqual
  <2> QED
    BY <2>3 DEF s, t
<1> QED
  BY <1>1, Zenon DEF IsPair

\* Four pairs in one sequence.
LEMMA FourPairs ==
    ASSUME NEW a, NEW b, NEW c, NEW d, IsPair(a), IsPair(b), IsPair(c), IsPair(d)
    PROVE  ((a \o b) \o c) \o d = <<a[1], a[2], b[1], b[2], c[1], c[2], d[1], d[2]>>
<1>1. ASSUME NEW e, NEW f, NEW g, NEW h, NEW m, NEW n, NEW p, NEW q
      PROVE  ((<<e, f>> \o <<g, h>>) \o <<m, n>>) \o <<p, q>> = <<e, f, g, h, m, n, p, q>>
  <2> DEFINE T == {e, f, g, h, m, n, p, q}
             s == ((<<e, f>> \o <<g, h>>) \o <<m, n>>) \o <<p, q>>
             t == <<e, f, g, h, m, n, p, q>>
  <2>1. s \in Seq(T) /\ t \in Seq(T) /\ Len(s) = Len(t)
    OBVIOUS
  <2>2. \A i \in 1..Len(s) : s[i] = t[i]
    OBVIOUS
  <2> HIDE DEF s, t
  <2>3. s = t
    BY <2>1, <2>2, SeqEqual
  <2> QED
    BY <2>3 DEF s, t
<1> QED
  <2> DEFINE T == <<a[1], a[2], b[1], b[2], c[1], c[2], d[1], d[2]>>
  <2>1. ((<<a[1], a[2]>> \o <<b[1], b[2]>>) \o <<c[1], c[2]>>) \o <<d[1], d[2]>> = T
    BY <1>1
  <2> HIDE DEF T
  <2>2. a = <<a[1], a[2]>> /\ b = <<b[1], b[2]>> /\ c = <<c[1], c[2]>> /\ d = <<d[1], d[2]>>
    BY Zenon DEF IsPair
  <2>3. <<a[1], a[2]>> \o <<b[1], b[2]>> = a \o b
    BY <2>2, Zenon
  <2>4. (a \o b) \o <<c[1], c[2]>> = (a \o b) \o c
    BY <2>2, Zenon
  <2>5. ((a \o b) \o c) \o <<d[1], d[2]>> = ((a \o b) \o c) \o d
    BY <2>2, Zenon
  <2>6. ((a \o b) \o c) \o d = T
    BY <2>1, <2>3, <2>4, <2>5, Zenon
  <2> QED
    BY <2>6 DEF T

\* The cascades put the bytes of an element next to each other: register m
\* of the result holds, lane by lane, the bytes of the elements it takes.
LEMMA Transpose2Is ==
    ASSUME NEW r, NEW m \in 0..1, NEW k \in 0..15
    PROVE  Transpose2(r)[m + 1][k + 1] = r[(k % 2) + 1][(8 * m + k \div 2) + 1]
<1> DEFINE g == InterleaveGroups(1, r[1], r[2])
<1>1. /\ g[1][k + 1] = IF k % 2 = 0 THEN r[1][k \div 2 + 1] ELSE r[2][k \div 2 + 1]
      /\ g[2][k + 1] = IF k % 2 = 0 THEN r[1][(8 + k \div 2) + 1]
                                    ELSE r[2][(8 + k \div 2) + 1]
  BY Interleave1
<1>2. Transpose2(r) = g
  BY DEF Transpose2
<1> HIDE DEF g
<1>3. k % 2 \in {0, 1} /\ k \div 2 \in Int /\ m \in {0, 1}
  OBVIOUS
<1>4. CASE m = 0
  <2>1. (8 * m + k \div 2) + 1 = k \div 2 + 1 /\ m + 1 = 1
    BY <1>3, <1>4
  <2> QED
    BY <1>1, <1>2, <1>3, <2>1
<1>5. CASE m = 1
  <2>1. (8 * m + k \div 2) + 1 = (8 + k \div 2) + 1 /\ m + 1 = 2
    BY <1>3, <1>5
  <2> QED
    BY <1>1, <1>2, <1>3, <2>1
<1> QED
  BY <1>3, <1>4, <1>5

\* Two rounds transpose the bytes of elements of four.
LEMMA Transpose4Is ==
    ASSUME NEW r, NEW m \in 0..3, NEW k \in 0..15
    PROVE  Transpose4(r)[m + 1][k + 1] = r[(k % 4) + 1][(4 * m + k \div 4) + 1]
<1> DEFINE A(j) == InterleaveGroups(1, r[2 * j + 1], r[2 * j + 2])
           B(h) == InterleaveGroups(2, A(0)[h], A(1)[h])
           at == 2 * (k \div 4) + (k % 2)
\* lane l of a pair of registers, lower (0) and upper half (1)
<1>1. ASSUME NEW j \in 0..1, NEW h \in 0..1, NEW l \in 0..15
      PROVE  A(j)[h + 1][l + 1] = r[(2 * j + (l % 2)) + 1][(8 * h + l \div 2) + 1]
  <2>1. /\ A(j)[1][l + 1] = IF l % 2 = 0 THEN r[2 * j + 1][l \div 2 + 1]
                                         ELSE r[2 * j + 2][l \div 2 + 1]
        /\ A(j)[2][l + 1] = IF l % 2 = 0 THEN r[2 * j + 1][(8 + l \div 2) + 1]
                                         ELSE r[2 * j + 2][(8 + l \div 2) + 1]
    BY Interleave1
  <2> HIDE DEF A
  <2>2. l % 2 = 0 => (2 * j + (l % 2)) + 1 = 2 * j + 1
    OBVIOUS
  <2>3. l % 2 # 0 => (2 * j + (l % 2)) + 1 = 2 * j + 2
    OBVIOUS
  <2>4. h = 0 => (8 * h + l \div 2) + 1 = l \div 2 + 1 /\ h + 1 = 1
    OBVIOUS
  <2>5. h = 1 => (8 * h + l \div 2) + 1 = (8 + l \div 2) + 1 /\ h + 1 = 2
    OBVIOUS
  <2> QED
    BY <2>1, <2>2, <2>3, <2>4, <2>5
<1>2. ASSUME NEW h \in 0..1, NEW e \in 0..1
      PROVE  B(h + 1)[e + 1][k + 1] = r[(k % 4) + 1][(8 * h + 4 * e + k \div 4) + 1]
  <2> DEFINE u == A(0)[h + 1]
             v == A(1)[h + 1]
             q == 8 * e + at
  <2>1. /\ B(h + 1)[1][k + 1] = IF (k \div 2) % 2 = 0 THEN u[at + 1] ELSE v[at + 1]
        /\ B(h + 1)[2][k + 1] = IF (k \div 2) % 2 = 0 THEN u[(8 + at) + 1]
                                                       ELSE v[(8 + at) + 1]
    <3> HIDE DEF A
    <3> QED
      BY Interleave2
  <2>2. at \in 0..7 /\ q \in 0..15
    OBVIOUS
  <2>3. B(h + 1)[e + 1][k + 1] = IF (k \div 2) % 2 = 0 THEN u[q + 1] ELSE v[q + 1]
    <3> HIDE DEF B, u, v
    <3>1. e = 0 => q = at /\ e + 1 = 1
      BY <2>2
    <3>2. e = 1 => q = 8 + at /\ e + 1 = 2
      BY <2>2
    <3> QED
      BY <2>1, <3>1, <3>2
  <2>4. /\ q % 2 = k % 2
        /\ (8 * h + q \div 2) + 1 = (8 * h + 4 * e + k \div 4) + 1
    OBVIOUS
  <2>5. u[q + 1] = r[(2 * 0 + (q % 2)) + 1][(8 * h + q \div 2) + 1]
    <3> HIDE DEF A, q
    <3> QED
      BY <1>1, <2>2
  <2>6. v[q + 1] = r[(2 * 1 + (q % 2)) + 1][(8 * h + q \div 2) + 1]
    <3> HIDE DEF A, q
    <3> QED
      BY <1>1, <2>2
  <2>7. (k \div 2) % 2 = 0 => (2 * 0 + (k % 2)) + 1 = (k % 4) + 1
    OBVIOUS
  <2>8. (k \div 2) % 2 # 0 => (2 * 1 + (k % 2)) + 1 = (k % 4) + 1
    OBVIOUS
  <2> HIDE DEF B, u, v, q, at
  <2> QED
    BY <2>3, <2>4, <2>5, <2>6, <2>7, <2>8
<1>3. /\ Transpose4(r)[1] = B(1)[1] /\ Transpose4(r)[2] = B(1)[2]
      /\ Transpose4(r)[3] = B(2)[1] /\ Transpose4(r)[4] = B(2)[2]
  <2> DEFINE a == A(0) \o A(1)
  <2>1. IsPair(A(0)) /\ IsPair(A(1))
    BY PairIs
  <2>2. a = InterleaveGroups(1, r[1], r[2]) \o InterleaveGroups(1, r[3], r[4])
    OBVIOUS
  <2>3. Transpose4(r) = InterleaveGroups(2, a[1], a[3]) \o InterleaveGroups(2, a[2], a[4])
    BY <2>2 DEF Transpose4
  <2> HIDE DEF A
  <2>4. a = <<A(0)[1], A(0)[2], A(1)[1], A(1)[2]>>
    BY <2>1, TwoPairs, Zenon
  <2> HIDE DEF a
  <2>5. Transpose4(r) = B(1) \o B(2)
    BY <2>3, <2>4
  <2>6. IsPair(B(1)) /\ IsPair(B(2))
    BY PairIs
  <2> HIDE DEF B
  <2>7. B(1) \o B(2) = <<B(1)[1], B(1)[2], B(2)[1], B(2)[2]>>
    BY <2>6, TwoPairs, Zenon
  <2>8. Transpose4(r) = <<B(1)[1], B(1)[2], B(2)[1], B(2)[2]>>
    BY <2>5, <2>7, Zenon
  <2> QED
    BY <2>8
<1> HIDE DEF A, B
<1>4. /\ m = 0 \/ m = 1 \/ m = 2 \/ m = 3
      /\ 0 \in 0..1 /\ 1 \in 0..1 /\ k \div 4 \in Int /\ k % 4 \in Int
  OBVIOUS
<1>5. B(0 + 1)[0 + 1][k + 1] = r[(k % 4) + 1][(8 * 0 + 4 * 0 + k \div 4) + 1]
  BY <1>2, <1>4
<1>6. B(0 + 1)[1 + 1][k + 1] = r[(k % 4) + 1][(8 * 0 + 4 * 1 + k \div 4) + 1]
  BY <1>2, <1>4
<1>7. B(1 + 1)[0 + 1][k + 1] = r[(k % 4) + 1][(8 * 1 + 4 * 0 + k \div 4) + 1]
  BY <1>2, <1>4
<1>8. B(1 + 1)[1 + 1][k + 1] = r[(k % 4) + 1][(8 * 1 + 4 * 1 + k \div 4) + 1]
  BY <1>2, <1>4
<1> QED
  BY <1>3, <1>4, <1>5, <1>6, <1>7, <1>8

\* What the first two stages of the eight make of the lower four registers,
\* and of the upper four.
LEMMA PairsAreHalves ==
    ASSUME NEW r, NEW m \in 0..3
    PROVE  LET b == Pairs8(Bytes8(r))
           IN  /\ b[m + 1] = Transpose4(<<r[1], r[2], r[3], r[4]>>)[m + 1]
               /\ b[m + 5] = Transpose4(<<r[5], r[6], r[7], r[8]>>)[m + 1]
<1> DEFINE a1 == InterleaveGroups(1, r[1], r[2])
           a2 == InterleaveGroups(1, r[3], r[4])
           a3 == InterleaveGroups(1, r[5], r[6])
           a4 == InterleaveGroups(1, r[7], r[8])
           bytes == ((a1 \o a2) \o a3) \o a4
           p  == a1 \o a2
           q  == a3 \o a4
<1>1. /\ IsPair(a1) /\ IsPair(a2)
      /\ IsPair(a3) /\ IsPair(a4)
  BY PairIs
<1>2. Bytes8(r) = bytes
  BY DEF Bytes8
<1>3. /\ Transpose4(<<r[1], r[2], r[3], r[4]>>)
           = InterleaveGroups(2, p[1], p[3])
             \o InterleaveGroups(2, p[2], p[4])
      /\ Transpose4(<<r[5], r[6], r[7], r[8]>>)
           = InterleaveGroups(2, q[1], q[3])
             \o InterleaveGroups(2, q[2], q[4])
  BY DEF Transpose4
<1> HIDE DEF a1, a2, a3, a4
<1>4. bytes = <<a1[1], a1[2], a2[1], a2[2], a3[1], a3[2], a4[1], a4[2]>>
  BY <1>1, FourPairs, Zenon
<1>5. p = <<a1[1], a1[2], a2[1], a2[2]>>
  BY <1>1, TwoPairs, Zenon
<1>6. q = <<a3[1], a3[2], a4[1], a4[2]>>
  BY <1>1, TwoPairs, Zenon
<1> HIDE DEF bytes, p, q
<1> DEFINE b1 == InterleaveGroups(2, a1[1], a2[1])
           b2 == InterleaveGroups(2, a1[2], a2[2])
           b3 == InterleaveGroups(2, a3[1], a4[1])
           b4 == InterleaveGroups(2, a3[2], a4[2])
           b  == ((b1 \o b2) \o b3) \o b4
<1>7. Pairs8(Bytes8(r)) = b
  BY <1>2, <1>4 DEF Pairs8
<1>8. /\ Transpose4(<<r[1], r[2], r[3], r[4]>>) = b1 \o b2
      /\ Transpose4(<<r[5], r[6], r[7], r[8]>>) = b3 \o b4
  BY <1>3, <1>5, <1>6
<1>9. /\ IsPair(b1) /\ IsPair(b2)
      /\ IsPair(b3) /\ IsPair(b4)
  BY PairIs
<1> HIDE DEF b1, b2, b3, b4
<1>10. b = <<b1[1], b1[2], b2[1], b2[2], b3[1], b3[2], b4[1], b4[2]>>
  BY <1>9, FourPairs, Zenon
<1>11. b1 \o b2 = <<b1[1], b1[2], b2[1], b2[2]>>
  BY <1>9, TwoPairs, Zenon
<1>12. b3 \o b4 = <<b3[1], b3[2], b4[1], b4[2]>>
  BY <1>9, TwoPairs, Zenon
<1> HIDE DEF b
<1>13. m = 0 \/ m = 1 \/ m = 2 \/ m = 3
  OBVIOUS
<1> QED
  BY <1>7, <1>8, <1>10, <1>11, <1>12, <1>13

\* Three rounds transpose those of elements of eight.
LEMMA Transpose8Is ==
    ASSUME NEW r, NEW m \in 0..7, NEW k \in 0..15
    PROVE  Transpose8(r)[m + 1][k + 1] = r[(k % 8) + 1][(2 * m + k \div 8) + 1]
<1> DEFINE b    == Pairs8(Bytes8(r))
           C(j) == InterleaveGroups(4, b[j + 1], b[j + 5])
           lo   == <<r[1], r[2], r[3], r[4]>>
           hi   == <<r[5], r[6], r[7], r[8]>>
           at   == 4 * (k \div 8) + (k % 4)
<1>1. Transpose8(r) = ((C(0) \o C(1)) \o C(2)) \o C(3)
  BY DEF Transpose8, Fours8
<1>2. /\ IsPair(C(0)) /\ IsPair(C(1))
      /\ IsPair(C(2)) /\ IsPair(C(3))
  BY PairIs
<1>3. ASSUME NEW j \in 0..3, NEW e \in 0..1
      PROVE  C(j)[e + 1][k + 1] = r[(k % 8) + 1][(2 * (2 * j + e) + k \div 8) + 1]
  <2> DEFINE q == 8 * e + at
             u == b[j + 1]
             v == b[j + 5]
  <2>1. /\ C(j)[1][k + 1] = IF (k \div 4) % 2 = 0 THEN u[at + 1] ELSE v[at + 1]
        /\ C(j)[2][k + 1] = IF (k \div 4) % 2 = 0 THEN u[(8 + at) + 1]
                                                   ELSE v[(8 + at) + 1]
    <3> HIDE DEF b
    <3> QED
      BY Interleave4
  <2>2. at \in 0..7 /\ q \in 0..15
    OBVIOUS
  <2>3. C(j)[e + 1][k + 1] = IF (k \div 4) % 2 = 0 THEN u[q + 1] ELSE v[q + 1]
    <3> HIDE DEF C, u, v
    <3>1. e = 0 => q = at /\ e + 1 = 1
      BY <2>2
    <3>2. e = 1 => q = 8 + at /\ e + 1 = 2
      BY <2>2
    <3> QED
      BY <2>1, <3>1, <3>2
  <2>4. u = Transpose4(lo)[j + 1] /\ v = Transpose4(hi)[j + 1]
    BY PairsAreHalves
  <2>5. /\ q % 4 = k % 4
        /\ (4 * j + q \div 4) + 1 = (2 * (2 * j + e) + k \div 8) + 1
    OBVIOUS
  <2> DEFINE p == (2 * (2 * j + e) + k \div 8) + 1
  <2> HIDE DEF b, C, u, v, lo, hi
  <2>6. u[q + 1] = lo[(k % 4) + 1][p]
    <3>1. Transpose4(lo)[j + 1][q + 1] = lo[(q % 4) + 1][(4 * j + q \div 4) + 1]
      <4> HIDE DEF q
      <4> QED
        BY <2>2, Transpose4Is
    <3> QED
      BY <2>4, <2>5, <3>1
  <2>7. v[q + 1] = hi[(k % 4) + 1][p]
    <3>1. Transpose4(hi)[j + 1][q + 1] = hi[(q % 4) + 1][(4 * j + q \div 4) + 1]
      <4> HIDE DEF q
      <4> QED
        BY <2>2, Transpose4Is
    <3> QED
      BY <2>4, <2>5, <3>1
  <2>8. /\ lo[1] = r[1] /\ lo[2] = r[2] /\ lo[3] = r[3] /\ lo[4] = r[4]
        /\ hi[1] = r[5] /\ hi[2] = r[6] /\ hi[3] = r[7] /\ hi[4] = r[8]
    BY DEF lo, hi
  <2>9. k % 4 = 0 \/ k % 4 = 1 \/ k % 4 = 2 \/ k % 4 = 3
    OBVIOUS
  <2>10. (k \div 4) % 2 = 0 => (k % 8) + 1 = (k % 4) + 1
    OBVIOUS
  <2>11. (k \div 4) % 2 # 0 => (k % 8) + 1 = (k % 4) + 5
    OBVIOUS
  <2>12. (k \div 4) % 2 = 0 => lo[(k % 4) + 1] = r[(k % 8) + 1]
    BY <2>8, <2>9, <2>10
  <2>13. (k \div 4) % 2 # 0 => hi[(k % 4) + 1] = r[(k % 8) + 1]
    BY <2>8, <2>9, <2>11
  <2> HIDE DEF q, p
  <2>14. C(j)[e + 1][k + 1] = r[(k % 8) + 1][p]
    BY <2>3, <2>6, <2>7, <2>12, <2>13
  <2> QED
    BY <2>14 DEF p
<1> HIDE DEF C
<1> DEFINE c == ((C(0) \o C(1)) \o C(2)) \o C(3)
<1>4. c = <<C(0)[1], C(0)[2], C(1)[1], C(1)[2], C(2)[1], C(2)[2], C(3)[1], C(3)[2]>>
  BY <1>2, FourPairs, Zenon
<1> HIDE DEF c
<1>5. \A j \in 0..3 : \A e \in 0..1 : c[(2 * j + e) + 1] = C(j)[e + 1]
  <2>1. TAKE j \in 0..3
  <2>2. TAKE e \in 0..1
  <2>3. (j = 0 \/ j = 1 \/ j = 2 \/ j = 3) /\ (e = 0 \/ e = 1)
    OBVIOUS
  <2> QED
    BY <1>4, <2>3
<1>6. \E j \in 0..3 : \E e \in 0..1 : m = 2 * j + e
  <2>1. m \div 2 \in 0..3 /\ m % 2 \in 0..1 /\ m = 2 * (m \div 2) + (m % 2)
    OBVIOUS
  <2> QED
    BY <2>1
<1>7. PICK j \in 0..3 : \E e \in 0..1 : m = 2 * j + e
  BY <1>6
<1>8. PICK e \in 0..1 : m = 2 * j + e
  BY <1>7
<1>9. c[m + 1] = C(j)[e + 1]
  BY <1>5, <1>8
<1>10. Transpose8(r)[m + 1] = c[m + 1]
  BY <1>1 DEF c
<1> QED
  BY <1>3, <1>8, <1>9, <1>10

\* Where byte k of n elements goes to when their bytes are put side by side
\* by element, and where it came from: byte k % size of element k \div size
\* lies at ByteFrom(n, size, k) of the shuffled block.
ByteTo(n, size, k)   == (k % n) * size + k \div n
ByteFrom(n, size, k) == (k % size) * n + k \div size

\* t holds the bytes of src side by side.
IsShuffled(n, size, src, t) ==
    \A k \in 0..n * size - 1 : t[ByteFrom(n, size, k) + 1] = src[k + 1]

\* The two orders of the bytes of a block are inverse to each other.
LEMMA BytePlaces ==
    ASSUME NEW n \in Nat \ {0}, NEW size \in Nat \ {0}, NEW k \in 0..n * size - 1
    PROVE  /\ ByteTo(n, size, k) \in 0..n * size - 1
           /\ ByteFrom(n, size, k) \in 0..n * size - 1
           /\ ByteFrom(n, size, ByteTo(n, size, k)) = k
           /\ ByteTo(n, size, ByteFrom(n, size, k)) = k
           /\ k % n \in 0..n - 1 /\ k \div n \in 0..size - 1
           /\ k % size \in 0..size - 1 /\ k \div size \in 0..n - 1
<1>1. ASSUME NEW a \in Nat \ {0}, NEW b \in Nat \ {0}, NEW j \in 0..a * b - 1
      PROVE  /\ j % a \in 0..a - 1 /\ j \div a \in 0..b - 1 /\ j = a * (j \div a) + (j % a)
             /\ (j % a) * b + j \div a \in 0..a * b - 1
  <2> DEFINE q == j \div a
             r == j % a
  <2>0. a * b \in Int /\ j \in Int /\ j >= 0 /\ j < a * b
    OBVIOUS
  <2>1. q \in Int /\ r \in 0..a - 1 /\ j = a * q + r
    BY <2>0, DivMod
  <2> HIDE DEF q, r
  <2>2. q >= 0
    <3> SUFFICES ASSUME q <= -1
                 PROVE  FALSE
      BY <2>1
    <3>1. a * q <= -a
      BY <2>1
    <3> QED
      BY <2>0, <2>1, <3>1
  <2>3. q <= b - 1
    <3> SUFFICES ASSUME q >= b
                 PROVE  FALSE
      BY <2>1
    <3>1. a * q >= a * b
      BY <2>1
    <3> QED
      BY <2>0, <2>1, <3>1
  <2>4. r * b >= 0 /\ r * b \in Int
    BY <2>1
  <2>5. r * b <= (a - 1) * b
    BY <2>1
  <2>6. (a - 1) * b = a * b - b
    OBVIOUS
  <2>7. r * b + q \in 0..a * b - 1
    BY <2>0, <2>1, <2>2, <2>3, <2>4, <2>5, <2>6
  <2> QED
    BY <2>1, <2>2, <2>3, <2>7 DEF q, r
<1>2. n * size = size * n
  OBVIOUS
<1>3. /\ k % n \in 0..n - 1 /\ k \div n \in 0..size - 1 /\ k = n * (k \div n) + (k % n)
      /\ (k % n) * size + k \div n \in 0..n * size - 1
  BY <1>1
<1>4. /\ k % size \in 0..size - 1 /\ k \div size \in 0..n - 1
      /\ k = size * (k \div size) + (k % size)
      /\ (k % size) * n + k \div size \in 0..size * n - 1
  BY <1>1, <1>2
<1> DEFINE r == k % n
           q == k \div n
           s == k % size
           p == k \div size
<1>5. r \in 0..n - 1 /\ q \in 0..size - 1 /\ k = n * q + r
  BY <1>3
<1>6. s \in 0..size - 1 /\ p \in 0..n - 1 /\ k = size * p + s
  BY <1>4
<1> HIDE DEF r, q, s, p
<1>7. (r * size + q) \div size = r /\ (r * size + q) % size = q
  BY <1>5, DivModIs
<1>8. (s * n + p) \div n = s /\ (s * n + p) % n = p
  BY <1>6, DivModIs
<1>9. ((r * size + q) % size) * n + (r * size + q) \div size = k
  <2>1. q * n + r = k
    BY <1>5
  <2> QED
    BY <1>7, <2>1
<1>10. ((s * n + p) % n) * size + (s * n + p) \div n = k
  <2>1. p * size + s = k
    BY <1>6
  <2> QED
    BY <1>8, <2>1
<1>11. ByteFrom(n, size, ByteTo(n, size, k)) = k
  BY <1>9 DEF ByteFrom, ByteTo, r, q
<1>12. ByteTo(n, size, ByteFrom(n, size, k)) = k
  BY <1>10 DEF ByteFrom, ByteTo, s, p
<1> QED
  BY <1>2, <1>3, <1>4, <1>11, <1>12 DEF ByteFrom, ByteTo

\* An array every place of which is written once holds what was written.
LEMMA WrittenIs ==
    ASSUME NEW n \in Nat, NEW at, NEW what, NEW p \in 1..n, NEW k \in 0..n - 1,
           at[k] = p - 1, \A j \in 0..n - 1 : at[j] = p - 1 => j = k
    PROVE  Written(n, n, at, what)[p] = what[k]
<1> DEFINE hits == {j \in 0..n - 1 : at[j] = p - 1}
<1>1. hits = {k}
  OBVIOUS
<1>2. Max(hits) = k
  BY <1>1 DEF Max
<1> HIDE DEF hits
<1>3. hits # {}
  BY <1>1
<1> QED
  BY <1>2, <1>3 DEF Written, hits

\* An index within the range of the type is kept.
LEMMA IdxIs ==
    ASSUME NEW k \in Nat, k < 2^IndexBits
    PROVE  Idx(k) = k
<1> DEFINE p == 2^IndexBits
<1>1. p \in Nat \ {0}
  BY PowerNext, ShufflesAssumption
<1>2. k < p
  OBVIOUS
<1> HIDE DEF p
<1>3. k % p = k
  BY <1>1, <1>2
<1> QED
  BY <1>3 DEF Idx, p

\* The shuffled block, byte by byte.
LEMMA ShuffledIs ==
    ASSUME NEW n \in Nat \ {0}, NEW size \in Nat \ {0}, NEW src,
           n * size <= 2^IndexBits
    PROVE  LET t == ShuffleScalar(n, size, src)
           IN  /\ t = [p \in 1..n * size |-> t[p]]
               /\ IsShuffled(n, size, src, t)
<1> DEFINE all  == n * size
           at   == [k \in 0..all - 1 |-> Idx(k)]
           what == [k \in 0..all - 1 |-> src[Idx((k % n) * size + k \div n) + 1]]
           t    == Written(all, all, at, what)
<1>1. ShuffleScalar(n, size, src) = t
  BY DEF ShuffleScalar
<1>2. all \in Nat /\ 2^IndexBits \in Nat /\ all <= 2^IndexBits
  BY PowerNext, ShufflesAssumption
<1>3. t = [p \in 1..all |-> t[p]]
  BY DEF Written
<1>4. ASSUME NEW k \in 0..all - 1
      PROVE  t[ByteFrom(n, size, k) + 1] = src[k + 1]
  <2> DEFINE j == ByteFrom(n, size, k)
  <2>1. j \in 0..all - 1 /\ ByteTo(n, size, j) = k
    BY BytePlaces
  <2> HIDE DEF j, all
  <2>2. \A i \in 0..all - 1 : i \in Nat /\ i < 2^IndexBits
    BY <1>2
  <2>3. \A i \in 0..all - 1 : Idx(i) = i
    BY <2>2, IdxIs
  <2>4. at[j] = (j + 1) - 1
    BY <2>1, <2>3
  <2>5. \A i \in 0..all - 1 : at[i] = (j + 1) - 1 => i = j
    BY <2>1, <2>3
  <2>6. what[j] = src[k + 1]
    BY <2>1, <2>3 DEF ByteTo
  <2>7. j + 1 \in 1..all
    BY <1>2, <2>1
  <2> HIDE DEF at, what
  <2>8. t[j + 1] = what[j]
    BY <1>2, <2>1, <2>4, <2>5, <2>7, WrittenIs
  <2> QED
    BY <2>6, <2>8 DEF j
<1> HIDE DEF t
<1> QED
  BY <1>1, <1>3, <1>4 DEF IsShuffled

\* The loop puts byte k back where it was taken from.
LEMMA UnshuffleScalarBack ==
    ASSUME NEW n \in Nat \ {0}, NEW size \in Nat \ {0}, NEW src, NEW t,
           n * size <= 2^IndexBits,
           IsShuffled(n, size, src, t)
    PROVE  UnshuffleScalar(n, size, t) = [p \in 1..n * size |-> src[p]]
<1> DEFINE all  == n * size
           at   == [k \in 0..all - 1 |-> Idx((k % n) * size + k \div n)]
           what == [k \in 0..all - 1 |-> t[Idx(k) + 1]]
           out  == Written(all, all, at, what)
<1>1. UnshuffleScalar(n, size, t) = out
  BY DEF UnshuffleScalar
<1>2. all \in Nat /\ 2^IndexBits \in Nat /\ all <= 2^IndexBits
  BY PowerNext, ShufflesAssumption
<1>3. out = [p \in 1..all |-> out[p]]
  BY DEF Written
<1>4. ASSUME NEW p \in 1..all
      PROVE  out[p] = src[p]
  <2> DEFINE k == p - 1
             j == ByteFrom(n, size, k)
  <2>0. k \in 0..all - 1 /\ k + 1 = p
    BY <1>2
  <2> HIDE DEF k
  <2>1. j \in 0..all - 1 /\ ByteTo(n, size, j) = k
    BY <2>0, BytePlaces
  <2>2. t[j + 1] = src[p]
    BY <2>0 DEF IsShuffled
  <2>3. \A i \in 0..all - 1 : /\ ByteTo(n, size, i) \in 0..all - 1
                              /\ ByteFrom(n, size, ByteTo(n, size, i)) = i
    <3>1. TAKE i \in 0..all - 1
    <3> QED
      BY BytePlaces
  <2> HIDE DEF all
  <2>4. \A i \in 0..all - 1 : i \in Nat /\ i < 2^IndexBits
    BY <1>2
  <2>5. \A i \in 0..all - 1 : Idx(i) = i
    BY <2>4, IdxIs
  <2>6. \A i \in 0..all - 1 : at[i] = ByteTo(n, size, i)
    BY <2>3, <2>5 DEF ByteTo
  <2>7. what[j] = t[j + 1]
    BY <2>1, <2>5
  <2> HIDE DEF at, what
  <2>8. \A i \in 0..all - 1 : at[i] = p - 1 => i = j
    BY <2>3, <2>6 DEF k
  <2> HIDE DEF j
  <2>9. at[j] = p - 1
    BY <2>1, <2>6 DEF k
  <2>10. out[p] = what[j]
    BY <1>2, <2>1, <2>8, <2>9, WrittenIs
  <2> QED
    BY <2>2, <2>7, <2>10
<1> HIDE DEF out
<1> QED
  BY <1>1, <1>3, <1>4

\* The registers of the cascade, whatever the width.
LEMMA TransposedIs ==
    ASSUME NEW size \in {2, 4, 8}, NEW r, NEW m \in 0..size - 1, NEW k \in 0..15
    PROVE  Transposed(size, r)[m + 1][k + 1]
             = r[(k % size) + 1][((16 \div size) * m + k \div size) + 1]
<1>1. CASE size = 2
  <2>1. Transposed(size, r) = Transpose2(r) /\ 16 \div size = 8 /\ m \in 0..1
    BY <1>1 DEF Transposed
  <2> QED
    BY <1>1, <2>1, Transpose2Is
<1>2. CASE size = 4
  <2>1. Transposed(size, r) = Transpose4(r) /\ 16 \div size = 4 /\ m \in 0..3
    BY <1>2 DEF Transposed
  <2> QED
    BY <1>2, <2>1, Transpose4Is
<1>3. CASE size = 8
  <2>1. Transposed(size, r) = Transpose8(r) /\ 16 \div size = 2 /\ m \in 0..7
    BY <1>3 DEF Transposed
  <2> QED
    BY <1>3, <2>1, Transpose8Is
<1> QED
  BY <1>1, <1>2, <1>3

\* The registers put sixteen elements back at a time, and the loop the rest.
LEMMA UnshuffleSse2Back ==
    ASSUME NEW n \in Nat \ {0}, NEW size \in {2, 4, 8}, NEW src, NEW t,
           n * size <= 2^IndexBits,
           IsShuffled(n, size, src, t)
    PROVE  UnshuffleSse2(n, size, t) = [p \in 1..n * size |-> src[p]]
<1> DEFINE all   == n * size
           body  == 16 * (n \div 16)
           loaded(i) == [b \in 1..size |->
                           [k \in 1..16 |-> t[Idx((b - 1) * n) + i + k]]]
           regs(i) == Transposed(size, loaded(i))
           table == [c \in 0..n \div 16 |-> IF c * 16 < body THEN regs(c * 16) ELSE <<>>]
           at(p) == table[p \div (16 * size)][(p % (16 * size)) \div 16 + 1][(p % 16) + 1]
           out   == [p \in 1..n * size |->
                       LET i == (p - 1) \div size
                       IN  IF i < body THEN at(p - 1)
                           ELSE t[Idx(((p - 1) % size) * n + i) + 1]]
<1>1. UnshuffleSse2(n, size, t) = out
  BY DEF UnshuffleSse2
<1>2. /\ all \in Nat /\ 2^IndexBits \in Nat /\ all <= 2^IndexBits
      /\ size \in Nat \ {0} /\ n \div 16 \in Nat /\ body \in Nat /\ body <= n
  BY PowerNext, ShufflesAssumption
<1>3. \A i \in 0..all - 1 : Idx(i) = i
  <2> HIDE DEF all
  <2>1. \A i \in 0..all - 1 : i \in Nat /\ i < 2^IndexBits
    BY <1>2
  <2> QED
    BY <2>1, IdxIs
<1>4. ASSUME NEW p \in 1..all
      PROVE  out[p] = src[p]
  <2> DEFINE k == p - 1
             i == k \div size
             b == k % size
  <2>1. k \in 0..all - 1 /\ k + 1 = p
    BY <1>2
  <2>2. b \in 0..size - 1 /\ i \in 0..n - 1 /\ ByteFrom(n, size, k) \in 0..all - 1
    BY <1>2, <2>1, BytePlaces
  <2>3. t[(b * n + i) + 1] = src[p] /\ b * n + i \in 0..all - 1
    BY <2>1, <2>2 DEF ByteFrom, IsShuffled
  <2>4. CASE ~ (i < body)
    <3> HIDE DEF all, body, i, b, at
    <3>1. out[p] = t[Idx(b * n + i) + 1]
      BY <2>4 DEF all, i, b
    <3> QED
      BY <1>3, <2>3, <3>1
  <2>5. CASE i < body
    <3> DEFINE c == k \div (16 * size)
               m == (k % (16 * size)) \div 16
               l == k % 16
               x == (16 \div size) * m + l \div size
    <3>1. out[p] = at(k)
      <4> HIDE DEF at, body
      <4> QED
        BY <2>5
    <3>2. /\ c \in Nat /\ m \in 0..size - 1 /\ l \in 0..15 /\ l % size = b
          /\ c * 16 + x = i /\ x \in 0..15
      <4>1. k \in Nat
        BY <2>1, <1>2
      <4> HIDE DEF k
      <4>2. CASE size = 2
        BY <4>1, <4>2
      <4>3. CASE size = 4
        BY <4>1, <4>3
      <4>4. CASE size = 8
        BY <4>1, <4>4
      <4> QED
        BY <4>2, <4>3, <4>4
    <3>3. c \in 0..n \div 16 /\ c * 16 < body
      <4> HIDE DEF c, m, l, x, i, b, k, all
      <4> QED
        BY <1>2, <2>2, <2>5, <3>2
    <3>4. table[c] = regs(c * 16)
      <4> HIDE DEF c, regs, body
      <4> QED
        BY <3>3
    <3>5. at(k) = regs(c * 16)[m + 1][l + 1]
      <4> HIDE DEF table, regs
      <4> QED
        BY <3>4
    <3>6. regs(c * 16)[m + 1][l + 1] = loaded(c * 16)[(l % size) + 1][x + 1]
      <4> HIDE DEF loaded, c, m, l
      <4> QED
        BY <3>2, TransposedIs
    <3>7. loaded(c * 16)[b + 1][x + 1] = t[Idx(b * n) + c * 16 + (x + 1)]
      <4> HIDE DEF b, x, c
      <4>1. b + 1 \in 1..size /\ x + 1 \in 1..16 /\ (b + 1) - 1 = b
        BY <1>2, <2>2, <3>2
      <4> QED
        BY <4>1
    <3>8. b * n \in 0..all - 1
      <4> HIDE DEF b, i, k
      <4>1. b * n >= 0 /\ b * n \in Int
        BY <2>2
      <4> HIDE DEF all
      <4> QED
        BY <1>2, <2>2, <2>3, <4>1
    <3>9. b * n + c * 16 + (x + 1) = (b * n + i) + 1
      <4> DEFINE z == b * n
      <4>1. z \in Int
        BY <3>8, <1>2
      <4> HIDE DEF z, c, x, i, b
      <4>2. z + c * 16 + (x + 1) = (z + i) + 1
        BY <2>2, <3>2, <4>1
      <4> QED
        BY <4>2 DEF z
    <3> HIDE DEF all, at, regs, loaded, table, b, i, c, m, l, x, k, out
    <3>10. out[p] = t[(b * n + i) + 1]
      BY <1>3, <3>1, <3>2, <3>5, <3>6, <3>7, <3>8, <3>9
    <3> QED
      BY <2>3, <3>10
  <2> QED
    BY <2>4, <2>5
<1>5. out = [p \in 1..all |-> out[p]]
  <2> HIDE DEF at, body
  <2> QED
    OBVIOUS
<1> HIDE DEF out
<1> QED
  BY <1>1, <1>4, <1>5

\* Every build reads the bytes the loop put side by side.
LEMMA ByteShuffleBack ==
    ASSUME NEW size \in {1, 2, 4, 8}, NEW S, NEW src \in Seq(S), NEW build \in Builds,
           size * (Len(src) \div size) = Len(src), Len(src) <= 2^IndexBits
    PROVE  ByteUnshuffle(build, size, ByteShuffle(size, src)) = src
<1> DEFINE n == Len(src) \div size
           t == ShuffleScalar(n, size, src)
<1>1. CASE src = <<>> \/ size = 1
  BY <1>1 DEF ByteShuffle, ByteUnshuffle
<1>2. CASE src # <<>> /\ size # 1
  <2>1. n \in Nat \ {0} /\ size \in {2, 4, 8} /\ size \in Nat \ {0} /\ n * size = Len(src)
        /\ n * size <= 2^IndexBits
    BY <1>2
  <2>2. ByteShuffle(size, src) = t
    BY <1>2 DEF ByteShuffle
  <2> HIDE DEF n
  <2>3. /\ t = [p \in 1..n * size |-> t[p]]
        /\ IsShuffled(n, size, src, t)
    BY <2>1, ShuffledIs
  <2> HIDE DEF t
  <2>4. Len(t) = n * size /\ t # <<>> /\ Len(t) \div size = n
    <3>1. n * size \in Nat \ {0}
      BY <2>1
    <3>2. DOMAIN t = 1..n * size
      BY <2>3
    <3>3. t \in Seq({t[p] : p \in 1..n * size})
      BY <2>3, <3>1, <3>2
    <3>4. Len(t) = n * size
      BY <3>1, <3>2, <3>3, LenProperties
    <3> QED
      BY <2>1, <3>1, <3>4
  <2>5. [p \in 1..n * size |-> src[p]] = src
    BY <2>1
  <2>6. /\ n \in Nat \ {0} /\ size \in Nat \ {0} /\ n * size <= 2^IndexBits
        /\ IsShuffled(n, size, src, t)
    BY <2>1, <2>3
  <2>7. CASE build = "scalar"
    <3>1. ByteUnshuffle(build, size, t) = UnshuffleScalar(n, size, t)
      BY <1>2, <2>4, <2>7 DEF ByteUnshuffle
    <3>2. UnshuffleScalar(n, size, t) = [p \in 1..n * size |-> src[p]]
      BY <2>6, UnshuffleScalarBack
    <3> QED
      BY <2>2, <2>5, <3>1, <3>2
  <2>8. CASE build \in {"sse2", "neon"}
    <3>1. ByteUnshuffle(build, size, t) = UnshuffleSse2(n, size, t)
      BY <1>2, <2>4, <2>8 DEF ByteUnshuffle, UnshuffleNeon
    <3>2. UnshuffleSse2(n, size, t) = [p \in 1..n * size |-> src[p]]
      BY <2>6, <2>1, UnshuffleSse2Back
    <3> QED
      BY <2>2, <2>5, <3>1, <3>2
  <2> QED
    BY <2>7, <2>8 DEF Builds
<1> QED
  BY <1>1, <1>2

----------------------------------------------------------------------------
(* The bit shuffle.                                                        *)

\* The bits of the lower part of a number, and of the upper.
LEMMA BitOfLow ==
    ASSUME NEW w \in Nat, NEW a \in Nat, NEW j \in 0..w - 1
    PROVE  Bit(a % 2^w, j) = Bit(a, j)
<1> DEFINE p == 2^w
           q == a \div p
           r == a % p
           d == 2^j
           h == 2^(w - j - 1)
           s == r \div d
           t == r % d
<1>1. p \in Nat \ {0} /\ d \in Nat \ {0} /\ h \in Nat \ {0}
  BY PowerNext
<1>2. p = d * (2 * h)
  <2>1. 2^(w - j) = 2 * h
    <3>1. w - j - 1 \in Nat /\ (w - j - 1) + 1 = w - j
      OBVIOUS
    <3> QED
      BY <3>1, PowerNext
  <2>2. w - j \in Nat /\ j + (w - j) = w
    OBVIOUS
  <2>3. 2^(j + (w - j)) = 2^j * 2^(w - j)
    BY <2>2, PowerSum
  <2> QED
    BY <2>1, <2>2, <2>3
<1> HIDE DEF p, d, h
<1>3. q \in Int /\ r \in 0..p - 1 /\ a = p * q + r
  BY <1>1, DivMod
<1> HIDE DEF q, r
<1>4. s \in Int /\ t \in 0..d - 1 /\ r = d * s + t
  BY <1>1, <1>3, DivMod
<1> HIDE DEF s, t
<1> DEFINE u == h * q
<1>5. u \in Int /\ p * q = d * (2 * u)
  BY <1>1, <1>2, <1>3
<1> HIDE DEF u
<1>6. a = d * (2 * u + s) + t
  BY <1>1, <1>3, <1>4, <1>5
<1>7. 2 * u + s \in Int
  BY <1>4, <1>5
<1>8. a \div d = 2 * u + s
  BY <1>1, <1>4, <1>6, <1>7, DivModIs
<1>9. (2 * u + s) % 2 = s % 2
  BY <1>4, <1>5
<1> QED
  BY <1>8, <1>9 DEF Bit, s, r, d, p

\* A bit above the first k is one of the high part.
LEMMA BitOfHigh ==
    ASSUME NEW w \in Nat, NEW a \in Nat, NEW j \in Nat
    PROVE  Bit(a \div 2^w, j) = Bit(a, w + j)
<1> DEFINE p == 2^w
           q == a \div p
           r == a % p
           d == 2^j
           s == q \div d
           t == q % d
           u == p * d
           v == p * t + r
<1>1. p \in Nat \ {0} /\ d \in Nat \ {0} /\ 2^(w + j) = u
  <2>1. 2^w \in Nat \ {0} /\ 2^j \in Nat \ {0}
    BY PowerNext
  <2>2. 2^(w + j) = 2^w * 2^j
    BY PowerSum
  <2> QED
    BY <2>1, <2>2
<1> HIDE DEF p, d
<1>2. q \in Int /\ r \in 0..p - 1 /\ a = p * q + r
  BY <1>1, DivMod
<1> HIDE DEF q, r
<1>3. s \in Int /\ t \in 0..d - 1 /\ q = d * s + t
  BY <1>1, <1>2, DivMod
<1> HIDE DEF s, t
<1>4. u \in Nat \ {0}
  BY <1>1
<1>5. v \in 0..u - 1
  <2>1. p * t \in Int /\ p * t >= 0
    BY <1>1, <1>3
  <2>2. p * t <= p * (d - 1)
    BY <1>1, <1>3
  <2>3. p * (d - 1) = u - p
    BY <1>1
  <2> HIDE DEF u
  <2> QED
    BY <1>1, <1>2, <1>4, <2>1, <2>2, <2>3
<1>6. a = u * s + v
  <2>1. p * q = p * (d * s) + p * t
    BY <1>1, <1>3
  <2>2. p * (d * s) = u * s
    BY <1>1, <1>3
  <2> QED
    BY <1>1, <1>2, <1>3, <2>1, <2>2
<1> HIDE DEF u, v
<1>7. a \div u = s
  BY <1>3, <1>4, <1>5, <1>6, DivModIs
<1> QED
  BY <1>1, <1>7 DEF Bit, s, q, d, p

\* A plane has room for the bits of all elements and no byte more.
LEMMA PlaneBytesIs ==
    ASSUME NEW n \in Nat
    PROVE  /\ PlaneBytes(n) \in Nat
           /\ n <= ByteBits * PlaneBytes(n) /\ ByteBits * PlaneBytes(n) <= n + ByteBits - 1
           /\ \A e \in 0..n - 1 : /\ e \div ByteBits \in 0..PlaneBytes(n) - 1
                                  /\ e % ByteBits \in 0..ByteBits - 1
                                  /\ e = ByteBits * (e \div ByteBits) + (e % ByteBits)
<1> DEFINE w == ByteBits
           a == n + w - 1
           q == a \div w
           r == a % w
<1>1. w \in Nat \ {0}
  BY ElementsAssumption
<1>2. PlaneBytes(n) = q
  BY DEF PlaneBytes
<1> HIDE DEF w
<1>3. a \in Nat
  BY <1>1
<1>4. q \in Int /\ r \in 0..w - 1 /\ a = w * q + r
  <2> HIDE DEF a
  <2> QED
    BY <1>1, <1>3, DivMod
<1> HIDE DEF q, r
<1>5. n <= w * q /\ w * q <= n + w - 1
  BY <1>1, <1>4
<1>6. q >= 0
  <2> SUFFICES ASSUME q <= -1
               PROVE  FALSE
    BY <1>4
  <2>1. w * q <= -w
    BY <1>1, <1>4
  <2> DEFINE z == w * q
  <2>2. n <= z /\ z <= -w /\ z \in Int
    BY <1>1, <1>4, <1>5, <2>1
  <2> HIDE DEF z
  <2> QED
    BY <1>1, <2>2
<1>7. ASSUME NEW e \in 0..n - 1
      PROVE  e \div w \in 0..q - 1 /\ e % w \in 0..w - 1 /\ e = w * (e \div w) + (e % w)
  <2> DEFINE c == e \div w
             j == e % w
  <2>1. c \in Int /\ j \in 0..w - 1 /\ e = w * c + j
    BY <1>1, DivMod
  <2> HIDE DEF c, j
  <2>2. c >= 0
    <3> SUFFICES ASSUME c <= -1
                 PROVE  FALSE
      BY <2>1
    <3>1. w * c <= -w
      BY <1>1, <2>1
    <3> QED
      BY <1>1, <2>1, <3>1
  <2>3. c < q
    <3> SUFFICES ASSUME c >= q
                 PROVE  FALSE
      BY <1>4, <2>1
    <3>1. w * c >= w * q
      BY <1>1, <1>4, <2>1
    <3> QED
      BY <1>1, <1>4, <1>5, <2>1, <3>1
  <2>4. c \in 0..q - 1
    BY <1>4, <2>1, <2>2, <2>3
  <2> QED
    BY <2>1, <2>4 DEF c, j
<1> QED
  BY <1>2, <1>4, <1>5, <1>6, <1>7 DEF w

\* Element b of the e-th of n groups of m.
LEMMA IndexIn ==
    ASSUME NEW n \in Nat, NEW m \in Nat \ {0}, NEW e \in 0..n - 1, NEW b \in 0..m - 1
    PROVE  e * m + b \in 0..n * m - 1
<1>1. e * m \in Int /\ e * m >= 0 /\ n * m \in Int
  OBVIOUS
<1>2. e * m <= (n - 1) * m
  OBVIOUS
<1>3. (n - 1) * m = n * m - m
  OBVIOUS
<1> DEFINE x == e * m
           y == n * m
<1>4. x >= 0 /\ x \in Int /\ y \in Int /\ x <= y - m
  BY <1>1, <1>2, <1>3
<1> HIDE DEF x, y
<1>5. x + b \in 0..y - 1
  BY <1>4
<1> QED
  BY <1>5 DEF x, y

\* x holds, in its bits, the plane's bit of the elements c * ByteBits and on.
IsPlaneByte(src, n, size, plane, c, x) ==
    /\ x \in ByteValues
    /\ \A j \in 0..ByteBits - 1 :
            c * ByteBits + j < n =>
                Bit(x, j) = Bit(src[((c * ByteBits + j) * size + plane \div ByteBits) + 1],
                                plane % ByteBits)

ArePlanes(src, n, size, t) ==
    \A plane \in 0..size * ByteBits - 1 : \A c \in 0..PlaneBytes(n) - 1 :
        IsPlaneByte(src, n, size, plane, c, t[(plane * PlaneBytes(n) + c) + 1])

AreBytes(src, all) == \A k \in 1..all : src[k] \in ByteValues

\* Which byte of an element a plane comes from, and which bit of it.
LEMMA LaneIs ==
    ASSUME NEW size \in Nat \ {0}, NEW plane \in 0..size * ByteBits - 1
    PROVE  /\ plane \div ByteBits \in 0..size - 1
           /\ plane % ByteBits \in 0..ByteBits - 1
           /\ plane \in Nat
<1>1. size * ByteBits \in Nat
  BY ElementsAssumption
<1> DEFINE all == size * ByteBits
<1>2. plane \in 0..all - 1 /\ all \in Nat
  BY <1>1
<1> HIDE DEF all
<1>3. plane \in Nat
  BY <1>2
<1>4. ByteBits \in Nat \ {0}
  BY ElementsAssumption
<1> QED
  BY <1>3, <1>4, BytePlaces

\* The byte of element e a plane looks at lies in the block.
LEMMA LaneByte ==
    ASSUME NEW n \in Nat, NEW size \in Nat \ {0}, NEW src, AreBytes(src, n * size),
           NEW plane \in 0..size * ByteBits - 1, NEW e \in 0..n - 1
    PROVE  Bit(src[(e * size + plane \div ByteBits) + 1], plane % ByteBits) \in {0, 1}
<1> DEFINE lane == plane \div ByteBits
           k == e * size + lane
<1>0. lane \in 0..size - 1 /\ plane % ByteBits \in 0..ByteBits - 1
  BY LaneIs
<1>1. lane \in 0..size - 1 /\ plane % ByteBits \in Nat
  <2> DEFINE b == plane % ByteBits
  <2> HIDE DEF b
  <2>1. b \in Nat
    BY <1>0, ElementsAssumption DEF b
  <2> QED
    BY <1>0, <2>1 DEF b
<1> HIDE DEF lane
<1>2. k \in 0..n * size - 1
  BY <1>1, IndexIn
<1>3. n * size \in Nat
  OBVIOUS
<1>4. k + 1 \in 1..n * size
  <2> DEFINE all == n * size
  <2>1. k \in 0..all - 1 /\ all \in Nat
    BY <1>2, <1>3
  <2> HIDE DEF all, k
  <2>2. k + 1 \in 1..all
    BY <2>1
  <2> QED
    BY <2>2 DEF all
<1> HIDE DEF k
<1>5. src[k + 1] \in Nat
  BY <1>4, PowerNext, ElementsAssumption DEF AreBytes, ByteValues, WordsOf
<1>6. Bit(src[k + 1], plane % ByteBits) \in {0, 1}
  BY <1>1, <1>5, BitIs
<1> QED
  BY <1>6 DEF k, lane

\* A byte of a plane, built bit by bit, has the bits of the plane.
LEMMA PlaneByteIs ==
    ASSUME NEW n \in Nat, NEW size \in Nat \ {0}, NEW src, AreBytes(src, n * size),
           NEW plane \in 0..size * ByteBits - 1, NEW c \in Nat, NEW from \in Nat,
           from <= c * ByteBits
    PROVE  IsPlaneByte(src, n, size, plane, c, PlaneByte(src, n, size, from, plane, c))
<1> DEFINE w == ByteBits
           lane == plane \div w
           bit  == plane % w
           look(e) == Bit(src[(e * size + lane) + 1], bit)
           bits == [j \in 0..w - 1 |->
                      LET e == c * w + j IN IF from <= e /\ e < n THEN look(e) ELSE 0]
           x == FromBits(w, bits)
<1>1. PlaneByte(src, n, size, from, plane, c) = x
  BY DEF PlaneByte
<1>2. w \in Nat \ {0}
  BY ElementsAssumption
<1>3. \A e \in 0..n - 1 : look(e) \in {0, 1}
  BY LaneByte
<1> HIDE DEF look, w
<1>4. c * w \in Nat
  BY <1>2
<1>5. \A j \in 0..w - 1 : /\ bits[j] \in {0, 1}
                          /\ c * w + j < n => bits[j] = look(c * w + j)
  <2>1. TAKE j \in 0..w - 1
  <2> DEFINE e == c * w + j
  <2>2. e \in Nat /\ from <= e
    <3> DEFINE z == c * w
    <3>1. z \in Nat /\ from <= z
      BY <1>4 DEF w
    <3> HIDE DEF z
    <3>2. z + j \in Nat /\ from <= z + j
      BY <1>2, <3>1
    <3> QED
      BY <3>2 DEF z
  <2>3. bits[j] = IF from <= e /\ e < n THEN look(e) ELSE 0
    OBVIOUS
  <2> HIDE DEF bits, e
  <2>4. e < n => e \in 0..n - 1
    BY <2>2
  <2>5. bits[j] \in {0, 1} /\ (e < n => bits[j] = look(e))
    BY <1>3, <2>2, <2>3, <2>4
  <2> QED
    BY <2>5 DEF e
<1> HIDE DEF bits
<1>6. \A j \in 0..w - 1 : bits[j] \in {0, 1}
  BY <1>5
<1>7. x \in WordsOf(w)
  BY <1>2, <1>6, FromBitsBelow
<1>8. \A j \in 0..w - 1 : c * w + j < n => Bit(x, j) = look(c * w + j)
  <2>1. TAKE j \in 0..w - 1
  <2>2. Bit(x, j) = bits[j]
    <3> HIDE DEF x
    <3> QED
      BY <1>2, <1>6, BitsComeBack DEF x
  <2> QED
    BY <1>5, <2>2
<1> HIDE DEF x
<1>9. IsPlaneByte(src, n, size, plane, c, x)
  BY <1>7, <1>8 DEF IsPlaneByte, ByteValues, look, w
<1> QED
  BY <1>1, <1>9

\* Two bytes of a plane from one mask.
LEMMA MaskBytesAre ==
    ASSUME NEW n \in Nat, NEW size \in Nat \ {0}, NEW src, AreBytes(src, n * size),
           NEW plane \in 0..size * ByteBits - 1, NEW h \in Nat, NEW bits,
           2 * ByteBits * h + 2 * ByteBits <= n,
           \A j \in 0..2 * ByteBits - 1 :
                bits[j] = Bit(src[((2 * ByteBits * h + j) * size + plane \div ByteBits) + 1],
                              plane % ByteBits)
    PROVE  LET m == FromBits(2 * ByteBits, bits)
           IN  /\ IsPlaneByte(src, n, size, plane, 2 * h, m % 2^ByteBits)
               /\ IsPlaneByte(src, n, size, plane, 2 * h + 1, m \div 2^ByteBits)
<1> DEFINE w == ByteBits
           look(e) == Bit(src[(e * size + plane \div w) + 1], plane % w)
           step == 2 * w
           p == 2^w
           m == FromBits(step, bits)
           g == w * h
<1>1. w \in Nat \ {0}
  BY ElementsAssumption
<1>2. \A e \in 0..n - 1 : look(e) \in {0, 1}
  BY LaneByte
<1>3. \A j \in 0..step - 1 : bits[j] = look(2 * w * h + j)
  OBVIOUS
<1> HIDE DEF look
<1>4. g \in Nat /\ 2 * w * h = 2 * g /\ (2 * h) * w = 2 * g /\ (2 * h + 1) * w = 2 * g + w
  <2> HIDE DEF w
  <2> QED
    BY <1>1
<1>5. 2 * g + step <= n
  BY <1>4
<1> HIDE DEF w, g
<1>6. step \in Nat /\ p \in Nat \ {0} /\ 2^step = p * p
  <2>1. w + w = step
    BY <1>1
  <2>2. 2^(w + w) = 2^w * 2^w
    BY <1>1, PowerSum
  <2>3. 2^w \in Nat \ {0}
    BY <1>1, PowerNext
  <2> QED
    BY <1>1, <2>1, <2>2, <2>3
<1>7. \A j \in 0..step - 1 : bits[j] = look(2 * g + j) /\ bits[j] \in {0, 1}
  <2>1. TAKE j \in 0..step - 1
  <2>2. 2 * g + j \in 0..n - 1
    BY <1>1, <1>4, <1>5
  <2>3. bits[j] = look(2 * g + j)
    BY <1>3, <1>4
  <2> QED
    BY <1>2, <2>2, <2>3
<1> HIDE DEF step
<1>8. \A j \in 0..step - 1 : bits[j] \in {0, 1}
  BY <1>7
<1>9. m \in Nat /\ m < p * p
  BY <1>6, <1>8, FromBitsBelow DEF WordsOf
<1>10. \A j \in 0..step - 1 : Bit(m, j) = bits[j]
  BY <1>6, <1>8, BitsComeBack
<1> HIDE DEF m
<1>11. \A j \in 0..w - 1 : /\ Bit(m % 2^w, j) = look(2 * g + j)
                          /\ Bit(m \div 2^w, j) = look((2 * g + w) + j)
  <2>1. TAKE j \in 0..w - 1
  <2>2. /\ j \in 0..step - 1 /\ w + j \in 0..step - 1
        /\ j \in Nat /\ 2 * g + (w + j) = (2 * g + w) + j
    BY <1>1, <1>4 DEF step
  <2>3. Bit(m % 2^w, j) = look(2 * g + j)
    <3>1. Bit(m % 2^w, j) = Bit(m, j)
      BY <1>1, <1>9, BitOfLow
    <3> QED
      BY <1>7, <1>10, <2>2, <3>1
  <2>4. Bit(m \div 2^w, j) = look((2 * g + w) + j)
    <3>1. Bit(m \div 2^w, j) = Bit(m, w + j)
      BY <1>1, <1>9, <2>2, BitOfHigh
    <3> DEFINE i == w + j
    <3>2. i \in 0..step - 1 /\ 2 * g + i = (2 * g + w) + j
      BY <2>2
    <3> HIDE DEF i
    <3>3. Bit(m, i) = look(2 * g + i)
      BY <1>7, <1>10, <3>2
    <3> QED
      BY <3>1, <3>2, <3>3 DEF i
  <2> QED
    BY <2>3, <2>4
<1>12. m % 2^w \in WordsOf(w) /\ m \div 2^w \in WordsOf(w)
  <2> DEFINE q == m \div p
             r == m % p
  <2> HIDE DEF p
  <2>1. q \in Int /\ r \in 0..p - 1 /\ m = p * q + r
    <3>1. p \in Nat \ {0} /\ m \in Int
      BY <1>6, <1>9
    <3> QED
      BY <3>1, DivMod
  <2> HIDE DEF q, r
  <2>2. q >= 0
    <3> SUFFICES ASSUME q <= -1
                 PROVE  FALSE
      BY <2>1
    <3>1. p * q <= -p
      BY <1>6, <2>1
    <3> QED
      BY <1>6, <1>9, <2>1, <3>1
  <2>3. q < p
    <3> SUFFICES ASSUME q >= p
                 PROVE  FALSE
      BY <1>6, <2>1
    <3>1. p * q >= p * p
      BY <1>6, <2>1
    <3> QED
      BY <1>6, <1>9, <2>1, <3>1
  <2>4. q \in 0..p - 1
    BY <1>6, <2>1, <2>2, <2>3
  <2> QED
    BY <2>1, <2>4 DEF WordsOf, q, r, p
<1>13. IsPlaneByte(src, n, size, plane, 2 * h, m % 2^w)
  <2>1. \A j \in 0..w - 1 : Bit(m % 2^w, j) = look((2 * h) * w + j)
    BY <1>4, <1>11
  <2> QED
    BY <1>12, <2>1 DEF IsPlaneByte, ByteValues, look, w
<1>14. IsPlaneByte(src, n, size, plane, 2 * h + 1, m \div 2^w)
  <2>1. \A j \in 0..w - 1 : Bit(m \div 2^w, j) = look((2 * h + 1) * w + j)
    BY <1>4, <1>11
  <2> QED
    BY <1>12, <2>1 DEF IsPlaneByte, ByteValues, look, w
<1> QED
  BY <1>13, <1>14 DEF m, step, w

\* A place of the planes is a byte of one.
LEMMA PlacesOfPlanes ==
    ASSUME NEW n \in Nat \ {0}, NEW size \in Nat \ {0}
    PROVE  LET bpp == PlaneBytes(n)
           IN  /\ bpp \in Nat \ {0}
               /\ \A plane \in 0..size * ByteBits - 1 : \A c \in 0..bpp - 1 :
                        /\ (plane * bpp + c) + 1 \in 1..size * ByteBits * bpp
                        /\ (plane * bpp + c) \div bpp = plane
                        /\ (plane * bpp + c) % bpp = c
<1> DEFINE bpp == PlaneBytes(n)
           all == size * ByteBits
<1>1. bpp \in Nat \ {0}
  <2>1. bpp \in Nat /\ 0 \div ByteBits \in 0..bpp - 1
    BY PlaneBytesIs
  <2> HIDE DEF bpp
  <2> QED
    BY <2>1, ElementsAssumption
<1>2. all \in Nat
  BY ElementsAssumption
<1> HIDE DEF bpp, all
<1>3. ASSUME NEW plane \in 0..all - 1, NEW c \in 0..bpp - 1
      PROVE  /\ (plane * bpp + c) + 1 \in 1..all * bpp
             /\ (plane * bpp + c) \div bpp = plane
             /\ (plane * bpp + c) % bpp = c
  <2>1. plane * bpp + c \in 0..all * bpp - 1
    BY <1>1, <1>2, IndexIn
  <2>2. (plane * bpp + c) \div bpp = plane /\ (plane * bpp + c) % bpp = c
    BY <1>1, <1>2, DivModIs
  <2> DEFINE k == plane * bpp + c
             z == all * bpp
  <2>3. k \in 0..z - 1 /\ z \in Int
    BY <1>1, <1>2, <2>1
  <2> HIDE DEF k, z
  <2>4. k + 1 \in 1..z
    BY <2>3
  <2> QED
    BY <2>2, <2>4 DEF k, z
<1> QED
  BY <1>1, <1>3 DEF all, bpp

\* Both builds put the same bits in the same places.
LEMMA ScatterIs ==
    ASSUME NEW n \in Nat \ {0}, NEW size \in Nat \ {0}, NEW src, AreBytes(src, n * size)
    PROVE  /\ ArePlanes(src, n, size, Scatter(n, size, src))
           /\ DOMAIN Scatter(n, size, src) = 1..size * ByteBits * PlaneBytes(n)
<1> DEFINE bpp == PlaneBytes(n)
           t == Scatter(n, size, src)
<1>1. DOMAIN t = 1..size * ByteBits * bpp
  BY DEF Scatter
<1>2. ASSUME NEW plane \in 0..size * ByteBits - 1, NEW c \in 0..bpp - 1
      PROVE  IsPlaneByte(src, n, size, plane, c, t[(plane * bpp + c) + 1])
  <2> DEFINE k == plane * bpp + c
  <2>1. /\ bpp \in Nat \ {0} /\ k + 1 \in 1..size * ByteBits * bpp
        /\ k \div bpp = plane /\ k % bpp = c
    BY PlacesOfPlanes
  <2>2. k \in Int
    BY <2>1, LaneIs
  <2> HIDE DEF k
  <2>3. (k + 1) - 1 = k
    BY <2>2
  <2>4. t[k + 1] = PlaneByte(src, n, size, 0, plane, c)
    BY <2>1, <2>3 DEF Scatter
  <2> HIDE DEF bpp
  <2>5. c \in Nat /\ 0 <= c * ByteBits
    BY <2>1, ElementsAssumption
  <2>6. IsPlaneByte(src, n, size, plane, c, PlaneByte(src, n, size, 0, plane, c))
    BY <2>5, PlaneByteIs
  <2> QED
    BY <2>4, <2>6 DEF k
<1> QED
  BY <1>1, <1>2 DEF ArePlanes

\* Registers scatter as the plain loop does.
LEMMA ScatterSse2Is ==
    ASSUME NEW n \in Nat \ {0}, NEW size \in Nat \ {0}, NEW src, AreBytes(src, n * size)
    PROVE  /\ ArePlanes(src, n, size, ScatterSse2(n, size, src))
           /\ DOMAIN ScatterSse2(n, size, src) = 1..size * ByteBits * PlaneBytes(n)
<1> DEFINE bpp == PlaneBytes(n)
           t == ScatterSse2(n, size, src)
           step == 2 * ByteBits
           body == step * (n \div step)
           mask(e, lane, bit) ==
               FromBits(step, [j \in 0..step - 1 |-> Bit(src[(e + j) * size + lane + 1], bit)])
           packed(plane, c) ==
               IF c % 2 = 0
               THEN mask(step * (c \div 2), plane \div ByteBits, plane % ByteBits) % 2^ByteBits
               ELSE mask(step * (c \div 2), plane \div ByteBits, plane % ByteBits)
                        \div 2^ByteBits
           byte(plane, c) == IF c * ByteBits < body THEN packed(plane, c)
                             ELSE PlaneByte(src, n, size, body, plane, c)
<1>1. t = [p \in 1..size * ByteBits * bpp |-> byte((p - 1) \div bpp, (p - 1) % bpp)]
  BY DEF ScatterSse2
<1>2. ByteBits \in Nat \ {0} /\ step \in Nat \ {0}
  BY ElementsAssumption
<1>3. n \div step \in Nat /\ body \in Nat /\ body <= n
  <2> DEFINE q == n \div step
             r == n % step
  <2>1. q \in Int /\ r \in 0..step - 1 /\ n = step * q + r
    <3> HIDE DEF step
    <3> QED
      BY <1>2, DivMod
  <2> HIDE DEF q, r, step
  <2>2. q >= 0
    <3> SUFFICES ASSUME q <= -1
                 PROVE  FALSE
      BY <2>1
    <3>1. step * q <= -step
      BY <1>2, <2>1
    <3> QED
      BY <1>2, <2>1, <3>1
  <2>3. step * q \in Nat /\ step * q <= n
    BY <1>2, <2>1, <2>2
  <2> QED
    BY <2>1, <2>2, <2>3 DEF q
<1>4. ASSUME NEW plane \in 0..size * ByteBits - 1, NEW c \in 0..bpp - 1
      PROVE  IsPlaneByte(src, n, size, plane, c, byte(plane, c))
  <2>1. c \in Nat
    BY PlaneBytesIs
  <2>2. CASE ~ (c * ByteBits < body)
    <3>1. body <= c * ByteBits
      BY <1>2, <1>3, <2>1, <2>2
    <3>2. byte(plane, c) = PlaneByte(src, n, size, body, plane, c)
      <4> HIDE DEF body, packed
      <4> QED
        BY <2>2
    <3> HIDE DEF body, byte, bpp
    <3> QED
      BY <1>3, <2>1, <3>1, <3>2, PlaneByteIs
  <2>3. CASE c * ByteBits < body
    <3> DEFINE h == c \div 2
               lane == plane \div ByteBits
               bit == plane % ByteBits
               bits == [j \in 0..step - 1 |-> Bit(src[(step * h + j) * size + lane + 1], bit)]
               m == FromBits(step, bits)
    <3>1. byte(plane, c) = IF c % 2 = 0 THEN m % 2^ByteBits ELSE m \div 2^ByteBits
      <4> HIDE DEF body
      <4> QED
        BY <2>3
    <3>2. /\ h \in Nat
          /\ (c % 2 = 0 => c = 2 * h) /\ (c % 2 # 0 => c = 2 * h + 1)
      BY <2>1
    <3>3. step * h + step <= n
      <4> DEFINE q == n \div step
      <4>1. q \in Nat /\ step * q <= n
        BY <1>3
      <4> HIDE DEF q
      <4>2. 2 * h <= c
        BY <3>2
      <4>3. step * h <= c * ByteBits
        <5>1. (2 * h) * ByteBits <= c * ByteBits
          <6> HIDE DEF h
          <6> QED
            BY <1>2, <2>1, <3>2, <4>2
        <5>2. step * h = (2 * h) * ByteBits
          <6> HIDE DEF h
          <6> QED
            BY <1>2, <3>2
        <5> QED
          BY <5>1, <5>2
      <4> HIDE DEF h, step
      <4>4. step * h < step * q
        BY <1>2, <2>1, <2>3, <3>2, <4>1, <4>3 DEF q
      <4>5. h < q
        <5> SUFFICES ASSUME h >= q
                     PROVE  FALSE
          BY <3>2, <4>1
        <5>1. step * h >= step * q
          BY <1>2, <3>2, <4>1
        <5> QED
          BY <1>2, <3>2, <4>1, <4>4, <5>1
      <4>6. h + 1 <= q
        BY <3>2, <4>1, <4>5
      <4>7. step * (h + 1) <= step * q
        BY <1>2, <3>2, <4>1, <4>6
      <4>8. step * (h + 1) = step * h + step
        BY <1>2, <3>2
      <4> QED
        BY <1>2, <3>2, <4>1, <4>7, <4>8
    <3>4. \A j \in 0..step - 1 : bits[j] = Bit(src[((step * h + j) * size + lane) + 1], bit)
      OBVIOUS
    <3> HIDE DEF h, bits, byte, bpp
    <3>5. /\ IsPlaneByte(src, n, size, plane, 2 * h, m % 2^ByteBits)
          /\ IsPlaneByte(src, n, size, plane, 2 * h + 1, m \div 2^ByteBits)
      BY <3>2, <3>3, <3>4, MaskBytesAre
    <3> HIDE DEF m
    <3> QED
      BY <3>1, <3>2, <3>5
  <2> QED
    BY <2>2, <2>3
<1> HIDE DEF byte
<1>5. ASSUME NEW plane \in 0..size * ByteBits - 1, NEW c \in 0..bpp - 1
      PROVE  t[(plane * bpp + c) + 1] = byte(plane, c)
  <2> DEFINE k == plane * bpp + c
  <2>1. /\ bpp \in Nat \ {0} /\ k + 1 \in 1..size * ByteBits * bpp
        /\ k \div bpp = plane /\ k % bpp = c
    BY PlacesOfPlanes
  <2>2. k \in Int
    BY <2>1, LaneIs
  <2> HIDE DEF k, t, bpp
  <2>3. (k + 1) - 1 = k
    BY <2>2
  <2>4. t[k + 1] = byte(plane, c)
    BY <1>1, <2>1, <2>3
  <2> QED
    BY <2>4 DEF k
<1>6. DOMAIN t = 1..size * ByteBits * bpp
  BY <1>1
<1> HIDE DEF t
<1>7. ArePlanes(src, n, size, t)
  BY <1>4, <1>5 DEF ArePlanes
<1> QED
  BY <1>6, <1>7 DEF t

\* A byte gathered from the planes is the byte they were made of.
LEMMA GatheredIs ==
    ASSUME NEW n \in Nat \ {0}, NEW size \in Nat \ {0}, NEW src, AreBytes(src, n * size),
           NEW t, ArePlanes(src, n, size, t), NEW e \in 0..n - 1, NEW b \in 0..size - 1
    PROVE  Gathered(t, n, e, b) = src[(e * size + b) + 1]
<1> DEFINE w == ByteBits
           bpp == PlaneBytes(n)
           c == e \div w
           j == e % w
           bits == [bit \in 0..w - 1 |-> Bit(t[(b * w + bit) * bpp + c + 1], j)]
           k == e * size + b
           a == src[k + 1]
<1>1. w \in Nat \ {0}
  BY ElementsAssumption
<1>2. c \in 0..bpp - 1 /\ j \in 0..w - 1 /\ e = w * c + j /\ bpp \in Nat
  BY PlaneBytesIs
<1>3. Gathered(t, n, e, b) = FromBits(w, bits)
  BY DEF Gathered
<1>4. a \in WordsOf(w)
  <2>1. k \in 0..n * size - 1
    BY IndexIn
  <2> DEFINE z == n * size
  <2>2. z \in Nat /\ k \in 0..z - 1
    BY <2>1
  <2>3. \A i \in 1..z : src[i] \in WordsOf(w)
    BY DEF AreBytes, ByteValues
  <2> HIDE DEF z, k, w
  <2>4. k + 1 \in 1..z
    BY <2>2
  <2> QED
    BY <2>3, <2>4
<1>5. \A bit \in 0..w - 1 : bits[bit] = Bit(a, bit)
  <2>1. TAKE bit \in 0..w - 1
  <2> DEFINE plane == b * w + bit
             x == t[(plane * bpp + c) + 1]
  <2>2. plane \in 0..size * w - 1 /\ plane \div w = b /\ plane % w = bit
    <3> HIDE DEF w
    <3>1. b * w + bit \in 0..size * w - 1
      BY <1>1, IndexIn
    <3>2. (b * w + bit) \div w = b /\ (b * w + bit) % w = bit
      <4>1. b \in Int
        OBVIOUS
      <4> QED
        BY <1>1, <4>1, DivModIs
    <3> QED
      BY <3>1, <3>2
  <2>3. IsPlaneByte(src, n, size, plane, c, x)
    <3> HIDE DEF plane, c, x
    <3> QED
      BY <1>2, <2>2 DEF ArePlanes, x
  <2> HIDE DEF plane, x, c, j
  <2>4. c * w + j = e
    <3> HIDE DEF w, bpp
    <3> QED
      BY <1>1, <1>2
  <2>5. Bit(x, j) = Bit(src[((c * w + j) * size + plane \div w) + 1], plane % w)
    BY <1>2, <2>3, <2>4 DEF IsPlaneByte
  <2>6. Bit(x, j) = Bit(a, bit)
    BY <2>2, <2>4, <2>5
  <2>7. (plane * bpp + c) + 1 = plane * bpp + c + 1
    OBVIOUS
  <2> QED
    BY <2>6 DEF plane, x
<1> HIDE DEF bits, a
<1>6. FromBits(w, bits) = a
  BY <1>1, <1>4, <1>5, WordOfBits
<1> QED
  BY <1>3, <1>6 DEF a

\* The registers find the same bits.
AreSpread(w, h, r, f, e) ==
    /\ f \div w = 2 * h /\ e - f = r
    /\ r < w => e \div w = 2 * h /\ e % w = r /\ r % w = r
    /\ ~ (r < w) => e \div w = 2 * h + 1 /\ e % w = r - w /\ r % w = r - w

\* The bits of one element, spread over two bytes of a pair.
LEMMA SpreadIs ==
    ASSUME NEW w \in Nat \ {0}, NEW h \in Nat, NEW r \in 0..2 * w - 1,
           NEW f, f = w * (2 * h), NEW e, e = f + r
    PROVE  AreSpread(w, h, r, f, e)
<1> DEFINE g == w * h
<1>1. g \in Nat /\ f = 2 * g /\ w * (2 * h) = 2 * g /\ w * (2 * h + 1) = 2 * g + w
  OBVIOUS
<1>2. f = w * (2 * h) + 0
  BY <1>1
<1>3. (w * (2 * h) + 0) \div w = 2 * h
  <2>1. 2 * h \in Int /\ 0 \in 0..w - 1
    OBVIOUS
  <2> QED
    BY <2>1, DivModIs
<1>4. CASE r < w
  <2>1. e = w * (2 * h) + r
    BY <1>1
  <2>2. (w * (2 * h) + r) \div w = 2 * h /\ (w * (2 * h) + r) % w = r
    <3>1. 2 * h \in Int /\ r \in 0..w - 1
      BY <1>4
    <3> QED
      BY <3>1, DivModIs
  <2>3. r % w = r
    BY <1>4
  <2> QED
    BY <1>1, <1>2, <1>3, <1>4, <2>1, <2>2, <2>3 DEF AreSpread
<1>5. CASE ~ (r < w)
  <2> DEFINE s == r - w
  <2>1. s \in 0..w - 1
    BY <1>5
  <2>2. e = w * (2 * h + 1) + s
    BY <1>1
  <2>3. (w * (2 * h + 1) + s) \div w = 2 * h + 1 /\ (w * (2 * h + 1) + s) % w = s
    <3>1. 2 * h + 1 \in Int
      OBVIOUS
    <3> HIDE DEF s
    <3> QED
      BY <2>1, <3>1, DivModIs
  <2>4. r = w * 1 + s
    OBVIOUS
  <2>5. (w * 1 + s) % w = s
    <3> HIDE DEF s
    <3> QED
      BY <2>1, DivModIs
  <2> QED
    BY <1>1, <1>2, <1>3, <1>5, <2>2, <2>3, <2>4, <2>5 DEF AreSpread
<1> QED
  BY <1>4, <1>5

\* The plain loop gathers the elements from the planes.
LEMMA GatherIs ==
    ASSUME NEW n \in Nat \ {0}, NEW size \in Nat \ {0}, NEW src, AreBytes(src, n * size),
           NEW t, ArePlanes(src, n, size, t)
    PROVE  Gather(n, size, t) = [p \in 1..n * size |-> src[p]]
<1>1. ASSUME NEW p \in 1..n * size
      PROVE  Gathered(t, n, (p - 1) \div size, (p - 1) % size) = src[p]
  <2> DEFINE k == p - 1
             e == k \div size
             b == k % size
  <2>1. k \in 0..n * size - 1 /\ k + 1 = p
    <3> DEFINE z == n * size
    <3>1. p \in 1..z /\ z \in Nat
      OBVIOUS
    <3> HIDE DEF z
    <3>2. p - 1 \in 0..z - 1
      BY <3>1
    <3> QED
      BY <3>1, <3>2 DEF z
  <2> HIDE DEF k
  <2>2. e \in 0..n - 1 /\ b \in 0..size - 1
    BY <2>1, BytePlaces
  <2>3. e * size + b = k
    <3>1. k \in Int
      BY <2>1
    <3>2. k = size * e + b
      BY <3>1, DivMod
    <3> HIDE DEF e, b
    <3> QED
      BY <2>2, <3>2
  <2> HIDE DEF e, b
  <2>4. Gathered(t, n, e, b) = src[(e * size + b) + 1]
    BY <2>2, GatheredIs
  <2> QED
    BY <2>1, <2>3, <2>4 DEF e, b, k
<1> QED
  BY <1>1 DEF Gather

\* Registers gather as the plain loop does.
LEMMA GatherSse2Is ==
    ASSUME NEW n \in Nat \ {0}, NEW size \in Nat \ {0}, NEW src, AreBytes(src, n * size),
           NEW t, ArePlanes(src, n, size, t)
    PROVE  GatherSse2(n, size, t) = Gather(n, size, t)
<1> DEFINE w == ByteBits
           bpp == PlaneBytes(n)
           step == 2 * w
           body == step * (n \div step)
           packed(plane, c) == t[plane * bpp + c + 1] + 2^w * t[plane * bpp + c + 2]
           expand(m, j) == Bit(IF j < w THEN m % 2^w ELSE m \div 2^w, j % w)
           first(e) == step * (e \div step)
           spread(e, b) == [bit \in 0..w - 1 |->
                              expand(packed(b * w + bit, first(e) \div w), e - first(e))]
           accum(e, b) == FromBits(w, spread(e, b))
           plain(e, b) == [bit \in 0..w - 1 |->
                             Bit(t[(b * w + bit) * bpp + e \div w + 1], e % w)]
<1>1. GatherSse2(n, size, t)
        = [p \in 1..n * size |->
             LET e == (p - 1) \div size
                 b == (p - 1) % size
             IN  IF e < body THEN accum(e, b) ELSE Gathered(t, n, e, b)]
  BY DEF GatherSse2
<1>2. w \in Nat \ {0}
  BY ElementsAssumption
<1>3. ASSUME NEW e \in 0..n - 1, NEW b \in 0..size - 1, e < body
      PROVE  accum(e, b) = Gathered(t, n, e, b)
  <2> DEFINE h == e \div step
             r == e % step
  <2> HIDE DEF w
  <2>1. h \in Int /\ r \in 0..step - 1 /\ e = step * h + r /\ step \in Nat \ {0}
    <3>1. step \in Nat \ {0} /\ e \in Int
      BY <1>2
    <3> HIDE DEF step
    <3> QED
      BY <3>1, DivMod
  <2> HIDE DEF h, r, body
  <2>2. h \in Nat
    <3> SUFFICES ASSUME h <= -1
                 PROVE  FALSE
      BY <2>1
    <3> HIDE DEF step
    <3>1. step * h <= -step
      BY <2>1
    <3> QED
      BY <2>1, <3>1
  <2>3. 2 * h \in 0..bpp - 1 /\ 2 * h + 1 \in 0..bpp - 1 /\ bpp \in Nat
    <3> DEFINE q == n \div step
               s == n % step
    <3>1. q \in Int /\ s \in 0..step - 1 /\ n = step * q + s
      <4> HIDE DEF step
      <4> QED
        BY <2>1, DivMod
    <3>2. e < step * q
      BY <1>3 DEF body
    <3> HIDE DEF q, s
    <3>3. h < q
      <4> SUFFICES ASSUME h >= q
                   PROVE  FALSE
        BY <2>1, <3>1
      <4> HIDE DEF step
      <4>1. step * h >= step * q
        BY <2>1, <3>1
      <4> QED
        BY <2>1, <3>1, <3>2, <4>1
    <3>4. step * (h + 1) <= step * q
      <4>1. h + 1 <= q
        BY <2>2, <3>1, <3>3
      <4> HIDE DEF step
      <4> QED
        BY <2>1, <2>2, <3>1, <4>1
    <3>5. bpp \in Nat /\ n <= w * bpp
      BY PlaneBytesIs DEF w
    <3> HIDE DEF bpp
    <3>6. step * (h + 1) = w * (2 * h + 2)
      BY <1>2, <2>2
    <3>7. w * (2 * h + 2) <= w * bpp
      <4> HIDE DEF step
      <4> DEFINE x == w * bpp
                 y == w * (2 * h + 2)
                 z == step * q
      <4>1. /\ x \in Int /\ y \in Int /\ z \in Int /\ n <= x /\ n = z + s
            /\ s >= 0 /\ s \in Int /\ y <= z
        BY <1>2, <2>1, <2>2, <3>1, <3>4, <3>5, <3>6
      <4> HIDE DEF x, y, z
      <4>2. y <= x
        BY <4>1
      <4> QED
        BY <4>2 DEF x, y
    <3>8. 2 * h + 2 <= bpp
      <4> SUFFICES ASSUME 2 * h + 2 >= bpp + 1
                   PROVE  FALSE
        BY <2>2, <3>5
      <4>1. w * (2 * h + 2) >= w * (bpp + 1)
        BY <1>2, <2>2, <3>5
      <4>2. w * (bpp + 1) = w * bpp + w
        BY <1>2, <3>5
      <4> DEFINE x == w * bpp
                 y == w * (2 * h + 2)
      <4>3. x \in Int /\ y \in Int /\ y <= x /\ y >= x + w
        BY <1>2, <2>2, <3>5, <3>7, <4>1, <4>2
      <4> HIDE DEF x, y
      <4> QED
        BY <1>2, <4>3
    <3> QED
      BY <2>2, <3>5, <3>8
  <2>4. first(e) = step * h
    BY DEF h
  <2>5. /\ first(e) \div w = 2 * h /\ e - first(e) = r
        /\ r < w => e \div w = 2 * h /\ e % w = r /\ r % w = r
        /\ ~ (r < w) => e \div w = 2 * h + 1 /\ e % w = r - w /\ r % w = r - w
    <3> DEFINE f == step * h
    <3>1. e = f + r /\ r \in 0..2 * w - 1 /\ f = w * (2 * h)
      BY <1>2, <2>1, <2>2
    <3> HIDE DEF f, first
    <3>2. AreSpread(w, h, r, f, e)
      BY <1>2, <2>2, <3>1, SpreadIs
    <3>3. first(e) = f
      BY <2>4 DEF f
    <3> QED
      BY <3>2, <3>3 DEF AreSpread
  <2> HIDE DEF first
  <2>6. ASSUME NEW bit \in 0..w - 1
        PROVE  spread(e, b)[bit] = plain(e, b)[bit]
    <3> DEFINE plane == b * w + bit
               x == t[plane * bpp + 2 * h + 1]
               y == t[plane * bpp + 2 * h + 2]
               p == 2^w
    <3>1. plane \in 0..size * w - 1
      BY <1>2, IndexIn
    <3>2. plane * bpp \in Int
      <4>1. size * w \in Nat
        BY <1>2
      <4> DEFINE z == size * w
      <4>2. plane \in 0..z - 1 /\ z \in Nat
        BY <3>1, <4>1
      <4> HIDE DEF z, plane, bpp
      <4> QED
        BY <2>3, <4>2
    <3>3. /\ (plane * bpp + 2 * h) + 1 = plane * bpp + 2 * h + 1
          /\ (plane * bpp + (2 * h + 1)) + 1 = plane * bpp + 2 * h + 2
      <4> DEFINE z == plane * bpp
      <4>1. z \in Int
        BY <3>2
      <4> HIDE DEF z
      <4>2. (z + 2 * h) + 1 = z + 2 * h + 1 /\ (z + (2 * h + 1)) + 1 = z + 2 * h + 2
        BY <2>2, <4>1
      <4> QED
        BY <4>2 DEF z
    <3> HIDE DEF plane
    <3>4. x \in 0..p - 1 /\ y \in 0..p - 1 /\ p \in Nat \ {0}
      <4>1. IsPlaneByte(src, n, size, plane, 2 * h, t[(plane * bpp + 2 * h) + 1])
        BY <2>3, <3>1 DEF ArePlanes, w
      <4>2. IsPlaneByte(src, n, size, plane, 2 * h + 1, t[(plane * bpp + (2 * h + 1)) + 1])
        BY <2>3, <3>1 DEF ArePlanes, w
      <4>3. 2^w \in Nat \ {0}
        BY <1>2, PowerNext
      <4> QED
        BY <3>3, <4>1, <4>2, <4>3 DEF IsPlaneByte, ByteValues, WordsOf, w
    <3>5. spread(e, b)[bit] = expand(packed(plane, 2 * h), r)
      <4> HIDE DEF expand, packed
      <4> QED
        BY <2>5 DEF plane
    <3>6. packed(plane, 2 * h) = x + p * y
      OBVIOUS
    <3> HIDE DEF x, y, p, packed
    <3>7. (x + p * y) % p = x /\ (x + p * y) \div p = y
      <4>1. x + p * y = p * y + x /\ y \in Int
        BY <3>4
      <4>2. (p * y + x) % p = x /\ (p * y + x) \div p = y
        BY <3>4, <4>1, DivModIs
      <4> QED
        BY <4>1, <4>2
    <3>8. spread(e, b)[bit] = IF r < w THEN Bit(x, r % w) ELSE Bit(y, r % w)
      <4> HIDE DEF spread
      <4> QED
        BY <3>5, <3>6, <3>7 DEF p
    <3>9. plain(e, b)[bit] = Bit(t[plane * bpp + e \div w + 1], e % w)
      BY DEF plane
    <3> HIDE DEF spread, plain
    <3>10. CASE r < w
      <4>1. plane * bpp + e \div w + 1 = plane * bpp + 2 * h + 1
        BY <2>5, <3>10
      <4> QED
        BY <2>5, <3>8, <3>9, <3>10, <4>1 DEF x
    <3>11. CASE ~ (r < w)
      <4>1. plane * bpp + e \div w + 1 = plane * bpp + 2 * h + 2
        <5> DEFINE z == plane * bpp
        <5>1. z \in Int
          BY <3>2
        <5> HIDE DEF z
        <5>2. z + (2 * h + 1) + 1 = z + 2 * h + 2
          BY <2>2, <5>1
        <5>3. z + e \div w + 1 = z + (2 * h + 1) + 1
          BY <2>5, <3>11
        <5> QED
          BY <5>2, <5>3 DEF z
      <4>2. e % w = r % w
        BY <2>5, <3>11
      <4> QED
        BY <3>8, <3>9, <3>11, <4>1, <4>2 DEF y
    <3> QED
      BY <3>10, <3>11
  <2>7. spread(e, b) = [bit \in 0..w - 1 |-> spread(e, b)[bit]]
    <3> HIDE DEF expand, packed
    <3> QED
      OBVIOUS
  <2>8. plain(e, b) = [bit \in 0..w - 1 |-> plain(e, b)[bit]]
    OBVIOUS
  <2>9. Gathered(t, n, e, b) = FromBits(w, plain(e, b))
    BY DEF Gathered, w
  <2> HIDE DEF spread, plain
  <2>10. spread(e, b) = plain(e, b)
    BY <2>6, <2>7, <2>8
  <2> QED
    BY <2>9, <2>10
<1> HIDE DEF accum, body
<1>4. ASSUME NEW p \in 1..n * size
      PROVE  (p - 1) \div size \in 0..n - 1 /\ (p - 1) % size \in 0..size - 1
  <2> DEFINE k == p - 1
             z == n * size
  <2>1. k \in 0..z - 1
    <3>1. p \in 1..z /\ z \in Nat
      OBVIOUS
    <3> HIDE DEF z
    <3> QED
      BY <3>1
  <2> HIDE DEF k
  <2>2. k \div size \in 0..n - 1 /\ k % size \in 0..size - 1
    BY <2>1, BytePlaces
  <2> QED
    BY <2>2 DEF k
<1> QED
  BY <1>1, <1>3, <1>4 DEF Gather

\* Every build reads the planes every build writes, the last elements that
\* do not fill a register included.
LEMMA BitShuffleBack ==
    ASSUME NEW size \in Nat \ {0}, NEW src \in Seq(ByteValues),
           NEW from \in Builds, NEW to \in Builds,
           size * (Len(src) \div size) = Len(src)
    PROVE  BitUnshuffle(to, size, Len(src), BitShuffle(from, size, src)) = Ok(src)
<1> DEFINE n == Len(src) \div size
           all == size * ByteBits * PlaneBytes(n)
           t == BitShuffle(from, size, src)
<1>1. CASE src = <<>>
  BY <1>1 DEF BitUnshuffle
<1>2. CASE src # <<>>
  <2>1. n \in Nat \ {0} /\ n * size = Len(src) /\ Len(src) # 0
    <3>1. Len(src) \in Nat \ {0}
      BY <1>2
    <3>2. n \in Int
      BY <3>1, DivMod
    <3> HIDE DEF n
    <3>3. size * n = Len(src)
      BY DEF n
    <3>4. n >= 1
      <4> SUFFICES ASSUME n <= 0
                   PROVE  FALSE
        BY <3>2
      <4>1. size * n <= 0
        BY <3>2
      <4> QED
        BY <3>1, <3>3, <4>1
    <3> QED
      BY <3>1, <3>2, <3>3, <3>4
  <2>2. AreBytes(src, n * size)
    BY <2>1 DEF AreBytes
  <2>3. ArePlanes(src, n, size, t) /\ DOMAIN t = 1..all
    <3>1. CASE from = "sse2"
      <4>1. t = ScatterSse2(n, size, src)
        BY <1>2, <3>1 DEF BitShuffle
      <4> HIDE DEF n, t
      <4> QED
        BY <2>1, <2>2, <4>1, ScatterSse2Is
    <3>2. CASE from # "sse2"
      <4>1. t = Scatter(n, size, src)
        BY <1>2, <3>2 DEF BitShuffle
      <4> HIDE DEF n, t
      <4> QED
        BY <2>1, <2>2, <4>1, ScatterIs
    <3> QED
      BY <3>1, <3>2
  <2>4. [p \in 1..n * size |-> src[p]] = src
    <3> HIDE DEF n
    <3> QED
      BY <2>1
  <2>5. t = [p \in 1..all |-> t[p]]
    BY <1>2 DEF BitShuffle, Scatter, ScatterSse2
  <2> HIDE DEF n, t
  <2>6. all \in Nat
    <3>1. PlaneBytes(n) \in Nat
      BY <2>1, PlaneBytesIs
    <3>2. size * ByteBits \in Nat
      BY ElementsAssumption
    <3> QED
      BY <3>1, <3>2
  <2> HIDE DEF all
  <2>7. Len(t) = all
    <3> DEFINE S == {t[p] : p \in 1..all}
    <3>1. t \in [1..all -> S]
      BY <2>5
    <3> HIDE DEF S
    <3>2. t \in Seq(S)
      BY <2>6, <3>1, SeqDef
    <3> QED
      BY <2>3, <2>6, <3>2, LenProperties
  <2>8. BitUnshuffle(to, size, Len(src), t)
          = Ok(IF to = "sse2" THEN GatherSse2(n, size, t) ELSE Gather(n, size, t))
    BY <2>1, <2>7 DEF BitUnshuffle, n, all
  <2>9. Gather(n, size, t) = src
    <3>1. Gather(n, size, t) = [p \in 1..n * size |-> src[p]]
      BY <2>1, <2>2, <2>3, GatherIs
    <3> QED
      BY <2>4, <3>1
  <2>10. GatherSse2(n, size, t) = src
    BY <2>1, <2>2, <2>3, <2>9, GatherSse2Is
  <2> QED
    BY <2>8, <2>9, <2>10 DEF t
<1> QED
  BY <1>1, <1>2

----------------------------------------------------------------------------
(* The dictionary's table.                                                 *)

\* The slot of the value a dictionary has at d.
EntryOf(D, d) == [hash |-> Fnv[D[d]], idx |-> d - 1, value |-> D[d]]

\* No slot before the k-th from the hash h is free.
TakenFrom(slots, cap, h, k) == \A j \in 0..k - 1 : slots[(h + j) % cap].hash # 0

\* The slots hold the values at N, each once and where a search from its
\* hash comes by before it meets a free slot.
Placed(slots, cap, D, N) ==
    /\ D \in Seq(DOMAIN Fnv) /\ N \in SUBSET (1..Len(D)) /\ cap \in Nat \ {0}
    /\ slots \in [0..cap - 1 -> {Empty} \cup {EntryOf(D, d) : d \in N}]
    /\ \A s, t \in 0..cap - 1 : slots[s] = slots[t] /\ slots[s] # Empty => s = t
    /\ \A d \in N : \E k \in 0..cap - 1 : /\ slots[(Fnv[D[d]] + k) % cap] = EntryOf(D, d)
                                          /\ TakenFrom(slots, cap, Fnv[D[d]], k)

\* What the slot of a value holds.
LEMMA EntryIs ==
    ASSUME NEW D \in Seq(DOMAIN Fnv), NEW d \in 1..Len(D)
    PROVE  /\ EntryOf(D, d).hash = Fnv[D[d]] /\ Fnv[D[d]] \in Nat /\ Fnv[D[d]] # 0
           /\ EntryOf(D, d).idx = d - 1 /\ EntryOf(D, d).value = D[d]
           /\ EntryOf(D, d) # Empty /\ Empty.hash = 0
           /\ D[d] \in DOMAIN Fnv
  <1>1. D[d] \in DOMAIN Fnv
    OBVIOUS
  <1>2. Fnv[D[d]] \in Nat /\ Fnv[D[d]] % 2 = 1
    BY <1>1, DictionaryAssumption
  <1>3. Fnv[D[d]] # 0
    BY <1>2
  <1>4. EntryOf(D, d).hash = Fnv[D[d]] /\ Empty.hash = 0
        /\ EntryOf(D, d).idx = d - 1 /\ EntryOf(D, d).value = D[d]
    BY DEF EntryOf, Empty
  <1> QED
    BY <1>1, <1>2, <1>3, <1>4

\* What a slot of a table is.
LEMMA SlotIs ==
    ASSUME NEW D, NEW N, NEW cap, NEW slots, Placed(slots, cap, D, N), NEW s \in 0..cap - 1
    PROVE  \/ slots[s] = Empty /\ slots[s].hash = 0
           \/ \E d \in N : slots[s] = EntryOf(D, d) /\ slots[s].hash # 0
  <1>0. D \in Seq(DOMAIN Fnv) /\ N \in SUBSET (1..Len(D)) /\ cap \in Nat
    BY DEF Placed
  <1>1. slots[s] \in {Empty} \cup {EntryOf(D, d) : d \in N}
    BY DEF Placed
  <1>2. CASE slots[s] = Empty
    BY <1>2 DEF Empty
  <1>3. CASE slots[s] # Empty
    <2>1. PICK d \in N : slots[s] = EntryOf(D, d)
      BY <1>1, <1>3
    <2>2. d \in 1..Len(D)
      BY <1>0
    <2>3. EntryOf(D, d).hash # 0
      BY <1>0, <2>2, EntryIs
    <2> QED
      BY <2>1, <2>3
  <1> QED
    BY <1>2, <1>3

\* From a hash every slot is met.
LEMMA EverySlot ==
    ASSUME NEW cap \in Nat \ {0}, NEW h \in Nat, NEW s \in 0..cap - 1
    PROVE  \E k \in 0..cap - 1 : (h + k) % cap = s
  <1> DEFINE a == s - h
             q == a \div cap
             k == a % cap
  <1>0. a \in Int
    OBVIOUS
  <1>1. a \in Int /\ q \in Int /\ k \in 0..cap - 1 /\ a = cap * q + k
    <2> HIDE DEF a
    <2>1. a \div cap \in Int /\ a % cap \in 0..cap - 1 /\ a = cap * (a \div cap) + (a % cap)
      BY <1>0, DivMod
    <2> QED
      BY <1>0, <2>1
  <1> DEFINE m == 0 - q
  <1>2. cap * m = 0 - cap * q /\ m \in Int
    <2> HIDE DEF q
    <2> QED
      BY <1>1
  <1>3. h + k = cap * m + s
    <2>1. a = s - h
      OBVIOUS
    <2> HIDE DEF a, q, k, m
    <2>2. cap * q \in Int /\ k \in Int
      BY <1>1
    <2> QED
      BY <1>1, <1>2, <2>1, <2>2
  <1> HIDE DEF m, k
  <1>4. (cap * m + s) % cap = s
    BY <1>2, DivModIs
  <1> QED
    BY <1>1, <1>3, <1>4

\* A free slot is met while the table is larger than the dictionary.
LEMMA FreePlace ==
    ASSUME NEW D, NEW N, NEW cap, NEW slots, Placed(slots, cap, D, N), Len(D) < cap,
           NEW h \in Nat
    PROVE  \E k \in 0..cap - 1 : slots[(h + k) % cap].hash = 0 /\ TakenFrom(slots, cap, h, k)
  <1>0. D \in Seq(DOMAIN Fnv) /\ N \in SUBSET (1..Len(D)) /\ cap \in Nat \ {0}
        /\ Len(D) \in Nat
    BY DEF Placed
  <1>1. \E s \in 0..cap - 1 : slots[s] = Empty
    <2>1. SUFFICES ASSUME \A s \in 0..cap - 1 : slots[s] # Empty PROVE FALSE
      OBVIOUS
    <2>2. ASSUME NEW s \in 0..cap - 1
          PROVE  \E d \in N : slots[s] = EntryOf(D, d)
      <3>1. \/ slots[s] = Empty /\ slots[s].hash = 0
            \/ \E d \in N : slots[s] = EntryOf(D, d) /\ slots[s].hash # 0
        BY SlotIs
      <3> QED
        BY <2>1, <3>1
    <2> DEFINE f == [s \in 0..cap - 1 |-> slots[s].idx]
    <2>3. ASSUME NEW s \in 0..cap - 1
          PROVE  slots[s].idx \in 0..Len(D) - 1 /\ slots[s] = EntryOf(D, slots[s].idx + 1)
      <3>1. PICK d \in N : slots[s] = EntryOf(D, d)
        BY <2>2
      <3>2. d \in 1..Len(D) /\ EntryOf(D, d).idx = d - 1
        BY <1>0, EntryIs
      <3>3. d = (d - 1) + 1
        BY <3>2
      <3> QED
        BY <3>1, <3>2, <3>3
    <2>4. f \in [0..cap - 1 -> 0..Len(D) - 1]
      BY <2>3
    <2>5. IsFiniteSet(0..cap - 1) /\ Cardinality(0..cap - 1) = cap
          /\ IsFiniteSet(0..Len(D) - 1) /\ Cardinality(0..Len(D) - 1) = Len(D)
      <3>1. Len(D) \in Nat /\ 0 \in Int /\ cap - 1 \in Int /\ Len(D) - 1 \in Int
        BY <1>0
      <3>2. IsFiniteSet(0..cap - 1)
            /\ Cardinality(0..cap - 1) = IF 0 > cap - 1 THEN 0 ELSE (cap - 1) - 0 + 1
        BY <3>1, FS_Interval
      <3>3. IsFiniteSet(0..Len(D) - 1)
            /\ Cardinality(0..Len(D) - 1) = IF 0 > Len(D) - 1 THEN 0 ELSE (Len(D) - 1) - 0 + 1
        BY <3>1, FS_Interval
      <3> QED
        BY <1>0, <3>1, <3>2, <3>3
    <2>a. Cardinality(0..Len(D) - 1) < Cardinality(0..cap - 1)
      BY <1>0, <2>5
    <2>b. \A s \in 0..cap - 1 : f[s] = slots[s].idx
      OBVIOUS
    <2> HIDE DEF f
    <2>6. PICK x, y \in 0..cap - 1 : x # y /\ f[x] = f[y]
      <3> DEFINE A == 0..cap - 1
                 B == 0..Len(D) - 1
      <3>1. IsFiniteSet(A) /\ IsFiniteSet(B) /\ Cardinality(B) < Cardinality(A) /\ f \in [A -> B]
        BY <2>4, <2>5, <2>a
      <3> HIDE DEF A, B
      <3>2. \E x, y \in A : x # y /\ f[x] = f[y]
        BY <3>1, FS_PigeonHole
      <3> QED
        BY <3>2 DEF A
    <2>7. slots[x] = slots[y]
      BY <2>3, <2>b, <2>6
    <2> QED
      BY <2>1, <2>6, <2>7 DEF Placed
  <1>2. PICK s \in 0..cap - 1 : slots[s] = Empty
    BY <1>1
  <1>4. PICK k0 \in 0..cap - 1 : (h + k0) % cap = s
    BY <1>0, EverySlot
  <1> DEFINE free == {k \in 0..cap - 1 : slots[(h + k) % cap].hash = 0}
  <1>5. k0 \in free /\ free \in SUBSET Nat
    BY <1>0, <1>2, <1>4 DEF Empty
  <1> HIDE DEF free
  <1>6. PICK k \in free : \A m \in free : k <= m
    BY <1>5, Least
  <1>7. k \in 0..cap - 1 /\ slots[(h + k) % cap].hash = 0
    BY DEF free
  <1>8. TakenFrom(slots, cap, h, k)
    <2> SUFFICES ASSUME NEW j \in 0..k - 1 PROVE slots[(h + j) % cap].hash # 0
      BY DEF TakenFrom
    <2>1. j \in 0..cap - 1 /\ ~(k <= j)
      BY <1>0, <1>7
    <2> QED
      BY <1>6, <2>1 DEF free
  <1> QED
    BY <1>7, <1>8

\* A value goes into the first free slot a search for it meets.
LEMMA PlaceOne ==
    ASSUME NEW D, NEW N, NEW cap, NEW slots, Placed(slots, cap, D, N),
           NEW d \in (1..Len(D)) \ N, NEW k \in 0..cap - 1,
           slots[(Fnv[D[d]] + k) % cap].hash = 0, TakenFrom(slots, cap, Fnv[D[d]], k)
    PROVE  Placed([slots EXCEPT ![(Fnv[D[d]] + k) % cap] = EntryOf(D, d)], cap, D, N \cup {d})
  <1> DEFINE at == (Fnv[D[d]] + k) % cap
             new == [slots EXCEPT ![at] = EntryOf(D, d)]
             S == {Empty} \cup {EntryOf(D, e) : e \in N}
             M == N \cup {d}
             R == {Empty} \cup {EntryOf(D, e) : e \in M}
  <1>0. D \in Seq(DOMAIN Fnv) /\ N \in SUBSET (1..Len(D)) /\ cap \in Nat \ {0}
        /\ Len(D) \in Nat /\ slots \in [0..cap - 1 -> S]
    BY DEF Placed
  <1>1. at \in 0..cap - 1 /\ Fnv[D[d]] \in Nat
    <2>1. Fnv[D[d]] \in Nat
      BY <1>0, EntryIs
    <2> DEFINE a == Fnv[D[d]] + k
    <2>2. a \in Int /\ cap \in Nat \ {0}
      BY <1>0, <2>1
    <2> HIDE DEF a
    <2>3. a % cap \in 0..cap - 1
      BY <2>2, DivMod
    <2> QED
      BY <2>1, <2>3 DEF a
  <1>2. /\ new \in [0..cap - 1 -> R]
        /\ new[at] = EntryOf(D, d) /\ \A s \in 0..cap - 1 : s # at => new[s] = slots[s]
    <2>1. EntryOf(D, d) \in R /\ \A x \in S : x \in R
      OBVIOUS
    <2> HIDE DEF S, R, at
    <2> QED
      BY <1>0, <1>1, <2>1
  <1> HIDE DEF new
  <1>3. slots[at] = Empty
    <2>1. \/ slots[at] = Empty /\ slots[at].hash = 0
          \/ \E e \in N : slots[at] = EntryOf(D, e) /\ slots[at].hash # 0
      BY <1>1, SlotIs
    <2> QED
      BY <2>1
  <1>4. ASSUME NEW s \in 0..cap - 1, slots[s] = EntryOf(D, d) PROVE FALSE
    <2>1. EntryOf(D, d) # Empty /\ EntryOf(D, d).idx = d - 1
      BY <1>0, EntryIs
    <2>2. PICK e \in N : slots[s] = EntryOf(D, e)
      BY <1>0, <1>4, <2>1
    <2>3. EntryOf(D, e).idx = e - 1 /\ e \in 1..Len(D)
      BY <1>0, EntryIs
    <2>4. e = d
      BY <1>0, <1>4, <2>1, <2>2, <2>3
    <2> QED
      BY <2>4
  <1>5. ASSUME NEW s \in 0..cap - 1, NEW t \in 0..cap - 1, new[s] = new[t], new[s] # Empty
        PROVE  s = t
    <2>1. slots[s] = slots[t] /\ slots[s] # Empty => s = t
      BY DEF Placed
    <2> QED
      BY <1>2, <1>4, <1>5, <2>1
  <1>6. ASSUME NEW h \in Nat, NEW j \in 0..cap - 1, TakenFrom(slots, cap, h, j)
        PROVE  TakenFrom(new, cap, h, j)
    <2> SUFFICES ASSUME NEW i \in 0..j - 1 PROVE new[(h + i) % cap].hash # 0
      BY DEF TakenFrom
    <2> DEFINE s == (h + i) % cap
    <2>1. s \in 0..cap - 1 /\ slots[s].hash # 0
      BY <1>0, <1>6 DEF TakenFrom
    <2>2. EntryOf(D, d).hash # 0
      BY <1>0, EntryIs
    <2> HIDE DEF s
    <2>3. new[s].hash # 0
      BY <1>2, <2>1, <2>2
    <2> QED
      BY <2>3 DEF s
  <1>7. ASSUME NEW e \in M
        PROVE  \E j \in 0..cap - 1 : /\ new[(Fnv[D[e]] + j) % cap] = EntryOf(D, e)
                                     /\ TakenFrom(new, cap, Fnv[D[e]], j)
    <2>1. CASE e = d
      <3>1. TakenFrom(new, cap, Fnv[D[d]], k)
        BY <1>1, <1>6
      <3> QED
        BY <1>2, <2>1, <3>1
    <2>2. CASE e # d
      <3>1. e \in N
        BY <2>2
      <3>2. PICK j \in 0..cap - 1 : /\ slots[(Fnv[D[e]] + j) % cap] = EntryOf(D, e)
                                    /\ TakenFrom(slots, cap, Fnv[D[e]], j)
        BY <3>1 DEF Placed
      <3>3. Fnv[D[e]] \in Nat /\ EntryOf(D, e) # Empty
        BY <1>0, <3>1, EntryIs
      <3> DEFINE s == (Fnv[D[e]] + j) % cap
      <3>4. s \in 0..cap - 1
        BY <1>0, <3>3
      <3>5. s # at
        BY <1>3, <3>2, <3>3
      <3>6. new[s] = EntryOf(D, e)
        BY <1>2, <3>2, <3>4, <3>5
      <3>7. TakenFrom(new, cap, Fnv[D[e]], j)
        BY <1>6, <3>2, <3>3
      <3> QED
        BY <3>6, <3>7
    <2> QED
      BY <2>1, <2>2
  <1>8. M \in SUBSET (1..Len(D))
    BY <1>0
  <1>9. Placed(new, cap, D, M)
    BY <1>0, <1>2, <1>5, <1>7, <1>8, Zenon DEF Placed
  <1> QED
    BY <1>9 DEF new

\* The entries of a dictionary stay its entries when a value is appended.
LEMMA PlacedFurther ==
    ASSUME NEW D, NEW N, NEW cap, NEW slots, Placed(slots, cap, D, N), NEW v \in DOMAIN Fnv
    PROVE  Placed(slots, cap, Append(D, v), N)
  <1> DEFINE E == Append(D, v)
  <1>1. D \in Seq(DOMAIN Fnv) /\ N \in SUBSET (1..Len(D)) /\ cap \in Nat \ {0} /\ Len(D) \in Nat
    BY DEF Placed
  <1>2. E \in Seq(DOMAIN Fnv) /\ Len(E) = Len(D) + 1 /\ \A d \in 1..Len(D) : E[d] = D[d]
    BY <1>1
  <1>3. N \in SUBSET (1..Len(E)) /\ \A d \in N : E[d] = D[d]
    BY <1>1, <1>2
  <1> HIDE DEF E
  <1>4. \A d \in N : EntryOf(E, d) = EntryOf(D, d)
    BY <1>3, Zenon DEF EntryOf
  <1>5. {EntryOf(E, d) : d \in N} = {EntryOf(D, d) : d \in N}
    BY <1>4
  <1>6. /\ slots \in [0..cap - 1 -> {Empty} \cup {EntryOf(E, d) : d \in N}]
        /\ \A s, t \in 0..cap - 1 : slots[s] = slots[t] /\ slots[s] # Empty => s = t
    BY <1>5 DEF Placed
  <1>7. ASSUME NEW d \in N
        PROVE  \E k \in 0..cap - 1 : /\ slots[(Fnv[E[d]] + k) % cap] = EntryOf(E, d)
                                     /\ TakenFrom(slots, cap, Fnv[E[d]], k)
    <2>1. PICK k \in 0..cap - 1 : /\ slots[(Fnv[D[d]] + k) % cap] = EntryOf(D, d)
                                  /\ TakenFrom(slots, cap, Fnv[D[d]], k)
      BY DEF Placed
    <2>2. E[d] = D[d] /\ EntryOf(E, d) = EntryOf(D, d)
      BY <1>3, <1>4
    <2> QED
      BY <2>1, <2>2, Zenon
  <1>8. Placed(slots, cap, E, N)
    BY <1>1, <1>2, <1>3, <1>6, <1>7, Zenon DEF Placed
  <1> QED
    BY <1>8 DEF E

\* Where a search for a value stops.
StopsAt(table, value, k) ==
    \/ table.slots[(Fnv[value] + k) % table.cap].hash = 0
    \/ /\ table.slots[(Fnv[value] + k) % table.cap].hash = Fnv[value]
       /\ table.slots[(Fnv[value] + k) % table.cap].value = value

\* A search that ends at the first slot to stop at.
LEMMA ProbeIs ==
    ASSUME NEW D, NEW N, NEW t, Placed(t.slots, t.cap, D, N), Len(D) < t.cap,
           NEW v \in DOMAIN Fnv
    PROVE  \E k \in 0..t.cap - 1 : /\ ProbeEnd(t, v) = (Fnv[v] + k) % t.cap
                                   /\ StopsAt(t, v, k) /\ \A j \in 0..k - 1 : ~ StopsAt(t, v, j)
  <1>0. D \in Seq(DOMAIN Fnv) /\ t.cap \in Nat \ {0} /\ Len(D) \in Nat /\ Fnv[v] \in Nat
    BY DictionaryAssumption DEF Placed
  <1>1. PICK k0 \in 0..t.cap - 1 : t.slots[(Fnv[v] + k0) % t.cap].hash = 0
    <2> DEFINE h == Fnv[v]
               cap == t.cap
               slots == t.slots
    <2>1. h \in Nat /\ Placed(slots, cap, D, N) /\ Len(D) < cap
      BY <1>0
    <2> HIDE DEF h, cap, slots
    <2>2. \E k \in 0..cap - 1 : slots[(h + k) % cap].hash = 0 /\ TakenFrom(slots, cap, h, k)
      BY <2>1, FreePlace
    <2> QED
      BY <2>2 DEF h, cap, slots
  <1> DEFINE S == {k \in 0..t.cap - 1 : StopsAt(t, v, k)}
  <1>2. k0 \in S /\ S \in SUBSET Nat
    BY <1>0, <1>1 DEF StopsAt
  <1>3. PICK k1 \in S : \A m \in S : k1 <= m
    <2> HIDE DEF S
    <2> QED
      BY <1>2, Least
  <1>4. ASSUME NEW j \in 0..k1 - 1 PROVE ~ StopsAt(t, v, j)
    <2>1. j \in 0..t.cap - 1 /\ ~ (k1 <= j)
      BY <1>0, <1>3
    <2> QED
      BY <1>3, <2>1
  <1> DEFINE P(k) == StopsAt(t, v, k) /\ \A j \in 0..k - 1 : ~ StopsAt(t, v, j)
             first == CHOOSE k \in 0..t.cap - 1 : P(k)
  <1>5. \E k \in 0..t.cap - 1 : P(k)
    BY <1>3, <1>4
  <1>6. first \in 0..t.cap - 1 /\ P(first)
    <2> HIDE DEF P
    <2> QED
      BY <1>5, Zenon
  <1>7. ProbeEnd(t, v) = (Fnv[v] + first) % t.cap
    BY DEF ProbeEnd, StopsAt
  <1> QED
    BY <1>6, <1>7, Zenon

\* A search ends at the entry of its value, or at a free slot when the
\* dictionary has no such value.
LEMMA Searched ==
    ASSUME NEW D, NEW t, Placed(t.slots, t.cap, D, 1..Len(D)), Len(D) < t.cap,
           NEW v \in DOMAIN Fnv
    PROVE  \/ \E d \in 1..Len(D) : t.slots[ProbeEnd(t, v)] = EntryOf(D, d) /\ D[d] = v
           \/ /\ \A d \in 1..Len(D) : D[d] # v
              /\ \E k \in 0..t.cap - 1 :
                    /\ ProbeEnd(t, v) = (Fnv[v] + k) % t.cap
                    /\ t.slots[ProbeEnd(t, v)].hash = 0 /\ TakenFrom(t.slots, t.cap, Fnv[v], k)
  <1>0. D \in Seq(DOMAIN Fnv) /\ t.cap \in Nat \ {0} /\ Len(D) \in Nat /\ Fnv[v] \in Nat
    BY DictionaryAssumption DEF Placed
  <1>1. PICK k \in 0..t.cap - 1 : /\ ProbeEnd(t, v) = (Fnv[v] + k) % t.cap
                                  /\ StopsAt(t, v, k) /\ \A j \in 0..k - 1 : ~ StopsAt(t, v, j)
    BY ProbeIs
  <1> DEFINE at == (Fnv[v] + k) % t.cap
  <1>2. at \in 0..t.cap - 1
    <2> DEFINE a == Fnv[v] + k
    <2>1. a \in Int
      BY <1>0
    <2> HIDE DEF a
    <2>2. a % t.cap \in 0..t.cap - 1
      BY <1>0, <2>1, DivMod
    <2> QED
      BY <2>2 DEF a
  <1>3. TakenFrom(t.slots, t.cap, Fnv[v], k)
    BY <1>1 DEF TakenFrom, StopsAt
  <1>4. \/ t.slots[at] = Empty /\ t.slots[at].hash = 0
        \/ \E d \in 1..Len(D) : t.slots[at] = EntryOf(D, d) /\ t.slots[at].hash # 0
    <2> HIDE DEF at
    <2> QED
      BY <1>2, SlotIs
  <1>5. CASE t.slots[at].hash = 0
    <2>1. ASSUME NEW d \in 1..Len(D), D[d] = v PROVE FALSE
      <3>1. PICK j \in 0..t.cap - 1 : /\ t.slots[(Fnv[v] + j) % t.cap] = EntryOf(D, d)
                                      /\ TakenFrom(t.slots, t.cap, Fnv[v], j)
        BY <2>1 DEF Placed
      <3>2. EntryOf(D, d).hash = Fnv[v] /\ EntryOf(D, d).value = v /\ Fnv[v] # 0
        BY <1>0, <2>1, EntryIs
      <3>3. StopsAt(t, v, j)
        BY <3>1, <3>2 DEF StopsAt
      <3>4. ~ (j < k)
        BY <1>0, <1>1, <3>3
      <3>5. ~ (k < j)
        <4>1. SUFFICES ASSUME k < j PROVE FALSE
          OBVIOUS
        <4>2. k \in 0..j - 1
          BY <1>0, <4>1
        <4> QED
          BY <1>5, <3>1, <4>2 DEF TakenFrom
      <3>6. j = k
        BY <1>0, <3>4, <3>5
      <3> QED
        BY <1>5, <3>1, <3>2, <3>6
    <2> QED
      BY <1>1, <1>3, <1>5, <2>1
  <1>6. CASE t.slots[at].hash # 0
    <2>1. PICK d \in 1..Len(D) : t.slots[at] = EntryOf(D, d)
      BY <1>4, <1>6
    <2>2. t.slots[at].value = v
      BY <1>1, <1>6 DEF StopsAt
    <2>3. EntryOf(D, d).value = D[d]
      BY <1>0, EntryIs
    <2> QED
      BY <1>1, <2>1, <2>2, <2>3
  <1> QED
    BY <1>5, <1>6

\* A slot's place in a table no equal value is in is the first free one.
LEMMA FreeSlotIs ==
    ASSUME NEW D, NEW N, NEW cap, NEW slots, Placed(slots, cap, D, N), Len(D) < cap,
           NEW h \in Nat
    PROVE  \E k \in 0..cap - 1 : /\ FreeSlot(slots, cap, h) = (h + k) % cap
                                 /\ slots[(h + k) % cap].hash = 0 /\ TakenFrom(slots, cap, h, k)
  <1> DEFINE P(k) == /\ slots[(h + k) % cap].hash = 0
                     /\ \A j \in 0..k - 1 : slots[(h + j) % cap].hash # 0
             first == CHOOSE k \in 0..cap - 1 : P(k)
  <1>1. \E k \in 0..cap - 1 : P(k)
    <2>1. PICK k \in 0..cap - 1 : slots[(h + k) % cap].hash = 0 /\ TakenFrom(slots, cap, h, k)
      BY FreePlace
    <2>2. P(k)
      BY <2>1 DEF TakenFrom
    <2> QED
      BY <2>2, Zenon
  <1>2. first \in 0..cap - 1 /\ P(first)
    <2> HIDE DEF P
    <2> QED
      BY <1>1, Zenon
  <1>3. FreeSlot(slots, cap, h) = (h + first) % cap
    BY Zenon DEF FreeSlot
  <1>4. slots[(h + first) % cap].hash = 0 /\ TakenFrom(slots, cap, h, first)
    BY <1>2, Zenon DEF TakenFrom
  <1> QED
    BY <1>2, <1>3, <1>4, Zenon

\* Twice the slots hold the same values.
Slots == [hash : Nat, idx : Nat, value : DOMAIN Fnv \cup {<<>>}]
Tables == [cap : Nat, used : Nat, slots : UNION {[0..c - 1 -> Slots] : c \in Nat}]

\* A doubled table holds what the table held.
LEMMA RehashKeeps ==
    ASSUME NEW D, NEW t \in Tables, Placed(t.slots, t.cap, D, 1..Len(D)), Len(D) < 2 * t.cap
    PROVE  /\ Rehash(t) = [cap |-> 2 * t.cap, used |-> t.used, slots |-> Rehash(t).slots]
           /\ Placed(Rehash(t).slots, 2 * t.cap, D, 1..Len(D))
  <1> DEFINE n == t.cap
             cap == 2 * t.cap
             slots == t.slots
             A == {Empty} \cup {EntryOf(D, d) : d \in 1..Len(D)}
             T == [0..cap - 1 -> A]
             first == NewTable(cap).slots
             Move(m, slot) == IF slot.hash = 0 THEN m
                              ELSE [m EXCEPT ![FreeSlot(m, cap, slot.hash)] = slot]
             Def(f) == f = [j \in 0..n |->
                              IF j = 0 THEN first
                              ELSE LET slot == slots[j - 1]
                                   IN  IF slot.hash = 0 THEN f[j - 1]
                                       ELSE [f[j - 1] EXCEPT ![FreeSlot(f[j - 1], cap, slot.hash)] = slot]]
             g == [p \in (1..n) \X T |-> Move(p[2], slots[p[1] - 1])]
             h == CHOOSE f : Def(f)
             N(j) == {d \in 1..Len(D) : \E s \in 0..j - 1 : slots[s] = EntryOf(D, d)}
  <1>0. D \in Seq(DOMAIN Fnv) /\ n \in Nat \ {0} /\ cap \in Nat \ {0} /\ Len(D) \in Nat
        /\ slots \in [0..n - 1 -> A] /\ Len(D) < cap
    BY DEF Placed
  <1>1. first = [s \in 0..cap - 1 |-> Empty] /\ first \in T
    BY DEF NewTable
  <1>2. ASSUME NEW i \in 1..n, NEW m \in T PROVE Move(m, slots[i - 1]) \in T
    <2>1. i - 1 \in 0..n - 1
      BY <1>0
    <2>2. slots[i - 1] \in A
      BY <1>0, <2>1
    <2> HIDE DEF A, cap, slots, n
    <2> QED
      BY <2>2
  <1>3. g \in [(1..n) \X T -> T]
    <2> HIDE DEF Move, T
    <2> QED
      BY <1>2
  <1>4. \A i \in 1..n, m \in T : g[<<i, m>>] = Move(m, slots[i - 1])
    <2> HIDE DEF T, Move
    <2> QED
      OBVIOUS
  <1>5. Rehash(t) = [cap |-> cap, used |-> t.used, slots |-> h[n]]
    <2>1. Rehash(t) = [t EXCEPT !.cap = cap, !.slots = h[n]]
      BY Zenon DEF Rehash
    <2>2. t = [cap |-> t.cap, used |-> t.used, slots |-> t.slots]
      BY DEF Tables
    <2> HIDE DEF cap, h, n
    <2> QED
      BY <2>1, <2>2
  <1> HIDE DEF g
  <1>6. PICK f : f \in [0..n -> T] /\ Stepped(f, n, first, g)
    <2> HIDE DEF T, first, n
    <2> QED
      BY <1>0, <1>1, <1>3, StepFunction
  <1>7. f[0] = first /\ \A i \in 1..n : f[i] = Move(f[i - 1], slots[i - 1])
    <2>1. f[0] = first /\ \A i \in 1..n : f[i] = g[<<i, f[i - 1]>>] /\ f[i - 1] \in T
      <3> HIDE DEF T, first, n
      <3> QED
        BY <1>0, <1>6, StepsRead
    <2> HIDE DEF T, first, n, Move, slots
    <2> QED
      BY <1>4, <2>1
  <1>8. Def(f)
    <2> DEFINE F(j) == IF j = 0 THEN first
                       ELSE LET slot == slots[j - 1]
                            IN  IF slot.hash = 0 THEN f[j - 1]
                                ELSE [f[j - 1] EXCEPT ![FreeSlot(f[j - 1], cap, slot.hash)] = slot]
    <2>1. \A j \in 0..n : f[j] = F(j)
      <3>1. \A j \in 0..n : j = 0 \/ j \in 1..n
        BY <1>0
      <3>2. \A j \in 1..n : j # 0
        BY <1>0
      <3> HIDE DEF first, n, slots, cap
      <3> QED
        BY <1>7, <3>1, <3>2, Zenon
    <2>2. f = [j \in 0..n |-> f[j]]
      BY <1>6
    <2>3. [j \in 0..n |-> f[j]] = [j \in 0..n |-> F(j)]
      <3> HIDE DEF F
      <3> QED
        BY <2>1, Zenon
    <2> QED
      BY <2>2, <2>3, Zenon
  <1>9. Def(h)
    <2> HIDE DEF Def
    <2> QED
      BY <1>8, Zenon
  <1> HIDE DEF h
  <1>10. h[0] = first /\ \A i \in 0..n - 1 : h[i + 1] = Move(h[i], slots[i])
    <2>1. h[0] = first
      BY <1>0, <1>9
    <2>2. ASSUME NEW i \in 0..n - 1 PROVE h[i + 1] = Move(h[i], slots[i])
      <3>1. i + 1 \in 0..n /\ i + 1 # 0 /\ (i + 1) - 1 = i
        BY <1>0
      <3> DEFINE j == i + 1
      <3>2. h[j] = Move(h[j - 1], slots[j - 1])
        <4> HIDE DEF j, first, slots, cap, n
        <4> QED
          BY <1>9, <3>1, Zenon DEF j
      <3> QED
        BY <3>1, <3>2
    <2> QED
      BY <2>1, <2>2
  <1> HIDE DEF Move
  <1> DEFINE S == {j \in 0..n : Placed(h[j], cap, D, N(j))}
  <1>11. 0 \in S
    <2>1. N(0) = {}
      OBVIOUS
    <2>2. first \in [0..cap - 1 -> {Empty} \cup {EntryOf(D, d) : d \in {}}]
      BY <1>1
    <2>3. \A s \in 0..cap - 1 : first[s] = Empty
      BY <1>1
    <2> HIDE DEF first, cap, N
    <2>4. Placed(first, cap, D, {})
      BY <1>0, <2>2, <2>3 DEF Placed
    <2>5. Placed(h[0], cap, D, N(0))
      BY <1>10, <2>1, <2>4
    <2>6. 0 \in 0..n
      BY <1>0
    <2> QED
      BY <2>5, <2>6
  <1>12. ASSUME NEW i \in 0..n - 1, i \in S PROVE i + 1 \in S
    <2> DEFINE slot == slots[i]
    <2>0. /\ Placed(h[i], cap, D, N(i)) /\ i + 1 \in 0..n
          /\ \A s \in 0..i - 1 : s \in 0..n - 1 /\ s # i
          /\ \A s \in 0..(i + 1) - 1 : s = i \/ s \in 0..i - 1
          /\ \A s \in 0..i - 1 : s \in 0..(i + 1) - 1
          /\ i \in 0..(i + 1) - 1
      BY <1>0, <1>12
    <2>1. \/ slots[i] = Empty /\ slots[i].hash = 0
          \/ \E d \in 1..Len(D) : slots[i] = EntryOf(D, d) /\ slots[i].hash # 0
      BY SlotIs
    <2>2. CASE slots[i].hash = 0
      <3>1. slots[i] = Empty
        BY <2>1, <2>2
      <3>2. \A d \in 1..Len(D) : slots[i] # EntryOf(D, d)
        BY <1>0, <3>1, EntryIs
      <3>3. N(i + 1) = N(i)
        BY <2>0, <3>2
      <3>4. h[i + 1] = h[i]
        BY <1>10, <2>2 DEF Move
      <3> QED
        BY <2>0, <3>3, <3>4
    <2>3. CASE slots[i].hash # 0
      <3>1. PICK d \in 1..Len(D) : slots[i] = EntryOf(D, d)
        BY <2>1, <2>3
      <3>2. EntryOf(D, d).hash = Fnv[D[d]] /\ EntryOf(D, d).idx = d - 1 /\ Fnv[D[d]] \in Nat
            /\ EntryOf(D, d) # Empty
        BY <1>0, EntryIs
      <3>3. ASSUME NEW s \in 0..i - 1, slots[s] = EntryOf(D, d) PROVE FALSE
        BY <2>0, <3>1, <3>2, <3>3 DEF Placed
      <3>4. d \in (1..Len(D)) \ N(i)
        BY <3>3
      <3>5. ASSUME NEW e \in 1..Len(D), EntryOf(D, e) = EntryOf(D, d) PROVE e = d
        <4>1. EntryOf(D, e).idx = e - 1
          BY <1>0, EntryIs
        <4> QED
          BY <1>0, <3>2, <3>5, <4>1
      <3>6. N(i + 1) = N(i) \cup {d}
        BY <2>0, <3>1, <3>5
      <3>7. h[i + 1] = [h[i] EXCEPT ![FreeSlot(h[i], cap, Fnv[D[d]])] = EntryOf(D, d)]
        BY <1>10, <2>3, <3>1, <3>2 DEF Move
      <3> HIDE DEF N, cap, slots
      <3>8. PICK k \in 0..cap - 1 :
               /\ FreeSlot(h[i], cap, Fnv[D[d]]) = (Fnv[D[d]] + k) % cap
               /\ h[i][(Fnv[D[d]] + k) % cap].hash = 0 /\ TakenFrom(h[i], cap, Fnv[D[d]], k)
        BY <1>0, <2>0, <3>2, FreeSlotIs
      <3> DEFINE m == h[i]
                 M == N(i)
      <3>9. Placed(m, cap, D, M) /\ d \in (1..Len(D)) \ M
            /\ m[(Fnv[D[d]] + k) % cap].hash = 0 /\ TakenFrom(m, cap, Fnv[D[d]], k)
        BY <2>0, <3>4, <3>8
      <3> HIDE DEF m, M
      <3>10. Placed([m EXCEPT ![(Fnv[D[d]] + k) % cap] = EntryOf(D, d)], cap, D, M \cup {d})
        BY <3>9, PlaceOne
      <3>11. Placed(h[i + 1], cap, D, N(i + 1))
        BY <3>6, <3>7, <3>8, <3>10 DEF m, M
      <3> QED
        BY <2>0, <3>11
    <2> QED
      BY <2>2, <2>3
  <1>13. n \in S
    <2> HIDE DEF S
    <2>1. n \in Nat /\ n \in 0..n
      BY <1>0
    <2>2. \A i \in 0..n : i \in S
      BY <1>11, <1>12, <2>1, InductTo
    <2> QED
      BY <2>1, <2>2
  <1>14. N(n) = 1..Len(D)
    <2>1. ASSUME NEW d \in 1..Len(D) PROVE d \in N(n)
      <3>1. PICK k \in 0..n - 1 : slots[(Fnv[D[d]] + k) % n] = EntryOf(D, d)
        BY DEF Placed
      <3> DEFINE a == Fnv[D[d]] + k
      <3>2. a \in Int
        BY <1>0, EntryIs
      <3>3. slots[a % n] = EntryOf(D, d)
        BY <3>1
      <3> HIDE DEF a, slots
      <3>4. a % n \in 0..n - 1
        BY <1>0, <3>2, DivMod
      <3> QED
        BY <3>3, <3>4
    <2> QED
      BY <2>1
  <1>15. Placed(h[n], cap, D, 1..Len(D))
    BY <1>13, <1>14
  <1> QED
    BY <1>5, <1>15

States == [table : Tables, dict : Seq(DOMAIN Fnv), dict_cap : Nat, indices : Seq(Nat)]

\* What every row leaves: each value once, and found.
Sound(st) ==
    /\ st.table.used = Len(st.dict) /\ Len(st.dict) < st.table.cap
    /\ Placed(st.table.slots, st.table.cap, st.dict, 1..Len(st.dict))
    /\ \A d, e \in 1..Len(st.dict) : st.dict[d] = st.dict[e] => d = e

\* What a table's slots are.
LEMMA PlacedType ==
    ASSUME NEW D, NEW N, NEW cap, NEW slots, Placed(slots, cap, D, N)
    PROVE  slots \in UNION {[0..c - 1 -> Slots] : c \in Nat}
  <1>1. D \in Seq(DOMAIN Fnv) /\ N \in SUBSET (1..Len(D)) /\ cap \in Nat
        /\ slots \in [0..cap - 1 -> {Empty} \cup {EntryOf(D, d) : d \in N}]
    BY DEF Placed
  <1>2. Empty \in Slots
    BY DEF Empty, Slots
  <1>3. ASSUME NEW d \in N PROVE EntryOf(D, d) \in Slots
    <2>1. d \in 1..Len(D)
      BY <1>1
    <2>2. Fnv[D[d]] \in Nat /\ D[d] \in DOMAIN Fnv /\ d - 1 \in Nat
      BY <1>1, <2>1, EntryIs
    <2> QED
      BY <2>2 DEF EntryOf, Slots
  <1>4. slots \in [0..cap - 1 -> Slots]
    <2> DEFINE A == {EntryOf(D, d) : d \in N}
    <2>1. A \subseteq Slots /\ slots \in [0..cap - 1 -> {Empty} \cup A]
      BY <1>1, <1>3
    <2> HIDE DEF A
    <2> QED
      BY <1>2, <2>1
  <1> QED
    BY <1>1, <1>4

\* One row: its value's index, old or new, and nothing the rows before
\* it left is lost.
LEMMA InsertKeeps ==
    ASSUME NEW st \in States, Sound(st), NEW v \in DOMAIN Fnv
    PROVE  /\ Insert(st, v) \in States /\ Sound(Insert(st, v))
           /\ Len(Insert(st, v).dict) >= Len(st.dict)
           /\ \A d \in 1..Len(st.dict) : Insert(st, v).dict[d] = st.dict[d]
           /\ Insert(st, v).dict = st.dict \/ Insert(st, v).dict = Append(st.dict, v)
           /\ \E x \in 0..Len(Insert(st, v).dict) - 1 :
                /\ Insert(st, v).indices = Append(st.indices, x)
                /\ Insert(st, v).dict[x + 1] = v
  <1> DEFINE t == st.table
             D == st.dict
             n == Len(D)
             slot == ProbeEnd(t, v)
             entry == [hash |-> Fnv[v], idx |-> n, value |-> v]
             put == [t EXCEPT !.used = @ + 1, !.slots[slot] = entry]
             E == Append(D, v)
             I == Insert(st, v)
  <1>1. /\ t \in Tables /\ D \in Seq(DOMAIN Fnv) /\ n \in Nat
        /\ st.dict_cap \in Nat /\ st.indices \in Seq(Nat)
        /\ st = [table |-> t, dict |-> D, dict_cap |-> st.dict_cap, indices |-> st.indices]
        /\ t.used = n /\ n < t.cap /\ Placed(t.slots, t.cap, D, 1..n)
        /\ \A d, e \in 1..n : D[d] = D[e] => d = e
    BY DEF States, Sound
  <1>2. /\ t = [cap |-> t.cap, used |-> n, slots |-> t.slots] /\ t.cap \in Nat
    BY <1>1 DEF Tables
  <1>3. \/ \E d \in 1..n : t.slots[slot] = EntryOf(D, d) /\ D[d] = v
        \/ /\ \A d \in 1..n : D[d] # v
           /\ \E k \in 0..t.cap - 1 :
                 /\ slot = (Fnv[v] + k) % t.cap
                 /\ t.slots[slot].hash = 0 /\ TakenFrom(t.slots, t.cap, Fnv[v], k)
    <2> HIDE DEF t, D
    <2> QED
      BY <1>1, Searched
  <1>4. CASE \E d \in 1..n : t.slots[slot] = EntryOf(D, d) /\ D[d] = v
    <2>1. PICK d \in 1..n : t.slots[slot] = EntryOf(D, d) /\ D[d] = v
      BY <1>4
    <2>2. EntryOf(D, d).hash # 0 /\ EntryOf(D, d).idx = d - 1
      BY <1>1, EntryIs
    <2>3. I = [st EXCEPT !.indices = Append(@, d - 1)]
      <3> HIDE DEF t, D
      <3>1. t.slots[slot].hash # 0 /\ t.slots[slot].idx = d - 1
        BY <2>1, <2>2
      <3> QED
        BY <3>1 DEF Insert, t
    <2>4. I = [table |-> t, dict |-> D, dict_cap |-> st.dict_cap,
               indices |-> Append(st.indices, d - 1)]
      BY <1>1, <2>3
    <2>5. d - 1 \in Nat /\ d - 1 \in 0..n - 1 /\ (d - 1) + 1 = d
      BY <1>1
    <2> HIDE DEF t, D, n, slot, entry, put, E, I
    <2>6. /\ I.table = t /\ I.dict = D /\ I.indices = Append(st.indices, d - 1)
          /\ I \in States
      BY <1>1, <2>4, <2>5 DEF States
    <2>7. Sound(I)
      BY <1>1, <2>6, Zenon DEF Sound, n
    <2>8. Len(I.dict) >= Len(st.dict) /\ \A e \in 1..Len(st.dict) : I.dict[e] = st.dict[e]
      BY <1>1, <2>6 DEF D, n
    <2>9. d - 1 \in 0..Len(I.dict) - 1 /\ I.dict[(d - 1) + 1] = v
      BY <2>1, <2>5, <2>6 DEF n
    <2>10. I.dict = st.dict
      BY <2>6 DEF D
    <2> QED
      BY <2>6, <2>7, <2>8, <2>9, <2>10 DEF I
  <1>5. CASE /\ \A d \in 1..n : D[d] # v
             /\ \E k \in 0..t.cap - 1 :
                 /\ slot = (Fnv[v] + k) % t.cap
                 /\ t.slots[slot].hash = 0 /\ TakenFrom(t.slots, t.cap, Fnv[v], k)
    <2>1. PICK k \in 0..t.cap - 1 :
             /\ slot = (Fnv[v] + k) % t.cap
             /\ t.slots[slot].hash = 0 /\ TakenFrom(t.slots, t.cap, Fnv[v], k)
      BY <1>5
    <2>2. /\ E \in Seq(DOMAIN Fnv) /\ Len(E) = n + 1 /\ E[n + 1] = v
          /\ \A d \in 1..n : E[d] = D[d]
      BY <1>1
    <2>3. EntryOf(E, n + 1) = entry
      <3>1. (n + 1) - 1 = n
        BY <1>1
      <3> QED
        BY <2>2, <3>1 DEF EntryOf
    <2> DEFINE slots == [t.slots EXCEPT ![slot] = entry]
    <2>4. Placed(slots, t.cap, E, 1..n + 1)
      <3> DEFINE cap == t.cap
                 old == t.slots
                 N == 1..n
                 d == n + 1
      <3>1. Placed(old, cap, E, N)
        <4> HIDE DEF t, D
        <4> QED
          BY <1>1, PlacedFurther
      <3>2. d \in (1..Len(E)) \ N /\ k \in 0..cap - 1 /\ E[d] = v
        BY <1>1, <2>1, <2>2
      <3>3. old[(Fnv[v] + k) % cap].hash = 0 /\ TakenFrom(old, cap, Fnv[v], k)
        BY <2>1
      <3>4. N \cup {d} = 1..n + 1
        BY <1>1
      <3>5. slots = [old EXCEPT ![(Fnv[v] + k) % cap] = EntryOf(E, d)]
        BY <2>1, <2>3
      <3> HIDE DEF t, D, E, n, slot, entry, put, slots, cap, old, N, d
      <3>6. Placed([old EXCEPT ![(Fnv[E[d]] + k) % cap] = EntryOf(E, d)], cap, E, N \cup {d})
        BY <3>1, <3>2, <3>3, PlaceOne
      <3> QED
        BY <3>2, <3>4, <3>5, <3>6 DEF cap
    <2>5. put = [cap |-> t.cap, used |-> n + 1, slots |-> slots]
      <3> HIDE DEF t, entry, slot, n
      <3> DEFINE t1 == [t EXCEPT !.used = @ + 1]
      <3>1. put = [t1 EXCEPT !.slots = [t1.slots EXCEPT ![slot] = entry]]
        OBVIOUS
      <3>2. t1 = [cap |-> t.cap, used |-> n + 1, slots |-> t.slots]
        BY <1>2
      <3> HIDE DEF t1, put
      <3> QED
        BY <3>1, <3>2 DEF slots
    <2> HIDE DEF slots
    <2>6. put \in Tables /\ put.cap = t.cap /\ put.used = n + 1 /\ put.slots = slots
      <3>1. slots \in UNION {[0..c - 1 -> Slots] : c \in Nat}
        BY <2>4, PlacedType
      <3> HIDE DEF put, t, n
      <3> QED
        BY <1>1, <1>2, <2>5, <3>1 DEF Tables
    <2> DEFINE full == put.used >= (put.cap * 7) \div 10
               table == IF full THEN Rehash(put) ELSE put
               grown == IF n = st.dict_cap THEN 2 * st.dict_cap ELSE st.dict_cap
    <2>7. /\ table \in Tables /\ table.used = n + 1 /\ n + 1 < table.cap
          /\ Placed(table.slots, table.cap, E, 1..n + 1)
      <3>1. CASE full
        <4> DEFINE r == Rehash(put)
        <4> HIDE DEF put, t, n, E
        <4>1. Placed(put.slots, put.cap, E, 1..Len(E)) /\ Len(E) < 2 * put.cap
          BY <1>1, <1>2, <2>2, <2>4, <2>6
        <4>2. /\ r = [cap |-> 2 * put.cap, used |-> put.used, slots |-> r.slots]
              /\ Placed(r.slots, 2 * put.cap, E, 1..Len(E))
          BY <2>6, <4>1, RehashKeeps
        <4> HIDE DEF r
        <4>3. r.slots \in UNION {[0..c - 1 -> Slots] : c \in Nat}
          BY <4>2, PlacedType
        <4>4. 2 * put.cap \in Nat /\ put.used \in Nat
          BY <1>1, <1>2, <2>6
        <4>5. r.cap = 2 * put.cap /\ r.used = put.used
          BY <4>2
        <4>6. r \in Tables
          BY <4>2, <4>3, <4>4 DEF Tables
        <4>7. n + 1 < 2 * put.cap
          BY <2>2, <4>1
        <4>8. table = r
          BY <3>1 DEF r
        <4> HIDE DEF table, full
        <4> QED
          BY <2>2, <2>6, <4>2, <4>5, <4>6, <4>7, <4>8
      <3>2. CASE ~ full
        <4>1. table = put
          BY <3>2
        <4>2. n + 1 < (t.cap * 7) \div 10 /\ t.cap \in Nat /\ n \in Nat
          <5> HIDE DEF put, t, n
          <5>1. n \in Nat /\ t.cap \in Nat
            BY <1>1, <1>2
          <5> DEFINE q == (t.cap * 7) \div 10
          <5>2. ~ (n + 1 >= q)
            BY <2>6, <3>2
          <5>3. q \in Int
            BY <5>1
          <5> HIDE DEF q
          <5>4. n + 1 < q
            BY <5>1, <5>2, <5>3
          <5> QED
            BY <5>1, <5>4 DEF q
        <4> HIDE DEF table, full, put, t, n
        <4>3. n + 1 < t.cap
          <5> DEFINE c == t.cap
          <5> HIDE DEF c
          <5>1. c \in Nat /\ n \in Nat /\ n + 1 < (c * 7) \div 10
            BY <4>2 DEF c
          <5>2. n + 1 < c
            BY <5>1
          <5> QED
            BY <5>2 DEF c
        <4> QED
          BY <2>4, <2>6, <4>1, <4>3
      <3> QED
        BY <3>1, <3>2
    <2> HIDE DEF table
    <2>8. I = [table |-> table, dict |-> E, dict_cap |-> grown, indices |-> Append(st.indices, n)]
      <3>1. t.slots[slot].hash = 0
        BY <2>1
      <3> QED
        BY <3>1, Zenon DEF Insert, table
    <2>9. grown \in Nat
      BY <1>1
    <2> HIDE DEF I, E, grown, n, D, t
    <2>10. /\ I.table = table /\ I.dict = E /\ I.indices = Append(st.indices, n)
           /\ I \in States
      BY <1>1, <2>2, <2>7, <2>8, <2>9 DEF States
    <2>11. Sound(I)
      <3>1. ASSUME NEW d \in 1..n + 1, NEW e \in 1..n + 1, E[d] = E[e] PROVE d = e
        <4>1. (d \in 1..n \/ d = n + 1) /\ (e \in 1..n \/ e = n + 1)
          BY <1>1
        <4>2. (\A a \in 1..n : D[a] # v) /\ (\A a, b \in 1..n : D[a] = D[b] => a = b)
          BY <1>1, <1>5
        <4> QED
          BY <2>2, <3>1, <4>1, <4>2
      <3> QED
        BY <2>2, <2>7, <2>10, <3>1 DEF Sound
    <2>12. /\ Len(I.dict) >= Len(st.dict) /\ \A e \in 1..Len(st.dict) : I.dict[e] = st.dict[e]
           /\ n \in 0..Len(I.dict) - 1 /\ I.dict[n + 1] = v
      BY <1>1, <2>2, <2>10 DEF D, n
    <2>13. I.dict = Append(st.dict, v)
      BY <2>10 DEF E, D
    <2> QED
      BY <2>10, <2>11, <2>12, <2>13 DEF I
  <1> QED
    BY <1>3, <1>4, <1>5

\* Every value once, each of some row, and every row's index that of its value.
Built(b, rows) ==
    /\ b.dict \in Seq(DOMAIN Fnv) /\ b.indices \in Seq(Nat) /\ Len(b.indices) = Len(rows)
    /\ \A d, e \in 1..Len(b.dict) : b.dict[d] = b.dict[e] => d = e
    /\ \A d \in 1..Len(b.dict) : \E i \in 1..Len(rows) : b.dict[d] = rows[i]
    /\ \A i \in 1..Len(rows) : /\ b.indices[i] < Len(b.dict)
                               /\ b.dict[b.indices[i] + 1] = rows[i]

\* The dictionary of any rows holds each value once and finds each row.
LEMMA BuildIs ==
    ASSUME NEW rows \in Seq(DOMAIN Fnv)
    PROVE  Built(Build(rows), rows)
  <1> DEFINE n == Len(rows)
             T == {st \in States : Sound(st)}
             table == NewTable(FirstCap)
             first == [table |-> table, dict |-> <<>>,
                       dict_cap |-> FirstEntries, indices |-> <<>>]
             Def(f) == f = [i \in 0..n |-> IF i = 0 THEN first ELSE Insert(f[i - 1], rows[i])]
             g == [p \in (1..n) \X T |-> Insert(p[2], rows[p[1]])]
             h == CHOOSE f : Def(f)
  <1>0. n \in Nat /\ \A i \in 1..n : rows[i] \in DOMAIN Fnv
    OBVIOUS
  <1>1. first \in T
    <2>1. FirstCap \in Nat \ {0}
      <3>1. PICK k \in 1..16 : FirstCap = 2^k
        BY DictionaryAssumption
      <3>2. k \in Nat /\ 0 \in Nat /\ 0 <= k /\ 2^0 = 1
        BY PowerZero
      <3>3. 2^k \in Nat
        BY <3>2, PowerIs
      <3>4. 2^0 <= 2^k
        BY <3>2, PowerGrows
      <3> DEFINE p == 2^k
      <3>5. p \in Nat /\ 1 <= p /\ FirstCap = p
        BY <3>1, <3>2, <3>3, <3>4
      <3> HIDE DEF p
      <3> QED
        BY <3>5
    <2>2. /\ table = [cap |-> FirstCap, used |-> 0, slots |-> [s \in 0..FirstCap - 1 |-> Empty]]
          /\ Empty \in Slots
      BY DEF NewTable, Empty, Slots
    <2>3. [s \in 0..FirstCap - 1 |-> Empty] \in [0..FirstCap - 1 -> Slots]
      BY <2>2
    <2>4. table \in Tables /\ table.cap = FirstCap /\ table.used = 0
          /\ table.slots = [s \in 0..FirstCap - 1 |-> Empty]
      BY <2>1, <2>2, <2>3 DEF Tables
    <2> HIDE DEF table
    <2>5. first \in States
      <3>1. FirstEntries \in Nat /\ <<>> \in Seq(DOMAIN Fnv) /\ <<>> \in Seq(Nat)
        BY DictionaryAssumption
      <3>2. first \in [table : Tables, dict : Seq(DOMAIN Fnv), dict_cap : Nat, indices : Seq(Nat)]
        BY <2>4, <3>1
      <3> QED
        BY <3>2, Zenon DEF States
    <2>6. Placed(table.slots, table.cap, <<>>, {})
      <3>1. {EntryOf(<<>>, d) : d \in {}} = {}
        OBVIOUS
      <3>2. \A s \in 0..FirstCap - 1 : table.slots[s] = Empty
        BY <2>4
      <3>3. table.slots \in [0..FirstCap - 1 -> {Empty} \cup {EntryOf(<<>>, d) : d \in {}}]
        BY <2>4
      <3>4. <<>> \in Seq(DOMAIN Fnv) /\ {} \in SUBSET (1..Len(<<>>))
        OBVIOUS
      <3>5. \A s, t \in 0..FirstCap - 1 :
               table.slots[s] = table.slots[t] /\ table.slots[s] # Empty => s = t
        BY <3>2
      <3>6. Placed(table.slots, FirstCap, <<>>, {})
        BY <2>1, <3>3, <3>4, <3>5, Zenon DEF Placed
      <3> QED
        BY <2>4, <3>6
    <2>7. 1..Len(<<>>) = {} /\ Len(<<>>) = 0
      OBVIOUS
    <2>8. Sound(first)
      <3>1. Placed(table.slots, table.cap, <<>>, 1..Len(<<>>))
        BY <2>6, <2>7
      <3>2. first.table = table /\ first.dict = <<>>
        OBVIOUS
      <3>3. \A d, e \in 1..Len(<<>>) : first.dict[d] = first.dict[e] => d = e
        BY <2>7
      <3>4. table.used = Len(<<>>) /\ Len(<<>>) < table.cap
        BY <2>1, <2>4, <2>7
      <3> HIDE DEF first
      <3>5. first.table.used = Len(first.dict) /\ Len(first.dict) < first.table.cap
        BY <3>2, <3>4
      <3>6. Placed(first.table.slots, first.table.cap, first.dict, 1..Len(first.dict))
        BY <3>1, <3>2
      <3>7. \A d, e \in 1..Len(first.dict) : first.dict[d] = first.dict[e] => d = e
        BY <3>2, <3>3
      <3> QED
        BY <3>5, <3>6, <3>7, Zenon DEF Sound
    <2> QED
      BY <2>5, <2>8
  <1> HIDE DEF first, n, table
  <1>2. ASSUME NEW i \in 1..n, NEW st \in T PROVE Insert(st, rows[i]) \in T
    BY <1>0, InsertKeeps
  <1>3. g \in [(1..n) \X T -> T] /\ \A i \in 1..n, st \in T : g[<<i, st>>] = Insert(st, rows[i])
    <2> HIDE DEF T
    <2> QED
      BY <1>2
  <1> HIDE DEF g
  <1>4. PICK f : f \in [0..n -> T] /\ Stepped(f, n, first, g)
    <2> HIDE DEF T
    <2> QED
      BY <1>0, <1>1, <1>3, StepFunction
  <1>5. /\ f[0] = first
        /\ \A i \in 1..n : f[i] = Insert(f[i - 1], rows[i]) /\ f[i - 1] \in T
    <2>1. f[0] = first /\ \A i \in 1..n : f[i] = g[<<i, f[i - 1]>>] /\ f[i - 1] \in T
      <3> HIDE DEF T
      <3> QED
        BY <1>0, <1>4, StepsRead
    <2> HIDE DEF T
    <2> QED
      BY <1>3, <2>1
  <1>6. Def(f)
    <2>1. \A i \in 0..n : f[i] = IF i = 0 THEN first ELSE Insert(f[i - 1], rows[i])
      <3>1. \A i \in 0..n : i = 0 \/ i \in 1..n
        BY <1>0
      <3>2. \A i \in 1..n : i # 0
        BY <1>0
      <3> QED
        BY <1>5, <3>1, <3>2, Zenon
    <2>2. f = [i \in 0..n |-> f[i]]
      BY <1>4
    <2>3. [i \in 0..n |-> f[i]]
            = [i \in 0..n |-> IF i = 0 THEN first ELSE Insert(f[i - 1], rows[i])]
      BY <2>1, Zenon
    <2> QED
      BY <2>2, <2>3, Zenon
  <1>7. Def(h)
    <2> HIDE DEF Def
    <2> QED
      BY <1>6, Zenon
  <1>8. Build(rows) = h[n]
    BY Zenon DEF Build, first, table, n
  <1> HIDE DEF h
  <1>9. h[0] = first /\ \A i \in 0..n - 1 : h[i + 1] = Insert(h[i], rows[i + 1])
    <2>1. h[0] = first
      BY <1>0, <1>7
    <2>2. ASSUME NEW i \in 0..n - 1 PROVE h[i + 1] = Insert(h[i], rows[i + 1])
      <3> DEFINE j == i + 1
      <3>1. j \in 0..n /\ j # 0 /\ j - 1 = i
        BY <1>0
      <3> HIDE DEF j
      <3>2. h[j] = Insert(h[j - 1], rows[j])
        BY <1>7, <3>1, Zenon
      <3> QED
        BY <3>1, <3>2 DEF j
    <2> QED
      BY <2>1, <2>2
  <1> HIDE DEF Def
  <1> DEFINE Found(i) == /\ h[i] \in States /\ Sound(h[i]) /\ Len(h[i].indices) = i
                         /\ \A k \in 1..i : /\ h[i].indices[k] < Len(h[i].dict)
                                            /\ h[i].dict[h[i].indices[k] + 1] = rows[k]
                         /\ \A d \in 1..Len(h[i].dict) : \E k \in 1..i : h[i].dict[d] = rows[k]
             S == {i \in 0..n : Found(i)}
  <1>10. 0 \in S
    <2>1. first.indices = <<>> /\ first.dict = <<>> /\ first \in T
      BY <1>1 DEF first
    <2>2. Found(0)
      BY <1>9, <2>1
    <2> HIDE DEF Found
    <2> QED
      BY <1>0, <2>2
  <1>11. ASSUME NEW i \in 0..n - 1, i \in S PROVE i + 1 \in S
    <2> DEFINE st == h[i]
               j == i + 1
               v == rows[j]
               I == Insert(st, v)
    <2>0. i \in Nat /\ j \in 0..n /\ j \in 1..n /\ h[j] = I /\ v \in DOMAIN Fnv
      BY <1>0, <1>9
    <2>1. st \in States /\ Sound(st) /\ Len(st.indices) = i
          /\ st.indices \in Seq(Nat) /\ st.dict \in Seq(DOMAIN Fnv)
      BY <1>11 DEF States
    <2>2. \A k \in 1..i : st.indices[k] < Len(st.dict) /\ st.dict[st.indices[k] + 1] = rows[k]
      BY <1>11
    <2> HIDE DEF st, j, v
    <2>3. /\ I \in States /\ Sound(I) /\ Len(I.dict) >= Len(st.dict)
          /\ \A d \in 1..Len(st.dict) : I.dict[d] = st.dict[d]
          /\ \E x \in 0..Len(I.dict) - 1 : I.indices = Append(st.indices, x) /\ I.dict[x + 1] = v
          /\ I.dict = st.dict \/ I.dict = Append(st.dict, v)
      BY <2>0, <2>1, InsertKeeps
    <2> HIDE DEF I
    <2>4. PICK x \in 0..Len(I.dict) - 1 : I.indices = Append(st.indices, x) /\ I.dict[x + 1] = v
      BY <2>3
    <2>5. Len(I.indices) = j /\ I.indices[j] = x /\ \A k \in 1..i : I.indices[k] = st.indices[k]
      BY <2>0, <2>1, <2>4 DEF j
    <2>6. Len(I.dict) \in Nat
      BY <2>3 DEF States
    <2>7. ASSUME NEW k \in 1..j
          PROVE  I.indices[k] < Len(I.dict) /\ I.dict[I.indices[k] + 1] = rows[k]
      <3>1. CASE k = j
        BY <2>4, <2>5, <2>6, <3>1 DEF v
      <3>2. CASE k # j
        <4> DEFINE a == st.indices[k]
        <4>1. k \in 1..i
          BY <2>0, <3>2 DEF j
        <4>2. I.indices[k] = a /\ a < Len(st.dict) /\ a \in Nat /\ st.dict[a + 1] = rows[k]
          BY <2>1, <2>2, <2>5, <4>1
        <4> HIDE DEF a
        <4>3. a + 1 \in 1..Len(st.dict) /\ a < Len(I.dict)
          BY <2>1, <2>3, <2>6, <4>2
        <4> QED
          BY <2>3, <4>2, <4>3
      <3> QED
        BY <3>1, <3>2
    <2>9. ASSUME NEW d \in 1..Len(I.dict)
          PROVE  \E k \in 1..j : I.dict[d] = rows[k]
      <3>1. CASE d \in 1..Len(st.dict)
        <4>1. PICK k \in 1..i : st.dict[d] = rows[k]
          BY <1>11, <3>1 DEF st
        <4>2. k \in 1..j
          BY <2>0 DEF j
        <4> QED
          BY <2>3, <3>1, <4>1, <4>2
      <3>2. CASE d \notin 1..Len(st.dict)
        <4>1. I.dict = Append(st.dict, v) /\ d = Len(st.dict) + 1
          BY <2>1, <2>3, <3>2
        <4>2. I.dict[d] = v
          BY <2>1, <4>1
        <4> QED
          BY <2>0, <4>2 DEF v
      <3> QED
        BY <3>1, <3>2
    <2>10. /\ h[j] \in States /\ Sound(h[j]) /\ Len(h[j].indices) = j
           /\ \A k \in 1..j : /\ h[j].indices[k] < Len(h[j].dict)
                              /\ h[j].dict[h[j].indices[k] + 1] = rows[k]
      BY <2>0, <2>3, <2>5, <2>7
    <2>11. \A d \in 1..Len(h[j].dict) : \E k \in 1..j : h[j].dict[d] = rows[k]
      BY <2>0, <2>9
    <2>8. Found(j)
      BY <2>10, <2>11
    <2> HIDE DEF Found
    <2> QED
      BY <2>0, <2>8 DEF j
  <1>12. Found(n)
    <2> HIDE DEF S
    <2>1. \A i \in 0..n : i \in S
      BY <1>0, <1>10, <1>11, InductTo
    <2>2. n \in S
      BY <1>0, <2>1
    <2> QED
      BY <2>2 DEF S
  <1> DEFINE b == h[n]
  <1>13. /\ b \in States /\ Sound(b) /\ Len(b.indices) = n
         /\ \A k \in 1..n : b.indices[k] < Len(b.dict) /\ b.dict[b.indices[k] + 1] = rows[k]
         /\ \A d \in 1..Len(b.dict) : \E k \in 1..n : b.dict[d] = rows[k]
    BY <1>12
  <1> HIDE DEF b
  <1>14. b.dict \in Seq(DOMAIN Fnv) /\ b.indices \in Seq(Nat)
         /\ \A d, e \in 1..Len(b.dict) : b.dict[d] = b.dict[e] => d = e
    BY <1>13 DEF States, Sound
  <1>15. Build(rows) = b
    BY <1>8 DEF b
  <1>16. /\ Len(b.indices) = n
         /\ \A k \in 1..n : b.indices[k] < Len(b.dict) /\ b.dict[b.indices[k] + 1] = rows[k]
         /\ \A d \in 1..Len(b.dict) : \E k \in 1..n : b.dict[d] = rows[k]
    BY <1>13
  <1>17. Built(b, rows)
    BY <1>14, <1>16 DEF Built, n
  <1> QED
    BY <1>15, <1>17, Zenon

----------------------------------------------------------------------------
(* Numbers through a dictionary.                                           *)

\* What the encoder of numbers returns.
LEMMA NumericSide ==
    ASSUME NEW dtype, NEW rows \in Seq(DOMAIN Fnv), NumericEncode(dtype, rows).status = "ok"
    PROVE  \E b : /\ Built(b, rows) /\ dtype.size \in NumericSizes
                  /\ NumericEncode(dtype, rows) =
                        [status |-> "ok", side |-> [dtype |-> dtype, count |-> Len(b.dict), values |-> b.dict],
                         residual |-> b.indices]
  <1> DEFINE b == Build(rows)
  <1>1. Built(b, rows)
    BY BuildIs
  <1> HIDE DEF b
  <1>2. NumericEncode(dtype, rows) =
          IF dtype.size \notin NumericSizes THEN [status |-> "dtype"]
          ELSE [status |-> "ok", side |-> [dtype |-> dtype, count |-> Len(b.dict), values |-> b.dict],
                residual |-> b.indices]
    BY Zenon DEF NumericEncode, b
  <1>3. dtype.size \in NumericSizes
    BY <1>2
  <1> QED
    BY <1>1, <1>2, <1>3

\* No value of the side metadata occurs twice.
LEMMA NumericOnce ==
    ASSUME NEW dtype, NEW rows \in Seq(DOMAIN Fnv), NumericEncode(dtype, rows).status = "ok"
    PROVE  IsInjective(NumericEncode(dtype, rows).side.values)
  <1>1. PICK b : /\ Built(b, rows)
                 /\ NumericEncode(dtype, rows) =
                        [status |-> "ok", side |-> [dtype |-> dtype, count |-> Len(b.dict), values |-> b.dict],
                         residual |-> b.indices]
    BY NumericSide
  <1>2. NumericEncode(dtype, rows).side.values = b.dict
    BY <1>1
  <1>3. b.dict \in Seq(DOMAIN Fnv) /\ \A d, e \in 1..Len(b.dict) : b.dict[d] = b.dict[e] => d = e
    BY <1>1 DEF Built
  <1>4. DOMAIN b.dict = 1..Len(b.dict)
    BY <1>3
  <1>5. IsInjective(b.dict)
    BY <1>3, <1>4 DEF IsInjective
  <1> QED
    BY <1>2, <1>5

\* The rows come back.
LEMMA NumericBack ==
    ASSUME NEW dtype, NEW rows \in Seq(DOMAIN Fnv), NumericEncode(dtype, rows).status = "ok"
    PROVE  LET r == NumericEncode(dtype, rows)
           IN  NumericDecode(dtype, Len(rows), r.residual, r.side) = [status |-> "ok", rows |-> rows]
  <1> DEFINE r == NumericEncode(dtype, rows)
             n == Len(rows)
             side == r.side
  <1>1. PICK b : /\ Built(b, rows) /\ dtype.size \in NumericSizes
                 /\ r = [status |-> "ok", side |-> [dtype |-> dtype, count |-> Len(b.dict), values |-> b.dict],
                         residual |-> b.indices]
    BY NumericSide
  <1> HIDE DEF r
  <1>2. /\ r.residual = b.indices /\ side.dtype = dtype /\ side.count = Len(b.dict)
        /\ side.values = b.dict
    BY <1>1
  <1>3. /\ b.dict \in Seq(DOMAIN Fnv) /\ b.indices \in Seq(Nat) /\ Len(b.indices) = n /\ n \in Nat
        /\ \A i \in 1..n : b.indices[i] < Len(b.dict) /\ b.dict[b.indices[i] + 1] = rows[i]
    BY <1>1 DEF Built
  <1>4. \A i \in 1..n : ~ (b.indices[i] >= Len(b.dict))
    BY <1>3
  <1>5. [i \in 1..n |-> b.dict[b.indices[i] + 1]] = rows
    <2>1. rows = [i \in 1..n |-> rows[i]]
      OBVIOUS
    <2>2. [i \in 1..n |-> b.dict[b.indices[i] + 1]] = [i \in 1..n |-> rows[i]]
      BY <1>3, Zenon
    <2> QED
      BY <2>1, <2>2, Zenon
  <1> HIDE DEF side
  <1>6. NumericDecode(dtype, n, r.residual, side)
           = [status |-> "ok", rows |-> [i \in 1..n |-> b.dict[b.indices[i] + 1]]]
    BY <1>1, <1>2, <1>3, <1>4 DEF NumericDecode
  <1> QED
    BY <1>5, <1>6 DEF r, side

----------------------------------------------------------------------------
(* Strings through a dictionary.                                           *)

\* Where a string starts is what the strings before it are long.
LEMMA OffsetsAre ==
    ASSUME NEW S, NEW ss \in Seq(Seq(S))
    PROVE  /\ Offsets(ss) \in Seq(Nat) /\ Len(Offsets(ss)) = Len(ss) + 1 /\ Offsets(ss)[1] = 0
           /\ \A i \in 1..Len(ss) : Offsets(ss)[i + 1] = Offsets(ss)[i] + Len(ss[i])
  <1> DEFINE n == Len(ss)
             Def(f) == f = [i \in 1..n + 1 |-> IF i = 1 THEN 0 ELSE f[i - 1] + Len(ss[i - 1])]
             g == [p \in (1..n) \X Nat |-> p[2] + Len(ss[p[1]])]
             h == CHOOSE f : Def(f)
  <1>1. n \in Nat /\ \A i \in 1..n : Len(ss[i]) \in Nat
    OBVIOUS
  <1> HIDE DEF n
  <1>2. g \in [(1..n) \X Nat -> Nat] /\ \A i \in 1..n, v \in Nat : g[<<i, v>>] = v + Len(ss[i])
    BY <1>1
  <1> HIDE DEF g
  <1>i. 0 \in Nat
    OBVIOUS
  <1>3. PICK f : f \in [0..n -> Nat] /\ Stepped(f, n, 0, g)
    BY <1>1, <1>i, <1>2, StepFunction
  <1>4. f[0] = 0 /\ \A i \in 1..n : f[i] = f[i - 1] + Len(ss[i])
    <2>1. f[0] = 0 /\ \A i \in 1..n : f[i] = g[<<i, f[i - 1]>>] /\ f[i - 1] \in Nat
      BY <1>1, <1>3, StepsRead
    <2> QED
      BY <1>2, <2>1
  <1> DEFINE e == [i \in 1..n + 1 |-> f[i - 1]]
  <1>5. Def(e)
    <2>1. \A i \in 1..n + 1 : e[i] = IF i = 1 THEN 0 ELSE e[i - 1] + Len(ss[i - 1])
      <3> SUFFICES ASSUME NEW i \in 1..n + 1
                   PROVE  e[i] = IF i = 1 THEN 0 ELSE e[i - 1] + Len(ss[i - 1])
        OBVIOUS
      <3>1. CASE i = 1
        BY <1>4, <3>1
      <3>2. CASE i # 1
        <4> DEFINE j == i - 1
        <4>1. j \in 1..n /\ j \in 1..n + 1 /\ i - 1 = j
          BY <1>1, <3>2
        <4> HIDE DEF j
        <4>2. e[i] = f[j] /\ e[j] = f[j - 1]
          BY <4>1
        <4> QED
          BY <1>4, <3>2, <4>1, <4>2
      <3> QED
        BY <3>1, <3>2
    <2>2. e = [i \in 1..n + 1 |-> e[i]]
      OBVIOUS
    <2> HIDE DEF e
    <2>3. [i \in 1..n + 1 |-> e[i]]
            = [i \in 1..n + 1 |-> IF i = 1 THEN 0 ELSE e[i - 1] + Len(ss[i - 1])]
      BY <2>1, Zenon
    <2> QED
      BY <2>2, <2>3, Zenon
  <1>6. Def(h)
    <2> HIDE DEF Def
    <2> QED
      BY <1>5, Zenon
  <1>7. Offsets(ss) = [i \in 1..n + 1 |-> h[i]]
    BY Zenon DEF Offsets, n
  <1> HIDE DEF h
  <1>8. h[1] = 0 /\ \A i \in 1..n : h[i + 1] = h[i] + Len(ss[i])
    <2>1. h[1] = 0
      BY <1>1, <1>6
    <2>2. ASSUME NEW i \in 1..n PROVE h[i + 1] = h[i] + Len(ss[i])
      <3> DEFINE j == i + 1
      <3>1. j \in 1..n + 1 /\ j # 1 /\ j - 1 = i
        BY <1>1
      <3> HIDE DEF j
      <3>2. h[j] = h[j - 1] + Len(ss[j - 1])
        BY <1>6, <3>1, Zenon
      <3> QED
        BY <3>1, <3>2 DEF j
    <2> QED
      BY <2>1, <2>2
  <1> HIDE DEF Def
  <1> DEFINE R == {i \in 0..n : h[i + 1] \in Nat}
  <1>9. \A i \in 0..n : i \in R
    <2>1. 0 \in R
      BY <1>1, <1>8
    <2>2. ASSUME NEW i \in 0..n - 1, i \in R PROVE i + 1 \in R
      <3>1. i + 1 \in 1..n /\ i + 1 \in 0..n /\ h[i + 1] \in Nat
        BY <1>1, <2>2
      <3> QED
        BY <1>1, <1>8, <3>1
    <2> HIDE DEF R
    <2> QED
      BY <1>1, <2>1, <2>2, InductTo
  <1>10. \A i \in 1..n + 1 : h[i] \in Nat
    <2> TAKE i \in 1..n + 1
    <2> DEFINE j == i - 1
    <2>1. j \in 0..n /\ j + 1 = i
      BY <1>1
    <2> HIDE DEF j
    <2>2. h[j + 1] \in Nat
      BY <1>9, <2>1
    <2> QED
      BY <2>1, <2>2
  <1> DEFINE o == [i \in 1..n + 1 |-> h[i]]
  <1>11. o \in Seq(Nat) /\ Len(o) = n + 1 /\ \A i \in 1..n + 1 : o[i] = h[i]
    BY <1>1, <1>10
  <1> HIDE DEF o
  <1>12. o[1] = 0 /\ \A i \in 1..n : o[i + 1] = o[i] + Len(ss[i])
    <2>1. 1 \in 1..n + 1 /\ \A i \in 1..n : i \in 1..n + 1 /\ i + 1 \in 1..n + 1
      BY <1>1
    <2> QED
      BY <1>8, <1>11, <2>1
  <1>13. Offsets(ss) = o
    BY <1>7 DEF o
  <1> QED
    BY <1>11, <1>12, <1>13, Zenon DEF n

\* What is long so far is where the next one starts.
LEMMA OffsetsFlatten ==
    ASSUME NEW S, NEW ss \in Seq(Seq(S))
    PROVE  \A i \in 0..Len(ss) : Offsets(ss)[i + 1] = Len(FlattenSeq(SubSeq(ss, 1, i)))
  <1> DEFINE n == Len(ss)
             a(i) == FlattenSeq(SubSeq(ss, 1, i))
             o == Offsets(ss)
             R == {i \in 0..n : o[i + 1] = Len(a(i))}
  <1>1. n \in Nat /\ o[1] = 0 /\ \A i \in 1..n : o[i + 1] = o[i] + Len(ss[i])
    BY OffsetsAre
  <1>2. 0 \in R
    <2>1. SubSeq(ss, 1, 0) = <<>>
      OBVIOUS
    <2>2. a(0) = <<>>
      BY <2>1, FlattenNone
    <2> HIDE DEF o, a
    <2> QED
      BY <1>1, <2>2
  <1>3. ASSUME NEW i \in 0..n - 1, i \in R PROVE i + 1 \in R
    <2>1. i \in Nat /\ i < n /\ i + 1 \in 1..n /\ i + 1 \in 0..n /\ o[i + 1] = Len(a(i))
      BY <1>1, <1>3
    <2>2. Grows(S, ss, i)
      BY <2>1, FlattenNext
    <2>3. Len(a(i + 1)) = Len(a(i)) + Len(ss[i + 1])
      BY <2>2 DEF Grows
    <2>4. o[(i + 1) + 1] = o[i + 1] + Len(ss[i + 1])
      BY <1>1, <2>1
    <2> HIDE DEF o, a
    <2> QED
      BY <2>1, <2>3, <2>4
  <1> HIDE DEF R
  <1>4. \A i \in 0..n : i \in R
    BY <1>1, <1>2, <1>3, InductTo
  <1> QED
    BY <1>4 DEF R

\* The offsets tell every string from its neighbours in the heap.
LEMMA HeapRow ==
    ASSUME NEW S, NEW ss \in Seq(Seq(S)), NEW d \in 1..Len(ss)
    PROVE  SubSeq(FlattenSeq(ss), Offsets(ss)[d] + 1, Offsets(ss)[d + 1]) = ss[d]
  <1> DEFINE heap == FlattenSeq(ss)
             a == Offsets(ss)[d]
             m == Len(ss[d])
  <1>1. a \in Nat /\ m \in Nat /\ Offsets(ss)[d + 1] = a + m /\ ss[d] \in Seq(S)
    <2>1. /\ Offsets(ss) \in Seq(Nat) /\ Len(Offsets(ss)) = Len(ss) + 1
          /\ \A i \in 1..Len(ss) : Offsets(ss)[i + 1] = Offsets(ss)[i] + Len(ss[i])
      BY OffsetsAre
    <2>2. d \in 1..Len(ss) + 1 /\ Len(ss) \in Nat
      OBVIOUS
    <2> QED
      BY <2>1, <2>2
  <1>2. a = Len(FlattenSeq(SubSeq(ss, 1, d - 1)))
    <2>1. d - 1 \in 0..Len(ss) /\ (d - 1) + 1 = d
      OBVIOUS
    <2> QED
      BY <2>1, OffsetsFlatten
  <1>3. heap \in Seq(S)
    BY FlattenType
  <1>4. ASSUME NEW c \in 1..m
        PROVE  a + c \in 1..Len(heap) /\ heap[a + c] = ss[d][c]
    <2>1. c \in DOMAIN ss[d] /\ d \in DOMAIN ss
      BY <1>1
    <2>2. LET k == Len(FlattenSeq(SubSeq(ss, 1, d - 1))) + c
          IN  k \in DOMAIN heap /\ heap[k] = ss[d][c]
      BY <2>1, FlattenNth
    <2>3. a + c \in DOMAIN heap /\ heap[a + c] = ss[d][c]
      BY <1>2, <2>2
    <2> QED
      BY <1>3, <2>3
  <1>5. m # 0 => a + m <= Len(heap)
    <2>1. m # 0 => m \in 1..m
      BY <1>1
    <2> HIDE DEF heap, a, m
    <2> QED
      BY <1>1, <1>3, <1>4, <2>1
  <1> DEFINE x == SubSeq(heap, a + 1, a + m)
  <1> HIDE DEF heap, a, m
  <1>6. Len(x) = m /\ DOMAIN x = 1..m /\ \A c \in 1..m : x[c] = heap[a + c]
    <2>1. CASE m = 0
      BY <1>1, <1>3, <2>1
    <2>2. CASE m # 0
      BY <1>1, <1>3, <1>5, <2>2
    <2> QED
      BY <2>1, <2>2
  <1>7. x = [c \in 1..m |-> x[c]]
    <2>1. x \in Seq(S)
      <3>1. CASE m = 0
        BY <1>1, <1>3, <3>1
      <3>2. CASE m # 0
        BY <1>1, <1>3, <1>5, <3>2
      <3> QED
        BY <3>1, <3>2
    <2> HIDE DEF x
    <2> QED
      BY <1>6, <2>1
  <1>8. ss[d] = [c \in 1..m |-> ss[d][c]]
    BY <1>1 DEF m
  <1> HIDE DEF x
  <1>9. [c \in 1..m |-> x[c]] = [c \in 1..m |-> ss[d][c]]
    BY <1>4, <1>6, Zenon
  <1>10. x = ss[d]
    BY <1>7, <1>8, <1>9, Zenon
  <1> QED
    BY <1>1, <1>10 DEF x, heap, a

\* The side metadata of the values D.
SideOf(D) == [count |-> Len(D), total |-> Len(FlattenSeq(D)), offsets |-> Offsets(D),
              heap |-> FlattenSeq(D)]

\* A block whose strings are hashed.
Hashed(block) ==
    /\ block.offsets \in Seq(Nat) /\ block.offsets # <<>>
    /\ \A i \in 1..Len(block.offsets) - 1 : Row(block, i) \in DOMAIN Fnv \cap Seq(Nat)

\* The strings of a block.
LEMMA RowsAre ==
    ASSUME NEW block, Hashed(block)
    PROVE  /\ Len(block.offsets) - 1 \in Nat /\ RowsOf(block) \in Seq(DOMAIN Fnv)
           /\ RowsOf(block) \in Seq(Seq(Nat)) /\ Len(RowsOf(block)) = Len(block.offsets) - 1
           /\ \A i \in 1..Len(RowsOf(block)) : RowsOf(block)[i] = Row(block, i)
  <1> DEFINE n == Len(block.offsets) - 1
             rows == [i \in 1..n |-> Row(block, i)]
  <1>1. n \in Nat /\ \A i \in 1..n : Row(block, i) \in DOMAIN Fnv /\ Row(block, i) \in Seq(Nat)
    BY DEF Hashed
  <1> HIDE DEF n
  <1>2. Len(rows) = n /\ rows \in Seq(DOMAIN Fnv) /\ rows \in Seq(Seq(Nat))
        /\ \A i \in 1..n : rows[i] = Row(block, i)
    BY <1>1
  <1>3. RowsOf(block) = rows
    BY DEF RowsOf, n
  <1> HIDE DEF rows
  <1> QED
    BY <1>1, <1>2, <1>3 DEF n

\* What the dictionary's encoder returns.
LEMMA DictSide ==
    ASSUME NEW block, Hashed(block), DictEncode(block).status = "ok"
    PROVE  \E b : /\ Built(b, RowsOf(block)) /\ b.dict \in Seq(Seq(Nat))
                  /\ Len(FlattenSeq(b.dict)) <= HeapMax
                  /\ DictEncode(block) =
                        [status |-> "ok", side |-> SideOf(b.dict), residual |-> b.indices]
  <1> DEFINE rows == RowsOf(block)
             b == Build(rows)
             heap == FlattenSeq(b.dict)
             ascending == \A i \in 1..Len(block.offsets) - 1 :
                                block.offsets[i] <= block.offsets[i + 1]
             r == [status |-> "ok",
                   side |-> [count |-> Len(b.dict), total |-> Len(heap),
                             offsets |-> Offsets(b.dict), heap |-> heap],
                   residual |-> b.indices]
  <1>1. Built(b, rows)
    BY RowsAre, BuildIs
  <1>2. b.dict \in Seq(Seq(Nat))
    <2>1. /\ b.dict \in Seq(DOMAIN Fnv)
          /\ \A d \in 1..Len(b.dict) : \E i \in 1..Len(rows) : b.dict[d] = rows[i]
      BY <1>1 DEF Built
    <2>2. \A i \in 1..Len(rows) : rows[i] \in Seq(Nat)
      <3>1. rows \in Seq(Seq(Nat))
        BY RowsAre
      <3> HIDE DEF rows
      <3> QED
        BY <3>1
    <2> HIDE DEF b, rows
    <2>3. \A d \in 1..Len(b.dict) : b.dict[d] \in Seq(Nat)
      BY <2>1, <2>2
    <2> DEFINE Y == Seq(Nat)
               D == b.dict
    <2>4. D \in Seq(DOMAIN Fnv) /\ \A d \in 1..Len(D) : D[d] \in Y
      BY <2>1, <2>3
    <2> HIDE DEF Y, D
    <2>5. D \in Seq(Y)
      BY <2>4
    <2> QED
      BY <2>5 DEF Y, D
  <1>3. DictEncode(block) = CASE ~ ascending -> [status |-> "corrupt"]
                              [] ascending /\ Len(heap) > HeapMax -> [status |-> "inval"]
                              [] OTHER -> r
    BY Zenon DEF DictEncode
  <1> HIDE DEF ascending, r, b, heap
  <1>4. ascending /\ ~ (Len(heap) > HeapMax) /\ DictEncode(block) = r
    BY <1>3
  <1>5. Len(heap) \in Nat
    BY <1>2, FlattenType DEF heap
  <1>6. Len(heap) <= HeapMax
    BY <1>4, <1>5, DictionaryAssumption
  <1>7. r = [status |-> "ok", side |-> SideOf(b.dict), residual |-> b.indices]
    BY DEF SideOf, heap, r
  <1> QED
    BY <1>1, <1>2, <1>4, <1>6, <1>7 DEF heap

\* No string of the side metadata occurs twice.
LEMMA DictOnce ==
    ASSUME NEW block, Hashed(block), DictEncode(block).status = "ok"
    PROVE  LET side == DictEncode(block).side
           IN  IsInjective([d \in 1..side.count |-> Row(side, d)])
  <1> DEFINE side == DictEncode(block).side
  <1>1. PICK b : /\ Built(b, RowsOf(block)) /\ b.dict \in Seq(Seq(Nat))
                 /\ DictEncode(block) =
                        [status |-> "ok", side |-> SideOf(b.dict), residual |-> b.indices]
    BY DictSide
  <1> DEFINE D == b.dict
             f == [d \in 1..side.count |-> Row(side, d)]
  <1>2. side = SideOf(D)
    BY <1>1
  <1>3. D \in Seq(Seq(Nat)) /\ \A d, e \in 1..Len(D) : D[d] = D[e] => d = e
    BY <1>1 DEF Built
  <1> HIDE DEF side, D
  <1>4. side.count = Len(D) /\ side.heap = FlattenSeq(D) /\ side.offsets = Offsets(D)
    BY <1>2 DEF SideOf
  <1>5. ASSUME NEW d \in 1..Len(D) PROVE Row(side, d) = D[d]
    BY <1>3, <1>4, HeapRow DEF Row
  <1>6. DOMAIN f = 1..Len(D) /\ \A d \in 1..Len(D) : f[d] = D[d]
    BY <1>4, <1>5
  <1> HIDE DEF f
  <1>7. IsInjective(f)
    BY <1>3, <1>6 DEF IsInjective
  <1> QED
    BY <1>7 DEF f, side

----------------------------------------------------------------------------
(* Blocks of mostly zeros.                                                 *)

\* p are the places of the rows that are not zero, smallest first.
Places(rows, i, p) ==
    /\ p \in Seq(Nat) /\ Len(p) <= i
    /\ \A k \in 1..Len(p) : p[k] < i /\ rows[p[k] + 1] # Zero
    /\ \A k \in 2..Len(p) : p[k - 1] < p[k]
    /\ \A j \in 1..i : rows[j] # Zero => \E k \in 1..Len(p) : p[k] = j - 1

\* The residual lists the places of what is not zero.
LEMMA PlacesAre ==
    ASSUME NEW dtype, NEW rows \in Seq(Nat), SparseEncode(dtype, rows).status = "ok"
    PROVE  \E p : /\ Places(rows, Len(rows), p)
                  /\ dtype.size \in SparseSizes /\ ~ (Len(rows) > CountMax)
                  /\ SparseEncode(dtype, rows) =
                        [status |-> "ok",
                         side |-> [dtype |-> dtype, count |-> Len(p),
                                   values |-> [k \in 1..Len(p) |-> rows[p[k] + 1]]],
                         residual |-> p]
  <1> DEFINE n == Len(rows)
             Def(f) == f = [i \in 0..n |->
                              IF i = 0 THEN <<>>
                              ELSE IF rows[i] = Zero THEN f[i - 1] ELSE Append(f[i - 1], i - 1)]
             T == Seq(Nat)
             Next1(i, p) == IF rows[i] = Zero THEN p ELSE Append(p, i - 1)
             g == [q \in (1..n) \X T |-> Next1(q[1], q[2])]
             h == CHOOSE f : Def(f)
             first == <<>>
  <1>0. n \in Nat /\ first \in T
    OBVIOUS
  <1>1. \A i \in 1..n, p \in T : Next1(i, p) \in T
    OBVIOUS
  <1> HIDE DEF n
  <1>2. g \in [(1..n) \X T -> T] /\ \A i \in 1..n, p \in T : g[<<i, p>>] = Next1(i, p)
    <2> HIDE DEF T, Next1
    <2> QED
      BY <1>1
  <1> HIDE DEF g
  <1>3. PICK f : f \in [0..n -> T] /\ Stepped(f, n, first, g)
    <2> HIDE DEF T, first
    <2> QED
      BY <1>0, <1>2, StepFunction
  <1>4. f[0] = first /\ \A i \in 1..n : f[i] = Next1(i, f[i - 1])
    <2> HIDE DEF T, first, Next1
    <2>1. f[0] = first /\ \A i \in 1..n : f[i] = g[<<i, f[i - 1]>>] /\ f[i - 1] \in T
      BY <1>0, <1>3, StepsRead
    <2> QED
      BY <1>2, <2>1
  <1>5. Def(f)
    <2> DEFINE F(i) == IF i = 0 THEN <<>>
                       ELSE IF rows[i] = Zero THEN f[i - 1] ELSE Append(f[i - 1], i - 1)
    <2>1. \A i \in 0..n : f[i] = F(i)
      <3>1. \A i \in 0..n : i = 0 \/ (i \in 1..n /\ i # 0)
        BY <1>0
      <3> QED
        BY <1>4, <3>1, Zenon
    <2>2. f = [i \in 0..n |-> f[i]]
      BY <1>3
    <2>3. [i \in 0..n |-> f[i]] = [i \in 0..n |-> F(i)]
      <3> HIDE DEF F
      <3> QED
        BY <2>1, Zenon
    <2> QED
      BY <2>2, <2>3, Zenon
  <1>6. Def(h)
    <2> HIDE DEF Def
    <2> QED
      BY <1>5, Zenon
  <1> DEFINE p == h[n]
             r == [status |-> "ok",
                   side |-> [dtype |-> dtype, count |-> Len(p),
                             values |-> [k \in 1..Len(p) |-> rows[p[k] + 1]]],
                   residual |-> p]
  <1>7. SparseEncode(dtype, rows) =
            CASE dtype.size \notin SparseSizes -> [status |-> "dtype"]
              [] dtype.size \in SparseSizes /\ n > CountMax -> [status |-> "inval"]
              [] OTHER -> r
    BY Zenon DEF SparseEncode, n
  <1> HIDE DEF h
  <1>8. h[0] = <<>> /\ \A i \in 0..n - 1 : h[i + 1] = Next1(i + 1, h[i])
    <2>1. h[0] = <<>>
      BY <1>0, <1>6
    <2>2. ASSUME NEW i \in 0..n - 1 PROVE h[i + 1] = Next1(i + 1, h[i])
      <3> DEFINE j == i + 1
      <3>1. j \in 0..n /\ j # 0 /\ j - 1 = i
        BY <1>0
      <3> HIDE DEF j
      <3>2. h[j] = Next1(j, h[j - 1])
        BY <1>6, <3>1, Zenon
      <3> QED
        BY <3>1, <3>2 DEF j
    <2> QED
      BY <2>1, <2>2
  <1> HIDE DEF Def
  <1> DEFINE S == {i \in 0..n : Places(rows, i, h[i])}
  <1>9. 0 \in S
    <2>1. Places(rows, 0, <<>>)
      BY DEF Places
    <2> QED
      BY <1>0, <1>8, <2>1
  <1>10. ASSUME NEW i \in 0..n - 1, i \in S PROVE i + 1 \in S
    <2> DEFINE a == h[i]
               b == h[i + 1]
               j == i + 1
    <2>1. i \in Nat /\ j \in 1..n /\ j \in 0..n /\ j - 1 = i /\ j \in Nat /\ Places(rows, i, a) /\ b = Next1(j, a)
      BY <1>0, <1>8, <1>10
    <2> HIDE DEF a, b, j, S
    <2>2. /\ a \in Seq(Nat) /\ Len(a) \in Nat /\ Len(a) <= i
          /\ \A k \in 1..Len(a) : a[k] < i /\ a[k] \in Nat /\ rows[a[k] + 1] # Zero
          /\ \A k \in 2..Len(a) : a[k - 1] < a[k]
          /\ \A m \in 1..i : rows[m] # Zero => \E k \in 1..Len(a) : a[k] = m - 1
      BY <2>1 DEF Places
    <2>3. \A m \in 1..j : m = j \/ m \in 1..i
      BY <2>1
    <2>4. CASE rows[j] = Zero
      <3>1. b = a
        BY <2>1, <2>4
      <3>2. Places(rows, j, a)
        <4>1. Len(a) <= j /\ \A k \in 1..Len(a) : a[k] < j
          BY <2>1, <2>2
        <4> QED
          BY <2>2, <2>3, <2>4, <4>1 DEF Places
      <3> QED
        BY <2>1, <3>1, <3>2 DEF S, b, j
    <2>5. CASE rows[j] # Zero
      <3> DEFINE l == Len(a)
      <3>1. /\ b = Append(a, i) /\ b \in Seq(Nat) /\ Len(b) = l + 1 /\ b[l + 1] = i
            /\ \A k \in 1..l : b[k] = a[k]
        BY <2>1, <2>2, <2>5
      <3>2. \A k \in 1..l + 1 : k = l + 1 \/ k \in 1..l
        BY <2>2
      <3>3. \A k \in 1..Len(b) : b[k] < j /\ rows[b[k] + 1] # Zero
        <4>1. i + 1 = j /\ i < j
          BY <2>1
        <4>2. \A k \in 1..l : a[k] < j
          BY <2>1, <2>2
        <4> QED
          BY <2>2, <2>5, <3>1, <3>2, <4>1, <4>2
      <3>4. ASSUME NEW k \in 2..Len(b) PROVE b[k - 1] < b[k]
        <4>1. k - 1 \in 1..l
          BY <2>2, <3>1
        <4>2. CASE k = l + 1
          BY <2>2, <3>1, <4>1, <4>2
        <4>3. CASE k # l + 1
          <5>1. k \in 1..l /\ k \in 2..l
            BY <2>2, <3>1, <4>3
          <5> QED
            BY <2>2, <3>1, <4>1, <5>1
        <4> QED
          BY <4>2, <4>3
      <3>5. ASSUME NEW m \in 1..j, rows[m] # Zero
            PROVE  \E k \in 1..Len(b) : b[k] = m - 1
        <4>1. CASE m = j
          <5>1. l + 1 \in 1..Len(b)
            BY <2>2, <3>1
          <5> QED
            BY <2>1, <3>1, <4>1, <5>1
        <4>2. CASE m # j
          <5>1. PICK k \in 1..l : a[k] = m - 1
            BY <2>2, <2>3, <3>5, <4>2
          <5>2. k \in 1..Len(b)
            BY <2>2, <3>1
          <5> QED
            BY <3>1, <5>1, <5>2
        <4> QED
          BY <4>1, <4>2
      <3>6. Len(b) <= j
        BY <2>1, <2>2, <3>1
      <3>7. Places(rows, j, b)
        BY <3>1, <3>3, <3>4, <3>5, <3>6 DEF Places
      <3> QED
        BY <2>1, <3>7 DEF S, b, j
    <2> QED
      BY <2>4, <2>5
  <1> HIDE DEF S
  <1>11. \A i \in 0..n : i \in S
    BY <1>0, <1>9, <1>10, InductTo
  <1>12. Places(rows, n, p)
    <2>1. n \in S
      BY <1>0, <1>11
    <2> QED
      BY <2>1 DEF S
  <1> HIDE DEF p, r
  <1>13. dtype.size \in SparseSizes /\ ~ (n > CountMax) /\ SparseEncode(dtype, rows) = r
    BY <1>7
  <1> QED
    BY <1>12, <1>13 DEF r, n

\* The rows come back, zeros and others.
LEMMA SparseBack ==
    ASSUME NEW dtype, NEW rows \in Seq(Nat), SparseEncode(dtype, rows).status = "ok"
    PROVE  LET r == SparseEncode(dtype, rows)
           IN  SparseDecode(dtype, Len(rows), r.residual, r.side) = [status |-> "ok", rows |-> rows]
  <1> DEFINE r == SparseEncode(dtype, rows)
             n == Len(rows)
  <1>1. PICK p : /\ Places(rows, n, p)
                 /\ dtype.size \in SparseSizes /\ ~ (n > CountMax)
                 /\ r = [status |-> "ok",
                         side |-> [dtype |-> dtype, count |-> Len(p),
                                   values |-> [k \in 1..Len(p) |-> rows[p[k] + 1]]],
                         residual |-> p]
    BY PlacesAre
  <1> HIDE DEF r
  <1> DEFINE values == [k \in 1..Len(p) |-> rows[p[k] + 1]]
             side == r.side
  <1>2. r.residual = p /\ side.dtype = dtype /\ side.count = Len(p) /\ side.values = values
    BY <1>1
  <1>3. /\ p \in Seq(Nat) /\ Len(p) \in Nat /\ n \in Nat /\ ~ (Len(p) > n)
        /\ \A k \in 1..Len(p) : p[k] < n /\ p[k] \in Nat
        /\ \A k \in 2..Len(p) : p[k - 1] < p[k]
        /\ \A j \in 1..n : rows[j] # Zero => \E k \in 1..Len(p) : p[k] = j - 1
    BY <1>1 DEF Places
  <1>4. Len(values) = Len(p) /\ \A k \in 1..Len(p) : values[k] = rows[p[k] + 1]
    BY <1>3
  <1> HIDE DEF values, side
  <1>5. \A k \in 1..Len(p) : p[k] < n /\ (k > 1 => p[k - 1] < p[k])
    <2>1. \A k \in 1..Len(p) : k > 1 => k \in 2..Len(p)
      BY <1>3
    <2> QED
      BY <1>3, <2>1
  <1> DEFINE value(i) == IF \E k \in 1..Len(p) : p[k] = i
                         THEN side.values[CHOOSE k \in 1..Len(p) : p[k] = i]
                         ELSE Zero
  <1>6. ASSUME NEW j \in 1..n PROVE value(j - 1) = rows[j]
    <2>1. CASE \E k \in 1..Len(p) : p[k] = j - 1
      <3> DEFINE c == CHOOSE k \in 1..Len(p) : p[k] = j - 1
      <3>1. c \in 1..Len(p) /\ p[c] = j - 1
        BY <2>1, Zenon
      <3>2. value(j - 1) = side.values[c]
        BY <2>1, Zenon
      <3> HIDE DEF c, value
      <3>3. values[c] = rows[(j - 1) + 1]
        BY <1>4, <3>1
      <3> QED
        BY <1>2, <1>3, <3>2, <3>3
    <2>2. CASE ~ \E k \in 1..Len(p) : p[k] = j - 1
      BY <1>3, <2>2
    <2> QED
      BY <2>1, <2>2
  <1>7. [i \in 1..n |-> value(i - 1)] = rows
    <2>1. rows = [i \in 1..n |-> rows[i]]
      OBVIOUS
    <2> HIDE DEF value
    <2>2. [i \in 1..n |-> value(i - 1)] = [i \in 1..n |-> rows[i]]
      BY <1>6, Zenon
    <2> QED
      BY <2>1, <2>2, Zenon
  <1> HIDE DEF n
  <1>8. SparseDecode(dtype, n, p, side) = [status |-> "ok", rows |-> [i \in 1..n |-> value(i - 1)]]
    <2> DEFINE res == [status |-> "ok", rows |-> [i \in 1..n |-> value(i - 1)]]
               ascends == \A k \in 1..Len(p) : p[k] < n /\ (k > 1 => p[k - 1] < p[k])
    <2>1. SparseDecode(dtype, n, p, side) =
            CASE dtype.size \notin SparseSizes \/ side.dtype # dtype -> [status |-> "dtype"]
              [] dtype.size \in SparseSizes /\ side.dtype = dtype ->
                  IF n > CountMax THEN [status |-> "inval"]
                  ELSE IF \/ side.count > n
                          \/ Len(side.values) # side.count
                          \/ Len(p) # side.count
                          \/ ~ ascends
                  THEN [status |-> "corrupt"]
                  ELSE res
      BY Zenon DEF SparseDecode
    <2>2. ascends
      BY <1>5
    <2> HIDE DEF res, ascends
    <2>3. SparseDecode(dtype, n, p, side) = res
      BY <1>1, <1>2, <1>3, <1>4, <2>1, <2>2
    <2> QED
      BY <2>3 DEF res
  <1> QED
    BY <1>2, <1>7, <1>8 DEF r, side, n

----------------------------------------------------------------------------
(* Floats through two predictors.                                          *)

\* A sequence computed once is the sequence.
LEMMA EagerIs ==
    ASSUME NEW S, NEW s \in Seq(S)
    PROVE  Eager(s) = s
  <1>1. s \o <<>> = s
    OBVIOUS
  <1> QED
    BY <1>1 DEF Eager

\* Copies of one value.
LEMMA FillIs ==
    ASSUME NEW S, NEW n \in Nat, NEW x \in S
    PROVE  Fill(n, x) \in Seq(S) /\ Len(Fill(n, x)) = n /\ \A i \in 1..n : Fill(n, x)[i] = x
  <1> DEFINE s == [i \in 1..n |-> x]
  <1>1. s \in Seq(S) /\ Len(s) = n /\ \A i \in 1..n : s[i] = x
    OBVIOUS
  <1> HIDE DEF s
  <1>2. Fill(n, x) = s
    BY <1>1, EagerIs DEF Fill, s
  <1> QED
    BY <1>1, <1>2

\* The predictors' tables hold words and are looked up where they have an entry.
Predictors(w) ==
    [prev : WordsOf(w), fcm_idx : 0..2^TableBits - 1, dfcm_idx : 0..2^TableBits - 1,
     fcm : [0..2^TableBits - 1 -> WordsOf(w)], dfcm : [0..2^TableBits - 1 -> WordsOf(w)]]

\* What is taken modulo 2^w is a word.
LEMMA Wraps ==
    ASSUME NEW w \in Nat, NEW x \in Int
    PROVE  x % 2^w \in WordsOf(w) /\ WordsOf(w) \subseteq Nat /\ 0 \in WordsOf(w)
  <1>1. 2^w \in Nat \ {0}
    BY PowerPositive
  <1> DEFINE p == 2^w
  <1>2. p \in Nat \ {0}
    BY <1>1
  <1> HIDE DEF p
  <1>3. x % p \in 0..p - 1 /\ 0..p - 1 \subseteq Nat /\ 0 \in 0..p - 1
    BY <1>2, DivMod
  <1> QED
    BY <1>3 DEF p, WordsOf

\* A hash is an index of the table.
LEMMA HashIs ==
    ASSUME NEW bits \in Nat
    PROVE  FpcHash(bits) \in 0..2^TableBits - 1
  <1> DEFINE a == (bits * Multiplier) % 2^WideBits
             q == a \div 2^(WideBits - TableBits)
  <1>1. WideBits \in Nat /\ TableBits \in Nat /\ WideBits - TableBits \in Nat
    <2>1. WideBytes \in Nat /\ ByteBits \in Nat /\ TableBits \in 0..ByteBits * WideBytes
      BY FpcAssumption, ElementsAssumption
    <2>2. WideBits = WideBytes * ByteBits
      BY DEF WideBits, Bits
    <2>3. WideBytes * ByteBits = ByteBits * WideBytes /\ WideBytes * ByteBits \in Nat
      BY <2>1
    <2> QED
      BY <2>1, <2>2, <2>3
  <1>2. bits * Multiplier \in Int
    BY FpcAssumption
  <1>3. a \in Int
    <2> DEFINE b == bits * Multiplier
    <2> HIDE DEF b
    <2>1. b % 2^WideBits \in WordsOf(WideBits) /\ WordsOf(WideBits) \subseteq Nat
      BY <1>1, <1>2, Wraps DEF b
    <2> QED
      BY <2>1 DEF b
  <1> HIDE DEF a
  <1>4. q \in Int
    <2> DEFINE m == 2^(WideBits - TableBits)
    <2>1. m \in Nat \ {0}
      BY <1>1, PowerPositive
    <2> HIDE DEF m
    <2>2. a \div m \in Int
      BY <1>3, <2>1, DivMod
    <2> QED
      BY <2>2 DEF m
  <1>5. FpcHash(bits) = q % 2^TableBits
    BY DEF FpcHash, Shr, a
  <1> HIDE DEF q
  <1>6. q % 2^TableBits \in WordsOf(TableBits)
    BY <1>1, <1>4, Wraps
  <1> QED
    BY <1>5, <1>6 DEF WordsOf

\* What the predictors learn fits their tables.
LEMMA LearnKeeps ==
    ASSUME NEW size \in Nat, NEW p \in Predictors(Bits(size)), NEW cur \in WordsOf(Bits(size))
    PROVE  Learn(size, p, cur) \in Predictors(Bits(size))
  <1> DEFINE w == Bits(size)
             delta == Sub(w, cur, p.prev)
             A == 0..2^TableBits - 1
             W == WordsOf(w)
  <1>1. w \in Nat
    BY ElementsAssumption DEF Bits
  <1>2. /\ p.prev \in W /\ p.fcm_idx \in A /\ p.dfcm_idx \in A /\ p.fcm \in [A -> W]
        /\ p.dfcm \in [A -> W] /\ cur \in W
    BY DEF Predictors
  <1>3. W \subseteq Nat
    BY <1>1, Wraps, 0 \in Int
  <1>4. delta \in W
    <2>1. cur - p.prev \in Int
      BY <1>2, <1>3
    <2> QED
      BY <1>1, <2>1, Wraps DEF Sub
  <1> HIDE DEF delta, W, w
  <1>5. FpcHash(cur) \in A /\ FpcHash(delta) \in A
    BY <1>2, <1>3, <1>4, HashIs
  <1> HIDE DEF A
  <1>6. [p.fcm EXCEPT ![p.fcm_idx] = cur] \in [A -> W]
        /\ [p.dfcm EXCEPT ![p.dfcm_idx] = delta] \in [A -> W]
    BY <1>2, <1>4
  <1>7. Learn(size, p, cur) = [prev |-> cur, fcm |-> [p.fcm EXCEPT ![p.fcm_idx] = cur],
                               dfcm |-> [p.dfcm EXCEPT ![p.dfcm_idx] = delta],
                               fcm_idx |-> FpcHash(cur), dfcm_idx |-> FpcHash(delta)]
    BY DEF Learn, delta, w
  <1> DEFINE fcm == [p.fcm EXCEPT ![p.fcm_idx] = cur]
             dfcm == [p.dfcm EXCEPT ![p.dfcm_idx] = delta]
             a == FpcHash(cur)
             b == FpcHash(delta)
  <1>8. fcm \in [A -> W] /\ dfcm \in [A -> W] /\ a \in A /\ b \in A /\ cur \in W
        /\ Learn(size, p, cur) = [prev |-> cur, fcm |-> fcm, dfcm |-> dfcm, fcm_idx |-> a, dfcm_idx |-> b]
    BY <1>2, <1>5, <1>6, <1>7
  <1> HIDE DEF fcm, dfcm, a, b
  <1>9. Learn(size, p, cur) \in [prev : W, fcm_idx : A, dfcm_idx : A, fcm : [A -> W], dfcm : [A -> W]]
    BY <1>8
  <1> QED
    BY <1>9 DEF Predictors, A, W, w

\* What a step of the encoder adds: the better prediction's error, and which
\* one it was.
DifferenceWins(size, p, cur) ==
    LeadingZeroBytes(Xor(Bits(size), cur, DfcmGuess(size, p)), size)
        >= LeadingZeroBytes(Xor(Bits(size), cur, FcmGuess(p)), size)
Guess(size, p, selector) == IF selector = 1 THEN DfcmGuess(size, p) ELSE FcmGuess(p)
Chosen(size, p, cur)     == IF DifferenceWins(size, p, cur) THEN 1 ELSE 0
Missed(size, p, cur)     == Xor(Bits(size), cur, Guess(size, p, Chosen(size, p, cur)))

\* A step of the encoder, by the prediction it chose.
LEMMA EncodeStepIs ==
    ASSUME NEW size, NEW st, NEW cur
    PROVE  FpcEncodeStep(size, st, cur) =
              [p         |-> Learn(size, st.p, cur),
               residual  |-> Append(st.residual, Missed(size, st.p, cur)),
               selectors |-> Append(st.selectors, Chosen(size, st.p, cur))]
  <1>1. CASE DifferenceWins(size, st.p, cur)
    BY <1>1 DEF FpcEncodeStep, DifferenceWins, Chosen, Missed, Guess
  <1>2. CASE ~ DifferenceWins(size, st.p, cur)
    BY <1>2 DEF FpcEncodeStep, DifferenceWins, Chosen, Missed, Guess
  <1> QED
    BY <1>1, <1>2

\* The decoder has the value from what was missed.
LEMMA GuessedBack ==
    ASSUME NEW size \in Nat, NEW p \in Predictors(Bits(size)), NEW cur \in WordsOf(Bits(size))
    PROVE  /\ Chosen(size, p, cur) \in {0, 1} /\ Missed(size, p, cur) \in WordsOf(Bits(size))
           /\ Xor(Bits(size), Guess(size, p, Chosen(size, p, cur)), Missed(size, p, cur)) = cur
  <1> DEFINE w == Bits(size)
             W == WordsOf(w)
             A == 0..2^TableBits - 1
             guess == Guess(size, p, Chosen(size, p, cur))
  <1>1. w \in Nat
    BY ElementsAssumption DEF Bits
  <1>2. /\ p.prev \in W /\ p.fcm_idx \in A /\ p.dfcm_idx \in A /\ p.fcm \in [A -> W]
        /\ p.dfcm \in [A -> W]
    BY DEF Predictors
  <1>3. W \subseteq Nat
    BY <1>1, Wraps, 0 \in Int
  <1>4. FcmGuess(p) \in W
    <2> HIDE DEF A, W
    <2> QED
      BY <1>2 DEF FcmGuess
  <1>5. DfcmGuess(size, p) \in W
    <2>1. p.dfcm[p.dfcm_idx] \in W
      <3> HIDE DEF A, W
      <3> QED
        BY <1>2
    <2>2. p.prev + p.dfcm[p.dfcm_idx] \in Int
      BY <1>2, <1>3, <2>1
    <2> QED
      BY <1>1, <2>2, Wraps DEF DfcmGuess, Add
  <1>6. guess \in W
    BY <1>4, <1>5 DEF Guess
  <1>7. Xor(w, cur, guess) \in W
    BY <1>1, <1>6, XorBits
  <1>8. Xor(w, guess, Xor(w, cur, guess)) = cur
    BY <1>1, <1>6, XorUndone
  <1> QED
    BY <1>7, <1>8 DEF Missed, Chosen

\* The encoder's state before every row, and what it has written by then.
Learned(size, rows, h) ==
    /\ h[0].p \in Predictors(Bits(size))
    /\ \A i \in 1..Len(rows) : h[i].p = Learn(size, h[i - 1].p, rows[i])
    /\ \A i \in 0..Len(rows) :
          /\ h[i].p \in Predictors(Bits(size))
          /\ h[i].residual \in Seq(WordsOf(Bits(size))) /\ h[i].selectors \in Seq({0, 1})
          /\ Len(h[i].residual) = i /\ Len(h[i].selectors) = i
          /\ \A k \in 1..i : /\ h[i].residual[k] = Missed(size, h[k - 1].p, rows[k])
                             /\ h[i].selectors[k] = Chosen(size, h[k - 1].p, rows[k])

\* The encoder goes through states of which each learned from the one before.
LEMMA FpcEncodes ==
    ASSUME NEW dtype, dtype.size \in Nat, NEW rows \in Seq(WordsOf(Bits(dtype.size))),
           FpcEncode(dtype, rows).status = "ok"
    PROVE  \E h : LET end == h[Len(rows)]
                  IN  /\ Learned(dtype.size, rows, h) /\ h[0].p = NewPredictors
                      /\ dtype.kind = "float"
                      /\ FpcEncode(dtype, rows) =
                            [status |-> "ok", residual |-> end.residual,
                             side |-> IF rows = <<>> THEN <<>>
                                      ELSE <<TableBits>> \o end.selectors
                                           \o Fill(8 * SelectorBytes(Len(rows)) - Len(rows), 0)]
  <1> DEFINE n == Len(rows)
             size == dtype.size
             w == Bits(size)
             W == WordsOf(w)
             P == Predictors(w)
             T == [p : P, residual : Seq(W), selectors : Seq({0, 1})]
             first == [p |-> NewPredictors, residual |-> <<>>, selectors |-> <<>>]
             Def(f) == f = [i \in 0..n |-> IF i = 0 THEN first
                                           ELSE FpcEncodeStep(size, f[i - 1], rows[i])]
             g == [q \in (1..n) \X T |-> FpcEncodeStep(size, q[2], rows[q[1]])]
             h == CHOOSE f : Def(f)
             end == h[n]
             result == [status |-> "ok", residual |-> end.residual,
                        side |-> IF rows = <<>> THEN <<>>
                                 ELSE <<TableBits>> \o end.selectors
                                      \o Fill(8 * SelectorBytes(n) - n, 0)]
  <1>0. n \in Nat /\ size \in Nat /\ w \in Nat /\ \A i \in 1..n : rows[i] \in W
    BY ElementsAssumption DEF Bits
  <1>a. NewPredictors \in P
    <2> DEFINE A == 0..2^TableBits - 1
    <2>1. 0 \in A /\ 0 \in W
      <3>1. TableBits \in Nat /\ 0 \in Int
        BY FpcAssumption, ElementsAssumption
      <3> QED
        BY <1>0, <3>1, Wraps DEF WordsOf
    <2> HIDE DEF A, W
    <2>2. NewPredictors \in [prev : W, fcm_idx : A, dfcm_idx : A, fcm : [A -> W], dfcm : [A -> W]]
      BY <2>1 DEF NewPredictors, A
    <2> QED
      BY <2>2 DEF A, W, Predictors
  <1>1. first \in T
    <2> HIDE DEF P, W
    <2> QED
      BY <1>a
  <1>2. ASSUME NEW i \in 1..n, NEW st \in T PROVE FpcEncodeStep(size, st, rows[i]) \in T
    <2> DEFINE a == Learn(size, st.p, rows[i])
               b == Append(st.residual, Missed(size, st.p, rows[i]))
               c == Append(st.selectors, Chosen(size, st.p, rows[i]))
    <2>1. FpcEncodeStep(size, st, rows[i]) = [p |-> a, residual |-> b, selectors |-> c]
      BY EncodeStepIs
    <2>2. st.p \in P /\ st.residual \in Seq(W) /\ st.selectors \in Seq({0, 1}) /\ rows[i] \in W
      BY <1>0
    <2>3. a \in P /\ Missed(size, st.p, rows[i]) \in W /\ Chosen(size, st.p, rows[i]) \in {0, 1}
      BY <1>0, <2>2, LearnKeeps, GuessedBack
    <2> HIDE DEF P, W
    <2>4. b \in Seq(W) /\ c \in Seq({0, 1})
      BY <2>2, <2>3
    <2> HIDE DEF a, b, c
    <2> QED
      BY <2>1, <2>3, <2>4
  <1> HIDE DEF n, first
  <1>3. g \in [(1..n) \X T -> T]
        /\ \A i \in 1..n, st \in T : g[<<i, st>>] = FpcEncodeStep(size, st, rows[i])
    <2> HIDE DEF T, size
    <2> QED
      BY <1>2
  <1> HIDE DEF g
  <1>4. PICK f : f \in [0..n -> T] /\ Stepped(f, n, first, g)
    <2> HIDE DEF T
    <2> QED
      BY <1>0, <1>1, <1>3, StepFunction
  <1>5. f[0] = first /\ \A i \in 1..n : f[i] = FpcEncodeStep(size, f[i - 1], rows[i])
    <2> HIDE DEF T, size
    <2>1. f[0] = first /\ \A i \in 1..n : f[i] = g[<<i, f[i - 1]>>] /\ f[i - 1] \in T
      BY <1>0, <1>4, StepsRead
    <2> QED
      BY <1>3, <2>1
  <1>6. Def(f)
    <2>1. \A i \in 0..n : f[i] = IF i = 0 THEN first ELSE FpcEncodeStep(size, f[i - 1], rows[i])
      <3>1. \A i \in 0..n : i = 0 \/ (i \in 1..n /\ i # 0)
        BY <1>0
      <3> QED
        BY <1>5, <3>1, Zenon
    <2>2. f = [i \in 0..n |-> f[i]]
      BY <1>4
    <2>3. [i \in 0..n |-> f[i]]
            = [i \in 0..n |-> IF i = 0 THEN first ELSE FpcEncodeStep(size, f[i - 1], rows[i])]
      BY <2>1, Zenon
    <2> QED
      BY <2>2, <2>3, Zenon
  <1>7. Def(h)
    <2> HIDE DEF Def
    <2> QED
      BY <1>6, Zenon
  <1>8. FpcEncode(dtype, rows) = IF dtype.kind # "float" THEN [status |-> "dtype"] ELSE result
    BY Zenon DEF FpcEncode, n, first
  <1> HIDE DEF h
  <1>9. h[0] = first /\ \A i \in 0..n - 1 : h[i + 1] = FpcEncodeStep(size, h[i], rows[i + 1])
    <2>1. h[0] = first
      BY <1>0, <1>7
    <2>2. ASSUME NEW i \in 0..n - 1 PROVE h[i + 1] = FpcEncodeStep(size, h[i], rows[i + 1])
      <3> DEFINE j == i + 1
      <3>1. j \in 0..n /\ j # 0 /\ j - 1 = i
        BY <1>0
      <3> HIDE DEF j
      <3>2. h[j] = FpcEncodeStep(size, h[j - 1], rows[j])
        BY <1>7, <3>1, Zenon
      <3> QED
        BY <3>1, <3>2 DEF j
    <2> QED
      BY <2>1, <2>2
  <1> HIDE DEF Def
  <1> DEFINE M(k) == Missed(size, h[k - 1].p, rows[k])
             C(k) == Chosen(size, h[k - 1].p, rows[k])
             Good(i) == /\ h[i].p \in P
                        /\ h[i].residual \in Seq(W) /\ h[i].selectors \in Seq({0, 1})
                        /\ Len(h[i].residual) = i /\ Len(h[i].selectors) = i
                        /\ \A k \in 1..i : h[i].residual[k] = M(k) /\ h[i].selectors[k] = C(k)
             S == {i \in 0..n : Good(i)}
  <1>10. 0 \in S
    <2>1. h[0].p = NewPredictors /\ h[0].residual = <<>> /\ h[0].selectors = <<>>
      BY <1>9 DEF first
    <2> HIDE DEF P, W
    <2>2. Good(0)
      BY <1>a, <2>1
    <2> HIDE DEF Good
    <2> QED
      BY <1>0, <2>2
  <1>11. ASSUME NEW i \in 0..n - 1, i \in S PROVE i + 1 \in S
    <2> DEFINE j == i + 1
               st == h[i]
               en == h[j]
    <2>1. j \in 0..n /\ j \in 1..n /\ j - 1 = i /\ i \in Nat /\ Good(i) /\ rows[j] \in W
          /\ en = FpcEncodeStep(size, st, rows[j])
      BY <1>0, <1>9, <1>11
    <2>2. M(j) = Missed(size, st.p, rows[j]) /\ C(j) = Chosen(size, st.p, rows[j])
      BY <2>1
    <2> HIDE DEF M, C
    <2>3. en = [p |-> Learn(size, st.p, rows[j]), residual |-> Append(st.residual, M(j)),
                selectors |-> Append(st.selectors, C(j))]
      BY <2>1, <2>2, EncodeStepIs
    <2>4. st.p \in P /\ st.residual \in Seq(W) /\ st.selectors \in Seq({0, 1})
          /\ Len(st.residual) = i /\ Len(st.selectors) = i
          /\ \A k \in 1..i : st.residual[k] = M(k) /\ st.selectors[k] = C(k)
      BY <2>1
    <2>5. Learn(size, st.p, rows[j]) \in P /\ M(j) \in W /\ C(j) \in {0, 1}
      BY <1>0, <2>1, <2>2, <2>4, LearnKeeps, GuessedBack
    <2> DEFINE a == Learn(size, st.p, rows[j])
    <2> HIDE DEF P, W, st, en, a
    <2>6. en.p = a /\ en.residual = Append(st.residual, M(j)) /\ en.selectors = Append(st.selectors, C(j))
      BY <2>3 DEF a
    <2>7. en.residual \in Seq(W) /\ en.selectors \in Seq({0, 1}) /\ Len(en.residual) = j
          /\ Len(en.selectors) = j
      BY <2>1, <2>4, <2>5, <2>6
    <2>8. ASSUME NEW k \in 1..j
          PROVE  en.residual[k] = M(k) /\ en.selectors[k] = C(k)
      <3>1. CASE k = j
        BY <2>1, <2>4, <2>6, <3>1
      <3>2. CASE k # j
        <4>1. k \in 1..i
          BY <2>1, <3>2
        <4> QED
          BY <2>4, <2>6, <4>1
      <3> QED
        BY <3>1, <3>2
    <2>9. Good(j)
      BY <2>5, <2>6, <2>7, <2>8 DEF en, a
    <2> HIDE DEF Good
    <2> QED
      BY <2>1, <2>9
  <1>12. \A i \in 0..n : i \in S
    <2> HIDE DEF S
    <2> QED
      BY <1>0, <1>10, <1>11, InductTo
  <1>13. \A i \in 0..n : Good(i)
    BY <1>12
  <1>14. \A i \in 1..n : h[i].p = Learn(size, h[i - 1].p, rows[i])
    <2> TAKE i \in 1..n
    <2> DEFINE k == i - 1
    <2>1. k \in 0..n - 1 /\ k + 1 = i
      BY <1>0
    <2> HIDE DEF k
    <2>2. h[k + 1] = FpcEncodeStep(size, h[k], rows[k + 1])
      BY <1>9, <2>1
    <2>3. h[i] = FpcEncodeStep(size, h[k], rows[i])
      BY <2>1, <2>2
    <2>4. h[i].p = Learn(size, h[k].p, rows[i])
      BY <2>3, EncodeStepIs
    <2> QED
      BY <2>4 DEF k
  <1>15. h[0].p = NewPredictors
    BY <1>9 DEF first
  <1>16. Learned(size, rows, h)
    <2> HIDE DEF P, W, w
    <2> QED
      BY <1>a, <1>13, <1>14, <1>15 DEF Learned, P, W, w, n
  <1> HIDE DEF result
  <1>17. dtype.kind = "float" /\ FpcEncode(dtype, rows) = result
    BY <1>8
  <1> QED
    BY <1>15, <1>16, <1>17 DEF result, n

\* A sequence behind another.
LEMMA TwoJoined ==
    ASSUME NEW S, NEW a \in Seq(S), NEW b \in Seq(S)
    PROVE  /\ a \o b \in Seq(S)
           /\ Len(a \o b) = Len(a) + Len(b)
           /\ \A i \in 1..Len(a) : (a \o b)[i] = a[i]
           /\ \A i \in 1..Len(b) : (a \o b)[Len(a) + i] = b[i]
  <1> DEFINE t == a \o b
             n == Len(a)
             m == Len(b)
  <1>1. /\ t \in Seq(S)
        /\ Len(t) = n + m
        /\ \A i \in 1..n + m : t[i] = IF i <= n THEN a[i] ELSE b[i - n]
    BY ConcatProperties
  <1>2. n \in Nat /\ m \in Nat
    OBVIOUS
  <1> HIDE DEF t, n, m
  <1>3. ASSUME NEW i \in 1..n PROVE t[i] = a[i]
    BY <1>1, <1>2
  <1>4. ASSUME NEW i \in 1..m PROVE t[n + i] = b[i]
    <2> DEFINE j == n + i
    <2>1. j \in 1..n + m /\ ~ (j <= n) /\ j - n = i
      BY <1>2
    <2> HIDE DEF j
    <2>2. t[j] = b[i]
      BY <1>1, <2>1
    <2> QED
      BY <2>2 DEF j
  <1> QED
    BY <1>1, <1>3, <1>4 DEF t, n, m

\* Where the parts of three joined sequences end up.
LEMMA ThreeJoined ==
    ASSUME NEW x \in Int, NEW s \in Seq(Int), NEW f \in Seq(Int)
    PROVE  LET t == <<x>> \o s \o f
           IN  /\ Len(t) = 1 + Len(s) + Len(f)
               /\ \A i \in 1..Len(s) : t[i + 1] = s[i]
  <1> DEFINE o == <<x>>
             b == o \o s
             n == Len(s)
             m == Len(f)
             t == b \o f
  <1>1. o \in Seq(Int) /\ Len(o) = 1 /\ n \in Nat /\ m \in Nat
    OBVIOUS
  <1> HIDE DEF o
  <1>a. o \in Seq(Int) /\ s \in Seq(Int)
    BY <1>1
  <1>2. b \in Seq(Int)
    BY <1>a, TwoJoined
  <1>3. Len(b) = Len(o) + n /\ \A i \in 1..n : b[Len(o) + i] = s[i]
    BY <1>a, TwoJoined
  <1> HIDE DEF b
  <1>4. Len(t) = Len(b) + m /\ \A i \in 1..Len(b) : t[i] = b[i]
    <2>1. b \in Seq(Int) /\ f \in Seq(Int)
      BY <1>2
    <2> QED
      BY <2>1, TwoJoined
  <1> HIDE DEF t, n, m
  <1>5. ASSUME NEW i \in 1..n PROVE t[i + 1] = s[i]
    <2>1. Len(o) + i = i + 1 /\ i + 1 \in 1..Len(b)
      BY <1>1, <1>3
    <2>2. b[i + 1] = s[i]
      BY <1>3, <2>1
    <2> QED
      BY <1>4, <2>1, <2>2
  <1> QED
    BY <1>1, <1>3, <1>4, <1>5 DEF o, b, t, n, m

\* The rows come back: the decoder learns what the encoder learned.
LEMMA FpcBack ==
    ASSUME NEW dtype, dtype.size \in Nat, NEW rows \in Seq(WordsOf(Bits(dtype.size))),
           FpcEncode(dtype, rows).status = "ok"
    PROVE  LET r == FpcEncode(dtype, rows)
           IN  FpcDecode(dtype, Len(rows), r.residual, r.side) = [status |-> "ok", rows |-> rows]
  <1> DEFINE n == Len(rows)
             size == dtype.size
             w == Bits(size)
             W == WordsOf(w)
             r == FpcEncode(dtype, rows)
             fill == 8 * SelectorBytes(n) - n
  <1>1. PICK h : LET end == h[n]
                 IN  /\ Learned(size, rows, h) /\ h[0].p = NewPredictors
                     /\ dtype.kind = "float"
                     /\ r = [status |-> "ok", residual |-> end.residual,
                             side |-> IF rows = <<>> THEN <<>>
                                      ELSE <<TableBits>> \o end.selectors \o Fill(fill, 0)]
    BY FpcEncodes
  <1> DEFINE end == h[n]
             M(k) == Missed(size, h[k - 1].p, rows[k])
             C(k) == Chosen(size, h[k - 1].p, rows[k])
             side == r.side
             residual == r.residual
  <1> HIDE DEF r
  <1>2. /\ n \in Nat /\ dtype.kind = "float" /\ residual = end.residual
        /\ side = IF rows = <<>> THEN <<>> ELSE <<TableBits>> \o end.selectors \o Fill(fill, 0)
        /\ (rows = <<>> <=> n = 0) /\ h[0].p = NewPredictors
    BY <1>1
  <1>3. /\ \A i \in 1..n : h[i].p = Learn(size, h[i - 1].p, rows[i])
        /\ \A i \in 0..n : h[i].p \in Predictors(w)
        /\ end.residual \in Seq(W) /\ end.selectors \in Seq({0, 1})
        /\ Len(end.residual) = n /\ Len(end.selectors) = n
        /\ \A k \in 1..n : end.residual[k] = M(k) /\ end.selectors[k] = C(k)
    <2>1. n \in 0..n
      BY <1>2
    <2> QED
      BY <1>1, <2>1 DEF Learned
  <1>4. /\ fill \in Nat /\ 8 * SelectorBytes(n) = n + fill /\ SelectorBytes(n) \in Int
    <2> DEFINE a == n + 7
    <2>1. a \in Int /\ 8 \in Nat \ {0} /\ a = n + 7
      BY <1>2
    <2> HIDE DEF a
    <2>2. a \div 8 \in Int /\ a % 8 \in 0..7 /\ a = 8 * (a \div 8) + (a % 8)
      BY <2>1
    <2> DEFINE q == a \div 8
               m == a % 8
    <2>3. q \in Int /\ m \in 0..7 /\ a = 8 * q + m /\ SelectorBytes(n) = q
      BY <2>2 DEF SelectorBytes, a
    <2> HIDE DEF q, m
    <2> QED
      BY <1>2, <2>1, <2>3
  <1> HIDE DEF fill, M, C, end, residual, side
  <1>5. /\ n # 0 => Len(side) = 1 + 8 * SelectorBytes(n)
        /\ \A i \in 1..n : side[i + 1] = C(i)
    <2>1. CASE n = 0
      BY <1>2, <2>1
    <2>2. CASE n # 0
      <3> DEFINE f == Fill(fill, 0)
                 s == end.selectors
      <3>1. f \in Seq(Int) /\ Len(f) = fill
        BY <1>4, FillIs, 0 \in Int
      <3>2. s \in Seq(Int) /\ Len(s) = n /\ \A i \in 1..n : s[i] = C(i)
        BY <1>3
      <3>3. side = <<TableBits>> \o s \o f /\ TableBits \in Int
        BY <1>2, <2>2, FpcAssumption, ElementsAssumption
      <3> HIDE DEF f, s, n
      <3>4. /\ Len(<<TableBits>> \o s \o f) = 1 + Len(s) + Len(f)
            /\ \A i \in 1..Len(s) : (<<TableBits>> \o s \o f)[i + 1] = s[i]
        BY <3>1, <3>2, <3>3, ThreeJoined
      <3>5. /\ Len(side) = 1 + n + fill
            /\ \A i \in 1..n : side[i + 1] = C(i)
        BY <3>1, <3>2, <3>3, <3>4
      <3>6. 1 + n + fill = 1 + 8 * SelectorBytes(n)
        BY <1>2, <1>4
      <3> QED
        BY <3>5, <3>6
    <2> QED
      BY <2>1, <2>2
  <1>6. n = 0 => Len(side) = 0
    BY <1>2
  <1> DEFINE sofar(i) == SubSeq(rows, 1, i)
             e == [i \in 0..n |-> [p |-> h[i].p, rows |-> sofar(i)]]
             Step(i, st) == FpcDecodeStep(size, st, residual[i], side[i + 1])
             Def(f) == f = [i \in 0..n |-> IF i = 0 THEN [p |-> NewPredictors, rows |-> <<>>]
                                           ELSE Step(i, f[i - 1])]
             k0 == CHOOSE f : Def(f)
  <1>7. ASSUME NEW i \in 1..n PROVE e[i] = Step(i, e[i - 1])
    <2> DEFINE j == i - 1
               p == h[j].p
               cur == rows[i]
               guess == Guess(size, p, C(i))
    <2>1. j \in 0..n /\ i \in 0..n /\ j \in Nat /\ j < n /\ j + 1 = i
      BY <1>2
    <2>2. e[i] = [p |-> h[i].p, rows |-> sofar(i)] /\ e[j] = [p |-> p, rows |-> sofar(j)]
      BY <2>1
    <2>3. p \in Predictors(w) /\ cur \in W /\ size \in Nat
      BY <1>3, <2>1
    <2>4. C(i) = Chosen(size, p, cur) /\ M(i) = Missed(size, p, cur)
      BY DEF C, M
    <2>5. C(i) \in {0, 1} /\ Xor(w, guess, M(i)) = cur
      BY <2>3, <2>4, GuessedBack
    <2>6. residual[i] = M(i) /\ side[i + 1] = C(i)
      BY <1>2, <1>3, <1>5
    <2>7. h[i].p = Learn(size, p, cur)
      BY <1>3
    <2>8. Append(sofar(j), cur) = sofar(i)
      <3>1. SubSeq(rows, 1, j + 1) = Append(SubSeq(rows, 1, j), rows[j + 1])
        BY <2>1, OneMore
      <3> QED
        BY <2>1, <3>1
    <2> HIDE DEF j, cur, sofar
    <2>9. Step(i, e[j]) = [p |-> Learn(size, p, cur), rows |-> Append(sofar(j), cur)]
      <3> DEFINE st == e[j]
      <3>1. st.p = p /\ st.rows = sofar(j)
        BY <2>2
      <3> HIDE DEF st, e, p
      <3>2. (IF side[i + 1] = 1 THEN DfcmGuess(size, st.p) ELSE FcmGuess(st.p)) = guess
        BY <2>6, <3>1 DEF Guess
      <3>3. Xor(w, IF side[i + 1] = 1 THEN DfcmGuess(size, st.p) ELSE FcmGuess(st.p), residual[i]) = cur
        BY <2>5, <2>6, <3>2
      <3>4. Step(i, st) = [p |-> Learn(size, st.p, cur), rows |-> Append(st.rows, cur)]
        BY <3>3 DEF FpcDecodeStep
      <3> QED
        BY <3>1, <3>4 DEF st
    <2> QED
      BY <2>2, <2>7, <2>8, <2>9 DEF j
  <1>8. e[0] = [p |-> NewPredictors, rows |-> <<>>]
    <2>1. sofar(0) = <<>> /\ 0 \in 0..n
      BY <1>2
    <2> QED
      BY <1>2, <2>1
  <1>9. Def(e)
    <2>1. e = [i \in 0..n |-> e[i]]
      OBVIOUS
    <2> HIDE DEF e, Step
    <2>2. \A i \in 0..n : e[i] = IF i = 0 THEN [p |-> NewPredictors, rows |-> <<>>]
                                 ELSE Step(i, e[i - 1])
      <3>1. \A i \in 0..n : i = 0 \/ (i \in 1..n /\ i # 0)
        BY <1>2
      <3> QED
        BY <1>7, <1>8, <3>1, Zenon
    <2>3. [i \in 0..n |-> e[i]]
            = [i \in 0..n |-> IF i = 0 THEN [p |-> NewPredictors, rows |-> <<>>]
                              ELSE Step(i, e[i - 1])]
      BY <2>2, Zenon
    <2> QED
      BY <2>1, <2>3, Zenon
  <1>10. Def(k0)
    <2> HIDE DEF Def
    <2> QED
      BY <1>9, Zenon
  <1> DEFINE want == IF n = 0 THEN 0 ELSE 1 + 8 * SelectorBytes(n)
  <1>11. FpcDecode(dtype, n, residual, side) =
            IF dtype.kind # "float" THEN [status |-> "dtype"]
            ELSE IF Len(residual) # n \/ Len(side) # want THEN [status |-> "corrupt"]
            ELSE [status |-> "ok", rows |-> k0[n].rows]
    BY Zenon DEF FpcDecode
  <1> HIDE DEF k0, e, Step
  <1> DEFINE S == {i \in 0..n : k0[i] = e[i]}
  <1>12. 0 \in S
    <2>1. k0[0] = [p |-> NewPredictors, rows |-> <<>>]
      BY <1>2, <1>10
    <2> QED
      BY <1>2, <1>8, <2>1
  <1>13. ASSUME NEW i \in 0..n - 1, i \in S PROVE i + 1 \in S
    <2> DEFINE j == i + 1
    <2>1. j \in 0..n /\ j \in 1..n /\ j # 0 /\ j - 1 = i /\ k0[i] = e[i]
      BY <1>2, <1>13
    <2> HIDE DEF j
    <2>2. k0[j] = Step(j, k0[j - 1])
      BY <1>10, <2>1, Zenon
    <2>3. e[j] = Step(j, e[j - 1])
      BY <1>7, <2>1
    <2> QED
      BY <2>1, <2>2, <2>3 DEF j
  <1>14. k0[n] = e[n]
    <2> HIDE DEF S
    <2>1. \A i \in 0..n : i \in S
      BY <1>2, <1>12, <1>13, InductTo
    <2>2. n \in S
      BY <1>2, <2>1
    <2> QED
      BY <2>2 DEF S
  <1>15. e[n].rows = rows
    <2>1. sofar(n) = rows
      OBVIOUS
    <2>2. n \in 0..n
      BY <1>2
    <2> QED
      BY <2>1, <2>2 DEF e
  <1>16. Len(residual) = n /\ Len(side) = want
    BY <1>2, <1>3, <1>4, <1>5, <1>6
  <1> HIDE DEF want
  <1>17. FpcDecode(dtype, n, residual, side) = [status |-> "ok", rows |-> rows]
    BY <1>2, <1>11, <1>14, <1>15, <1>16
  <1> QED
    BY <1>17 DEF n, residual, side, r

----------------------------------------------------------------------------
(* Pieces of blocks, and lanes.                                            *)

\* A piece of a block, element by element.
LEMMA PieceIs ==
    ASSUME NEW S, NEW s \in Seq(S), NEW lo \in Nat, NEW hi \in Nat, lo <= hi, hi <= Len(s)
    PROVE  /\ Slice(s, lo, hi) \in Seq(S) /\ Len(Slice(s, lo, hi)) = hi - lo
           /\ \A k \in 1..hi - lo : Slice(s, lo, hi)[k] = s[lo + k]
  <1> DEFINE t == SubSeq(s, lo + 1, hi)
             m == lo + 1
  <1>1. /\ t \in Seq(S) /\ Len(t) = hi - lo
    OBVIOUS
  <1>2. ASSUME NEW k \in 1..hi - lo PROVE t[k] = s[lo + k]
    <2>1. t[k] = s[k + m - 1] /\ k + m - 1 = lo + k
      OBVIOUS
    <2> QED
      BY <2>1
  <1> QED
    BY <1>1, <1>2 DEF Slice

\* Two neighbouring pieces.
LEMMA PiecesJoin ==
    ASSUME NEW S, NEW s \in Seq(S), NEW lo \in Nat, NEW hi \in Nat, lo <= hi, hi <= Len(s)
    PROVE  Slice(s, 0, lo) \o Slice(s, lo, hi) = Slice(s, 0, hi)
  <1> DEFINE a == Slice(s, 0, lo)
             b == Slice(s, lo, hi)
             c == Slice(s, 0, hi)
             t == a \o b
  <1>0. 0 \in Nat /\ 0 <= lo /\ lo <= Len(s) /\ 0 <= hi
    OBVIOUS
  <1>1. a \in Seq(S) /\ Len(a) = lo - 0 /\ \A k \in 1..lo - 0 : a[k] = s[0 + k]
    BY <1>0, PieceIs
  <1>2. b \in Seq(S) /\ Len(b) = hi - lo /\ \A k \in 1..hi - lo : b[k] = s[lo + k]
    BY PieceIs
  <1>3. c \in Seq(S) /\ Len(c) = hi - 0 /\ \A k \in 1..hi - 0 : c[k] = s[0 + k]
    BY <1>0, PieceIs
  <1> HIDE DEF a, b, c
  <1>a. a \in Seq(S) /\ b \in Seq(S)
    BY <1>1, <1>2
  <1>4. /\ t \in Seq(S) /\ Len(t) = Len(a) + Len(b)
        /\ \A i \in 1..Len(a) : t[i] = a[i]
        /\ \A i \in 1..Len(b) : t[Len(a) + i] = b[i]
    BY <1>a, TwoJoined
  <1> HIDE DEF t
  <1>5. ASSUME NEW k \in 1..hi PROVE t[k] = c[k]
    <2>1. CASE k <= lo
      BY <1>1, <1>3, <1>4, <2>1
    <2>2. CASE ~ (k <= lo)
      <3> DEFINE i == k - lo
      <3>1. i \in 1..hi - lo /\ lo + i = k
        BY <2>2
      <3> HIDE DEF i
      <3>2. t[Len(a) + i] = b[i] /\ Len(a) = lo
        BY <1>1, <1>2, <1>4, <3>1
      <3>3. b[i] = s[k]
        BY <1>2, <3>1
      <3>4. c[k] = s[k]
        BY <1>3
      <3> QED
        BY <3>1, <3>2, <3>3, <3>4
    <2> QED
      BY <2>1, <2>2
  <1>6. Len(t) = Len(c) /\ Len(t) = hi
    BY <1>1, <1>2, <1>3, <1>4
  <1>7. t = c
    <2>1. t \in Seq(S) /\ c \in Seq(S)
      BY <1>3, <1>4
    <2>2. \A k \in 1..Len(t) : t[k] = c[k]
      BY <1>5, <1>6
    <2> QED
      BY <1>6, <2>1, <2>2, SeqEqual
  <1> QED
    BY <1>7 DEF t, a, b, c

\* The whole block as a piece of itself.
LEMMA WholePiece ==
    ASSUME NEW S, NEW s \in Seq(S)
    PROVE  Slice(s, 0, Len(s)) = s
  BY DEF Slice

\* v is a register of some lanes, each a word.
Register(W, lanes, v) == v \in Seq(W) /\ Len(v) = lanes

\* A register moved up, lane by lane.
LEMMA SlliIs ==
    ASSUME NEW W, 0 \in W, NEW v \in Seq(W), NEW k \in 0..Len(v)
    PROVE  /\ Register(W, Len(v), SlliLanes(v, k))
           /\ \A i \in 1..Len(v) : SlliLanes(v, k)[i] = IF i <= k THEN 0 ELSE v[i - k]
  <1> DEFINE n == Len(v)
             z == Fill(k, 0)
             b == SubSeq(v, 1, n - k)
             t == z \o b
  <1>1. n \in Nat /\ k \in Nat /\ k <= n
    OBVIOUS
  <1>2. z \in Seq(W) /\ Len(z) = k /\ \A i \in 1..k : z[i] = 0
    BY <1>1, FillIs
  <1>3. b \in Seq(W) /\ Len(b) = n - k /\ \A i \in 1..n - k : b[i] = v[i]
    OBVIOUS
  <1> HIDE DEF z, b
  <1>a. z \in Seq(W) /\ b \in Seq(W)
    BY <1>2, <1>3
  <1>4. /\ t \in Seq(W) /\ Len(t) = Len(z) + Len(b)
        /\ \A i \in 1..Len(z) : t[i] = z[i]
        /\ \A i \in 1..Len(b) : t[Len(z) + i] = b[i]
    BY <1>a, TwoJoined
  <1> HIDE DEF t
  <1>5. ASSUME NEW i \in 1..n PROVE t[i] = IF i <= k THEN 0 ELSE v[i - k]
    <2>1. CASE i <= k
      BY <1>1, <1>2, <1>4, <2>1
    <2>2. CASE ~ (i <= k)
      <3> DEFINE j == i - k
      <3>1. j \in 1..n - k /\ k + j = i
        BY <1>1, <2>2
      <3> HIDE DEF j
      <3>2. t[Len(z) + j] = b[j] /\ b[j] = v[j]
        BY <1>2, <1>3, <1>4, <3>1
      <3> QED
        BY <1>2, <2>2, <3>1, <3>2 DEF j
    <2> QED
      BY <2>1, <2>2
  <1>6. Len(t) = n
    BY <1>1, <1>2, <1>3, <1>4
  <1>7. SlliLanes(v, k) = t
    BY DEF SlliLanes, t, z, b
  <1> QED
    BY <1>4, <1>5, <1>6, <1>7 DEF Register

\* A register extracted from two, lane by lane.
LEMMA ExtIs ==
    ASSUME NEW W, NEW n \in Nat, NEW u, Register(W, n, u), NEW v, Register(W, n, v),
           NEW k \in 0..n
    PROVE  /\ Register(W, n, ExtLanes(u, v, k))
           /\ \A i \in 1..n : ExtLanes(u, v, k)[i] = IF i <= n - k THEN u[k + i]
                                                     ELSE v[i - (n - k)]
  <1> DEFINE a == Slice(u, k, n)
             b == Slice(v, 0, k)
             t == a \o b
  <1>1. u \in Seq(W) /\ Len(u) = n /\ v \in Seq(W) /\ Len(v) = n
    BY DEF Register
  <1>b. k \in Nat /\ n \in Nat /\ k <= n /\ n <= Len(u) /\ 0 \in Nat /\ 0 <= k /\ k <= Len(v)
    BY <1>1
  <1>2. a \in Seq(W) /\ Len(a) = n - k /\ \A i \in 1..n - k : a[i] = u[k + i]
    BY <1>1, <1>b, PieceIs
  <1>3. b \in Seq(W) /\ Len(b) = k - 0 /\ \A i \in 1..k - 0 : b[i] = v[0 + i]
    BY <1>1, <1>b, PieceIs
  <1>4. ExtLanes(u, v, k) = t
    BY <1>1 DEF ExtLanes, Slice
  <1> HIDE DEF a, b
  <1>a. a \in Seq(W) /\ b \in Seq(W)
    BY <1>2, <1>3
  <1>5. /\ t \in Seq(W) /\ Len(t) = Len(a) + Len(b)
        /\ \A i \in 1..Len(a) : t[i] = a[i]
        /\ \A i \in 1..Len(b) : t[Len(a) + i] = b[i]
    BY <1>a, TwoJoined
  <1> HIDE DEF t
  <1>6. ASSUME NEW i \in 1..n PROVE t[i] = IF i <= n - k THEN u[k + i] ELSE v[i - (n - k)]
    <2>1. CASE i <= n - k
      BY <1>1, <1>2, <1>5, <2>1
    <2>2. CASE ~ (i <= n - k)
      <3> DEFINE j == i - (n - k)
      <3>1. j \in 1..k /\ (n - k) + j = i /\ 0 + j = j
        BY <1>1, <2>2
      <3> HIDE DEF j
      <3>2. t[Len(a) + j] = b[j] /\ b[j] = v[j]
        BY <1>1, <1>2, <1>3, <1>5, <3>1
      <3> QED
        BY <1>2, <2>2, <3>1, <3>2 DEF j
    <2> QED
      BY <2>1, <2>2
  <1>7. Len(t) = n
    BY <1>1, <1>2, <1>3, <1>5
  <1> QED
    BY <1>4, <1>5, <1>6, <1>7 DEF Register

\* A register moved up: by either set of instructions.
LEMMA MovedUpIs ==
    ASSUME NEW W, 0 \in W, NEW build, NEW v \in Seq(W), NEW k \in 0..Len(v)
    PROVE  /\ Register(W, Len(v), MovedUp(build, v, k))
           /\ \A i \in 1..Len(v) : MovedUp(build, v, k)[i] = IF i <= k THEN 0 ELSE v[i - k]
  <1>1. CASE build = "sse2"
    BY <1>1, SlliIs DEF MovedUp
  <1>2. CASE build # "sse2"
    <2> DEFINE n == Len(v)
               z == Fill(n, 0)
               m == n - k
               t == ExtLanes(z, v, m)
    <2>1. n \in Nat /\ m \in 0..n /\ n - m = k /\ k \in Nat
      OBVIOUS
    <2>2. z \in Seq(W) /\ Len(z) = n /\ \A i \in 1..n : z[i] = 0
      BY <2>1, FillIs
    <2>3. Register(W, n, z) /\ Register(W, n, v)
      BY <2>2 DEF Register
    <2>4. MovedUp(build, v, k) = t
      BY <1>2 DEF MovedUp
    <2> HIDE DEF n, z, m
    <2>5. /\ Register(W, n, t)
          /\ \A i \in 1..n : t[i] = IF i <= n - m THEN z[m + i] ELSE v[i - (n - m)]
      BY <2>1, <2>3, ExtIs
    <2> HIDE DEF t
    <2>6. ASSUME NEW i \in 1..n PROVE t[i] = IF i <= k THEN 0 ELSE v[i - k]
      <3>1. CASE i <= k
        <4>1. m + i \in 1..n
          BY <2>1, <3>1
        <4> QED
          BY <2>1, <2>2, <2>5, <3>1, <4>1
      <3>2. CASE ~ (i <= k)
        BY <2>1, <2>5, <3>2
      <3> QED
        BY <3>1, <3>2
    <2> QED
      BY <2>4, <2>5, <2>6 DEF n
  <1> QED
    BY <1>1, <1>2

\* Sums and differences that wrap are words.
LEMMA SumsAreWords ==
    ASSUME NEW w \in Nat, NEW a \in Int, NEW b \in Int
    PROVE  Add(w, a, b) \in WordsOf(w) /\ Sub(w, a, b) \in WordsOf(w)
  <1> DEFINE c == a + b
             d == a - b
  <1>1. c \in Int /\ d \in Int
    OBVIOUS
  <1> HIDE DEF c, d
  <1>2. c % 2^w \in WordsOf(w) /\ d % 2^w \in WordsOf(w)
    BY <1>1, Wraps
  <1> QED
    BY <1>2 DEF c, d, Add, Sub

\* Words are natural numbers, zero among them.
LEMMA WordsAreNumbers ==
    ASSUME NEW w \in Nat
    PROVE  WordsOf(w) \subseteq Nat /\ 0 \in WordsOf(w)
  BY 0 \in Int, Wraps

\* Lane by lane.
LEMMA AddLanesIs ==
    ASSUME NEW w \in Nat, NEW n \in Nat, NEW u, Register(WordsOf(w), n, u),
           NEW v, Register(WordsOf(w), n, v)
    PROVE  /\ Register(WordsOf(w), n, AddLanes(w, u, v))
           /\ \A i \in 1..n : AddLanes(w, u, v)[i] = Add(w, u[i], v[i])
  <1> DEFINE W == WordsOf(w)
             t == [i \in 1..n |-> Add(w, u[i], v[i])]
  <1>1. u \in Seq(W) /\ Len(u) = n /\ v \in Seq(W) /\ Len(v) = n
    BY DEF Register
  <1>2. AddLanes(w, u, v) = t
    BY <1>1 DEF AddLanes
  <1>3. \A i \in 1..n : Add(w, u[i], v[i]) \in W
    <2> TAKE i \in 1..n
    <2>1. u[i] \in W /\ v[i] \in W
      BY <1>1
    <2>2. u[i] \in Int /\ v[i] \in Int
      BY <2>1, WordsAreNumbers
    <2> QED
      BY <2>2, SumsAreWords
  <1> HIDE DEF W
  <1>4. t \in Seq(W) /\ Len(t) = n
    BY <1>3
  <1> QED
    BY <1>2, <1>4 DEF Register, W

\* The difference of two registers, lane by lane.
LEMMA SubLanesIs ==
    ASSUME NEW w \in Nat, NEW n \in Nat, NEW u, Register(WordsOf(w), n, u),
           NEW v, Register(WordsOf(w), n, v)
    PROVE  /\ Register(WordsOf(w), n, SubLanes(w, u, v))
           /\ \A i \in 1..n : SubLanes(w, u, v)[i] = Sub(w, u[i], v[i])
  <1> DEFINE W == WordsOf(w)
             t == [i \in 1..n |-> Sub(w, u[i], v[i])]
  <1>1. u \in Seq(W) /\ Len(u) = n /\ v \in Seq(W) /\ Len(v) = n
    BY DEF Register
  <1>2. SubLanes(w, u, v) = t
    BY <1>1 DEF SubLanes
  <1>3. \A i \in 1..n : Sub(w, u[i], v[i]) \in W
    <2> TAKE i \in 1..n
    <2>1. u[i] \in W /\ v[i] \in W
      BY <1>1
    <2>2. u[i] \in Int /\ v[i] \in Int
      BY <2>1, WordsAreNumbers
    <2> QED
      BY <2>2, SumsAreWords
  <1> HIDE DEF W
  <1>4. t \in Seq(W) /\ Len(t) = n
    BY <1>3
  <1> QED
    BY <1>2, <1>4 DEF Register, W

----------------------------------------------------------------------------
(* Differences that wrap, and their sums.                                  *)

\* The difference over two steps, from those over one.
LEMMA Telescopes ==
    ASSUME NEW w \in Nat, NEW x \in Int, NEW y \in Int, NEW z \in Int
    PROVE  Add(w, Sub(w, x, y), Sub(w, y, z)) = Sub(w, x, z)
  <1> DEFINE m == 2^w
             a == x - y
             b == y - z
             qa == a \div m
             ra == a % m
             qb == b \div m
             rb == b % m
             c == ra + rb
             qc == c \div m
             rc == c % m
  <1>1. m \in Nat \ {0} /\ a \in Int /\ b \in Int
    BY PowerPositive
  <1> HIDE DEF m
  <1>2. qa \in Int /\ ra \in 0..m - 1 /\ a = m * qa + ra
    <2> HIDE DEF a
    <2> QED
      BY <1>1, DivMod
  <1>3. qb \in Int /\ rb \in 0..m - 1 /\ b = m * qb + rb
    <2> HIDE DEF b
    <2> QED
      BY <1>1, DivMod
  <1>4. x - z = a + b
    OBVIOUS
  <1> HIDE DEF qa, ra, qb, rb, a, b
  <1>5. c \in Int
    BY <1>1, <1>2, <1>3
  <1>6. qc \in Int /\ rc \in 0..m - 1 /\ c = m * qc + rc
    <2> HIDE DEF c
    <2> QED
      BY <1>1, <1>5, DivMod
  <1> HIDE DEF qc, rc
  <1> DEFINE q == qa + qb + qc
             ma == m * qa
             mb == m * qb
             mc == m * qc
  <1>7. q \in Int /\ m * q = ma + mb + mc /\ ma \in Int /\ mb \in Int /\ mc \in Int
    BY <1>1, <1>2, <1>3, <1>6
  <1>8. x - z = m * q + rc
    <2>1. a = ma + ra /\ b = mb + rb /\ ra + rb = mc + rc
      BY <1>2, <1>3, <1>6 DEF c
    <2> HIDE DEF ma, mb, mc, q
    <2>2. a + b = (ma + mb + mc) + rc
      BY <1>1, <1>2, <1>3, <1>6, <1>7, <2>1
    <2> QED
      BY <1>4, <1>7, <2>2
  <1> HIDE DEF q
  <1>9. (m * q + rc) % m = rc
    BY <1>1, <1>6, <1>7, DivModIs
  <1>10. (x - z) % m = rc
    BY <1>8, <1>9
  <1>11. Add(w, Sub(w, x, y), Sub(w, y, z)) = c % m /\ Sub(w, x, z) = (x - z) % m
    BY DEF Add, Sub, c, ra, rb, a, b, m
  <1> QED
    BY <1>10, <1>11 DEF rc

\* Adding or taking away nothing.
LEMMA SubNothing ==
    ASSUME NEW w \in Nat, NEW x \in WordsOf(w)
    PROVE  Sub(w, x, 0) = x /\ Add(w, x, 0) = x /\ Add(w, 0, x) = x /\ x \in Int
  <1> DEFINE m == 2^w
  <1>1. m \in Nat \ {0} /\ x \in 0..m - 1
    BY PowerPositive DEF WordsOf
  <1> HIDE DEF m
  <1>2. (m * 0 + x) % m = x
    BY <1>1, 0 \in Int, DivModIs
  <1>3. m * 0 + x = x /\ x - 0 = x /\ x + 0 = x /\ 0 + x = x
    BY <1>1
  <1>4. x % m = x
    BY <1>2, <1>3
  <1> QED
    BY <1>1, <1>3, <1>4 DEF Add, Sub, m

\* The element before and the difference from it.
LEMMA SumOfDifference ==
    ASSUME NEW w \in Nat, NEW x \in WordsOf(w), NEW y \in WordsOf(w)
    PROVE  Add(w, Sub(w, x, y), y) = x /\ Add(w, y, Sub(w, x, y)) = x
  <1>1. x \in Int /\ y \in Int /\ 0 \in Int /\ Sub(w, y, 0) = y /\ Sub(w, x, 0) = x
    BY SubNothing
  <1>2. Add(w, Sub(w, x, y), Sub(w, y, 0)) = Sub(w, x, 0)
    BY <1>1, Telescopes
  <1>3. Add(w, y, Sub(w, x, y)) = Add(w, Sub(w, x, y), y)
    <2> DEFINE d == Sub(w, x, y)
    <2>a. x \in Int /\ y \in Int
      BY <1>1
    <2>b. d \in WordsOf(w)
      BY <2>a, SumsAreWords
    <2> HIDE DEF d
    <2>1. d \in Int
      BY <2>b, WordsAreNumbers
    <2>2. y + d = d + y
      BY <1>1, <2>1
    <2> QED
      BY <2>2 DEF Add, d
  <1> QED
    BY <1>1, <1>2, <1>3

----------------------------------------------------------------------------
(* The kernels, on the differences of a block.                             *)

\* x is the block with a zero before it, d its differences.
Differs(w, n, x, d) ==
    /\ x \in [0..n -> WordsOf(w)]
    /\ d \in Seq(WordsOf(w)) /\ Len(d) = n
    /\ \A i \in 1..n : d[i] = Sub(w, x[i], x[i - 1])

\* Lane i of v holds the difference of element p + i from the one s before it,
\* or from element p where that is further back.
Behind(i, s) == IF i <= s THEN 0 ELSE i - s
Lagged(w, x, p, lanes, s, v) ==
    /\ Register(WordsOf(w), lanes, v)
    /\ \A i \in 1..lanes : v[i] = Sub(w, x[p + i], x[p + Behind(i, s)])

\* A pass doubles the number of differences each lane adds up.
LEMMA PassDoubles ==
    ASSUME NEW w \in Nat, NEW n \in Nat, NEW x \in [0..n -> WordsOf(w)], NEW p \in Nat,
           NEW lanes \in Nat, p + lanes <= n, NEW s \in 1..lanes,
           NEW v, Lagged(w, x, p, lanes, s, v), NEW build
    PROVE  Lagged(w, x, p, lanes, 2 * s, AddLanes(w, v, MovedUp(build, v, s)))
  <1> DEFINE W == WordsOf(w)
             u == MovedUp(build, v, s)
             t == AddLanes(w, v, u)
  <1>1. v \in Seq(W) /\ Len(v) = lanes /\ s \in 0..Len(v) /\ 0 \in W /\ Register(W, lanes, v)
    BY WordsAreNumbers DEF Lagged, Register
  <1>2. Register(W, lanes, u) /\ \A i \in 1..lanes : u[i] = IF i <= s THEN 0 ELSE v[i - s]
    <2> HIDE DEF W
    <2> QED
      BY <1>1, MovedUpIs
  <1> HIDE DEF u
  <1>3. Register(W, lanes, t) /\ \A i \in 1..lanes : t[i] = Add(w, v[i], u[i])
    BY <1>1, <1>2, AddLanesIs
  <1>4. ASSUME NEW i \in 1..lanes PROVE t[i] = Sub(w, x[p + i], x[p + Behind(i, 2 * s)])
    <2> DEFINE j == Behind(i, s)
               k == Behind(i, 2 * s)
               a == x[p + i]
               b == x[p + j]
               c == x[p + k]
    <2>1. /\ p + i \in 0..n /\ p + j \in 0..n /\ p + k \in 0..n /\ j \in Nat /\ k \in Nat
      BY DEF Behind
    <2>2. a \in W /\ b \in W /\ c \in W
      BY <2>1
    <2>3. v[i] = Sub(w, a, b)
      BY DEF Lagged
    <2>4. t[i] = Add(w, v[i], u[i])
      BY <1>3
    <2>5. a \in Int /\ b \in Int /\ c \in Int
      <3> HIDE DEF a, b, c
      <3> QED
        BY <2>2, WordsAreNumbers
    <2>6. CASE i <= s
      <3>1. u[i] = 0 /\ j = 0 /\ k = 0
        BY <1>2, <2>6 DEF Behind
      <3>2. c = b
        BY <3>1
      <3>3. Sub(w, a, b) \in W
        <4> HIDE DEF a, b
        <4> QED
          BY <2>5, SumsAreWords
      <3>4. Add(w, Sub(w, a, b), 0) = Sub(w, a, b)
        <4> HIDE DEF a, b
        <4> QED
          BY <3>3, SubNothing
      <3> QED
        BY <2>3, <2>4, <3>1, <3>2, <3>4
    <2>7. CASE ~ (i <= s)
      <3>1. u[i] = v[j] /\ j = i - s /\ j \in 1..lanes /\ Behind(j, s) = k
        BY <1>2, <2>7 DEF Behind
      <3> HIDE DEF j
      <3>2. v[j] = Sub(w, x[p + j], x[p + Behind(j, s)])
        BY <3>1 DEF Lagged
      <3> HIDE DEF k
      <3>3. v[j] = Sub(w, b, c)
        BY <3>1, <3>2
      <3> HIDE DEF a, b, c
      <3>4. Add(w, Sub(w, a, b), Sub(w, b, c)) = Sub(w, a, c)
        BY <2>5, Telescopes
      <3>5. t[i] = Sub(w, a, c)
        BY <2>3, <2>4, <3>1, <3>3, <3>4
      <3> QED
        BY <3>5 DEF a, c, k
    <2> QED
      BY <2>6, <2>7
  <1> HIDE DEF t
  <1> QED
    BY <1>3, <1>4 DEF Lagged, t, u

\* The passes leave every lane's difference from the element before the
\* register.
LEMMA PrefixSumsAre ==
    ASSUME NEW w \in Nat, NEW n \in Nat, NEW x \in [0..n -> WordsOf(w)], NEW p \in Nat,
           NEW lanes \in {2, 4, 8}, p + lanes <= n, NEW v, Lagged(w, x, p, lanes, 1, v),
           NEW build
    PROVE  Lagged(w, x, p, lanes, lanes, PrefixSums(build, w, v))
  <1> DEFINE pass(u, k) == AddLanes(w, u, MovedUp(build, u, k))
             one == pass(v, 1)
             two == pass(one, 2)
             four == pass(two, 4)
  <1>0. Len(v) = lanes /\ lanes \in Nat /\ p + lanes <= n
    BY DEF Lagged, Register
  <1>1. 1 \in 1..lanes /\ 2 * 1 = 2 /\ 2 * 2 = 4 /\ 2 * 4 = 8 /\ 2 \in 1..lanes
    OBVIOUS
  <1>2. Lagged(w, x, p, lanes, 2, one)
    <2>1. Lagged(w, x, p, lanes, 2 * 1, one)
      BY <1>0, <1>1, PassDoubles
    <2> QED
      BY <1>1, <2>1
  <1>3. PrefixSums(build, w, v) =
            CASE Len(v) = 2 -> one [] Len(v) = 4 -> two [] Len(v) = 8 -> four
    BY Zenon DEF PrefixSums
  <1> HIDE DEF one
  <1>4. Lagged(w, x, p, lanes, 4, two)
    <2>1. Lagged(w, x, p, lanes, 2 * 2, two)
      BY <1>0, <1>1, <1>2, PassDoubles
    <2> QED
      BY <1>1, <2>1
  <1> HIDE DEF two
  <1>5. lanes = 8 => Lagged(w, x, p, lanes, 8, four)
    <2> SUFFICES ASSUME lanes = 8 PROVE Lagged(w, x, p, lanes, 8, four)
      OBVIOUS
    <2>1. 4 \in 1..lanes
      OBVIOUS
    <2>2. Lagged(w, x, p, lanes, 2 * 4, four)
      BY <1>0, <2>1, <1>4, PassDoubles
    <2> QED
      BY <1>1, <2>2
  <1> HIDE DEF four
  <1> QED
    BY <1>0, <1>2, <1>3, <1>4, <1>5

\* One word in every lane.
Evenly(W, lanes, y, v) == Register(W, lanes, v) /\ \A i \in 1..lanes : v[i] = y

\* A register with one value in every lane.
LEMMA EvenIs ==
    ASSUME NEW W, NEW lanes \in Nat, NEW y \in W, NEW v, Evenly(W, lanes, y, v)
    PROVE  v = Fill(lanes, y)
  <1> DEFINE f == Fill(lanes, y)
  <1>1. f \in Seq(W) /\ Len(f) = lanes /\ \A i \in 1..lanes : f[i] = y
    BY FillIs
  <1>2. v \in Seq(W) /\ Len(v) = lanes /\ \A i \in 1..lanes : v[i] = y
    BY DEF Evenly, Register
  <1> HIDE DEF f
  <1>3. f \in Seq(W) /\ v \in Seq(W) /\ Len(v) = Len(f) /\ \A i \in 1..Len(v) : v[i] = f[i]
    BY <1>1, <1>2
  <1>4. v = f
    BY <1>3, SeqEqual
  <1> QED
    BY <1>4 DEF f

\* The last lane in every lane, on either way.
LEMMA TopIs ==
    ASSUME NEW W, 0 \in W, NEW lanes \in {2, 4, 8}, NEW v, Register(W, lanes, v), NEW build
    PROVE  TopEverywhere(build, v) = Fill(lanes, v[lanes])
  <1> DEFINE y == v[lanes]
             low == SrliLanes(v, Len(v) - 1)
             f4 == Fill(4, low[1])
             l4 == SubSeq(low, 5, 8)
             four == f4 \o l4
             t == [i \in 1..8 |-> four[(i + 1) \div 2]]
  <1>1. v \in Seq(W) /\ Len(v) = lanes /\ y \in W
    BY DEF Register
  <1>2. CASE ~ (build = "sse2" /\ lanes = 8)
    BY <1>1, <1>2 DEF TopEverywhere
  <1>3. CASE build = "sse2" /\ lanes = 8
    <2>1. TopEverywhere(build, v) = t
      BY <1>1, <1>3 DEF TopEverywhere
    <2>2. low \in Seq(W) /\ Len(low) = 8 /\ low[1] = y
      <3> DEFINE a == SubSeq(v, 8, 8)
                 z == Fill(7, 0)
      <3>1. a \in Seq(W) /\ Len(a) = 1 /\ a[1] = y
        BY <1>1, <1>3
      <3>2. z \in Seq(W) /\ Len(z) = 7
        BY 7 \in Nat, FillIs
      <3>3. low = a \o z
        BY <1>1, <1>3 DEF SrliLanes
      <3> HIDE DEF a, z, low
      <3>a. a \in Seq(W) /\ z \in Seq(W)
        BY <3>1, <3>2
      <3>4. /\ a \o z \in Seq(W) /\ Len(a \o z) = Len(a) + Len(z)
            /\ \A i \in 1..Len(a) : (a \o z)[i] = a[i]
        BY <3>a, TwoJoined
      <3>5. 1 \in 1..Len(a)
        BY <3>1
      <3> QED
        BY <3>1, <3>2, <3>3, <3>4, <3>5
    <2> HIDE DEF low, y
    <2>3. f4 \in Seq(W) /\ Len(f4) = 4 /\ \A i \in 1..4 : f4[i] = y
      <3>1. 4 \in Nat /\ low[1] \in W
        BY <1>1, <2>2
      <3>2. f4 \in Seq(W) /\ Len(f4) = 4 /\ \A i \in 1..4 : f4[i] = low[1]
        BY <3>1, FillIs
      <3> HIDE DEF f4
      <3> QED
        BY <2>2, <3>2
    <2>4. l4 \in Seq(W)
      <3>1. low \in Seq(W) /\ 4 \in Nat /\ 8 \in Nat /\ 4 <= 8 /\ 8 <= Len(low)
        BY <2>2
      <3>2. Slice(low, 4, 8) \in Seq(W)
        BY <3>1, PieceIs
      <3> QED
        BY <3>2 DEF Slice
    <2> HIDE DEF f4, l4
    <2>a. f4 \in Seq(W) /\ l4 \in Seq(W)
      BY <2>3, <2>4
    <2>5. \A i \in 1..Len(f4) : four[i] = f4[i]
      BY <2>a, TwoJoined
    <2> HIDE DEF four
    <2>6. ASSUME NEW i \in 1..8 PROVE t[i] = y
      <3> DEFINE k == (i + 1) \div 2
      <3>1. k \in 1..4
        OBVIOUS
      <3>2. t[i] = four[k]
        OBVIOUS
      <3> HIDE DEF k, t
      <3> QED
        BY <2>3, <2>5, <3>1, <3>2
    <2>7. t \in Seq(W) /\ Len(t) = 8
      <3>1. \A i \in 1..8 : t[i] \in W /\ four[(i + 1) \div 2] \in W
        BY <1>1, <2>6
      <3> QED
        BY <3>1
    <2> HIDE DEF t
    <2>8. Evenly(W, 8, y, t) /\ 8 \in Nat /\ y \in W
      BY <1>1, <2>6, <2>7 DEF Evenly, Register
    <2>9. t = Fill(8, y)
      BY <2>8, EvenIs
    <2> QED
      BY <1>3, <2>1, <2>9 DEF y
  <1> QED
    BY <1>2, <1>3

\* Two sequences of states that start alike and go on alike are one.
LEMMA SameSteps ==
    ASSUME NEW n \in Nat, NEW f, NEW e, f[0] = e[0],
           \A i \in 1..n : f[i - 1] = e[i - 1] => f[i] = e[i]
    PROVE  \A i \in 0..n : f[i] = e[i]
  <1> DEFINE S == {i \in 0..n : f[i] = e[i]}
  <1>1. 0 \in S
    OBVIOUS
  <1>2. ASSUME NEW i \in 0..n - 1, i \in S PROVE i + 1 \in S
    <2> DEFINE j == i + 1
    <2>1. j \in 1..n /\ j - 1 = i /\ f[i] = e[i]
      BY <1>2
    <2> HIDE DEF j
    <2>2. f[j] = e[j]
      BY <2>1
    <2> QED
      BY <2>1, <2>2 DEF j
  <1>3. \A i \in 0..n : i \in S
    <2> HIDE DEF S
    <2> QED
      BY <1>1, <1>2, InductTo
  <1> QED
    BY <1>3

\* a is the block whose elements x has behind a zero.
Extends(w, n, a, x) ==
    /\ x \in [0..n -> WordsOf(w)] /\ x[0] = 0
    /\ a \in Seq(WordsOf(w)) /\ Len(a) = n
    /\ \A i \in 1..n : a[i] = x[i]

\* A register with the elements after the first lo.
Holds(w, x, lo, lanes, v) ==
    Register(WordsOf(w), lanes, v) /\ \A k \in 1..lanes : v[k] = x[lo + k]

\* A piece of the block, from what is in its places.
LEMMA PieceOf ==
    ASSUME NEW w \in Nat, NEW n \in Nat, NEW a, NEW x, Extends(w, n, a, x),
           NEW lo \in Nat, NEW hi \in Nat, lo <= hi, hi <= n,
           NEW v, Holds(w, x, lo, hi - lo, v)
    PROVE  v = Slice(a, lo, hi)
  <1> DEFINE W == WordsOf(w)
             t == Slice(a, lo, hi)
  <1>1. a \in Seq(W) /\ Len(a) = n /\ \A i \in 1..n : a[i] = x[i]
    BY DEF Extends
  <1>2. lo <= hi /\ hi <= Len(a)
    BY <1>1
  <1>3. t \in Seq(W) /\ Len(t) = hi - lo /\ \A k \in 1..hi - lo : t[k] = a[lo + k]
    <2>1. a \in Seq(W) /\ lo \in Nat /\ hi \in Nat
      BY <1>1
    <2> HIDE DEF W
    <2> QED
      BY <1>2, <2>1, PieceIs
  <1> HIDE DEF t
  <1>4. v \in Seq(W) /\ Len(v) = hi - lo /\ Len(v) = Len(t)
    BY <1>3 DEF Holds, Register
  <1>5. ASSUME NEW k \in 1..Len(v) PROVE v[k] = t[k]
    <2>1. k \in 1..hi - lo /\ lo + k \in 1..n
      BY <1>4
    <2>2. v[k] = x[lo + k] /\ t[k] = a[lo + k]
      BY <1>3, <2>1 DEF Holds
    <2> QED
      BY <1>1, <2>1, <2>2
  <1>6. v = t
    <2>1. v \in Seq(W) /\ t \in Seq(W) /\ Len(v) = Len(t) /\ \A k \in 1..Len(v) : v[k] = t[k]
      BY <1>3, <1>4, <1>5
    <2> HIDE DEF W
    <2> QED
      BY <2>1, SeqEqual
  <1> QED
    BY <1>6 DEF t

\* The sums of the differences of a piece are the piece.
LEMMA SumsBack ==
    ASSUME NEW w \in Nat, NEW n \in Nat, NEW a, NEW x, Extends(w, n, a, x),
           NEW d, Differs(w, n, x, d), NEW lo \in Nat, NEW hi \in Nat, lo <= hi, hi <= n
    PROVE  Sums(w, d, x[lo], lo, hi) = Slice(a, lo, hi)
  <1> DEFINE m == hi - lo
             acc == x[lo]
             W == WordsOf(w)
             Def(f) == f = [k \in 0..m |-> IF k = 0 THEN acc ELSE Add(w, f[k - 1], d[lo + k])]
             e == [k \in 0..m |-> x[lo + k]]
             h == CHOOSE f : Def(f)
             t == [k \in 1..m |-> h[k]]
  <1>1. m \in Nat /\ x \in [0..n -> W] /\ \A i \in 1..n : d[i] = Sub(w, x[i], x[i - 1])
    BY DEF Differs
  <1>2. Sums(w, d, acc, lo, hi) = t
    BY Zenon DEF Sums
  <1>3. ASSUME NEW k \in 1..m PROVE e[k] = Add(w, e[k - 1], d[lo + k])
    <2> DEFINE i == lo + k
    <2>1. i \in 1..n /\ lo + (k - 1) = i - 1 /\ i - 1 \in 0..n /\ i \in 0..n /\ k \in 0..m /\ k - 1 \in 0..m
      OBVIOUS
    <2> HIDE DEF i
    <2>2. x[i] \in W /\ x[i - 1] \in W /\ d[i] = Sub(w, x[i], x[i - 1])
      BY <1>1, <2>1
    <2>3. Add(w, x[i - 1], d[i]) = x[i]
      BY <2>2, SumOfDifference
    <2>4. e[k] = x[i] /\ e[k - 1] = x[i - 1]
      BY <2>1 DEF i
    <2> QED
      BY <2>3, <2>4 DEF i
  <1>4. e[0] = acc /\ 0 \in 0..m
    BY <1>1
  <1>5. Def(e)
    <2>1. e = [k \in 0..m |-> e[k]]
      OBVIOUS
    <2>2. \A k \in 0..m : e[k] = IF k = 0 THEN acc ELSE Add(w, e[k - 1], d[lo + k])
      <3> HIDE DEF e, acc
      <3>1. \A k \in 0..m : k = 0 \/ k \in 1..m
        BY <1>1
      <3> QED
        BY <1>3, <1>4, <3>1, Zenon
    <2>3. [k \in 0..m |-> e[k]] = [k \in 0..m |-> IF k = 0 THEN acc ELSE Add(w, e[k - 1], d[lo + k])]
      BY <2>2, Zenon
    <2> QED
      BY <2>1, <2>3, Zenon
  <1>6. Def(h)
    <2> HIDE DEF Def
    <2> QED
      BY <1>5, Zenon
  <1> HIDE DEF h, e, acc
  <1>7. h[0] = e[0]
    BY <1>4, <1>6
  <1>8. ASSUME NEW k \in 1..m, h[k - 1] = e[k - 1] PROVE h[k] = e[k]
    <2>1. k \in 0..m /\ k # 0
      BY <1>1
    <2>2. h[k] = Add(w, h[k - 1], d[lo + k])
      BY <1>6, <2>1, Zenon
    <2> QED
      BY <1>3, <1>8, <2>2
  <1>9. \A k \in 0..m : h[k] = e[k]
    <2>1. m \in Nat
      BY <1>1
    <2>2. \A k \in 1..m : h[k - 1] = e[k - 1] => h[k] = e[k]
      BY <1>8
    <2> HIDE DEF Def, m
    <2> QED
      BY <1>7, <2>1, <2>2, SameSteps
  <1>10. \A k \in 1..m : t[k] = x[lo + k] /\ x[lo + k] \in W
    <2> TAKE k \in 1..m
    <2>1. k \in 0..m /\ lo + k \in 0..n
      BY <1>1
    <2>2. t[k] = h[k] /\ h[k] = e[k] /\ e[k] = x[lo + k]
      BY <1>9, <2>1 DEF e
    <2> QED
      BY <1>1, <2>1, <2>2
  <1>11. Register(W, m, t)
    <2>1. \A k \in 1..m : h[k] \in W
      BY <1>10
    <2> HIDE DEF W, m
    <2>2. t \in Seq(W) /\ Len(t) = m
      BY <1>1, <2>1
    <2> QED
      BY <2>2 DEF Register
  <1> HIDE DEF t
  <1>12. t = Slice(a, lo, hi)
    <2>1. Holds(w, x, lo, hi - lo, t)
      BY <1>10, <1>11 DEF Holds
    <2> QED
      BY <2>1, PieceOf
  <1> QED
    BY <1>2, <1>12 DEF acc

\* A piece of the differences.
LEMMA DifferencePiece ==
    ASSUME NEW w \in Nat, NEW n \in Nat, NEW x, NEW d, Differs(w, n, x, d),
           NEW p \in Nat, NEW q \in Nat, p <= q, q <= n
    PROVE  Lagged(w, x, p, q - p, 1, Slice(d, p, q))
  <1> DEFINE W == WordsOf(w)
             part == Slice(d, p, q)
             m == q - p
  <1>1. d \in Seq(W) /\ Len(d) = n
    BY DEF Differs
  <1>2. p <= q /\ q <= Len(d) /\ d \in Seq(W) /\ m \in Nat
    BY <1>1
  <1>3. part \in Seq(W) /\ Len(part) = q - p /\ \A i \in 1..q - p : part[i] = d[p + i]
    <2> HIDE DEF W
    <2> QED
      BY <1>2, PieceIs
  <1> HIDE DEF part
  <1>4. ASSUME NEW i \in 1..m PROVE part[i] = Sub(w, x[p + i], x[p + Behind(i, 1)])
    <2> DEFINE j == p + i
    <2>1. j \in 1..n /\ j - 1 = p + Behind(i, 1) /\ part[i] = d[j]
      BY <1>1, <1>2, <1>3 DEF Behind
    <2> HIDE DEF j
    <2>2. d[j] = Sub(w, x[j], x[j - 1])
      BY <2>1 DEF Differs
    <2> QED
      BY <2>1, <2>2 DEF j
  <1> QED
    BY <1>3, <1>4 DEF Lagged, Register, part

\* One register of the inverse.
LEMMA InverseStepIs ==
    ASSUME NEW w \in Nat, NEW n \in Nat, NEW a, NEW x, Extends(w, n, a, x),
           NEW d, Differs(w, n, x, d), NEW lanes \in {2, 4, 8},
           NEW p \in Nat, NEW q \in Nat, q = p + lanes, q <= n, NEW build
    PROVE  InverseStep(build, w, [out |-> Slice(a, 0, p), reg |-> Fill(lanes, x[p])], Slice(d, p, q))
             = [out |-> Slice(a, 0, q), reg |-> Fill(lanes, x[q])]
  <1> DEFINE W == WordsOf(w)
             part == Slice(d, p, q)
             b == [out |-> Slice(a, 0, p), reg |-> Fill(lanes, x[p])]
             u == PrefixSums(build, w, part)
             v == AddLanes(w, u, b.reg)
  <1>1. /\ x \in [0..n -> W] /\ d \in Seq(W) /\ Len(d) = n /\ a \in Seq(W) /\ Len(a) = n
        /\ \A i \in 1..n : d[i] = Sub(w, x[i], x[i - 1])
    BY DEF Differs, Extends
  <1>2. lanes \in Nat /\ q - p = lanes /\ p <= q /\ p \in 0..n /\ q \in 0..n /\ q <= Len(d)
    BY <1>1
  <1>4. Lagged(w, x, p, lanes, 1, part)
    BY <1>2, DifferencePiece
  <1> HIDE DEF part
  <1>5. Lagged(w, x, p, lanes, lanes, u)
    BY <1>1, <1>2, <1>4, PrefixSumsAre
  <1> HIDE DEF u
  <1>6. x[p] \in W /\ x[q] \in W
    BY <1>1, <1>2
  <1>7. b.reg \in Seq(W) /\ Len(b.reg) = lanes /\ \A i \in 1..lanes : b.reg[i] = x[p]
    <2> DEFINE y == x[p]
               f == Fill(lanes, y)
    <2> HIDE DEF W
    <2>1. y \in W
      BY <1>6
    <2> HIDE DEF y
    <2>2. f \in Seq(W) /\ Len(f) = lanes /\ \A i \in 1..lanes : f[i] = y
      BY <1>2, <2>1, FillIs
    <2>3. b.reg = f
      BY DEF y
    <2> QED
      BY <2>2, <2>3 DEF y
  <1> DEFINE r == b.reg
             out == b.out
  <1>8. out = Slice(a, 0, p)
    OBVIOUS
  <1>9. InverseStep(build, w, b, part) = [out |-> out \o v, reg |-> TopEverywhere(build, v)]
    BY DEF InverseStep, u
  <1>10. /\ Register(W, lanes, v)
         /\ \A i \in 1..lanes : v[i] = Add(w, u[i], r[i])
    <2>1. Register(W, lanes, u) /\ Register(W, lanes, r)
      BY <1>5, <1>7 DEF Lagged, Register
    <2> HIDE DEF b, r
    <2> QED
      BY <1>2, <2>1, AddLanesIs DEF r
  <1> HIDE DEF b, out
  <1>11. ASSUME NEW i \in 1..lanes PROVE v[i] = x[p + i]
    <2> DEFINE j == p + i
               xp == x[p]
               xj == x[j]
    <2>1. j \in 0..n /\ Behind(i, lanes) = 0 /\ p + 0 = p
      BY <1>2 DEF Behind
    <2>2. u[i] = Sub(w, xj, xp)
      <3>1. u[i] = Sub(w, x[p + i], x[p + Behind(i, lanes)])
        BY <1>5 DEF Lagged
      <3> QED
        BY <2>1, <3>1
    <2>3. xj \in W /\ xp \in W
      BY <1>1, <1>6, <2>1
    <2>4. v[i] = Add(w, Sub(w, xj, xp), xp)
      <3> HIDE DEF xj
      <3> QED
        BY <1>7, <1>10, <2>2
    <2> HIDE DEF xj, xp
    <2>5. v[i] = xj
      BY <2>3, <2>4, SumOfDifference
    <2> QED
      BY <2>5 DEF xj
  <1> HIDE DEF v, r
  <1>12. v = Slice(a, p, q)
    <2>1. Holds(w, x, p, q - p, v)
      BY <1>2, <1>10, <1>11 DEF Holds
    <2> QED
      BY <1>2, <2>1, PieceOf
  <1>13. out \o v = Slice(a, 0, q)
    <2>1. q <= Len(a) /\ p <= q /\ a \in Seq(W)
      BY <1>1, <1>2
    <2>2. Slice(a, 0, p) \o Slice(a, p, q) = Slice(a, 0, q)
      <3> HIDE DEF W
      <3> QED
        BY <2>1, PiecesJoin
    <2> QED
      BY <1>8, <1>12, <2>2
  <1>14. v[lanes] = x[q]
    <2>1. lanes \in 1..lanes
      BY <1>2
    <2> QED
      BY <1>11, <2>1
  <1>15. TopEverywhere(build, v) = Fill(lanes, x[q])
    <2>1. 0 \in W
      BY WordsAreNumbers
    <2>2. TopEverywhere(build, v) = Fill(lanes, v[lanes])
      <3> HIDE DEF W
      <3> QED
        BY <1>10, <2>1, TopIs
    <2> QED
      BY <1>14, <2>2
  <1> QED
    BY <1>9, <1>13, <1>15 DEF b, part

\* Where the registers of a kernel lie.
LEMMA RegistersFit ==
    ASSUME NEW lanes \in {2, 4, 8}, NEW n \in Nat, n >= 1
    PROVE  /\ HeadEnd(lanes, n) \in 1..n /\ Registers(lanes, n) \in Nat
           /\ BodyEnd(lanes, n) \in 1..n
           /\ \A k \in 1..Registers(lanes, n) :
                 /\ HeadEnd(lanes, n) + lanes * (k - 1) \in 1..n
                 /\ HeadEnd(lanes, n) + lanes * k = HeadEnd(lanes, n) + lanes * (k - 1) + lanes
                 /\ HeadEnd(lanes, n) + lanes * k \in 1..n
  <1> DEFINE h == HeadEnd(lanes, n)
             m == Registers(lanes, n)
  <1>1. h \in 1..n /\ h = MinOf(lanes, n)
    BY DEF HeadEnd, MinOf
  <1> HIDE DEF h
  <1>2. m = (n - h) \div lanes /\ BodyEnd(lanes, n) = h + lanes * m
    BY DEF Registers, BodyEnd, h
  <1> HIDE DEF m
  <1>3. CASE lanes = 2
    BY <1>1, <1>2, <1>3 DEF h, m
  <1>4. CASE lanes = 4
    BY <1>1, <1>2, <1>4 DEF h, m
  <1>5. CASE lanes = 8
    BY <1>1, <1>2, <1>5 DEF h, m
  <1> QED
    BY <1>3, <1>4, <1>5

\* The inverse kernels give back the block.
LEMMA InverseBack ==
    ASSUME NEW w \in Nat, NEW n \in Nat, n >= 1, NEW a, NEW x, Extends(w, n, a, x),
           NEW d, Differs(w, n, x, d), NEW lanes \in {2, 4, 8}, NEW build
    PROVE  InverseDelta(build, w, lanes, d) = a
  <1> DEFINE W == WordsOf(w)
             h == HeadEnd(lanes, n)
             m == Registers(lanes, n)
             z == BodyEnd(lanes, n)
             at(k) == h + lanes * k
             head == Sums(w, d, 0, 0, h)
             first == [out |-> head, reg |-> Fill(lanes, Last(head))]
             step(f, k) == InverseStep(build, w, f[k - 1], Slice(d, h + lanes * (k - 1), h + lanes * k))
             Def(f) == f = [k \in 0..m |-> IF k = 0 THEN first ELSE step(f, k)]
             e == [k \in 0..m |-> [out |-> Slice(a, 0, at(k)), reg |-> Fill(lanes, x[at(k)])]]
             b == CHOOSE f : Def(f)
             tail == Sums(w, d, b[m].reg[SumLane(build, lanes)], z, n)
  <1>1. /\ h \in 1..n /\ m \in Nat /\ z \in 1..n /\ z = at(m) /\ h = at(0)
        /\ \A k \in 1..m : /\ at(k - 1) \in 1..n
                           /\ at(k) = at(k - 1) + lanes
                           /\ at(k) \in 1..n
    <2>1. z = at(m)
      BY DEF BodyEnd
    <2>2. h \in 1..n
      BY RegistersFit
    <2>3. h = at(0)
      <3> HIDE DEF h
      <3> QED
        BY <2>2
    <2> QED
      BY <2>1, <2>3, RegistersFit
  <1>a. a \in Seq(W) /\ Len(a) = n /\ x[0] = 0 /\ Len(d) = n
    BY DEF Extends, Differs
  <1>2. InverseDelta(build, w, lanes, d) = b[m].out \o tail
    BY <1>a, Zenon DEF InverseDelta
  <1> HIDE DEF h, m, z
  <1>3. head = Slice(a, 0, h)
    <2>1. 0 \in Nat /\ h \in Nat /\ 0 <= h /\ h <= n
      BY <1>1
    <2>2. Sums(w, d, x[0], 0, h) = Slice(a, 0, h)
      BY <2>1, SumsBack
    <2> QED
      BY <1>a, <2>2
  <1>4. Last(head) = x[h]
    <2> DEFINE p == Slice(a, 0, h)
    <2>1. 0 \in Nat /\ h \in Nat /\ 0 <= h /\ h <= Len(a)
      BY <1>1, <1>a
    <2>2. p \in Seq(W) /\ Len(p) = h - 0 /\ \A k \in 1..h - 0 : p[k] = a[0 + k]
      <3> HIDE DEF W
      <3> QED
        BY <1>a, <2>1, PieceIs
    <2> HIDE DEF p, head
    <2>3. h \in 1..h - 0 /\ h - 0 = h /\ 0 + h = h
      BY <1>1
    <2>4. Last(head) = p[h]
      BY <1>3, <2>2, <2>3 DEF Last, p
    <2>5. p[h] = a[h]
      BY <2>2, <2>3
    <2>6. a[h] = x[h]
      BY <1>1 DEF Extends
    <2> QED
      BY <2>4, <2>5, <2>6
  <1>5. e[0] = first
    <2>1. 0 \in 0..m
      BY <1>1
    <2> HIDE DEF head
    <2>2. e[0] = [out |-> Slice(a, 0, at(0)), reg |-> Fill(lanes, x[at(0)])]
      BY <2>1
    <2> HIDE DEF e, at
    <2> QED
      BY <1>1, <1>3, <1>4, <2>2
  <1>6. ASSUME NEW k \in 1..m PROVE e[k] = step(e, k)
    <2> DEFINE p == at(k - 1)
               q == at(k)
    <2>1. k \in 0..m /\ k - 1 \in 0..m
      BY <1>1
    <2>2. /\ e[k] = [out |-> Slice(a, 0, q), reg |-> Fill(lanes, x[q])]
          /\ e[k - 1] = [out |-> Slice(a, 0, p), reg |-> Fill(lanes, x[p])]
      BY <2>1
    <2>3. step(e, k) = InverseStep(build, w, e[k - 1], Slice(d, p, q))
      OBVIOUS
    <2>4. p \in Nat /\ q \in Nat /\ q = p + lanes /\ q <= n
      <3> HIDE DEF at
      <3> QED
        BY <1>1
    <2> HIDE DEF e, p, q
    <2>5. InverseStep(build, w, [out |-> Slice(a, 0, p), reg |-> Fill(lanes, x[p])], Slice(d, p, q))
            = [out |-> Slice(a, 0, q), reg |-> Fill(lanes, x[q])]
      BY <2>4, InverseStepIs
    <2> QED
      BY <2>2, <2>3, <2>5
  <1> HIDE DEF first
  <1>7. Def(e)
    <2>1. e = [k \in 0..m |-> e[k]]
      OBVIOUS
    <2>2. \A k \in 0..m : e[k] = IF k = 0 THEN first ELSE step(e, k)
      <3> HIDE DEF e, step
      <3>1. \A k \in 0..m : k = 0 \/ k \in 1..m
        BY <1>1
      <3> QED
        BY <1>5, <1>6, <3>1, Zenon
    <2>3. [k \in 0..m |-> e[k]] = [k \in 0..m |-> IF k = 0 THEN first ELSE step(e, k)]
      BY <2>2, Zenon
    <2> QED
      BY <2>1, <2>3, Zenon
  <1>8. Def(b)
    <2> HIDE DEF Def
    <2> QED
      BY <1>7, Zenon
  <1> HIDE DEF b, e, tail
  <1>9. b[m] = e[m]
    <2>0. 0 \in 0..m /\ m \in 0..m /\ m \in Nat
      BY <1>1
    <2>1. b[0] = e[0]
      BY <1>5, <1>8, <2>0, Zenon
    <2>2. ASSUME NEW k \in 1..m, b[k - 1] = e[k - 1] PROVE b[k] = e[k]
      <3>1. k \in 0..m /\ k # 0
        BY <1>1
      <3>2. b[k] = step(b, k)
        <4> HIDE DEF step
        <4> QED
          BY <1>8, <3>1, Zenon
      <3>3. step(b, k) = step(e, k)
        BY <2>2, Zenon
      <3> QED
        BY <1>6, <3>2, <3>3, Zenon
    <2>3. \A k \in 1..m : b[k - 1] = e[k - 1] => b[k] = e[k]
      BY <2>2
    <2> HIDE DEF Def
    <2>4. \A k \in 0..m : b[k] = e[k]
      BY <2>0, <2>1, <2>3, SameSteps
    <2> QED
      BY <2>0, <2>4
  <1>10. b[m].out = Slice(a, 0, z) /\ b[m].reg = Fill(lanes, x[z])
    <2>1. e[m] = [out |-> Slice(a, 0, at(m)), reg |-> Fill(lanes, x[at(m)])]
      BY <1>1 DEF e
    <2> HIDE DEF at
    <2> QED
      BY <1>1, <1>9, <2>1
  <1>11. b[m].reg[SumLane(build, lanes)] = x[z]
    <2> DEFINE y == x[z]
               f == Fill(lanes, y)
               l == SumLane(build, lanes)
    <2>1. l \in 1..lanes /\ lanes \in Nat
      BY DEF SumLane
    <2>2. y \in W
      BY <1>1 DEF Extends
    <2> HIDE DEF y, W
    <2>3. f \in Seq(W) /\ Len(f) = lanes /\ \A i \in 1..lanes : f[i] = y
      BY <2>1, <2>2, FillIs
    <2> HIDE DEF f, l
    <2>4. f[l] = y
      BY <2>1, <2>3
    <2> QED
      BY <1>10, <2>4 DEF f, l, y
  <1>12. tail = Slice(a, z, n)
    <2>1. z \in Nat /\ z <= n /\ n <= n
      BY <1>1
    <2>2. Sums(w, d, x[z], z, n) = Slice(a, z, n)
      BY <2>1, SumsBack
    <2> QED
      BY <1>11, <2>2 DEF tail
  <1>13. Slice(a, 0, z) \o Slice(a, z, n) = Slice(a, 0, n) /\ Slice(a, 0, n) = a
    <2>1. z \in Nat /\ z <= n /\ n <= Len(a) /\ a \in Seq(W)
      BY <1>1, <1>a
    <2> HIDE DEF W
    <2> QED
      BY <1>a, <2>1, PiecesJoin, WholePiece
  <1> QED
    BY <1>2, <1>10, <1>12, <1>13

----------------------------------------------------------------------------
(* The kernels that take the differences.                                  *)

\* Nothing changes a word by or.
LEMMA OrNothing ==
    ASSUME NEW w \in Nat, NEW y \in WordsOf(w)
    PROVE  Or(w, 0, y) = y /\ Or(w, y, 0) = y
  <1> DEFINE a == [i \in 0..w - 1 |-> Bit(0, i) * Bit(y, i)]
             b == [i \in 0..w - 1 |-> Bit(y, i) * Bit(0, i)]
  <1>1. 0 \in WordsOf(w) /\ y \in Nat /\ 0 \in Nat
    BY WordsAreNumbers
  <1>2. \A i \in 0..w - 1 : Bit(0, i) = 0 /\ Bit(y, i) \in {0, 1}
    <2> TAKE i \in 0..w - 1
    <2> DEFINE p == 2^i
    <2>0. i \in Nat
      OBVIOUS
    <2>1. p \in Nat \ {0}
      BY <2>0, PowerPositive
    <2>2. Bit(0, i) = (0 \div p) % 2
      BY DEF Bit
    <2> HIDE DEF p
    <2>3. (p * 0 + 0) \div p = 0 /\ p * 0 + 0 = 0
      BY <2>1, DivModIs
    <2>4. 0 \div p = 0
      BY <2>3
    <2>5. Bit(y, i) \in {0, 1}
      BY <1>1, <2>0, BitIs
    <2> QED
      BY <2>2, <2>4, <2>5
  <1>3. \A i \in 0..w - 1 : a[i] = Bit(0, i) /\ b[i] = Bit(0, i)
    BY <1>2
  <1> HIDE DEF a, b
  <1>4. FromBits(w, a) = 0 /\ FromBits(w, b) = 0
    BY <1>1, <1>3, WordOfBits
  <1>5. And(w, 0, y) = FromBits(w, a) /\ And(w, y, 0) = FromBits(w, b)
    BY DEF And, a, b
  <1> QED
    BY <1>1, <1>4, <1>5 DEF Or

\* A word in the lowest lane, with nothing above it.
Lowest(W, lanes, y, r) ==
    Register(W, lanes, r) /\ \A i \in 1..lanes : r[i] = IF i = 1 THEN y ELSE 0

\* A register with one value in its lowest lane.
LEMMA InLowestIs ==
    ASSUME NEW W, 0 \in W, NEW y \in W, NEW lanes \in {2, 4, 8}
    PROVE  Lowest(W, lanes, y, InLowest(y, lanes))
  <1> DEFINE a == <<y>>
             m == lanes - 1
             b == Fill(m, 0)
             t == a \o b
  <1>1. a \in Seq(W) /\ Len(a) = 1 /\ a[1] = y
    OBVIOUS
  <1>2. m \in Nat
    OBVIOUS
  <1> HIDE DEF m
  <1>3. b \in Seq(W) /\ Len(b) = m /\ \A i \in 1..m : b[i] = 0
    BY <1>2, FillIs
  <1>4. InLowest(y, lanes) = t
    BY DEF InLowest, m
  <1> HIDE DEF a, b
  <1>a. a \in Seq(W) /\ b \in Seq(W)
    BY <1>1, <1>3
  <1>5. /\ t \in Seq(W) /\ Len(t) = Len(a) + Len(b)
        /\ \A i \in 1..Len(a) : t[i] = a[i]
        /\ \A i \in 1..Len(b) : t[Len(a) + i] = b[i]
    BY <1>a, TwoJoined
  <1> HIDE DEF t
  <1>6. ASSUME NEW i \in 1..lanes PROVE t[i] = IF i = 1 THEN y ELSE 0
    <2>1. CASE i = 1
      BY <1>1, <1>5, <2>1
    <2>2. CASE i # 1
      <3> DEFINE j == i - 1
      <3>1. j \in 1..m /\ 1 + j = i
        BY <2>2 DEF m
      <3> HIDE DEF j
      <3>2. t[Len(a) + j] = b[j] /\ b[j] = 0
        BY <1>3, <1>5, <3>1
      <3> QED
        BY <1>1, <2>2, <3>1, <3>2
    <2> QED
      BY <2>1, <2>2
  <1>7. Len(t) = lanes
    BY <1>1, <1>2, <1>3, <1>5 DEF m
  <1> QED
    BY <1>4, <1>5, <1>6, <1>7 DEF Lowest, Register

\* A register moved down to its last lane.
LEMMA SrliIs ==
    ASSUME NEW W, NEW lanes \in {2, 4, 8}, NEW v, Register(W, lanes, v)
    PROVE  SrliLanes(v, Len(v) - 1) = InLowest(v[lanes], lanes)
  <1>1. v \in Seq(W) /\ Len(v) = lanes
    BY DEF Register
  <1>2. SubSeq(v, lanes, lanes) = <<v[lanes]>>
    <2> DEFINE m == lanes - 1
               t == Slice(v, m, lanes)
    <2>1. m \in Nat /\ lanes \in Nat /\ m <= lanes /\ lanes <= Len(v) /\ lanes - m = 1 /\ m + 1 = lanes
      BY <1>1
    <2>2. t = SubSeq(v, lanes, lanes)
      BY <2>1 DEF Slice
    <2> HIDE DEF m
    <2>3. t \in Seq(W) /\ Len(t) = lanes - m /\ \A k \in 1..lanes - m : t[k] = v[m + k]
      BY <1>1, <2>1, PieceIs
    <2> HIDE DEF t
    <2>4. t \in Seq(W) /\ Len(t) = 1 /\ t[1] = v[lanes]
      BY <2>1, <2>3
    <2>5. t = <<v[lanes]>>
      BY <2>4
    <2> QED
      BY <2>2, <2>5
  <1>3. Len(v) - 1 + 1 = lanes /\ Len(v) - 1 = lanes - 1
    BY <1>1
  <1> QED
    BY <1>1, <1>2, <1>3 DEF SrliLanes, InLowest

\* The carry register holds the word y where the instructions look for it.
Carries(build, W, lanes, y, r) ==
    IF build = "sse2" THEN Lowest(W, lanes, y, r) ELSE Register(W, lanes, r) /\ r[lanes] = y

\* Each lane of v, one lane later, behind y.
Follows(W, lanes, y, v, u) ==
    Register(W, lanes, u) /\ \A i \in 1..lanes : u[i] = IF i = 1 THEN y ELSE v[i - 1]

\* Extracting from the register before gives each lane's element before it.
LEMMA ExtFollows ==
    ASSUME NEW W, NEW n \in Nat \ {0}, NEW r, Register(W, n, r), NEW v, Register(W, n, v)
    PROVE  Follows(W, n, r[n], v, ExtLanes(r, v, n - 1))
  <1> DEFINE m == n - 1
             t == ExtLanes(r, v, m)
  <1>1. n \in Nat /\ m \in 0..n /\ n - m = 1 /\ m + 1 = n
    OBVIOUS
  <1> HIDE DEF m
  <1>2. /\ Register(W, n, t)
        /\ \A i \in 1..n : t[i] = IF i <= n - m THEN r[m + i] ELSE v[i - (n - m)]
    <2>1. n \in Nat /\ m \in 0..n /\ Register(W, n, r) /\ Register(W, n, v)
      BY <1>1
    <2> HIDE DEF t
    <2>2. /\ Register(W, n, ExtLanes(r, v, m))
          /\ \A i \in 1..n : ExtLanes(r, v, m)[i] = IF i <= n - m THEN r[m + i] ELSE v[i - (n - m)]
      BY <2>1, ExtIs
    <2> QED
      BY <2>2 DEF t
  <1> HIDE DEF t
  <1>3. ASSUME NEW i \in 1..n PROVE t[i] = IF i = 1 THEN r[n] ELSE v[i - 1]
    <2>1. i <= 1 <=> i = 1
      BY <1>1
    <2>2. t[i] = IF i <= 1 THEN r[m + i] ELSE v[i - 1]
      BY <1>1, <1>2
    <2> QED
      BY <1>1, <2>1, <2>2
  <1> QED
    BY <1>2, <1>3 DEF Follows, t, m

\* So does either set of instructions, given what it carries.
LEMMA PrecedingIs ==
    ASSUME NEW w \in Nat, NEW lanes \in {2, 4, 8}, NEW y \in WordsOf(w),
           NEW v, Register(WordsOf(w), lanes, v),
           NEW build, NEW r, Carries(build, WordsOf(w), lanes, y, r)
    PROVE  Follows(WordsOf(w), lanes, y, v, Preceding(build, w, v, r))
  <1> DEFINE W == WordsOf(w)
  <1>1. v \in Seq(W) /\ Len(v) = lanes /\ lanes \in Nat /\ 0 \in W
    BY WordsAreNumbers DEF Register
  <1>2. CASE build = "sse2"
    <2> DEFINE u == SlliLanes(v, 1)
               t == [i \in 1..lanes |-> Or(w, u[i], r[i])]
    <2>1. Register(W, lanes, r) /\ \A i \in 1..lanes : r[i] = IF i = 1 THEN y ELSE 0
      BY <1>2 DEF Carries, Lowest
    <2>2. Register(W, lanes, u) /\ \A i \in 1..lanes : u[i] = IF i <= 1 THEN 0 ELSE v[i - 1]
      <3>1. 1 \in 0..Len(v)
        BY <1>1
      <3>2. Register(W, Len(v), u) /\ \A i \in 1..Len(v) : u[i] = IF i <= 1 THEN 0 ELSE v[i - 1]
        <4> HIDE DEF W
        <4> QED
          BY <1>1, <3>1, SlliIs
      <3> HIDE DEF u, W
      <3> QED
        BY <1>1, <3>2
    <2>3. Preceding(build, w, v, r) = t
      <3>1. DOMAIN u = 1..lanes
        <4> HIDE DEF u, W
        <4> QED
          BY <2>2 DEF Register
      <3> QED
        BY <1>2, <3>1 DEF Preceding, OrLanes
    <2> HIDE DEF u
    <2>4. ASSUME NEW i \in 1..lanes PROVE t[i] = (IF i = 1 THEN y ELSE v[i - 1]) /\ t[i] \in W
      <3>1. t[i] = Or(w, u[i], r[i])
        OBVIOUS
      <3>2. CASE i = 1
        <4>1. u[i] = 0 /\ r[i] = y
          BY <2>1, <2>2, <3>2
        <4> QED
          BY <3>1, <3>2, <4>1, OrNothing
      <3>3. CASE i # 1
        <4> DEFINE c == v[i - 1]
        <4>1. u[i] = c /\ r[i] = 0 /\ c \in W
          BY <1>1, <2>1, <2>2, <3>3
        <4> HIDE DEF c
        <4>2. Or(w, c, 0) = c
          BY <4>1, OrNothing
        <4>3. t[i] = c /\ c \in W
          BY <3>1, <4>1, <4>2
        <4> QED
          BY <3>3, <4>3 DEF c
      <3> QED
        BY <3>2, <3>3
    <2>5. t \in Seq(W) /\ Len(t) = lanes
      <3> DEFINE o(i) == Or(w, u[i], r[i])
      <3>1. \A i \in 1..lanes : o(i) \in W
        BY <2>4
      <3> HIDE DEF o, W
      <3>2. t = [i \in 1..lanes |-> o(i)]
        BY DEF o
      <3>3. [i \in 1..lanes |-> o(i)] \in Seq(W) /\ Len([i \in 1..lanes |-> o(i)]) = lanes
        BY <1>1, <3>1
      <3> QED
        BY <3>2, <3>3
    <2> HIDE DEF t
    <2> QED
      BY <2>3, <2>4, <2>5 DEF Follows, Register
  <1>3. CASE build # "sse2"
    <2>1. Register(W, lanes, r) /\ r[lanes] = y
      BY <1>3 DEF Carries
    <2>2. Preceding(build, w, v, r) = ExtLanes(r, v, lanes - 1)
      BY <1>1, <1>3 DEF Preceding
    <2>3. Register(W, lanes, v) /\ lanes \in Nat \ {0}
      BY <1>1
    <2> HIDE DEF W
    <2>4. Follows(W, lanes, r[lanes], v, ExtLanes(r, v, lanes - 1))
      BY <2>1, <2>3, ExtFollows, Zenon
    <2> QED
      BY <2>1, <2>2, <2>4 DEF W
  <1> QED
    BY <1>2, <1>3

\* A piece of the differences, from what is in its places.
LEMMA DifferencesOf ==
    ASSUME NEW w \in Nat, NEW n \in Nat, NEW x, NEW d, Differs(w, n, x, d),
           NEW p \in Nat, NEW q \in Nat, p <= q, q <= n,
           NEW v, Lagged(w, x, p, q - p, 1, v)
    PROVE  v = Slice(d, p, q)
  <1> DEFINE W == WordsOf(w)
             t == Slice(d, p, q)
             m == q - p
  <1>1. Lagged(w, x, p, m, 1, t)
    BY DifferencePiece
  <1> HIDE DEF t, m
  <1>2. /\ t \in Seq(W) /\ Len(t) = m /\ v \in Seq(W) /\ Len(v) = m
        /\ \A i \in 1..m : t[i] = v[i]
    BY <1>1 DEF Lagged, Register, m
  <1>3. v \in Seq(W) /\ t \in Seq(W) /\ Len(v) = Len(t) /\ \A i \in 1..Len(v) : v[i] = t[i]
    BY <1>2
  <1>4. v = t
    <2> HIDE DEF W
    <2> QED
      BY <1>3, SeqEqual
  <1> QED
    BY <1>4 DEF t

\* The differences of a piece, with the element before it, are a piece of the
\* differences.
LEMMA DifferencesAre ==
    ASSUME NEW w \in Nat, NEW n \in Nat, NEW a, NEW x, Extends(w, n, a, x),
           NEW d, Differs(w, n, x, d), NEW p \in Nat, NEW q \in Nat, p <= q, q <= n
    PROVE  Differences(w, a, x[p], p, q) = Slice(d, p, q)
  <1> DEFINE W == WordsOf(w)
             m == q - p
             y(i) == IF i = 1 THEN x[p] ELSE a[p + i - 1]
             o(i) == Sub(w, a[p + i], y(i))
             v == [i \in 1..m |-> o(i)]
  <1>1. m \in Nat /\ x \in [0..n -> W] /\ \A i \in 1..n : a[i] = x[i]
    BY DEF Extends
  <1>2. ASSUME NEW i \in 1..m PROVE o(i) = Sub(w, x[p + i], x[p + Behind(i, 1)]) /\ o(i) \in W
    <2> DEFINE j == p + i
               k == j - 1
               b == x[j]
               c == x[k]
    <2>1. j \in 1..n /\ k \in 0..n /\ k = p + Behind(i, 1) /\ j \in 0..n
      BY <1>1 DEF Behind
    <2>2. a[j] = b /\ b \in W /\ c \in W
      BY <1>1, <2>1
    <2>3. y(i) = c
      <3>1. CASE i = 1
        BY <3>1
      <3>2. CASE i # 1
        <4>1. k \in 1..n /\ p + i - 1 = k
          BY <1>1, <3>2
        <4> HIDE DEF k
        <4>2. a[k] = c
          BY <1>1, <4>1
        <4> QED
          BY <3>2, <4>1, <4>2
      <3> QED
        BY <3>1, <3>2
    <2> HIDE DEF b, c, y, j, k
    <2>4. b \in Int /\ c \in Int
      BY <2>2, WordsAreNumbers
    <2>5. Sub(w, b, c) \in W
      BY <2>4, SumsAreWords
    <2> QED
      BY <2>1, <2>2, <2>3, <2>5 DEF b, c, j
  <1>3. Differences(w, a, x[p], p, q) = v
    BY DEF Differences
  <1> HIDE DEF o
  <1>4. v \in Seq(W) /\ Len(v) = m
    <2>1. \A i \in 1..m : o(i) \in W
      BY <1>2
    <2> HIDE DEF W, m
    <2> QED
      BY <1>1, <2>1
  <1>5. \A i \in 1..m : v[i] = Sub(w, x[p + i], x[p + Behind(i, 1)])
    <2> TAKE i \in 1..m
    <2>1. v[i] = o(i)
      OBVIOUS
    <2> QED
      BY <1>2, <2>1
  <1> HIDE DEF v
  <1>6. Lagged(w, x, p, q - p, 1, v)
    BY <1>4, <1>5 DEF Lagged, Register
  <1>7. v = Slice(d, p, q)
    BY <1>6, DifferencesOf
  <1> QED
    BY <1>3, <1>7

\* What the carry register is after the elements before p, in a kernel whose
\* last register started at o.
CarryAfter(build, lanes, a, y, o, p) ==
    IF build = "sse2" THEN InLowest(y, lanes) ELSE Slice(a, o, p)

\* A piece of the block.
LEMMA BlockPiece ==
    ASSUME NEW w \in Nat, NEW n \in Nat, NEW a, NEW x, Extends(w, n, a, x),
           NEW p \in Nat, NEW q \in Nat, p <= q, q <= n
    PROVE  Holds(w, x, p, q - p, Slice(a, p, q))
  <1> DEFINE W == WordsOf(w)
             v == Slice(a, p, q)
  <1>1. a \in Seq(W) /\ Len(a) = n /\ \A i \in 1..n : a[i] = x[i]
    BY DEF Extends
  <1>2. p <= q /\ q <= Len(a) /\ a \in Seq(W)
    BY <1>1
  <1>3. v \in Seq(W) /\ Len(v) = q - p /\ \A i \in 1..q - p : v[i] = a[p + i]
    <2> HIDE DEF W
    <2> QED
      BY <1>2, PieceIs
  <1> HIDE DEF v
  <1>4. ASSUME NEW i \in 1..q - p PROVE v[i] = x[p + i]
    <2> DEFINE j == p + i
    <2>1. j \in 1..n /\ v[i] = a[j]
      BY <1>2, <1>3
    <2> HIDE DEF j
    <2>2. a[j] = x[j]
      BY <1>1, <2>1
    <2> QED
      BY <2>1, <2>2 DEF j
  <1> QED
    BY <1>3, <1>4 DEF Holds, Register, v

\* What is carried past a register is right for the next.
LEMMA CarryAfterIs ==
    ASSUME NEW w \in Nat, NEW n \in Nat, NEW a, NEW x, Extends(w, n, a, x),
           NEW lanes \in {2, 4, 8}, NEW p \in Nat, NEW q \in Nat, q = p + lanes, q <= n,
           NEW build
    PROVE  Carries(build, WordsOf(w), lanes, x[q], CarryAfter(build, lanes, a, x[q], p, q))
  <1> DEFINE W == WordsOf(w)
             v == Slice(a, p, q)
             y == x[q]
             c == CarryAfter(build, lanes, a, x[q], p, q)
  <1>1. x \in [0..n -> W] /\ a \in Seq(W) /\ Len(a) = n
    BY DEF Extends
  <1>2. lanes \in Nat /\ q - p = lanes /\ p <= q /\ q \in 1..n /\ lanes \in 1..lanes
    BY <1>1
  <1>3. Register(W, lanes, v) /\ v[lanes] = y
    <2>1. Holds(w, x, p, q - p, v)
      BY <1>2, BlockPiece
    <2> QED
      BY <1>2, <2>1 DEF Holds
  <1>4. y \in W /\ 0 \in W
    BY <1>1, <1>2, WordsAreNumbers
  <1>5. CASE build = "sse2"
    <2>1. c = InLowest(y, lanes)
      BY <1>5 DEF CarryAfter
    <2> HIDE DEF y, W, c
    <2>2. Lowest(W, lanes, y, InLowest(y, lanes))
      BY <1>4, InLowestIs
    <2> QED
      BY <1>5, <2>1, <2>2 DEF Carries, c, y, W
  <1>6. CASE build # "sse2"
    <2>1. c = v
      BY <1>6 DEF CarryAfter
    <2> HIDE DEF v, c
    <2> QED
      BY <1>3, <1>6, <2>1 DEF Carries, c
  <1> QED
    BY <1>5, <1>6

\* A register more: the differences reach as far as the elements.
LEMMA ForwardStepIs ==
    ASSUME NEW w \in Nat, NEW n \in Nat, NEW a, NEW x, Extends(w, n, a, x),
           NEW d, Differs(w, n, x, d), NEW lanes \in {2, 4, 8},
           NEW p \in Nat, NEW q \in Nat, q = p + lanes, q <= n, NEW build,
           NEW r, Carries(build, WordsOf(w), lanes, x[p], r)
    PROVE  ForwardStep(build, w, [out |-> Slice(d, 0, p), reg |-> r], Slice(a, p, q))
             = [out |-> Slice(d, 0, q), reg |-> CarryAfter(build, lanes, a, x[q], p, q)]
  <1> DEFINE W == WordsOf(w)
             v == Slice(a, p, q)
             u == Preceding(build, w, v, r)
             t == SubLanes(w, v, u)
             c == CarryAfter(build, lanes, a, x[q], p, q)
  <1>1. x \in [0..n -> W] /\ a \in Seq(W) /\ Len(a) = n /\ d \in Seq(W) /\ Len(d) = n
    BY DEF Extends, Differs
  <1>2. lanes \in Nat /\ q - p = lanes /\ p <= q /\ q <= Len(a) /\ q <= Len(d)
    BY <1>1
  <1>4. Register(W, lanes, v) /\ \A k \in 1..lanes : v[k] = x[p + k]
    <2>1. Holds(w, x, p, q - p, v)
      BY <1>2, BlockPiece
    <2> QED
      BY <1>2, <2>1 DEF Holds
  <1> HIDE DEF v
  <1>5. x[p] \in W /\ x[q] \in W
    BY <1>1, <1>2
  <1>6. Register(W, lanes, u) /\ \A i \in 1..lanes : u[i] = IF i = 1 THEN x[p] ELSE v[i - 1]
    <2> DEFINE y == x[p]
    <2>1. y \in W /\ Register(W, lanes, v) /\ Carries(build, W, lanes, y, r)
      BY <1>4, <1>5
    <2> HIDE DEF y
    <2>2. Follows(W, lanes, y, v, u)
      BY <2>1, PrecedingIs
    <2> QED
      BY <2>2 DEF Follows, y
  <1> HIDE DEF u
  <1>7. Register(W, lanes, t) /\ \A i \in 1..lanes : t[i] = Sub(w, v[i], u[i])
    BY <1>2, <1>4, <1>6, SubLanesIs
  <1> HIDE DEF t
  <1>8. t = Slice(d, p, q)
    <2>1. ASSUME NEW i \in 1..lanes PROVE t[i] = Sub(w, x[p + i], x[p + Behind(i, 1)])
      <3>1. u[i] = x[p + Behind(i, 1)]
        <4>1. CASE i = 1
          <5>1. p + Behind(i, 1) = p
            BY <4>1 DEF Behind
          <5> QED
            BY <1>6, <4>1, <5>1
        <4>2. CASE i # 1
          <5> DEFINE j == i - 1
          <5>1. j \in 1..lanes /\ p + Behind(i, 1) = p + j
            BY <1>2, <4>2 DEF Behind
          <5>2. u[i] = v[j]
            BY <1>6, <4>2
          <5> HIDE DEF j
          <5> QED
            BY <1>4, <5>1, <5>2
        <4> QED
          BY <4>1, <4>2
      <3> QED
        BY <1>4, <1>7, <3>1
    <2>2. Lagged(w, x, p, q - p, 1, t)
      BY <1>2, <1>7, <2>1 DEF Lagged
    <2> QED
      BY <1>2, <2>2, DifferencesOf
  <1>9. Slice(d, 0, p) \o t = Slice(d, 0, q)
    <2>1. d \in Seq(W) /\ p <= q /\ q <= Len(d)
      BY <1>1, <1>2
    <2> HIDE DEF W
    <2> QED
      BY <1>8, <2>1, PiecesJoin
  <1>10. v[lanes] = x[q]
    <2>1. lanes \in 1..lanes
      BY <1>2
    <2> QED
      BY <1>4, <2>1
  <1>11. c = IF build = "sse2" THEN SrliLanes(v, Len(v) - 1) ELSE v
    <2>1. SrliLanes(v, Len(v) - 1) = InLowest(v[lanes], lanes)
      <3> HIDE DEF W
      <3> QED
        BY <1>4, SrliIs
    <2> QED
      BY <1>10, <2>1 DEF CarryAfter, v
  <1>12. ForwardStep(build, w, [out |-> Slice(d, 0, p), reg |-> r], v)
             = [out |-> Slice(d, 0, p) \o t,
                reg |-> IF build = "sse2" THEN SrliLanes(v, Len(v) - 1) ELSE v]
    BY DEF ForwardStep, t, u
  <1> HIDE DEF c
  <1>13. ForwardStep(build, w, [out |-> Slice(d, 0, p), reg |-> r], v) = [out |-> Slice(d, 0, q), reg |-> c]
    BY <1>9, <1>11, <1>12
  <1> QED
    BY <1>13 DEF v, c

\* The first element and the differences behind it.
LEMMA HeadDiffers ==
    ASSUME NEW w \in Nat, NEW n \in Nat, NEW a, NEW x, Extends(w, n, a, x),
           NEW d, Differs(w, n, x, d), NEW h \in 1..n
    PROVE  SubSeq(a, 1, 1) \o Differences(w, a, a[1], 1, h) = Slice(d, 0, h)
  <1> DEFINE W == WordsOf(w)
  <1>h. h \in 1..n /\ 1 \in 1..n
    OBVIOUS
  <1>a. /\ a \in Seq(W) /\ Len(a) = n /\ x[0] = 0 /\ Len(d) = n /\ d \in Seq(W)
        /\ x \in [0..n -> W] /\ \A i \in 1..n : a[i] = x[i]
    BY DEF Extends, Differs
  <1>b. a[1] = x[1]
    BY <1>h, <1>a
  <1>1. 1 \in Nat /\ h \in Nat /\ 1 <= h /\ h <= n /\ h <= Len(d) /\ 1 <= n
    BY <1>h, <1>a
  <1>2. Differences(w, a, x[1], 1, h) = Slice(d, 1, h)
    BY <1>1, DifferencesAre
  <1>3. SubSeq(a, 1, 1) = Slice(d, 0, 1)
    <2> DEFINE s == SubSeq(a, 1, 1)
    <2>1. s \in Seq(W) /\ Len(s) = 1 /\ s[1] = a[1]
      <3> HIDE DEF W
      <3> QED
        BY <1>a, <1>1
    <2> HIDE DEF s
    <2>2. x[1] \in W /\ x[1 + 0] = x[1]
      BY <1>a, <1>1
    <2>3. Sub(w, x[1], x[0]) = x[1]
      BY <1>a, <2>2, SubNothing
    <2>4. Lagged(w, x, 0, 1 - 0, 1, s)
      BY <1>b, <2>1, <2>3 DEF Lagged, Register, Behind
    <2>5. 0 \in Nat /\ 1 \in Nat /\ 0 <= 1 /\ 1 <= n
      BY <1>1
    <2>6. s = Slice(d, 0, 1)
      BY <2>4, <2>5, DifferencesOf
    <2> QED
      BY <2>6 DEF s
  <1>4. Slice(d, 0, 1) \o Slice(d, 1, h) = Slice(d, 0, h)
    <2> HIDE DEF W
    <2> QED
      BY <1>a, <1>1, PiecesJoin
  <1> QED
    BY <1>b, <1>2, <1>3, <1>4

\* The forward kernels take the differences of the block.
LEMMA ForwardIs ==
    ASSUME NEW w \in Nat, NEW n \in Nat, n >= 1, NEW a, NEW x, Extends(w, n, a, x),
           NEW d, Differs(w, n, x, d), NEW lanes \in {2, 4, 8}, NEW build
    PROVE  ForwardDelta(build, w, lanes, a) = d
  <1> DEFINE W == WordsOf(w)
             h == HeadEnd(lanes, n)
             m == Registers(lanes, n)
             z == BodyEnd(lanes, n)
             at(k) == h + lanes * k
             head == SubSeq(a, 1, 1) \o Differences(w, a, a[1], 1, h)
             first == [out |-> head, reg |-> FirstCarry(build, lanes, a[h])]
             step(f, k) == ForwardStep(build, w, f[k - 1], Slice(a, h + lanes * (k - 1), h + lanes * k))
             Def(f) == f = [k \in 0..m |-> IF k = 0 THEN first ELSE step(f, k)]
             reg(k) == IF k = 0 THEN FirstCarry(build, lanes, x[h])
                       ELSE CarryAfter(build, lanes, a, x[at(k)], at(k - 1), at(k))
             e == [k \in 0..m |-> [out |-> Slice(d, 0, at(k)), reg |-> reg(k)]]
             b == CHOOSE f : Def(f)
             tail == Differences(w, a, b[m].reg[CarryLane(build, lanes)], z, n)
  <1>1. /\ h \in 1..n /\ m \in Nat /\ z \in 1..n /\ z = at(m) /\ h = at(0)
        /\ \A k \in 1..m : /\ at(k - 1) \in 1..n
                           /\ at(k) = at(k - 1) + lanes
                           /\ at(k) \in 1..n
    <2>1. z = at(m)
      BY DEF BodyEnd
    <2>2. h \in 1..n
      BY RegistersFit
    <2>3. h = at(0)
      <3> HIDE DEF h
      <3> QED
        BY <2>2
    <2> QED
      BY <2>1, <2>3, RegistersFit
  <1>a. /\ a \in Seq(W) /\ Len(a) = n /\ x[0] = 0 /\ Len(d) = n /\ d \in Seq(W)
        /\ x \in [0..n -> W] /\ \A i \in 1..n : a[i] = x[i]
    BY DEF Extends, Differs
  <1>2. ForwardDelta(build, w, lanes, a) = b[m].out \o tail
    BY <1>a, Zenon DEF ForwardDelta
  <1> HIDE DEF h, m, z
  <1>b. a[h] = x[h] /\ a[1] = x[1]
    BY <1>1, <1>a
  <1>3. head = Slice(d, 0, h)
    BY <1>1, HeadDiffers
  <1>4. \A k \in 0..m : Carries(build, W, lanes, x[at(k)], reg(k))
    <2>1. Carries(build, W, lanes, x[at(0)], reg(0))
      <3> DEFINE y == x[h]
                 r == FirstCarry(build, lanes, y)
      <3>1. y \in W /\ 0 \in W
        BY <1>1, <1>a, WordsAreNumbers
      <3>2. reg(0) = r /\ x[at(0)] = y
        BY <1>1
      <3> HIDE DEF y, W, reg, at
      <3>3. CASE build = "sse2"
        <4>1. r = InLowest(y, lanes)
          BY <3>3 DEF FirstCarry
        <4> HIDE DEF r
        <4>2. Lowest(W, lanes, y, InLowest(y, lanes))
          BY <3>1, InLowestIs
        <4> QED
          BY <3>2, <3>3, <4>1, <4>2 DEF Carries
      <3>4. CASE build # "sse2"
        <4> DEFINE c == lanes - 1
                   f == Fill(c, 0)
                   g == <<y>>
        <4>1. c \in Nat /\ c + 1 = lanes
          OBVIOUS
        <4>2. r = f \o g
          BY <3>4 DEF FirstCarry
        <4> HIDE DEF r, c
        <4>3. f \in Seq(W) /\ Len(f) = c
          BY <3>1, <4>1, FillIs
        <4>4. g \in Seq(W) /\ Len(g) = 1 /\ g[1] = y
          BY <3>1
        <4> HIDE DEF f, g
        <4>5. f \in Seq(W) /\ g \in Seq(W)
          BY <4>3, <4>4
        <4>6. /\ f \o g \in Seq(W) /\ Len(f \o g) = Len(f) + Len(g)
              /\ \A i \in 1..Len(g) : (f \o g)[Len(f) + i] = g[i]
          BY <4>5, TwoJoined
        <4>7. Register(W, lanes, r) /\ r[lanes] = y
          <5>1. 1 \in 1..Len(g)
            BY <4>4
          <5>2. (f \o g)[Len(f) + 1] = g[1]
            BY <4>6, <5>1
          <5> QED
            BY <4>1, <4>2, <4>3, <4>4, <4>6, <5>2 DEF Register
        <4> QED
          BY <3>2, <3>4, <4>7 DEF Carries
      <3> QED
        BY <3>3, <3>4
    <2>2. ASSUME NEW k \in 1..m PROVE Carries(build, W, lanes, x[at(k)], reg(k))
      <3> DEFINE p == at(k - 1)
                 q == at(k)
      <3>1. p \in Nat /\ q \in Nat /\ q = p + lanes /\ q <= n /\ q \in 1..n
        <4> HIDE DEF at
        <4> QED
          BY <1>1
      <3>2. reg(k) = CarryAfter(build, lanes, a, x[q], p, q)
        BY <1>1
      <3> HIDE DEF p, q, reg
      <3>3. Carries(build, W, lanes, x[q], CarryAfter(build, lanes, a, x[q], p, q))
        BY <1>1, <1>a, <3>1, CarryAfterIs
      <3> QED
        BY <3>2, <3>3 DEF q
    <2> HIDE DEF reg, at
    <2>3. \A k \in 0..m : k = 0 \/ k \in 1..m
      BY <1>1
    <2> QED
      BY <2>1, <2>2, <2>3
  <1>5. e[0] = first
    <2>1. 0 \in 0..m
      BY <1>1
    <2>2. reg(0) = FirstCarry(build, lanes, x[h])
      OBVIOUS
    <2> HIDE DEF head, reg
    <2>3. e[0] = [out |-> Slice(d, 0, at(0)), reg |-> reg(0)]
      BY <2>1
    <2> HIDE DEF e, at
    <2> QED
      BY <1>1, <1>3, <1>b, <2>2, <2>3
  <1>6. ASSUME NEW k \in 1..m PROVE e[k] = step(e, k)
    <2> DEFINE p == at(k - 1)
               q == at(k)
               r == reg(k - 1)
    <2>1. k \in 0..m /\ k - 1 \in 0..m /\ k # 0
      BY <1>1
    <2>2. e[k - 1] = [out |-> Slice(d, 0, p), reg |-> r]
      <3> HIDE DEF reg, at
      <3> QED
        BY <2>1
    <2>3. e[k] = [out |-> Slice(d, 0, q), reg |-> CarryAfter(build, lanes, a, x[q], p, q)]
      BY <2>1
    <2>4. step(e, k) = ForwardStep(build, w, e[k - 1], Slice(a, p, q))
      OBVIOUS
    <2>5. p \in Nat /\ q \in Nat /\ q = p + lanes /\ q <= n
      <3> HIDE DEF at
      <3> QED
        BY <1>1
    <2>6. Carries(build, W, lanes, x[p], r)
      <3> HIDE DEF reg, at
      <3> QED
        BY <1>4, <2>1
    <2> HIDE DEF e, p, q, r
    <2>7. ForwardStep(build, w, [out |-> Slice(d, 0, p), reg |-> r], Slice(a, p, q))
                = [out |-> Slice(d, 0, q), reg |-> CarryAfter(build, lanes, a, x[q], p, q)]
      BY <2>5, <2>6, ForwardStepIs
    <2> QED
      BY <2>2, <2>3, <2>4, <2>7
  <1> HIDE DEF first
  <1>7. Def(e)
    <2>1. e = [k \in 0..m |-> e[k]]
      OBVIOUS
    <2>2. \A k \in 0..m : e[k] = IF k = 0 THEN first ELSE step(e, k)
      <3> HIDE DEF e, step
      <3>1. \A k \in 0..m : k = 0 \/ k \in 1..m
        BY <1>1
      <3> QED
        BY <1>5, <1>6, <3>1, Zenon
    <2>3. [k \in 0..m |-> e[k]] = [k \in 0..m |-> IF k = 0 THEN first ELSE step(e, k)]
      BY <2>2, Zenon
    <2> QED
      BY <2>1, <2>3, Zenon
  <1>8. Def(b)
    <2> HIDE DEF Def
    <2> QED
      BY <1>7, Zenon
  <1> HIDE DEF b, e, tail
  <1>9. b[m] = e[m]
    <2>0. 0 \in 0..m /\ m \in 0..m /\ m \in Nat
      BY <1>1
    <2>1. b[0] = e[0]
      BY <1>5, <1>8, <2>0, Zenon
    <2>2. ASSUME NEW k \in 1..m, b[k - 1] = e[k - 1] PROVE b[k] = e[k]
      <3>1. k \in 0..m /\ k # 0
        BY <1>1
      <3>2. b[k] = step(b, k)
        <4> HIDE DEF step
        <4> QED
          BY <1>8, <3>1, Zenon
      <3>3. step(b, k) = step(e, k)
        BY <2>2, Zenon
      <3> QED
        BY <1>6, <3>2, <3>3, Zenon
    <2>3. \A k \in 1..m : b[k - 1] = e[k - 1] => b[k] = e[k]
      BY <2>2
    <2> HIDE DEF Def
    <2>4. \A k \in 0..m : b[k] = e[k]
      BY <2>0, <2>1, <2>3, SameSteps
    <2> QED
      BY <2>0, <2>4
  <1>10. b[m].out = Slice(d, 0, z) /\ b[m].reg = reg(m)
    <2> HIDE DEF reg, at
    <2>1. e[m] = [out |-> Slice(d, 0, at(m)), reg |-> reg(m)]
      BY <1>1 DEF e
    <2> QED
      BY <1>1, <1>9, <2>1
  <1>11. b[m].reg[CarryLane(build, lanes)] = x[z]
    <2>1. Carries(build, W, lanes, x[z], reg(m))
      <3> HIDE DEF reg, at
      <3> QED
        BY <1>1, <1>4
    <2> HIDE DEF reg
    <2>2. 1 \in 1..lanes
      OBVIOUS
    <2> QED
      BY <1>10, <2>1, <2>2 DEF CarryLane, Carries, Lowest
  <1>12. tail = Slice(d, z, n)
    <2>1. z \in Nat /\ z <= n /\ n <= n
      BY <1>1
    <2>2. Differences(w, a, x[z], z, n) = Slice(d, z, n)
      BY <2>1, DifferencesAre
    <2> QED
      BY <1>11, <2>2 DEF tail
  <1>13. Slice(d, 0, z) \o Slice(d, z, n) = Slice(d, 0, n) /\ Slice(d, 0, n) = d
    <2>1. z \in Nat /\ z <= n /\ n <= Len(d) /\ d \in Seq(W)
      BY <1>1, <1>a
    <2> HIDE DEF W
    <2> QED
      BY <1>a, <2>1, PiecesJoin, WholePiece
  <1> QED
    BY <1>2, <1>10, <1>12, <1>13

----------------------------------------------------------------------------
(* Exclusive ors of neighbours.                                            *)

\* t is s, each element after the first k with the one before it.
Mixed(w, n, k, s, t) ==
    /\ s \in [1..n -> WordsOf(w)]
    /\ \A i \in 1..n : t[i] = IF i <= k THEN s[i] ELSE Xor(w, s[i], s[i - 1])

\* The recursive exclusive ors have one solution.
LEMMA Unmixed ==
    ASSUME NEW w \in Nat, NEW n \in Nat, NEW k \in Nat \ {0}, NEW s, NEW t, Mixed(w, n, k, s, t)
    PROVE  /\ s = [i \in 1..n |-> IF i <= k THEN t[i] ELSE Xor(w, s[i - 1], t[i])]
           /\ \A f : f = [i \in 1..n |-> IF i <= k THEN t[i] ELSE Xor(w, f[i - 1], t[i])] => f = s
  <1> DEFINE W == WordsOf(w)
             o(f, i) == IF i <= k THEN t[i] ELSE Xor(w, f[i - 1], t[i])
  <1>1. s \in [1..n -> W] /\ \A i \in 1..n : t[i] = IF i <= k THEN s[i] ELSE Xor(w, s[i], s[i - 1])
    BY DEF Mixed
  <1>2. ASSUME NEW i \in 1..n PROVE s[i] = o(s, i)
    <2>1. CASE i <= k
      BY <1>1, <2>1
    <2>2. CASE ~ (i <= k)
      <3> DEFINE a == s[i]
                 b == s[i - 1]
      <3>1. i - 1 \in 1..n
        BY <2>2
      <3>2. a \in W /\ b \in W /\ t[i] = Xor(w, a, b) /\ o(s, i) = Xor(w, b, t[i])
        BY <1>1, <2>2, <3>1
      <3> HIDE DEF a, b, o
      <3>3. Xor(w, b, Xor(w, a, b)) = a
        BY <3>2, XorUndone
      <3> QED
        BY <3>2, <3>3 DEF a
    <2> QED
      BY <2>1, <2>2
  <1>3. s = [i \in 1..n |-> o(s, i)]
    <2> HIDE DEF o
    <2>1. s = [i \in 1..n |-> s[i]]
      BY <1>1
    <2>2. [i \in 1..n |-> s[i]] = [i \in 1..n |-> o(s, i)]
      BY <1>2, Zenon
    <2> QED
      BY <2>1, <2>2, Zenon
  <1>4. ASSUME NEW f, f = [i \in 1..n |-> o(f, i)] PROVE f = s
    <2> DEFINE S == {i \in 0..n : i = 0 \/ f[i] = s[i]}
    <2>1. 0 \in S
      OBVIOUS
    <2>2. ASSUME NEW i \in 0..n - 1, i \in S PROVE i + 1 \in S
      <3> DEFINE j == i + 1
      <3>1. j \in 1..n /\ j - 1 = i /\ j \in 0..n
        OBVIOUS
      <3> HIDE DEF j
      <3>2. f[j] = o(f, j)
        <4> HIDE DEF o
        <4> QED
          BY <1>4, <3>1, Zenon
      <3>3. o(f, j) = o(s, j)
        <4>1. CASE j <= k
          BY <4>1
        <4>2. CASE ~ (j <= k)
          <5>1. f[i] = s[i]
            BY <2>2, <3>1, <4>2
          <5> QED
            BY <3>1, <5>1
        <4> QED
          BY <4>1, <4>2
      <3>4. f[j] = s[j]
        BY <1>2, <3>1, <3>2, <3>3
      <3> QED
        BY <3>1, <3>4 DEF j
    <2>3. \A i \in 0..n : i \in S
      <3> HIDE DEF S
      <3> QED
        BY <2>1, <2>2, InductTo
    <2>4. \A i \in 1..n : f[i] = s[i]
      BY <2>3
    <2>5. f = [i \in 1..n |-> f[i]]
      <3> HIDE DEF o
      <3> QED
        BY <1>4
    <2>6. [i \in 1..n |-> f[i]] = [i \in 1..n |-> s[i]]
      BY <2>4, Zenon
    <2>7. s = [i \in 1..n |-> s[i]]
      BY <1>1
    <2> QED
      BY <2>5, <2>6, <2>7, Zenon
  <1> QED
    BY <1>3, <1>4, Zenon

\* What the exclusive ors add up to behind y.
Accumulated(w, n, y, t) ==
    CHOOSE f : f = [i \in 1..n |-> IF i = 1 THEN y ELSE Xor(w, f[i - 1], t[i])]

\* The accumulated exclusive ors of a block's mixture are the block.
LEMMA XorSumsBack ==
    ASSUME NEW w \in Nat, NEW n \in Nat, NEW s, NEW t, Mixed(w, n, 1, s, t),
           NEW y, n >= 1 => y = t[1]
    PROVE  Accumulated(w, n, y, t) = s
  <1> DEFINE o(f, i) == IF i <= 1 THEN t[i] ELSE Xor(w, f[i - 1], t[i])
             q(f, i) == IF i = 1 THEN y ELSE Xor(w, f[i - 1], t[i])
             P(f) == f = [i \in 1..n |-> q(f, i)]
             h == CHOOSE f : P(f)
  <1>1. /\ s = [i \in 1..n |-> o(s, i)]
        /\ \A f : f = [i \in 1..n |-> o(f, i)] => f = s
    BY 1 \in Nat \ {0}, Unmixed
  <1>2. \A f : \A i \in 1..n : o(f, i) = q(f, i)
    <2> TAKE f
    <2> TAKE i \in 1..n
    <2>1. (i <= 1 <=> i = 1) /\ y = t[1]
      OBVIOUS
    <2> QED
      BY <2>1
  <1> HIDE DEF o, q
  <1>3. \A f : [i \in 1..n |-> o(f, i)] = [i \in 1..n |-> q(f, i)]
    BY <1>2, Zenon
  <1>4. P(s)
    BY <1>1, <1>3, Zenon
  <1>5. P(h)
    <2> HIDE DEF P
    <2> QED
      BY <1>4, Zenon
  <1> HIDE DEF h
  <1>6. h = s
    BY <1>1, <1>3, <1>5, Zenon
  <1> QED
    BY <1>6 DEF h, q, Accumulated

\* The exclusive ors of neighbours are mixed at distance one.
LEMMA XorMixes ==
    ASSUME NEW w \in Nat, NEW s \in Seq(WordsOf(w))
    PROVE  /\ Mixed(w, Len(s), 1, s, XorDifferences(w, s))
           /\ XorDifferences(w, s) \in [1..Len(s) -> WordsOf(w)]
  <1> DEFINE W == WordsOf(w)
             n == Len(s)
             o(i) == IF i = 1 THEN s[1] ELSE Xor(w, s[i], s[i - 1])
             t == [i \in 1..n |-> o(i)]
  <1>1. n \in Nat /\ s \in [1..n -> W]
    OBVIOUS
  <1>2. XorDifferences(w, s) = t
    BY DEF XorDifferences
  <1>3. ASSUME NEW i \in 1..n PROVE o(i) \in W /\ o(i) = IF i <= 1 THEN s[i] ELSE Xor(w, s[i], s[i - 1])
    <2>1. CASE i = 1
      BY <1>1, <2>1
    <2>2. CASE i # 1
      <3> DEFINE a == s[i]
                 b == s[i - 1]
      <3>1. i - 1 \in 1..n /\ ~ (i <= 1)
        BY <1>1, <2>2
      <3>2. a \in W /\ b \in W
        BY <1>1, <3>1
      <3>3. o(i) = Xor(w, a, b)
        BY <2>2
      <3> HIDE DEF a, b
      <3>4. Xor(w, a, b) \in W
        BY <3>2, XorBits
      <3> QED
        BY <3>1, <3>3, <3>4 DEF a, b
    <2> QED
      BY <2>1, <2>2
  <1> HIDE DEF o
  <1>4. t \in [1..n -> W] /\ \A i \in 1..n : t[i] = o(i)
    BY <1>3
  <1> HIDE DEF t
  <1> QED
    BY <1>1, <1>2, <1>3, <1>4 DEF Mixed

\* A function on 1..n is a sequence.
LEMMA FunctionsAreSeqs ==
    ASSUME NEW n \in Nat, NEW S, NEW f \in [1..n -> S]
    PROVE  f \in Seq(S) /\ Len(f) = n /\ f = [i \in 1..n |-> f[i]]
  <1> DEFINE g == [i \in 1..n |-> f[i]]
  <1>1. \A i \in 1..n : f[i] \in S
    OBVIOUS
  <1>2. g \in Seq(S) /\ Len(g) = n
    BY <1>1
  <1>3. f = g
    OBVIOUS
  <1> QED
    BY <1>2, <1>3

\* The exclusive ors of neighbours undone.
LEMMA XorBack ==
    ASSUME NEW w \in Nat, NEW s \in Seq(WordsOf(w))
    PROVE  XorSums(w, XorDifferences(w, s)) = s /\ Len(XorDifferences(w, s)) = Len(s)
  <1> DEFINE W == WordsOf(w)
             n == Len(s)
             t == XorDifferences(w, s)
             h == Accumulated(w, n, t[1], t)
  <1>1. n \in Nat /\ s = [i \in 1..n |-> s[i]]
    OBVIOUS
  <1>2. Mixed(w, n, 1, s, t) /\ t \in [1..n -> W]
    BY XorMixes
  <1>3. Len(t) = n
    BY <1>1, <1>2, FunctionsAreSeqs
  <1> HIDE DEF t
  <1>4. XorSums(w, t) = [i \in 1..n |-> h[i]]
    <2> DEFINE H(m) == Accumulated(w, m, t[1], t)
               R(m) == [i \in 1..m |-> H(m)[i]]
    <2>1. XorSums(w, t) = R(Len(t))
      BY Zenon DEF XorSums, Accumulated
    <2>2. h = H(n)
      OBVIOUS
    <2>3. R(n) = [i \in 1..n |-> h[i]]
      BY <2>2, Zenon
    <2> HIDE DEF R, n, h
    <2> QED
      BY <1>3, <2>1, <2>3
  <1>5. h = s
    BY <1>1, <1>2, XorSumsBack
  <1> HIDE DEF h
  <1>6. XorSums(w, t) = s
    BY <1>1, <1>4, <1>5
  <1> QED
    BY <1>3, <1>6 DEF t

\* And undone twice.
LEMMA Delta2Back ==
    ASSUME NEW w \in Nat, NEW s \in Seq(WordsOf(w))
    PROVE  Delta2Decode(w, Delta2Encode(w, s)) = s
  <1> DEFINE W == WordsOf(w)
             n == Len(s)
             t == XorDifferences(w, s)
             o(i) == IF i <= 2 THEN t[i] ELSE Xor(w, t[i], t[i - 1])
             e == [i \in 1..n |-> o(i)]
             G(m) == CHOOSE f : f = [i \in 1..m |-> IF i <= 2 THEN e[i] ELSE Xor(w, f[i - 1], e[i])]
             g == G(n)
             H(m, u) == Accumulated(w, m, e[1], u)
             R(m) == [i \in 1..m |-> H(m, G(m))[i]]
  <1>1. n \in Nat /\ s = [i \in 1..n |-> s[i]]
    OBVIOUS
  <1>2. Mixed(w, n, 1, s, t) /\ t \in [1..n -> W]
    BY XorMixes
  <1>3. Delta2Encode(w, s) = e
    BY Zenon DEF Delta2Encode
  <1> HIDE DEF t, n
  <1>4. \A i \in 1..n : o(i) \in W
    <2> TAKE i \in 1..n
    <2>1. CASE i <= 2
      BY <1>2, <2>1
    <2>2. CASE ~ (i <= 2)
      <3> DEFINE a == t[i]
                 b == t[i - 1]
      <3>1. i - 1 \in 1..n
        BY <1>1, <2>2
      <3>2. a \in W /\ b \in W
        BY <1>2, <3>1
      <3>3. o(i) = Xor(w, a, b)
        BY <2>2
      <3> HIDE DEF a, b, o
      <3> QED
        BY <3>2, <3>3, XorBits
    <2> QED
      BY <2>1, <2>2
  <1>5. /\ e \in [1..n -> W] /\ (n >= 1 => e[1] = t[1])
        /\ \A i \in 1..n : e[i] = IF i <= 2 THEN t[i] ELSE Xor(w, t[i], t[i - 1])
    <2>1. \A i \in 1..n : e[i] = o(i)
      BY Zenon
    <2>2. n >= 1 => 1 \in 1..n /\ o(1) = t[1]
      BY <1>1
    <2>3. e \in [1..n -> W]
      <3> HIDE DEF o
      <3> QED
        BY <1>4
    <2> QED
      BY <2>1, <2>2, <2>3
  <1> HIDE DEF e
  <1>6. Len(e) = n
    BY <1>1, <1>5, FunctionsAreSeqs
  <1>7. Delta2Decode(w, e) = R(Len(e))
    BY Zenon DEF Delta2Decode, Accumulated
  <1>8. g = t
    <2> DEFINE Def(f) == f = [i \in 1..n |-> IF i <= 2 THEN e[i] ELSE Xor(w, f[i - 1], e[i])]
    <2>1. Mixed(w, n, 2, t, e)
      BY <1>2, <1>5 DEF Mixed
    <2>2. Def(t) /\ \A f : Def(f) => f = t
      BY <1>1, <2>1, 2 \in Nat \ {0}, Unmixed
    <2>3. g = CHOOSE f : Def(f)
      OBVIOUS
    <2> HIDE DEF Def, g
    <2> QED
      BY <2>2, <2>3, Zenon
  <1> HIDE DEF G
  <1>9. H(n, t) = s
    BY <1>1, <1>2, <1>5, XorSumsBack
  <1> HIDE DEF H
  <1>10. R(n) = [i \in 1..n |-> s[i]]
    BY <1>8, <1>9
  <1> HIDE DEF R
  <1> QED
    BY <1>1, <1>3, <1>6, <1>7, <1>10

----------------------------------------------------------------------------
(* The two models of differences.                                          *)

\* A block with a zero before it, and its differences.
LEMMA ZeroBefore ==
    ASSUME NEW w \in Nat, NEW a \in Seq(WordsOf(w))
    PROVE  \E x, d : Extends(w, Len(a), a, x) /\ Differs(w, Len(a), x, d)
  <1> DEFINE W == WordsOf(w)
             n == Len(a)
             x == [i \in 0..n |-> IF i = 0 THEN 0 ELSE a[i]]
             o(i) == Sub(w, x[i], x[i - 1])
             d == [i \in 1..n |-> o(i)]
  <1>1. n \in Nat /\ 0 \in W
    BY WordsAreNumbers
  <1>2. x \in [0..n -> W] /\ x[0] = 0 /\ \A i \in 1..n : a[i] = x[i]
    <2>1. \A i \in 0..n : i = 0 \/ i \in 1..n
      BY <1>1
    <2>2. \A i \in 0..n : (IF i = 0 THEN 0 ELSE a[i]) \in W
      BY <1>1, <2>1
    <2>3. \A i \in 1..n : i \in 0..n /\ i # 0 /\ 0 \in 0..n
      BY <1>1
    <2> HIDE DEF W
    <2> QED
      BY <1>1, <2>2, <2>3
  <1>3. Extends(w, n, a, x)
    BY <1>2 DEF Extends
  <1> HIDE DEF x
  <1>4. \A i \in 1..n : o(i) \in W
    <2> TAKE i \in 1..n
    <2> DEFINE b == x[i]
               c == x[i - 1]
    <2>1. i \in 0..n /\ i - 1 \in 0..n
      BY <1>1
    <2>2. b \in W /\ c \in W
      BY <1>2, <2>1
    <2> HIDE DEF b, c
    <2>3. b \in Int /\ c \in Int
      BY <2>2, WordsAreNumbers
    <2>4. Sub(w, b, c) \in W
      BY <2>3, SumsAreWords
    <2> QED
      BY <2>4 DEF b, c
  <1>5. \A i \in 1..n : d[i] = Sub(w, x[i], x[i - 1])
    OBVIOUS
  <1> HIDE DEF o
  <1>6. d \in [1..n -> W]
    BY <1>4
  <1> HIDE DEF d
  <1>7. d \in Seq(W) /\ Len(d) = n
    <2> HIDE DEF W, n
    <2> QED
      BY <1>1, <1>6, FunctionsAreSeqs
  <1>8. Differs(w, n, x, d)
    BY <1>2, <1>5, <1>7 DEF Differs
  <1> QED
    BY <1>3, <1>8

\* Whichever build took the differences, whichever adds them up.
LEMMA DeltaBack ==
    ASSUME NEW dtype, dtype.size \in {1, 2, 4, 8}, NEW src \in Seq(WordsOf(Bits(dtype.size))),
           NEW build, NEW reader
    PROVE  DeltaDecode(reader, dtype, DeltaEncode(build, dtype, src)) = src
  <1> DEFINE w == Bits(dtype.size)
             W == WordsOf(w)
             n == Len(src)
             lanes == Lanes(dtype.size)
             coded == DeltaEncode(build, dtype, src)
  <1>1. w \in Nat /\ n \in Nat /\ (src = <<>> <=> n = 0)
    BY ElementsAssumption DEF Bits
  <1>a. src \in Seq(WordsOf(w))
    OBVIOUS
  <1>2. dtype.size # 1 => lanes \in {2, 4, 8}
    BY DEF Lanes
  <1> HIDE DEF w, lanes
  <1>3. CASE src = <<>>
    BY <1>3 DEF DeltaEncode, DeltaDecode
  <1>4. CASE src # <<>> /\ dtype.kind = "float"
    <2>1. coded = XorDifferences(w, src)
      BY <1>4 DEF DeltaEncode, w
    <2>2. XorSums(w, coded) = src /\ Len(coded) = n
      BY <1>1, <1>a, <2>1, XorBack
    <2>3. coded # <<>>
      <3> HIDE DEF coded
      <3>1. Len(<<>>) = 0
        OBVIOUS
      <3> QED
        BY <1>1, <1>4, <2>2, <3>1
    <2>4. DeltaDecode(reader, dtype, coded) = XorSums(w, coded)
      <3> HIDE DEF coded
      <3> QED
        BY <1>4, <2>3 DEF DeltaDecode, w
    <2> QED
      BY <2>2, <2>4
  <1>5. CASE src # <<>> /\ dtype.kind # "float"
    <2>0. n >= 1 /\ n \in 1..n
      BY <1>1, <1>5
    <2>1. PICK x, d : Extends(w, n, src, x) /\ Differs(w, n, x, d)
      BY <1>1, <1>a, ZeroBefore
    <2>a. src \in Seq(W) /\ d \in Seq(W) /\ Len(d) = n /\ Len(src) = n /\ x[0] = 0
      BY <2>1 DEF Extends, Differs
    <2>b. Slice(d, 0, n) = d /\ Slice(src, 0, n) = src
      <3> HIDE DEF W
      <3> QED
        BY <2>a, WholePiece
    <2>2. coded = d
      <3>1. CASE dtype.size = 1 \/ build = "scalar"
        <4>1. coded = SubSeq(src, 1, 1) \o Differences(w, src, src[1], 1, n)
          BY <1>5, <3>1 DEF DeltaEncode, w
        <4>2. SubSeq(src, 1, 1) \o Differences(w, src, src[1], 1, n) = Slice(d, 0, n)
          BY <1>1, <2>0, <2>1, HeadDiffers
        <4> QED
          BY <2>b, <4>1, <4>2
      <3>2. CASE ~ (dtype.size = 1 \/ build = "scalar")
        <4>1. coded = ForwardDelta(build, w, lanes, src)
          BY <1>5, <3>2 DEF DeltaEncode, w, lanes
        <4>2. lanes \in {2, 4, 8}
          BY <1>2, <3>2
        <4> HIDE DEF coded, n
        <4>3. ForwardDelta(build, w, lanes, src) = d
          BY <1>1, <2>0, <2>1, <4>2, ForwardIs
        <4> QED
          BY <4>1, <4>3
      <3> QED
        BY <3>1, <3>2
    <2>3. d # <<>>
      <3>1. Len(<<>>) = 0
        OBVIOUS
      <3> QED
        BY <2>0, <2>a, <3>1
    <2>4. DeltaDecode(reader, dtype, d) = src
      <3>1. CASE dtype.size = 1 \/ reader = "scalar"
        <4>1. DeltaDecode(reader, dtype, d) = Sums(w, d, 0, 0, n)
          BY <1>5, <2>3, <2>a, <3>1 DEF DeltaDecode, w
        <4>2. 0 \in Nat /\ 0 <= n /\ n <= n
          BY <1>1
        <4>3. Sums(w, d, x[0], 0, n) = Slice(src, 0, n)
          <5> HIDE DEF n
          <5> QED
            BY <1>1, <2>1, <4>2, SumsBack
        <4> QED
          BY <2>a, <2>b, <4>1, <4>3
      <3>2. CASE ~ (dtype.size = 1 \/ reader = "scalar")
        <4>1. DeltaDecode(reader, dtype, d) = InverseDelta(reader, w, lanes, d)
          BY <1>5, <2>3, <3>2 DEF DeltaDecode, w, lanes
        <4>2. lanes \in {2, 4, 8}
          BY <1>2, <3>2
        <4> HIDE DEF coded, n
        <4>3. InverseDelta(reader, w, lanes, d) = src
          BY <1>1, <2>0, <2>1, <4>2, InverseBack
        <4> QED
          BY <4>1, <4>3
      <3> QED
        BY <3>1, <3>2
    <2> HIDE DEF coded
    <2> QED
      BY <2>2, <2>4 DEF coded
  <1> QED
    BY <1>3, <1>4, <1>5

----------------------------------------------------------------------------
(* Numbers of variable length.                                             *)

\* A place more weighs a radix more.
LEMMA WeightIs ==
    ASSUME NEW k \in Nat
    PROVE  /\ Weight(k) \in Nat \ {0} /\ Radix \in Nat \ {0} /\ Weight(0) = 1
           /\ Weight(k + 1) = Weight(k) * Radix
  <1> DEFINE a == PayloadBits * k
             b == PayloadBits * (k + 1)
  <1>1. PayloadBits \in Nat /\ a \in Nat /\ b = a + PayloadBits /\ PayloadBits * 0 = 0
    BY SymbolsAssumption
  <1> HIDE DEF a, b
  <1>2. 2^b = 2^a * 2^PayloadBits
    BY <1>1, PowerSum
  <1>3. 2^a \in Nat \ {0} /\ 2^PayloadBits \in Nat \ {0}
    BY <1>1, PowerPositive
  <1>4. Weight(0) = 1
    BY <1>1, PowerZero DEF Weight
  <1> QED
    BY <1>2, <1>3, <1>4 DEF Weight, Radix, a, b

\* A number below the largest has a size, and fits it.
LEMMA SizeIs ==
    ASSUME NEW v \in Nat, v < Weight(VarintMax)
    PROVE  /\ VarintSize(v) \in 1..VarintMax
           /\ v < Weight(VarintSize(v))
  <1> DEFINE P(n) == v < Weight(n) /\ (n = 1 \/ v >= Weight(n - 1))
             S == {n \in Nat : n >= 1 /\ v < Weight(n)}
             m == VarintMax
  <1>1. m \in Nat /\ m >= 1 /\ m \in S
    BY SymbolsAssumption
  <1>2. PICK n \in S : \A k \in S : n <= k
    BY <1>1, Least
  <1>3. n \in 1..m + 1 /\ P(n)
    <2>1. n <= m /\ n >= 1 /\ n \in Nat /\ v < Weight(n)
      BY <1>1, <1>2
    <2>2. n = 1 \/ v >= Weight(n - 1)
      <3> SUFFICES ASSUME n # 1 PROVE v >= Weight(n - 1)
        OBVIOUS
      <3> DEFINE j == n - 1
      <3>1. j \in Nat /\ j >= 1 /\ j < n
        BY <2>1
      <3> HIDE DEF j
      <3>2. Weight(j) \in Nat
        BY <3>1, WeightIs
      <3>3. ~ (v < Weight(j))
        BY <1>2, <3>1
      <3>4. v >= Weight(j)
        BY <3>2, <3>3
      <3> QED
        BY <3>4 DEF j
    <2> QED
      BY <1>1, <2>1, <2>2
  <1> DEFINE c == CHOOSE i \in 1..m + 1 : P(i)
  <1>4. c \in 1..m + 1 /\ P(c)
    <2> HIDE DEF P
    <2> QED
      BY <1>3
  <1>5. VarintSize(v) = c
    BY Zenon DEF VarintSize
  <1> HIDE DEF c, S
  <1>6. c # m + 1
    <2> SUFFICES ASSUME c = m + 1 PROVE FALSE
      OBVIOUS
    <2>1. c # 1 /\ c - 1 = m
      BY <1>1
    <2>2. v >= Weight(m)
      BY <1>4, <2>1
    <2>3. Weight(m) \in Nat
      BY <1>1, WeightIs
    <2> QED
      BY <2>2, <2>3
  <1> QED
    BY <1>1, <1>4, <1>5, <1>6

\* One payload more.
LEMMA Digit ==
    ASSUME NEW v \in Nat, NEW k \in Nat
    PROVE  v % Weight(k + 1) = (v % Weight(k)) + ((v \div Weight(k)) % Radix) * Weight(k)
  <1> DEFINE p == Weight(k)
             r == Radix
             q == v \div p
             l == v % p
             t == q \div r
             b == q % r
  <1>1. p \in Nat \ {0} /\ r \in Nat \ {0} /\ Weight(k + 1) = p * r
    BY WeightIs
  <1> HIDE DEF p, r
  <1>a. v \in Int /\ p \in Nat \ {0} /\ r \in Nat \ {0}
    BY <1>1
  <1>2. q \in Nat /\ l \in 0..p - 1 /\ v = p * q + l
    <2>1. q \in Int /\ l \in 0..p - 1 /\ v = p * q + l
      BY <1>a, DivMod
    <2>2. q >= 0
      BY <1>a
    <2> QED
      BY <2>1, <2>2
  <1> HIDE DEF q, l
  <1>3. t \in Int /\ b \in 0..r - 1 /\ q = r * t + b
    <2>1. q \in Int
      BY <1>2
    <2> QED
      BY <1>a, <2>1, DivMod
  <1> HIDE DEF t, b
  <1> DEFINE m == p * r
             x == b * p
             y == x + l
  <1>4. m \in Nat \ {0} /\ x \in Nat /\ x <= m - p
    <2>1. m \in Nat \ {0}
      BY <1>1
    <2>2. b \in Nat /\ b + 1 <= r /\ p \in Nat
      BY <1>1, <1>3
    <2>3. x \in Nat
      BY <2>2
    <2>4. (b + 1) * p <= r * p /\ (b + 1) * p = b * p + p /\ r * p = p * r
      BY <1>1, <2>2
    <2> QED
      BY <1>1, <2>1, <2>3, <2>4
  <1>5. v = m * t + y
    <2>1. p * q = p * (r * t) + p * b
      BY <1>1, <1>2, <1>3
    <2>2. p * (r * t) = m * t /\ p * b = x
      BY <1>1, <1>3
    <2> DEFINE u == m * t
    <2>3. u \in Int
      BY <1>3, <1>4
    <2> HIDE DEF m, x, u
    <2> QED
      BY <1>2, <1>4, <2>1, <2>2, <2>3 DEF u
  <1>6. y \in 0..m - 1
    <2> HIDE DEF m, x
    <2> QED
      BY <1>1, <1>2, <1>4
  <1> HIDE DEF m, x, y
  <1>7. (m * t + y) % m = y
    BY <1>3, <1>4, <1>6, DivModIs
  <1>8. v % m = y
    BY <1>5, <1>7
  <1> QED
    BY <1>1, <1>8 DEF m, x, y, l, b, q, p, r

\* Two sequences of states start alike and go on alike.
Together(n, f, e) ==
    f[0] = e[0] /\ \A i \in 1..n : f[i - 1] = e[i - 1] => f[i] = e[i]

\* They stay alike.
LEMMA StaySame ==
    ASSUME NEW n \in Nat, NEW f, NEW e, Together(n, f, e)
    PROVE  \A i \in 0..n : f[i] = e[i]
  <1>1. f[0] = e[0] /\ \A i \in 1..n : f[i - 1] = e[i - 1] => f[i] = e[i]
    BY DEF Together
  <1> QED
    BY <1>1, SameSteps

VarBytes == [payload : Nat, more : BOOLEAN]

\* The bytes of a number: its digits, and that another one follows.
LEMMA VarintIs ==
    ASSUME NEW v \in Nat, v < Weight(VarintMax)
    PROVE  /\ VarintEncode(v) \in Seq(VarBytes) /\ Len(VarintEncode(v)) = VarintSize(v)
           /\ \A k \in 1..VarintSize(v) :
                 /\ VarintEncode(v)[k].payload = (v \div Weight(k - 1)) % Radix
                 /\ VarintEncode(v)[k].more <=> k < VarintSize(v)
  <1> DEFINE n == VarintSize(v)
             d(k) == (v \div Weight(k - 1)) % Radix
             o(k) == [payload |-> d(k), more |-> k < n]
             e == [k \in 1..n |-> o(k)]
  <1>1. n \in Nat
    BY SizeIs
  <1>2. VarintEncode(v) = e
    BY DEF VarintEncode
  <1> HIDE DEF n
  <1>3. ASSUME NEW k \in 1..n PROVE d(k) \in Nat
    <2> DEFINE j == k - 1
               p == Weight(j)
               q == v \div p
    <2>1. j \in Nat
      BY <1>1
    <2> HIDE DEF j
    <2>2. p \in Nat \ {0} /\ Radix \in Nat \ {0} /\ v \in Int
      BY <2>1, WeightIs
    <2> HIDE DEF p
    <2>3. q \in Int
      BY <2>2, DivMod
    <2>4. d(k) = q % Radix
      BY DEF p, j
    <2> HIDE DEF q
    <2>5. q % Radix \in Nat
      BY <2>2, <2>3, DivMod
    <2> QED
      BY <2>4, <2>5
  <1>4. \A k \in 1..n : o(k) \in VarBytes
    <2> HIDE DEF d
    <2> QED
      BY <1>3 DEF VarBytes
  <1>5. \A k \in 1..n : e[k] = o(k)
    OBVIOUS
  <1>6. \A k \in 1..n : e[k].payload = d(k) /\ (e[k].more <=> k < n)
    BY <1>5
  <1> HIDE DEF o
  <1>7. e \in [1..n -> VarBytes]
    BY <1>4
  <1> HIDE DEF e
  <1>8. e \in Seq(VarBytes) /\ Len(e) = n
    BY <1>1, <1>7, FunctionsAreSeqs
  <1> QED
    BY <1>2, <1>6, <1>8 DEF n

\* The bytes of s come first in t.
Leads(s, t) == Len(s) <= Len(t) /\ \A k \in 1..Len(s) : t[k] = s[k]

\* A number comes back from its bytes, whatever is behind them.
LEMMA VarintBack ==
    ASSUME NEW v \in Nat, v < Weight(VarintMax), NEW S, NEW bytes \in Seq(S),
           Leads(VarintEncode(v), bytes)
    PROVE  VarintDecode(bytes) = [used |-> VarintSize(v), value |-> v]
  <1> DEFINE n == VarintSize(v)
             e == VarintEncode(v)
             ends == {k \in 1..Len(bytes) : /\ k <= VarintMax
                                            /\ \A j \in 1..k - 1 : bytes[j].more
                                            /\ ~ bytes[k].more}
             c == CHOOSE k \in ends : TRUE
             Def(m, f) == f = [k \in 0..m |->
                                  IF k = 0 THEN 0 ELSE f[k - 1] + bytes[k].payload * Weight(k - 1)]
             h(m) == CHOOSE f : Def(m, f)
  <1>1. n \in 1..VarintMax /\ v < Weight(n) /\ n \in Nat /\ VarintMax \in Nat
    BY SizeIs, SymbolsAssumption
  <1>2. /\ Len(e) = n /\ n <= Len(bytes) /\ Len(bytes) \in Nat
        /\ \A k \in 1..n : /\ bytes[k].payload = (v \div Weight(k - 1)) % Radix
                           /\ bytes[k].more <=> k < n
    <2>1. /\ Len(e) = n
          /\ \A k \in 1..n : /\ e[k].payload = (v \div Weight(k - 1)) % Radix
                             /\ e[k].more <=> k < n
      BY VarintIs
    <2> HIDE DEF e
    <2> QED
      BY <2>1 DEF Leads, e
  <1>3. VarintDecode(bytes) = IF ends = {} THEN [used |-> 0, value |-> 0]
                              ELSE [used |-> c, value |-> h(c)[c]]
    BY Zenon DEF VarintDecode
  <1> HIDE DEF n, e
  <1>4. ends = {n}
    <2>1. n \in ends
      <3>1. n \in 1..Len(bytes) /\ n <= VarintMax /\ n \in 1..n /\ ~ (n < n)
        BY <1>1, <1>2
      <3>2. \A j \in 1..n - 1 : j \in 1..n /\ j < n
        BY <1>1
      <3> QED
        BY <1>2, <3>1, <3>2
    <2>2. ASSUME NEW k \in ends PROVE k = n
      <3>1. k \in 1..Len(bytes) /\ (\A j \in 1..k - 1 : bytes[j].more) /\ ~ bytes[k].more
        OBVIOUS
      <3>2. ~ (k < n)
        BY <1>1, <1>2, <3>1
      <3>3. ~ (n < k)
        <4> SUFFICES ASSUME n < k PROVE FALSE
          OBVIOUS
        <4>1. n \in 1..k - 1 /\ n \in 1..n /\ ~ (n < n)
          BY <1>1, <3>1
        <4> QED
          BY <1>2, <3>1, <4>1
      <3> QED
        BY <1>1, <3>1, <3>2, <3>3
    <2> HIDE DEF ends
    <2> QED
      BY <2>1, <2>2
  <1> HIDE DEF ends
  <1>5. c = n /\ ends # {}
    BY <1>4
  <1> HIDE DEF c
  <1> DEFINE f == [k \in 0..n |-> v % Weight(k)]
  <1>6. f[0] = 0 /\ \A k \in 1..n : f[k] = f[k - 1] + bytes[k].payload * Weight(k - 1)
    <2>1. f[0] = 0
      <3>1. 0 \in 0..n /\ Weight(0) = 1
        BY <1>1, 0 \in Nat, WeightIs
      <3>2. v % 1 = 0
        OBVIOUS
      <3> QED
        BY <3>1, <3>2
    <2>2. ASSUME NEW k \in 1..n PROVE f[k] = f[k - 1] + bytes[k].payload * Weight(k - 1)
      <3> DEFINE j == k - 1
      <3>1. j \in Nat /\ j + 1 = k /\ k \in 0..n /\ j \in 0..n
        BY <1>1
      <3>a. f[k] = v % Weight(k) /\ f[j] = v % Weight(j)
        BY <3>1
      <3>b. bytes[k].payload = (v \div Weight(j)) % Radix
        BY <1>2
      <3> HIDE DEF j, f
      <3>2. v % Weight(j + 1) = (v % Weight(j)) + ((v \div Weight(j)) % Radix) * Weight(j)
        BY <3>1, Digit
      <3>3. f[k] = f[j] + bytes[k].payload * Weight(j)
        BY <3>1, <3>2, <3>a, <3>b
      <3> QED
        BY <3>3 DEF j
    <2> QED
      BY <2>1, <2>2
  <1>7. Def(n, f)
    <2> DEFINE o(g, k) == IF k = 0 THEN 0 ELSE g[k - 1] + bytes[k].payload * Weight(k - 1)
    <2>1. f = [k \in 0..n |-> f[k]]
      OBVIOUS
    <2>2. \A k \in 0..n : f[k] = o(f, k)
      <3> HIDE DEF f
      <3>1. \A k \in 0..n : k = 0 \/ k \in 1..n
        BY <1>1
      <3> QED
        BY <1>6, <3>1, Zenon
    <2> HIDE DEF o
    <2>3. [k \in 0..n |-> f[k]] = [k \in 0..n |-> o(f, k)]
      BY <2>2, Zenon
    <2>4. f = [k \in 0..n |-> o(f, k)]
      BY <2>1, <2>3, Zenon
    <2> QED
      BY <2>4 DEF o
  <1>8. Def(n, h(n))
    <2> HIDE DEF Def
    <2> QED
      BY <1>7, Zenon
  <1> DEFINE hn == h(n)
  <1> HIDE DEF f, hn
  <1>9. hn[n] = f[n]
    <2>a. Def(n, hn)
      BY <1>8 DEF hn
    <2>0. 0 \in 0..n /\ n \in 0..n
      BY <1>1
    <2>1. hn[0] = f[0]
      BY <1>6, <2>0, <2>a
    <2>2. ASSUME NEW k \in 1..n, hn[k - 1] = f[k - 1] PROVE hn[k] = f[k]
      <3>1. k \in 0..n /\ k # 0
        BY <1>1
      <3>2. hn[k] = hn[k - 1] + bytes[k].payload * Weight(k - 1)
        BY <2>a, <3>1, Zenon
      <3>3. f[k] = f[k - 1] + bytes[k].payload * Weight(k - 1)
        BY <1>6
      <3> QED
        BY <2>2, <3>2, <3>3, Zenon
    <2>3. \A k \in 1..n : hn[k - 1] = f[k - 1] => hn[k] = f[k]
      BY <2>2
    <2>n. n \in Nat
      BY <1>1
    <2> HIDE DEF Def
    <2>t. Together(n, hn, f)
      BY <2>1, <2>3 DEF Together
    <2>4. \A k \in 0..n : hn[k] = f[k]
      BY <2>n, <2>t, StaySame
    <2> QED
      BY <2>0, <2>4
  <1>10. f[n] = v
    <2> DEFINE p == Weight(n)
    <2>1. p \in Nat \ {0} /\ v < p
      BY <1>1, WeightIs
    <2>2. f[n] = v % p
      <3>1. n \in 0..n
        BY <1>1
      <3> QED
        BY <3>1 DEF f
    <2> HIDE DEF p
    <2>3. v \in 0..p - 1 /\ p * 0 + v = v /\ 0 \in Int
      BY <2>1
    <2>4. (p * 0 + v) % p = v
      BY <2>1, <2>3, DivModIs
    <2> QED
      BY <2>2, <2>3, <2>4
  <1>11. h(c)[c] = v
    BY <1>5, <1>9, <1>10 DEF hn
  <1> HIDE DEF h
  <1> QED
    BY <1>3, <1>5, <1>11 DEF n

----------------------------------------------------------------------------
(* The side metadata of strings, packed and unpacked.                      *)

\* The side metadata of the values D, as far as its fields go.
IsSideOf(side, D) ==
    /\ side.count = Len(D) /\ side.total = Len(FlattenSeq(D))
    /\ side.offsets = Offsets(D) /\ side.heap = FlattenSeq(D)

\* No string starts behind the end.
LEMMA OffsetsGrow ==
    ASSUME NEW S, NEW D \in Seq(Seq(S))
    PROVE  \A i \in 1..Len(D) + 1 : Offsets(D)[i] <= Len(FlattenSeq(D))
  <1> DEFINE n == Len(D)
             o == Offsets(D)
             R == {i \in 0..n : \A j \in 1..i + 1 : o[j] <= o[i + 1]}
  <1>1. /\ n \in Nat /\ o \in Seq(Nat) /\ Len(o) = n + 1
        /\ \A i \in 1..n : o[i + 1] = o[i] + Len(D[i])
    BY OffsetsAre
  <1>2. \A i \in 1..n : Len(D[i]) \in Nat
    OBVIOUS
  <1> HIDE DEF n, o
  <1>n. \A i \in 1..n + 1 : o[i] \in Nat
    BY <1>1
  <1>3. 0 \in R
    BY <1>1, <1>n
  <1>4. ASSUME NEW i \in 0..n - 1, i \in R PROVE i + 1 \in R
    <2> DEFINE k == i + 1
    <2>1. k \in 1..n /\ k \in 0..n /\ \A j \in 1..k : o[j] <= o[k]
      BY <1>1, <1>4
    <2> HIDE DEF k
    <2>2. o[k + 1] = o[k] + Len(D[k]) /\ Len(D[k]) \in Nat /\ o[k] \in Nat /\ o[k + 1] \in Nat
      BY <1>1, <1>2, <1>n, <2>1
    <2>3. ASSUME NEW j \in 1..k + 1 PROVE o[j] <= o[k + 1]
      <3>1. CASE j = k + 1
        BY <2>2, <3>1
      <3>2. CASE j # k + 1
        <4>1. j \in 1..k /\ j \in 1..n + 1
          BY <1>1, <2>1, <3>2
        <4>2. o[j] <= o[k] /\ o[j] \in Nat
          BY <1>n, <2>1, <4>1
        <4> QED
          BY <2>2, <4>2
      <3> QED
        BY <3>1, <3>2
    <2> QED
      BY <2>1, <2>3 DEF k
  <1>5. n \in R
    <2>1. n \in 0..n
      BY <1>1
    <2> HIDE DEF R
    <2>2. \A i \in 0..n : i \in R
      BY <1>1, <1>3, <1>4, InductTo
    <2> QED
      BY <2>1, <2>2
  <1>6. o[n + 1] = Len(FlattenSeq(D))
    <2>1. n \in 0..n /\ SubSeq(D, 1, n) = D
      BY <1>1 DEF n
    <2>2. o[n + 1] = Len(FlattenSeq(SubSeq(D, 1, n)))
      BY <2>1, OffsetsFlatten DEF o, n
    <2> QED
      BY <2>1, <2>2
  <1> QED
    BY <1>5, <1>6 DEF n, o

\* The side metadata of any values passes the decoder's checks.
LEMMA SideSound ==
    ASSUME NEW D \in Seq(Seq(Nat)), NEW side, IsSideOf(side, D)
    PROVE  SideIsSound(side) /\ side.offsets[1] = 0
  <1> DEFINE n == Len(D)
             o == Offsets(D)
             t == Len(FlattenSeq(D))
  <1>1. /\ n \in Nat /\ o \in Seq(Nat) /\ Len(o) = n + 1 /\ o[1] = 0
        /\ \A i \in 1..n : o[i + 1] = o[i] + Len(D[i])
    BY OffsetsAre
  <1>2. \A i \in 1..n : Len(D[i]) \in Nat
    OBVIOUS
  <1>3. \A i \in 1..n + 1 : o[i] <= t
    BY OffsetsGrow
  <1>4. o[n + 1] = t
    <2>1. n \in 0..n /\ SubSeq(D, 1, n) = D
      BY <1>1
    <2>2. o[n + 1] = Len(FlattenSeq(SubSeq(D, 1, n)))
      BY <2>1, OffsetsFlatten
    <2> QED
      BY <2>1, <2>2
  <1>5. side.count = n /\ side.total = t /\ side.offsets = o /\ Len(side.heap) = t
    BY DEF IsSideOf
  <1>n. \A i \in 1..n : Len(D[i]) \in Nat
    BY <1>2
  <1> HIDE DEF n, o, t
  <1>6. ASSUME NEW i \in 1..n PROVE o[i] <= o[i + 1]
    <2>1. o[i + 1] = o[i] + Len(D[i]) /\ i \in 1..n + 1
      BY <1>1
    <2>2. Len(D[i]) \in Nat
      BY <1>2
    <2>3. o[i] \in Nat
      BY <1>1, <2>1
    <2> QED
      BY <2>1, <2>2, <2>3
  <1> QED
    BY <1>1, <1>3, <1>4, <1>5, <1>6 DEF SideIsSound

\* The lengths of the strings in D, as they are written.
Lengths(D) == [d \in 1..Len(D) |-> VarintEncode(Len(D[d]))]

\* The lengths fit their bytes and add up to the offsets.
LEMMA LengthsAre ==
    ASSUME NEW D \in Seq(Seq(Nat)), Len(FlattenSeq(D)) <= HeapMax
    PROVE  /\ Lengths(D) \in Seq(Seq(VarBytes)) /\ Len(Lengths(D)) = Len(D)
           /\ \A d \in 1..Len(D) :
                 /\ Len(D[d]) \in Nat /\ Len(D[d]) < Weight(VarintMax)
                 /\ Offsets(D)[d + 1] = Offsets(D)[d] + Len(D[d])
                 /\ Offsets(D)[d + 1] <= HeapMax
                 /\ Lengths(D)[d] = VarintEncode(Len(D[d]))
                 /\ Len(Lengths(D)[d]) = VarintSize(Len(D[d])) /\ Len(Lengths(D)[d]) \in Nat \ {0}
  <1> DEFINE n == Len(D)
             o == Offsets(D)
             t == Len(FlattenSeq(D))
             W == Weight(VarintMax)
             e(d) == VarintEncode(Len(D[d]))
             l == [d \in 1..n |-> e(d)]
             Y == Seq(VarBytes)
  <1>1. /\ n \in Nat /\ o \in Seq(Nat) /\ Len(o) = n + 1
        /\ \A i \in 1..n : o[i + 1] = o[i] + Len(D[i])
    BY OffsetsAre
  <1>2. \A i \in 1..n : Len(D[i]) \in Nat
    OBVIOUS
  <1>3. (\A i \in 1..n + 1 : o[i] <= t) /\ t \in Nat
    BY OffsetsGrow, FlattenType
  <1>4. HeapMax \in Nat /\ HeapMax < W /\ t <= HeapMax /\ W \in Nat
    BY DictionaryAssumption, SymbolsAssumption, WeightIs DEF Weight
  <1>5. ASSUME NEW d \in 1..n PROVE Len(D[d]) < W /\ o[d + 1] <= HeapMax
    <2> HIDE DEF o, n, t, W
    <2>1. d \in 1..n + 1 /\ d + 1 \in 1..n + 1
      BY <1>1
    <2>2. o[d] \in Nat /\ o[d + 1] \in Nat /\ o[d + 1] = o[d] + Len(D[d]) /\ o[d + 1] <= t /\ Len(D[d]) \in Nat
      BY <1>1, <1>2, <1>3, <2>1
    <2> QED
      BY <1>3, <1>4, <2>2
  <1>6. ASSUME NEW d \in 1..n
        PROVE  /\ e(d) \in Y /\ Len(e(d)) = VarintSize(Len(D[d]))
               /\ Len(e(d)) \in Nat \ {0}
    <2> DEFINE v == Len(D[d])
    <2>1. v \in Nat /\ v < Weight(VarintMax)
      BY <1>2, <1>5
    <2> HIDE DEF v
    <2>2. VarintEncode(v) \in Seq(VarBytes) /\ Len(VarintEncode(v)) = VarintSize(v)
      BY <2>1, VarintIs
    <2>3. VarintSize(v) \in 1..VarintMax
      BY <2>1, SizeIs
    <2>4. VarintSize(v) \in Nat \ {0}
      BY <2>3, SymbolsAssumption
    <2> QED
      BY <2>2, <2>4 DEF v
  <1>7. Lengths(D) = l
    BY DEF Lengths
  <1> HIDE DEF e, Y, n
  <1>8. l \in [1..n -> Y] /\ \A d \in 1..n : l[d] = e(d)
    BY <1>6
  <1> HIDE DEF l
  <1>9. l \in Seq(Y) /\ Len(l) = n
    BY <1>1, <1>8, FunctionsAreSeqs
  <1> QED
    BY <1>1, <1>2, <1>5, <1>6, <1>7, <1>8, <1>9 DEF e, Y, n

\* The bytes of the side metadata.
Packed(D) == FlattenSeq(Lengths(D)) \o FlattenSeq(D)

\* What is packed: the lengths, then the heap.
LEMMA SidePacks ==
    ASSUME NEW D \in Seq(Seq(Nat)), Len(FlattenSeq(D)) <= HeapMax, NEW side, IsSideOf(side, D)
    PROVE  SidePack(side) = [status |-> "ok", count |-> Len(D), bytes |-> Packed(D)]
  <1> DEFINE length(d) == side.offsets[d + 1] - side.offsets[d]
             l == [d \in 1..side.count |-> VarintEncode(length(d))]
  <1>1. SideIsSound(side) /\ side.offsets[1] = 0
    BY SideSound
  <1>2. side.count = Len(D) /\ side.offsets = Offsets(D) /\ side.heap = FlattenSeq(D)
    BY DEF IsSideOf
  <1>3. ASSUME NEW d \in 1..Len(D) PROVE length(d) = Len(D[d])
    <2> DEFINE a == Offsets(D)[d]
               b == Offsets(D)[d + 1]
               m == Len(D[d])
    <2>1. b = a + m /\ m \in Nat
      BY LengthsAre
    <2>2. a \in Nat
      <3>1. Offsets(D) \in Seq(Nat) /\ Len(Offsets(D)) = Len(D) + 1 /\ Len(D) \in Nat
        BY OffsetsAre
      <3> QED
        BY <3>1
    <2>3. length(d) = b - a
      BY <1>2
    <2> HIDE DEF a, b, m, length
    <2>4. length(d) = m
      BY <2>1, <2>2, <2>3
    <2> QED
      BY <2>4 DEF m
  <1>4. l = Lengths(D)
    <2> HIDE DEF length
    <2>1. \A d \in 1..Len(D) : VarintEncode(length(d)) = VarintEncode(Len(D[d]))
      BY <1>3
    <2>2. [d \in 1..Len(D) |-> VarintEncode(length(d))] = [d \in 1..Len(D) |-> VarintEncode(Len(D[d]))]
      BY <2>1, Zenon
    <2> QED
      BY <1>2, <2>2 DEF Lengths
  <1>5. SidePack(side) = IF SideIsSound(side) /\ side.offsets[1] = 0
                         THEN [status |-> "ok", count |-> side.count,
                               bytes |-> FlattenSeq(l) \o side.heap]
                         ELSE [status |-> "corrupt"]
    BY Zenon DEF SidePack
  <1> HIDE DEF l
  <1> QED
    BY <1>1, <1>2, <1>4, <1>5 DEF Packed

\* What is behind the first sequences starts with the next one.
LEMMA RestLeads ==
    ASSUME NEW S, NEW L \in Seq(Seq(S)), NEW h \in Seq(S), NEW d \in 1..Len(L)
    PROVE  LET bytes == FlattenSeq(L) \o h
               rest  == SubSeq(bytes, Offsets(L)[d] + 1, Len(bytes))
           IN  rest \in Seq(S) /\ Leads(L[d], rest)
  <1> DEFINE F == FlattenSeq(L)
             bytes == F \o h
             a == Offsets(L)[d]
             s == L[d]
             m == Len(s)
             rest == SubSeq(bytes, a + 1, Len(bytes))
  <1>1. F \in Seq(S) /\ s \in Seq(S) /\ m \in Nat /\ d \in 1..Len(L) + 1 /\ d + 1 \in 1..Len(L) + 1
    BY FlattenType
  <1>2. a \in Nat /\ Offsets(L)[d + 1] = a + m /\ Offsets(L)[d + 1] <= Len(F)
    <2>1. /\ Offsets(L) \in Seq(Nat) /\ Len(Offsets(L)) = Len(L) + 1
          /\ \A i \in 1..Len(L) : Offsets(L)[i + 1] = Offsets(L)[i] + Len(L[i])
      BY OffsetsAre
    <2>2. \A i \in 1..Len(L) + 1 : Offsets(L)[i] <= Len(FlattenSeq(L))
      BY OffsetsGrow
    <2>3. Offsets(L)[d + 1] <= Len(FlattenSeq(L))
      BY <1>1, <2>2
    <2>4. Offsets(L)[d + 1] = Offsets(L)[d] + Len(L[d])
      BY <2>1
    <2>5. Offsets(L)[d] \in Nat
      BY <1>1, <2>1
    <2> QED
      BY <2>3, <2>4, <2>5
  <1>3. a = Len(FlattenSeq(SubSeq(L, 1, d - 1)))
    <2>1. d - 1 \in 0..Len(L) /\ (d - 1) + 1 = d
      OBVIOUS
    <2> QED
      BY <2>1, OffsetsFlatten
  <1>4. ASSUME NEW c \in 1..m PROVE F[a + c] = s[c]
    <2>1. c \in DOMAIN L[d] /\ d \in DOMAIN L
      BY <1>1
    <2>2. LET k == Len(FlattenSeq(SubSeq(L, 1, d - 1))) + c
          IN  k \in DOMAIN F /\ F[k] = L[d][c]
      BY <2>1, FlattenNth
    <2> QED
      BY <1>3, <2>2
  <1> HIDE DEF F, a
  <1>5. bytes \in Seq(S) /\ Len(bytes) = Len(F) + Len(h) /\ \A k \in 1..Len(F) : bytes[k] = F[k]
    BY <1>1
  <1> HIDE DEF bytes, s
  <1> DEFINE B == Len(bytes)
  <1>6. B \in Nat /\ a + m <= B /\ a + m <= Len(F) /\ Len(F) \in Nat
    BY <1>1, <1>2, <1>5
  <1> HIDE DEF m
  <1>7. /\ SubSeq(bytes, a + 1, B) \in Seq(S) /\ Len(SubSeq(bytes, a + 1, B)) = B - a
        /\ \A c \in 1..B - a : SubSeq(bytes, a + 1, B)[c] = bytes[a + c]
    <2>1. bytes \in Seq(S) /\ a \in Nat /\ B \in Nat /\ a <= B /\ B <= Len(bytes)
      BY <1>1, <1>2, <1>5, <1>6
    <2> HIDE DEF B
    <2> QED
      BY <2>1, PieceIs DEF Slice
  <1> HIDE DEF B
  <1>8. m <= B - a /\ \A c \in 1..m : c \in 1..B - a /\ a + c \in 1..Len(F)
    BY <1>1, <1>2, <1>6
  <1>9. \A c \in 1..m : SubSeq(bytes, a + 1, B)[c] = s[c]
    BY <1>4, <1>5, <1>7, <1>8
  <1> QED
    BY <1>7, <1>8, <1>9 DEF Leads, B, bytes, F, a, s, m

\* What is behind all of them.
LEMMA RestIs ==
    ASSUME NEW S, NEW F \in Seq(S), NEW h \in Seq(S)
    PROVE  SubSeq(F \o h, Len(F) + 1, Len(F \o h)) = h
  <1> DEFINE bytes == F \o h
             a == Len(F)
             m == Len(h)
             x == SubSeq(bytes, a + 1, a + m)
  <1>1. bytes \in Seq(S) /\ Len(bytes) = a + m /\ \A k \in 1..m : bytes[a + k] = h[k]
    OBVIOUS
  <1>2. a \in Nat /\ m \in Nat
    OBVIOUS
  <1> HIDE DEF bytes, a
  <1>3. x \in Seq(S) /\ Len(x) = m /\ \A k \in 1..m : x[k] = bytes[a + k]
    BY <1>1, <1>2
  <1> HIDE DEF x
  <1>4. Len(x) = Len(h) /\ \A k \in 1..Len(x) : x[k] = h[k]
    BY <1>1, <1>3
  <1>5. x = h
    BY <1>3, <1>4, SeqEqual
  <1> QED
    BY <1>1, <1>5 DEF x, bytes, a

\* The unpacked side metadata of D.
Restored(D) == [status |-> "ok", count |-> Len(D), total |-> Len(FlattenSeq(D)),
                offsets |-> Offsets(D), heap |-> FlattenSeq(D)]

ByteOrSymbol == VarBytes \cup Nat

\* What is unpacked: the bytes, and that every length in them is where the
\* lengths before it end.
LEMMA PackedAre ==
    ASSUME NEW D \in Seq(Seq(Nat)), Len(FlattenSeq(D)) <= HeapMax
    PROVE  LET bytes == Packed(D)
               w     == Offsets(Lengths(D))
               n     == Len(D)
           IN  /\ bytes \in Seq(ByteOrSymbol) /\ n <= Len(bytes)
               /\ w[1] = 0 /\ w[n + 1] \in Nat
               /\ \A d \in 1..n :
                     /\ w[d + 1] = w[d] + VarintSize(Len(D[d])) /\ VarintSize(Len(D[d])) # 0
                     /\ VarintDecode(SubSeq(bytes, w[d] + 1, Len(bytes)))
                           = [used |-> VarintSize(Len(D[d])), value |-> Len(D[d])]
               /\ SubSeq(bytes, w[n + 1] + 1, Len(bytes)) = FlattenSeq(D)
  <1> DEFINE bytes == Packed(D)
             L == Lengths(D)
             w == Offsets(L)
             n == Len(D)
             S == ByteOrSymbol
             h == FlattenSeq(D)
             F == FlattenSeq(L)
  <1>1. n \in Nat /\ h \in Seq(Nat)
    BY FlattenType
  <1>2. /\ L \in Seq(Seq(VarBytes)) /\ Len(L) = n
        /\ \A d \in 1..n :
              /\ Len(D[d]) \in Nat /\ Len(D[d]) < Weight(VarintMax)
              /\ L[d] = VarintEncode(Len(D[d]))
              /\ Len(L[d]) = VarintSize(Len(D[d])) /\ Len(L[d]) \in Nat \ {0}
    BY LengthsAre
  <1> HIDE DEF L
  <1>3. L \in Seq(Seq(S)) /\ h \in Seq(S)
    <2>1. \A i \in 1..n : L[i] \in Seq(VarBytes)
      BY <1>2
    <2>2. \A i \in 1..n : L[i] \in Seq(S)
      BY <2>1 DEF ByteOrSymbol
    <2> DEFINE Y == Seq(S)
    <2>3. \A i \in 1..n : L[i] \in Y
      BY <2>2
    <2> HIDE DEF Y
    <2>4. L \in Seq(Y)
      BY <1>2, <2>3
    <2>5. h \in Seq(S)
      <3>1. h \in Seq(Nat)
        BY <1>1
      <3> HIDE DEF h
      <3> QED
        BY <3>1 DEF ByteOrSymbol
    <2> QED
      BY <2>4, <2>5 DEF Y
  <1> HIDE DEF h, n, S
  <1>4. F \in Seq(S)
    BY <1>3, FlattenType
  <1>5. bytes = F \o h
    BY DEF Packed, L, h
  <1>6. /\ w \in Seq(Nat) /\ Len(w) = n + 1 /\ w[1] = 0
        /\ \A d \in 1..n : w[d + 1] = w[d] + Len(L[d])
    BY <1>2, OffsetsAre
  <1>7. w[n + 1] = Len(F)
    <2>1. n \in 0..Len(L) /\ SubSeq(L, 1, n) = L
      BY <1>1, <1>2
    <2>2. w[n + 1] = Len(FlattenSeq(SubSeq(L, 1, n)))
      BY <1>2, <2>1, OffsetsFlatten
    <2> QED
      BY <2>1, <2>2
  <1>8. ASSUME NEW d \in 1..n
        PROVE  /\ w[d + 1] = w[d] + VarintSize(Len(D[d])) /\ VarintSize(Len(D[d])) # 0
               /\ VarintDecode(SubSeq(bytes, w[d] + 1, Len(bytes)))
                     = [used |-> VarintSize(Len(D[d])), value |-> Len(D[d])]
    <2> DEFINE v == Len(D[d])
               rest == SubSeq(F \o h, w[d] + 1, Len(F \o h))
    <2>1. d \in 1..Len(L) /\ v \in Nat /\ v < Weight(VarintMax) /\ L[d] = VarintEncode(v)
      BY <1>2
    <2>2. rest \in Seq(S) /\ Leads(L[d], rest)
      BY <1>3, <2>1, RestLeads
    <2> HIDE DEF v, rest
    <2>3. VarintDecode(rest) = [used |-> VarintSize(v), value |-> v]
      BY <2>1, <2>2, VarintBack
    <2> QED
      BY <1>2, <1>5, <1>6, <2>3 DEF v, rest
  <1>9. SubSeq(bytes, w[n + 1] + 1, Len(bytes)) = h
    BY <1>3, <1>4, <1>5, <1>7, RestIs
  <1>10. n <= Len(bytes)
    <2> DEFINE R == {i \in 0..n : w[i + 1] \in Nat /\ w[i + 1] >= i}
    <2>1. 0 \in R
      BY <1>1, <1>6
    <2>2. ASSUME NEW i \in 0..n - 1, i \in R PROVE i + 1 \in R
      <3> DEFINE j == i + 1
      <3>1. j \in 1..n /\ j \in 0..n /\ w[j] \in Nat /\ w[j] >= i /\ i \in Nat
        BY <1>1, <2>2
      <3> HIDE DEF j
      <3>2. w[j + 1] = w[j] + Len(L[j])
        BY <1>6, <3>1
      <3>3. Len(L[j]) \in Nat \ {0}
        BY <1>2, <3>1
      <3>4. w[j + 1] \in Nat /\ w[j + 1] >= i + 1
        BY <3>1, <3>2, <3>3
      <3> QED
        BY <3>1, <3>4 DEF j
    <2> HIDE DEF R
    <2>3. \A i \in 0..n : i \in R
      BY <1>1, <2>1, <2>2, InductTo
    <2>4. n \in R
      BY <1>1, <2>3
    <2>5. w[n + 1] >= n
      BY <2>4 DEF R
    <2>6. Len(F) >= n /\ Len(F) \in Nat /\ Len(h) \in Nat
      BY <1>3, <1>4, <1>7, <2>5
    <2>7. Len(bytes) = Len(F) + Len(h)
      BY <1>3, <1>4, <1>5
    <2> QED
      BY <1>1, <2>6, <2>7
  <1>11. bytes \in Seq(S) /\ w[n + 1] \in Nat
    BY <1>3, <1>4, <1>5, <1>7
  <1> QED
    BY <1>6, <1>8, <1>9, <1>10, <1>11 DEF h, n, L, S

\* What was packed is unpacked.
LEMMA SideUnpacks ==
    ASSUME NEW D \in Seq(Seq(Nat)), Len(FlattenSeq(D)) <= HeapMax
    PROVE  SideUnpack(Len(D), Packed(D)) = Restored(D)
  <1> DEFINE bytes == Packed(D)
             w == Offsets(Lengths(D))
             o == Offsets(D)
             n == Len(D)
             h == FlattenSeq(D)
             zero == [ok |-> TRUE, at |-> 0, offsets |-> <<0>>]
             len(s) == VarintDecode(SubSeq(bytes, s.at + 1, Len(bytes)))
             end(s) == Last(s.offsets) + len(s).value
             go(s) == IF ~s.ok \/ len(s).used = 0 \/ end(s) > HeapMax THEN [s EXCEPT !.ok = FALSE]
                      ELSE [ok |-> TRUE, at |-> s.at + len(s).used,
                            offsets |-> Append(s.offsets, end(s))]
             Def(f) == f = [d \in 0..n |-> IF d = 0 THEN zero ELSE go(f[d - 1])]
             x == CHOOSE f : Def(f)
             heap(s) == SubSeq(bytes, s.at + 1, Len(bytes))
             v(d) == [ok |-> TRUE, at |-> w[d + 1], offsets |-> SubSeq(o, 1, d + 1)]
             e == [d \in 0..n |-> v(d)]
  <1>1. SideUnpack(n, bytes) =
           IF n > Len(bytes) THEN [status |-> "corrupt"]
           ELSE IF ~x[n].ok \/ Len(heap(x[n])) # Last(x[n].offsets) THEN [status |-> "corrupt"]
           ELSE [status |-> "ok", count |-> n, total |-> Len(heap(x[n])),
                 offsets |-> x[n].offsets, heap |-> heap(x[n])]
    BY Zenon DEF SideUnpack
  <1>2. /\ bytes \in Seq(ByteOrSymbol) /\ n <= Len(bytes)
        /\ w[1] = 0 /\ w[n + 1] \in Nat
        /\ \A d \in 1..n :
              /\ w[d + 1] = w[d] + VarintSize(Len(D[d])) /\ VarintSize(Len(D[d])) # 0
              /\ VarintDecode(SubSeq(bytes, w[d] + 1, Len(bytes)))
                    = [used |-> VarintSize(Len(D[d])), value |-> Len(D[d])]
        /\ SubSeq(bytes, w[n + 1] + 1, Len(bytes)) = h
    BY PackedAre
  <1>3. n \in Nat /\ o \in Seq(Nat) /\ Len(o) = n + 1 /\ o[1] = 0 /\ h \in Seq(Nat)
    BY OffsetsAre, FlattenType
  <1>4. \A d \in 1..n : o[d + 1] = o[d] + Len(D[d]) /\ o[d + 1] <= HeapMax
    BY LengthsAre
  <1>5. o[n + 1] = Len(h)
    <2>1. n \in 0..Len(D) /\ SubSeq(D, 1, n) = D
      BY <1>3
    <2>2. o[n + 1] = Len(FlattenSeq(SubSeq(D, 1, n)))
      BY <2>1, OffsetsFlatten
    <2> QED
      BY <2>1, <2>2
  <1>6. HeapMax \in Nat
    BY DictionaryAssumption
  <1>o. \A d \in 1..n + 1 : o[d] \in Nat
    BY <1>3
  <1> HIDE DEF bytes, w, o, n, h
  <1>7. ASSUME NEW d \in 0..n
        PROVE  /\ SubSeq(o, 1, d + 1) \in Seq(Nat) /\ Len(SubSeq(o, 1, d + 1)) = d + 1
               /\ Last(SubSeq(o, 1, d + 1)) = o[d + 1]
    <2> DEFINE t == SubSeq(o, 1, d + 1)
    <2>1. t \in Seq(Nat) /\ Len(t) = d + 1 /\ t[d + 1] = o[d + 1]
      BY <1>3
    <2> HIDE DEF t
    <2>2. Last(t) = t[d + 1]
      BY <2>1 DEF Last
    <2> QED
      BY <2>1, <2>2 DEF t
  <1>8. v(0) = zero
    <2>1. SubSeq(o, 1, 0 + 1) = Append(SubSeq(o, 1, 0), o[0 + 1])
      <3>1. 0 \in Nat /\ 0 < Len(o)
        BY <1>3
      <3> QED
        BY <1>3, <3>1, OneMore
    <2>2. SubSeq(o, 1, 0) = <<>> /\ o[0 + 1] = 0 /\ w[0 + 1] = 0
      BY <1>2, <1>3
    <2>3. Append(<<>>, 0) = <<0>>
      OBVIOUS
    <2>4. SubSeq(o, 1, 0 + 1) = <<0>>
      BY <2>1, <2>2, <2>3, Zenon
    <2> QED
      BY <2>2, <2>4, Zenon
  <1>9. ASSUME NEW d \in 1..n PROVE go(v(d - 1)) = v(d)
    <2> DEFINE j == d - 1
               s == v(j)
               p == SubSeq(o, 1, d)
               u == VarintSize(Len(D[d]))
               m == Len(D[d])
    <2>1. d \in Nat /\ j \in 0..n /\ j + 1 = d /\ d < n + 1 /\ d \in 1..n + 1
      BY <1>3
    <2>2. s.ok /\ s.at = w[d] /\ s.offsets = p
      BY <2>1
    <2> HIDE DEF j, s, p
    <2>3. len(s) = [used |-> u, value |-> m]
      BY <1>2, <2>2
    <2>4. u # 0 /\ w[d + 1] = w[d] + u
      BY <1>2
    <2> HIDE DEF len, u, m
    <2>5. Last(p) = o[d]
      BY <1>7, <2>1 DEF p
    <2>6. o[d + 1] = o[d] + m /\ o[d + 1] <= HeapMax
      BY <1>4 DEF m
    <2>7. end(s) = o[d + 1]
      BY <2>2, <2>3, <2>5, <2>6
    <2>8. ~ (end(s) > HeapMax)
      <3>1. d + 1 \in 1..n + 1
        BY <1>3
      <3>2. o[d + 1] \in Nat
        BY <1>o, <3>1
      <3> HIDE DEF end
      <3> QED
        BY <1>6, <2>6, <2>7, <3>2
    <2>9. SubSeq(o, 1, d + 1) = Append(p, o[d + 1])
      <3>1. d < Len(o) /\ d \in Nat
        BY <1>3, <2>1
      <3> QED
        BY <1>3, <3>1, OneMore DEF p
    <2> HIDE DEF end
    <2>10. go(s) = [ok |-> TRUE, at |-> s.at + len(s).used, offsets |-> Append(s.offsets, end(s))]
      <3>1. s.ok /\ len(s).used # 0
        BY <2>2, <2>3, <2>4
      <3> QED
        BY <2>8, <3>1, Zenon
    <2>11. s.at + len(s).used = w[d + 1]
      BY <2>2, <2>3, <2>4
    <2> HIDE DEF go
    <2>12. go(s) = v(d)
      BY <2>2, <2>7, <2>9, <2>10, <2>11
    <2> QED
      BY <2>12 DEF s, j
  <1> HIDE DEF go, v, zero
  <1>10. Def(e)
    <2> DEFINE b(f, d) == IF d = 0 THEN zero ELSE go(f[d - 1])
    <2>1. \A d \in 0..n : v(d) = b(e, d)
      <3> SUFFICES ASSUME NEW d \in 0..n PROVE v(d) = b(e, d)
        OBVIOUS
      <3>1. CASE d = 0
        BY <1>8, <3>1
      <3>2. CASE d # 0
        <4>1. d \in 1..n /\ d - 1 \in 0..n
          BY <1>3, <3>2
        <4>2. e[d - 1] = v(d - 1)
          BY <4>1
        <4>3. go(v(d - 1)) = v(d)
          BY <1>9, <4>1
        <4> QED
          BY <3>2, <4>2, <4>3
      <3> QED
        BY <3>1, <3>2
    <2> HIDE DEF b
    <2>2. e = [d \in 0..n |-> b(e, d)]
      <3> DEFINE e2 == e
      <3>1. \A d \in 0..n : v(d) = b(e2, d)
        BY <2>1
      <3> HIDE DEF e2
      <3>2. [d \in 0..n |-> v(d)] = [d \in 0..n |-> b(e2, d)]
        BY <3>1, Zenon
      <3> QED
        BY <3>2 DEF e2
    <2> QED
      BY <2>2 DEF b
  <1> HIDE DEF e
  <1>11. Def(x)
    <2> HIDE DEF Def
    <2> QED
      BY <1>10, Zenon
  <1> HIDE DEF x
  <1>12. x[n] = e[n]
    <2>1. x[0] = zero /\ e[0] = zero
      <3>1. 0 \in 0..n
        BY <1>3
      <3> QED
        BY <1>10, <1>11, <3>1
    <2>2. ASSUME NEW d \in 1..n, x[d - 1] = e[d - 1] PROVE x[d] = e[d]
      <3>1. d \in 0..n /\ d # 0
        BY <1>3
      <3>2. x[d] = go(x[d - 1])
        BY <1>11, <3>1, Zenon
      <3>3. e[d] = go(e[d - 1])
        BY <1>10, <3>1, Zenon
      <3> QED
        BY <2>2, <3>2, <3>3
    <2> HIDE DEF Def
    <2>3. Together(n, x, e)
      BY <2>1, <2>2 DEF Together
    <2>4. \A d \in 0..n : x[d] = e[d]
      BY <1>3, <2>3, StaySame
    <2>5. n \in 0..n
      BY <1>3
    <2> QED
      BY <2>4, <2>5
  <1>13. e[n] = v(n) /\ n \in 0..n
    BY <1>3 DEF e
  <1>14. x[n].ok /\ x[n].at = w[n + 1] /\ x[n].offsets = SubSeq(o, 1, n + 1)
    BY <1>12, <1>13 DEF v
  <1>15. SubSeq(o, 1, n + 1) = o
    BY <1>3
  <1>16. heap(x[n]) = h
    BY <1>2, <1>14
  <1>17. Last(x[n].offsets) = Len(h)
    BY <1>5, <1>7, <1>13, <1>14
  <1>18. ~ (n > Len(bytes))
    BY <1>2, <1>3
  <1> HIDE DEF heap
  <1>19. SideUnpack(n, bytes) = [status |-> "ok", count |-> n, total |-> Len(h), offsets |-> o, heap |-> h]
    BY <1>1, <1>14, <1>15, <1>16, <1>17, <1>18
  <1> QED
    BY <1>19 DEF Restored, n, o, h, bytes

\* Strings put behind one another are found again.
LEMMA JoinedRows ==
    ASSUME NEW rows \in Seq(Seq(Nat))
    PROVE  RowsOf([heap |-> FlattenSeq(rows), offsets |-> Offsets(rows)]) = rows
  <1> DEFINE block == [heap |-> FlattenSeq(rows), offsets |-> Offsets(rows)]
             n == Len(rows)
  <1>1. n \in Nat /\ Len(Offsets(rows)) = n + 1
    BY OffsetsAre
  <1>2. block.heap = FlattenSeq(rows) /\ block.offsets = Offsets(rows)
    OBVIOUS
  <1>3. rows = [i \in 1..n |-> rows[i]]
    OBVIOUS
  <1>4. \A i \in 1..n : SubSeq(FlattenSeq(rows), Offsets(rows)[i] + 1, Offsets(rows)[i + 1]) = rows[i]
    BY HeapRow
  <1> HIDE DEF block, n
  <1>5. \A i \in 1..n : Row(block, i) = rows[i]
    BY <1>2, <1>4 DEF Row
  <1>6. Len(block.offsets) - 1 = n
    BY <1>1, <1>2
  <1>7. RowsOf(block) = [i \in 1..n |-> Row(block, i)]
    BY <1>6 DEF RowsOf
  <1>8. [i \in 1..n |-> Row(block, i)] = [i \in 1..n |-> rows[i]]
    BY <1>5, Zenon
  <1> QED
    BY <1>3, <1>7, <1>8, Zenon DEF block

\* The rows come back from their indices and the unpacked values.
LEMMA DictRows ==
    ASSUME NEW rows \in Seq(Seq(Nat)), NEW b, Built(b, rows), b.dict \in Seq(Seq(Nat))
    PROVE  LET r == DictDecode(Len(rows), b.indices, Restored(b.dict))
           IN  r.status = "ok" /\ RowsOf(r.block) = rows
  <1> DEFINE D == b.dict
             n == Len(rows)
             side == Restored(D)
             residual == b.indices
             entry(idx) == SubSeq(side.heap, side.offsets[idx + 1] + 1, side.offsets[idx + 2])
             strs == [i \in 1..n |-> entry(residual[i])]
  <1>1. n \in Nat /\ Len(residual) = n /\ D \in Seq(Seq(Nat)) /\ residual \in Seq(Nat)
        /\ \A i \in 1..n : residual[i] < Len(D) /\ D[residual[i] + 1] = rows[i]
    BY DEF Built
  <1>2. side.count = Len(D) /\ side.offsets = Offsets(D) /\ side.heap = FlattenSeq(D)
        /\ side.total = Len(FlattenSeq(D))
    BY DEF Restored
  <1>3. SideIsSound(side)
    <2>1. IsSideOf(side, D)
      BY <1>2 DEF IsSideOf
    <2> HIDE DEF side, D
    <2> QED
      BY <1>1, <2>1, SideSound
  <1>4. DictDecode(n, residual, side) =
           CASE ~ SideIsSound(side) -> [status |-> "corrupt"]
             [] SideIsSound(side) /\ n = 0 ->
                 [status |-> "ok", block |-> [heap |-> <<>>, offsets |-> <<0>>]]
             [] SideIsSound(side) /\ n # 0 /\ Len(residual) # n -> [status |-> "corrupt"]
             [] OTHER ->
                 IF \E i \in 1..n : residual[i] >= side.count THEN [status |-> "corrupt"]
                 ELSE [status |-> "ok",
                       block  |-> [heap |-> FlattenSeq(strs), offsets |-> Offsets(strs)]]
    BY Zenon DEF DictDecode
  <1> HIDE DEF D, side, residual
  <1>5. \A i \in 1..n : entry(residual[i]) = rows[i]
    <2> TAKE i \in 1..n
    <2> DEFINE k == residual[i]
               j == k + 1
    <2>1. k \in Nat /\ k < Len(D) /\ D[k + 1] = rows[i] /\ Len(D) \in Nat
      BY <1>1
    <2>2. j \in 1..Len(D) /\ k + 1 = j /\ k + 2 = j + 1
      BY <2>1
    <2> HIDE DEF k, j
    <2>3. SubSeq(FlattenSeq(D), Offsets(D)[j] + 1, Offsets(D)[j + 1]) = D[j]
      BY <1>1, <2>2, HeapRow
    <2>4. entry(k) = D[j]
      BY <1>2, <2>2, <2>3
    <2> QED
      BY <2>1, <2>2, <2>4 DEF k
  <1>6. strs = rows
    <2> HIDE DEF entry
    <2>1. rows = [i \in 1..n |-> rows[i]]
      OBVIOUS
    <2>2. strs = [i \in 1..n |-> rows[i]]
      BY <1>5, Zenon
    <2> QED
      BY <2>1, <2>2, Zenon
  <1> HIDE DEF strs
  <1>7. CASE n = 0
    <2>1. DictDecode(n, residual, side) = [status |-> "ok", block |-> [heap |-> <<>>, offsets |-> <<0>>]]
      BY <1>3, <1>4, <1>7
    <2>2. RowsOf([heap |-> <<>>, offsets |-> <<0>>]) = rows
      <3>1. RowsOf([heap |-> <<>>, offsets |-> <<0>>])
               = [i \in 1..0 |-> Row([heap |-> <<>>, offsets |-> <<0>>], i)]
        BY DEF RowsOf
      <3>2. rows = <<>> /\ 1..0 = {}
        BY <1>7
      <3> QED
        BY <3>1, <3>2
    <2> QED
      BY <2>1, <2>2 DEF side, residual, D
  <1>8. CASE n # 0
    <2>1. ~ \E i \in 1..n : residual[i] >= side.count
      <3> SUFFICES ASSUME NEW i \in 1..n PROVE ~ (residual[i] >= side.count)
        OBVIOUS
      <3>1. residual[i] \in Nat /\ residual[i] < Len(D) /\ Len(D) \in Nat
        BY <1>1
      <3> QED
        BY <1>2, <3>1
    <2>2. DictDecode(n, residual, side) =
             [status |-> "ok", block |-> [heap |-> FlattenSeq(rows), offsets |-> Offsets(rows)]]
      BY <1>1, <1>3, <1>4, <1>6, <1>8, <2>1
    <2>3. RowsOf([heap |-> FlattenSeq(rows), offsets |-> Offsets(rows)]) = rows
      BY JoinedRows
    <2> QED
      BY <2>2, <2>3 DEF side, residual, D
  <1> QED
    BY <1>7, <1>8

\* Strings come back through the dictionary and its packed side metadata.
LEMMA DictBack ==
    ASSUME NEW block, Hashed(block), DictEncode(block).status = "ok"
    PROVE  LET r      == DictEncode(block)
               packed == SidePack(r.side)
               side   == IF packed.status = "ok" THEN SideUnpack(packed.count, packed.bytes)
                         ELSE packed
               d      == IF side.status = "ok"
                         THEN DictDecode(Len(block.offsets) - 1, r.residual, side) ELSE side
           IN  d.status = "ok" /\ RowsOf(d.block) = RowsOf(block)
  <1> DEFINE r == DictEncode(block)
             packed == SidePack(r.side)
             side == IF packed.status = "ok" THEN SideUnpack(packed.count, packed.bytes) ELSE packed
             rows == RowsOf(block)
  <1>1. PICK b : /\ Built(b, rows) /\ b.dict \in Seq(Seq(Nat))
                 /\ Len(FlattenSeq(b.dict)) <= HeapMax
                 /\ r = [status |-> "ok", side |-> SideOf(b.dict), residual |-> b.indices]
    BY DictSide
  <1> DEFINE D == b.dict
  <1>2. D \in Seq(Seq(Nat)) /\ Len(FlattenSeq(D)) <= HeapMax
    BY <1>1
  <1>3. r.side = SideOf(D) /\ r.residual = b.indices
    <2> HIDE DEF r
    <2> QED
      BY <1>1
  <1>4. IsSideOf(r.side, D)
    <2> HIDE DEF r, D
    <2> QED
      BY <1>3 DEF IsSideOf, SideOf
  <1> HIDE DEF r, D
  <1>5. packed = [status |-> "ok", count |-> Len(D), bytes |-> Packed(D)]
    BY <1>2, <1>4, SidePacks
  <1> HIDE DEF packed
  <1>6. side = SideUnpack(Len(D), Packed(D))
    BY <1>5
  <1>7. SideUnpack(Len(D), Packed(D)) = Restored(D)
    BY <1>2, SideUnpacks
  <1>8. side = Restored(D)
    BY <1>6, <1>7, Zenon
  <1>9. side.status = "ok"
    BY <1>8 DEF Restored
  <1> HIDE DEF side
  <1>10. rows \in Seq(Seq(Nat)) /\ Len(rows) = Len(block.offsets) - 1
    BY RowsAre
  <1> DEFINE d == DictDecode(Len(rows), b.indices, Restored(D))
  <1>11. d.status = "ok" /\ RowsOf(d.block) = rows
    BY <1>1, <1>10, DictRows DEF D
  <1>12. d = DictDecode(Len(block.offsets) - 1, r.residual, side)
    BY <1>3, <1>8, <1>10
  <1> HIDE DEF d, rows
  <1> QED
    BY <1>9, <1>11, <1>12 DEF side, packed, r, rows
=============================================================================
