------------------------------ MODULE Elements ------------------------------
(***************************************************************************)
(* Machine words as C sees them: unsigned numbers below 2^w, whose sums    *)
(* and differences wrap, and the two's complement reading of their bits;   *)
(* and blocks of elements with the bytes they are stored in, smallest byte *)
(* first.  An element of size bytes is a word of Bits(size) bits; a dtype  *)
(* is [size, kind], and what a build of the library can do in one step is  *)
(* named by its instruction set.                                           *)
(***************************************************************************)
EXTENDS Integers, Sequences

LOCAL INSTANCE TLC

CONSTANT ByteBits     \* bits of a byte: eight, or fewer for TLC

ASSUME ElementsAssumption == ByteBits \in Nat \ {0}

----------------------------------------------------------------------------
(* Words: every operator takes the width w it works at.                    *)

WordsOf(w) == 0..2^w - 1

Add(w, a, b) == (a + b) % 2^w
Sub(w, a, b) == (a - b) % 2^w
Neg(w, a)    == (2^w - a) % 2^w

\* The low w bits of an integer, and the integer a word of w bits stands for
\* when it is read as a signed number.
ToWord(w, x)   == x % 2^w
ToSigned(w, a) == IF a < 2^(w - 1) THEN a ELSE a - 2^w

Bit(a, i) == (a \div 2^i) % 2

\* The word whose bit i is bits[i], for i in 0..w-1.
FromBits(w, bits) ==
    LET value[i \in 0..w] ==
            IF i = 0 THEN 0 ELSE value[i - 1] + bits[i - 1] * 2^(i - 1)
    IN  value[w]

Xor(w, a, b) == FromBits(w, [i \in 0..w - 1 |-> (Bit(a, i) + Bit(b, i)) % 2])
And(w, a, b) == FromBits(w, [i \in 0..w - 1 |-> Bit(a, i) * Bit(b, i)])
Or(w, a, b)  == a + b - And(w, a, b)

Shr(a, k)    == a \div 2^k
Shl(w, a, k) == (a * 2^k) % 2^w

\* The bits above the highest one that is set.
LeadingZeros(w, a) ==
    CHOOSE k \in 0..w : /\ a < 2^(w - k)
                        /\ k = w \/ a >= 2^(w - k - 1)

\* The bits needed to write a: none for zero.
BitWidth(a) == CHOOSE k \in 0..a : a < 2^k /\ (k = 0 \/ a >= 2^(k - 1))

MinOf(a, b) == IF a < b THEN a ELSE b
MaxOf(a, b) == IF a < b THEN b ELSE a

\* The elements lo, lo + 1, ..., hi - 1 of a C array kept as a sequence.
Slice(s, lo, hi) == SubSeq(s, lo + 1, hi)

\* The sequence s itself; written where TLC should compute its elements once.
Eager(s) == s \o <<>>

\* The function f itself, for the same reason.
Tabulated(f) == f @@ <<>>

\* n copies of x.
Fill(n, x) == Eager([i \in 1..n |-> x])

----------------------------------------------------------------------------
(* Elements and bytes.                                                     *)

Bits(size) == size * ByteBits
ByteValues == WordsOf(ByteBits)

\* The vector kernels of an x86 build, of an ARM build, and neither.
Builds == {"scalar", "sse2", "neon"}

ByteOf(elem, b) == (elem \div 2^(b * ByteBits)) % 2^ByteBits

\* The bytes of a block, and the block a run of bytes stands for.
BytesOf(size, elems) ==
    [k \in 1..Len(elems) * size |-> ByteOf(elems[(k - 1) \div size + 1], (k - 1) % size)]

ElemsOf(size, bytes) ==
    LET elem(i) ==
            LET value[b \in 0..size] ==
                    IF b = 0 THEN 0
                    ELSE value[b - 1] + bytes[i * size + b] * 2^((b - 1) * ByteBits)
            IN  value[size]
    IN  [i \in 1..Len(bytes) \div size |-> elem(i - 1)]

Ok(data)     == [status |-> "ok", data |-> data]
Fails(status) == [status |-> status]

----------------------------------------------------------------------------
(* Vector registers as sequences of lanes, the lowest lane first, and the  *)
(* instructions the kernels of src/model use on them.  Every operator      *)
(* takes the width w of a lane.                                            *)

\* The lanes of a register of 16 bytes that holds elements of size bytes.
Lanes(size) == 16 \div size

AddLanes(w, u, v) == [i \in DOMAIN u |-> Add(w, u[i], v[i])]
SubLanes(w, u, v) == [i \in DOMAIN u |-> Sub(w, u[i], v[i])]
OrLanes(w, u, v)  == [i \in DOMAIN u |-> Or(w, u[i], v[i])]

\* _mm_slli_si128 by k lanes, and _mm_srli_si128.
SlliLanes(v, k) == Fill(k, 0) \o SubSeq(v, 1, Len(v) - k)
SrliLanes(v, k) == SubSeq(v, k + 1, Len(v)) \o Fill(k, 0)
\* vextq: the lanes of u from lane k on, then the first k of v.
ExtLanes(u, v, k) == SubSeq(u, k + 1, Len(u)) \o SubSeq(v, 1, k)

\* x in the lowest of n lanes, as _mm_cvtsi32_si128 puts it.
InLowest(x, n) == <<x>> \o Fill(n - 1, 0)

\* Two rows element by element: whole registers first, then the elements that
\* are left.
SubRow(size, a, b) ==
    LET w     == Bits(size)
        lanes == Lanes(size)
        body  == lanes * (Len(a) \div lanes)
        at(s, k) == Slice(s, k * lanes, (k + 1) * lanes)
        regs  == [k \in 0..Len(a) \div lanes - 1 |-> SubLanes(w, at(a, k), at(b, k))]
    IN  [i \in DOMAIN a |->
            IF i <= body THEN regs[(i - 1) \div lanes][((i - 1) % lanes) + 1]
                         ELSE Sub(w, a[i], b[i])]

AddRow(size, a, b) ==
    LET w     == Bits(size)
        lanes == Lanes(size)
        body  == lanes * (Len(a) \div lanes)
        at(s, k) == Slice(s, k * lanes, (k + 1) * lanes)
        regs  == [k \in 0..Len(a) \div lanes - 1 |-> AddLanes(w, at(a, k), at(b, k))]
    IN  [i \in DOMAIN a |->
            IF i <= body THEN regs[(i - 1) \div lanes][((i - 1) % lanes) + 1]
                         ELSE Add(w, a[i], b[i])]

----------------------------------------------------------------------------
(* What the predictors of rasters and volumes compute with: the working    *)
(* type an element is read into (src/model/model_load_store.h), C's        *)
(* division, and floats in the order of their numbers                      *)
(* (src/core/float_order.h, src/model/float_pred_helpers.h).               *)

Abs(x) == IF x < 0 THEN -x ELSE x

\* Division as C does it: towards zero.
Div(x, k) == IF x < 0 THEN -((-x) \div k) ELSE x \div k
Half(x)   == Div(x, 2)

\* The working type of the typed kernels: 32 bits for elements of one and two
\* bytes, 64 for those of four and eight.
WorkBits(size) == IF size <= 2 THEN Bits(4) ELSE Bits(8)
Work(size, x)  == ToSigned(WorkBits(size), ToWord(WorkBits(size), x))

\* An element read into the working type.
Wide(dtype, e) ==
    IF dtype.kind = "signed" \/ dtype.size = 8 THEN ToSigned(Bits(dtype.size), e) ELSE e

----------------------------------------------------------------------------
(* Floats.                                                                 *)

Ordered(w, bits) ==
    IF bits >= 2^(w - 1) THEN 2^w - 1 - bits ELSE bits + 2^(w - 1)
Unordered(w, s) ==
    IF s >= 2^(w - 1) THEN s - 2^(w - 1) ELSE 2^w - 1 - s

\* The distance between two words, whichever way round is shorter.
AbsDiff(w, a, b) == MinOf(Sub(w, a, b), Sub(w, b, a))

PaethOrdered(left, up, upleft) ==
    LET w  == Bits(8)
        p  == Sub(w, Add(w, left, up), upleft)
        pa == AbsDiff(w, p, left)
        pb == AbsDiff(w, p, up)
        pc == AbsDiff(w, p, upleft)
    IN  IF pa <= pb /\ pa <= pc THEN left ELSE IF pb <= pc THEN up ELSE upleft

\* An element as a 64-bit word: signed ones keep their sign, floats their order.
LoadWide(dtype, e) ==
    CASE dtype.kind = "signed" -> ToWord(Bits(8), ToSigned(Bits(dtype.size), e))
      [] dtype.kind = "unsigned" -> e
      [] dtype.kind = "float" -> Ordered(Bits(dtype.size), e)

\* The first of the kinds with the smallest score, if one is below the largest
\* word.
BestKind(kinds, score, fallback) ==
    LET best == {k \in DOMAIN kinds : /\ score[k] < 2^Bits(8) - 1
                                      /\ \A j \in 1..k - 1 : score[k] < score[j]
                                      /\ \A j \in DOMAIN kinds : score[k] <= score[j]}
    IN  IF best = {} THEN fallback ELSE kinds[CHOOSE k \in best : TRUE]
=============================================================================
