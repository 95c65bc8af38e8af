------------------------------ MODULE Shuffles ------------------------------
(***************************************************************************)
(* The byte shuffle and the bit shuffle (src/transform/shuffle.c,          *)
(* bitshuffle.c): the same bytes, or bits, of all elements side by side.   *)
(* The byte shuffle computes its indices in words of IndexBits bits (32 in *)
(* the code), the bit shuffle in size_t.  A register holds 16 bytes, or as *)
(* many as give two bytes of mask bits.                                    *)
(***************************************************************************)
EXTENDS Elements, FiniteSetsExt

CONSTANT IndexBits

ASSUME ShufflesAssumption == IndexBits \in Nat \ {0}

Idx(k) == k % 2^IndexBits

\* What a byte of a buffer holds that nothing wrote.
Junk == "junk"

\* The array of n bytes after the writes 0, 1, ..., count - 1, of which the
\* k-th puts what[k] at at[k].
Written(n, count, at, what) ==
    [p \in 1..n |-> LET hits == {k \in 0..count - 1 : at[k] = p - 1}
                    IN  IF hits = {} THEN Junk ELSE what[Max(hits)]]

\* shuffle_scalar: byte b of element i goes to k = b * n + i.
ShuffleScalar(n, size, src) ==
    LET all == n * size
    IN  Written(all, all,
                [k \in 0..all - 1 |-> Idx(k)],
                [k \in 0..all - 1 |-> src[Idx((k % n) * size + k \div n) + 1]])

UnshuffleScalar(n, size, src) ==
    LET all == n * size
    IN  Written(all, all,
                [k \in 0..all - 1 |-> Idx((k % n) * size + k \div n)],
                [k \in 0..all - 1 |-> src[Idx(k) + 1]])

\* Two registers interleaved in groups of g bytes: their lower halves
\* (unpacklo, vzip1) and their upper halves (unpackhi, vzip2).
InterleaveGroups(g, u, v) ==
    LET from(half) ==
            [k \in 1..16 |->
                LET group == (k - 1) \div g
                    lane  == half * 8 + (group \div 2) * g + ((k - 1) % g)
                IN  IF group % 2 = 0 THEN u[lane + 1] ELSE v[lane + 1]]
    IN  <<from(0), from(1)>>

\* The cascade that turns one register per byte of 16 elements into the 16
\* elements, a register after the other.
Transpose2(r) == InterleaveGroups(1, r[1], r[2])
Transpose4(r) ==
    LET a == InterleaveGroups(1, r[1], r[2]) \o InterleaveGroups(1, r[3], r[4])
    IN  InterleaveGroups(2, a[1], a[3]) \o InterleaveGroups(2, a[2], a[4])
Bytes8(r) ==
    InterleaveGroups(1, r[1], r[2]) \o InterleaveGroups(1, r[3], r[4])
    \o InterleaveGroups(1, r[5], r[6]) \o InterleaveGroups(1, r[7], r[8])
Pairs8(a) ==
    InterleaveGroups(2, a[1], a[3]) \o InterleaveGroups(2, a[2], a[4])
    \o InterleaveGroups(2, a[5], a[7]) \o InterleaveGroups(2, a[6], a[8])
\* Mutant: the last stage pairs neighbouring registers.
Fours8Neighbours(b) ==
    InterleaveGroups(4, b[1], b[2]) \o InterleaveGroups(4, b[3], b[4])
    \o InterleaveGroups(4, b[5], b[6]) \o InterleaveGroups(4, b[7], b[8])
Fours8(b) ==
    InterleaveGroups(4, b[1], b[5]) \o InterleaveGroups(4, b[2], b[6])
    \o InterleaveGroups(4, b[3], b[7]) \o InterleaveGroups(4, b[4], b[8])
Transpose8(r) == Fours8(Pairs8(Bytes8(r)))

Transposed(size, r) ==
    CASE size = 2 -> Transpose2(r) [] size = 4 -> Transpose4(r) [] size = 8 -> Transpose8(r)

\* unshuffle_{2,4,8}_sse2: 16 elements at a time, then one by one.
UnshuffleSse2(n, size, src) ==
    LET body     == 16 * (n \div 16)
        loaded(i) == [b \in 1..size |->
                        [k \in 1..16 |-> src[Idx((b - 1) * n) + i + k]]]
        regs(i)  == Transposed(size, loaded(i))
        \* a table of the registers, so that each is computed once
        table    == [c \in 0..n \div 16 |-> IF c * 16 < body THEN regs(c * 16) ELSE <<>>]
        at(p)    == table[p \div (16 * size)][(p % (16 * size)) \div 16 + 1][(p % 16) + 1]
    IN  [p \in 1..n * size |->
            LET i == (p - 1) \div size
            IN  IF i < body THEN at(p - 1)
                ELSE src[Idx(((p - 1) % size) * n + i) + 1]]

\* unshuffle_{2,4,8}_neon: the same cascade of vzip1 and vzip2.
UnshuffleNeon(n, size, src) == UnshuffleSse2(n, size, src)

ByteShuffle(size, bytes) ==
    IF bytes = <<>> \/ size = 1 THEN bytes
    ELSE ShuffleScalar(Len(bytes) \div size, size, bytes)

ByteUnshuffle(build, size, bytes) ==
    LET n == Len(bytes) \div size
    IN  CASE bytes = <<>> \/ size = 1 -> bytes
          [] bytes # <<>> /\ size # 1 /\ build = "scalar" -> UnshuffleScalar(n, size, bytes)
          [] bytes # <<>> /\ size # 1 /\ build = "sse2" -> UnshuffleSse2(n, size, bytes)
          [] bytes # <<>> /\ size # 1 /\ build = "neon" -> UnshuffleNeon(n, size, bytes)

----------------------------------------------------------------------------
(* Bits.                                                                   *)

PlaneBytes(n) == (n + ByteBits - 1) \div ByteBits

\* Byte c of a plane, as far as elements from..n-1 make it: bit e % ByteBits
\* is the plane's bit of element e.
PlaneByte(src, n, size, from, plane, c) ==
    LET lane  == plane \div ByteBits
        bit   == plane % ByteBits
        bits  == [j \in 0..ByteBits - 1 |->
                    LET e == c * ByteBits + j
                    IN  IF from <= e /\ e < n THEN Bit(src[e * size + lane + 1], bit) ELSE 0]
    IN  FromBits(ByteBits, bits)

Scatter(n, size, src) ==
    LET bpp == PlaneBytes(n)
    IN  [p \in 1..size * ByteBits * bpp |->
            PlaneByte(src, n, size, 0, (p - 1) \div bpp, (p - 1) % bpp)]

\* bitshuffle_scatter_sse2: two bytes of a plane from the mask of a register
\* of one byte of 2 * ByteBits elements; the rest bit by bit.
ScatterSse2(n, size, src) ==
    LET bpp  == PlaneBytes(n)
        step == 2 * ByteBits
        body == step * (n \div step)
        \* tmp[j], and bit j of _mm_movemask_epi8 for the given bit
        mask(e, lane, bit) ==
            FromBits(step, [j \in 0..step - 1 |-> Bit(src[(e + j) * size + lane + 1], bit)])
        packed(plane, c) ==
            LET m == mask(step * (c \div 2), plane \div ByteBits, plane % ByteBits)
            IN  IF c % 2 = 0 THEN m % 2^ByteBits ELSE m \div 2^ByteBits
    IN  [p \in 1..size * ByteBits * bpp |->
            LET plane == (p - 1) \div bpp
                c     == (p - 1) % bpp
            IN  IF c * ByteBits < body THEN packed(plane, c)
                ELSE PlaneByte(src, n, size, body, plane, c)]

\* Byte b of element e, from the planes.
Gathered(src, n, e, b) ==
    FromBits(ByteBits,
             [bit \in 0..ByteBits - 1 |->
                Bit(src[(b * ByteBits + bit) * PlaneBytes(n) + e \div ByteBits + 1],
                    e % ByteBits)])

Gather(n, size, src) ==
    [p \in 1..n * size |-> Gathered(src, n, (p - 1) \div size, (p - 1) % size)]

\* bitshuffle_gather_sse2: the two mask bytes of a plane spread over a
\* register, bit j over byte j, and the planes or-ed together.
GatherSse2(n, size, src) ==
    LET bpp  == PlaneBytes(n)
        step == 2 * ByteBits
        body == step * (n \div step)
        packed(plane, c) == src[plane * bpp + c + 1] + 2^ByteBits * src[plane * bpp + c + 2]
        \* bshuf_expand_mask16: low byte to the lower lanes, high to the upper
        expand(m, j) == Bit(IF j < ByteBits THEN m % 2^ByteBits ELSE m \div 2^ByteBits,
                            j % ByteBits)
        accum(e, b) ==
            LET first == step * (e \div step)
            IN  FromBits(ByteBits,
                         [bit \in 0..ByteBits - 1 |->
                            expand(packed(b * ByteBits + bit, first \div ByteBits), e - first)])
    IN  [p \in 1..n * size |->
            LET e == (p - 1) \div size
                b == (p - 1) % size
            IN  IF e < body THEN accum(e, b) ELSE Gathered(src, n, e, b)]

BitShuffle(build, size, bytes) ==
    LET n == Len(bytes) \div size
    IN  CASE bytes = <<>> -> <<>>
          [] bytes # <<>> /\ build = "sse2" -> ScatterSse2(n, size, bytes)
          [] bytes # <<>> /\ build # "sse2" -> Scatter(n, size, bytes)

\* Decode knows how many bytes the elements take, and checks the planes'.
BitUnshuffle(build, size, total, bytes) ==
    LET n == total \div size
    IN  CASE total = 0 -> Ok(<<>>)
          [] total # 0 /\ Len(bytes) # size * ByteBits * PlaneBytes(n) -> Fails("corrupt")
          [] OTHER -> Ok(IF build = "sse2" THEN GatherSse2(n, size, bytes)
                                           ELSE Gather(n, size, bytes))
=============================================================================
