----------------------------- MODULE MCCodecs -----------------------------
(***************************************************************************)
(* Blocks for the codecs.  A block of numbers follows a curve with jumps,  *)
(* long enough for full registers, for a tail and for the shapes at which  *)
(* a kernel gives way to another.                                          *)
(***************************************************************************)
EXTENDS Codecs

Signed(size)   == [size |-> size, kind |-> "signed"]
Unsigned(size) == [size |-> size, kind |-> "unsigned"]
Float(size)    == [size |-> size, kind |-> "float"]

\* n words on a curve that wraps, with a step after every third.
Curve(dtype, a, b, k, n) ==
    Eager([i \in 1..n |-> (a * i * i + b * i + k * (i \div 3)) % 2^Bits(dtype.size)])

\* n words: one value, then the other.
Jump(dtype, j, n) == Eager([i \in 1..n |-> IF i <= j THEN 1 ELSE 2^Bits(dtype.size) - 1])

RawJobs ==
    {[layout |-> "vector_1d", dims |-> <<n>>, src |-> Fill(MaxOf(n, 0), 1)] : n \in {-1, 0, 1, 5}}
    \cup {[layout |-> "raster_2d", dims |-> <<a, b>>,
           src |-> Fill(MinOf(MaxOf(a * b, 0), 10), 1)] : a, b \in {-1, 0, 1, 2, 3, 5, 7}}
    \cup {[layout |-> "volume_3d", dims |-> <<a, b, c>>,
           src |-> Fill(MinOf(MaxOf(a * b * c, 0), 10), 1)] : a, b, c \in {0, 1, 2, 3, 5, 7}}

DeltaJobs ==
    {[dtype |-> d, src |-> Jump(d, n \div 3, n)] :
        d \in {Signed(1), Signed(2), Unsigned(4), Signed(8), Float(4), Float(8)}, n \in 0..19}
    \cup {[dtype |-> d, src |-> Curve(d, 1, 3, 5, n)] :
        d \in {Unsigned(2), Signed(4), Float(2)}, n \in 0..19}

Delta2Jobs ==
    {[dtype |-> d, src |-> Curve(d, a, 3, 5, n)] :
        d \in {Signed(1), Unsigned(2), Signed(4)}, a \in {0, 1}, n \in 0..7}

\* The values a dictionary is asked about, by number, and their hashes: some
\* fall on the same slot of a small table and part in a larger one.
Value(k) == IF k = 0 THEN <<>> ELSE <<k, k % 2>>
Hashes   == [v \in {Value(k) : k \in 0..7} |-> 2 * ((5 * Len(v) * (IF v = <<>> THEN 0 ELSE v[1])) % 8) + 1]

Picks(n) == {Eager([i \in 1..n |-> (a * i + b * (i \div 2)) % 8]) : a \in {0, 1, 3}, b \in {0, 1, 2}}

StringBlock(from, picks) ==
    LET words == [i \in DOMAIN picks |-> Value(picks[i])]
    IN  [heap    |-> Fill(from, 9) \o FlattenSeq(words),
         offsets |-> [i \in DOMAIN Offsets(words) |-> from + Offsets(words)[i]]]

DictJobs == {[n |-> n, src |-> StringBlock(from, p)] :
                n \in {9}, from \in {0, 2}, p \in Picks(9)}
            \cup {[n |-> 0, src |-> StringBlock(0, <<>>)], [n |-> 3, src |-> StringBlock(0, <<7, 7, 7>>)]}

NumericJobs == UNION {{[dtype |-> Signed(4), src |-> [i \in DOMAIN p |-> Value(1 + (p[i] % 7))]] :
                            p \in Picks(n)} : n \in {0, 1, 9}}
SparseJobs  == UNION {{[dtype |-> Signed(4), src |-> p] : p \in Picks(n)} : n \in {0, 1, 9}}

FpcJobs == {[dtype |-> d, src |-> Curve(d, a, b, k, n)] :
                d \in {Float(4), Float(8)}, a \in {0, 1}, b \in {0, 3}, k \in {0, 7}, n \in {0, 1, 7, 8, 9}}

----------------------------------------------------------------------------
Numerics == {Signed(1), Unsigned(2), Signed(4), Unsigned(8), Float(2), Float(4), Float(8)}

Pred2dJobs ==
    {[dtype |-> d, kind |-> k, nx |-> nx, ny |-> ny, src |-> Curve(d, 3, 5, 7, nx * ny)] :
        d \in Numerics, k \in Pred2dKinds \cup {"auto"}, nx \in {0, 1, 2, 5}, ny \in {1, 2, 6}}
    \cup {[dtype |-> d, kind |-> k, nx |-> 18, ny |-> 2, src |-> Curve(d, a, 1, 0, 36)] :
        d \in {Signed(1), Unsigned(2), Signed(4), Signed(8)}, k \in {"up", "auto"}, a \in {0, 1}}

PaethJobs ==
    {[nx |-> nx, ny |-> ny, src |-> Curve(U16, a, 5, 7, nx * ny)] :
        nx \in 1..10, ny \in {1, 2, 4, 5, 9, 10}, a \in {0, 3, 5}}

\* A slope, the rows one apart.
Slope(dtype, from, step, nx, n) ==
    Eager([i \in 1..n |-> (from + step * ((i - 1) % nx) + (i - 1) \div nx) % 2^Bits(dtype.size)])

Integers124 == {Signed(1), Unsigned(1), Signed(2), Unsigned(2), Signed(4)}

PlaneJobs ==
    {[dtype |-> d, tile |-> tile, coeffs |-> <<>>, nx |-> nx, ny |-> ny,
      src |-> Curve(d, 3, 1, 7, nx * ny)] :
        d \in Integers124, tile \in {0, 2, 8}, nx \in {0, 1, 2, 9}, ny \in {0, 1, 3}}
    \cup {[dtype |-> d, tile |-> 0, coeffs |-> <<>>, nx |-> 9, ny |-> 2,
           src |-> Slope(d, from, step, 9, 18)] :
        d \in Integers124, from \in {0, 7}, step \in {0, 1, 5}}
    \cup {[dtype |-> d, tile |-> 0, coeffs |-> <<c>>, nx |-> 9, ny |-> 3,
           src |-> Curve(d, 3, 1, 0, 27)] :
        d \in {Signed(1), Unsigned(2), Signed(4)}, c \in [1..3 -> {0, -3, 50, 125, -128}]}

Stack2dJobs ==
    {[dtype |-> d, kind |-> k, inter |-> i, nx |-> nx, ny |-> 3, nz |-> nz,
      src |-> Curve(d, 3, 5, 7, nx * 3 * nz)] :
        d \in {Signed(1), Unsigned(2), Float(4)}, k \in Pred2dKinds \cup {"auto"},
        i \in BOOLEAN, nx \in {0, 1, 5}, nz \in 1..3}

Pred3dJobs ==
    {[dtype |-> d, kind |-> k, box |-> [nx |-> nx, ny |-> ny, nz |-> nz],
      src |-> Curve(d, 3, 5, 7, nx * ny * nz)] :
        d \in {Signed(1), Unsigned(2), Signed(4), Float(2), Float(4), Float(8)},
        k \in Pred3dKinds \cup {"auto"}, nx \in {1, 6}, ny \in 1..3, nz \in {1, 3}}

----------------------------------------------------------------------------
Rounding == {[target |-> t, num |-> n, den |-> d, offset |-> o, kind |-> k] :
                t \in {1, 2}, n \in {1, 2, 3, -1}, d \in {1, 4}, o \in {0, 2}, k \in {"paeth", "auto"}}

Measured(a, n) ==
    Eager([i \in 1..n |-> CASE i % 7 = 0 -> NaN
                            [] i % 11 = 0 -> PosInf
                            [] i % 13 = 0 -> NegInf
                            [] OTHER -> Number(((a * i * i + 3 * i) % 19) - 8)])

QuantizeJobs == {[dtype |-> Float(4), p |-> p, src |-> Measured(a, 15)] : p \in Rounding, a \in {0, 2}}
Qp2Jobs == {[dtype |-> Float(4), p |-> p, nx |-> nx, ny |-> 3, src |-> Measured(2, nx * 3)] :
                p \in Rounding, nx \in {0, 5}}

----------------------------------------------------------------------------
ZigzagJobs == {[dtype |-> Signed(s), src |-> Curve(Signed(s), 0, 1, 0, 2^MinOf(8, 2 * s))] : s \in {1, 2, 4, 8}}
ComplementJobs == {[dtype |-> Float(2), src |-> Curve(Signed(1), 0, b, 0, 8)] : b \in 0..3}

\* Bytes that are all different where there are as many, to tell one from
\* another.
Places(n) == Eager([i \in 1..n |-> i])
ShuffleJobs == {[size |-> s, src |-> Places(s * n)] : s \in {1, 2, 4, 8}, n \in {0, 1, 15, 16, 17, 33}}
BitShuffleJobs == {[size |-> s, src |-> Curve(Signed(1), a, 1, 1, s * n)] :
                        s \in {1, 2, 4}, n \in {0, 1, 3, 4, 5, 9}, a \in {0, 1}}

----------------------------------------------------------------------------
\* Symbols whose counts are even, skewed, and skewed past the longest code.
Profiles == {<<3>>, <<0, 1>>, <<5, 5, 5, 5, 2, 2, 1, 0>>,
             <<0, 0, 0, 0, 0, 0, 0, 0, 1, 1, 1, 1, 1, 2, 2, 2, 3, 3, 4, 5>>,
             <<1, 1, 1, 1, 1, 1, 1, 1, 1, 1, 0, 0, 0, 2, 3, 4, 5>>}
Text(p, m, n) == Eager([i \in 1..n |-> p[1 + ((i * m) % Len(p))]])

RunsJobs    == {[src |-> Text(p, m, n)] : p \in Profiles, m \in {1, 3}, n \in {0, 1, 9, 30}}
HuffmanJobs == {[src |-> Text(p, m, n)] : p \in Profiles, m \in {1, 7}, n \in {0, 1, 2, 7, 20, 33, 50}}
Huffman4Jobs == {[src |-> Text(p, m, n)] : p \in Profiles, m \in {1, 7},
                                              n \in {5, 25, 26, 27, 29, 30, 50, 53}}
FseJobs     == HuffmanJobs

LaneJobs ==
    {[asked |-> ask, measured |-> mea, shrinks |-> shr, src |-> Text(p, 3, 18)] :
        ask \in [1..2 -> {"huffman", "fse", "auto"}], mea \in {<<"none", "fse">>, <<"huffman", "none">>},
        shr \in [1..2 -> BOOLEAN], p \in {<<0, 1>>, <<5, 5, 5, 5, 2, 2, 1, 0>>}}

\* Repeats at every distance the copies tell apart, with a flaw in every
\* thirteenth place.
Repeats(n, per, a, flaw) ==
    Eager([i \in 1..n |-> LET j == (i - 1) % per
                          IN  (a * j * j + j + j \div 3 + (IF flaw /\ i % 13 = 5 THEN 1 ELSE 0)) % 4])
LzJobs == {[level |-> l, src |-> Repeats(n, per, a, f)] :
                l \in {0, 1, 2, 6}, n \in {3, 11, 32, 46, 60}, per \in {1, 2, 3, 5, 8, 9, 17, 60},
                a \in {0, 3}, f \in BOOLEAN}

StreamJob(level, min, parse, pays, split, src) ==
    [level |-> level, min |-> min, parse |-> parse, pays |-> pays, split |-> split, src |-> src]

\* Whether a parse covers no more than the block and says what is there.
TrueParse(src, seqs) ==
    LET at == SeqStart(seqs)
    IN  \A k \in DOMAIN seqs :
            LET p == at[k] + seqs[k].lit
            IN  /\ p + seqs[k].len <= Len(src) /\ seqs[k].off <= MinOf(p, MaxOffset)
                /\ \A i \in p + 1..p + seqs[k].len : src[i] = src[i - seqs[k].off]

\* A block of one period has matches at every multiple of it: offsets that
\* come back, in every place of the three remembered, and such as move on by
\* little; and one long match covers it.
Parses(per) ==
    {[k \in 1..4 |-> [lit |-> IF k = 1 THEN first ELSE lit, len |-> len, off |-> per * offs[k]]] :
        first \in {2 * per, 2 * per + 1, 6 * per, 18}, lit \in {0, 5}, len \in {3, 4, 9},
        offs \in {<<1, 1, 2, 1>>, <<1, 3, 1, 3>>, <<2, 3, 1, 2>>, <<5, 6, 7, 8>>, <<3, 3, 2, 3>>,
                  <<16, 17, 18, 16>>}}
    \cup {<<[lit |-> per, len |-> len, off |-> per]>> : len \in {43, 60 - per}}

StreamsJobs ==
    {StreamJob(l, m, <<>>, TRUE, FALSE, Repeats(n, per, a, f)) :
        l \in 0..4, m \in {0, 5}, n \in {0, 3, 32, 46, 60}, per \in {1, 2, 4, 8, 17, 60},
        a \in {0, 3}, f \in BOOLEAN}
    \cup {j \in {StreamJob(-1, m, parse, pays, split, Repeats(60, per, 3, FALSE)) :
                    m \in {0, 4}, pays \in BOOLEAN, split \in BOOLEAN,
                    parse \in UNION {Parses(q) : q \in {1, 2, 4, 8}}, per \in {1, 2, 4, 8}} :
                TrueParse(j.src, j.parse)}

\* What an optimal parser may come back with.
OptJobs ==
    {j \in {[parse |-> parse, pays |-> pays, src |-> Repeats(60, per, 3, FALSE)] :
                pays \in BOOLEAN, parse \in UNION {Parses(q) : q \in {1, 2, 4, 8}},
                per \in {1, 2, 4, 8}} : TrueParse(j.src, j.parse)}
    \cup {[parse |-> <<>>, pays |-> TRUE, src |-> Places(n)] : n \in {0, 3, 20}}

----------------------------------------------------------------------------
\* Bytes as they were written, cut short, with one replaced, or with more
\* behind them.
Harmed(bytes) ==
    {bytes, bytes \o <<0>>} \cup {SubSeq(bytes, 1, n) : n \in 0..Len(bytes) - 1}
    \cup {[bytes EXCEPT ![k] = b] : k \in DOMAIN bytes, b \in {0, 1, 2}}

Column(name, dtype, ann) == [name |-> name, dtype |-> dtype, ann |-> ann]
Schemas ==
    {<<Column(n, d, a)>> : n \in {<<>>, <<1>>, <<2, 0, 0, 1>>}, d \in 0..3, a \in {<<>>, <<1>>}}
    \cup {<<Column(<<1>>, 1, <<>>), Column(n, 2, a)>> : n \in {<<>>, <<2, 1>>}, a \in {<<>>, <<0, 3>>}}
    \cup {<<Column(<<2>>, 1, <<1>>), Column(<<1>>, 2, <<>>), Column(<<3, 3>>, 1, <<2>>)>>}
SchemaJobs == UNION {{[cols |-> c, bytes |-> b] : b \in Harmed(SchemaBytes(c))} : c \in Schemas}

Entry(k) == [block_offset |-> 60 + k, block_total |-> 1000 * k]
Stat(k)  == [has_stats |-> k % 2, min |-> Fill(ValueSize, k % 3), max |-> Fill(ValueSize, 3),
             null_count |-> 300 * k]
Group(k, n, stats) ==
    [offset |-> 64 * k, n_rows |-> 7, cols |-> [c \in 1..n |-> Entry(k + c)],
     stats |-> IF stats THEN [c \in 1..n |-> Stat(k + c)] ELSE <<>>]
Indexes == {<<>>} \cup {<<Group(1, n, s)>> : n \in 1..2, s \in BOOLEAN}
           \cup {<<Group(0, 1, s), Group(2, 1, ~ s)>> : s \in BOOLEAN}
IndexJobs == UNION {{[groups |-> i, flag |-> f, bytes |-> b] : f \in BOOLEAN, b \in Harmed(IndexBytes(i))} :
                        i \in Indexes}

StatsJobs ==
    {[dtype |-> d, src |-> Curve(d, a, 3, 5, n)] : d \in Numerics, a \in {0, 1}, n \in {0, 1, 6}}
    \cup {[dtype |-> [size |-> 0, kind |-> "string"],
           src |-> [i \in 1..Len(t) |-> SubSeq(<<1, 2, 0, 1, 3, 0>>, t[i][1], t[i][2])]] :
              t \in {<<>>} \cup {<<x, y, z>> : x \in {<<1, 3>>, <<1, 0>>}, y \in {<<1, 4>>, <<2, 4>>},
                                            z \in {<<1, 2>>, <<5, 6>>, <<2, 2>>}}}

ReserveJobs == {[capacity |-> c, need |-> n] : c \in {0, 1, 3, 22, 40}, n \in 0..2^SizeBits - 1}

MCJobs ==
    [schema |-> SchemaJobs, index |-> IndexJobs, stats |-> StatsJobs, reserve |-> ReserveJobs,
     raw |-> RawJobs, delta |-> DeltaJobs, delta2 |-> Delta2Jobs, dict |-> DictJobs,
     dict_numeric |-> NumericJobs, sparse_zero |-> SparseJobs, fpc |-> FpcJobs,
     pred2d |-> Pred2dJobs, paeth |-> PaethJobs, plane2d |-> PlaneJobs,
     stack2d |-> Stack2dJobs, pred3d |-> Pred3dJobs,
     quantize |-> QuantizeJobs, quantize_pred2d |-> Qp2Jobs,
     zigzag |-> ZigzagJobs, complement |-> ComplementJobs,
     byte_shuffle |-> ShuffleJobs, bit_shuffle |-> BitShuffleJobs,
     runs |-> RunsJobs, huffman |-> HuffmanJobs, huffman4 |-> Huffman4Jobs,
     fse |-> FseJobs, lane |-> LaneJobs, lz |-> LzJobs,
     lz_opt |-> OptJobs, lz_split |-> OptJobs, lz_streams |-> StreamsJobs]

MCPlaneJobs == [plane2d |-> PlaneJobs]
=============================================================================
