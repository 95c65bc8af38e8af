------------------------------- MODULE Codecs -------------------------------
(***************************************************************************)
(* The codecs behind the block drivers (models, transforms and entropy     *)
(* coders) and those of a container's other sections.  A run encodes one   *)
(* block with one codec in one build of the library and decodes the result *)
(* in any build: the kernels a build selects are not written down anywhere *)
(* in the block, so that all of them have to read what each of them        *)
(* writes.                                                                 *)
(*                                                                         *)
(* Jobs maps a codec's name to the blocks, parameters included, it is      *)
(* tried on.                                                               *)
(***************************************************************************)
EXTENDS Delta, Dictionary, Fpc, Raw, Stack2d, Pred3d, Plane2d, Shuffles,
        Fse, LzStreams, Formats

CONSTANT Jobs

\* What the callers of the drivers and the drivers themselves have seen to
\* before a codec is handed a block: elements are words of their type, a
\* shape is that of its layout, strings and values have a hash, and the
\* registers' indices cover the bytes.
Admitted(codec, block) ==
    /\ codec = "raw" =>
            /\ block.dims \in Seq(Int) /\ Len(block.dims) = ExpectedRank(block.layout)
            /\ block.src \in Seq(Nat) /\ NElems(block.dims) <= Len(block.src)
    /\ codec = "dict" =>
            /\ block.src.offsets \in Seq(Nat) /\ block.src.offsets # <<>>
            /\ block.n = Len(block.src.offsets) - 1
            /\ \A i \in 1..block.n : Row(block.src, i) \in DOMAIN Fnv \cap Seq(Nat)
    /\ codec = "delta" =>
            /\ block.dtype.size \in {1, 2, 4, 8}
            /\ block.src \in Seq(WordsOf(Bits(block.dtype.size)))
    /\ codec \in {"delta2", "fpc"} =>
            /\ block.dtype.size \in Nat \ {0}
            /\ block.src \in Seq(WordsOf(Bits(block.dtype.size)))
    /\ codec = "dict_numeric" => block.src \in Seq(DOMAIN Fnv)
    /\ codec = "sparse_zero" => block.src \in Seq(Nat)
    /\ codec = "zigzag" =>
            /\ block.dtype.kind = "signed" /\ block.dtype.size \in ZigzagSizes
            /\ block.src \in Seq(WordsOf(Bits(block.dtype.size)))
    /\ codec = "complement" =>
            block.dtype.kind # "string" /\ block.src \in Seq(ByteValues)
    /\ codec = "byte_shuffle" =>
            /\ block.size \in {1, 2, 4, 8} /\ block.src \in Seq(Nat)
            /\ Len(block.src) % block.size = 0 /\ Len(block.src) <= 2^IndexBits
    /\ codec = "bit_shuffle" =>
            /\ block.size \in Nat \ {0} /\ block.src \in Seq(ByteValues)
            /\ Len(block.src) % block.size = 0
    /\ codec = "fse" => block.src \in Seq(Nat)
    /\ codec = "reserve" => {block.capacity, block.need} \subseteq 0..2^SizeBits - 1

ASSUME JobsAssumption ==
    \A codec \in DOMAIN Jobs : \A block \in Jobs[codec] : Admitted(codec, block)

VARIABLES
    stage,      \* idle, taken, coded, done; refused by the encoder
    job,        \* [codec, in]
    coded,      \* what the encoder returned
    decoded     \* what the decoder made of it

vars == <<stage, job, coded, decoded>>

Nothing == [status |-> "none"]

Init ==
    /\ stage = "idle"
    /\ job = Nothing
    /\ coded = Nothing
    /\ decoded = Nothing

Take ==
    /\ stage = "idle"
    /\ \E codec \in DOMAIN Jobs : \E block \in Jobs[codec] :
            job' = [codec |-> codec, in |-> block]
    /\ stage' = "taken"
    /\ UNCHANGED <<coded, decoded>>

\* Mutant: the result is taken whatever the status says.
EncodingUnchecked(codec, result) ==
    /\ stage = "taken"
    /\ job.codec = codec
    /\ coded' = result
    /\ stage' = "coded"
    /\ UNCHANGED <<job, decoded>>
\* The encoder of a codec, and the decoder on what it returned.
Encoding(codec, result) ==
    /\ stage = "taken"
    /\ job.codec = codec
    /\ coded' = result
    /\ stage' = IF coded'.status = "ok" THEN "coded" ELSE "refused"
    /\ UNCHANGED <<job, decoded>>

Decoding(codec, result) ==
    /\ stage = "coded"
    /\ job.codec = codec
    /\ decoded' = result
    /\ stage' = "done"
    /\ UNCHANGED <<job, coded>>

in == job.in

----------------------------------------------------------------------------
(* Models of vectors.                                                      *)

EncodeRaw == Encoding("raw", RawEncode(in))
DecodeRaw == Decoding("raw", RawDecode(in, coded.data))

EncodeDelta ==
    \E build \in Builds : Encoding("delta", Ok(DeltaEncode(build, in.dtype, in.src)))
DecodeDelta ==
    \E build \in Builds : Decoding("delta", Ok(DeltaDecode(build, in.dtype, coded.data)))

EncodeDelta2 == Encoding("delta2", Ok(Delta2Encode(Bits(in.dtype.size), in.src)))
DecodeDelta2 == Decoding("delta2", Ok(Delta2Decode(Bits(in.dtype.size), coded.data)))

EncodeDict == Encoding("dict", DictEncode(in.src))
\* Between the two the driver packs the side metadata and unpacks it.
DecodeDict ==
    LET packed == SidePack(coded.side)
        side   == IF packed.status = "ok" THEN SideUnpack(packed.count, packed.bytes) ELSE packed
    IN  Decoding("dict", IF side.status = "ok" THEN DictDecode(in.n, coded.residual, side) ELSE side)

EncodeNumeric == Encoding("dict_numeric", NumericEncode(in.dtype, in.src))
DecodeNumeric ==
    Decoding("dict_numeric", NumericDecode(in.dtype, Len(in.src), coded.residual, coded.side))

EncodeSparse == Encoding("sparse_zero", SparseEncode(in.dtype, in.src))
DecodeSparse ==
    Decoding("sparse_zero", SparseDecode(in.dtype, Len(in.src), coded.residual, coded.side))

EncodeFpc == Encoding("fpc", FpcEncode(in.dtype, in.src))
DecodeFpc == Decoding("fpc", FpcDecode(in.dtype, Len(in.src), coded.residual, coded.side))

Vectors == \/ EncodeRaw \/ DecodeRaw \/ EncodeDelta \/ DecodeDelta
           \/ EncodeDelta2 \/ DecodeDelta2 \/ EncodeDict \/ DecodeDict
           \/ EncodeNumeric \/ DecodeNumeric \/ EncodeSparse \/ DecodeSparse
           \/ EncodeFpc \/ DecodeFpc

----------------------------------------------------------------------------
(* Models of rasters and volumes.                                          *)

EncodePred2d ==
    \E build \in Builds :
        Encoding("pred2d", Pred2dEncode(build, in.dtype, in.kind, in.nx, in.ny, in.src))
DecodePred2d ==
    \E build \in Builds :
        Decoding("pred2d", Pred2dDecode(build, in.dtype, in.nx, in.ny, coded.side, coded.data))

\* The wavefront kernels the library exports beside the one it selects.
EncodePaeth == Encoding("paeth", Pred2dEncode("scalar", U16, "paeth", in.nx, in.ny, in.src))
DecodePaeth ==
    /\ stage = "coded"
    /\ job.codec = "paeth"
    /\ \/ Decoding("paeth", Ok(DecodeWave2(in.nx, in.ny, coded.data)))
       \/ /\ in.nx >= 4
          /\ \E build \in Builds :
                Decoding("paeth", Ok(DecodeWave4(build, in.nx, in.ny, coded.data)))
       \/ /\ in.nx >= 8
          /\ Decoding("paeth", Ok(DecodeWave8(in.nx, in.ny, coded.data)))

\* The planes of a fit in floating point may be any: the block names them, or
\* leaves it at those an exact fit would give.
Planes ==
    IF in.coeffs # <<>> THEN in.coeffs
    ELSE FitAll(in.dtype, in.nx, in.ny, IF in.tile = 0 THEN DefaultTile ELSE in.tile, in.src)

EncodePlane2d ==
    Encoding("plane2d", Plane2dEncode(in.dtype, in.tile, in.nx, in.ny, Planes, in.src))
\* The driver hands zeros to the decoder where the residual was not kept.
DecodePlane2d ==
    \E build \in {"scalar", "avx2"} :
        LET kept == IF coded.side.nores THEN Fill(in.nx * in.ny, 0) ELSE coded.data
        IN  Decoding("plane2d",
                     [build |-> build,
                      out   |-> Plane2dDecode(build, in.dtype, in.nx, in.ny, coded.side, kept)])

EncodeStack2d ==
    \E build \in Builds :
        Encoding("stack2d", Stack2dEncode(build, in.dtype, [kind |-> in.kind, inter |-> in.inter],
                                          in.nz, in.ny, in.nx, in.src))
DecodeStack2d ==
    \E build \in Builds :
        Decoding("stack2d", Stack2dDecode(build, in.dtype, in.nz, in.ny, in.nx,
                                          coded.side, coded.data))

EncodePred3d ==
    \E build \in Builds :
        Encoding("pred3d", Pred3dEncode(build, in.dtype, in.kind, in.box, in.src))
DecodePred3d ==
    \E build \in Builds :
        Decoding("pred3d", Pred3dDecode(build, in.dtype, in.box, coded.side, coded.data))

Rasters == \/ EncodePred2d \/ DecodePred2d \/ EncodePaeth \/ DecodePaeth
           \/ EncodePlane2d \/ DecodePlane2d \/ EncodeStack2d \/ DecodeStack2d
           \/ EncodePred3d \/ DecodePred3d

----------------------------------------------------------------------------
(* Numbers rounded to integers, on their own and as a raster.              *)

EncodeQuantize == Encoding("quantize", QuantizeEncode(in.dtype, in.p, in.src))
DecodeQuantize == Decoding("quantize", QuantizeDecode(in.dtype, in.p, coded.data))

EncodeQp2 ==
    \E build \in Builds :
        Encoding("quantize_pred2d", Qp2Encode(build, in.dtype, in.p, in.nx, in.ny, in.src))
DecodeQp2 ==
    \E build \in Builds :
        Decoding("quantize_pred2d",
                 Qp2Decode(build, in.dtype, in.nx, in.ny, coded.side, coded.data))

Quantisers == EncodeQuantize \/ DecodeQuantize \/ EncodeQp2 \/ DecodeQp2

----------------------------------------------------------------------------
(* Transforms that lose nothing.                                           *)

EncodeZigzag == Encoding("zigzag", ZigzagEncode(in.dtype, in.src))
DecodeZigzag == Decoding("zigzag", Ok(ZigzagDecode(in.dtype, coded.data).data))

EncodeComplement == Encoding("complement", ComplementBytes(in.dtype, in.src))
DecodeComplement == Decoding("complement", ComplementBytes(in.dtype, coded.data))

EncodeShuffle == Encoding("byte_shuffle", Ok(ByteShuffle(in.size, in.src)))
DecodeShuffle ==
    \E build \in Builds :
        Decoding("byte_shuffle", Ok(ByteUnshuffle(build, in.size, coded.data)))

EncodeBitShuffle ==
    \E build \in Builds : Encoding("bit_shuffle", Ok(BitShuffle(build, in.size, in.src)))
DecodeBitShuffle ==
    \E build \in Builds :
        Decoding("bit_shuffle", BitUnshuffle(build, in.size, Len(in.src), coded.data))

Transforming == \/ EncodeZigzag \/ DecodeZigzag \/ EncodeComplement \/ DecodeComplement
                \/ EncodeShuffle \/ DecodeShuffle \/ EncodeBitShuffle \/ DecodeBitShuffle

----------------------------------------------------------------------------
(* Entropy coders, and the runs of symbols/runs.c.                         *)

EncodeRuns == Encoding("runs", Ok(RleEncode(in.src, RleEncodedSize(in.src))))
DecodeRuns == Decoding("runs", Ok(RleDecode(coded.data, Len(in.src)).out))

EncodeHuffman == Encoding("huffman", [status |-> "ok", out |-> HuffmanEncode(in.src)])
DecodeHuffman == Decoding("huffman", HuffmanDecode(coded.out, Len(in.src)))

EncodeHuffman4 == Encoding("huffman4", [status |-> "ok", out |-> Huffman4Encode(in.src)])
DecodeHuffman4 == Decoding("huffman4", Huffman4Decode(coded.out, Len(in.src)))

EncodeFse == Encoding("fse", FseEncode(in.src))
DecodeFse == Decoding("fse", FseDecode(coded, Len(in.src)))

EncodeLane == Encoding("lane", LaneEncode(in.asked, in.measured, in.shrinks, in.src))
DecodeLane == Decoding("lane", LaneDecode(coded, Len(in.src)))

EncodeLz == Encoding("lz", LzEncode(in.level, in.src))
DecodeLz ==
    \E build \in {"sse2", "avx2"} :
        Decoding("lz", LzDecode(build, coded, Len(in.src)))

EncodeLzOpt == Encoding("lz_opt", LzOptEncode(in.parse, in.src))
DecodeLzOpt ==
    \E build \in {"sse2", "avx2"} :
        Decoding("lz_opt", LzDecode(build, coded, Len(in.src)))

EncodeSplit == Encoding("lz_split", SplitEncode(in.parse, in.pays, in.src))
DecodeSplit == Decoding("lz_split", [out |-> SplitDecode(coded, Len(in.src))])

EncodeStreams ==
    Encoding("lz_streams",
             StreamsEncode(in.level, in.min, in.parse, in.pays, in.split, in.src))
DecodeStreams ==
    \E build \in {"sse2", "avx2"} :
        Decoding("lz_streams", StreamsDecode(build, coded, Len(in.src)))

Coders == \/ EncodeRuns \/ DecodeRuns \/ EncodeHuffman \/ DecodeHuffman
          \/ EncodeHuffman4 \/ DecodeHuffman4 \/ EncodeFse \/ DecodeFse
          \/ EncodeLane \/ DecodeLane \/ EncodeLz \/ DecodeLz
          \/ EncodeLzOpt \/ DecodeLzOpt \/ EncodeSplit \/ DecodeSplit
          \/ EncodeStreams \/ DecodeStreams

----------------------------------------------------------------------------
(* The other sections of a container.  in.bytes is what is found where     *)
(* the section was written, harmed or not.                                 *)

EncodeSchema == Encoding("schema", Ok(SchemaBytes(in.cols)))
DecodeSchema ==
    Decoding("schema", [strict |-> SchemaParse(in.bytes), own |-> DecoderSchema(in.bytes)])

EncodeIndex == Encoding("index", Ok(IndexBytes(in.groups)))
DecodeIndex == Decoding("index", IndexParse(in.bytes, in.flag))

EncodeStats == Encoding("stats", Ok(StatsCompute(in.dtype, in.src)))
DecodeStats ==
    LET read(v) == IF in.dtype.kind = "string" THEN v ELSE LoadValue(in.dtype.size, v)
    IN  Decoding("stats", [min |-> read(coded.data.min), max |-> read(coded.data.max)])

\* A buffer grows, and is used again.
EncodeReserve == Encoding("reserve", Reserve(in.capacity, in.need))
DecodeReserve == Decoding("reserve", Reserve(coded.data, in.need))

Sections == \/ EncodeSchema \/ DecodeSchema \/ EncodeIndex \/ DecodeIndex
            \/ EncodeStats \/ DecodeStats \/ EncodeReserve \/ DecodeReserve

Next == Take \/ Vectors \/ Rasters \/ Quantisers \/ Transforming \/ Coders \/ Sections

Spec == Init /\ [][Next]_vars
----------------------------------------------------------------------------
(* Properties.                                                             *)

TypeOK ==
    /\ stage \in {"idle", "taken", "coded", "refused", "done"}
    /\ stage # "idle" => job.codec \in DOMAIN Jobs
    /\ stage \in {"coded", "done"} <=> coded # Nothing /\ coded.status = "ok"
    /\ stage # "done" <=> decoded = Nothing

Done(codec)    == stage = "done" /\ job.codec = codec
Refused(codec) == stage = "refused" /\ job.codec = codec

\* The decoder returned the block the encoder was given.
ComesBack(codecs) ==
    /\ \A codec \in codecs : Done(codec) => decoded = Ok(in.src)
    /\ \A codec \in codecs : ~ Refused(codec)

\* A vector comes back from every model, whichever build wrote it and
\* whichever reads it: the running sums in registers carry from one register
\* to the next, the tails behind them go on where they stopped, and the
\* predictors of both directions learn the same.
VectorsComeBack ==
    /\ ComesBack({"delta", "delta2"})
    /\ \A codec \in {"dict_numeric", "sparse_zero", "fpc"} :
            Done(codec) => decoded.status = "ok" /\ decoded.rows = in.src
    /\ Done("dict") => /\ decoded.status = "ok"
                       /\ RowsOf(decoded.block) = RowsOf(in.src)

\* A dictionary holds no value twice, however often its table was doubled
\* while it was built.
ValuesEnterOnce ==
    /\ Done("dict") =>
            LET side == coded.side
            IN  IsInjective([d \in 1..side.count |-> Row(side, d)])
    /\ Done("dict_numeric") => IsInjective(coded.side.values)

\* The products of the first dimensions, however large.
Products(dims) ==
    LET product[n \in 0..Len(dims)] == IF n = 0 THEN 1 ELSE product[n - 1] * dims[n]
    IN  product

\* The model without a prediction never takes the wrapped product of a shape
\* for the number of its elements, and refuses no shape but for an overflow
\* on the way or a negative dimension.  A buffer that grew covers the need,
\* and its growth ends unless the need is above half of what a size holds.
SizesNeverWrap ==
    LET product  == Products(in.dims)
        negative == \E i \in DOMAIN in.dims : in.dims[i] < 0
    IN  /\ Done("raw") => /\ ~ negative /\ product[Len(in.dims)] <= DimMax
                          /\ decoded = Ok(SubSeq(in.src, 1, product[Len(in.dims)]))
        /\ Refused("raw") => negative \/ \E n \in DOMAIN in.dims : product[n] > DimMax
        /\ Done("reserve") => coded.data >= in.need /\ decoded = coded
        /\ Refused("reserve") => in.need > 2^(SizeBits - 1)

\* Rasters come back: the wavefronts, the rows in registers and the plain
\* loops all read what any of them wrote.
RastersComeBack == ComesBack({"pred2d", "paeth"})

\* A slice that was written less the slice before it is read with that slice
\* restored, and what the octants of a volume are predicted from is there
\* when it is needed.
VolumesComeBack == ComesBack({"stack2d", "pred3d"})

\* A 32-bit sum may not grow into the half unit that rounding adds to it.
Roomy ==
    LET tile == coded.side.tile
        t    == Tiling(in.nx, in.ny, tile)
        half == 2^(FractionBits - 1)
    IN  \A k \in 1..t.n :
            MaxAcc(Planes[k], TileBox(in.nx, in.ny, tile, t, k - 1)) \notin I32Max - half + 1..I32Max

\* What the AVX2 rows of a tile without a residual store saturated.
Saturates(dtype, v) ==
    /\ v >= 2^(Bits(dtype.size) - 1)
    /\ \/ dtype.size = 2 /\ dtype.kind = "unsigned"
       \/ dtype.size = 1 /\ dtype.kind = "signed"

\* Tiles of fitted planes come back, through the 32-bit sums, the 64-bit ones
\* and the predictions the side metadata is written against.  Left out are
\* the two kinds of block for which they do not.
PlanesComeBack ==
    /\ ~ Refused("plane2d")
    /\ Done("plane2d") =>
            \/ ~ Roomy
            \/ /\ decoded.build = "avx2" /\ coded.side.nores
               /\ \E i \in DOMAIN in.src : Saturates(in.dtype, in.src[i])
            \/ decoded.out = Ok(in.src)

\* What plane2d.c says of itself: a bit-exact round trip at the width of the
\* input, in every build, as far as the sums have room.
PlanesAreBitExact == Done("plane2d") => ~ Roomy \/ decoded.out = Ok(in.src)

\* What a quantised number becomes is the number nearest to it among those
\* the target has room for: rounding goes to the nearer side, and what does
\* not fit stops at the end it left on.
NearestOfAll(p, v, d) ==
    \A k \in TargetMin(p.target)..TargetMax(p.target) :
        Abs(d.num - v * d.den) <= Abs(k * p.den + p.offset * p.num - v * p.num)
QuantisedIsNearest ==
    \A codec \in {"quantize", "quantize_pred2d"} :
        Done(codec) =>
            /\ decoded.status = "ok"
            /\ \A i \in DOMAIN in.src :
                    in.src[i].kind = "finite" => NearestOfAll(in.p, in.src[i].int, decoded.data[i])

\* Transforms give back every byte, the last elements that do not fill a
\* register included.
TransformsComeBack ==
    ComesBack({"zigzag", "complement", "byte_shuffle", "bit_shuffle"})

\* Every symbol comes back from the Huffman coders, FSE, the lanes and the
\* run-length coder, which refuse no block.
SymbolsComeBack == ComesBack({"runs", "huffman", "huffman4", "fse", "lane"})

\* The codes a header names fit the decoder's tables and fill the code space
\* exactly, except that a lone symbol has a code of one bit.
CodesFit ==
    \A codec \in {"huffman", "huffman4"} :
        Done(codec) =>
            LET lens == coded.out.lens
                used == {k \in DOMAIN lens : lens[k] > 0}
            IN  /\ \A k \in used : lens[k] <= MaxLen
                /\ Cardinality(used) > 1 =>
                        MapThenSumSet(LAMBDA k : 2^(MaxLen - lens[k]), used) = 2^MaxLen

\* Every byte comes back from the LZ coders, whatever parse was taken, from
\* overlapping copies of short patterns and from the loop near the end alike.
MatchesComeBack ==
    \A codec \in {"lz", "lz_opt", "lz_split"} :
        ~ Refused(codec) /\ (Done(codec) => decoded.out = Ok(in.src))

\* With its streams apart every block comes back whose runs of literals and
\* matches have symbols the decoder knows; where one has not, the block was
\* written and is refused, never read as another.
StreamsComeBack ==
    LET known(syms) == \A k \in DOMAIN syms : syms[k] <= MaxSymbol
    IN  Done("lz_streams") =>
            decoded.out = IF known(coded.ll) /\ known(coded.ml) THEN Ok(in.src)
                          ELSE Fails("corrupt")

\* The copies that overshoot a run of literals or a match stay inside the
\* block.
StoresStayInside ==
    \A codec \in {"lz", "lz_opt", "lz_streams"} : Done(codec) => decoded.top <= Len(in.src)

\* The two parsers of a schema.  The decoder's own reads back what was
\* written, whatever it is; the one an extending pass uses accepts only the
\* bytes a schema is written as, and then they agree; and where it alone
\* refuses, a column has no name or no known type, or bytes were left over.
SchemasAgree ==
    Done("schema") =>
        LET strict == decoded.strict
            own    == decoded.own
        IN  /\ Len(coded.data) = SchemaSize(in.cols)
            /\ in.bytes = coded.data => own = Ok(in.cols)
            /\ strict.status = "ok" =>
                    /\ own = strict
                    /\ strict.data = <<>> \/ SchemaBytes(strict.data) = in.bytes
            /\ own.status = "ok" /\ strict.status # "ok" =>
                    \/ Len(in.bytes) > SchemaSize(own.data)
                    \/ \E i \in DOMAIN own.data : ~ Named(own.data[i])

\* An index is read back as it was written, unless it carries statistics the
\* header does not announce; and one that was harmed is refused or says no
\* more and no less than its bytes.
IndexesSayWhatTheyHold ==
    Done("index") =>
        /\ in.bytes = coded.data =>
                decoded = IF in.flag \/ \A g \in DOMAIN in.groups : in.groups[g].stats = <<>>
                          THEN Ok(in.groups) ELSE Fails("corrupt")
        /\ decoded.status = "ok" =>
                /\ IsPrefix(IndexBytes(decoded.data), in.bytes)
                /\ in.flag \/ \A g \in DOMAIN decoded.data : decoded.data[g].stats = <<>>

\* The statistics of a column bound every value in it in the order of its
\* type, and are values of the block; those of strings bound what they keep
\* of a string.
Numeric(dtype, e) ==
    LET top == 2^(Bits(dtype.size) - 1)
    IN  CASE dtype.kind = "signed" -> ToSigned(Bits(dtype.size), e)
          [] dtype.kind = "unsigned" -> e
          [] dtype.kind = "float" -> IF e >= top THEN top - e ELSE e
StatsBoundTheBlock ==
    Done("stats") /\ in.src # <<>> =>
        IF in.dtype.kind = "string"
        THEN \A i \in DOMAIN in.src : /\ ~ Precedes(Prefix(in.src[i]), decoded.min)
                                      /\ ~ Precedes(decoded.max, Prefix(in.src[i]))
        ELSE /\ {decoded.min, decoded.max} \subseteq ToSet(in.src)
             /\ \A i \in DOMAIN in.src :
                    Numeric(in.dtype, in.src[i]) \in
                        Numeric(in.dtype, decoded.min)..Numeric(in.dtype, decoded.max)
=============================================================================
