--------------------------- MODULE CodecsProofs ---------------------------
(***************************************************************************)
(* What is proved of Codecs: that a decoder gives back what was encoded,   *)
(* in any build, and what the models keep in their side metadata.  What a  *)
(* codec computes is CodecLemmas' subject; here a run of it goes from one  *)
(* stage to the next.                                                      *)
(***************************************************************************)
EXTENDS Codecs, CodecLemmas, TLAPS

(***************************************************************************)
(* Every decoder answers: whatever it is handed, what it returns is not    *)
(* what stands for no answer.                                              *)
(***************************************************************************)

\* What has a status other than that of Nothing is not Nothing.
LEMMA AnswerIs ==
    ASSUME NEW x, x.status # "none"
    PROVE  x # Nothing
  BY DEF Nothing

\* A record of two fields is not Nothing.
LEMMA PairAnswers ==
    ASSUME NEW a, NEW b
    PROVE  /\ [strict |-> a, own |-> b] # Nothing
           /\ [min |-> a, max |-> b] # Nothing
           /\ [build |-> a, out |-> b] # Nothing
           /\ [out |-> a, top |-> b] # Nothing
           /\ [out |-> a] # Nothing
  <1>1. DOMAIN Nothing = {"status"}
    BY DEF Nothing
  <1>2. "status" \notin DOMAIN [strict |-> a, own |-> b]
    OBVIOUS
  <1>3. "status" \notin DOMAIN [min |-> a, max |-> b]
    OBVIOUS
  <1>4. "status" \notin DOMAIN [build |-> a, out |-> b]
    OBVIOUS
  <1>5. "status" \notin DOMAIN [out |-> a, top |-> b]
    OBVIOUS
  <1>6. "status" \notin DOMAIN [out |-> a]
    OBVIOUS
  <1> QED
    BY <1>1, <1>2, <1>3, <1>4, <1>5, <1>6

LEMMA OkIs ==
    ASSUME NEW d
    PROVE  Ok(d).status = "ok" /\ Ok(d).data = d /\ Ok(d) # Nothing
  BY DEF Ok, Nothing

LEMMA FailsIs ==
    ASSUME NEW s, s # "none"
    PROVE  Fails(s).status = s /\ Fails(s) # Nothing
  BY DEF Fails, Nothing

LEMMA RawAnswers ==
    ASSUME NEW block, NEW res
    PROVE  RawDecode(block, res) # Nothing
  BY OkIs, FailsIs DEF RawDecode

LEMMA DictAnswers ==
    ASSUME NEW n, NEW residual, NEW side
    PROVE  DictDecode(n, residual, side) # Nothing
  BY AnswerIs DEF DictDecode

LEMMA SideAnswers ==
    ASSUME NEW side, NEW count, NEW bytes
    PROVE  SidePack(side) # Nothing /\ SideUnpack(count, bytes) # Nothing
  <1>1. SidePack(side) # Nothing
    BY AnswerIs DEF SidePack
  <1> DEFINE
        lengths[d \in 0..count] ==
            IF d = 0 THEN [ok |-> TRUE, at |-> 0, offsets |-> <<0>>]
            ELSE LET st  == lengths[d - 1]
                     len == VarintDecode(SubSeq(bytes, st.at + 1, Len(bytes)))
                     end == Last(st.offsets) + len.value
                 IN  IF ~st.ok \/ len.used = 0 \/ end > HeapMax THEN [st EXCEPT !.ok = FALSE]
                     ELSE [ok |-> TRUE, at |-> st.at + len.used, offsets |-> Append(st.offsets, end)]
        read == lengths[count]
        heap == SubSeq(bytes, read.at + 1, Len(bytes))
        full == [status |-> "ok", count |-> count, total |-> Len(heap),
                 offsets |-> read.offsets, heap |-> heap]
        none == [status |-> "corrupt"]
  <1>2. \/ SideUnpack(count, bytes) = none
        \/ SideUnpack(count, bytes) = full
    BY Zenon DEF SideUnpack
  <1>3. full # Nothing /\ none # Nothing
    <2> HIDE DEF lengths
    <2> QED
      BY AnswerIs
  <1> QED
    BY <1>1, <1>2, <1>3

LEMMA NumericAnswers ==
    ASSUME NEW dtype, NEW n, NEW residual, NEW side
    PROVE  NumericDecode(dtype, n, residual, side) # Nothing
  BY AnswerIs DEF NumericDecode

LEMMA SparseAnswers ==
    ASSUME NEW dtype, NEW n, NEW residual, NEW side
    PROVE  SparseDecode(dtype, n, residual, side) # Nothing
  BY AnswerIs DEF SparseDecode

LEMMA FpcAnswers ==
    ASSUME NEW dtype, NEW n, NEW residual, NEW side
    PROVE  FpcDecode(dtype, n, residual, side) # Nothing
  BY AnswerIs DEF FpcDecode

LEMMA Pred2dAnswers ==
    ASSUME NEW build, NEW dtype, NEW nx, NEW ny, NEW side, NEW res
    PROVE  Pred2dDecode(build, dtype, nx, ny, side, res) # Nothing
  BY OkIs, FailsIs DEF Pred2dDecode

LEMMA Stack2dAnswers ==
    ASSUME NEW build, NEW dtype, NEW nz, NEW ny, NEW nx, NEW side, NEW res
    PROVE  Stack2dDecode(build, dtype, nz, ny, nx, side, res) # Nothing
  BY OkIs, FailsIs DEF Stack2dDecode

LEMMA Pred3dAnswers ==
    ASSUME NEW build, NEW dtype, NEW box, NEW side, NEW res
    PROVE  Pred3dDecode(build, dtype, box, side, res) # Nothing
  BY OkIs, FailsIs DEF Pred3dDecode

LEMMA Qp2Answers ==
    ASSUME NEW build, NEW dtype, NEW nx, NEW ny, NEW side, NEW res
    PROVE  Qp2Decode(build, dtype, nx, ny, side, res) # Nothing
  BY OkIs, FailsIs DEF Qp2Decode

LEMMA QuantizeAnswers ==
    ASSUME NEW dtype, NEW p, NEW src
    PROVE  QuantizeDecode(dtype, p, src) # Nothing
  BY AnswerIs, FailsIs DEF QuantizeDecode

LEMMA TransformAnswers ==
    ASSUME NEW dtype, NEW src, NEW build, NEW size, NEW total
    PROVE  /\ ComplementBytes(dtype, src) # Nothing
           /\ BitUnshuffle(build, size, total, src) # Nothing
  <1>1. ComplementBytes(dtype, src) # Nothing
    BY OkIs, FailsIs DEF ComplementBytes
  <1>2. BitUnshuffle(build, size, total, src) # Nothing
    BY OkIs, FailsIs DEF BitUnshuffle
  <1> QED
    BY <1>1, <1>2

LEMMA HuffmanAnswers ==
    ASSUME NEW e, NEW n
    PROVE  HuffmanDecode(e, n) # Nothing
  <1>1. ASSUME NEW ends PROVE Joined(ends) # Nothing
    BY OkIs, FailsIs DEF Joined
  <1>2. ASSUME NEW lens, NEW paid PROVE OneStream(lens, paid, n) # Nothing
    BY <1>1, FailsIs DEF OneStream
  <1> QED
    BY <1>2, OkIs, FailsIs DEF HuffmanDecode

LEMMA Huffman4Answers ==
    ASSUME NEW e, NEW n
    PROVE  Huffman4Decode(e, n) # Nothing
  <1>1. ASSUME NEW ends PROVE Joined(ends) # Nothing
    BY OkIs, FailsIs DEF Joined
  <1> QED
    BY <1>1, HuffmanAnswers, FailsIs DEF Huffman4Decode

LEMMA FseAnswers ==
    ASSUME NEW e, NEW n \in Nat
    PROVE  FseDecode(e, n) # Nothing
  <1>1. n = 0 \/ n > 0
    OBVIOUS
  <1> QED
    BY <1>1, OkIs, FailsIs DEF FseDecode

LEMMA LaneAnswers ==
    ASSUME NEW e, NEW n
    PROVE  LaneDecode(e, n) # Nothing
  BY OkIs, FailsIs DEF LaneDecode

LEMMA LzAnswers ==
    ASSUME NEW build, NEW e, NEW n
    PROVE  LzDecode(build, e, n) # Nothing
  BY PairAnswers DEF LzDecode, LzResult

LEMMA StreamsAnswers ==
    ASSUME NEW build, NEW e, NEW n
    PROVE  StreamsDecode(build, e, n) # Nothing
  <1>1. ASSUME NEW top PROVE StreamCorrupt(top) # Nothing
    BY PairAnswers DEF StreamCorrupt
  <1>2. ASSUME NEW lits, NEW end PROVE StreamEnd(e, lits, n, end) # Nothing
    BY <1>1, PairAnswers DEF StreamEnd
  <1>3. ASSUME NEW lits PROVE FusedLoop(build, e, lits, n) # Nothing
    BY <1>1, <1>2 DEF FusedLoop
  <1> QED
    BY <1>1, <1>3 DEF StreamsDecode

LEMMA SectionAnswers ==
    ASSUME NEW buf, NEW flag, NEW capacity, NEW need
    PROVE  /\ IndexParse(buf, flag) # Nothing
           /\ Reserve(capacity, need) # Nothing
  <1>1. IndexParse(buf, flag) # Nothing
    BY OkIs, FailsIs DEF IndexParse
  <1>2. Reserve(capacity, need) # Nothing
    BY OkIs, FailsIs DEF Reserve
  <1> QED
    BY <1>1, <1>2

----------------------------------------------------------------------------
(* A block is taken from the jobs and stays; what is coded is what the     *)
(* encoder of its codec returned, and what is decoded what the decoder     *)
(* made of that.                                                           *)

JobTaken ==
    stage # "idle" =>
        job.codec \in DOMAIN Jobs /\ in \in Jobs[job.codec] /\ Admitted(job.codec, in)

\* What the driver and the dictionary's decoder make of what was coded.
DictRead(block, from) ==
    LET packed == SidePack(from.side)
        side   == IF packed.status = "ok" THEN SideUnpack(packed.count, packed.bytes)
                  ELSE packed
    IN  IF side.status = "ok" THEN DictDecode(block.n, from.residual, side) ELSE side

\* Whether result may be what the encoder of a codec returned of a block,
\* and whether it may be what the decoder made of what was coded.
Encodes(codec, block, result) ==
    /\ codec = "raw" => result = RawEncode(block)
    /\ codec = "delta" =>
            \E build \in Builds : result = Ok(DeltaEncode(build, block.dtype, block.src))
    /\ codec = "delta2" => result = Ok(Delta2Encode(Bits(block.dtype.size), block.src))
    /\ codec = "sparse_zero" => result = SparseEncode(block.dtype, block.src)
    /\ codec = "fpc" => result = FpcEncode(block.dtype, block.src)
    /\ codec = "dict" => result = DictEncode(block.src)
    /\ codec = "dict_numeric" => result = NumericEncode(block.dtype, block.src)
    /\ codec = "zigzag" => result = ZigzagEncode(block.dtype, block.src)
    /\ codec = "complement" => result = ComplementBytes(block.dtype, block.src)
    /\ codec = "byte_shuffle" => result = Ok(ByteShuffle(block.size, block.src))
    /\ codec = "bit_shuffle" =>
            \E build \in Builds : result = Ok(BitShuffle(build, block.size, block.src))
    /\ codec = "reserve" => result = Reserve(block.capacity, block.need)

Decodes(codec, block, from, result) ==
    /\ codec = "raw" => result = RawDecode(block, from.data)
    /\ codec = "delta" =>
            \E build \in Builds : result = Ok(DeltaDecode(build, block.dtype, from.data))
    /\ codec = "delta2" => result = Ok(Delta2Decode(Bits(block.dtype.size), from.data))
    /\ codec = "sparse_zero" =>
            result = SparseDecode(block.dtype, Len(block.src), from.residual, from.side)
    /\ codec = "fpc" =>
            result = FpcDecode(block.dtype, Len(block.src), from.residual, from.side)
    /\ codec = "dict" => result = DictRead(block, from)
    /\ codec = "dict_numeric" =>
            result = NumericDecode(block.dtype, Len(block.src), from.residual, from.side)
    /\ codec = "zigzag" => result = Ok(ZigzagDecode(block.dtype, from.data).data)
    /\ codec = "complement" => result = ComplementBytes(block.dtype, from.data)
    /\ codec = "byte_shuffle" =>
            \E build \in Builds : result = Ok(ByteUnshuffle(build, block.size, from.data))
    /\ codec = "bit_shuffle" =>
            \E build \in Builds :
                result = BitUnshuffle(build, block.size, Len(block.src), from.data)
    /\ codec = "reserve" => result = Reserve(from.data, block.need)

Coded ==
    /\ stage \in {"coded", "done", "refused"} => Encodes(job.codec, in, coded)
    /\ stage = "done" => Decodes(job.codec, in, coded, decoded)

Inv == TypeOK /\ JobTaken /\ Coded

\* The three steps there are: a block is taken, encoded, decoded.
LEMMA TakeKeeps ==
    ASSUME Inv, Take
    PROVE  Inv'
  <1>a. PICK codec \in DOMAIN Jobs :
            \E block \in Jobs[codec] : job' = [codec |-> codec, in |-> block]
    BY DEF Take
  <1>1. PICK block \in Jobs[codec] : job' = [codec |-> codec, in |-> block]
    BY <1>a
  <1>2. (job.codec)' = codec /\ in' = block
    BY <1>1 DEF in
  <1>3. Admitted(codec, block)
    BY JobsAssumption
  <1>4. stage = "idle" /\ stage' = "taken" /\ UNCHANGED <<coded, decoded>>
    BY DEF Take
  <1> QED
    BY <1>2, <1>3, <1>4, Zenon DEF Inv, TypeOK, JobTaken, Coded, in

LEMMA EncodingKeeps ==
    ASSUME NEW codec, NEW result,
           Inv, Encoding(codec, result), Encodes(codec, in, result)
    PROVE  Inv'
  <1>1. /\ stage = "taken" /\ job.codec = codec /\ coded' = result
        /\ stage' = (IF coded'.status = "ok" THEN "coded" ELSE "refused")
        /\ UNCHANGED <<job, decoded>>
    BY DEF Encoding
  <1>2. job' = job /\ in' = in /\ decoded' = decoded
    BY <1>1 DEF in
  <1>3. Nothing.status = "none"
    BY DEF Nothing
  <1>4. TypeOK'
    BY <1>1, <1>2, <1>3 DEF Inv, TypeOK
  <1>5. JobTaken'
    BY <1>1, <1>2 DEF Inv, JobTaken
  <1>6. Coded'
    BY <1>1, <1>2 DEF Coded
  <1> QED
    BY <1>4, <1>5, <1>6 DEF Inv

LEMMA DecodingKeeps ==
    ASSUME NEW codec, NEW result, result # Nothing,
           Inv, Decoding(codec, result), Decodes(codec, in, coded, result)
    PROVE  Inv'
  <1>1. /\ stage = "coded" /\ job.codec = codec /\ decoded' = result
        /\ stage' = "done" /\ UNCHANGED <<job, coded>>
    BY DEF Decoding
  <1>2. job' = job /\ in' = in /\ coded' = coded
    BY <1>1 DEF in
  <1>4. TypeOK'
    BY <1>1, <1>2 DEF Inv, TypeOK
  <1>5. JobTaken'
    BY <1>1, <1>2 DEF Inv, JobTaken
  <1>6. Coded'
    BY <1>1, <1>2 DEF Inv, Coded
  <1> QED
    BY <1>4, <1>5, <1>6 DEF Inv

\* What these say of other codecs: nothing.
LEMMA Elsewhere ==
    ASSUME NEW codec, NEW block, NEW from, NEW result,
           codec \notin {"raw", "delta", "delta2", "dict", "dict_numeric", "sparse_zero", "fpc",
                       "zigzag", "complement", "byte_shuffle", "bit_shuffle", "reserve"}
    PROVE  Encodes(codec, block, result) /\ Decodes(codec, block, from, result)
  BY DEF Encodes, Decodes

LEMMA VectorsKeep ==
    ASSUME Inv, Vectors
    PROVE  Inv'
  <1>1. CASE EncodeRaw
    <2>1. Encodes("raw", in, RawEncode(in))
      BY DEF Encodes
    <2> QED
      BY <1>1, <2>1, EncodingKeeps DEF EncodeRaw
  <1>2. CASE DecodeRaw
    <2>1. Decodes("raw", in, coded, RawDecode(in, coded.data))
      BY DEF Decodes
    <2> QED
      BY <1>2, <2>1, RawAnswers, DecodingKeeps DEF DecodeRaw
  <1>3. CASE EncodeDelta
    <2>1. PICK build \in Builds :
              Encoding("delta", Ok(DeltaEncode(build, in.dtype, in.src)))
      BY <1>3 DEF EncodeDelta
    <2>2. Encodes("delta", in, Ok(DeltaEncode(build, in.dtype, in.src)))
      BY DEF Encodes
    <2> QED
      BY <2>1, <2>2, EncodingKeeps
  <1>4. CASE DecodeDelta
    <2>1. PICK build \in Builds :
              Decoding("delta", Ok(DeltaDecode(build, in.dtype, coded.data)))
      BY <1>4 DEF DecodeDelta
    <2>2. Decodes("delta", in, coded, Ok(DeltaDecode(build, in.dtype, coded.data)))
      BY DEF Decodes
    <2> QED
      BY <2>1, <2>2, OkIs, DecodingKeeps
  <1>5. CASE EncodeDelta2
    <2>1. Encodes("delta2", in, Ok(Delta2Encode(Bits(in.dtype.size), in.src)))
      BY DEF Encodes
    <2> QED
      BY <1>5, <2>1, EncodingKeeps DEF EncodeDelta2
  <1>6. CASE DecodeDelta2
    <2>1. Decodes("delta2", in, coded, Ok(Delta2Decode(Bits(in.dtype.size), coded.data)))
      BY DEF Decodes
    <2> QED
      BY <1>6, <2>1, OkIs, DecodingKeeps DEF DecodeDelta2
  <1>7. CASE EncodeDict
    <2>1. Encodes("dict", in, DictEncode(in.src))
      BY DEF Encodes
    <2> QED
      BY <1>7, <2>1, EncodingKeeps DEF EncodeDict
  <1>8. CASE DecodeDict
    <2> DEFINE packed == SidePack(coded.side)
               side == IF packed.status = "ok" THEN SideUnpack(packed.count, packed.bytes)
                       ELSE packed
               read == IF side.status = "ok" THEN DictDecode(in.n, coded.residual, side) ELSE side
    <2>1. Decoding("dict", read)
      BY <1>8, Zenon DEF DecodeDict
    <2>2. side # Nothing
      BY SideAnswers
    <2>3. read # Nothing
      BY <2>2, DictAnswers
    <2>4. DictRead(in, coded) = read
      BY Zenon DEF DictRead
    <2> HIDE DEF read
    <2>5. Decodes("dict", in, coded, read)
      BY <2>4 DEF Decodes
    <2> QED
      BY <2>1, <2>3, <2>5, DecodingKeeps
  <1>9. CASE EncodeNumeric
    <2>1. Encodes("dict_numeric", in, NumericEncode(in.dtype, in.src))
      BY DEF Encodes
    <2> QED
      BY <1>9, <2>1, EncodingKeeps DEF EncodeNumeric
  <1>10. CASE DecodeNumeric
    <2>1. Decodes("dict_numeric", in, coded,
                  NumericDecode(in.dtype, Len(in.src), coded.residual, coded.side))
      BY DEF Decodes
    <2> QED
      BY <1>10, <2>1, NumericAnswers, DecodingKeeps DEF DecodeNumeric
  <1>11. CASE EncodeSparse
    <2>1. Encodes("sparse_zero", in, SparseEncode(in.dtype, in.src))
      BY DEF Encodes
    <2> QED
      BY <1>11, <2>1, EncodingKeeps DEF EncodeSparse
  <1>12. CASE DecodeSparse
    <2>1. Decodes("sparse_zero", in, coded,
                  SparseDecode(in.dtype, Len(in.src), coded.residual, coded.side))
      BY DEF Decodes
    <2> QED
      BY <1>12, <2>1, SparseAnswers, DecodingKeeps DEF DecodeSparse
  <1>13. CASE EncodeFpc
    <2>1. Encodes("fpc", in, FpcEncode(in.dtype, in.src))
      BY DEF Encodes
    <2> QED
      BY <1>13, <2>1, EncodingKeeps DEF EncodeFpc
  <1>14. CASE DecodeFpc
    <2>1. Decodes("fpc", in, coded,
                  FpcDecode(in.dtype, Len(in.src), coded.residual, coded.side))
      BY DEF Decodes
    <2> QED
      BY <1>14, <2>1, FpcAnswers, DecodingKeeps DEF DecodeFpc
  <1> QED
    BY <1>1, <1>2, <1>3, <1>4, <1>5, <1>6, <1>7, <1>8, <1>9, <1>10, <1>11, <1>12, <1>13,
       <1>14, Zenon DEF Vectors

LEMMA RastersKeep ==
    ASSUME Inv, Rasters
    PROVE  Inv'
  <1>1. CASE EncodePred2d
    BY <1>1, Elsewhere, EncodingKeeps DEF EncodePred2d
  <1>2. CASE DecodePred2d
    BY <1>2, Elsewhere, Pred2dAnswers, DecodingKeeps DEF DecodePred2d
  <1>3. CASE EncodePaeth
    BY <1>3, Elsewhere, EncodingKeeps DEF EncodePaeth
  <1>4. CASE DecodePaeth
    BY <1>4, Elsewhere, OkIs, DecodingKeeps DEF DecodePaeth
  <1>5. CASE EncodePlane2d
    BY <1>5, Elsewhere, EncodingKeeps DEF EncodePlane2d
  <1>6. CASE DecodePlane2d
    BY <1>6, Elsewhere, PairAnswers, DecodingKeeps DEF DecodePlane2d
  <1>7. CASE EncodeStack2d
    BY <1>7, Elsewhere, EncodingKeeps DEF EncodeStack2d
  <1>8. CASE DecodeStack2d
    BY <1>8, Elsewhere, Stack2dAnswers, DecodingKeeps DEF DecodeStack2d
  <1>9. CASE EncodePred3d
    BY <1>9, Elsewhere, EncodingKeeps DEF EncodePred3d
  <1>10. CASE DecodePred3d
    BY <1>10, Elsewhere, Pred3dAnswers, DecodingKeeps DEF DecodePred3d
  <1> QED
    BY <1>1, <1>2, <1>3, <1>4, <1>5, <1>6, <1>7, <1>8, <1>9, <1>10, Zenon DEF Rasters

LEMMA QuantisersKeep ==
    ASSUME Inv, Quantisers
    PROVE  Inv'
  <1>1. CASE EncodeQuantize
    BY <1>1, Elsewhere, EncodingKeeps DEF EncodeQuantize
  <1>2. CASE DecodeQuantize
    BY <1>2, Elsewhere, QuantizeAnswers, DecodingKeeps DEF DecodeQuantize
  <1>3. CASE EncodeQp2
    BY <1>3, Elsewhere, EncodingKeeps DEF EncodeQp2
  <1>4. CASE DecodeQp2
    BY <1>4, Elsewhere, Qp2Answers, DecodingKeeps DEF DecodeQp2
  <1> QED
    BY <1>1, <1>2, <1>3, <1>4, Zenon DEF Quantisers

LEMMA TransformingKeeps ==
    ASSUME Inv, Transforming
    PROVE  Inv'
  <1>1. CASE EncodeZigzag
    <2>1. Encodes("zigzag", in, ZigzagEncode(in.dtype, in.src))
      BY DEF Encodes
    <2> QED
      BY <1>1, <2>1, EncodingKeeps DEF EncodeZigzag
  <1>2. CASE DecodeZigzag
    <2>1. Decodes("zigzag", in, coded, Ok(ZigzagDecode(in.dtype, coded.data).data))
      BY DEF Decodes
    <2> QED
      BY <1>2, <2>1, OkIs, DecodingKeeps DEF DecodeZigzag
  <1>3. CASE EncodeComplement
    <2>1. Encodes("complement", in, ComplementBytes(in.dtype, in.src))
      BY DEF Encodes
    <2> QED
      BY <1>3, <2>1, EncodingKeeps DEF EncodeComplement
  <1>4. CASE DecodeComplement
    <2>1. Decodes("complement", in, coded, ComplementBytes(in.dtype, coded.data))
      BY DEF Decodes
    <2> QED
      BY <1>4, <2>1, TransformAnswers, DecodingKeeps DEF DecodeComplement
  <1>5. CASE EncodeShuffle
    <2>1. Encodes("byte_shuffle", in, Ok(ByteShuffle(in.size, in.src)))
      BY DEF Encodes
    <2> QED
      BY <1>5, <2>1, EncodingKeeps DEF EncodeShuffle
  <1>6. CASE DecodeShuffle
    <2>1. PICK build \in Builds :
              Decoding("byte_shuffle", Ok(ByteUnshuffle(build, in.size, coded.data)))
      BY <1>6 DEF DecodeShuffle
    <2>2. Decodes("byte_shuffle", in, coded, Ok(ByteUnshuffle(build, in.size, coded.data)))
      BY DEF Decodes
    <2> QED
      BY <2>1, <2>2, OkIs, DecodingKeeps
  <1>7. CASE EncodeBitShuffle
    <2>1. PICK build \in Builds :
              Encoding("bit_shuffle", Ok(BitShuffle(build, in.size, in.src)))
      BY <1>7 DEF EncodeBitShuffle
    <2>2. Encodes("bit_shuffle", in, Ok(BitShuffle(build, in.size, in.src)))
      BY DEF Encodes
    <2> QED
      BY <2>1, <2>2, EncodingKeeps
  <1>8. CASE DecodeBitShuffle
    <2>1. PICK build \in Builds :
              Decoding("bit_shuffle", BitUnshuffle(build, in.size, Len(in.src), coded.data))
      BY <1>8 DEF DecodeBitShuffle
    <2>2. Decodes("bit_shuffle", in, coded,
                  BitUnshuffle(build, in.size, Len(in.src), coded.data))
      BY DEF Decodes
    <2> QED
      BY <2>1, <2>2, TransformAnswers, DecodingKeeps
  <1> QED
    BY <1>1, <1>2, <1>3, <1>4, <1>5, <1>6, <1>7, <1>8, Zenon DEF Transforming

LEMMA CodersKeep ==
    ASSUME Inv, Coders
    PROVE  Inv'
  <1>1. CASE EncodeRuns
    BY <1>1, Elsewhere, EncodingKeeps DEF EncodeRuns
  <1>2. CASE DecodeRuns
    BY <1>2, Elsewhere, OkIs, DecodingKeeps DEF DecodeRuns
  <1>3. CASE EncodeHuffman
    BY <1>3, Elsewhere, EncodingKeeps DEF EncodeHuffman
  <1>4. CASE DecodeHuffman
    BY <1>4, Elsewhere, HuffmanAnswers, DecodingKeeps DEF DecodeHuffman
  <1>5. CASE EncodeHuffman4
    BY <1>5, Elsewhere, EncodingKeeps DEF EncodeHuffman4
  <1>6. CASE DecodeHuffman4
    BY <1>6, Elsewhere, Huffman4Answers, DecodingKeeps DEF DecodeHuffman4
  <1>7. CASE EncodeFse
    BY <1>7, Elsewhere, EncodingKeeps DEF EncodeFse
  <1>8. CASE DecodeFse
    <2>1. Decoding("fse", FseDecode(coded, Len(in.src)))
      BY <1>8 DEF DecodeFse
    <2>2. stage = "coded" /\ job.codec = "fse"
      BY <2>1 DEF Decoding
    <2>3. in.src \in Seq(Nat)
      BY <2>2 DEF Inv, JobTaken, Admitted
    <2>4. FseDecode(coded, Len(in.src)) # Nothing
      BY <2>3, FseAnswers
    <2> QED
      BY <2>1, <2>4, Elsewhere, DecodingKeeps
  <1>9. CASE EncodeLane
    BY <1>9, Elsewhere, EncodingKeeps DEF EncodeLane
  <1>10. CASE DecodeLane
    BY <1>10, Elsewhere, LaneAnswers, DecodingKeeps DEF DecodeLane
  <1>11. CASE EncodeLz
    BY <1>11, Elsewhere, EncodingKeeps DEF EncodeLz
  <1>12. CASE DecodeLz
    BY <1>12, Elsewhere, LzAnswers, DecodingKeeps DEF DecodeLz
  <1>13. CASE EncodeLzOpt
    BY <1>13, Elsewhere, EncodingKeeps DEF EncodeLzOpt
  <1>14. CASE DecodeLzOpt
    BY <1>14, Elsewhere, LzAnswers, DecodingKeeps DEF DecodeLzOpt
  <1>15. CASE EncodeSplit
    BY <1>15, Elsewhere, EncodingKeeps DEF EncodeSplit
  <1>16. CASE DecodeSplit
    BY <1>16, Elsewhere, PairAnswers, DecodingKeeps DEF DecodeSplit
  <1>17. CASE EncodeStreams
    BY <1>17, Elsewhere, EncodingKeeps DEF EncodeStreams
  <1>18. CASE DecodeStreams
    BY <1>18, Elsewhere, StreamsAnswers, DecodingKeeps DEF DecodeStreams
  <1> QED
    BY <1>1, <1>2, <1>3, <1>4, <1>5, <1>6, <1>7, <1>8, <1>9, <1>10, <1>11, <1>12, <1>13,
       <1>14, <1>15, <1>16, <1>17, <1>18, Zenon DEF Coders

LEMMA SectionsKeep ==
    ASSUME Inv, Sections
    PROVE  Inv'
  <1>1. CASE EncodeSchema
    BY <1>1, Elsewhere, EncodingKeeps DEF EncodeSchema
  <1>2. CASE DecodeSchema
    BY <1>2, Elsewhere, PairAnswers, DecodingKeeps DEF DecodeSchema
  <1>3. CASE EncodeIndex
    BY <1>3, Elsewhere, EncodingKeeps DEF EncodeIndex
  <1>4. CASE DecodeIndex
    BY <1>4, Elsewhere, SectionAnswers, DecodingKeeps DEF DecodeIndex
  <1>5. CASE EncodeStats
    BY <1>5, Elsewhere, EncodingKeeps DEF EncodeStats
  <1>6. CASE DecodeStats
    BY <1>6, Elsewhere, PairAnswers, DecodingKeeps DEF DecodeStats
  <1>7. CASE EncodeReserve
    <2>1. Encodes("reserve", in, Reserve(in.capacity, in.need))
      BY DEF Encodes
    <2> QED
      BY <1>7, <2>1, EncodingKeeps DEF EncodeReserve
  <1>8. CASE DecodeReserve
    <2>1. Decodes("reserve", in, coded, Reserve(coded.data, in.need))
      BY DEF Decodes
    <2> QED
      BY <1>8, <2>1, SectionAnswers, DecodingKeeps DEF DecodeReserve
  <1> QED
    BY <1>1, <1>2, <1>3, <1>4, <1>5, <1>6, <1>7, <1>8, Zenon DEF Sections

\* The invariant holds: it does at the start, and every step keeps it.
LEMMA InvInit == Init => Inv
  BY DEF Init, Inv, TypeOK, JobTaken, Coded, Nothing

LEMMA InvNext == Inv /\ [Next]_vars => Inv'
  <1> SUFFICES ASSUME Inv, [Next]_vars PROVE Inv'
    OBVIOUS
  <1>1. CASE UNCHANGED vars
    BY <1>1 DEF vars, Inv, TypeOK, JobTaken, Coded, in
  <1>2. CASE Next
    BY <1>2, TakeKeeps, VectorsKeep, RastersKeep, QuantisersKeep, TransformingKeeps,
       CodersKeep, SectionsKeep DEF Next
  <1> QED
    BY <1>1, <1>2

LEMMA Invariant == Spec => []Inv
  BY InvInit, InvNext, PTL DEF Spec

\* Every stage is one there is, a block that was taken is of a codec there
\* are jobs for, what is coded was not refused, and every decoder answers:
\* the run of any codec over any blocks, whatever the sizes of the tables.
THEOREM CodecsTypeCorrect == Spec => []TypeOK
  <1>1. Inv => TypeOK
    BY DEF Inv
  <1> QED
    BY <1>1, Invariant, PTL

----------------------------------------------------------------------------
(* Transforms.                                                             *)

\* A number of bytes that leaves no rest is a whole number of elements.
LEMMA WholeElements ==
    ASSUME NEW n \in Nat, NEW size \in Nat \ {0}, n % size = 0
    PROVE  size * (n \div size) = n
  OBVIOUS

LEMMA ZigzagReads ==
    ASSUME NEW block, Admitted("zigzag", block)
    PROVE  LET coding == ZigzagEncode(block.dtype, block.src)
           IN  coding.status = "ok" /\ ZigzagDecode(block.dtype, coding.data).data = block.src
  <1> DEFINE w == Bits(block.dtype.size)
             data == [i \in DOMAIN block.src |-> ZigzagEnc(w, block.src[i])]
             back == [i \in DOMAIN data |-> ZigzagDec(w, data[i])]
  <1>1. block.dtype.kind = "signed" /\ block.src \in Seq(WordsOf(w)) /\ w \in Nat \ {0}
    BY ElementsAssumption DEF Admitted, ZigzagSizes, Bits
  <1>2. ZigzagEncode(block.dtype, block.src).status = "ok"
        /\ ZigzagEncode(block.dtype, block.src).data = data
    BY <1>1 DEF ZigzagEncode
  <1>3. ZigzagDecode(block.dtype, data).data = back
    BY <1>1 DEF ZigzagDecode
  <1>4. ASSUME NEW i \in DOMAIN block.src PROVE back[i] = block.src[i]
    <2>1. block.src[i] \in WordsOf(w)
      BY <1>1
    <2> HIDE DEF w
    <2>2. back[i] = ZigzagDec(w, ZigzagEnc(w, block.src[i]))
      OBVIOUS
    <2> QED
      BY <1>1, <2>1, <2>2, ZigzagBack
  <1>5. back = block.src
    <2>1. DOMAIN back = DOMAIN block.src
      OBVIOUS
    <2>2. block.src = [i \in DOMAIN block.src |-> block.src[i]]
      BY <1>1
    <2>3. back = [i \in DOMAIN block.src |-> back[i]]
      OBVIOUS
    <2> HIDE DEF back
    <2> QED
      BY <1>4, <2>2, <2>3, Zenon
  <1> QED
    BY <1>2, <1>3, <1>5

LEMMA ComplementReads ==
    ASSUME NEW block, Admitted("complement", block)
    PROVE  LET coding == ComplementBytes(block.dtype, block.src)
           IN  coding.status = "ok" /\ ComplementBytes(block.dtype, coding.data) = Ok(block.src)
  <1> DEFINE top == 2^ByteBits - 1
             data == [k \in DOMAIN block.src |-> top - block.src[k]]
             back == [k \in DOMAIN data |-> top - data[k]]
  <1>1. block.dtype.kind # "string" /\ block.src \in Seq(0..top)
    BY DEF Admitted, ByteValues, WordsOf
  <1>2. top \in Int
    BY ElementsAssumption, PowerIs
  <1>3. ComplementBytes(block.dtype, block.src) = Ok(data)
        /\ ComplementBytes(block.dtype, data) = Ok(back)
    BY <1>1 DEF ComplementBytes
  <1>4. back = block.src
    <2> HIDE DEF top
    <2>1. ASSUME NEW k \in DOMAIN block.src PROVE back[k] = block.src[k]
      <3>1. block.src[k] \in Int
        BY <1>1, <1>2
      <3> QED
        BY <1>2, <3>1
    <2>2. block.src = [k \in DOMAIN block.src |-> block.src[k]]
      BY <1>1
    <2>3. back = [k \in DOMAIN block.src |-> back[k]]
      OBVIOUS
    <2> HIDE DEF back
    <2> QED
      BY <2>1, <2>2, <2>3, Zenon
  <1> QED
    BY <1>3, <1>4, OkIs

\* The block a transform codes, it gives back.
LEMMA TransformReads ==
    ASSUME Inv, stage \in {"coded", "done", "refused"},
           job.codec \in {"zigzag", "complement", "byte_shuffle", "bit_shuffle"}
    PROVE  stage # "refused" /\ (stage = "done" => decoded = Ok(in.src))
  <1>1. /\ Encodes(job.codec, in, coded) /\ Admitted(job.codec, in)
        /\ stage = "done" => Decodes(job.codec, in, coded, decoded)
        /\ coded.status = "ok" => stage # "refused"
    BY DEF Inv, Coded, JobTaken, TypeOK, Nothing
  <1>2. CASE job.codec = "zigzag"
    BY <1>1, <1>2, ZigzagReads DEF Encodes, Decodes
  <1>3. CASE job.codec = "complement"
    BY <1>1, <1>3, ComplementReads DEF Encodes, Decodes
  <1>4. CASE job.codec = "byte_shuffle"
    <2>0. in.size \in {1, 2, 4, 8} /\ in.src \in Seq(Nat) /\ Len(in.src) <= 2^IndexBits
          /\ Len(in.src) % in.size = 0
      BY <1>1, <1>4 DEF Admitted
    <2>a. in.size \in Nat \ {0} /\ Len(in.src) \in Nat
      BY <2>0
    <2>1. in.size * (Len(in.src) \div in.size) = Len(in.src)
      BY <2>0, <2>a, WholeElements
    <2>2. coded = Ok(ByteShuffle(in.size, in.src))
      BY <1>1, <1>4 DEF Encodes
    <2>3. SUFFICES ASSUME stage = "done" PROVE decoded = Ok(in.src)
      BY <1>1, <2>2, OkIs
    <2>4. PICK build \in Builds : decoded = Ok(ByteUnshuffle(build, in.size, coded.data))
      BY <1>1, <1>4, <2>3 DEF Decodes
    <2>5. ByteUnshuffle(build, in.size, ByteShuffle(in.size, in.src)) = in.src
      BY <2>0, <2>1, ByteShuffleBack
    <2> QED
      BY <2>2, <2>4, <2>5, OkIs
  <1>5. CASE job.codec = "bit_shuffle"
    <2>0. in.size \in Nat \ {0} /\ in.src \in Seq(ByteValues) /\ Len(in.src) % in.size = 0
      BY <1>1, <1>5 DEF Admitted
    <2>a. Len(in.src) \in Nat
      BY <2>0
    <2>1. in.size * (Len(in.src) \div in.size) = Len(in.src)
      BY <2>0, <2>a, WholeElements
    <2>2. PICK from \in Builds : coded = Ok(BitShuffle(from, in.size, in.src))
      BY <1>1, <1>5 DEF Encodes
    <2>3. SUFFICES ASSUME stage = "done" PROVE decoded = Ok(in.src)
      BY <1>1, <2>2, OkIs
    <2>4. PICK to \in Builds :
              decoded = BitUnshuffle(to, in.size, Len(in.src), coded.data)
      BY <1>1, <1>5, <2>3 DEF Decodes
    <2>5. BitUnshuffle(to, in.size, Len(in.src), BitShuffle(from, in.size, in.src)) = Ok(in.src)
      BY <2>0, <2>1, BitShuffleBack
    <2> QED
      BY <2>2, <2>4, <2>5, OkIs
  <1> QED
    BY <1>2, <1>3, <1>4, <1>5

\* A block comes back from every transform, in whatever build it was written
\* and in whatever build it is read, of any length, from registers of any
\* width.
THEOREM EveryTransformComesBack == Spec => []TransformsComeBack
  <1>1. Inv => TransformsComeBack
    BY TransformReads DEF TransformsComeBack, ComesBack, Done, Refused
  <1> QED
    BY <1>1, Invariant, PTL

----------------------------------------------------------------------------
(* Sizes.                                                                  *)

LEMMA ProductsAre ==
    ASSUME NEW dims \in Seq(Int)
    PROVE  /\ Products(dims) \in [0..Len(dims) -> Int]
           /\ Products(dims)[0] = 1
           /\ \A i \in 1..Len(dims) : Products(dims)[i] = Products(dims)[i - 1] * dims[i]
  <1> DEFINE n == Len(dims)
             Def(f) == f = [i \in 0..n |-> IF i = 0 THEN 1 ELSE f[i - 1] * dims[i]]
             g == [p \in (1..n) \X Int |-> p[2] * dims[p[1]]]
  <1>1. n \in Nat /\ \A i \in 1..n : dims[i] \in Int
    OBVIOUS
  <1> HIDE DEF n
  <1>2. g \in [(1..n) \X Int -> Int] /\ \A i \in 1..n, v \in Int : g[<<i, v>>] = v * dims[i]
    BY <1>1
  <1> HIDE DEF g
  <1>i. 1 \in Int
    OBVIOUS
  <1>3. PICK f : f \in [0..n -> Int] /\ Stepped(f, n, 1, g)
    BY <1>1, <1>i, <1>2, StepFunction
  <1>4. \A i \in 0..n : f[i] = IF i = 0 THEN 1 ELSE f[i - 1] * dims[i]
    <2>1. f[0] = 1 /\ \A i \in 1..n : f[i] = g[<<i, f[i - 1]>>] /\ f[i - 1] \in Int
      BY <1>1, <1>3, StepsRead
    <2>2. \A i \in 0..n : i = 0 \/ i \in 1..n
      BY <1>1
    <2> QED
      BY <1>2, <2>1, <2>2
  <1>5. Def(f)
    <2>1. f = [i \in 0..n |-> f[i]]
      BY <1>3
    <2>2. [i \in 0..n |-> f[i]] = [i \in 0..n |-> IF i = 0 THEN 1 ELSE f[i - 1] * dims[i]]
      BY <1>4, Zenon
    <2> QED
      BY <2>1, <2>2, Zenon
  <1> DEFINE h == CHOOSE h : Def(h)
  <1>6. Def(h)
    BY <1>5, Zenon
  <1>7. Products(dims) = h
    BY DEF Products, n
  <1> HIDE DEF h
  <1>8. h[0] = 1 /\ \A i \in 1..n : h[i] = h[i - 1] * dims[i]
    BY <1>1, <1>6
  <1>9. \A i \in 0..n : h[i] \in Int
    <2> DEFINE S == {i \in 0..n : h[i] \in Int}
    <2>1. 0 \in S
      BY <1>1, <1>8
    <2>2. ASSUME NEW i \in 0..n - 1, i \in S PROVE i + 1 \in S
      <3>1. i + 1 \in 1..n /\ (i + 1) - 1 = i
        BY <1>1
      <3>2. h[i + 1] = h[i] * dims[i + 1] /\ h[i] \in Int /\ dims[i + 1] \in Int
        BY <1>1, <1>8, <2>2, <3>1
      <3> QED
        BY <3>1, <3>2
    <2> HIDE DEF S
    <2>3. \A i \in 0..n : i \in S
      BY <1>1, <2>1, <2>2, InductTo
    <2> QED
      BY <2>3 DEF S
  <1> QED
    BY <1>6, <1>7, <1>8, <1>9 DEF n

\* The guarded product: the product itself where no dimension is negative
\* and none of the products on the way is too large, and -1 elsewhere.
LEMMA NElemsIs ==
    ASSUME NEW dims \in Seq(Int)
    PROVE  LET product  == Products(dims)
               negative == \E i \in DOMAIN dims : dims[i] < 0
           IN  \/ /\ NElems(dims) = product[Len(dims)] /\ NElems(dims) \in 0..DimMax
                  /\ ~ negative
               \/ /\ NElems(dims) = -1
                  /\ negative \/ \E k \in DOMAIN dims : product[k] > DimMax
  <1> DEFINE n == Len(dims)
             Stops(i, v) == \/ v = -1 \/ dims[i] < 0
                            \/ dims[i] # 0 /\ v > DimMax \div dims[i]
             Def(f) == f = [i \in 0..n |-> IF i = 0 THEN 1
                                           ELSE IF Stops(i, f[i - 1]) THEN -1
                                                ELSE f[i - 1] * dims[i]]
             g == [p \in (1..n) \X Int |-> IF Stops(p[1], p[2]) THEN -1 ELSE p[2] * dims[p[1]]]
             P == Products(dims)
  <1>1. n \in Nat /\ (\A i \in 1..n : dims[i] \in Int) /\ DOMAIN dims = 1..n
    OBVIOUS
  <1>p. /\ P \in [0..n -> Int] /\ P[0] = 1 /\ \A i \in 1..n : P[i] = P[i - 1] * dims[i]
    BY ProductsAre
  <1>m. DimMax \in Nat /\ DimMax >= 1
    BY RawAssumption
  <1> HIDE DEF n, P
  <1>2. g \in [(1..n) \X Int -> Int]
        /\ \A i \in 1..n, v \in Int : g[<<i, v>>] = IF Stops(i, v) THEN -1 ELSE v * dims[i]
    <2> HIDE DEF Stops
    <2> QED
      BY <1>1
  <1> HIDE DEF g
  <1>i. 1 \in Int
    OBVIOUS
  <1>3. PICK f : f \in [0..n -> Int] /\ Stepped(f, n, 1, g)
    BY <1>1, <1>i, <1>2, StepFunction
  <1>4. \A i \in 0..n : f[i] = IF i = 0 THEN 1 ELSE IF Stops(i, f[i - 1]) THEN -1
                                                   ELSE f[i - 1] * dims[i]
    <2> HIDE DEF Stops
    <2>1. f[0] = 1 /\ \A i \in 1..n : f[i] = g[<<i, f[i - 1]>>] /\ f[i - 1] \in Int
      BY <1>1, <1>3, StepsRead
    <2>2. \A i \in 0..n : i = 0 \/ i \in 1..n
      BY <1>1
    <2> QED
      BY <1>2, <2>1, <2>2
  <1>5. Def(f)
    <2>1. f = [i \in 0..n |-> f[i]]
      BY <1>3
    <2>2. [i \in 0..n |-> f[i]]
            = [i \in 0..n |-> IF i = 0 THEN 1 ELSE IF Stops(i, f[i - 1]) THEN -1
                                                   ELSE f[i - 1] * dims[i]]
      BY <1>4, Zenon
    <2> QED
      BY <2>1, <2>2, Zenon
  <1> DEFINE h == CHOOSE h : Def(h)
  <1>6. Def(h)
    BY <1>5, Zenon
  <1>7. NElems(dims) = h[n]
    BY DEF NElems, n
  <1> HIDE DEF h
  <1>8. h[0] = 1 /\ \A i \in 1..n : h[i] = IF Stops(i, h[i - 1]) THEN -1 ELSE h[i - 1] * dims[i]
    <2> HIDE DEF Stops
    <2> QED
      BY <1>1, <1>6
  <1> DEFINE Good(i) == /\ h[i] = P[i] /\ h[i] \in 0..DimMax
                        /\ \A k \in 1..i : dims[k] >= 0
             Bad(i) == /\ h[i] = -1
                       /\ \E k \in 1..i : dims[k] < 0 \/ P[k] > DimMax
             S == {i \in 0..n : Good(i) \/ Bad(i)}
  <1>9. 0 \in S
    BY <1>1, <1>p, <1>m, <1>8
  <1>10. ASSUME NEW i \in 0..n - 1, i \in S PROVE i + 1 \in S
    <2>1. i \in Nat /\ i + 1 \in 1..n /\ (i + 1) - 1 = i /\ \A k \in 1..i : k \in 1..i + 1
      BY <1>1
    <2> DEFINE d == dims[i + 1]
               v == h[i]
    <2>2. h[i + 1] = (IF Stops(i + 1, v) THEN -1 ELSE v * d) /\ d \in Int
      <3> HIDE DEF Stops
      <3> QED
        BY <1>1, <1>8, <2>1
    <2>3. CASE Bad(i)
      BY <2>1, <2>2, <2>3
    <2>4. CASE Good(i)
      <3>1. v \in 0..DimMax /\ v = P[i] /\ P[i + 1] = v * d
        BY <1>p, <2>1, <2>4
      <3>2. \A k \in 1..i + 1 : k \in 1..i \/ k = i + 1
        BY <2>1
      <3>3. Stops(i + 1, v) <=> d < 0 \/ (d # 0 /\ v > DimMax \div d)
        BY <1>m, <3>1
      <3> HIDE DEF Stops, v, d
      <3>4. CASE d < 0
        <4>1. h[i + 1] = -1
          BY <2>2, <3>3, <3>4
        <4> QED
          BY <2>1, <3>4, <4>1 DEF d
      <3>5. CASE d = 0
        <4>1. h[i + 1] = 0 /\ P[i + 1] = 0
          BY <1>m, <2>2, <3>1, <3>3, <3>5
        <4> QED
          BY <1>m, <2>1, <2>4, <3>2, <3>5, <4>1 DEF d
      <3>6. CASE d > 0
        <4> DEFINE q == DimMax \div d
        <4>1. q \in Int /\ DimMax % d \in 0..d - 1 /\ DimMax = d * q + (DimMax % d)
          BY <1>m, <2>2, <3>6, DivMod
        <4>2. v > q => v * d > DimMax
          <5> DEFINE r == DimMax % d
          <5>1. SUFFICES ASSUME v > q PROVE v * d > DimMax
            OBVIOUS
          <5>2. v >= q + 1 /\ v \in Nat /\ d \in Nat /\ r \in 0..d - 1
            BY <1>m, <2>2, <3>1, <3>6, <4>1, <5>1
          <5> HIDE DEF r, q
          <5>3. v * d >= (q + 1) * d
            BY <2>2, <4>1, <5>2
          <5>4. (q + 1) * d = d * q + d /\ d * q \in Int /\ v * d \in Int
            BY <2>2, <4>1, <5>2
          <5>5. DimMax = d * q + r
            BY <4>1 DEF r
          <5> QED
            BY <1>m, <2>2, <5>2, <5>3, <5>4, <5>5
        <4>3. ~(v > q) => v * d <= DimMax
          <5> DEFINE r == DimMax % d
          <5>1. SUFFICES ASSUME v <= q PROVE v * d <= DimMax
            BY <3>1, <4>1, <1>m
          <5>2. v \in Nat /\ d \in Nat /\ r \in Nat
            BY <1>m, <2>2, <3>1, <3>6, <4>1
          <5> HIDE DEF r, q
          <5>3. v * d <= q * d
            BY <2>2, <4>1, <5>1, <5>2
          <5>4. q * d = d * q /\ d * q \in Int /\ v * d \in Int
            BY <2>2, <4>1, <5>2
          <5>5. DimMax = d * q + r
            BY <4>1 DEF r
          <5> QED
            BY <1>m, <5>2, <5>3, <5>4, <5>5
        <4>4. v * d >= 0 /\ v * d \in Int
          BY <2>2, <3>1, <3>6, <1>m
        <4>5. CASE v > q
          <5>1. h[i + 1] = -1 /\ P[i + 1] > DimMax
            BY <2>2, <3>1, <3>3, <3>6, <4>2, <4>5
          <5> QED
            BY <2>1, <5>1
        <4>6. CASE ~(v > q)
          <5>1. h[i + 1] = v * d /\ P[i + 1] = v * d /\ v * d \in 0..DimMax
            BY <1>m, <2>2, <3>1, <3>3, <3>6, <4>3, <4>4, <4>6
          <5>2. \A k \in 1..i + 1 : dims[k] >= 0
            BY <2>1, <2>4, <3>2, <3>6, <2>2 DEF d
          <5> QED
            BY <2>1, <5>1, <5>2
        <4> QED
          BY <4>5, <4>6
      <3> QED
        BY <2>2, <3>4, <3>5, <3>6
    <2> QED
      BY <1>10, <2>3, <2>4
  <1> HIDE DEF S
  <1>11. \A i \in 0..n : i \in S
    BY <1>1, <1>9, <1>10, InductTo
  <1>12. n \in S
    BY <1>1, <1>11
  <1>13. Good(n) \/ Bad(n)
    BY <1>12 DEF S
  <1>14. P[n] \in Int /\ \A k \in 1..n : P[k] \in Int
    BY <1>1, <1>p
  <1>15. CASE Good(n)
    BY <1>1, <1>7, <1>14, <1>15 DEF P, n
  <1>16. CASE Bad(n)
    BY <1>1, <1>7, <1>14, <1>16 DEF P, n
  <1> QED
    BY <1>13, <1>15, <1>16

\* The model without a prediction gives back as many elements as the shape
\* has, and refuses a shape only for what NElems is -1 for.
LEMMA RawReads ==
    ASSUME NEW block, Admitted("raw", block)
    PROVE  LET coding   == RawEncode(block)
               product  == Products(block.dims)
               negative == \E i \in DOMAIN block.dims : block.dims[i] < 0
           IN  /\ coding.status = "ok" =>
                      /\ ~ negative /\ product[Len(block.dims)] <= DimMax
                      /\ RawDecode(block, coding.data)
                            = Ok(SubSeq(block.src, 1, product[Len(block.dims)]))
               /\ coding.status # "ok" =>
                      negative \/ \E n \in DOMAIN block.dims : product[n] > DimMax
  <1> DEFINE n == NElems(block.dims)
             part == SubSeq(block.src, 1, n)
  <1>1. /\ block.dims \in Seq(Int) /\ Len(block.dims) = ExpectedRank(block.layout)
        /\ block.src \in Seq(Nat) /\ n <= Len(block.src)
    BY DEF Admitted
  <1>2. DimMax \in Nat
    BY RawAssumption
  <1>3. CASE /\ n = Products(block.dims)[Len(block.dims)] /\ n \in 0..DimMax
             /\ ~ \E i \in DOMAIN block.dims : block.dims[i] < 0
    <2>1. RawEncode(block) = Ok(part)
      BY <1>1, <1>2, <1>3 DEF RawEncode
    <2>2. Len(part) = n
      <3>1. n \in Nat /\ n \in 0..Len(block.src)
        BY <1>1, <1>2, <1>3
      <3> HIDE DEF n
      <3> QED
        BY <1>1, <3>1
    <2>3. RawDecode(block, part) = Ok(part)
      BY <1>1, <1>2, <1>3, <2>2 DEF RawDecode
    <2> QED
      BY <1>2, <1>3, <2>1, <2>3, OkIs
  <1>4. CASE /\ n = -1
             /\ \/ \E i \in DOMAIN block.dims : block.dims[i] < 0
                \/ \E k \in DOMAIN block.dims : Products(block.dims)[k] > DimMax
    <2>1. RawEncode(block) = Fails("shape")
      BY <1>1, <1>4 DEF RawEncode
    <2> QED
      BY <1>4, <2>1, FailsIs
  <1> QED
    BY <1>1, <1>3, <1>4, NElemsIs

\* A buffer whose size was doubled covers the need, and the doubling ends
\* unless the need is above half of what a size holds.
LEMMA ReserveIs ==
    ASSUME NEW capacity \in 0..2^SizeBits - 1, NEW need \in 0..2^SizeBits - 1
    PROVE  LET grown == Reserve(capacity, need)
           IN  /\ grown.status = "ok" => /\ grown.data >= need
                                         /\ Reserve(grown.data, need) = grown
               /\ grown.status # "ok" => need > 2^(SizeBits - 1)
  <1> DEFINE top == 2^SizeBits
             first == IF capacity = 0 THEN FirstBytes ELSE capacity
             Def(f) == f = [k \in 0..SizeBits |-> IF k = 0 THEN first
                                                  ELSE Shl(SizeBits, f[k - 1], 1)]
             g == [p \in (1..SizeBits) \X Nat |-> Shl(SizeBits, p[2], 1)]
             h == CHOOSE h : Def(h)
             enough == {k \in 0..SizeBits : h[k] >= need}
             least == CHOOSE k \in enough : \A j \in enough : k <= j
  <1>1. SizeBits \in Nat /\ top \in Nat /\ FirstBytes \in 1..top - 1 /\ top >= 1
    BY FormatsAssumption, PowerNext
  <1>2. SizeBits # 0
    <2>1. SUFFICES ASSUME SizeBits = 0 PROVE FALSE
      OBVIOUS
    <2>2. top = 1
      BY <2>1, PowerZero
    <2> HIDE DEF top
    <2> QED
      BY <1>1, <2>2
  <1>3. first \in 1..top - 1
    BY <1>1
  <1>4. \A x \in Nat : Shl(SizeBits, x, 1) = (x * 2) % top /\ Shl(SizeBits, x, 1) \in Nat
    <2>1. 2^1 = 2
      OBVIOUS
    <2>2. ASSUME NEW x \in Nat PROVE Shl(SizeBits, x, 1) = (x * 2) % top
      BY <2>1 DEF Shl
    <2> HIDE DEF top
    <2>3. \A x \in Nat : (x * 2) % top \in Nat
      BY <1>1
    <2> QED
      BY <2>2, <2>3
  <1>r. /\ capacity >= need => Reserve(capacity, need) = Ok(capacity)
        /\ capacity < need /\ enough = {} => Reserve(capacity, need) = Fails("never")
        /\ capacity < need /\ enough # {} => Reserve(capacity, need) = Ok(h[least])
    <2>1. Reserve(capacity, need) = IF capacity >= need THEN Ok(capacity)
                                    ELSE IF enough = {} THEN Fails("never")
                                    ELSE Ok(h[least])
      BY Zenon DEF Reserve
    <2>2. capacity < need <=> ~(capacity >= need)
      BY <1>1
    <2> HIDE DEF enough, least, h
    <2> QED
      BY <2>1, <2>2
  <1> HIDE DEF top, first
  <1>5. PICK f : f \in [0..SizeBits -> Nat] /\ Stepped(f, SizeBits, first, g)
    <2>1. g \in [(1..SizeBits) \X Nat -> Nat]
      BY <1>4
    <2>2. first \in Nat
      BY <1>1, <1>3
    <2> HIDE DEF g
    <2> QED
      BY <1>1, <2>1, <2>2, StepFunction
  <1>6. \A k \in 0..SizeBits : f[k] = IF k = 0 THEN first ELSE Shl(SizeBits, f[k - 1], 1)
    <2>1. f[0] = first /\ \A i \in 1..SizeBits : f[i] = g[<<i, f[i - 1]>>] /\ f[i - 1] \in Nat
      BY <1>1, <1>5, StepsRead
    <2>2. \A i \in 0..SizeBits : i = 0 \/ i \in 1..SizeBits
      BY <1>1
    <2> QED
      BY <2>1, <2>2
  <1>7. Def(f)
    <2>1. f = [k \in 0..SizeBits |-> f[k]]
      BY <1>5
    <2>2. [k \in 0..SizeBits |-> f[k]]
            = [k \in 0..SizeBits |-> IF k = 0 THEN first ELSE Shl(SizeBits, f[k - 1], 1)]
      BY <1>6, Zenon
    <2> QED
      BY <2>1, <2>2, Zenon
  <1>8. Def(h)
    BY <1>7, Zenon
  <1> HIDE DEF h, g
  <1>9. /\ h[0] = first
        /\ \A k \in 0..SizeBits - 1 : h[k + 1] = Shl(SizeBits, h[k], 1)
    <2>1. 0 \in 0..SizeBits /\ \A k \in 0..SizeBits - 1 : /\ k + 1 \in 0..SizeBits
                                                         /\ k + 1 # 0 /\ (k + 1) - 1 = k
      BY <1>1
    <2>2. \A k \in 0..SizeBits : h[k] = IF k = 0 THEN first ELSE Shl(SizeBits, h[k - 1], 1)
      BY <1>8, Zenon
    <2> QED
      BY <2>1, <2>2
  <1>10. \A k \in 0..SizeBits : h[k] \in Nat
    <2> DEFINE S == {k \in 0..SizeBits : h[k] \in Nat}
    <2>1. 0 \in S
      BY <1>1, <1>3, <1>9
    <2>2. ASSUME NEW k \in 0..SizeBits - 1, k \in S PROVE k + 1 \in S
      BY <1>1, <1>4, <1>9, <2>2
    <2> HIDE DEF S
    <2>3. \A k \in 0..SizeBits : k \in S
      BY <1>1, <2>1, <2>2, InductTo
    <2> QED
      BY <2>3 DEF S
  <1>11. CASE capacity >= need
    <2>1. Reserve(capacity, need) = Ok(capacity)
      BY <1>r, <1>11
    <2> QED
      BY <1>11, <2>1, OkIs
  <1>12. CASE capacity < need /\ enough # {}
    <2>1. least \in enough
      <3>1. enough \in SUBSET Nat
        BY <1>1
      <3> HIDE DEF enough
      <3>2. \E k \in enough : \A j \in enough : k <= j
        BY <1>12, <3>1, Least
      <3> QED
        BY <3>2
    <2>2. h[least] \in Nat /\ h[least] >= need
      BY <1>10, <2>1
    <2>3. Reserve(capacity, need) = Ok(h[least])
      BY <1>r, <1>12
    <2> HIDE DEF least
    <2>4. Reserve(h[least], need) = Ok(h[least])
      BY <2>2 DEF Reserve
    <2> QED
      BY <2>2, <2>3, <2>4, OkIs
  <1>13. CASE capacity < need /\ enough = {}
    <2>1. Reserve(capacity, need) = Fails("never")
      BY <1>r, <1>13
    <2>2. SUFFICES need > 2^(SizeBits - 1)
      BY <2>1, FailsIs
    <2> DEFINE half == 2^(SizeBits - 1)
    <2>3. half \in Nat /\ top = 2 * half
      BY <1>1, <1>2, PowerBefore DEF top
    <2>4. SUFFICES ASSUME need <= half PROVE FALSE
      BY <1>1, <2>3
    <2>5. \A k \in 0..SizeBits : h[k] < need
      BY <1>1, <1>10, <1>13
    <2> DEFINE S == {k \in 0..SizeBits : h[k] >= 2^k}
    <2>6. 0 \in S
      <3>1. h[0] >= 1
        BY <1>1, <1>3, <1>9
      <3> QED
        BY <1>1, <3>1, PowerZero
    <2>7. ASSUME NEW k \in 0..SizeBits - 1, k \in S PROVE k + 1 \in S
      <3> DEFINE x == h[k]
                 q == 2^k
      <3>1. k \in Nat /\ k \in 0..SizeBits /\ k + 1 \in 0..SizeBits
        BY <1>1
      <3>2. q \in Nat /\ 2^(k + 1) = 2 * q /\ x \in Nat /\ x >= q /\ x < half
        BY <1>1, <1>10, <2>3, <2>4, <2>5, <2>7, <3>1, PowerNext
      <3>3. h[k + 1] = (x * 2) % top
        BY <1>4, <1>9, <3>2
      <3> HIDE DEF x, q, half
      <3>4. x * 2 \in 0..top - 1
        BY <2>3, <3>2
      <3>5. (x * 2) % top = x * 2
        BY <1>1, <3>4
      <3>6. h[k + 1] >= 2^(k + 1)
        BY <3>2, <3>3, <3>5
      <3> QED
        BY <3>1, <3>6
    <2> HIDE DEF S
    <2>8. \A k \in 0..SizeBits : k \in S
      BY <1>1, <2>6, <2>7, InductTo
    <2>9. SizeBits - 1 \in 0..SizeBits
      BY <1>1, <1>2
    <2>10. h[SizeBits - 1] >= half
      BY <2>8, <2>9 DEF S
    <2>11. h[SizeBits - 1] < need /\ h[SizeBits - 1] \in Nat
      BY <1>10, <2>5, <2>9
    <2> QED
      BY <1>1, <2>3, <2>4, <2>10, <2>11
  <1> QED
    BY <1>1, <1>11, <1>12, <1>13

\* No size of a shape and no capacity wraps unseen, whatever the width of a
\* size and the largest dimension.
THEOREM SizesStayInRange == Spec => []SizesNeverWrap
  <1>1. ASSUME Inv PROVE SizesNeverWrap
    <2>1. stage \in {"done", "refused"} =>
              /\ Encodes(job.codec, in, coded) /\ Admitted(job.codec, in)
              /\ stage = "done" => Decodes(job.codec, in, coded, decoded)
              /\ stage = "done" <=> coded.status = "ok"
      BY <1>1 DEF Inv, Coded, JobTaken, TypeOK, Nothing
    <2>2. ASSUME stage \in {"done", "refused"}, job.codec = "raw"
          PROVE  /\ coded = RawEncode(in) /\ Admitted("raw", in)
                 /\ stage = "done" => decoded = RawDecode(in, coded.data)
      BY <2>1, <2>2 DEF Encodes, Decodes
    <2>3. ASSUME stage \in {"done", "refused"}, job.codec = "reserve"
          PROVE  /\ coded = Reserve(in.capacity, in.need)
                 /\ in.capacity \in 0..2^SizeBits - 1 /\ in.need \in 0..2^SizeBits - 1
                 /\ stage = "done" => decoded = Reserve(coded.data, in.need)
      BY <2>1, <2>3 DEF Encodes, Decodes, Admitted
    <2>4. ASSUME stage \in {"done", "refused"}, job.codec = "raw"
          PROVE  LET product  == Products(in.dims)
                     negative == \E i \in DOMAIN in.dims : in.dims[i] < 0
                 IN  /\ stage = "done" =>
                            /\ ~ negative /\ product[Len(in.dims)] <= DimMax
                            /\ decoded = Ok(SubSeq(in.src, 1, product[Len(in.dims)]))
                     /\ stage = "refused" =>
                            negative \/ \E n \in DOMAIN in.dims : product[n] > DimMax
      BY <2>1, <2>2, <2>4, RawReads
    <2>5. ASSUME stage \in {"done", "refused"}, job.codec = "reserve"
          PROVE  /\ stage = "done" => coded.data >= in.need /\ decoded = coded
                 /\ stage = "refused" => in.need > 2^(SizeBits - 1)
      BY <2>1, <2>3, <2>5, ReserveIs
    <2> QED
      BY <2>4, <2>5 DEF SizesNeverWrap, Done, Refused
  <1> QED
    BY <1>1, Invariant, PTL

----------------------------------------------------------------------------
(* Vectors.                                                                *)

\* A dictionary holds no value twice: of strings and of numbers, whatever
\* their hashes and however often its table was doubled while it was built.
THEOREM DictionariesHoldEachOnce == Spec => []ValuesEnterOnce
  <1>1. Inv => ValuesEnterOnce
    <2> SUFFICES ASSUME Inv PROVE ValuesEnterOnce
      OBVIOUS
    <2>1. stage = "done" =>
             Encodes(job.codec, in, coded) /\ Admitted(job.codec, in) /\ coded.status = "ok"
      BY DEF Inv, Coded, JobTaken, TypeOK
    <2>2. ASSUME Done("dict")
          PROVE  IsInjective([d \in 1..coded.side.count |-> Row(coded.side, d)])
      <3>1. coded = DictEncode(in.src) /\ coded.status = "ok" /\ Admitted("dict", in)
        BY <2>1, <2>2 DEF Done, Encodes
      <3>2. Hashed(in.src)
        BY <3>1 DEF Admitted, Hashed
      <3> QED
        BY <3>1, <3>2, DictOnce
    <2>3. ASSUME Done("dict_numeric")
          PROVE  IsInjective(coded.side.values)
      <3>1. /\ coded = NumericEncode(in.dtype, in.src) /\ coded.status = "ok"
            /\ in.src \in Seq(DOMAIN Fnv)
        BY <2>1, <2>3 DEF Done, Encodes, Admitted
      <3> QED
        BY <3>1, NumericOnce
    <2> QED
      BY <2>2, <2>3 DEF ValuesEnterOnce
  <1> QED
    BY <1>1, Invariant, PTL

\* The block a model of vectors codes, it gives back.
LEMMA VectorReads ==
    ASSUME Inv, stage \in {"coded", "done", "refused"},
           job.codec \in {"delta", "delta2"}
    PROVE  stage # "refused" /\ (stage = "done" => decoded = Ok(in.src))
  <1>1. /\ Encodes(job.codec, in, coded) /\ Admitted(job.codec, in)
        /\ stage = "done" => Decodes(job.codec, in, coded, decoded)
        /\ coded.status = "ok" => stage # "refused"
    BY DEF Inv, Coded, JobTaken, TypeOK, Nothing
  <1>2. CASE job.codec = "delta"
    <2>1. in.dtype.size \in {1, 2, 4, 8} /\ in.src \in Seq(WordsOf(Bits(in.dtype.size)))
      BY <1>1, <1>2 DEF Admitted
    <2>2. PICK from \in Builds : coded = Ok(DeltaEncode(from, in.dtype, in.src))
      BY <1>1, <1>2 DEF Encodes
    <2>3. SUFFICES ASSUME stage = "done" PROVE decoded = Ok(in.src)
      BY <1>1, <2>2, OkIs
    <2>4. PICK to \in Builds : decoded = Ok(DeltaDecode(to, in.dtype, coded.data))
      BY <1>1, <1>2, <2>3 DEF Decodes
    <2>5. DeltaDecode(to, in.dtype, DeltaEncode(from, in.dtype, in.src)) = in.src
      BY <2>1, DeltaBack
    <2> QED
      BY <2>2, <2>4, <2>5, OkIs
  <1>3. CASE job.codec = "delta2"
    <2> DEFINE w == Bits(in.dtype.size)
    <2>1. w \in Nat /\ in.src \in Seq(WordsOf(w))
      BY <1>1, <1>3, ElementsAssumption DEF Admitted, Bits
    <2>2. coded = Ok(Delta2Encode(w, in.src))
      BY <1>1, <1>3 DEF Encodes
    <2>3. SUFFICES ASSUME stage = "done" PROVE decoded = Ok(in.src)
      BY <1>1, <2>2, OkIs
    <2>4. decoded = Ok(Delta2Decode(w, coded.data))
      BY <1>1, <1>3, <2>3 DEF Decodes
    <2> HIDE DEF w
    <2>5. Delta2Decode(w, Delta2Encode(w, in.src)) = in.src
      BY <2>1, Delta2Back
    <2> QED
      BY <2>2, <2>4, <2>5, OkIs
  <1> QED
    BY <1>2, <1>3

\* A vector comes back from every model that has a prediction or a
\* dictionary, of any length and of elements of any width: whichever build
\* took the differences and whichever sums them, whatever the predictors'
\* tables hold, and with the side metadata of strings packed and unpacked on
\* the way.
THEOREM EveryVectorComesBack == Spec => []VectorsComeBack
  <1>1. Inv => VectorsComeBack
    <2> SUFFICES ASSUME Inv PROVE VectorsComeBack
      OBVIOUS
    <2>1. stage = "done" =>
             /\ Encodes(job.codec, in, coded) /\ Admitted(job.codec, in) /\ coded.status = "ok"
             /\ Decodes(job.codec, in, coded, decoded)
      BY DEF Inv, Coded, JobTaken, TypeOK
    <2>2. ComesBack({"delta", "delta2"})
      BY VectorReads DEF ComesBack, Done, Refused
    <2>3. ASSUME Done("dict_numeric") PROVE decoded.status = "ok" /\ decoded.rows = in.src
      <3>1. /\ coded = NumericEncode(in.dtype, in.src) /\ coded.status = "ok"
            /\ in.src \in Seq(DOMAIN Fnv)
            /\ decoded = NumericDecode(in.dtype, Len(in.src), coded.residual, coded.side)
        BY <2>1, <2>3 DEF Done, Encodes, Decodes, Admitted
      <3>2. decoded = [status |-> "ok", rows |-> in.src]
        BY <3>1, NumericBack
      <3> QED
        BY <3>2
    <2>4. ASSUME Done("sparse_zero") PROVE decoded.status = "ok" /\ decoded.rows = in.src
      <3>1. /\ coded = SparseEncode(in.dtype, in.src) /\ coded.status = "ok"
            /\ in.src \in Seq(Nat)
            /\ decoded = SparseDecode(in.dtype, Len(in.src), coded.residual, coded.side)
        BY <2>1, <2>4 DEF Done, Encodes, Decodes, Admitted
      <3>2. decoded = [status |-> "ok", rows |-> in.src]
        BY <3>1, SparseBack
      <3> QED
        BY <3>2
    <2>5. ASSUME Done("fpc") PROVE decoded.status = "ok" /\ decoded.rows = in.src
      <3>1. /\ coded = FpcEncode(in.dtype, in.src) /\ coded.status = "ok"
            /\ in.dtype.size \in Nat \ {0} /\ in.src \in Seq(WordsOf(Bits(in.dtype.size)))
            /\ decoded = FpcDecode(in.dtype, Len(in.src), coded.residual, coded.side)
        BY <2>1, <2>5 DEF Done, Encodes, Decodes, Admitted
      <3>2. decoded = [status |-> "ok", rows |-> in.src]
        BY <3>1, FpcBack
      <3> QED
        BY <3>2
    <2>6. ASSUME Done("dict")
          PROVE  decoded.status = "ok" /\ RowsOf(decoded.block) = RowsOf(in.src)
      <3>1. /\ coded = DictEncode(in.src) /\ coded.status = "ok" /\ Admitted("dict", in)
            /\ decoded = DictRead(in, coded)
        BY <2>1, <2>6 DEF Done, Encodes, Decodes
      <3>2. Hashed(in.src) /\ in.n = Len(in.src.offsets) - 1
        BY <3>1 DEF Admitted, Hashed
      <3>3. DictEncode(in.src).status = "ok"
        BY <3>1
      <3>4. LET r      == DictEncode(in.src)
                packed == SidePack(r.side)
                side   == IF packed.status = "ok" THEN SideUnpack(packed.count, packed.bytes)
                          ELSE packed
                d      == IF side.status = "ok"
                          THEN DictDecode(Len(in.src.offsets) - 1, r.residual, side) ELSE side
            IN  d.status = "ok" /\ RowsOf(d.block) = RowsOf(in.src)
        BY <3>2, <3>3, DictBack
      <3> QED
        BY <3>1, <3>2, <3>4 DEF DictRead
    <2> QED
      BY <2>2, <2>3, <2>4, <2>5, <2>6 DEF VectorsComeBack
  <1> QED
    BY <1>1, Invariant, PTL
=============================================================================
