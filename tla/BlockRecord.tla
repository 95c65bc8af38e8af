---------------------------- MODULE BlockRecord ----------------------------
(***************************************************************************)
(* What the block encode driver and the block decode driver agree on: the  *)
(* stage ids, the element types each stage makes of the one before, the    *)
(* sizes that follow, and the check of a record's header                   *)
(* (src/api/driver_internal.h, src/format/block_record.c).                 *)
(*                                                                         *)
(* A byte string is the thing it encodes, the stages that were applied to  *)
(* it and its length.  Undoing the last stage applied gives the string     *)
(* before it; undoing any other gives bytes that mean nothing.             *)
(***************************************************************************)
EXTENDS Naturals, Sequences, SequencesExt, FiniteSets

CONSTANT NoMemory     \* the caller's allocator may fail

ASSUME AllocatorAssumption == NoMemory \in BOOLEAN

None == "none"     \* id 0: ends a chain

Statuses == {"ok", "inval", "unsupported", "dtype", "layout", "shape",
             "corrupt", "nomem"}

Numeric == {"i16", "u16", "u32", "f64"}
Dtypes  == Numeric \cup {"string"}
Layouts == {"vector", "raster"}

CoreModels == {"raw", "sparse_zero_1d", "dict_1d", "pred_2d", "plane_2d",
               "quantize_pred_2d"}
CoreXforms == {"quantize", "zigzag", "byte_shuffle", "bit_shuffle"}
CoreCoders == {"lz"}
\* Plugin backends.  The model "custom" keeps the block's element type and
\* emits no residual for a block it fits exactly, "narrowing" takes wider
\* elements and turns its residual into i16; the transform and the coder keep sizes as the core
\* ones do.
PluginModels == {"custom", "narrowing"}
PluginXforms == {"custom_xform"}
PluginCoders == {"custom_coder"}

SizeOf == [d \in Dtypes \cup {None} |->
             CASE d \in {"i16", "u16"} -> 2
               [] d = "u32" -> 4
               [] d = "f64" -> 8
               [] OTHER     -> 0]

CeilDiv(n, d) == (n + d - 1) \div d

\* The checks a function makes in order, each with the status it returns:
\* the status of the first that applies.
FirstOf(checks) ==
    LET hits == {i \in 1..Len(checks) : checks[i][1]}
    IN  IF hits = {} THEN "ok"
        ELSE checks[CHOOSE i \in hits : \A j \in hits : i <= j][2]

----------------------------------------------------------------------------
(* Byte strings.                                                           *)

Bytes(of, size) == [of |-> of, by |-> <<>>, size |-> size]
NoBytes         == Bytes("nothing", 0)
Garbage(size)   == Bytes("garbage", size)

Put(b, stage, size)  == [b EXCEPT !.by = Append(@, stage), !.size = size]
Take(b, stage, size) ==
    IF b.by # <<>> /\ Last(b.by) = stage
    THEN [b EXCEPT !.by = Front(@), !.size = size]
    ELSE Garbage(size)
Intact(b, of) == b.of = of /\ b.by = <<>>

----------------------------------------------------------------------------
(* Models.                                                                 *)

\* A block is its element type, layout, element count, whether its model
\* fits it exactly (all zeros, an exact plane) and whether it carries a
\* validity bitmap.
ModelDtypes(model) ==
    CASE model = "dict_1d"          -> {"string"}
      [] model = "plane_2d"         -> Numeric \ {"f64"}
      [] model = "quantize_pred_2d" -> {"f64"}
      [] model = "narrowing"        -> {"u32", "f64"}
      [] OTHER                      -> Numeric
ModelLayouts(model) ==
    CASE model \in {"sparse_zero_1d", "dict_1d"}                -> {"vector"}
      [] model \in {"pred_2d", "plane_2d", "quantize_pred_2d"}  -> {"raster"}
      [] OTHER                                                  -> Layouts
ModelStatus(model, blk) ==
    FirstOf(<<<<model = "dict_1d" /\ blk.dtype # "string", "dtype">>,
              <<blk.layout \notin ModelLayouts(model), "layout">>,
              <<blk.dtype \notin ModelDtypes(model), "dtype">>>>)

\* How many elements of the block are not zero.
Nonzero(blk) == IF blk.exact THEN 0 ELSE CeilDiv(blk.n, 2)

EncoderDtype(model, blk) ==
    CASE model \in {"sparse_zero_1d", "dict_1d"}          -> "u32"
      [] model \in {"quantize_pred_2d", "narrowing"}      -> "i16"
      [] OTHER                                            -> blk.dtype

ResidualBytes(model, blk) ==
    LET len == IF model = "sparse_zero_1d" THEN Nonzero(blk)
               ELSE IF model \in {"plane_2d", "custom"} /\ blk.exact THEN 0
               ELSE blk.n
    IN  Bytes("residual", len * SizeOf[EncoderDtype(model, blk)])

\* The length of the side metadata; a dictionary of one value of one byte
\* stands for every dictionary.
SideBytes(model, blk) ==
    CASE model = "sparse_zero_1d"   -> Bytes("side", 5 + Nonzero(blk) * SizeOf[blk.dtype])
      [] model = "dict_1d"          -> Bytes("side", IF blk.n = 0 THEN 12 ELSE 17)
      [] model = "pred_2d"          -> Bytes("side", 1)
      [] model = "plane_2d"         -> Bytes("side", 9)
      [] model = "quantize_pred_2d" -> Bytes("side", 18)
      [] OTHER                      -> NoBytes

\* driver_side_packs and the two conversions of src/api/side_pack.c.
SidePacks(model) == model = "dict_1d"
PackedSize(size) == IF size = 12 THEN 4 ELSE 6
UnpackedSize(size) == IF size = 4 THEN 12 ELSE 17

\* Mutant: the type walk starts from the block's element type.
ResidualDtypeOfBlock(model, dtype, side) == dtype
\* What the decoder derives from the model id, the block's element type and
\* the side metadata.
ResidualDtype(model, dtype, side) ==
    CASE model \in {"sparse_zero_1d", "dict_1d"} -> "u32"
      [] model = "quantize_pred_2d"              -> IF Intact(side, "side") THEN "i16" ELSE None
      [] OTHER                                   -> dtype

\* The sparse header holds the count; one that was damaged may say anything,
\* and a count no block has stands for every one that is refused.
ResidualLens(model, dtype, n, side) ==
    IF model # "sparse_zero_1d" THEN {n}
    ELSE IF side.size < 5 THEN {n + 1}
    ELSE IF Intact(side, "side") THEN {(side.size - 5) \div SizeOf[dtype]}
    ELSE {0, n, n + 1}

----------------------------------------------------------------------------
(* Transforms.  An entry of a chain is an id and whether the caller gave    *)
(* parameters for it.                                                      *)

XformDtypes(id) ==
    CASE id = "quantize" -> {"f64"}
      [] id = "zigzag"   -> {"i16"}
      [] OTHER           -> Numeric
XformStatus(x, dtype, size) ==
    FirstOf(<<<<x.id = "quantize" /\ ~ x.params, "inval">>,
              <<dtype \notin XformDtypes(x.id), "dtype">>,
              <<x.id \in CoreXforms /\ size % SizeOf[dtype] # 0, "inval">>>>)

XformDtype(x, dtype) ==
    CASE x.id = "quantize" -> "i16"
      [] x.id = "zigzag"   -> "u16"
      [] OTHER             -> dtype

\* The bit planes of n elements take 8 * SizeOf * ceil(n / 8) bytes.
XformSize(x, dtype, size) ==
    CASE x.id = "quantize"    -> (size \div 8) * 2
      [] x.id = "bit_shuffle" ->
             8 * SizeOf[dtype] * CeilDiv(size \div SizeOf[dtype], 8)
      [] OTHER                -> size

\* The type walk of the decoder; None for a transform or a type it has no
\* rule for.
WalkDtype(id, dtype, params) ==
    CASE id \in {"byte_shuffle", "bit_shuffle"} -> dtype
      [] id = "zigzag" /\ dtype = "i16"         -> "u16"
      [] id = "quantize" /\ params              -> "i16"
      [] OTHER                                  -> None

\* What a transform's inverse requires of its input and output sizes.
InverseFits(id, dtype, params, size, to) ==
    CASE id = "quantize"    -> params /\ dtype = "f64" /\ size % 2 = 0 /\ to = (size \div 2) * 8
      [] id = "zigzag"      -> dtype = "i16" /\ size % 2 = 0 /\ to = size
      [] id = "bit_shuffle" ->
             /\ to % SizeOf[dtype] = 0
             /\ to > 0 => size = 8 * SizeOf[dtype] * CeilDiv(to \div SizeOf[dtype], 8)
      [] OTHER              -> to = size

----------------------------------------------------------------------------
(* Chains.                                                                 *)

XformIds(chain) == [i \in 1..Len(chain) |-> chain[i].id]
\* The ids before the first NONE.
Active(ids) ==
    LET stops == {i \in 1..Len(ids) : ids[i] = None}
    IN  IF stops = {} THEN ids
        ELSE SubSeq(ids, 1, (CHOOSE i \in stops : \A j \in stops : i <= j) - 1)
Sticky(ids) == \A i \in 1..Len(ids) : i > Len(Active(ids)) => ids[i] = None

\* A section of a record: the input size of every coder stage, then the
\* bytes of the last one.  A coder adds one byte to what it is given: any
\* size would do, as long as it is not the same one.
Section(coders, b) ==
    LET s[k \in 0..Len(coders)] ==
            IF k = 0 THEN [table |-> <<>>, bytes |-> b]
            ELSE [table |-> Append(s[k - 1].table, s[k - 1].bytes.size),
                  bytes |-> Put(s[k - 1].bytes, coders[k], s[k - 1].bytes.size + 1)]
    IN  s[Len(coders)]
NoSection       == [table |-> <<>>, bytes |-> NoBytes]
\* The size of what the section holds.
HeldSize(s)     == IF s.table = <<>> THEN s.bytes.size ELSE s.table[1]
SectionSize(s)  == 4 * Len(s.table) + s.bytes.size
\* Mutant: the coders are undone in the order they were applied.
UnwoundForwards(coders, s) ==
    FoldLeft(LAMBDA b, k : Take(b, coders[k], s.table[k]), s.bytes,
             [k \in 1..Len(coders) |-> k])
\* Undoing the coders, the last one first, each to the size recorded for it.
Unwound(coders, s) ==
    LET b[k \in 0..Len(coders)] ==
            IF k = Len(coders) THEN s.bytes
            ELSE Take(b[k + 1], coders[k + 1], s.table[k + 1])
    IN  b[0]

----------------------------------------------------------------------------
(* tdc_block_record_validate, as far as the fields the encoder fills go, and *)
(* the decoder's own check of the bitmap's length.                         *)

ValidityBytes(n) == CeilDiv(n, 8)

HeaderValid(r) ==
    /\ r.has_validity <=> r.validity_size # 0
    /\ r.has_validity => r.validity_size = ValidityBytes(r.n)
    /\ Sticky(r.xform_ids)
    /\ Sticky(r.entropy_ids)
=============================================================================
