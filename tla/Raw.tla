-------------------------------- MODULE Raw --------------------------------
(***************************************************************************)
(* The model without a prediction (src/model/raw.c): the block is its own  *)
(* residual, and what is checked is its shape.  A block is [layout, dims,  *)
(* src]; dims are signed 64-bit numbers in the code, bounded by DimMax     *)
(* here.                                                                   *)
(***************************************************************************)
EXTENDS Elements

CONSTANT DimMax     \* INT64_MAX

ASSUME RawAssumption == DimMax \in Nat \ {0}

ExpectedRank(layout) ==
    CASE layout = "vector_1d" -> 1
      [] layout = "raster_2d" -> 2
      [] layout \in {"stack_2d", "volume_3d"} -> 3
      [] OTHER -> -1

\* Mutant: the product is compared once it is made.
NElemsUnguarded(dims) ==
    LET n[i \in 0..Len(dims)] ==
            IF i = 0 THEN 1
            ELSE LET before == n[i - 1]
                 IN  IF before = -1 \/ dims[i] < 0 THEN -1
                     ELSE (before * dims[i]) % (DimMax + 1)
    IN  n[Len(dims)]
\* The product of the dimensions, -1 where one is negative or where it
\* would leave the range on the way.
NElems(dims) ==
    LET n[i \in 0..Len(dims)] ==
            IF i = 0 THEN 1
            ELSE LET before == n[i - 1]
                 IN  IF \/ before = -1 \/ dims[i] < 0
                        \/ dims[i] # 0 /\ before > DimMax \div dims[i]
                     THEN -1 ELSE before * dims[i]
    IN  n[Len(dims)]

RawEncode(block) ==
    CASE Len(block.dims) # ExpectedRank(block.layout) -> Fails("shape")
      [] Len(block.dims) = ExpectedRank(block.layout) /\ NElems(block.dims) < 0 ->
            Fails("shape")
      [] OTHER -> Ok(SubSeq(block.src, 1, NElems(block.dims)))

RawDecode(block, res) ==
    CASE Len(block.dims) # ExpectedRank(block.layout) -> Fails("shape")
      [] Len(block.dims) = ExpectedRank(block.layout) /\ NElems(block.dims) < 0 ->
            Fails("shape")
      [] OTHER -> IF Len(res) # NElems(block.dims) THEN Fails("corrupt") ELSE Ok(res)
=============================================================================
