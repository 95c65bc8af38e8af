------------------------------ MODULE Stack2d ------------------------------
(***************************************************************************)
(* The two models built on PRED_2D: TDC_MODEL_STACK_2D (stack2d.c), one    *)
(* raster per slice, optionally less the slice before it, and              *)
(* TDC_MODEL_QUANTIZE_PRED_2D (quantize_pred2d.c), a raster of numbers     *)
(* rounded to integers and predicted as those.                             *)
(***************************************************************************)
EXTENDS Pred2d, Transforms

SliceOf(per, s, z) == Slice(s, z * per, (z + 1) * per)

\* inter_slice_subtract and inter_slice_add.
InterSliceSubtract(size, cur, prev) ==
    [i \in DOMAIN cur |-> Sub(Bits(size), cur[i], prev[i])]
InterSliceAdd(size, cur, prev) ==
    [i \in DOMAIN cur |-> Add(Bits(size), cur[i], prev[i])]

Stack2dAccepts(dtype) == dtype.kind # "string" /\ (dtype.size = 8 => dtype.kind = "float")

\* The kind is chosen once, from the first slice; for no pixels at all the
\* one that was asked for is written down unchecked.
Stack2dEncodeAs(build, dtype, kind, inter, nz, ny, nx, src) ==
    LET per == ny * nx
        input(z) == IF inter /\ z > 0
                    THEN InterSliceSubtract(dtype.size, SliceOf(per, src, z), SliceOf(per, src, z - 1))
                    ELSE SliceOf(per, src, z)
        out[z \in 0..nz] ==
            IF z = 0 THEN <<>>
            ELSE out[z - 1] \o Pred2dEncodeAs(build, dtype, kind, nx, ny, Eager(input(z - 1))).data
    IN  CASE ~Stack2dAccepts(dtype) -> Fails("dtype")
          [] Stack2dAccepts(dtype) /\ src # <<>> /\ kind \notin Pred2dKinds -> Fails("inval")
          [] OTHER -> [status |-> "ok", side |-> <<kind, inter>>,
                       data |-> IF src = <<>> THEN <<>> ELSE out[nz]]

Stack2dEncode(build, dtype, p, nz, ny, nx, src) ==
    LET first == Pred2dEncode(build, dtype, "auto", nx, ny, SliceOf(ny * nx, src, 0))
        kind  == CASE p.kind = "auto" /\ src = <<>> -> "paeth"
                   [] p.kind = "auto" /\ src # <<>> -> first.side[1]
                   [] p.kind # "auto" -> p.kind
    IN  Stack2dEncodeAs(build, dtype, kind, p.inter, nz, ny, nx, src)

\* A slice, on the one before it.
SliceRestored(dtype, inter, slice, prev) ==
    IF inter THEN InterSliceAdd(dtype.size, slice, prev) ELSE slice

Stack2dDecode(build, dtype, nz, ny, nx, side, res) ==
    LET per == ny * nx
        out[z \in 0..nz] ==
            IF z = 0 THEN <<>>
            ELSE LET d     == out[z - 1]
                     slice == Pred2dDecode(build, dtype, nx, ny, <<side[1]>>,
                                           SliceOf(per, res, z - 1)).data
                 IN  d \o SliceRestored(dtype, side[2] /\ z > 1, slice, SliceOf(per, d, z - 2))
    IN  CASE ~Stack2dAccepts(dtype) -> Fails("dtype")
          [] Stack2dAccepts(dtype) /\ (\/ Len(res) # nz * per
                                       \/ side[1] \notin Pred2dKinds) -> Fails("corrupt")
          [] OTHER -> Ok(IF res = <<>> THEN <<>> ELSE out[nz])

----------------------------------------------------------------------------
(* The quantised raster.  p adds to the parameters of the quantiser the    *)
(* kind of predictor; elements and residuals are words of the target.      *)

Qp2Accepts(dtype) == dtype.kind = "float" /\ dtype.size # 2

Qp2Target(p) == [size |-> p.target, kind |-> "signed"]

\* The integers the predictor sees: what the quantiser would make of src.
Qp2Integers(p, src) ==
    Eager([i \in DOMAIN src |-> ToWord(Bits(p.target), QuantizeOne(p, src[i]))])

Qp2EncodeAs(build, dtype, p, kind, nx, ny, ints) ==
    CASE ~Qp2Accepts(dtype) -> Fails("dtype")
      [] Qp2Accepts(dtype) /\ (\/ p.target \notin QuantizeTargets
                               \/ p.num = 0
                               \/ ints # <<>> /\ kind \notin Pred2dKinds) -> Fails("inval")
      [] OTHER -> [status |-> "ok", dtype |-> Qp2Target(p),
                   side |-> [p EXCEPT !.kind = kind],
                   data |-> IF ints = <<>> THEN <<>>
                            ELSE EncodeSweep(build, Qp2Target(p), kind, nx, ny, ints)]

Qp2Encode(build, dtype, p, nx, ny, src) ==
    LET ints == Qp2Integers(p, src)
        kind == CASE p.kind # "auto" -> p.kind
                  [] p.kind = "auto" /\ src = <<>> -> "average"
                  [] p.kind = "auto" /\ src # <<>> -> AutoSelect(Qp2Target(p), nx, ny, ints)
    IN  Qp2EncodeAs(build, dtype, p, kind, nx, ny, ints)

\* Decode takes the parameters from the side metadata.
Qp2Decode(build, dtype, nx, ny, side, res) ==
    LET ints == DecodeSweep(build, Qp2Target(side), side.kind, nx, ny, res)
        value(e) == LET iv == ToSigned(Bits(side.target), e)
                    IN  [num |-> iv * side.den + side.offset * side.num, den |-> side.num]
    IN  CASE ~Qp2Accepts(dtype) -> Fails("dtype")
          [] Qp2Accepts(dtype) /\ (\/ side.target \notin QuantizeTargets
                                   \/ side.kind \notin Pred2dKinds
                                   \/ side.num = 0
                                   \/ Len(res) # nx * ny) -> Fails("corrupt")
          [] OTHER -> Ok(IF res = <<>> THEN <<>> ELSE [i \in DOMAIN res |-> value(ints[i])])
=============================================================================
