----------------------------- MODULE Transforms -----------------------------
(***************************************************************************)
(* The element-wise transforms (src/transform/zigzag.c, complement.c,      *)
(* quantize.c).  A quantised number is a fraction or one of the three      *)
(* values a float can have besides; sums and products are exact, since     *)
(* what a double rounds away is below anything asked about here.           *)
(***************************************************************************)
EXTENDS Elements

ZigzagSizes == {1, 2, 4, 8}

\* A sign moves to the lowest bit; the others are inverted under it.
ZigzagEnc(w, v) ==
    Xor(w, Shl(w, v, 1), IF Shr(v, w - 1) = 1 THEN 2^w - 1 ELSE 0)
ZigzagDec(w, z) == Xor(w, Shr(z, 1), Neg(w, z % 2))

ZigzagEncode(dtype, src) ==
    IF dtype.kind # "signed" THEN Fails("dtype")
    ELSE [status |-> "ok", dtype |-> [dtype EXCEPT !.kind = "unsigned"],
          data   |-> [i \in DOMAIN src |-> ZigzagEnc(Bits(dtype.size), src[i])]]

\* Decode is told the dtype the encoder was given.
ZigzagDecode(dtype, src) ==
    IF dtype.kind # "signed" THEN Fails("dtype")
    ELSE [status |-> "ok", dtype |-> dtype,
          data   |-> [i \in DOMAIN src |-> ZigzagDec(Bits(dtype.size), src[i])]]

\* Every byte inverted, in both directions.
ComplementBytes(dtype, bytes) ==
    IF dtype.kind = "string" THEN Fails("dtype")
    ELSE Ok([k \in DOMAIN bytes |-> 2^ByteBits - 1 - bytes[k]])

----------------------------------------------------------------------------
(* Quantise: v becomes round((v - offset) * scale) in the target's range.  *)
(* scale = num / den with den > 0, num # 0; v and offset are integers.     *)

Number(x) == [kind |-> "finite", int |-> x]
NaN       == [kind |-> "nan", int |-> 0]
PosInf    == [kind |-> "inf", int |-> 0]
NegInf    == [kind |-> "-inf", int |-> 0]

TargetMin(target) == -(2^(Bits(target) - 1))
TargetMax(target) == 2^(Bits(target) - 1) - 1

\* The integer nearest to num / den; a half goes away from zero.
RoundHalfAway(num, den) ==
    IF num >= 0 THEN (2 * num + den) \div (2 * den)
                ELSE -((den - 2 * num) \div (2 * den))

Clamp(lo, hi, x) == MaxOf(lo, MinOf(hi, x))

\* Mutant: the fraction is cut off and not rounded.
QuantizeOneDown(p, v) ==
    LET lo == TargetMin(p.target)
        hi == TargetMax(p.target)
    IN  CASE v.kind = "nan" -> lo
          [] v.kind = "inf" -> IF p.num > 0 THEN hi ELSE lo
          [] v.kind = "-inf" -> IF p.num > 0 THEN lo ELSE hi
          [] v.kind = "finite" -> Clamp(lo, hi, ((v.int - p.offset) * p.num) \div p.den)
QuantizeOne(p, v) ==
    LET lo == TargetMin(p.target)
        hi == TargetMax(p.target)
    IN  CASE v.kind = "nan" -> lo
          [] v.kind = "inf" -> IF p.num > 0 THEN hi ELSE lo
          [] v.kind = "-inf" -> IF p.num > 0 THEN lo ELSE hi
          [] v.kind = "finite" -> Clamp(lo, hi, RoundHalfAway((v.int - p.offset) * p.num, p.den))

QuantizeTargets == {1, 2, 4}

QuantizeEncode(dtype, p, src) ==
    CASE dtype.kind # "float" -> Fails("dtype")
      [] dtype.kind = "float" /\ (p.target \notin QuantizeTargets \/ p.num = 0) ->
            Fails("inval")
      [] OTHER -> [status |-> "ok", dtype |-> [size |-> p.target, kind |-> "signed"],
                   data |-> [i \in DOMAIN src |-> QuantizeOne(p, src[i])]]

\* iv / scale + offset, as a fraction over num.
QuantizeDecode(dtype, p, src) ==
    CASE dtype.kind # "float" -> Fails("dtype")
      [] dtype.kind = "float" /\ (p.target \notin QuantizeTargets \/ p.num = 0) ->
            Fails("inval")
      [] OTHER -> [status |-> "ok", dtype |-> dtype,
                   data |-> [i \in DOMAIN src |->
                                [num |-> src[i] * p.den + p.offset * p.num,
                                 den |-> p.num]]]
=============================================================================
