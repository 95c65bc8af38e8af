------------------------------ MODULE Plane2d ------------------------------
(***************************************************************************)
(* TDC_MODEL_PLANE_2D (src/model/plane2d.c): a raster is cut into tiles, a *)
(* plane a + b*x + c*y is fitted to each in fixed point, and what the      *)
(* plane misses is kept.  The coefficients travel in the side metadata,    *)
(* each tile's as the difference from what its neighbour's plane says.     *)
(*                                                                         *)
(* A coefficient is an integer of Bits(4) bits with FractionBits bits      *)
(* after the point (32 and 8 in the code).  The least-squares fit is done  *)
(* in doubles; FitTile computes it exactly, and the encoder takes the      *)
(* coefficients as an argument, since no property may rest on their value. *)
(***************************************************************************)
EXTENDS Elements, Symbols

CONSTANTS FractionBits,       \* PLANE2D_COEFF_SCALE_F is 2^FractionBits
          DefaultTile         \* PLANE2D_DEFAULT_TILE_SIZE

ASSUME PlaneAssumption == FractionBits \in Nat \ {0} /\ DefaultTile \in Nat \ {0}

I32Max    == 2^(Bits(4) - 1) - 1
I32(x)    == ToSigned(Bits(4), ToWord(Bits(4), x))
NoPlane   == <<0, 0, 0>>

PlaneAccepts(dtype) == dtype.kind \in {"signed", "unsigned"} /\ dtype.size # 8

----------------------------------------------------------------------------
(* Coefficients as bytes.                                                  *)

CoefZigzag(v)   == IF v >= 0 THEN 2 * v ELSE -2 * v - 1
CoefUnzigzag(u) == IF u % 2 = 0 THEN u \div 2 ELSE -((u + 1) \div 2)

CoefWrite(v) == VarintEncode(CoefZigzag(v))

CoefBytes == (Bits(4) + PayloadBits - 1) \div PayloadBits

\* A coefficient and what is left of the bytes; it may not be longer than
\* CoefBytes, nor its last byte hold more than the word has room for.
CoefRead(bytes) ==
    LET head == SubSeq(bytes, 1, MinOf(Len(bytes), CoefBytes))
        v    == VarintDecode(head)
        room == 2^(Bits(4) - (CoefBytes - 1) * PayloadBits)
        bad  == \/ v.used = 0
                \/ Len(head) = CoefBytes /\ v.used = CoefBytes /\ head[CoefBytes].payload >= room
    IN  IF bad THEN [ok |-> FALSE, value |-> 0, rest |-> bytes]
        ELSE [ok |-> TRUE, value |-> CoefUnzigzag(v.value),
              rest |-> SubSeq(bytes, v.used + 1, Len(bytes))]

----------------------------------------------------------------------------
(* Tiles, in rows from the top left.                                       *)

Tiling(nx, ny, tile) ==
    LET x == (nx + tile - 1) \div tile
        y == (ny + tile - 1) \div tile
    IN  [x |-> x, y |-> y, n |-> (x * y) % 2^Bits(4)]

TileBox(nx, ny, tile, t, k) ==
    LET x0 == (k % t.x) * tile
        y0 == (k \div t.x) * tile
    IN  [x0 |-> x0, y0 |-> y0, x1 |-> MinOf(x0 + tile, nx), y1 |-> MinOf(y0 + tile, ny)]

\* What the planes before it say of the plane of tile k: the left neighbour's,
\* or in the first column that of the tile above.
PredictFromLeft(tile, p) == <<I32(p[1] + p[2] * tile), p[2], p[3]>>
PredictFromTop(tile, p)  == <<I32(p[1] + p[3] * tile), p[2], p[3]>>

TilePrediction(tile, t, coeffs, k) ==
    CASE k % t.x > 0 -> PredictFromLeft(tile, coeffs[k])
      [] k % t.x = 0 /\ k > 0 -> PredictFromTop(tile, coeffs[k - t.x + 1])
      [] k = 0 -> NoPlane

SideWrite(tile, t, nores, coeffs) ==
    [tile |-> tile, tiles |-> t.n, nores |-> nores, reserved |-> 0,
     stream |-> FlattenSeq([k \in 1..Len(coeffs) |->
                    LET p == TilePrediction(tile, t, coeffs, k - 1)
                    IN  FlattenSeq([j \in 1..3 |-> CoefWrite(I32(coeffs[k][j] - p[j]))])])]

\* The coefficients back from the stream, and whether it held all of them.
SideRead(tile, t, stream) ==
    LET next(st, k) ==
            LET p == TilePrediction(tile, t, st.coeffs, k)
                a == CoefRead(st.rest)
                b == CoefRead(a.rest)
                c == CoefRead(b.rest)
            IN  [ok |-> st.ok /\ a.ok /\ b.ok /\ c.ok, rest |-> c.rest,
                 coeffs |-> Append(st.coeffs, <<I32(p[1] + a.value), I32(p[2] + b.value),
                                                I32(p[3] + c.value)>>)]
        st[k \in 0..t.n] ==
            IF k = 0 THEN [ok |-> TRUE, rest |-> stream, coeffs |-> <<>>]
            ELSE LET before == st[k - 1] IN IF before.ok THEN next(before, k - 1) ELSE before
    IN  st[t.n]

----------------------------------------------------------------------------
(* Planes.                                                                 *)

\* Nearest integer, a half away from zero: in 64 bits, and in 32, where the
\* half that is added can carry into the sign.
RoundDiv64(acc) ==
    LET q == (Abs(acc) + 2^(FractionBits - 1)) \div 2^FractionBits
    IN  IF acc < 0 THEN -q ELSE q
RoundDiv32(sum) ==
    LET acc == I32(sum)
        q   == I32(Abs(acc) + 2^(FractionBits - 1)) \div 2^FractionBits
    IN  IF acc < 0 THEN -q ELSE q

PlaneAt(p, x, y) == p[1] + p[2] * x + p[3] * y
PlaneEval(p, x, y) == RoundDiv64(PlaneAt(p, x, y))

\* The plane nearest to the pixels of a tile, or their mean where no plane is
\* determined, rounded to fixed point.
FitTile(dtype, src, nx, box) ==
    LET w   == box.x1 - box.x0
        n   == w * (box.y1 - box.y0)
        px(i) == i % w
        py(i) == i \div w
        v(i)  == LET p == (box.y0 + py(i)) * nx + box.x0 + px(i) + 1
                     e == src[p]
                 IN  IF dtype.kind = "signed" THEN ToSigned(Bits(dtype.size), e) ELSE e
        Sum(f(_)) == LET s[k \in 0..n] == IF k = 0 THEN 0 ELSE s[k - 1] + f(k - 1) IN s[n]
        sx  == Sum(px)
        sy  == Sum(py)
        sxx == Sum(LAMBDA i : px(i) * px(i))
        sxy == Sum(LAMBDA i : px(i) * py(i))
        syy == Sum(LAMBDA i : py(i) * py(i))
        sv  == Sum(v)
        svx == Sum(LAMBDA i : v(i) * px(i))
        svy == Sum(LAMBDA i : v(i) * py(i))
        det == n * (sxx * syy - sxy * sxy) - sx * (sx * syy - sxy * sy)
               + sy * (sx * sxy - sxx * sy)
        a == sv * (sxx * syy - sxy * sxy) - svx * (sx * syy - sxy * sy)
             + svy * (sx * sxy - sxx * sy)
        b == n * (svx * syy - svy * sxy) - sx * (sv * syy - svy * sy)
             + sy * (sv * sxy - svx * sy)
        c == n * (sxx * svy - sxy * svx) - sx * (sx * svy - sxy * sv)
             + sy * (sx * svx - sxx * sv)
        Fixed(num, den) ==
            LET scaled == 2 * Abs(num) * 2^FractionBits
                q      == (scaled + den) \div (2 * den)
            IN  I32(IF num < 0 THEN -q ELSE q)
    IN  IF n >= 3 /\ det > 0 THEN <<Fixed(a, det), Fixed(b, det), Fixed(c, det)>>
        ELSE <<Fixed(sv, n), 0, 0>>

----------------------------------------------------------------------------
(* Encode.                                                                 *)

TileAt(nx, tile, t, i) == ((i \div nx) \div tile) * t.x + (i % nx) \div tile

\* The plane's value at pixel i.
PlanePrediction(nx, tile, t, coeffs, i) ==
    PlaneEval(coeffs[TileAt(nx, tile, t, i) + 1], (i % nx) % tile, (i \div nx) % tile)

FitAll(dtype, nx, ny, tile, src) ==
    LET t == Tiling(nx, ny, tile)
    IN  Eager([k \in 1..t.n |-> FitTile(dtype, src, nx, TileBox(nx, ny, tile, t, k - 1))])

\* asked is the caller's tile size; coeffs the fitted planes.  Residuals that
\* are all zero are not kept.
Plane2dEncode(dtype, asked, nx, ny, coeffs, src) ==
    LET tile == IF asked = 0 THEN DefaultTile ELSE asked
        t    == Tiling(nx, ny, tile)
        res  == Eager([p \in DOMAIN src |->
                    ToWord(Bits(dtype.size),
                           src[p] - PlanePrediction(nx, tile, t, coeffs, p - 1))])
        zero == \A p \in DOMAIN res : res[p] = 0
    IN  CASE ~ PlaneAccepts(dtype) -> Fails("dtype")
          [] PlaneAccepts(dtype) /\ src = <<>> ->
                [status |-> "ok", data |-> <<>>,
                 side   |-> [tile |-> tile, tiles |-> 0, nores |-> FALSE, reserved |-> 0,
                             stream |-> <<>>]]
          [] PlaneAccepts(dtype) /\ src # <<>> /\ t.n \div t.x # t.y -> Fails("shape")
          [] OTHER -> [status |-> "ok", data |-> IF zero THEN <<>> ELSE res,
                       side   |-> SideWrite(tile, t, zero, coeffs)]

----------------------------------------------------------------------------
(* Decode.                                                                 *)

\* _mm256_packs_epi32 and _mm_packus_epi16: a lane that does not fit becomes
\* the largest or smallest value that does.
PackSigned(w, x)   == MinOf(MaxOf(x, -(2^(w - 1))), 2^(w - 1) - 1)
PackUnsigned(w, x) == MinOf(MaxOf(x, 0), 2^w - 1)

\* Eight lanes of predictions as elements of size bytes.
StoreLanes(size, preds) ==
    [j \in DOMAIN preds |->
        CASE size = 4 -> ToWord(Bits(4), preds[j])
          [] size = 2 -> ToWord(Bits(2), PackSigned(Bits(2), preds[j]))
          [] size = 1 -> PackUnsigned(Bits(1), PackSigned(Bits(2), preds[j]))]

\* avx2_round_div256_epi32: the shift takes the sum as unsigned.
RoundDivAvx2(sum) ==
    LET acc == I32(sum)
        q   == ToWord(Bits(4), Abs(acc) + 2^(FractionBits - 1)) \div 2^FractionBits
    IN  IF acc < 0 THEN -q ELSE q

\* A row of a tile of which nothing is kept, in registers of eight pixels and
\* a tail; and one whose residuals are added, which has registers for words of
\* four bytes only.
NoresRowAvx2(size, accs) ==
    LET body == 8 * (Len(accs) \div 8)
        regs == [k \in 0..Len(accs) \div 8 - 1 |->
                    StoreLanes(size, [j \in 1..8 |-> RoundDivAvx2(accs[8 * k + j])])]
    IN  [j \in DOMAIN accs |->
            IF j <= body THEN regs[(j - 1) \div 8][((j - 1) % 8) + 1]
                         ELSE ToWord(Bits(size), RoundDiv32(accs[j]))]

ResRowAvx2(size, accs, res) ==
    LET body == 8 * (Len(accs) \div 8)
    IN  [j \in DOMAIN accs |->
            ToWord(Bits(size), res[j] + (IF size = 4 /\ j <= body THEN RoundDivAvx2(accs[j])
                                         ELSE RoundDiv32(accs[j])))]

NoresRow(build, size, accs) ==
    IF build = "avx2" THEN NoresRowAvx2(size, accs)
    ELSE [j \in DOMAIN accs |-> ToWord(Bits(size), RoundDiv32(accs[j]))]

ResRow(build, size, accs, res) ==
    IF build = "avx2" THEN ResRowAvx2(size, accs, res)
    ELSE [j \in DOMAIN accs |-> ToWord(Bits(size), res[j] + RoundDiv32(accs[j]))]

\* Mutant: the farthest pixel of the tile is left out of the bound.
MaxAccFlat(p, box) == Abs(p[1])
\* A bound on the accumulator over a tile.
MaxAcc(p, box) ==
    Abs(p[1]) + Abs(p[2]) * (box.x1 - box.x0 - 1) + Abs(p[3]) * (box.y1 - box.y0 - 1)

\* Row y of a tile, of plane p: a constant, a sum in 32 bits, or one in 64.
TileRow(build, size, nores, p, box, y, res) ==
    LET accs == [j \in 1..box.x1 - box.x0 |-> PlaneAt(p, j - 1, y)]
        word(x) == ToWord(Bits(size), x)
        kept(j) == IF nores THEN 0 ELSE res[j]
    IN  CASE p[2] = 0 /\ p[3] = 0 ->
                [j \in DOMAIN accs |-> word(kept(j) + RoundDiv64(p[1]))]
          [] ~ (p[2] = 0 /\ p[3] = 0) /\ MaxAcc(p, box) <= I32Max ->
                IF nores THEN NoresRow(build, size, accs) ELSE ResRow(build, size, accs, res)
          [] OTHER -> [j \in DOMAIN accs |-> word(kept(j) + RoundDiv64(accs[j]))]

TileRows(build, size, nores, nx, p, box, res) ==
    Eager([y \in 1..box.y1 - box.y0 |->
        LET from == (box.y0 + y - 1) * nx
        IN  TileRow(build, size, nores, p, box, y - 1, Slice(res, from + box.x0, from + box.x1))])

\* The raster, where the side metadata is neither cut short nor too long.
PlanesDrawn(build, dtype, nx, ny, side, planes, res) ==
    LET t      == Tiling(nx, ny, side.tile)
        box(k) == TileBox(nx, ny, side.tile, t, k)
        rows   == Eager([k \in 1..t.n |->
                    TileRows(build, dtype.size, side.nores, nx, planes.coeffs[k], box(k - 1), res)])
        pixel(i) == LET k == TileAt(nx, side.tile, t, i)
                    IN  rows[k + 1][((i \div nx) % side.tile) + 1][((i % nx) % side.tile) + 1]
    IN  IF ~ planes.ok \/ planes.rest # <<>> THEN Fails("corrupt")
        ELSE Ok([i \in 1..nx * ny |-> pixel(i - 1)])

\* The driver fills in zeros for residuals that were not kept, so res is always
\* as long as the raster.
Plane2dDecode(build, dtype, nx, ny, side, res) ==
    LET t      == Tiling(nx, ny, side.tile)
    IN  CASE ~ PlaneAccepts(dtype) -> Fails("dtype")
          [] PlaneAccepts(dtype) /\ (side.tile = 0 \/ side.reserved # 0) -> Fails("corrupt")
          [] PlaneAccepts(dtype) /\ side.tile # 0 /\ side.reserved = 0 /\ nx * ny = 0 ->
                IF side.tiles = 0 /\ side.stream = <<>> /\ res = <<>> THEN Ok(<<>>)
                ELSE Fails("corrupt")
          [] OTHER ->
                IF Len(res) # nx * ny \/ t.n \div t.x # t.y \/ t.n # side.tiles
                THEN Fails("corrupt")
                ELSE PlanesDrawn(build, dtype, nx, ny, side,
                                 SideRead(side.tile, t, side.stream), res)
=============================================================================
