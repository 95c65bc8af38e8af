------------------------------- MODULE Pred3d -------------------------------
(***************************************************************************)
(* TDC_MODEL_PRED_3D (src/model/pred3d.c, pred3d_float.c): every voxel is  *)
(* predicted from the seven that come before it in its 2 x 2 x 2 cube.  A  *)
(* volume is a flat sequence, x innermost, then y, then z.  The typed      *)
(* kernels go through a volume octant by octant: corner, edges, faces and  *)
(* inner box, in an order in which a decoder finds what it needs written.  *)
(***************************************************************************)
EXTENDS Elements, SequencesExt, FiniteSets

Pred3dKinds == {"left", "up", "front", "avg3", "grad3d", "paeth3d"}

\* The box has nx * ny * nz voxels; voxel i is at (x, y, z).
X(box, i) == i % box.nx
Y(box, i) == (i \div box.nx) % box.ny
Z(box, i) == i \div (box.nx * box.ny)

Slab(box)   == box.nx * box.ny
Volume(box) == Slab(box) * box.nz

\* Which of the neighbours a (left), b (above) and c (in front) voxel i has.
Octant(box, i) ==
    {f \in {"a", "b", "c"} : CASE f = "a" -> X(box, i) > 0
                               [] f = "b" -> Y(box, i) > 0
                               [] f = "c" -> Z(box, i) > 0}

\* The neighbours of voxel i in s, a function of the voxels: those across an
\* edge or a corner need both or all three, and what is missing is zero.
Neighbours(box, s, i) ==
    LET at(need, k) == IF need \subseteq Octant(box, i) THEN s[i - k] ELSE 0
        row  == box.nx
        slab == Slab(box)
    IN  [a   |-> at({"a"}, 1), b |-> at({"b"}, row), c |-> at({"c"}, slab),
         ab  |-> at({"a", "b"}, 1 + row), ac |-> at({"a", "c"}, 1 + slab),
         bc  |-> at({"b", "c"}, row + slab),
         abc |-> at({"a", "b", "c"}, 1 + row + slab)]

\* The linear predictor; on a face or an edge the missing terms are zero.
Gradient(n) == n.a + n.b + n.c - n.ab - n.ac - n.bc + n.abc

\* paeth32 and paeth64: the one of the three nearest to p.
Nearest(a, b, c, p) ==
    LET pa == Abs(p - a)
        pb == Abs(p - b)
        pc == Abs(p - c)
    IN  IF pa <= pb /\ pa <= pc THEN a ELSE IF pb <= pc THEN b ELSE c

\* The prediction, from the octant o and the neighbours n in the working type.
Predict3d(kind, o, n) ==
    CASE kind = "left" -> n.a
      [] kind = "up" -> n.b
      [] kind = "front" -> n.c
      [] kind = "avg3" -> IF o = {} THEN 0 ELSE Div(n.a + n.b + n.c, Cardinality(o))
      [] kind = "grad3d" -> Gradient(n)
      [] kind = "paeth3d" ->
            (CASE Cardinality(o) <= 1 -> n.a + n.b + n.c
               [] o = {"a", "b"} -> Nearest(n.a, n.b, n.ab, n.a + n.b - n.ab)
               [] o = {"a", "c"} -> Nearest(n.a, n.c, n.ac, n.a + n.c - n.ac)
               [] o = {"b", "c"} -> Nearest(n.b, n.c, n.bc, n.b + n.c - n.bc)
               [] Cardinality(o) = 3 -> Nearest(n.a, n.b, n.c, Gradient(n)))

----------------------------------------------------------------------------
(* Encoding.  A build with vector registers takes LEFT, UP and FRONT row   *)
(* by row (FRONT slab by slab) and the inner box of GRAD3D row by row.     *)

SubRowSse2(size, a, b) == SubRow(size, a, b)
AddRowSse2(size, a, b) == AddRow(size, a, b)
SubRowNeon(size, a, b) == SubRow(size, a, b)
AddRowNeon(size, a, b) == AddRow(size, a, b)

SubRow3d(build, size, a, b) ==
    CASE build = "sse2" -> SubRowSse2(size, a, b)
      [] build = "neon" -> SubRowNeon(size, a, b)
      [] build = "scalar" -> [i \in DOMAIN a |-> Sub(Bits(size), a[i], b[i])]
AddRow3d(build, size, a, b) ==
    CASE build = "sse2" -> AddRowSse2(size, a, b)
      [] build = "neon" -> AddRowNeon(size, a, b)
      [] build = "scalar" -> [i \in DOMAIN a |-> Add(Bits(size), a[i], b[i])]

\* Columns 1..nx-1 of a row of the inner box: seven additions of registers,
\* and the same for the columns that are left.
Grad3dRowSse2(size, s, sy, sz, syz) ==
    LET w     == Bits(size)
        lanes == Lanes(size)
        n     == Len(s) - 1
        body  == lanes * (n \div lanes)
        at(v, k) == Slice(v, k, k + lanes)
        reg(k) ==
            LET t1 == SubLanes(w, at(s, k + 1), at(s, k))
                t2 == SubLanes(w, t1, at(sy, k + 1))
                t3 == SubLanes(w, t2, at(sz, k + 1))
                t4 == AddLanes(w, t3, at(sy, k))
                t5 == AddLanes(w, t4, at(sz, k))
                t6 == AddLanes(w, t5, at(syz, k + 1))
            IN  SubLanes(w, t6, at(syz, k))
        tail(x) == ToWord(w, s[x + 1] - s[x] - sy[x + 1] - sz[x + 1]
                             + sy[x] + sz[x] + syz[x + 1] - syz[x])
    IN  [x \in 1..n |-> IF x <= body THEN reg(lanes * ((x - 1) \div lanes))[((x - 1) % lanes) + 1]
                                     ELSE tail(x)]

Grad3dRowNeon(size, s, sy, sz, syz) == Grad3dRowSse2(size, s, sy, sz, syz)

RowAt(box, s, y, z)  == Slice(s, z * Slab(box) + y * box.nx, z * Slab(box) + (y + 1) * box.nx)
SlabAt(box, s, z)    == Slice(s, z * Slab(box), (z + 1) * Slab(box))

\* Every row of a volume, in order, one after the other.
Rows(box) == [r \in 1..box.ny * box.nz |-> [y |-> (r - 1) % box.ny, z |-> (r - 1) \div box.ny]]

EncodeLeft(build, size, box, src) ==
    FlattenSeq([r \in DOMAIN Rows(box) |->
        LET row == RowAt(box, src, Rows(box)[r].y, Rows(box)[r].z)
        IN  <<row[1]>> \o SubRow3d(build, size, Tail(row), SubSeq(row, 1, box.nx - 1))])

EncodeUp(build, size, box, src) ==
    FlattenSeq([r \in DOMAIN Rows(box) |->
        LET at  == Rows(box)[r]
            row == RowAt(box, src, at.y, at.z)
        IN  IF at.y = 0 THEN row
            ELSE SubRow3d(build, size, row, RowAt(box, src, at.y - 1, at.z))])

EncodeFront(build, size, box, src) ==
    FlattenSeq([z \in 1..box.nz |->
        IF z = 1 THEN SlabAt(box, src, 0)
        ELSE SubRow3d(build, size, SlabAt(box, src, z - 1), SlabAt(box, src, z - 2))])

\* One voxel at a time.
EncodeVoxels(dtype, box, kind, src) ==
    LET s == [i \in 0..Volume(box) - 1 |-> Wide(dtype, src[i + 1])]
        w == Bits(dtype.size)
    IN  [p \in DOMAIN src |->
            ToWord(w, s[p - 1]
                      - Predict3d(kind, Octant(box, p - 1), Neighbours(box, s, p - 1)))]

EncodeGrad3d(build, dtype, box, src) ==
    LET voxels == EncodeVoxels(dtype, box, "grad3d", src)
        inner(y, z) ==
            LET f(row) == IF build = "neon"
                          THEN Grad3dRowNeon(dtype.size, row.s, row.sy, row.sz, row.syz)
                          ELSE Grad3dRowSse2(dtype.size, row.s, row.sy, row.sz, row.syz)
            IN  f([s   |-> RowAt(box, src, y, z),     sy  |-> RowAt(box, src, y - 1, z),
                   sz  |-> RowAt(box, src, y, z - 1), syz |-> RowAt(box, src, y - 1, z - 1)])
        row(y, z) == IF y = 0 \/ z = 0 \/ build = "scalar" THEN RowAt(box, voxels, y, z)
                     ELSE <<voxels[z * Slab(box) + y * box.nx + 1]>> \o inner(y, z)
    IN  FlattenSeq([r \in DOMAIN Rows(box) |-> row(Rows(box)[r].y, Rows(box)[r].z)])

EncodeTyped3d(build, dtype, box, kind, src) ==
    CASE kind = "left" -> EncodeLeft(build, dtype.size, box, src)
      [] kind = "up" -> EncodeUp(build, dtype.size, box, src)
      [] kind = "front" -> EncodeFront(build, dtype.size, box, src)
      [] kind = "grad3d" -> EncodeGrad3d(build, dtype, box, src)
      [] kind \in {"avg3", "paeth3d"} -> EncodeVoxels(dtype, box, kind, src)

----------------------------------------------------------------------------
(* Decoding, into voxels that start out as what nothing has written.       *)

Unwritten == 0

\* Mutant: the inner box before the faces it borders on.
OctantOrderInner ==
    <<{}, {"a"}, {"b"}, {"c"}, {"a", "b", "c"}, {"a", "b"}, {"a", "c"}, {"b", "c"}>>
\* The corner, the edges, the faces, and the inner box.
OctantOrder ==
    <<{}, {"a"}, {"b"}, {"c"}, {"a", "b"}, {"a", "c"}, {"b", "c"}, {"a", "b", "c"}>>

\* The voxels in the order the kernels of AVG3, GRAD3D and PAETH3D visit them.
OctantWalk(box) ==
    LET all == [i \in 1..Volume(box) |-> i - 1]
    IN  FlattenSeq([k \in 1..8 |->
            SelectSeq(all, LAMBDA i : Octant(box, i) = OctantOrder[k])])

\* d holds the voxels in the working type; a store keeps an element's bits.
DecodeWalk(dtype, box, kind, walk, res) ==
    LET w == Bits(dtype.size)
        dst[k \in 0..Len(walk)] ==
            IF k = 0 THEN [i \in 0..Volume(box) - 1 |-> Unwritten]
            ELSE LET d == dst[k - 1]
                     i == walk[k]
                     v == ToWord(w, res[i + 1]
                                    + Predict3d(kind, Octant(box, i), Neighbours(box, d, i)))
                 IN  [d EXCEPT ![i] = Wide(dtype, v)]
        done == dst[Len(walk)]
    IN  [p \in DOMAIN res |-> ToWord(w, done[p - 1])]

DecodeUp(build, size, box, res) ==
    LET rows == Rows(box)
        out[r \in 0..Len(rows)] ==
            IF r = 0 THEN <<>>
            ELSE LET d   == out[r - 1]
                     row == RowAt(box, res, rows[r].y, rows[r].z)
                 IN  d \o (IF rows[r].y = 0 THEN row
                           ELSE AddRow3d(build, size, row, RowAt(box, d, rows[r].y - 1, rows[r].z)))
    IN  out[Len(rows)]

DecodeFront(build, size, box, res) ==
    LET out[z \in 0..box.nz] ==
            IF z = 0 THEN <<>>
            ELSE LET d == out[z - 1]
                 IN  d \o (IF z = 1 THEN SlabAt(box, res, 0)
                           ELSE AddRow3d(build, size, SlabAt(box, res, z - 1), SlabAt(box, d, z - 2)))
    IN  out[box.nz]

DecodeTyped3d(build, dtype, box, kind, res) ==
    CASE kind = "left" -> DecodeWalk(dtype, box, kind, [i \in DOMAIN res |-> i - 1], res)
      [] kind = "up" -> DecodeUp(build, dtype.size, box, res)
      [] kind = "front" -> DecodeFront(build, dtype.size, box, res)
      [] kind \in {"avg3", "grad3d", "paeth3d"} ->
            DecodeWalk(dtype, box, kind, OctantWalk(box), res)

----------------------------------------------------------------------------
(* Floats, in the order of their numbers; every sum wraps at 64 bits.      *)

FloatCompute(kind, o, n) ==
    LET w     == Bits(8)
        sum   == ToWord(w, n.a + n.b + n.c)
        p     == ToWord(w, Gradient(n))
        pick(pa, pb, pc) == IF pa <= pb /\ pa <= pc THEN n.a ELSE IF pb <= pc THEN n.b ELSE n.c
    IN  CASE kind = "left" -> n.a
          [] kind = "up" -> n.b
          [] kind = "front" -> n.c
          [] kind = "avg3" -> IF o = {} THEN 0 ELSE sum \div Cardinality(o)
          [] kind = "grad3d" -> p
          [] kind = "paeth3d" ->
                (CASE Cardinality(o) <= 1 -> sum
                   [] o = {"a", "b"} -> PaethOrdered(n.a, n.b, n.ab)
                   [] o = {"a", "c"} -> PaethOrdered(n.a, n.c, n.ac)
                   [] o = {"b", "c"} -> PaethOrdered(n.b, n.c, n.bc)
                   [] Cardinality(o) = 3 ->
                         pick(AbsDiff(w, p, n.a), AbsDiff(w, p, n.b), AbsDiff(w, p, n.c)))

EncodeFloatVoxels(dtype, box, kind, src) ==
    LET w == Bits(dtype.size)
        s == [i \in 0..Volume(box) - 1 |-> Ordered(w, src[i + 1])]
    IN  [p \in DOMAIN src |->
            ToWord(w, s[p - 1]
                      - FloatCompute(kind, Octant(box, p - 1), Neighbours(box, s, p - 1)))]

\* f32_ord_4x: the sign of each lane spread over it, the top bit set, and that
\* exclusive-or the lane.
OrderedLanes(v) ==
    LET w == Bits(4)
        spread(e) == IF e >= 2^(w - 1) THEN 2^w - 1 ELSE 0
    IN  [i \in DOMAIN v |-> Xor(w, v[i], Or(w, spread(v[i]), 2^(w - 1)))]

OrderedRow(build, row) ==
    LET body == 4 * (Len(row) \div 4)
    IN  IF build # "sse2" THEN [i \in DOMAIN row |-> Ordered(Bits(4), row[i])]
        ELSE OrderedLanes(SubSeq(row, 1, body))
             \o [i \in 1..Len(row) - body |-> Ordered(Bits(4), row[body + i])]

\* pred3d_enc_f32_*: rows of differences of ordered words; the first row (or
\* slab, or column) is the ordered words themselves.
EncodeF32(build, box, kind, src) ==
    LET ordered == OrderedRow(build, src)
        rows    == IF build = "sse2" THEN "sse2" ELSE "scalar"
    IN  CASE kind = "left" -> EncodeLeft(rows, 4, box, ordered)
          [] kind = "up" -> EncodeUp(rows, 4, box, ordered)
          [] kind = "front" -> EncodeFront(rows, 4, box, ordered)
          [] kind = "grad3d" ->
                EncodeGrad3d(rows, [size |-> 4, kind |-> "unsigned"], box, ordered)

EncodeFloat3d(build, dtype, box, kind, src) ==
    IF dtype.size = 4 /\ kind \in {"left", "up", "front", "grad3d"}
    THEN EncodeF32(build, box, kind, src)
    ELSE EncodeFloatVoxels(dtype, box, kind, src)

DecodeFloat3d(dtype, box, kind, res) ==
    LET w == Bits(dtype.size)
        dst[i \in 0..Volume(box)] ==
            IF i = 0 THEN [v \in 0..Volume(box) - 1 |-> Unwritten]
            ELSE LET d == dst[i - 1]
                     o == Octant(box, i - 1)
                 IN  [d EXCEPT ![i - 1] =
                        ToWord(w, res[i] + FloatCompute(kind, o, Neighbours(box, d, i - 1)))]
        done == dst[Volume(box)]
    IN  [p \in DOMAIN res |-> Unordered(w, done[p - 1])]

----------------------------------------------------------------------------
(* The choice of the predictor, and the two entry points.                  *)

CONSTANT VoxelSample    \* PRED3D_AUTO_SAMPLE: the voxels that are scored

ASSUME VoxelAssumption == VoxelSample \in Nat \ {0}

\* The prediction in 64-bit words; the average of two is taken bit by bit.
ComputeU3d(kind, o, n) ==
    LET w == Bits(8)
        mean(x, y) == And(w, x, y) + Shr(Xor(w, x, y), 1)
    IN  IF kind = "avg3" /\ Cardinality(o) = 2
        THEN CASE o = {"a", "b"} -> mean(n.a, n.b)
               [] o = {"a", "c"} -> mean(n.a, n.c)
               [] o = {"b", "c"} -> mean(n.b, n.c)
        ELSE FloatCompute(kind, o, n)

SampleRows3d(box) ==
    MinOf(box.ny * box.nz, MaxOf(1, MinOf(Volume(box), VoxelSample) \div box.nx))

Score3d(dtype, box, kind, src) ==
    LET w == Bits(8)
        s == [i \in 0..Volume(box) - 1 |-> LoadWide(dtype, src[i + 1])]
        sum[k \in 0..SampleRows3d(box) * box.nx] ==
            IF k = 0 THEN 0
            ELSE LET i == k - 1
                 IN  Add(w, sum[k - 1],
                         AbsDiff(w, s[i], ComputeU3d(kind, Octant(box, i), Neighbours(box, s, i))))
    IN  sum[SampleRows3d(box) * box.nx]

AutoOrder3d == <<"left", "up", "front", "avg3", "grad3d", "paeth3d">>

AutoSelect3d(dtype, box, src) ==
    BestKind(AutoOrder3d, Eager([k \in 1..6 |-> Score3d(dtype, box, AutoOrder3d[k], src)]), "grad3d")

Pred3dAccepts(dtype) == dtype.kind # "string" /\ (dtype.size = 8 => dtype.kind = "float")

EncodeSweep3d(build, dtype, box, kind, src) ==
    IF dtype.kind = "float" THEN EncodeFloat3d(build, dtype, box, kind, src)
                            ELSE EncodeTyped3d(build, dtype, box, kind, src)
DecodeSweep3d(build, dtype, box, kind, res) ==
    IF dtype.kind = "float" THEN DecodeFloat3d(dtype, box, kind, res)
                            ELSE DecodeTyped3d(build, dtype, box, kind, res)

\* The side metadata is the kind the encoder settled on.
Pred3dEncodeAs(build, dtype, kind, box, src) ==
    CASE ~Pred3dAccepts(dtype) -> Fails("dtype")
      [] Pred3dAccepts(dtype) /\ kind \notin Pred3dKinds -> Fails("inval")
      [] OTHER -> [status |-> "ok", side |-> <<kind>>,
                   data |-> IF src = <<>> THEN <<>>
                            ELSE EncodeSweep3d(build, dtype, box, kind, src)]

Pred3dEncode(build, dtype, kind, box, src) ==
    LET chosen == CASE kind = "auto" /\ src = <<>> -> "grad3d"
                    [] kind = "auto" /\ src # <<>> -> AutoSelect3d(dtype, box, src)
                    [] kind # "auto" -> kind
    IN  Pred3dEncodeAs(build, dtype, chosen, box, src)

Pred3dDecode(build, dtype, box, side, res) ==
    CASE ~Pred3dAccepts(dtype) -> Fails("dtype")
      [] Pred3dAccepts(dtype) /\ (\/ Len(res) # Volume(box)
                                 \/ Len(side) # 1
                                 \/ side[1] \notin Pred3dKinds) -> Fails("corrupt")
      [] OTHER -> Ok(IF res = <<>> THEN <<>>
                     ELSE DecodeSweep3d(build, dtype, box, side[1], res))
=============================================================================
