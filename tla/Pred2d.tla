------------------------------- MODULE Pred2d -------------------------------
(***************************************************************************)
(* TDC_MODEL_PRED_2D (src/model/pred2d.c): every pixel of a raster is      *)
(* predicted from the pixels left of it, above it and above left of it,    *)
(* and only the difference is kept.  A raster is a flat sequence of ny     *)
(* rows of nx elements.  Decoding u16 rasters under PAETH is done in       *)
(* wavefronts: several rows at once, each a column behind the one above.   *)
(***************************************************************************)
EXTENDS Elements, SequencesExt

Pred2dKinds == {"left", "up", "average", "paeth"}

----------------------------------------------------------------------------
(* The predictor of integers, in the working type: 32 bits for elements of *)
(* one and two bytes, 64 for those of four and eight.                      *)

Paeth32(a, b, c) ==
    LET bc == b - c
        ac == a - c
        pa == Abs(bc)
        pb == Abs(ac)
        pc == Abs(bc + ac)
    IN  IF pa <= pb /\ pa <= pc THEN a ELSE IF pb <= pc THEN b ELSE c

Paeth64(a, b, c) ==
    LET p  == Work(8, a + b - c)
        pa == Work(8, IF p > a THEN p - a ELSE a - p)
        pb == Work(8, IF p > b THEN p - b ELSE b - p)
        pc == Work(8, IF p > c THEN p - c ELSE c - p)
    IN  IF pa <= pb /\ pa <= pc THEN a ELSE IF pb <= pc THEN b ELSE c

\* What pixel i of s, whose neighbours are known, is predicted to be.
Prediction(dtype, kind, nx, s, i) ==
    LET read(j) == Wide(dtype, s[j + 1])
        left    == read(i - 1)
        up      == read(i - nx)
        upleft  == read(i - nx - 1)
        row     == i \div nx
        col     == i % nx
    IN  CASE row = 0 /\ col = 0 -> 0
          [] row = 0 /\ col > 0 ->
                (CASE kind \in {"left", "paeth"} -> left
                   [] kind = "up" -> 0
                   [] kind = "average" -> Half(left))
          [] row > 0 /\ col = 0 ->
                (CASE kind = "left" -> 0
                   [] kind \in {"up", "paeth"} -> up
                   [] kind = "average" -> Half(up))
          [] row > 0 /\ col > 0 ->
                (CASE kind = "left" -> left
                   [] kind = "up" -> up
                   [] kind = "average" -> Half(Work(dtype.size, left + up))
                   [] kind = "paeth" ->
                         IF dtype.size <= 2 THEN Paeth32(left, up, upleft)
                                            ELSE Paeth64(left, up, upleft))

\* A row under UP: whole registers first, and the elements that are left.
UpEncRowSse2(size, cur, prev) == SubRow(size, cur, prev)
UpDecRowSse2(size, res, prev) == AddRow(size, res, prev)

\* vsubq and vaddq have the lanes of the x86 registers.
UpEncRowNeon(size, cur, prev) == SubRow(size, cur, prev)
UpDecRowNeon(size, res, prev) == AddRow(size, res, prev)

UpEncRow(build, size, cur, prev) ==
    CASE build = "sse2" -> UpEncRowSse2(size, cur, prev)
      [] build = "neon" -> UpEncRowNeon(size, cur, prev)
      [] build = "scalar" -> [i \in DOMAIN cur |-> Sub(Bits(size), cur[i], prev[i])]

UpDecRow(build, size, res, prev) ==
    CASE build = "sse2" -> UpDecRowSse2(size, res, prev)
      [] build = "neon" -> UpDecRowNeon(size, res, prev)
      [] build = "scalar" -> [i \in DOMAIN res |-> Add(Bits(size), res[i], prev[i])]

RowOf(nx, s, r) == Slice(s, r * nx, (r + 1) * nx)

\* pred2d_enc_T and pred2d_dec_T: the decoder reads what it has written.
EncodeTyped(build, dtype, kind, nx, ny, src) ==
    LET w == Bits(dtype.size)
    IN  IF kind = "up"
        THEN LET rows[r \in 0..ny - 1] ==
                    IF r = 0 THEN RowOf(nx, src, 0)
                    ELSE rows[r - 1]
                         \o UpEncRow(build, dtype.size, RowOf(nx, src, r), RowOf(nx, src, r - 1))
             IN  rows[ny - 1]
        ELSE [p \in DOMAIN src |->
                Sub(w, src[p], ToWord(w, Prediction(dtype, kind, nx, src, p - 1)))]

DecodeTyped(build, dtype, kind, nx, ny, res) ==
    LET w == Bits(dtype.size)
        rows[r \in 0..ny - 1] ==
            IF r = 0 THEN RowOf(nx, res, 0)
            ELSE LET d == rows[r - 1]
                 IN  d \o UpDecRow(build, dtype.size, RowOf(nx, res, r), RowOf(nx, d, r - 1))
        pixels[p \in 0..nx * ny] ==
            IF p = 0 THEN <<>>
            ELSE LET d == pixels[p - 1]
                 IN  Append(d, ToWord(w, res[p] + Prediction(dtype, kind, nx, d, p - 1)))
    IN  IF kind = "up" THEN rows[ny - 1] ELSE pixels[nx * ny]

----------------------------------------------------------------------------
(* The wavefronts.  left[i] is the last pixel of lane i, last[i] the one   *)
(* before, rows[i] what the lane has written; lane 1 is the topmost row.   *)

U16 == [size |-> 2, kind |-> "unsigned"]

\* Row 0 has no row above: every kernel decodes it by LEFT.
WaveFirstRow(nx, res) ==
    DecodeTyped("scalar", U16, "left", nx, 1, Slice(res, 0, nx))

\* The rows behind the last whole group, one at a time.
WaveTrailing(nx, ny, res, done) ==
    LET w    == Bits(2)
        left == nx * ny - Len(done)
        pixel[k \in 0..left] ==
            IF k = 0 THEN done
            ELSE LET d == pixel[k - 1]
                     i == Len(d)
                 IN  Append(d, Add(w, res[i + 1], Prediction(U16, "paeth", nx, d, i)))
    IN  pixel[left]

\* Column 0: each row adds what the row above has there.
WaveStart(lanes, res, above) ==
    LET first[i \in 0..lanes] ==
            IF i = 0 THEN above[1] ELSE Add(Bits(2), res[i][1], first[i - 1])
    IN  [left |-> Eager([i \in 1..lanes |-> first[i]]),
         last |-> Fill(lanes, 0),
         rows |-> Eager([i \in 1..lanes |-> <<first[i]>>])]

\* Mutant: a lane takes the pixel above from the step it shares with it.
WaveStepAhead(lanes, nx, res, above, s, c) ==
    LET active(i) == 1 <= c - i + 1 /\ c - i + 1 <= nx - 1
        up(i)     == IF i = 1 THEN above[c + 1] ELSE s.left[i - 1]
        upleft(i) == IF i = 1 THEN above[c] ELSE s.left[i - 1]
        out       == Eager([i \in 1..lanes |->
                        IF active(i)
                        THEN Add(Bits(2), res[i][c - i + 2],
                                 Paeth32(s.left[i], up(i), upleft(i)))
                        ELSE s.left[i]])
    IN  [left |-> out,
         last |-> Eager([i \in 1..lanes |-> IF active(i) THEN s.left[i] ELSE s.last[i]]),
         rows |-> Eager([i \in 1..lanes |->
                    IF active(i) THEN Append(s.rows[i], out[i]) ELSE s.rows[i]])]

\* Step c: lane i is at column c - i + 1, if the raster has that column.
WaveStep(lanes, nx, res, above, s, c) ==
    LET active(i) == 1 <= c - i + 1 /\ c - i + 1 <= nx - 1
        up(i)     == IF i = 1 THEN above[c + 1] ELSE s.left[i - 1]
        upleft(i) == IF i = 1 THEN above[c] ELSE s.last[i - 1]
        out       == Eager([i \in 1..lanes |->
                        IF active(i)
                        THEN Add(Bits(2), res[i][c - i + 2],
                                 Paeth32(s.left[i], up(i), upleft(i)))
                        ELSE s.left[i]])
    IN  [left |-> out,
         last |-> Eager([i \in 1..lanes |-> IF active(i) THEN s.left[i] ELSE s.last[i]]),
         rows |-> Eager([i \in 1..lanes |->
                    IF active(i) THEN Append(s.rows[i], out[i]) ELSE s.rows[i]])]

\* The steady state on registers: paeth_4x_sse2 and paeth_8x_avx2 select by
\* masks, and shift moves a register up by one lane.
PaethLanes(a, b, c) ==
    LET select(mask, x, y) == IF mask THEN x ELSE y
        lane(i) ==
            LET bc == b[i] - c[i]
                ac == a[i] - c[i]
                pa == Abs(bc)
                pb == Abs(ac)
                pc == Abs(bc + ac)
                r  == select(pb > pc, c[i], b[i])
            IN  select(pa > pb \/ pa > pc, r, a[i])
    IN  [i \in DOMAIN a |-> lane(i)]

Paeth4xSse2(a, b, c) == PaethLanes(a, b, c)
Paeth8xAvx2(a, b, c) == PaethLanes(a, b, c)

\* A register of the low half under zeros, and within each half the top lane
\* of that before the three lower lanes of v.
ShiftAvx2(v) ==
    LET swap == Fill(4, 0) \o SubSeq(v, 1, 4)
    IN  <<swap[4]>> \o SubSeq(v, 1, 3) \o <<swap[8]>> \o SubSeq(v, 5, 7)

\* Step c of the steady state, when every lane is at a column.
SteadySse2(res, above, s, c) ==
    LET b == Eager(OrLanes(Bits(2), SlliLanes(s.left, 1), InLowest(above[c + 1], 4)))
        u == Eager(OrLanes(Bits(2), SlliLanes(s.last, 1), InLowest(above[c], 4)))
        v == Eager(AddLanes(Bits(2), [i \in 1..4 |-> res[i][c - i + 2]],
                            Paeth4xSse2(s.left, b, u)))
    IN  [left |-> v, last |-> s.left, rows |-> Eager([i \in 1..4 |-> Append(s.rows[i], v[i])])]

SteadyAvx2(res, above, s, c) ==
    LET b == Eager(OrLanes(Bits(2), ShiftAvx2(s.left), InLowest(above[c + 1], 8)))
        u == Eager(OrLanes(Bits(2), ShiftAvx2(s.last), InLowest(above[c], 8)))
        v == Eager(AddLanes(Bits(2), [i \in 1..8 |-> res[i][c - i + 2]],
                            Paeth8xAvx2(s.left, b, u)))
    IN  [left |-> v, last |-> s.left, rows |-> Eager([i \in 1..8 |-> Append(s.rows[i], v[i])])]

\* The triangle before the steady state, the steady state, and the one after.
WaveGroup(lanes, build, nx, res, above) ==
    LET steady(c) == lanes <= c /\ c <= nx - 1
        state[c \in 0..nx + lanes - 2] ==
            IF c = 0 THEN WaveStart(lanes, res, above)
            ELSE LET s == state[c - 1]
                 IN  CASE lanes = 4 /\ build = "sse2" /\ steady(c) -> SteadySse2(res, above, s, c)
                       [] lanes = 8 /\ steady(c) -> SteadyAvx2(res, above, s, c)
                       [] OTHER -> WaveStep(lanes, nx, res, above, s, c)
    IN  state[nx + lanes - 2]

\* The rows of the raster in groups of as many as there are lanes.
WaveGroups(lanes, build, nx, ny, res) ==
    LET groups == (ny - 1) \div lanes
        state[g \in 0..groups] ==
            IF g = 0 THEN WaveFirstRow(nx, res)
            ELSE LET d     == state[g - 1]
                     top   == Len(d) \div nx
                     rows  == Eager([i \in 1..lanes |-> RowOf(nx, res, top + i - 1)])
                     above == RowOf(nx, d, top - 1)
                 IN  d \o FlattenSeq(WaveGroup(lanes, build, nx, rows, above).rows)
    IN  WaveTrailing(nx, ny, res, state[groups])

DecodeWave2(nx, ny, res)        == WaveGroups(2, "scalar", nx, ny, res)
DecodeWave4(build, nx, ny, res) == WaveGroups(4, build, nx, ny, res)
DecodeWave8(nx, ny, res)        == WaveGroups(8, "avx2", nx, ny, res)

----------------------------------------------------------------------------
(* Floats, in the order of their numbers.                                  *)

FloatPredict(kind, left, up, upleft) ==
    CASE kind = "left" -> left
      [] kind = "up" -> up
      [] kind = "average" -> Add(Bits(8), left, up) \div 2
      [] kind = "paeth" -> PaethOrdered(left, up, upleft)

\* The prediction of pixel i from the ordered pixels before it.
FloatPrediction(kind, nx, s, i) ==
    LET row == i \div nx
        col == i % nx
    IN  CASE row = 0 /\ col = 0 -> 0
          [] row = 0 /\ col > 0 ->
                (CASE kind = "up" -> 0 [] kind = "average" -> s[i] \div 2 [] OTHER -> s[i])
          [] row > 0 /\ col = 0 ->
                (CASE kind = "left" -> 0 [] kind = "average" -> s[i - nx + 1] \div 2
                   [] OTHER -> s[i - nx + 1])
          [] row > 0 /\ col > 0 -> FloatPredict(kind, s[i], s[i - nx + 1], s[i - nx])

EncodeFloat(dtype, kind, nx, src) ==
    LET w == Bits(dtype.size)
        s == [p \in DOMAIN src |-> Ordered(w, src[p])]
    IN  [p \in DOMAIN src |->
            Sub(w, s[p], ToWord(w, FloatPrediction(kind, nx, s, p - 1)))]

DecodeFloat(dtype, kind, nx, res) ==
    LET w == Bits(dtype.size)
        pixels[p \in 0..Len(res)] ==
            IF p = 0 THEN <<>>
            ELSE LET d == pixels[p - 1]
                 IN  Append(d, ToWord(w, res[p] + FloatPrediction(kind, nx, d, p - 1)))
        ordered == pixels[Len(res)]
    IN  [p \in DOMAIN res |-> Unordered(w, ordered[p])]

----------------------------------------------------------------------------
(* The choice of the predictor, and the two entry points.                  *)

CONSTANT AutoSample     \* PRED2D_AUTO_SAMPLE: the pixels that are scored

ASSUME AutoAssumption == AutoSample \in Nat \ {0}

\* (left & up) + ((left ^ up) >> 1), which is the average without its carry.
ComputeU(kind, left, up, upleft) ==
    CASE kind = "left" -> left
      [] kind = "up" -> up
      [] kind = "average" ->
            And(Bits(8), left, up) + Shr(Xor(Bits(8), left, up), 1)
      [] kind = "paeth" -> PaethOrdered(left, up, upleft)

SampleRows(nx, ny) ==
    LET rows == MinOf(nx * ny, AutoSample) \div nx
    IN  MinOf(ny, IF rows < 2 THEN MinOf(ny, 2) ELSE rows)

Score(dtype, kind, nx, rows, src) ==
    LET w     == Bits(8)
        at(i) == LoadWide(dtype, src[i + 1])
        sum[k \in 0..rows * nx] ==
            IF k = 0 THEN 0
            ELSE LET i  == k - 1
                     in == i % nx > 0
                     lo == i \div nx > 0
                     pred == ComputeU(kind, IF in THEN at(i - 1) ELSE 0,
                                            IF lo THEN at(i - nx) ELSE 0,
                                            IF in /\ lo THEN at(i - nx - 1) ELSE 0)
                 IN  Add(w, sum[k - 1], AbsDiff(w, at(i), pred))
    IN  sum[rows * nx]

\* Scored in this order; one that is not better than those before it is not
\* taken.
AutoOrder == <<"left", "up", "average", "paeth">>

AutoSelect(dtype, nx, ny, src) ==
    BestKind(AutoOrder,
             Eager([k \in 1..4 |-> Score(dtype, AutoOrder[k], nx, SampleRows(nx, ny), src)]),
             "average")

EncodeSweep(build, dtype, kind, nx, ny, src) ==
    IF dtype.kind = "float" THEN EncodeFloat(dtype, kind, nx, src)
    ELSE EncodeTyped(build, dtype, kind, nx, ny, src)

DecodeSweep(build, dtype, kind, nx, ny, res) ==
    CASE dtype.kind = "float" -> DecodeFloat(dtype, kind, nx, res)
      [] dtype = U16 /\ kind = "paeth" ->
            WaveGroups(IF nx >= 4 /\ ny >= 5 THEN 4 ELSE 2, build, nx, ny, res)
      [] OTHER -> DecodeTyped(build, dtype, kind, nx, ny, res)

\* The side metadata is the kind the encoder settled on.
Pred2dEncodeAs(build, dtype, kind, nx, ny, src) ==
    CASE dtype.kind = "string" -> Fails("dtype")
      [] dtype.kind # "string" /\ kind \notin Pred2dKinds -> Fails("inval")
      [] OTHER -> [status |-> "ok", side |-> <<kind>>,
                   data |-> IF src = <<>> THEN <<>>
                            ELSE EncodeSweep(build, dtype, kind, nx, ny, src)]

Pred2dEncode(build, dtype, kind, nx, ny, src) ==
    LET chosen == CASE kind = "auto" /\ src = <<>> -> "average"
                    [] kind = "auto" /\ src # <<>> -> AutoSelect(dtype, nx, ny, src)
                    [] kind # "auto" -> kind
    IN  Pred2dEncodeAs(build, dtype, chosen, nx, ny, src)

Pred2dDecode(build, dtype, nx, ny, side, res) ==
    CASE dtype.kind = "string" -> Fails("dtype")
      [] dtype.kind # "string" /\ (\/ Len(res) # nx * ny
                                   \/ Len(side) # 1
                                   \/ side[1] \notin Pred2dKinds) -> Fails("corrupt")
      [] OTHER -> Ok(IF res = <<>> THEN <<>>
                     ELSE DecodeSweep(build, dtype, side[1], nx, ny, res))
=============================================================================
