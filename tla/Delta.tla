------------------------------- MODULE Delta -------------------------------
(***************************************************************************)
(* TDC_MODEL_DELTA_1D and TDC_MODEL_DELTA2_1D (src/model/delta1d.c,        *)
(* delta2_1d.c): differences of neighbours, and the vector kernels a build *)
(* puts in their place.  A register is a sequence of lanes; a kernel works *)
(* element by element up to the first multiple of its lane count, then     *)
(* register by register, then element by element to the end, and keeps the *)
(* value the next step needs in a carry register.                          *)
(***************************************************************************)
EXTENDS Elements, SequencesExt

\* Where a kernel of n elements starts to use registers, how many of them it
\* goes through, and where it stops.
HeadEnd(lanes, n)   == MinOf(lanes, n)
Registers(lanes, n) == (n - HeadEnd(lanes, n)) \div lanes
BodyEnd(lanes, n)   == HeadEnd(lanes, n) + lanes * Registers(lanes, n)

----------------------------------------------------------------------------
(* One element at a time.                                                  *)

\* Elements lo..hi-1 of the prefix sums of s, with acc the sum before lo.
Sums(w, s, acc, lo, hi) ==
    LET sum[k \in 0..hi - lo] == IF k = 0 THEN acc ELSE Add(w, sum[k - 1], s[lo + k])
    IN  [k \in 1..hi - lo |-> sum[k]]

\* Elements lo..hi-1 of the differences of s, with prev the element before lo.
Differences(w, s, prev, lo, hi) ==
    [k \in 1..hi - lo |-> Sub(w, s[lo + k], IF k = 1 THEN prev ELSE s[lo + k - 1])]

----------------------------------------------------------------------------
(* Sums in registers.                                                      *)

\* A register moved up by k lanes, zeros below: a byte shift, or an extraction
\* from behind a zero register.
MovedUp(build, v, k) ==
    IF build = "sse2" THEN SlliLanes(v, k) ELSE ExtLanes(Fill(Len(v), 0), v, Len(v) - k)

\* Mutant: one pass only.
PrefixSumsShort(build, w, v) == AddLanes(w, v, MovedUp(build, v, 1))

\* The prefix sums within one register: log2(lanes) passes, each adding the
\* register moved up by twice the lanes of the pass before.
PrefixSums(build, w, v) ==
    LET pass(u, k) == AddLanes(w, u, MovedUp(build, u, k))
        one == pass(v, 1)
        two == pass(one, 2)
    IN  CASE Len(v) = 2 -> one
          [] Len(v) = 4 -> two
          [] Len(v) = 8 -> pass(two, 4)

\* The top lane in every lane.  inverse_delta_2_sse2 takes it through the
\* bottom one (srli, shufflelo, three unpacks), and its tail reads that lane;
\* the others broadcast, and read the top lane.
TopEverywhere(build, v) ==
    LET low  == SrliLanes(v, Len(v) - 1)
        four == Fill(4, low[1]) \o SubSeq(low, 5, 8)
    IN  IF build = "sse2" /\ Len(v) = 8 THEN [i \in 1..8 |-> four[(i + 1) \div 2]]
        ELSE Fill(Len(v), v[Len(v)])

SumLane(build, lanes) == IF build = "sse2" /\ lanes = 8 THEN 1 ELSE lanes

\* One register of differences, and the carry register with the last sum in
\* every lane.
InverseStep(build, w, b, differences) ==
    LET v == AddLanes(w, PrefixSums(build, w, differences), b.reg)
    IN  [out |-> b.out \o v, reg |-> TopEverywhere(build, v)]

\* inverse_delta_{2,4,8}_sse2 and inverse_delta_{2,4,8}_neon.
InverseDelta(build, w, lanes, src) ==
    LET n     == Len(src)
        start == HeadEnd(lanes, n)
        head  == Sums(w, src, 0, 0, start)
        body[k \in 0..Registers(lanes, n)] ==
            IF k = 0 THEN [out |-> head, reg |-> Fill(lanes, Last(head))]
            ELSE InverseStep(build, w, body[k - 1],
                             Slice(src, start + lanes * (k - 1), start + lanes * k))
        end   == body[Registers(lanes, n)]
    IN  end.out \o Sums(w, src, end.reg[SumLane(build, lanes)], BodyEnd(lanes, n), n)

----------------------------------------------------------------------------
(* Differences in registers.                                               *)

\* The element before the next register, alone in the lane where each set of
\* instructions wants it: x86 ors it into the register moved up, ARM extracts
\* it from the register before.
FirstCarry(build, lanes, x) ==
    IF build = "sse2" THEN InLowest(x, lanes) ELSE Fill(lanes - 1, 0) \o <<x>>

CarryLane(build, lanes) == IF build = "sse2" THEN 1 ELSE lanes

\* Each lane's element before it.
Preceding(build, w, v, carry) ==
    IF build = "sse2" THEN OrLanes(w, SlliLanes(v, 1), carry)
    ELSE ExtLanes(carry, v, Len(v) - 1)

ForwardStep(build, w, b, v) ==
    [out |-> b.out \o SubLanes(w, v, Preceding(build, w, v, b.reg)),
     reg |-> IF build = "sse2" THEN SrliLanes(v, Len(v) - 1) ELSE v]

\* forward_delta_{2,4,8}_sse2 and forward_delta_{2,4,8}_neon.
ForwardDelta(build, w, lanes, src) ==
    LET n     == Len(src)
        start == HeadEnd(lanes, n)
        head  == SubSeq(src, 1, 1) \o Differences(w, src, src[1], 1, start)
        body[k \in 0..Registers(lanes, n)] ==
            IF k = 0 THEN [out |-> head, reg |-> FirstCarry(build, lanes, src[start])]
            ELSE ForwardStep(build, w, body[k - 1],
                             Slice(src, start + lanes * (k - 1), start + lanes * k))
        end   == body[Registers(lanes, n)]
    IN  end.out \o Differences(w, src, end.reg[CarryLane(build, lanes)], BodyEnd(lanes, n), n)

----------------------------------------------------------------------------
(* The models.                                                             *)

\* Floats: the difference of two bit patterns is their exclusive or.
XorDifferences(w, src) ==
    [i \in 1..Len(src) |-> IF i = 1 THEN src[1] ELSE Xor(w, src[i], src[i - 1])]

XorSums(w, res) ==
    LET bits[i \in 1..Len(res)] ==
            IF i = 1 THEN res[1] ELSE Xor(w, bits[i - 1], res[i])
    IN  [i \in 1..Len(res) |-> bits[i]]

DeltaEncode(build, dtype, src) ==
    LET w == Bits(dtype.size) IN
    CASE src = <<>> -> <<>>
      [] src # <<>> /\ dtype.kind = "float" -> XorDifferences(w, src)
      [] src # <<>> /\ dtype.kind # "float" ->
            IF dtype.size = 1 \/ build = "scalar"
            THEN SubSeq(src, 1, 1) \o Differences(w, src, src[1], 1, Len(src))
            ELSE ForwardDelta(build, w, Lanes(dtype.size), src)

DeltaDecode(build, dtype, res) ==
    LET w == Bits(dtype.size) IN
    CASE res = <<>> -> <<>>
      [] res # <<>> /\ dtype.kind = "float" -> XorSums(w, res)
      [] res # <<>> /\ dtype.kind # "float" ->
            IF dtype.size = 1 \/ build = "scalar" THEN Sums(w, res, 0, 0, Len(res))
            ELSE InverseDelta(build, w, Lanes(dtype.size), res)

\* The differences of the differences, after two seeds.
Delta2Encode(w, src) ==
    LET d1 == XorDifferences(w, src)
    IN  [i \in 1..Len(src) |-> IF i <= 2 THEN d1[i] ELSE Xor(w, d1[i], d1[i - 1])]

Delta2Decode(w, res) ==
    LET d1[i \in 1..Len(res)]   == IF i <= 2 THEN res[i] ELSE Xor(w, d1[i - 1], res[i])
        bits[i \in 1..Len(res)] == IF i = 1 THEN res[1] ELSE Xor(w, bits[i - 1], d1[i])
    IN  [i \in 1..Len(res) |-> bits[i]]
=============================================================================
