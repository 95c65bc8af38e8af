--------------------------------- MODULE Lz ---------------------------------
(***************************************************************************)
(* The LZ coder (src/entropy/lz.c, lz_internal.h, the copies of            *)
(* core/simd.h): the fast and the greedy parser, the serializer, and the   *)
(* decoder with its fast loop of overshooting copies and the exact loop    *)
(* that takes over where that one gives up.  A sequence is [lit, len,      *)
(* off]: literal bytes, then a match.                                      *)
(***************************************************************************)
EXTENDS HashChain, Symbols

CONSTANTS
    TagMax,          \* a nibble that says an extension follows (15)
    CopyUnit,        \* bytes of the widest SSE2 copy (16)
    FastStepMax,     \* longest step of the fast parser (8)
    SkipStrength,    \* LZ_SKIP_STRENGTH (6)
    SkipMaxStep      \* LZ_SKIP_MAX_STEP (64)

ASSUME LzAssumption ==
    /\ TagMax \in Nat \ {0} /\ CopyUnit \in Nat \ {0} /\ CopyUnit % 2 = 0
    /\ FastStepMax \in Nat /\ SkipStrength \in Nat /\ SkipMaxStep \in Nat

\* lit_len bytes beyond the tag are written as bytes that are added up, the
\* last of them below ByteMax; an offset up to NearMax as a word of two.
ByteMax == 2^ByteBits - 1
NearMax == 2^(2 * ByteBits) - 1

OffsetSize(off) == IF off <= NearMax THEN 2 ELSE 2 + VarintSize(off - (NearMax + 1))

OffsetWrite(off) ==
    IF off <= NearMax THEN BytesOf(2, <<off - 1>>)
    ELSE BytesOf(2, <<NearMax>>) \o VarintEncode(off - (NearMax + 1))

SeqEncodedSize(s) ==
    1 + OffsetSize(s.off)
      + (IF s.lit >= TagMax THEN (s.lit - TagMax) \div ByteMax + 1 ELSE 0)
      + (IF s.len - MinMatch >= TagMax THEN VarintSize(s.len - MinMatch - TagMax) ELSE 0)

\* One packed sequence header.
SeqWrite(s) ==
    LET l == s.lit
        m == s.len - MinMatch
        rest == l - TagMax
    IN  <<[lit |-> MinOf(l, TagMax), len |-> MinOf(m, TagMax)]>>
        \o (IF l >= TagMax THEN Append(Fill(rest \div ByteMax, ByteMax), rest % ByteMax) ELSE <<>>)
        \o (IF m >= TagMax THEN VarintEncode(m - TagMax) ELSE <<>>)
        \o OffsetWrite(s.off)

----------------------------------------------------------------------------
(* Parsing.                                                                *)

NoMatch == [len |-> 0, off |-> 0]

\* The longest match at one of the three remembered offsets, the first of
\* those; an empty slot is zero.
RepProbe(src, pos, rep) ==
    LET len(i) == IF rep[i] = 0 \/ pos < rep[i] THEN 0
                  ELSE Extend(src, pos, pos - rep[i], Len(src) - pos)
        best   == Max({len(i) : i \in 1..3})
        slot   == CHOOSE i \in 1..3 : len(i) = best /\ \A j \in 1..i - 1 : len(j) < best
    IN  IF pos + MinMatch > Len(src) \/ best < MinMatch THEN NoMatch
        ELSE [len |-> best, off |-> rep[slot]]

\* The offsets used last, the latest first.
RepUpdate(rep, off) ==
    CASE off = rep[1] -> rep
      [] off # rep[1] /\ off = rep[2] -> <<rep[2], rep[1], rep[3]>>
      [] OTHER -> <<off, rep[1], rep[2]>>

\* Every fourth position inside a match is entered; enter takes an index
\* and a position.
InsideMatch(src, sp, len) ==
    {p \in sp + 1..sp + len - 1 : (p - sp) % 4 = 1 /\ Hashable(src, p)}

\* The flat table without lazy matching; every miss lengthens the step.
ParseFast(src) ==
    LET entered(head, ps) ==
            [h \in DOMAIN head |-> Max({head[h]} \cup {p \in ps : Hash4(src, p) = h})]
        step(st) ==
            LET h    == Hash4(src, st.sp)
                cand == st.head[h]
                seen == [st.head EXCEPT ![h] = st.sp]
                len  == IF cand # Nil /\ cand < st.sp /\ st.sp - cand <= MaxOffset
                        THEN Extend(src, st.sp, cand, Len(src) - st.sp) ELSE 0
            IN  IF len >= MinMatch
                THEN [sp   |-> st.sp + len, lit |-> st.sp + len, step |-> 1,
                      head |-> Tabulated(entered(seen, InsideMatch(src, st.sp, len))),
                      seqs |-> Append(st.seqs, [lit |-> st.sp - st.lit, len |-> len,
                                                off |-> st.sp - cand])]
                ELSE [st EXCEPT !.sp = @ + st.step, !.head = seen,
                                !.step = MinOf(FastStepMax, @ + 1)]
        st[k \in 0..Len(src)] ==
            IF k = 0 THEN [sp |-> 0, lit |-> 0, step |-> 1, seqs |-> <<>>,
                           head |-> Tabulated([h \in 0..2^HashBits - 1 |-> Nil])]
            ELSE LET s == st[k - 1]
                 IN  IF Hashable(src, s.sp) THEN step(s) ELSE s
    IN  st[Len(src)].seqs

MissStep(run) == MinOf(SkipMaxStep, 1 + Shr(run, SkipStrength))

\* What a match saves over its bytes as literals, extensions left out.
Gain(m) == m.len - 1 - OffsetSize(m.off)

\* Lazy matching: as long as the next position has a longer match, and at
\* most lazy times, the current one is given up: [sp, m, mf].
LazyStep(s, mf, next) ==
    IF next.len > s.m.len THEN [s EXCEPT !.mf = mf, !.sp = @ + 1, !.m = next]
    ELSE [s EXCEPT !.mf = mf, !.more = FALSE]

Lazily(src, lazy, from) ==
    LET inserted(s) == ChainInsert(s.mf, src, s.sp)
        tried(s, mf) == LazyStep(s, mf, ChainFindBest(mf, src, s.sp + 1, 0))
        st[k \in 0..lazy] ==
            IF k = 0 THEN [sp |-> from.sp, m |-> from.m, mf |-> from.mf, more |-> TRUE]
            ELSE LET s == st[k - 1]
                 IN  IF s.more THEN tried(s, inserted(s)) ELSE s
    IN  IF from.m.len >= MinMatch /\ lazy > 0 THEN st[lazy] ELSE from

\* The remembered offset wins where it is as long.
Better(rep, hash) == IF rep.len >= MinMatch /\ rep.len >= hash.len THEN rep ELSE hash

\* The state of the greedy parser is [sp, lit, rep, mf, seqs].  Behind the
\* match m at sp, or one step on where m was not worth its price.
Advanced(src, st, sp, mf, m) ==
    LET entered[k \in 0..m.len] ==
            IF k = 0 THEN mf
            ELSE IF sp + k \in InsideMatch(src, sp, m.len)
                 THEN ChainInsert(entered[k - 1], src, sp + k) ELSE entered[k - 1]
    IN  IF m.len >= MinMatch
        THEN [sp   |-> sp + m.len, lit |-> sp + m.len,
              rep  |-> RepUpdate(st.rep, m.off), mf |-> entered[m.len],
              seqs |-> Append(st.seqs, [lit |-> sp - st.lit, len |-> m.len, off |-> m.off])]
        ELSE [st EXCEPT !.sp = sp + MissStep(sp - st.lit), !.mf = mf]

Worth(m, minGain) ==
    IF m.len >= MinMatch /\ minGain > 0 /\ Gain(m) < minGain THEN NoMatch ELSE m

Taken(src, minGain, st, l) ==
    Advanced(src, st, l.sp, ChainInsert(l.mf, src, l.sp), Worth(l.m, minGain))

GreedyStep(src, lazy, minGain, st) ==
    LET first == Better(RepProbe(src, st.sp, st.rep), ChainFindBest(st.mf, src, st.sp, 0))
    IN  Taken(src, minGain, st, Lazily(src, lazy, [sp |-> st.sp, m |-> first, mf |-> st.mf]))

ParseGreedy(src, depth, lazy, minGain) ==
    LET st[k \in 0..Len(src)] ==
            IF k = 0 THEN [sp |-> 0, lit |-> 0, rep |-> <<0, 0, 0>>,
                           mf |-> ChainCreate(src, depth), seqs |-> <<>>]
            ELSE LET s == st[k - 1]
                 IN  IF s.sp < Len(src) THEN GreedyStep(src, lazy, minGain, s) ELSE s
    IN  CASE Len(src) < MinMatch + 1 -> <<>>
          [] Len(src) >= MinMatch + 1 /\ depth = 0 /\ lazy = 0 -> ParseFast(src)
          [] OTHER -> st[Len(src)].seqs

----------------------------------------------------------------------------
(* The serialized stream: [nseq, heads, lits].                             *)

LiteralOnly(src) == [status |-> "ok", nseq |-> 0, heads |-> <<>>, lits |-> src]

\* Where sequence k begins in the source; one past the last, where the
\* trailing literals do.
SeqStart(seqs) ==
    LET at[k \in 1..Len(seqs) + 1] ==
            IF k = 1 THEN 0 ELSE at[k - 1] + seqs[k - 1].lit + seqs[k - 1].len
    IN  at

\* The bytes no match covers.
LiteralsOf(src, seqs) ==
    LET at == SeqStart(seqs)
    IN  FlattenSeq([k \in 1..Len(seqs) |-> Slice(src, at[k], at[k] + seqs[k].lit)])
        \o Slice(src, at[Len(seqs) + 1], Len(src))

HeaderBytes == 8

SerializeSequences(src, seqs) ==
    LET used == SeqStart(seqs)[Len(seqs) + 1]
        head == MapThenSumSet(LAMBDA k : SeqEncodedSize(seqs[k]), 1..Len(seqs))
        lits == LiteralsOf(src, seqs)
    IN  CASE \/ \E k \in 1..Len(seqs) : \/ seqs[k].len < MinMatch
                                        \/ seqs[k].off \notin 1..MaxOffset
             \/ used > Len(src) -> Fails("corrupt")
          [] OTHER ->
                IF HeaderBytes + head + Len(lits) >= Len(src) THEN LiteralOnly(src)
                ELSE [status |-> "ok", nseq |-> Len(seqs), lits |-> lits,
                      heads |-> FlattenSeq([k \in 1..Len(seqs) |-> SeqWrite(seqs[k])])]

\* tdc_entropy_level to the links walked and the lazy steps.
LevelParams(level) ==
    CASE level = 1 -> [depth |-> 0, lazy |-> 0]
      [] level = 2 -> [depth |-> 4, lazy |-> 0]
      [] level = 4 -> [depth |-> 8, lazy |-> 1]
      [] level = 5 -> [depth |-> 16, lazy |-> 1]
      [] level = 6 -> [depth |-> 32, lazy |-> 2]
      [] level >= 7 -> [depth |-> 64, lazy |-> 2]
      [] OTHER -> [depth |-> 4, lazy |-> 1]

Serialized(src, seqs) ==
    IF seqs = <<>> THEN LiteralOnly(src) ELSE SerializeSequences(src, seqs)

LzEncode(level, src) ==
    LET p    == LevelParams(level)
    IN  Serialized(src, ParseGreedy(src, p.depth, p.lazy, 1))

----------------------------------------------------------------------------
(* Decoding.                                                               *)

\* The parts of a sequence header in front of position at: [ok, value, next].
Cut(at) == [ok |-> FALSE, value |-> 0, next |-> at]

ReadLit(heads, at, tag) ==
    LET ends == {k \in at + 1..Len(heads) : /\ \A j \in at + 1..k - 1 : heads[j] = ByteMax
                                           /\ heads[k] < ByteMax}
        end  == CHOOSE k \in ends : TRUE
    IN  CASE tag < TagMax -> [ok |-> TRUE, value |-> tag, next |-> at]
          [] tag >= TagMax /\ ends = {} -> Cut(at)
          [] OTHER -> [ok |-> TRUE, next |-> end,
                       value |-> TagMax + (end - at - 1) * ByteMax + heads[end]]

ReadLen(heads, at, tag) ==
    LET ext == VarintDecode(SubSeq(heads, at + 1, Len(heads)))
    IN  IF tag < TagMax THEN [ok |-> TRUE, value |-> MinMatch + tag, next |-> at]
        ELSE [ok |-> ext.used # 0, value |-> MinMatch + TagMax + ext.value, next |-> at + ext.used]

ReadOff(heads, at) ==
    LET near == ElemsOf(2, SubSeq(heads, at + 1, at + 2))[1]
        far  == VarintDecode(SubSeq(heads, at + 3, Len(heads)))
    IN  CASE Len(heads) < at + 2 -> Cut(at)
          [] Len(heads) >= at + 2 /\ near < NearMax ->
                [ok |-> TRUE, value |-> near + 1, next |-> at + 2]
          [] OTHER -> [ok |-> far.used # 0, value |-> far.value + NearMax + 1,
                       next |-> at + 2 + far.used]

\* The sequence header at position at of the headers, or ok = FALSE where
\* they end too early.
ReadSeq(heads, at) ==
    LET tag == heads[at + 1]
        lit == ReadLit(heads, at + 1, tag.lit)
        len == ReadLen(heads, lit.next, tag.len)
        off == ReadOff(heads, len.next)
    IN  IF at >= Len(heads) \/ ~lit.ok \/ ~len.ok \/ ~off.ok THEN [ok |-> FALSE]
        ELSE [ok |-> TRUE, lit |-> lit.value, len |-> len.value, off |-> off.value,
              next |-> off.next]

Blank == -1     \* a byte of the output that was not written

\* n bytes from position from of src to position at of mem at once.  top is
\* where the furthest store ended, stores past the block included.
Store(st, at, src, from, n) ==
    [st EXCEPT !.top = MaxOf(@, at + n),
               !.mem = Eager([p \in DOMAIN @ |->
                    IF p > at /\ p <= at + n THEN src[from + p - at] ELSE @[p]])]

\* Copies of unit bytes until len is reached, at least one.
WildCopy(st, op, off, len, unit) ==
    LET blocks == MaxOf(1, (len + unit - 1) \div unit)
        done[j \in 0..blocks] ==
            IF j = 0 THEN st
            ELSE LET before == done[j - 1]
                     at == op + (j - 1) * unit
                 IN  Store(before, at, before.mem, at - off, unit)
    IN  done[blocks]

\* Mutant: the last copies reach back by one pattern and not by all of them.
PatternCopyShort(st, op, off, len) ==
    LET fend == op + len
        seeded == Store(st, op, st.mem, op - off, off)
        grown[j \in 0..CopyUnit] ==
            IF j = 0 THEN [s |-> seeded, n |-> off]
            ELSE LET g == grown[j - 1]
                     chunk == MinOf(g.n, fend - (op + g.n))
                 IN  IF g.n < CopyUnit /\ op + g.n < fend
                     THEN [s |-> Store(g.s, op + g.n, g.s.mem, op, chunk), n |-> g.n + chunk]
                     ELSE g
        g == grown[CopyUnit]
    IN  IF op + g.n < fend
        THEN WildCopy(g.s, op + g.n, off, fend - (op + g.n), CopyUnit)
        ELSE g.s
\* A short pattern: stored once, doubled until it is a unit long, then
\* repeated in units.
PatternCopy(st, op, off, len) ==
    LET fend == op + len
        seeded == Store(st, op, st.mem, op - off, off)
        grown[j \in 0..CopyUnit] ==
            IF j = 0 THEN [s |-> seeded, n |-> off]
            ELSE LET g == grown[j - 1]
                     chunk == MinOf(g.n, fend - (op + g.n))
                 IN  IF g.n < CopyUnit /\ op + g.n < fend
                     THEN [s |-> Store(g.s, op + g.n, g.s.mem, op, chunk), n |-> g.n + chunk]
                     ELSE g
        g == grown[CopyUnit]
    IN  IF op + g.n < fend
        THEN WildCopy(g.s, op + g.n, g.n, fend - (op + g.n), CopyUnit)
        ELSE g.s

MatchCopy(build, st, off, len) ==
    CASE build = "avx2" /\ off >= 2 * CopyUnit -> WildCopy(st, st.dp, off, len, 2 * CopyUnit)
      [] (build # "avx2" \/ off < 2 * CopyUnit) /\ off >= CopyUnit ->
            WildCopy(st, st.dp, off, len, CopyUnit)
      [] off < CopyUnit /\ 2 * off >= CopyUnit -> WildCopy(st, st.dp, off, len, CopyUnit \div 2)
      [] OTHER -> PatternCopy(st, st.dp, off, len)

\* Mutant: room for the copies of the other build.
WildcopySlackNarrow(build) == CopyUnit - 1
WildcopySlack(build) == IF build = "avx2" THEN 2 * CopyUnit - 1 ELSE CopyUnit - 1

\* One sequence of the fast loop, taken where all of it keeps its distance
\* from the end.
FastStep(build, e, n, st, s) ==
    LET unit == s.lit <= CopyUnit /\ st.lp + CopyUnit <= Len(e.lits)
        fits == /\ st.dp + s.lit + s.len + WildcopySlack(build) <= n
                /\ st.lp + s.lit <= Len(e.lits)
                /\ s.off <= st.dp + s.lit
        lits == IF s.lit = 0 THEN st
                ELSE [Store(st, st.dp, e.lits, st.lp, IF unit THEN CopyUnit ELSE s.lit)
                        EXCEPT !.lp = @ + s.lit, !.dp = @ + s.lit]
    IN  IF s.ok /\ fits
        THEN [MatchCopy(build, lits, s.off, s.len)
                EXCEPT !.dp = @ + s.len, !.si = @ + 1, !.at = s.next]
        ELSE st

\* The fast loop: it stops for good in front of the first sequence that is
\* cut short, comes too near to the end or is not one.
DecodeFast(build, e, n, from) ==
    LET st[k \in 0..e.nseq] ==
            IF k = 0 THEN from
            ELSE LET before == st[k - 1]
                 IN  IF before.si < k - 1 THEN before
                     ELSE FastStep(build, e, n, before, ReadSeq(e.heads, before.at))
    IN  st[e.nseq]

\* A match that overlaps itself: its pattern once, then doubled.
Doubled(st, op, off, len) ==
    LET grown[j \in 0..BitWidth(len)] ==
            IF j = 0 THEN [s |-> Store(st, op, st.mem, op - off, off), n |-> off]
            ELSE LET g == grown[j - 1]
                     chunk == MinOf(g.n, len - g.n)
                 IN  IF g.n < len
                     THEN [s |-> Store(g.s, op + g.n, g.s.mem, op, chunk), n |-> g.n + chunk]
                     ELSE g
    IN  grown[BitWidth(len)].s

\* At most len of the literals that are left.
ExactLiterals(e, st, len) ==
    LET ll == MinOf(len, Len(e.lits) - st.lp)
    IN  [Store(st, st.dp, e.lits, st.lp, ll) EXCEPT !.lp = @ + ll, !.dp = @ + ll]

ExactMatch(n, st, s) ==
    LET len == MinOf(s.len, n - st.dp)
        to  == IF s.off >= len THEN Store(st, st.dp, st.mem, st.dp - s.off, len)
               ELSE Doubled(st, st.dp, s.off, len)
    IN  CASE st.dp >= n -> st
          [] st.dp < n /\ st.dp < s.off -> [st EXCEPT !.bad = TRUE]
          [] OTHER -> [to EXCEPT !.dp = @ + len]

ExactStep(e, n, st, s) ==
    IF ~s.ok THEN [st EXCEPT !.bad = TRUE]
    ELSE [ExactMatch(n, ExactLiterals(e, st, MinOf(s.lit, n - st.dp)), s)
            EXCEPT !.si = @ + 1, !.at = s.next]

Trailing(e, n, end) ==
    IF end.bad \/ end.lp >= Len(e.lits) \/ end.dp >= n THEN end
    ELSE ExactLiterals(e, end, n - end.dp)

\* The exact loop, for the sequences that are left and the literals behind
\* them; what does not fit is cut off.
DecodeSafe(e, n, from) ==
    LET st[k \in 0..e.nseq] ==
            IF k = 0 THEN from
            ELSE LET before == st[k - 1]
                 IN  IF before.bad \/ before.si >= e.nseq \/ before.dp >= n THEN before
                     ELSE ExactStep(e, n, before, ReadSeq(e.heads, before.at))
    IN  Trailing(e, n, st[e.nseq])

DecodeState(build, e, n) ==
    LET start == [mem |-> Fill(n, Blank), top |-> 0, at |-> 0, dp |-> 0, lp |-> 0,
                  si |-> 0, bad |-> FALSE]
    IN  DecodeSafe(e, n, DecodeFast(build, e, n, start))

\* [out, top]: the block, and where the furthest store ended.
LzResult(end, n) ==
    [out |-> IF end.bad \/ end.dp # n THEN Fails("corrupt") ELSE Ok(end.mem), top |-> end.top]

LzDecode(build, e, n) == LzResult(DecodeState(build, e, n), n)

----------------------------------------------------------------------------
(* The coders of the optimal parser (lz_opt.c); parse is what it found.    *)
(* TDC_ENTROPY_LZ_OPT is another parse in the same stream.                 *)

LzOptEncode(parse, src) == Serialized(src, parse)

\* TDC_ENTROPY_LZ_SPLIT codes headers and literals apart and counts the
\* literals; pays says whether both together are shorter than the block.
SplitPassthrough(src) ==
    [status |-> "ok", nseq |-> 0, size |-> Len(src), total_lit |-> Len(src),
     trailing |-> Len(src), heads |-> <<>>, lits |-> src]

SplitStreams(src, parse) ==
    [heads    |-> FlattenSeq([k \in DOMAIN parse |-> SeqWrite(parse[k])]),
     lits     |-> LiteralsOf(src, parse),
     trailing |-> Len(src) - SeqStart(parse)[Len(parse) + 1]]

SplitEncode(parse, pays, src) ==
    LET s == SplitStreams(src, parse)
    IN  IF parse = <<>> \/ ~pays THEN SplitPassthrough(src)
        ELSE [status |-> "ok", nseq |-> Len(parse), size |-> Len(src), total_lit |-> Len(s.lits),
              trailing |-> s.trailing, heads |-> s.heads, lits |-> s.lits]

\* One sequence, copied byte by byte; the headers are read unbounded.
SplitStep(e, n, st, s) ==
    LET at   == st.dp + s.lit
        lits == Store(st, st.dp, e.lits, st.lp, s.lit)
    IN  IF \/ st.lp + s.lit > e.total_lit \/ at > n
           \/ s.off = 0 \/ s.off > at \/ at + s.len > n
        THEN [st EXCEPT !.bad = TRUE]
        ELSE [WildCopy(lits, at, s.off, s.len, 1)
                EXCEPT !.dp = at + s.len, !.lp = @ + s.lit, !.at = s.next]

SplitEnd(e, n, end) ==
    IF \/ end.bad \/ end.lp + e.trailing > e.total_lit \/ end.dp + e.trailing # n
    THEN Fails("corrupt")
    ELSE Ok(Store(end, end.dp, e.lits, end.lp, e.trailing).mem)

SplitDecode(e, n) ==
    LET st[k \in 0..e.nseq] ==
            IF k = 0 THEN [mem |-> Fill(n, Blank), top |-> 0, at |-> 0, dp |-> 0, lp |-> 0, bad |-> FALSE]
            ELSE LET before == st[k - 1]
                 IN  IF before.bad THEN before
                     ELSE SplitStep(e, n, before, ReadSeq(e.heads, before.at))
    IN  CASE e.size # n -> Fails("corrupt")
          [] e.size = n /\ e.nseq = 0 -> Ok(e.lits)
          [] OTHER -> SplitEnd(e, n, st[e.nseq])
=============================================================================
