----------------------------- MODULE LzStreams -----------------------------
(***************************************************************************)
(* The LZ coder of separated streams (src/entropy/lz_streams.c): literals, *)
(* lengths and offsets apart, every number as a symbol and a few extra     *)
(* bits, offsets by reference to the three used last.                      *)
(*                                                                         *)
(* A sequence is [lit, len, off] as in Lz.  The parses of the optimal      *)
(* parser are left as a choice, and what the coder of a stream makes of it *)
(* is Huffman's and Fse's concern: a stream is carried as it is, and       *)
(* whether all of it is shorter than the block is an input.                *)
(***************************************************************************)
EXTENDS Lz

CONSTANTS
    MaxSymbol,      \* LZS_MAX_LL_SYMBOL, LZS_MAX_ML_SYMBOL (25)
    ShiftMax,       \* bits an offset is shifted by at most (7)
    DeltaFrom,      \* extra bits of offsets from which deltas are tried (16)
    ContextFrom,    \* literals from which they are split by context (512)
    ContextBits,    \* low bits of a literal that name no context (4)
    RegisterBytes   \* bytes of the register extra bits are read from (8)

ASSUME LzStreamsAssumption ==
    /\ {MaxSymbol, ShiftMax, DeltaFrom, ContextFrom} \subseteq Nat
    /\ ContextBits \in 0..ByteBits
    /\ RegisterBytes \in Nat \ {0}

OffsetSymbolMax == BitWidth(MaxOffset) + 2
DeltaSymbolMax  == OffsetSymbolMax + 2

\* A number as a symbol and extra bits: the symbol names the highest bit.
Small(sym) == [sym |-> sym, extra |-> 0, bits |-> 0]

UintSymbol(v) ==
    LET lg == BitWidth(v) - 1
    IN  IF v <= 1 THEN Small(v) ELSE [sym |-> lg + 1, extra |-> v - 2^lg, bits |-> lg]

OffsetSymbol(code) ==
    LET lg == BitWidth(code - 3) - 1
    IN  IF code <= 3 THEN Small(code - 1)
        ELSE [sym |-> lg + 3, extra |-> code - 3 - 2^lg, bits |-> lg]

\* The tables a symbol is read with: [base, bits].
UintRecon(s) == IF s <= 1 THEN [base |-> s, bits |-> 0] ELSE [base |-> 2^(s - 1), bits |-> s - 1]
OffsetRecon(s) ==
    IF s <= 2 THEN [base |-> s + 1, bits |-> 0] ELSE [base |-> 2^(s - 3) + 3, bits |-> s - 3]

Zigzagged(d) == IF d >= 0 THEN 2 * d ELSE -2 * d - 1
Unzigzagged(z) == IF z % 2 = 0 THEN z \div 2 ELSE -(z \div 2) - 1

----------------------------------------------------------------------------
(* Offsets by reference.                                                   *)

RepInit == <<1, 4, 8>>

\* Mutant: the third offset is used and keeps its place.
RepMovedTwo(rep, code) ==
    CASE code \in {1, 3} -> rep
      [] code = 2 -> <<rep[2], rep[1], rep[3]>>
      [] code >= 4 -> <<code - 3, rep[1], rep[2]>>
\* The remembered offsets after an offset code.
RepMoved(rep, code) ==
    CASE code = 1 -> rep
      [] code = 2 -> <<rep[2], rep[1], rep[3]>>
      [] code = 3 -> <<rep[3], rep[1], rep[2]>>
      [] code >= 4 -> <<code - 3, rep[1], rep[2]>>

RepCode(rep, off) ==
    IF \E i \in 1..3 : rep[i] = off
    THEN CHOOSE i \in 1..3 : rep[i] = off /\ \A j \in 1..i - 1 : rep[j] # off
    ELSE off + 3

\* The codes of a sequence of offsets.
RepCodes(offs) ==
    LET walk[k \in 0..Len(offs)] ==
            IF k = 0 THEN [rep |-> RepInit, codes |-> <<>>]
            ELSE LET st   == walk[k - 1]
                     code == RepCode(st.rep, offs[k])
                 IN  [rep |-> RepMoved(st.rep, code), codes |-> Append(st.codes, code)]
    IN  walk[Len(offs)].codes

\* The same codes with every new offset as its distance from the one before.
DeltaSymbols(codes) ==
    LET walk[k \in 0..Len(codes)] ==
            IF k = 0 THEN [rep |-> RepInit, syms |-> <<>>]
            ELSE LET st   == walk[k - 1]
                     code == codes[k]
                     zz   == UintSymbol(Zigzagged(code - 3 - st.rep[1]))
                 IN  [rep  |-> RepMoved(st.rep, code),
                      syms |-> Append(st.syms, IF code <= 3 THEN OffsetSymbol(code)
                                               ELSE [zz EXCEPT !.sym = @ + 3])]
    IN  walk[Len(codes)].syms

\* The largest shift that loses no bit of any offset.
OffsetShift(offs) ==
    Max({k \in 0..ShiftMax : \A i \in DOMAIN offs : offs[i] % 2^k = 0})

----------------------------------------------------------------------------
(* Encoding.                                                               *)

\* Matches shorter than min become literals of the next sequence, or of the
\* end.
FoldShort(seqs, min) ==
    LET fold[k \in 0..Len(seqs)] ==
            IF k = 0 THEN [carry |-> 0, kept |-> <<>>]
            ELSE LET st == fold[k - 1]
                     s  == seqs[k]
                 IN  IF s.len < min THEN [st EXCEPT !.carry = @ + s.lit + s.len]
                     ELSE [carry |-> 0, kept |-> Append(st.kept, [s EXCEPT !.lit = @ + st.carry])]
    IN  IF min <= MinMatch THEN seqs ELSE fold[Len(seqs)].kept

\* A literal's context is the high bits of the one before it.
Contexts(lits) ==
    [i \in DOMAIN lits |-> IF i = 1 THEN 0 ELSE Shr(lits[i - 1], ContextBits)]

ContextIds == 0..2^(ByteBits - ContextBits) - 1

Buckets(lits) ==
    [c \in ContextIds |->
        LET at == SelectSeq([i \in DOMAIN lits |-> i], LAMBDA i : Contexts(lits)[i] = c)
        IN  [j \in DOMAIN at |-> lits[at[j]]]]

\* Extra bits, lowest first, to the end of a byte.
BitsOf(x) == [i \in 1..x.bits |-> Bit(x.extra, i - 1)]
Padded(bits) == bits \o Fill((-Len(bits)) % ByteBits, 0)

Passthrough(src) ==
    [status |-> "ok", repcodes |-> FALSE, shift |-> 0, context |-> FALSE, delta |-> FALSE,
     nseq |-> 0, total_lit |-> Len(src), trailing |-> Len(src), size |-> Len(src),
     lits |-> src, ll |-> <<>>, ml |-> <<>>, off |-> <<>>, extra |-> <<>>]

TotalBits(syms) == MapThenSumSet(LAMBDA k : syms[k].bits, DOMAIN syms)
SymbolsOf(syms) == [k \in DOMAIN syms |-> syms[k].sym]

\* tries says whether the level looks for deltas, split whether the literals
\* are shorter in their contexts.
SeparateStreams(tries, split, src, seqs) ==
    LET n     == Len(seqs)
        offs  == [k \in 1..n |-> seqs[k].off]
        shift == OffsetShift(offs)
        codes == RepCodes([k \in 1..n |-> Shr(offs[k], shift)])
        plain == [k \in 1..n |-> OffsetSymbol(codes[k])]
        delta == /\ tries /\ n > 1 /\ TotalBits(plain) >= DeltaFrom
                 /\ TotalBits(DeltaSymbols(codes)) < TotalBits(plain)
        ll    == Eager([k \in 1..n |-> UintSymbol(seqs[k].lit)])
        ml    == Eager([k \in 1..n |-> UintSymbol(seqs[k].len - MinMatch)])
        off   == Eager(IF delta THEN DeltaSymbols(codes) ELSE plain)
        lits  == LiteralsOf(src, seqs)
        ctx   == tries /\ split /\ Len(lits) >= ContextFrom
    IN  [status |-> "ok", repcodes |-> TRUE, shift |-> shift, context |-> ctx, delta |-> delta,
         nseq |-> n, total_lit |-> Len(lits), size |-> Len(src),
         trailing |-> Len(src) - SeqStart(seqs)[n + 1],
         lits  |-> IF ctx THEN Buckets(lits) ELSE lits,
         ll |-> SymbolsOf(ll), ml |-> SymbolsOf(ml), off |-> SymbolsOf(off),
         extra |-> Padded(FlattenSeq([k \in 1..n |-> BitsOf(ll[k]) \o BitsOf(ml[k]) \o BitsOf(off[k])]))]

StreamsParams(level) ==
    CASE level = 1 -> [depth |-> 0, lazy |-> 0]
      [] level = 2 -> [depth |-> 4, lazy |-> 1]
      [] level = 3 -> [depth |-> 8, lazy |-> 1]
      [] level \notin {1, 2, 3} -> [depth |-> 16, lazy |-> 2]

Separated(level, pays, split, src, seqs) ==
    IF src = <<>> \/ seqs = <<>> \/ ~pays THEN Passthrough(src)
    ELSE SeparateStreams(level < 0, split, src, seqs)

\* parse is the optimal parser's, for the levels below zero.
StreamsEncode(level, min, parse, pays, split, src) ==
    LET p      == StreamsParams(IF level = 0 THEN 2 ELSE level)
        parsed == IF level < 0 THEN parse ELSE ParseGreedy(src, p.depth, p.lazy, 0)
    IN  Separated(level, pays, split, src, FoldShort(parsed, min))

----------------------------------------------------------------------------
(* Decoding.                                                               *)

RegisterBits == RegisterBytes * ByteBits

\* The bits of extra as the register sees them: [reg, n, at], n of the bits
\* in reg are accounted for, at is the next byte.  A refill takes as many
\* whole bytes as there is room for; well before the end it stores a whole
\* register, and the bits beyond the n are those it will store again.
RegisterRefill(extra, br) ==
    LET size  == Len(extra) \div ByteBits
        safe  == IF size >= RegisterBytes THEN size - (RegisterBytes - 1) ELSE 0
        room  == (RegisterBits - br.n) \div ByteBits
        fresh == IF br.at < safe THEN room ELSE MinOf(room, size - br.at)
        seen  == IF br.at < safe THEN RegisterBits ELSE br.n + fresh * ByteBits
        loaded(i) == IF i > br.n /\ i <= seen THEN extra[br.at * ByteBits + i - br.n] ELSE 0
    IN  IF br.n >= RegisterBits - ByteBits THEN br
        ELSE [reg |-> Eager([i \in 1..RegisterBits |-> MaxOf(br.reg[i], loaded(i))]),
              n   |-> br.n + fresh * ByteBits, at |-> br.at + fresh]

Shifted(br, n) ==
    [value |-> FromBits(n, [i \in 0..n - 1 |-> br.reg[i + 1]]),
     br    |-> [reg |-> SubSeq(br.reg, n + 1, RegisterBits) \o Fill(n, 0),
                n   |-> br.n - n, at |-> br.at]]

ReadBits(extra, br, n) ==
    Shifted(IF br.n < n THEN RegisterRefill(extra, br) ELSE br, n)

\* The number of a symbol: [value, br].
ReadUint(extra, br, recon) ==
    LET got == ReadBits(extra, br, recon.bits)
    IN  [value |-> recon.base + got.value, br |-> got.br]

\* The literals as one stream again, or none where the contexts lead past
\* the end of a bucket.
Unsplit(buckets, n) ==
    LET walk[i \in 0..n] ==
            IF i = 0 THEN [ctx |-> 0, pos |-> [c \in ContextIds |-> 0], lits |-> <<>>]
            ELSE LET st  == walk[i - 1]
                     at  == st.pos[st.ctx] + 1
                     lit == buckets[st.ctx][at]
                 IN  IF Len(st.lits) < i - 1 \/ at > Len(buckets[st.ctx]) THEN st
                     ELSE [ctx  |-> Shr(lit, ContextBits),
                           pos  |-> [st.pos EXCEPT ![st.ctx] = at],
                           lits |-> Append(st.lits, lit)]
    IN  walk[n].lits

\* The code of an offset, and the offsets remembered for the deltas: [code,
\* br, drep]; the code is zero where a delta leads to no offset.
PlainOffset(got, drep) == [code |-> got.value, br |-> got.br, drep |-> drep]

MovedOffset(got, drep) ==
    LET moved == drep[1] + Unzigzagged(got.value)
    IN  IF moved <= 0 THEN [code |-> 0, br |-> got.br, drep |-> drep]
        ELSE [code |-> moved + 3, br |-> got.br, drep |-> RepMoved(drep, moved + 3)]

ReadOffset(e, s, br, drep) ==
    CASE ~e.delta -> PlainOffset(ReadUint(e.extra, br, OffsetRecon(s)), drep)
      [] e.delta /\ s <= 2 -> [code |-> s + 1, br |-> br, drep |-> RepMoved(drep, s + 1)]
      [] e.delta /\ s > 2 -> MovedOffset(ReadUint(e.extra, br, UintRecon(s - 3)), drep)

\* The end of the part in which copies may overshoot.
CopyEnd(build, n) == IF n >= WildcopySlack(build) THEN n - WildcopySlack(build) ELSE 0

StreamLiterals(build, lits, n, st, ll) ==
    LET unit == /\ ll <= CopyUnit /\ st.dp + ll <= CopyEnd(build, n)
                /\ st.lp + CopyUnit <= Len(lits)
    IN  IF ll = 0 THEN st
        ELSE [Store(st, st.dp, lits, st.lp, IF unit THEN CopyUnit ELSE ll)
                EXCEPT !.dp = @ + ll, !.lp = @ + ll]

StreamMatch(build, n, st, off, len) ==
    [(IF st.dp + len <= CopyEnd(build, n) THEN MatchCopy(build, st, off, len)
      ELSE WildCopy(st, st.dp, off, len, 1)) EXCEPT !.dp = @ + len]

\* A sequence of ll literals and a match of ml bytes; st is [mem, top, dp,
\* lp, br, rep, drep, bad].
CopySequence(build, e, lits, n, st, ll, ml, o) ==
    LET rep == <<IF o.code <= 3 THEN st.rep[o.code] ELSE o.code - 3,
                 IF o.code >= 2 THEN st.rep[1] ELSE st.rep[2],
                 IF o.code >= 3 THEN st.rep[2] ELSE st.rep[3]>>
        off == (IF e.repcodes THEN rep[1] ELSE o.code) * 2^e.shift
    IN  IF \/ o.code = 0
           \/ e.repcodes /\ o.code > MaxOffset + 3
           \/ st.lp + ll > Len(lits) \/ st.dp + ll > n
           \/ off > st.dp + ll \/ st.dp + ll + ml > n
        THEN [st EXCEPT !.bad = TRUE]
        ELSE [StreamMatch(build, n, StreamLiterals(build, lits, n, st, ll), off, ml)
                EXCEPT !.br = o.br, !.drep = o.drep, !.rep = IF e.repcodes THEN rep ELSE @]

\* One sequence of the fused loop.
FusedStep(build, e, lits, n, st, k) ==
    LET l == ReadUint(e.extra, st.br, UintRecon(e.ll[k]))
        m == ReadUint(e.extra, l.br, UintRecon(e.ml[k]))
    IN  CopySequence(build, e, lits, n, st, l.value, m.value + MinMatch,
                     ReadOffset(e, e.off[k], m.br, st.drep))

InRange(e) ==
    \A k \in 1..e.nseq : /\ e.ll[k] <= MaxSymbol
                         /\ e.ml[k] <= MaxSymbol
                         /\ e.off[k] <= (IF e.delta THEN DeltaSymbolMax ELSE OffsetSymbolMax)

\* [out, top]: the block, and where the furthest store ended.
StreamCorrupt(top) == [out |-> Fails("corrupt"), top |-> top]

\* The literals behind the last sequence.
StreamEnd(e, lits, n, end) ==
    LET whole == Store(end, end.dp, lits, end.lp, e.trailing)
    IN  IF \/ end.bad \/ end.lp + e.trailing # e.total_lit
           \/ end.dp + e.trailing # n
        THEN StreamCorrupt(end.top)
        ELSE [out |-> Ok(whole.mem), top |-> whole.top]

FusedLoop(build, e, lits, n) ==
    LET start == [mem |-> Fill(n, Blank), top |-> 0, dp |-> 0, lp |-> 0, bad |-> FALSE,
                  br  |-> [reg |-> Fill(RegisterBits, 0), n |-> 0, at |-> 0],
                  rep |-> RepInit, drep |-> RepInit]
        st[k \in 0..e.nseq] ==
            IF k = 0 THEN start
            ELSE LET before == st[k - 1]
                 IN  IF before.bad THEN before ELSE FusedStep(build, e, lits, n, before, k)
    IN  IF Len(lits) # e.total_lit THEN StreamCorrupt(0)
        ELSE StreamEnd(e, lits, n, st[e.nseq])

StreamsDecode(build, e, n) ==
    CASE \/ e.size # n \/ e.trailing > e.total_lit \/ e.shift > ShiftMax
         \/ n = 0 /\ (e.nseq # 0 \/ e.total_lit # 0)
         \/ ~InRange(e) -> StreamCorrupt(0)
      [] OTHER -> FusedLoop(build, e, IF e.context THEN Unsplit(e.lits, e.total_lit) ELSE e.lits, n)
=============================================================================
