------------------------------ MODULE Huffman ------------------------------
(***************************************************************************)
(* The canonical Huffman coders (src/entropy/huffman.c,                    *)
(* huffman_internal.h, huffman4.c): code lengths from a heap, limited to   *)
(* MaxLen by halving the counts, a bit writer and a bit reader that work   *)
(* on an accumulator of eight bytes, table lookups that yield one or two   *)
(* symbols and the bit-by-bit walk behind them, one stream or four.        *)
(* Bits are kept as sequences of zeros and ones, a byte is ByteBits of     *)
(* them; symbols are 0..NSyms - 1.                                         *)
(***************************************************************************)
EXTENDS Elements, SequencesExt, FiniteSetsExt

CONSTANTS
    NSyms,        \* the alphabet (256)
    MaxLen,       \* longest code (15)
    FastBits,     \* bits that index the lookup tables (11)
    Halvings,     \* passes of the length limiter (64)
    FourFrom,     \* inputs shorter than this are coded as one stream (256)
    HistFrom      \* inputs shorter than this are counted in one table (32)

AccBits == 8 * ByteBits

ASSUME HuffmanAssumption ==
    /\ NSyms \in Nat \ {0} /\ MaxLen \in Nat /\ NSyms <= 2^MaxLen
    /\ 2 * MaxLen <= AccBits
    /\ FastBits \in 1..MaxLen /\ 3 * FastBits <= AccBits - ByteBits
    /\ Halvings \in Nat \ {0} /\ FourFrom \in Nat /\ HistFrom \in Nat

Alphabet == 0..NSyms - 1

\* Four interleaved tables, added up at the end.
CountFreq(src) ==
    LET n4 == IF Len(src) < HistFrom THEN 0 ELSE 4 * (Len(src) \div 4)
        table(k) == {i \in DOMAIN src : IF i > n4 THEN k = 0 ELSE (i - 1) % 4 = k}
        seen(k, s) == Cardinality({i \in table(k) : src[i] = s})
    IN  Tabulated([s \in Alphabet |-> seen(0, s) + seen(1, s) + seen(2, s) + seen(3, s)])

----------------------------------------------------------------------------
(* Code lengths.  The heap holds [node, key]; its root is heap[1].         *)

HeapSwap(h, a, b) == [h EXCEPT ![a] = h[b], ![b] = h[a]]

HeapPush(heap, entry) ==
    LET n == Len(heap) + 1
        st[k \in 0..n] ==
            IF k = 0 THEN [h |-> Append(heap, entry), i |-> n]
            ELSE LET s == st[k - 1]
                     p == s.i \div 2
                 IN  IF s.i = 1 \/ s.h[p].key <= s.h[s.i].key THEN s
                     ELSE [h |-> HeapSwap(s.h, p, s.i), i |-> p]
    IN  st[n].h

\* The heap without its root: the last entry takes the place and sinks.
HeapPop(heap) ==
    LET n == Len(heap) - 1
        smaller(h, a, b) == IF b <= n /\ h[b].key < h[a].key THEN b ELSE a
        st[k \in 0..n] ==
            IF k = 0 THEN [h |-> SubSeq([heap EXCEPT ![1] = heap[n + 1]], 1, n), i |-> 1]
            ELSE LET s == st[k - 1]
                     c == smaller(s.h, smaller(s.h, s.i, 2 * s.i), 2 * s.i + 1)
                 IN  IF c = s.i THEN s ELSE [h |-> HeapSwap(s.h, s.i, c), i |-> c]
    IN  IF n = 0 THEN <<>> ELSE st[n].h

\* The depth of every symbol's leaf in the tree that joins the two lightest
\* nodes until one is left; nodes are numbered leaves first.
ComputeLengths(freq) ==
    LET leaves == SelectSeq([s \in 1..NSyms |-> s - 1], LAMBDA s : freq[s] > 0)
        n      == Len(leaves)
        pushed[k \in 0..n] ==
            IF k = 0 THEN <<>>
            ELSE HeapPush(pushed[k - 1], [node |-> k, key |-> freq[leaves[k]]])
        joined[k \in 0..n - 1] ==
            IF k = 0 THEN [heap |-> pushed[n], parent |-> Fill(2 * n - 1, 0)]
            ELSE LET st == joined[k - 1]
                     a  == st.heap[1]
                     h  == HeapPop(st.heap)
                     b  == h[1]
                 IN  [heap   |-> HeapPush(HeapPop(h), [node |-> n + k, key |-> a.key + b.key]),
                      parent |-> [st.parent EXCEPT ![a.node] = n + k, ![b.node] = n + k]]
        parent == Eager(joined[n - 1].parent)
        depth[i \in 1..2 * n - 1] == IF parent[i] = 0 THEN 0 ELSE 1 + depth[parent[i]]
        leaf(s) == CHOOSE k \in 1..n : leaves[k] = s
        length(s) == CASE freq[s] = 0 -> 0
                       [] freq[s] > 0 /\ n = 1 -> 1
                       [] freq[s] > 0 /\ n > 1 -> depth[leaf(s)]
    IN  Tabulated([s \in Alphabet |-> length(s)])

Longest(lens) == Max({lens[s] : s \in Alphabet})

\* Mutant: lengths that do not fit are cut off at the longest one.
LimitedLengthsClamped(freq) ==
    LET lens == ComputeLengths(freq)
    IN  Tabulated([s \in Alphabet |-> MinOf(MaxLen, lens[s])])

\* The counts are halved, in Halvings passes at most, until every length fits.
LimitedLengths(freq) ==
    LET halved(f) == [s \in Alphabet |-> IF f[s] > 1 THEN f[s] \div 2 ELSE f[s]]
        pass[k \in 0..Halvings - 1] ==
            IF k > 0 /\ Longest(pass[k - 1].lens) <= MaxLen THEN pass[k - 1]
            ELSE LET f == IF k = 0 THEN freq ELSE halved(pass[k - 1].freq)
                 IN  [freq |-> f, lens |-> ComputeLengths(f)]
    IN  pass[Halvings - 1].lens

----------------------------------------------------------------------------
(* Canonical codes: by length, then by symbol.                             *)

LenCount(lens) == Tabulated([l \in 0..MaxLen |->
    IF l = 0 THEN 0 ELSE Cardinality({s \in Alphabet : lens[s] = l})])

\* The first code of every length.
FirstCode(lens) ==
    LET count == LenCount(lens)
        code[l \in 0..MaxLen] == IF l = 0 THEN 0 ELSE (code[l - 1] + count[l - 1]) * 2
    IN  Tabulated(code)

BuildCanonical(lens) ==
    LET first == FirstCode(lens)
        code(s) == first[lens[s]] + Cardinality({r \in Alphabet : r < s /\ lens[r] = lens[s]})
    IN  Tabulated([s \in Alphabet |-> IF lens[s] = 0 THEN 0 ELSE code(s)])

\* One more than the highest symbol that has a code.
NLengths(lens) == Max({0} \cup {s + 1 : s \in {t \in Alphabet : lens[t] # 0}})

CodeBits(code, n) == Eager([j \in 1..n |-> Bit(code, n - j)])

\* bit_writer: half the accumulator goes out whenever it is full; bw_flush
\* writes the bytes that are left, the last one filled up with zeros.
WriteCodes(src, lens, codes) ==
    LET half == AccBits \div 2
        st[i \in 0..Len(src)] ==
            IF i = 0 THEN [out |-> <<>>, buf |-> <<>>, total |-> 0]
            ELSE LET before == st[i - 1]
                     s   == src[i]
                     buf == before.buf \o CodeBits(codes[s], lens[s])
                     total == before.total + lens[s]
                 IN  IF Len(buf) < half THEN [before EXCEPT !.buf = buf, !.total = total]
                     ELSE [out |-> before.out \o SubSeq(buf, 1, half),
                           buf |-> SubSeq(buf, half + 1, Len(buf)), total |-> total]
        end == st[Len(src)]
        pad == (-Len(end.buf)) % ByteBits
    IN  [total |-> end.total, payload |-> end.out \o end.buf \o Fill(pad, 0)]

\* The lengths up to the highest symbol that has a code.
StoredLens(lens) == [k \in 1..NLengths(lens) |-> lens[k - 1]]

CodedWith(src, lens) ==
    LET bits == WriteCodes(src, lens, BuildCanonical(lens))
    IN  [size |-> Len(src), bits |-> bits.total, payload |-> bits.payload,
         lens |-> StoredLens(lens)]

\* huffman_encode, and tdc_huffman_encode_prefreq with the caller's counts.
HuffmanEncodePrefreq(src, freq) == CodedWith(src, LimitedLengths(freq))
HuffmanEncode(src) == HuffmanEncodePrefreq(src, CountFreq(src))

----------------------------------------------------------------------------
(* Decoding tables.                                                        *)

\* What decode makes of a header: the lengths of all symbols.
HeaderLens(stored) ==
    Tabulated([s \in Alphabet |-> IF s < Len(stored) THEN stored[s + 1] ELSE 0])

Kraft(lens) ==
    LET count == LenCount(lens)
        sum[l \in 0..MaxLen] ==
            IF l = 0 THEN 0 ELSE sum[l - 1] + count[l] * 2^(MaxLen - l)
    IN  sum[MaxLen]

\* The symbols by length and value, and where each length begins.
SortedSyms(lens) ==
    SetToSortSeq({s \in Alphabet : lens[s] # 0},
                 LAMBDA a, b : lens[a] < lens[b] \/ (lens[a] = lens[b] /\ a < b))
FirstSym(lens) ==
    LET count == LenCount(lens)
        first[l \in 0..MaxLen] == IF l = 0 THEN 0 ELSE first[l - 1] + count[l - 1]
    IN  Tabulated(first)

\* The symbol whose code the index begins with, length 0 when it is longer
\* than FastBits.
FastTable(lens) ==
    LET count == LenCount(lens)
        first == FirstCode(lens)
        syms  == SortedSyms(lens)
        start == FirstSym(lens)
        hits(j) == {l \in 1..FastBits :
                       LET c == j \div 2^(FastBits - l) - first[l]
                       IN  c >= 0 /\ c < count[l]}
        entry(j, l) == [sym |-> syms[start[l] + j \div 2^(FastBits - l) - first[l] + 1], len |-> l]
    IN  Tabulated([j \in 0..2^FastBits - 1 |->
            IF hits(j) = {} THEN [sym |-> 0, len |-> 0] ELSE entry(j, Max(hits(j)))])

\* Two symbols where both codes fit the index: [syms, total], none for 0.
Fast2Table(fast) ==
    LET pair(j) ==
            LET one == fast[j]
                two == fast[(j * 2^one.len) % 2^FastBits]
            IN  CASE one.len = 0 -> [syms |-> <<>>, total |-> 0]
                  [] one.len > 0 /\ two.len # 0 /\ two.len <= FastBits - one.len ->
                        [syms |-> <<one.sym, two.sym>>, total |-> one.len + two.len]
                  [] OTHER -> [syms |-> <<one.sym>>, total |-> one.len]
    IN  Tabulated([j \in 0..2^FastBits - 1 |-> pair(j)])

\* Every table of a code, computed once.
DecodeTables(lens) ==
    LET fast == FastTable(lens)
    IN  [count |-> LenCount(lens), code |-> FirstCode(lens), start |-> FirstSym(lens),
         syms |-> SortedSyms(lens), fast |-> fast, fast2 |-> Fast2Table(fast)]

----------------------------------------------------------------------------
(* The bit reader: acc is AccBits wide, its first n bits are the next ones *)
(* of the payload, the ones behind them are stale or zero; ptr counts the  *)
(* bytes taken.                                                            *)

ReaderInit == [acc |-> Fill(AccBits, 0), n |-> 0, ptr |-> 0]

PayloadBytes(payload) == Len(payload) \div ByteBits

\* Where eight bytes can no longer be loaded at once.
SafeEnd(payload) == MaxOf(0, PayloadBytes(payload) - 7)

\* Every bit loaded is or-ed onto what is there.
Loaded(br, payload, count) ==
    [k \in 1..AccBits |->
        IF k <= br.n \/ k > br.n + count THEN br.acc[k]
        ELSE MaxOf(br.acc[k], payload[br.ptr * ByteBits + k - br.n])]

RefillFast(br, payload) ==
    LET fresh == (AccBits - br.n) \div ByteBits
    IN  [acc |-> Eager(Loaded(br, payload, AccBits - br.n)),
         n |-> br.n + fresh * ByteBits, ptr |-> br.ptr + fresh]

RefillSafe(br, payload) ==
    LET fresh == MinOf(PayloadBytes(payload) - br.ptr, (AccBits - br.n) \div ByteBits)
    IN  [acc |-> Eager(Loaded(br, payload, fresh * ByteBits)),
         n |-> br.n + fresh * ByteBits, ptr |-> br.ptr + fresh]

Refill(br, payload) ==
    IF br.ptr < SafeEnd(payload) THEN RefillFast(br, payload) ELSE RefillSafe(br, payload)

Consume(br, k) ==
    [br EXCEPT !.acc = Eager([i \in 1..AccBits |-> IF i + k <= AccBits THEN @[i + k] ELSE 0]),
               !.n = @ - k]

Index(br) ==
    LET value[k \in 0..FastBits] == IF k = 0 THEN 0 ELSE 2 * value[k - 1] + br.acc[k]
    IN  value[FastBits]

\* The reader with want bits or more, as far as the payload has them.
Topped(br, payload, want) == IF br.n < want THEN Refill(br, payload) ELSE br

\* One bit of the canonical walk, in front of br.
WalkBit(t, before, br) ==
    LET l    == before.len + 1
        code == 2 * before.code + br.acc[1]
        next == [before EXCEPT !.len = l, !.code = code, !.br = Consume(br, 1)]
    IN  IF t.count[l] # 0 /\ code < t.code[l] + t.count[l]
        THEN [next EXCEPT !.ok = TRUE, !.sym = t.syms[t.start[l] + code - t.code[l] + 1]]
        ELSE next

\* The canonical walk, a bit at a time: ok, sym and br are what it found.
SlowWalk(t, br, payload) ==
    LET st[l \in 0..MaxLen] ==
            IF l = 0 THEN [ok |-> FALSE, sym |-> 0, len |-> 0, code |-> 0, br |-> br]
            ELSE LET before == st[l - 1]
                 IN  IF before.ok THEN before
                     ELSE WalkBit(t, before, Topped(before.br, payload, 1))
    IN  st[MaxLen]

\* One round of a decoding loop: the lookup when allowed, the walk otherwise.
\* A state is [out, br, bad].
Walked(st, w) ==
    IF w.ok THEN [st EXCEPT !.out = Append(@, w.sym), !.br = w.br]
    ELSE [st EXCEPT !.bad = TRUE, !.br = w.br]
WalkOne(t, st, payload) == Walked(st, SlowWalk(t, st.br, payload))

TakePair(t, st) ==
    LET e == t.fast2[Index(st.br)]
    IN  [st EXCEPT !.out = @ \o e.syms, !.br = Consume(@, e.total)]

TakeOne(t, st) ==
    LET e == t.fast[Index(st.br)]
    IN  [st EXCEPT !.out = Append(@, e.sym), !.br = Consume(@, e.len)]

\* The loop of huffman_decode, and the tail of each of the four streams: n
\* symbols in all.  The single stream asks for two lookups' bits before a
\* pair is looked up, and looks up whatever is there; the four ask for one
\* lookup's and walk when there are fewer.
PairOrWalk(t, st, payload, single) ==
    IF (single \/ st.br.n >= FastBits) /\ t.fast2[Index(st.br)].total # 0
    THEN TakePair(t, st) ELSE WalkOne(t, st, payload)

OneOrWalk(t, st, payload) ==
    IF st.br.n >= FastBits /\ t.fast[Index(st.br)].len # 0
    THEN TakeOne(t, st) ELSE WalkOne(t, st, payload)

DecodeLoop(t, payload, n, from, single) ==
    LET filled(st, want) == [st EXCEPT !.br = Topped(@, payload, want)]
        st[k \in 0..n] ==
            IF k = 0 THEN from
            ELSE LET s == st[k - 1]
                 IN  CASE s.bad \/ Len(s.out) >= n -> s
                       [] ~s.bad /\ Len(s.out) = n - 1 ->
                            OneOrWalk(t, filled(s, FastBits), payload)
                       [] OTHER ->
                            PairOrWalk(t, filled(s, IF single THEN 2 * FastBits ELSE FastBits),
                                       payload, single)
    IN  st[n]

Beginning == [out |-> <<>>, br |-> ReaderInit, bad |-> FALSE]

HeaderBad(e, n) ==
    \/ e.size # n
    \/ Len(e.lens) > NSyms

CodeBad(lens) ==
    \/ \E s \in Alphabet : lens[s] > MaxLen
    \/ Kraft(lens) > 2^MaxLen
    \/ \A s \in Alphabet : lens[s] = 0

\* What the loops made of their streams.
Joined(ends) == IF \E k \in DOMAIN ends : ends[k].bad THEN Fails("corrupt")
                ELSE Ok(FlattenSeq([k \in DOMAIN ends |-> ends[k].out]))

OneStream(lens, paid, n) ==
    IF CodeBad(lens) THEN Fails("corrupt")
    ELSE Joined(<<DecodeLoop(DecodeTables(lens), paid, n, Beginning, TRUE)>>)

HuffmanDecode(e, n) ==
    LET need == (e.bits + ByteBits - 1) \div ByteBits
    IN  CASE HeaderBad(e, n) -> Fails("corrupt")
          [] ~HeaderBad(e, n) /\ need > PayloadBytes(e.payload) -> Fails("corrupt")
          [] ~HeaderBad(e, n) /\ need <= PayloadBytes(e.payload) /\ n = 0 ->
                IF e.bits = 0 /\ e.lens = <<>> THEN Ok(<<>>) ELSE Fails("corrupt")
          [] OTHER -> OneStream(HeaderLens(e.lens), SubSeq(e.payload, 1, need * ByteBits), n)

----------------------------------------------------------------------------
(* Four streams: each codes its quarter of the input.                      *)

\* Where quarter k = 0..3 of n symbols begins; quarter 4 is the end.
Quarter(n, k) == MinOf(n, k * ((n + 3) \div 4))

\* The payloads of the four quarters.
QuartersCoded(src, lens, codes) ==
    LET next(k) == IF k = 3 THEN Len(src) ELSE Quarter(Len(src), k + 1)
    IN  Eager([k \in 1..4 |->
            WriteCodes(Slice(src, Quarter(Len(src), k - 1), next(k - 1)), lens, codes).payload])

FourCoded(src, lens, parts) ==
    [size |-> Len(src), bits |-> 0, lens |-> StoredLens(lens),
     sizes |-> [k \in 1..3 |-> PayloadBytes(parts[k])], payload |-> FlattenSeq(parts)]

FourCodedWith(src, lens) == FourCoded(src, lens, QuartersCoded(src, lens, BuildCanonical(lens)))

Huffman4Encode(src) ==
    IF Len(src) < FourFrom THEN HuffmanEncode(src)
    ELSE FourCodedWith(src, LimitedLengths(CountFreq(src)))

\* The loop the four streams go through together: two lookups of pairs and
\* one of single symbols between refills, while every stream has six more
\* symbols and eight more bytes; it is left for good when one stream meets a
\* code the tables do not hold.
FourWayRounds(t, payloads, counts) ==
    LET parts == 1..4
        open(st) == /\ ~st.left
                    /\ \A k \in parts : /\ Len(st.s[k].out) < MaxOf(0, counts[k] - 5)
                                        /\ st.s[k].br.ptr < SafeEnd(payloads[k])
        refilled(st) == [st EXCEPT !.s = [k \in parts |->
                            [st.s[k] EXCEPT !.br = RefillFast(@, payloads[k])]]]
        pairs(st) == IF st.left \/ \E k \in parts : t.fast2[Index(st.s[k].br)].total = 0
                     THEN [st EXCEPT !.left = TRUE]
                     ELSE [st EXCEPT !.s = [k \in parts |-> TakePair(t, st.s[k])]]
        ones(st)  == IF st.left \/ \E k \in parts : t.fast[Index(st.s[k].br)].len = 0
                     THEN [st EXCEPT !.left = TRUE]
                     ELSE [st EXCEPT !.s = [k \in parts |-> TakeOne(t, st.s[k])]]
        st[r \in 0..counts[1]] ==
            IF r = 0 THEN [left |-> FALSE, s |-> [k \in parts |-> Beginning]]
            ELSE LET before == st[r - 1]
                 IN  IF open(before) THEN ones(pairs(pairs(refilled(before)))) ELSE before
    IN  st[counts[1]].s

\* Mutant: the last quarter is taken to be as long as the others.
QuarterCountsEven(n) == [k \in 1..4 |-> (n + 3) \div 4]
QuarterCounts(n) ==
    [k \in 1..4 |-> (IF k = 4 THEN n ELSE Quarter(n, k)) - Quarter(n, k - 1)]

\* The payload cut at the sizes of the first three streams.
QuartersPaid(e) ==
    LET begin[k \in 1..4] == IF k = 1 THEN 0 ELSE begin[k - 1] + e.sizes[k - 1] * ByteBits
        end(k) == IF k = 4 THEN Len(e.payload) ELSE begin[k + 1]
    IN  Eager([k \in 1..4 |-> Slice(e.payload, begin[k], end(k))])

FourStreams(t, paid, counts) ==
    LET rounds == FourWayRounds(t, paid, counts)
    IN  Eager([k \in 1..4 |-> DecodeLoop(t, paid[k], counts[k], rounds[k], FALSE)])

Huffman4Decode(e, n) ==
    LET lens == HeaderLens(e.lens)
        last == PayloadBytes(e.payload) - e.sizes[1] - e.sizes[2] - e.sizes[3]
    IN  CASE HeaderBad(e, n) -> Fails("corrupt")
          [] ~HeaderBad(e, n) /\ n < FourFrom -> HuffmanDecode(e, n)
          [] ~HeaderBad(e, n) /\ n >= FourFrom /\ (CodeBad(lens) \/ last < 0) ->
                Fails("corrupt")
          [] OTHER -> Joined(FourStreams(DecodeTables(lens), QuartersPaid(e), QuarterCounts(n)))
=============================================================================
