-------------------------------- MODULE Fse --------------------------------
(***************************************************************************)
(* The table-driven range coder (src/entropy/fse.c): counts normalised to  *)
(* a table of 2^log slots, a state that stays at or above StateMin and     *)
(* below StateMin bytes' worth of it, pushed from the last symbol to the   *)
(* first and pulled forward.  Symbols are those of Huffman's alphabet.     *)
(***************************************************************************)
EXTENDS Huffman

CONSTANTS
    TableLogMin, TableLogMax,    \* sizes of the slot table (5, 12)
    StateLog                     \* StateMin = 2^StateLog (16)

ASSUME FseAssumption ==
    /\ TableLogMin \in Nat /\ TableLogMax \in TableLogMin..StateLog
    /\ NSyms <= 2^TableLogMax /\ StateLog \in Nat /\ StateLog >= ByteBits

StateMin == 2^StateLog
StateEnd == StateMin * 2^ByteBits
StateBytes == StateLog \div ByteBits + 1

\* Alphabets up to 2, 8, 32, 64, 128 and 200 symbols, and larger ones.
PickTableLog(active) ==
    TableLogMin + Cardinality({t \in {2, 8, 32, 64, 128, 200} : active > t})

SumOver(f) ==
    LET sum[s \in 0..NSyms] == IF s = 0 THEN 0 ELSE sum[s - 1] + f[s - 1]
    IN  sum[NSyms]

\* The lowest symbol that has the largest number, if that is above floor.
Largest(f, floor) ==
    LET top == Max({f[s] : s \in Alphabet})
    IN  IF top <= floor THEN {}
        ELSE {CHOOSE s \in Alphabet : f[s] = top /\ \A r \in Alphabet : r < s => f[r] < top}

\* The slots a count of f in total is worth, at least one.
Proportion(f, total, size) == MinOf(size, MaxOf(1, (f * size) \div total))

\* Slots sum to the table's size: what is over goes to the most frequent
\* symbol, what is short is taken one by one from the symbol that has most.
Normalize(freq, size) ==
    LET total == SumOver(freq)
        first == Tabulated([s \in Alphabet |->
                    IF freq[s] = 0 THEN 0 ELSE Proportion(freq[s], total, size)])
        diff  == size - SumOver(first)
        pull[k \in 0..MaxOf(0, -diff)] ==
            IF k = 0 THEN first
            ELSE LET norm == pull[k - 1]
                     from == Largest(norm, 1)
                 IN  Tabulated([s \in Alphabet |-> IF s \in from THEN norm[s] - 1 ELSE norm[s]])
    IN  CASE total = 0 -> first
          [] total > 0 /\ diff > 0 ->
                Tabulated([s \in Alphabet |->
                    IF s \in Largest(freq, 0) THEN first[s] + diff ELSE first[s]])
          [] total > 0 /\ diff <= 0 -> pull[MaxOf(0, -diff)]

\* Where each symbol's slots begin.
Cumulative(norm) ==
    LET cum[s \in 0..NSyms] == IF s = 0 THEN 0 ELSE cum[s - 1] + norm[s - 1]
    IN  Tabulated(cum)

\* The decoder's table, a [symbol, freq, cum] for every slot.
FatTable(norm) ==
    LET cum == Cumulative(norm)
        owner(p) == CHOOSE s \in Alphabet : cum[s] <= p /\ p < cum[s + 1]
    IN  Tabulated([p \in 0..cum[NSyms] - 1 |->
            [symbol |-> owner(p), freq |-> norm[owner(p)], cum |-> cum[owner(p)]]])

\* One symbol pushed: bytes leave the state until the symbol fits.
PushSymbol(norm, cum, log, st, s) ==
    LET limit == 2^(StateLog - log + ByteBits) * norm[s]
        left(k) == st.state \div 2^(k * ByteBits)
        gone  == CHOOSE k \in 0..StateBytes : left(k) < limit /\ (k = 0 \/ left(k - 1) >= limit)
        low   == left(gone)
    IN  [state |-> (low \div norm[s]) * 2^log + (low % norm[s]) + cum[s],
         bytes |-> [j \in 1..gone |-> left(gone - j) % 2^ByteBits] \o st.bytes]

\* The state after the first symbol has gone in, and the bytes in the order
\* they are read, the last one written first.
EncodeStream(src, norm, log) ==
    LET cum == Cumulative(norm)
        st[k \in 0..Len(src)] ==
            IF k = 0 THEN [state |-> StateMin, bytes |-> <<>>]
            ELSE PushSymbol(norm, cum, log, st[k - 1], src[Len(src) + 1 - k])
    IN  st[Len(src)]

FseEncode(src) ==
    LET freq   == CountFreq(src)
        active == {s \in Alphabet : freq[s] > 0}
        top    == Max({0} \cup {s + 1 : s \in active})
        log    == IF src = <<>> THEN TableLogMin ELSE PickTableLog(Cardinality(active))
        norm   == Normalize(freq, 2^log)
        coded  == EncodeStream(src, norm, log)
    IN  IF src # <<>> /\ SumOver(norm) # 2^log THEN Fails("corrupt")
        ELSE [status |-> "ok", size |-> Len(src), log |-> log,
              norm |-> [k \in 1..top |-> norm[k - 1]],
              state |-> coded.state, payload |-> coded.bytes]

\* One symbol pulled, and the bytes that bring the state up again:
\* a state is [state, off, out, bad].
PullSymbol(table, log, payload, st) ==
    LET slot == st.state % 2^log
        e    == table[slot]
        down == e.freq * (st.state \div 2^log) + slot - e.cum
        need == CHOOSE k \in 0..StateBytes : /\ down * 2^(k * ByteBits) >= StateMin
                                             /\ k = 0 \/ down * 2^((k - 1) * ByteBits) < StateMin
        up[k \in 0..need] == IF k = 0 THEN down ELSE up[k - 1] * 2^ByteBits + payload[st.off + k]
    IN  IF st.off + need > Len(payload) THEN [st EXCEPT !.bad = TRUE]
        ELSE [st EXCEPT !.state = up[need], !.off = @ + need, !.out = Append(@, e.symbol)]

FseDecode(e, n) ==
    LET norm  == Tabulated([s \in Alphabet |-> IF s < Len(e.norm) THEN e.norm[s + 1] ELSE 0])
        table == FatTable(norm)
        st[k \in 0..n] ==
            IF k = 0 THEN [state |-> e.state, off |-> 0, out |-> <<>>, bad |-> FALSE]
            ELSE LET s == st[k - 1]
                 IN  IF s.bad THEN s ELSE PullSymbol(table, e.log, e.payload, s)
        end == st[n]
    IN  CASE \/ e.size # n
             \/ e.log \notin TableLogMin..TableLogMax
             \/ Len(e.norm) > NSyms -> Fails("corrupt")
          [] e.size = n /\ n = 0 ->
                IF e.payload = <<>> /\ e.norm = <<>> /\ e.state = StateMin
                THEN Ok(<<>>) ELSE Fails("corrupt")
          [] e.size = n /\ n > 0 ->
                IF \/ SumOver(norm) # 2^e.log
                   \/ e.state < StateMin \/ e.state >= StateEnd
                   \/ end.bad \/ end.off # Len(e.payload)
                THEN Fails("corrupt") ELSE Ok(end.out)

----------------------------------------------------------------------------
(* The lane coder (src/entropy/lane.c): a shuffled block, cut into lanes   *)
(* of one length, each lane coded by a coder of its own and passed through *)
(* where that coder does not make it shorter.  The output of a coder is    *)
(* one cell of the payload, a byte that passes through is one too.         *)
(* Which coder the entropy of a lane picks and whether it shrinks the lane *)
(* are inputs here: the two outcomes of a measure over the bytes.          *)

CONSTANT MaxLanes     \* TDC_MAX_LANES (8)

ASSUME LanesAssumption == MaxLanes \in Nat \ {0}

\* The coders a lane may name.  "auto" is asked for, never stored.
SubCoders == {"none", "huffman", "fse"}

OneCell(e) == [status |-> e.status, cells |-> <<e>>]

SubEncode(id, lane) ==
    CASE id = "none"    -> [status |-> "ok", cells |-> lane]
      [] id = "huffman" -> [status |-> "ok", cells |-> <<HuffmanEncode(lane)>>]
      [] id = "fse"     -> OneCell(FseEncode(lane))

SubDecode(id, cells, n) ==
    CASE id = "none"    -> IF Len(cells) # n THEN Fails("corrupt") ELSE Ok(cells)
      [] id = "huffman" -> HuffmanDecode(cells[1], n)
      [] id = "fse"     -> FseDecode(cells[1], n)

\* The lanes one after the other, each as its coder left it where that is
\* shorter.
LanesJoined(size, picked, shrinks, lanes, coded) ==
    LET part(i) == IF shrinks[i] THEN coded[i].cells ELSE lanes[i]
    IN  IF \E i \in DOMAIN lanes : coded[i].status # "ok" THEN Fails("corrupt")
        ELSE [status |-> "ok", lane |-> size,
              ids     |-> [i \in DOMAIN lanes |-> IF shrinks[i] THEN picked[i] ELSE "none"],
              sizes   |-> [i \in DOMAIN lanes |-> Len(part(i))],
              payload |-> FlattenSeq([i \in DOMAIN lanes |-> part(i)])]

\* asked[i] is the coder lane i asks for, measured[i] the one its entropy
\* picks, shrinks[i] whether the coder's output is shorter than the lane.
LaneEncode(asked, measured, shrinks, src) ==
    LET n      == Len(asked)
        size   == Len(src) \div n
        lanes  == Eager([i \in 1..n |-> Slice(src, (i - 1) * size, i * size)])
        picked == [i \in 1..n |-> IF asked[i] = "auto" THEN measured[i] ELSE asked[i]]
    IN  CASE n \notin 1..MaxLanes -> Fails("inval")
          [] n \in 1..MaxLanes /\ Len(src) % n # 0 -> Fails("inval")
          [] OTHER ->
                IF \E i \in 1..n : picked[i] \notin SubCoders THEN Fails("inval")
                ELSE LanesJoined(size, picked, shrinks, lanes,
                                 Eager([i \in 1..n |-> SubEncode(picked[i], lanes[i])]))

\* Where the cells of each lane begin; one past the last, where they end.
LaneStart(e) ==
    LET at[i \in 1..Len(e.sizes) + 1] == IF i = 1 THEN 0 ELSE at[i - 1] + e.sizes[i - 1]
    IN  at

LaneDecode(e, n) ==
    LET lanes  == Len(e.ids)
        at     == LaneStart(e)
        out(i) == SubDecode(e.ids[i], Slice(e.payload, at[i], at[i + 1]), e.lane)
    IN  CASE \/ lanes \notin 1..MaxLanes
             \/ lanes * e.lane # n
             \/ at[lanes + 1] > Len(e.payload) -> Fails("corrupt")
          [] OTHER ->
                IF \E i \in 1..lanes : out(i).status # "ok" THEN Fails("corrupt")
                ELSE Ok(FlattenSeq([i \in 1..lanes |-> out(i).data]))
=============================================================================
