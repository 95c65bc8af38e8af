------------------------------ MODULE Formats ------------------------------
(***************************************************************************)
(* What lies in a container beside its blocks, byte by byte: the schema    *)
(* (src/format/schema.c, and the parser the stream decoder has of its      *)
(* own), the row-group index (src/format/rowgroup.c) and the statistics of *)
(* its columns (src/format/stats.c); and the buffers all of it is written  *)
(* into (src/core/buffer.h).                                               *)
(*                                                                         *)
(* A column is [name, dtype, ann], a row group [offset, n_rows, cols,      *)
(* stats], a column entry [block_offset, block_total]; strings are         *)
(* sequences of bytes.  Allocation failures are left out.                  *)
(***************************************************************************)
EXTENDS Elements, SequencesExt

CONSTANTS
    LastDtype,     \* the largest dtype a schema knows (12)
    ValueSize,     \* TDC_STATS_VALUE_SIZE (16)
    PrefixSize,    \* TDC_STATS_STRING_PREFIX (8)
    SizeBits,      \* bits of a size_t
    FirstBytes     \* capacity of a buffer's first allocation (64)

ASSUME FormatsAssumption ==
    /\ LastDtype \in Nat /\ PrefixSize \in 0..ValueSize /\ ValueSize \in Nat
    /\ SizeBits \in Nat /\ FirstBytes \in 1..2^SizeBits - 1

\* A number in n bytes, and the number n bytes from pos on stand for.
StoreLE(n, x)       == [k \in 1..n |-> ByteOf(x, k - 1)]
LoadLE(buf, pos, n) == ElemsOf(n, Slice(buf, pos, pos + n))[1]

----------------------------------------------------------------------------
(* The schema.                                                             *)

SchemaSize(cols) ==
    IF cols = <<>> THEN 0
    ELSE 2 + FoldSeq(LAMBDA c, n : n + 2 + Len(c.name) + 1 + 2 + Len(c.ann), 0, cols)

SchemaBytes(cols) ==
    LET bytes(c) == StoreLE(2, Len(c.name)) \o c.name \o <<c.dtype>>
                    \o StoreLE(2, Len(c.ann)) \o c.ann
    IN  IF cols = <<>> THEN <<>>
        ELSE StoreLE(2, Len(cols)) \o FlattenSeq([i \in DOMAIN cols |-> bytes(cols[i])])

\* Where the name of the column at pos ends, and whether all its fields lie
\* in the buffer.
NameEnd(buf, pos) == pos + 2 + LoadLE(buf, pos, 2)
ColumnEnd(buf, pos) ==
    NameEnd(buf, pos) + 3 + LoadLE(buf, NameEnd(buf, pos) + 1, 2)
ColumnFits(buf, pos) ==
    /\ pos + 2 <= Len(buf)
    /\ NameEnd(buf, pos) + 3 <= Len(buf)
    /\ ColumnEnd(buf, pos) <= Len(buf)
ColumnAt(buf, pos) ==
    [name  |-> Slice(buf, pos + 2, NameEnd(buf, pos)),
     dtype |-> buf[NameEnd(buf, pos) + 1],
     ann   |-> Slice(buf, NameEnd(buf, pos) + 3, ColumnEnd(buf, pos))]

\* What the strict parser asks of a column once its fields are in bounds.
Named(col) == col.name # <<>> /\ col.dtype \in 1..LastDtype

Astray == [pos |-> -1, cols |-> <<>>]

\* As many columns as the buffer says, from byte 2 on.
SchemaWalk(buf, strict) ==
    LET walked[i \in 0..LoadLE(buf, 0, 2)] ==
            IF i = 0 THEN [pos |-> 2, cols |-> <<>>]
            ELSE LET s == walked[i - 1]
                 IN  IF /\ s # Astray
                        /\ ColumnFits(buf, s.pos)
                        /\ strict => Named(ColumnAt(buf, s.pos))
                     THEN [pos  |-> ColumnEnd(buf, s.pos),
                           cols |-> Append(s.cols, ColumnAt(buf, s.pos))]
                     ELSE Astray
    IN  walked[LoadLE(buf, 0, 2)]

\* Mutant: bytes may be left over.
SchemaParseLeaving(buf) ==
    IF Len(buf) < 2 \/ SchemaWalk(buf, TRUE) = Astray THEN Fails("corrupt")
    ELSE Ok(SchemaWalk(buf, TRUE).cols)
\* tdc_schema_parse: what an extending pass reads the schema with.  A schema
\* without columns is not looked at further.
SchemaParse(buf) ==
    IF \/ Len(buf) < 2
       \/ LoadLE(buf, 0, 2) # 0 /\ SchemaWalk(buf, TRUE).pos # Len(buf)
    THEN Fails("corrupt")
    ELSE Ok(SchemaWalk(buf, TRUE).cols)

\* The stream decoder's own: a column needs neither a name nor a known type,
\* and bytes may follow the last.
DecoderSchema(buf) ==
    IF Len(buf) < 2 \/ SchemaWalk(buf, FALSE) = Astray THEN Fails("corrupt")
    ELSE Ok(SchemaWalk(buf, FALSE).cols)

----------------------------------------------------------------------------
(* Statistics: a value takes ValueSize bytes, zeros behind it.             *)

ZeroPadded(v) == v \o Fill(ValueSize - Len(v), 0)

StoreValue(size, v)    == ZeroPadded(StoreLE(size, v))
LoadValue(size, bytes) == LoadLE(bytes, 0, size)

StatsEntrySize == 1 + 2 * ValueSize + 8

StatsBytes(s) == <<s.has_stats>> \o s.min \o s.max \o StoreLE(8, s.null_count)
StatsAt(buf, pos) ==
    [has_stats  |-> buf[pos + 1],
     min        |-> Slice(buf, pos + 1, pos + 1 + ValueSize),
     max        |-> Slice(buf, pos + 1 + ValueSize, pos + 1 + 2 * ValueSize),
     null_count |-> LoadLE(buf, pos + 1 + 2 * ValueSize, 8)]

\* Mutant: floats are compared as their bits.
ScannedAsBits(dtype, e) ==
    IF dtype.kind = "signed" THEN ToSigned(Bits(dtype.size), e) ELSE e
\* What the scanner of a type compares.
Scanned(dtype, e) ==
    CASE dtype.kind = "signed" -> ToSigned(Bits(dtype.size), e)
      [] dtype.kind = "unsigned" -> e
      [] dtype.kind = "float" -> Ordered(Bits(dtype.size), e)

\* Bytes in the order of memcmp, the shorter string first.
Precedes(a, b) ==
    \E k \in 0..Len(a) :
        /\ k < Len(b) /\ SubSeq(a, 1, k) = SubSeq(b, 1, k)
        /\ k = Len(a) \/ a[k + 1] < b[k + 1]

Prefix(s) == ZeroPadded(SubSeq(s, 1, MinOf(Len(s), PrefixSize)))

StatsCompute(dtype, src) ==
    LET all == ToSet(src)
        below(x, y) == IF dtype.kind = "string" THEN Precedes(x, y)
                       ELSE Scanned(dtype, x) < Scanned(dtype, y)
        stored(x) == IF dtype.kind = "string" THEN Prefix(x) ELSE StoreValue(dtype.size, x)
    IN  IF src = <<>>
        THEN [has_stats |-> 0, min |-> ZeroPadded(<<>>), max |-> ZeroPadded(<<>>), null_count |-> 0]
        ELSE [has_stats  |-> 1,
              min        |-> stored(CHOOSE x \in all : \A y \in all : ~ below(y, x)),
              max        |-> stored(CHOOSE x \in all : \A y \in all : ~ below(x, y)),
              null_count |-> 0]

----------------------------------------------------------------------------
(* The row-group index.                                                    *)

GroupHead == 24    \* TDC_RG_HEADER_SIZE
EntrySize == 16    \* TDC_RG_COL_SIZE

GroupBytes(g) ==
    LET entry(c) == StoreLE(8, c.block_offset) \o StoreLE(8, c.block_total)
    IN  StoreLE(8, g.offset) \o StoreLE(8, g.n_rows) \o StoreLE(2, Len(g.cols))
        \o StoreLE(2, 0) \o StoreLE(4, Len(g.stats) * StatsEntrySize)
        \o FlattenSeq([c \in DOMAIN g.cols |-> entry(g.cols[c])])
        \o FlattenSeq([c \in DOMAIN g.stats |-> StatsBytes(g.stats[c])])

IndexBytes(groups) ==
    StoreLE(8, Len(groups)) \o FlattenSeq([g \in DOMAIN groups |-> GroupBytes(groups[g])])

NCols(buf, pos)     == LoadLE(buf, pos + 16, 2)
StatsTaken(buf, pos) == LoadLE(buf, pos + 20, 4)
GroupEnd(buf, pos) ==
    pos + GroupHead + NCols(buf, pos) * EntrySize + StatsTaken(buf, pos)

\* Mutant: the padding may hold anything.
GroupSoundUnpadded(buf, flag, pos) ==
    /\ pos + GroupHead <= Len(buf)
    /\ NCols(buf, pos) # 0
    /\ StatsTaken(buf, pos) # 0 => flag /\ StatsTaken(buf, pos) = NCols(buf, pos) * StatsEntrySize
    /\ GroupEnd(buf, pos) <= Len(buf)
GroupSound(buf, flag, pos) ==
    /\ pos + GroupHead <= Len(buf)
    /\ LoadLE(buf, pos + 18, 2) = 0
    /\ NCols(buf, pos) # 0
    /\ StatsTaken(buf, pos) # 0 => flag /\ StatsTaken(buf, pos) = NCols(buf, pos) * StatsEntrySize
    /\ GroupEnd(buf, pos) <= Len(buf)

GroupAt(buf, pos) ==
    LET n       == NCols(buf, pos)
        cols    == pos + GroupHead
        stats   == cols + n * EntrySize
    IN  [offset |-> LoadLE(buf, pos, 8),
         n_rows |-> LoadLE(buf, pos + 8, 8),
         cols   |-> [c \in 1..n |->
                        [block_offset |-> LoadLE(buf, cols + (c - 1) * EntrySize, 8),
                         block_total  |-> LoadLE(buf, cols + (c - 1) * EntrySize + 8, 8)]],
         stats  |-> IF StatsTaken(buf, pos) = 0 THEN <<>>
                    ELSE [c \in 1..n |-> StatsAt(buf, stats + (c - 1) * StatsEntrySize)]]

\* Both passes: all groups are checked before one is read.  flag is the
\* header's HAS_STATS.
IndexParse(buf, flag) ==
    LET n == LoadLE(buf, 0, 8)
        at[i \in 0..n] ==
            IF i = 0 THEN 8
            ELSE IF at[i - 1] < 0 \/ ~ GroupSound(buf, flag, at[i - 1]) THEN -1
            ELSE GroupEnd(buf, at[i - 1])
    IN  IF \/ Len(buf) < 8
           \/ n > (Len(buf) - 8) \div GroupHead
           \/ at[n] < 0
        THEN Fails("corrupt")
        ELSE Ok([g \in 1..n |-> GroupAt(buf, at[g - 1])])

----------------------------------------------------------------------------
(* tdc_buf_reserve doubles a capacity until it covers the need.  Once the  *)
(* doubling has shifted every bit out it goes on for ever.                 *)

Reserve(capacity, need) ==
    LET doubled[k \in 0..SizeBits] ==
            IF k = 0 THEN IF capacity = 0 THEN FirstBytes ELSE capacity
            ELSE Shl(SizeBits, doubled[k - 1], 1)
        enough == {k \in 0..SizeBits : doubled[k] >= need}
    IN  IF capacity >= need THEN Ok(capacity)
        ELSE IF enough = {} THEN Fails("never")
        ELSE Ok(doubled[CHOOSE k \in enough : \A j \in enough : k <= j])
=============================================================================
