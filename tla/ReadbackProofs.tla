--------------------------- MODULE ReadbackProofs ---------------------------
(***************************************************************************)
(* Readback, proved: whatever the passes over a file went through, a       *)
(* decoder of it hands out the records that are due.  The blocks a         *)
(* creation writes follow each other from the first block slot on, an      *)
(* index lists them (or the first of them) in that order, and a later pass *)
(* goes on listing what an earlier one listed and writes over none of it.  *)
(***************************************************************************)
EXTENDS Readback, StreamEncoderRefinement

-----------------------------------------------------------------------------
(* What the row groups list, group after group.                            *)

\* The columns of row groups, or the identities read of them, are sequences.
LEMMA ColSeqs ==
    ASSUME NEW S, NEW R, \A r \in R : r.cols \in Seq(S), NEW gs \in Seq(R)
    PROVE  /\ [g \in DOMAIN gs |-> gs[g].cols] \in Seq(Seq(S))
           /\ Len([g \in DOMAIN gs |-> gs[g].cols]) = Len(gs)
           /\ AllIds(gs) \in Seq(S)
<1> DEFINE q == [g \in DOMAIN gs |-> gs[g].cols]
<1>1. DOMAIN gs = 1..Len(gs) /\ Len(gs) \in Nat
  OBVIOUS
<1>2. \A g \in 1..Len(gs) : gs[g].cols \in Seq(S)
  OBVIOUS
<1>3. q \in Seq(Seq(S)) /\ Len(q) = Len(gs)
  BY <1>1, <1>2
<1> HIDE DEF q
<1>4. FlattenSeq(q) \in Seq(S)
  BY <1>3, FlattenType
<1> QED
  BY <1>3, <1>4 DEF AllIds, q

LEMMA AllIdsNone == AllIds(<<>>) = <<>>
<1> DEFINE q == [g \in DOMAIN <<>> |-> <<>>[g].cols]
<1>1. q = <<>>
  OBVIOUS
<1>2. AllIds(<<>>) = FlattenSeq(q)
  BY DEF AllIds
<1>3. FlattenSeq(<<>>) = <<>>
  BY FlattenNone
<1> HIDE DEF q
<1> QED
  BY <1>1, <1>2, <1>3

LEMMA AllIdsAppend ==
    ASSUME NEW S, NEW R, \A r \in R : r.cols \in Seq(S), NEW gs \in Seq(R),
           NEW x \in R
    PROVE  AllIds(Append(gs, x)) = AllIds(gs) \o x.cols
<1> DEFINE q == [g \in DOMAIN gs |-> gs[g].cols]
           hs == Append(gs, x)
           t == [g \in DOMAIN hs |-> hs[g].cols]
<1>1. q \in Seq(Seq(S)) /\ Len(q) = Len(gs) /\ x.cols \in Seq(S)
  BY ColSeqs
<1>2. hs \in Seq(R) /\ Len(hs) = Len(gs) + 1
      /\ hs[Len(gs) + 1] = x /\ \A g \in 1..Len(gs) : hs[g] = gs[g]
  OBVIOUS
<1>3. t \in Seq(Seq(S)) /\ Len(t) = Len(hs)
  <2> HIDE DEF hs
  <2> QED
    BY <1>2, ColSeqs
<1>4. \A g \in 1..Len(gs) : t[g] = q[g]
  <2>1. DOMAIN hs = 1..Len(hs) /\ DOMAIN gs = 1..Len(gs) /\ Len(gs) \in Nat
    BY <1>2
  <2> HIDE DEF hs
  <2> QED
    BY <1>2, <2>1
<1>5. t[Len(gs) + 1] = x.cols
  <2>1. DOMAIN hs = 1..Len(hs) /\ Len(gs) \in Nat
    BY <1>2
  <2> HIDE DEF hs
  <2> QED
    BY <1>2, <2>1
<1>6. Len(gs) \in Nat
  OBVIOUS
<1> HIDE DEF q, t, hs
<1> DEFINE u == Append(q, x.cols)
<1>7. /\ u \in Seq(Seq(S)) /\ Len(u) = Len(q) + 1
      /\ u[Len(q) + 1] = x.cols /\ \A g \in 1..Len(q) : u[g] = q[g]
  BY <1>1
<1> HIDE DEF u
<1>8. \A g \in 1..Len(t) : t[g] = u[g]
  <2> SUFFICES ASSUME NEW g \in 1..Len(t)
               PROVE  t[g] = u[g]
    OBVIOUS
  <2>1. g \in 1..(Len(gs) + 1)
    BY <1>2, <1>3
  <2>2. CASE g = Len(gs) + 1
    BY <1>1, <1>5, <1>7, <2>2
  <2>3. CASE g # Len(gs) + 1
    <3>1. g \in 1..Len(gs)
      BY <1>6, <2>1, <2>3
    <3> QED
      BY <1>1, <1>4, <1>7, <3>1
  <2> QED
    BY <2>2, <2>3
<1>9. t = u
  BY <1>1, <1>2, <1>3, <1>7, <1>8, SeqEqual
<1>10. FlattenSeq(u) = FlattenSeq(q) \o x.cols
  BY <1>1, FlattenAppend DEF u
<1> QED
  BY <1>9, <1>10 DEF AllIds, q, t, hs

\* Where the c-th column of group g comes (SeekRowgroup's due, in Readback).
LEMMA AllIdsNth ==
    ASSUME NEW S, NEW R, \A r \in R : r.cols \in Seq(S), NEW gs \in Seq(R),
           NEW g \in DOMAIN gs, NEW c \in DOMAIN gs[g].cols
    PROVE  LET k == Len(AllIds(SubSeq(gs, 1, g - 1))) + c
           IN  k \in DOMAIN AllIds(gs) /\ AllIds(gs)[k] = gs[g].cols[c]
<1> DEFINE q  == [i \in DOMAIN gs |-> gs[i].cols]
           hs == SubSeq(gs, 1, g - 1)
           t  == [i \in DOMAIN hs |-> hs[i].cols]
<1>1. q \in Seq(Seq(S)) /\ Len(q) = Len(gs)
  BY ColSeqs
<1>2. /\ hs \in Seq(R) /\ Len(hs) = g - 1 /\ g - 1 \in Nat /\ g - 1 < Len(gs)
      /\ \A i \in 1..(g - 1) : hs[i] = gs[i]
  OBVIOUS
<1>3. t \in Seq(Seq(S)) /\ Len(t) = g - 1
  <2> HIDE DEF hs
  <2> QED
    BY <1>2, ColSeqs
<1>4. g \in DOMAIN q /\ q[g] = gs[g].cols
  OBVIOUS
<1>5. \A i \in 1..(g - 1) : t[i] = q[i]
  <2>1. DOMAIN hs = 1..(g - 1) /\ DOMAIN gs = 1..Len(gs) /\ Len(gs) \in Nat
    BY <1>2
  <2> HIDE DEF hs
  <2> QED
    BY <1>2, <2>1
<1> HIDE DEF q, t, hs
<1> DEFINE u == SubSeq(q, 1, g - 1)
<1>6. /\ u \in Seq(Seq(S)) /\ Len(u) = g - 1
      /\ \A i \in 1..(g - 1) : u[i] = q[i]
  BY <1>1, <1>2
<1> HIDE DEF u
<1>7. t = u
  <2>1. Len(t) = Len(u) /\ \A i \in 1..Len(t) : t[i] = u[i]
    BY <1>3, <1>5, <1>6
  <2> QED
    BY <1>3, <1>6, <2>1, SeqEqual
<1>8. LET k == Len(FlattenSeq(u)) + c
      IN  k \in DOMAIN FlattenSeq(q) /\ FlattenSeq(q)[k] = q[g][c]
  BY <1>1, <1>4, FlattenNth DEF u
<1> QED
  BY <1>4, <1>7, <1>8 DEF AllIds, q, t, hs

LEMMA AllIdsFrom ==
    ASSUME NEW S, NEW R, \A r \in R : r.cols \in Seq(S), NEW gs \in Seq(R),
           NEW k \in DOMAIN AllIds(gs)
    PROVE  \E g \in DOMAIN gs : \E c \in DOMAIN gs[g].cols :
              AllIds(gs)[k] = gs[g].cols[c]
<1> DEFINE q == [i \in DOMAIN gs |-> gs[i].cols]
<1>1. q \in Seq(Seq(S))
  BY ColSeqs
<1>2. DOMAIN q = DOMAIN gs /\ \A g \in DOMAIN gs : q[g] = gs[g].cols
  OBVIOUS
<1>3. AllIds(gs) = FlattenSeq(q)
  BY DEF AllIds
<1> HIDE DEF q
<1>4. \E g \in DOMAIN q : \E c \in DOMAIN q[g] : FlattenSeq(q)[k] = q[g][c]
  BY <1>1, <1>3, FlattenFrom
<1> QED
  BY <1>2, <1>3, <1>4

LEMMA GroupCols == \A r \in Group : r.cols \in Seq(Col)
BY DEF Group

\* What a reader makes of the columns of an index, column by column.
LEMMA AllIdsRead ==
    ASSUME NEW gs \in Seq(Group), NEW b
    PROVE  /\ Len(AllIds(GroupsRead(gs, b))) = Len(AllIds(gs))
           /\ \A k \in DOMAIN AllIds(gs) :
                 AllIds(GroupsRead(gs, b))[k] = TheId(BlocksAt(AllIds(gs)[k], b))
<1> DEFINE F == [c \in Col |-> TheId(BlocksAt(c, b))]
           R == {F[c] : c \in Col}
           q == [g \in DOMAIN gs |-> gs[g].cols]
           t == [g \in DOMAIN gs |-> ColsRead(gs[g].cols, b)]
<1>1. q \in Seq(Seq(Col)) /\ Len(q) = Len(gs)
  BY ColSeqs, GroupCols
<1>2. /\ DOMAIN gs = 1..Len(gs) /\ Len(gs) \in Nat
      /\ \A g \in DOMAIN gs : gs[g].cols \in Seq(Col) /\ q[g] = gs[g].cols
  BY GroupType
<1>3. ASSUME NEW cols \in Seq(Col)
      PROVE  /\ ColsRead(cols, b) \in Seq(R)
             /\ Len(ColsRead(cols, b)) = Len(cols)
             /\ \A c \in DOMAIN cols : ColsRead(cols, b)[c] = F[cols[c]]
  <2>1. \A c \in DOMAIN cols : cols[c] \in Col
    OBVIOUS
  <2>2. \A c \in DOMAIN cols : TheId(BlocksAt(cols[c], b)) = F[cols[c]]
    BY <2>1
  <2>3. \A c \in DOMAIN cols : F[cols[c]] \in R
    BY <2>1
  <2> HIDE DEF F, R
  <2>4. DOMAIN cols = 1..Len(cols) /\ Len(cols) \in Nat
    OBVIOUS
  <2> QED
    BY <2>2, <2>3, <2>4 DEF ColsRead
<1> HIDE DEF F, R
<1>4. /\ t \in Seq(Seq(R)) /\ Len(t) = Len(q)
      /\ \A g \in DOMAIN q : /\ Len(t[g]) = Len(q[g])
                             /\ \A c \in DOMAIN q[g] : t[g][c] = F[q[g][c]]
  <2>1. \A g \in DOMAIN gs : /\ t[g] \in Seq(R) /\ Len(t[g]) = Len(gs[g].cols)
                             /\ \A c \in DOMAIN gs[g].cols :
                                   t[g][c] = F[gs[g].cols[c]]
    BY <1>2, <1>3
  <2>2. t \in Seq(Seq(R)) /\ Len(t) = Len(gs)
    BY <1>2, <2>1
  <2>3. DOMAIN q = DOMAIN gs
    OBVIOUS
  <2> HIDE DEF t, q
  <2>4. ASSUME NEW g \in DOMAIN q
        PROVE  /\ Len(t[g]) = Len(q[g])
               /\ \A c \in DOMAIN q[g] : t[g][c] = F[q[g][c]]
    <3>1. g \in DOMAIN gs /\ q[g] = gs[g].cols
      BY <1>2, <2>3
    <3> QED
      BY <2>1, <3>1
  <2> QED
    BY <1>1, <2>2, <2>4
<1>5. AllIds(GroupsRead(gs, b)) = FlattenSeq(t)
  <2>1. /\ DOMAIN GroupsRead(gs, b) = DOMAIN gs
        /\ \A g \in DOMAIN gs :
              GroupsRead(gs, b)[g].cols = ColsRead(gs[g].cols, b)
    BY DEF GroupsRead
  <2>2. [g \in DOMAIN GroupsRead(gs, b) |-> GroupsRead(gs, b)[g].cols] = t
    BY <2>1
  <2> QED
    BY <2>2 DEF AllIds
<1>6. AllIds(gs) = FlattenSeq(q)
  BY DEF AllIds
<1> HIDE DEF q, t
<1>7. /\ Len(FlattenSeq(t)) = Len(FlattenSeq(q))
      /\ \A k \in DOMAIN FlattenSeq(q) :
            FlattenSeq(t)[k] = F[FlattenSeq(q)[k]]
  BY <1>1, <1>4, FlattenMap
<1>8. \A k \in DOMAIN FlattenSeq(q) : FlattenSeq(q)[k] \in Col
  BY <1>1, FlattenType
<1> QED
  BY <1>5, <1>6, <1>7, <1>8 DEF F

-----------------------------------------------------------------------------
(* The invariant.                                                          *)

\* The columns follow each other from offset start on; the offset after the
\* last; the offset of the k-th, or of what comes after the last.
Chained(cols, start) ==
    \A k \in DOMAIN cols :
        cols[k].off = IF k = 1 THEN start
                      ELSE cols[k - 1].off + cols[k - 1].total
EndOf(cols, start) ==
    IF cols = <<>> THEN start
    ELSE cols[Len(cols)].off + cols[Len(cols)].total
Place(cols, start, k) ==
    IF k \in DOMAIN cols THEN cols[k].off ELSE EndOf(cols, start)

\* The k-th column is where the block ids[k] is in b.
Holds(cols, ids, b) ==
    /\ Len(cols) = Len(ids)
    /\ \A k \in DOMAIN cols :
          /\ cols[k].total = RecordSize[ids[k]]
          /\ BlockExtent(cols[k].off, ids[k]) \in b

\* A block is the record its identity says, whole.
WholeBlocks == \A e \in body : e.kind = "block" => e = BlockExtent(e.at, e.id)

\* The blocks ids lie one after another from the first block slot of h on.
Written(cols, ids, h, b) ==
    /\ Holds(cols, ids, b)
    /\ Chained(cols, BlocksStart(h))

\* A creation writes its blocks up to write_pos, and lists them so.
LaidAs(cols) ==
    /\ cols \in Seq(Col)
    /\ Written(cols, laid, hdr, body)
    /\ pc # "open_schema" => EndOf(cols, BlocksStart(hdr)) = write_pos
    /\ \A k \in DOMAIN cols : cols[k].off + cols[k].total <= write_pos
    /\ ~ failed => AllIds(groups) \o cur_cols = cols

LaysAll ==
    /\ laid = AllIds(want.groups) \o want.open
    /\ n_blocks = Len(laid)
    /\ hdr.magic /\ ~ hdr.widened /\ hdr.n_blocks = 0
    /\ hdr.schema_size = SizeOfSchema(schema_cols)
    /\ pc = "open_schema" => laid = <<>>

CreateLaid == mode = "create" => LaysAll /\ \E cols : LaidAs(cols)

\* And leaves them so, if it ends without an index.
RestLaid ==
    mode = "closed" =>
        /\ n_blocks = 0
        /\ hdr.magic /\ ~ Committed(hdr) =>
              /\ ~ hdr.widened
              /\ hdr.n_blocks \in {0, Len(laid)}
              /\ \E cols \in Seq(Col) : Written(cols, laid, hdr, body)

\* The index gs of a header as a creation leaves it lists the blocks from the
\* first slot on, and up to itself if it lists all that were counted.
IndexLaid(h, gs) ==
    Committed(h) /\ ~ h.widened =>
        /\ Chained(AllIds(gs), BlocksStart(h))
        /\ Len(AllIds(gs)) <= h.n_blocks
        /\ Len(AllIds(gs)) = h.n_blocks =>
              EndOf(AllIds(gs), BlocksStart(h)) = h.idx_off

FoundLaid ==
    /\ mode = "closed" =>
          \A x \in IndexesAt(hdr, body) : IndexLaid(hdr, x.groups)
    /\ Reopened => IndexLaid(orig_hdr, orig_groups)

FileInv == PassInv /\ WholeBlocks /\ CreateLaid /\ RestLaid /\ FoundLaid

\* The container, the pass over it and the one it was opened on list col.
ListedIn(col, gs) ==
    \E g \in DOMAIN gs : \E c \in DOMAIN gs[g].cols : gs[g].cols[c] = col
Listed(col) ==
    /\ Reopened => ListedIn(col, orig_groups) /\ ListedIn(col, groups)
    /\ mode = "closed" =>
          \A x \in IndexesAt(hdr, body) : ListedIn(col, x.groups)

\* The blocks the reader is owed are where cols says, and will stay there.
Owed(cols) ==
    /\ Holds(cols, owed, body)
    /\ Committed(r_header) => \A k \in DOMAIN cols : Listed(cols[k])
    /\ ~ r_header.widened =>
          /\ Chained(cols, BlocksStart(r_header))
          /\ Settled => EndOf(cols, BlocksStart(r_header)) = r_header.idx_off
    /\ r_rg = <<>> \/ AllIds(r_rg) = cols

\* How far the reader got.
Walked(cols) ==
    /\ r_outcome \in {"opened", "read", "skipped", "undecoded"} =>
          /\ due >= 1 /\ r_blocks_read < due
          /\ ~ r_header.widened /\ due <= Len(owed) + 1 =>
                r_io = Place(cols, BlocksStart(r_header), due)
    /\ r_peeked # D!NoRecord =>
          /\ due >= 1 /\ r_blocks_read < due
          /\ r_peeked.size \in Nat /\ r_peeked.size >= BlockHeader
          /\ due \in DOMAIN owed =>
                r_peeked = BlockExtent(cols[due].off, owed[due])
          /\ Settled => due \in DOMAIN owed
    /\ r_outcome \in {"record", "nomem"} =>
          /\ r_peeked # D!NoRecord
          /\ due \in DOMAIN owed => r_io = cols[due].off + BlockHeader
    /\ r_outcome = "end" => due > Len(owed)
    /\ r_outcome = "corrupt" => ~ Settled

ReaderKept ==
    r_open =>
        /\ mode # "create"
        /\ ~ overtaken => mode = "closed" /\ hdr = r_header
        /\ Committed(r_header) => Committed(hdr)
        /\ ~ Committed(r_header) => ~ overtaken
        /\ ~ r_header.widened =>
              r_header.n_blocks = 0 \/ Len(owed) <= r_header.n_blocks
        /\ \E cols \in Seq(Col) : Owed(cols) /\ Walked(cols)

ReaderShut ==
    ~ r_open => r_peeked = D!NoRecord /\ r_outcome = "none" /\ r_rg = <<>>

ReadInv == FileInv /\ ReaderTypeOK /\ ReaderKept /\ ReaderShut

-----------------------------------------------------------------------------
(* Columns one after another.                                              *)

LEMMA ChainNone ==
    ASSUME NEW start
    PROVE  Chained(<<>>, start) /\ EndOf(<<>>, start) = start
BY DEF Chained, EndOf

LEMMA ChainNext ==
    ASSUME NEW cols \in Seq(Col), NEW start, Chained(cols, start),
           NEW k \in DOMAIN cols
    PROVE  Place(cols, start, k + 1) = cols[k].off + cols[k].total
<1>1. Len(cols) \in Nat /\ DOMAIN cols = 1..Len(cols) /\ cols # <<>>
  OBVIOUS
<1>2. CASE k = Len(cols)
  BY <1>1, <1>2 DEF Place, EndOf
<1>3. CASE k < Len(cols)
  <2>1. k + 1 \in DOMAIN cols /\ k + 1 # 1 /\ (k + 1) - 1 = k
    BY <1>1, <1>3
  <2>2. cols[k + 1].off = cols[(k + 1) - 1].off + cols[(k + 1) - 1].total
    BY <2>1 DEF Chained
  <2> QED
    BY <2>1, <2>2 DEF Place
<1> QED
  BY <1>1, <1>2, <1>3

LEMMA ChainFirst ==
    ASSUME NEW cols \in Seq(Col), NEW start, Chained(cols, start)
    PROVE  Place(cols, start, 1) = start
BY DEF Chained, Place, EndOf

LEMMA ChainEnd ==
    ASSUME NEW cols \in Seq(Col), NEW start
    PROVE  Place(cols, start, Len(cols) + 1) = EndOf(cols, start)
BY DEF Place

LEMMA ChainAppend ==
    ASSUME NEW cols \in Seq(Col), NEW start, Chained(cols, start),
           NEW col \in Col, col.off = EndOf(cols, start)
    PROVE  /\ Append(cols, col) \in Seq(Col)
           /\ Chained(Append(cols, col), start)
           /\ EndOf(Append(cols, col), start) = col.off + col.total
<1> DEFINE t == Append(cols, col)
<1>1. /\ t \in Seq(Col) /\ Len(t) = Len(cols) + 1 /\ t[Len(cols) + 1] = col
      /\ \A i \in 1..Len(cols) : t[i] = cols[i]
      /\ t # <<>> /\ DOMAIN t = 1..(Len(cols) + 1) /\ Len(cols) \in Nat
      /\ DOMAIN cols = 1..Len(cols)
  OBVIOUS
<1> HIDE DEF t
<1>2. EndOf(t, start) = col.off + col.total
  BY <1>1 DEF EndOf
<1>3. ASSUME NEW k \in DOMAIN t
      PROVE  t[k].off = IF k = 1 THEN start ELSE t[k - 1].off + t[k - 1].total
  <2>1. CASE k \in 1..Len(cols)
    <3>1. t[k] = cols[k] /\ (k # 1 => k - 1 \in 1..Len(cols) /\ t[k - 1] = cols[k - 1])
      BY <1>1, <2>1
    <3> QED
      BY <3>1, <2>1, <1>1 DEF Chained
  <2>2. CASE k = Len(cols) + 1
    <3>1. CASE Len(cols) = 0
      BY <1>1, <2>2, <3>1 DEF EndOf
    <3>2. CASE Len(cols) # 0
      <4>1. k - 1 = Len(cols) /\ k # 1 /\ cols # <<>> /\ k - 1 \in 1..Len(cols)
        BY <1>1, <2>2, <3>2
      <4>2. t[k - 1] = cols[Len(cols)] /\ t[k] = col
        BY <1>1, <2>2, <4>1
      <4> QED
        BY <4>1, <4>2 DEF EndOf
    <3> QED
      BY <3>1, <3>2
  <2> QED
    BY <1>1, <2>1, <2>2
<1> QED
  BY <1>1, <1>2, <1>3 DEF Chained, t

\* What lists the first of them.
LEMMA ChainPrefix ==
    ASSUME NEW a \in Seq(Col), NEW b \in Seq(Col), NEW start,
           Chained(a \o b, start)
    PROVE  Chained(a, start) /\ Len(a) <= Len(a \o b)
<1> DEFINE t == a \o b
<1>1. /\ Len(a) <= Len(t) /\ \A i \in 1..Len(a) : t[i] = a[i]
      /\ Len(a) \in Nat /\ DOMAIN a = 1..Len(a) /\ DOMAIN t = 1..Len(t)
      /\ Len(t) \in Nat
  OBVIOUS
<1> HIDE DEF t
<1>2. Chained(t, start)
  BY DEF t
<1>3. ASSUME NEW k \in DOMAIN a
      PROVE  a[k].off = IF k = 1 THEN start ELSE a[k - 1].off + a[k - 1].total
  <2>1. t[k] = a[k] /\ k \in DOMAIN t
    BY <1>1
  <2>2. k # 1 => k - 1 \in 1..Len(a) /\ t[k - 1] = a[k - 1]
    BY <1>1
  <2> QED
    BY <1>2, <2>1, <2>2 DEF Chained
<1> QED
  BY <1>1, <1>3 DEF Chained, t

LEMMA WholeNext ==
    ASSUME FileInv, Next
    PROVE  WholeBlocks'
<1>1. CASE mode = "closed"
  <2>1. \/ \E n \in Columns, s \in BOOLEAN : OpenCreate(n, s)
        \/ \E n \in Columns : OpenWiden(n)
        \/ OpenExtend
    BY <1>1, Opens DEF FileInv
  <2>2. body' \subseteq body
    BY <2>1, OpensClosed
  <2> QED
    BY <2>2 DEF FileInv, WholeBlocks
<1>2. CASE mode # "closed"
  <2>1. BodyGoes
    BY <1>2, BodyBy DEF FileInv
  <2>2. \A e : e = BlockExtent(io, req.payload) => e = BlockExtent(e.at, e.id)
    BY DEF BlockExtent
  <2> QED
    BY <2>1, <2>2 DEF FileInv, WholeBlocks, BodyGoes
<1> QED
  BY <1>1, <1>2

-----------------------------------------------------------------------------
(* A creation lays its blocks one after another.                           *)

LEMMA HoldsKept ==
    ASSUME NEW cols \in Seq(Col), NEW ids, NEW b, NEW b2, NEW m \in Nat,
           Holds(cols, ids, b), KeptBelow(b, b2, m),
           \A k \in DOMAIN cols : cols[k].off + cols[k].total <= m
    PROVE  Holds(cols, ids, b2)
<1>1. ASSUME NEW k \in DOMAIN cols
      PROVE  BlockExtent(cols[k].off, ids[k]) \in b2
  <2>1. /\ BlockExtent(cols[k].off, ids[k]) \in b
        /\ cols[k].total = RecordSize[ids[k]]
    BY DEF Holds
  <2>2. /\ BlockExtent(cols[k].off, ids[k]).at = cols[k].off
        /\ BlockExtent(cols[k].off, ids[k]).size = cols[k].total
    BY <2>1 DEF BlockExtent
  <2> QED
    BY <2>1, <2>2 DEF KeptBelow
<1> QED
  BY <1>1 DEF Holds

\* A step that stages nothing and keeps what is staged.
LEMMA CreateQuiet ==
    ASSUME FileInv, mode = "create",
           KeptBelow(body, body', write_pos),
           UNCHANGED <<hdr, session, write_pos, n_blocks, want>>,
           laid' = AllIds(want'.groups) \o want'.open,
           pc' = "open_schema" <=> pc = "open_schema",
           \/ failed'
           \/ failed' = failed /\ groups' = groups /\ cur_cols' = cur_cols
    PROVE  CreateLaid'
<1>1. LaysAll /\ \E cols : LaidAs(cols)
  BY DEF FileInv, CreateLaid
<1>2. PICK cols : LaidAs(cols)
  BY <1>1
<1>3. schema_cols' = schema_cols /\ write_pos \in Nat
  BY DEF session, FileInv, PassInv, IInv, TypeOK
<1>4. laid' = laid /\ LaysAll'
  BY <1>1, <1>3 DEF LaysAll
<1>5. Holds(cols, laid, body')
  BY <1>2, <1>3, HoldsKept DEF LaidAs, Written
<1>6. Holds(cols, laid', body')
  BY <1>4, <1>5
<1>7. Chained(cols, BlocksStart(hdr')) /\ EndOf(cols, BlocksStart(hdr')) = EndOf(cols, BlocksStart(hdr))
  BY <1>2 DEF LaidAs, Written
<1>8. LaidAs(cols)'
  BY <1>2, <1>6, <1>7 DEF LaidAs, Written
<1> QED
  BY <1>4, <1>8 DEF CreateLaid

Told == [cols : Seq(Payload), stats : Seq(BOOLEAN)]

\* What is listed, in one piece.
LEMMA ListTypes ==
    ASSUME TypeOK
    PROVE  /\ AllIds(groups) \in Seq(Col) /\ cur_cols \in Seq(Col)
           /\ AllIds(want.groups) \in Seq(Payload) /\ want.open \in Seq(Payload)
           /\ groups \in Seq(Group) /\ want.groups \in Seq(Told)
<1>1. /\ groups \in Seq(Group) /\ cur_cols \in Seq(Col)
      /\ want.groups \in Seq(Told) /\ want.open \in Seq(Payload)
  BY DEF TypeOK, Staged, Told
<1>2. AllIds(groups) \in Seq(Col)
  BY <1>1, GroupCols, ColSeqs
<1>3. \A r \in Told : r.cols \in Seq(Payload)
  BY DEF Told
<1>4. AllIds(want.groups) \in Seq(Payload)
  BY <1>1, <1>3, ColSeqs
<1> QED
  BY <1>1, <1>2, <1>4

LEMMA CreateOpens ==
    ASSUME FileInv, NEW n \in Columns, NEW s \in BOOLEAN, OpenCreate(n, s),
           laid' = AllIds(want'.groups) \o want'.open
    PROVE  CreateLaid'
<1>1. /\ mode = "closed" /\ body' = {} /\ write_pos' = HeaderSize
      /\ hdr' = [NoHeader EXCEPT !.magic = TRUE,
                                 !.schema_size = SizeOfSchema(n)]
      /\ schema_cols' = n /\ pc' = IF n = 0 THEN "idle" ELSE "open_schema"
      /\ UNCHANGED <<openrg, staged, want>>
  BY Zenon DEF OpenCreate, CanOpen
<1>2. /\ groups = <<>> /\ cur_cols = <<>> /\ n_blocks = 0
      /\ want = [groups |-> <<>>, open |-> <<>>]
  BY <1>1 DEF FileInv, PassInv, IInv, ControlOK, IdleOK, RestLaid
<1>3. /\ groups' = <<>> /\ cur_cols' = <<>> /\ n_blocks' = 0
      /\ want'.groups = <<>> /\ want'.open = <<>>
  BY <1>1, <1>2 DEF openrg, staged
<1>4. AllIds(<<>>) \o <<>> = <<>>
  BY AllIdsNone
<1>5. laid' = <<>>
  BY <1>3, <1>4
<1>6. /\ hdr'.magic /\ ~ hdr'.widened /\ hdr'.n_blocks = 0
      /\ hdr'.schema_size = SizeOfSchema(schema_cols')
      /\ BlocksStart(hdr') = HeaderSize + SizeOfSchema(n)
  BY <1>1 DEF NoHeader, BlocksStart
<1>7. Len(<<>>) = 0
  OBVIOUS
<1>8. LaysAll'
  BY <1>3, <1>5, <1>6, <1>7 DEF LaysAll
<1>9. pc' # "open_schema" => SizeOfSchema(n) = 0 /\ HeaderSize + SizeOfSchema(n) = HeaderSize
  BY <1>1, SizesAssumption DEF SizeOfSchema
<1>10. LaidAs(<<>>)'
  <2>1. Holds(<<>>, laid', body')
    BY <1>5 DEF Holds
  <2> QED
    BY <1>1, <1>3, <1>4, <1>6, <1>9, <2>1, ChainNone DEF LaidAs, Written
<1> QED
  BY <1>8, <1>10 DEF CreateLaid

LEMMA CreateSchema ==
    ASSUME FileInv, mode = "create", WriteOpenSchema,
           laid' = AllIds(want'.groups) \o want'.open
    PROVE  CreateLaid'
<1>1. /\ pc = "open_schema" /\ pc' = "idle"
      /\ write_pos' = write_pos + SizeOfSchema(schema_cols)
      /\ UNCHANGED <<hdr, session, openrg, staged, failed, history>>
  BY DEF WriteOpenSchema
<1>2. /\ schema_cols' = schema_cols /\ groups' = groups /\ cur_cols' = cur_cols
      /\ want' = want /\ n_blocks' = n_blocks
  BY <1>1 DEF session, openrg, staged, history
<1>3. /\ LaysAll /\ write_pos = HeaderSize /\ groups = <<>> /\ cur_cols = <<>>
      /\ laid = <<>>
  BY <1>1 DEF FileInv, CreateLaid, LaysAll, PassInv, IInv, CreateOK
<1>4. laid' = <<>> /\ LaysAll'
  BY <1>1, <1>2, <1>3 DEF LaysAll
<1>5. BlocksStart(hdr') = write_pos'
  BY <1>1, <1>3 DEF LaysAll, BlocksStart
<1>6. AllIds(<<>>) \o <<>> = <<>>
  BY AllIdsNone
<1>7. Holds(<<>>, laid', body')
  BY <1>4 DEF Holds
<1>8. LaidAs(<<>>)'
  BY <1>2, <1>3, <1>5, <1>6, <1>7, ChainNone DEF LaidAs, Written
<1> QED
  BY <1>4, <1>8 DEF CreateLaid

\* One more block, right behind the last.
LEMMA CreateAppends ==
    ASSUME FileInv, PassInv', mode = "create", AppendToGroup,
           KeptBelow(body, body', write_pos),
           laid' = AllIds(want'.groups) \o want'.open
    PROVE  CreateLaid'
<1> DEFINE p == req.payload
<1>1. /\ pc = "append" /\ pc' = "idle" /\ body' = Put(body, BlockExtent(io, p))
      /\ write_pos' = write_pos + RecordSize[p] /\ n_blocks' = n_blocks + 1
      /\ cur_cols' = Append(cur_cols, Pending)
      /\ want' = [want EXCEPT !.open = Append(@, p)]
      /\ UNCHANGED <<hdr, session, failed, groups>>
  BY Zenon DEF AppendToGroup, Advance
<1>2. /\ TypeOK /\ p \in Payload /\ ~ failed /\ io = write_pos
      /\ write_pos \in Nat
  BY <1>1 DEF FileInv, PassInv, IInv, ControlOK, StagedOK, TypeOK, AtCursor
<1>3. LaysAll /\ \E cols : LaidAs(cols)
  BY DEF FileInv, CreateLaid
<1>4. PICK cols : LaidAs(cols)
  BY <1>3
<1>5. cols = AllIds(groups) \o cur_cols /\ cols \in Seq(Col)
  BY <1>2, <1>4 DEF LaidAs
<1>6. Pending \in Col /\ Pending.off = write_pos /\ Pending.total = RecordSize[p]
  BY <1>2, SizesAssumption DEF Pending, Col
<1>7. /\ want'.groups = want.groups /\ want'.open = Append(want.open, p)
      /\ schema_cols' = schema_cols /\ groups' = groups /\ hdr' = hdr
  <2>1. want \in Staged
    BY <1>2 DEF TypeOK
  <2> QED
    BY <1>1, <2>1 DEF Staged, session
<1>8. laid' = Append(laid, p) /\ laid \in Seq(Payload)
  <2>1. AllIds(want.groups) \in Seq(Payload) /\ want.open \in Seq(Payload)
    BY <1>2, ListTypes
  <2> DEFINE a == AllIds(want.groups)
             o == want.open
  <2> HIDE DEF p, a, o
  <2>2. a \in Seq(Payload) /\ o \in Seq(Payload) /\ p \in Payload
    BY <1>2, <2>1 DEF a, o
  <2>3. a \o Append(o, p) = Append(a \o o, p) /\ a \o o \in Seq(Payload)
    BY <2>2
  <2> QED
    BY <1>3, <1>7, <2>3, Zenon DEF LaysAll, a, o
<1>9. LaysAll'
  <2>1. Len(Append(laid, p)) = Len(laid) + 1
    BY <1>2, <1>8
  <2> QED
    BY <1>1, <1>3, <1>7, <1>8, <2>1 DEF LaysAll
<1>12. PICK col \in Col : col = Pending
  BY <1>6
<1>10. PICK cols2 : cols2 = Append(cols, col)
  OBVIOUS
<1>20. AllIds(groups') \o cur_cols' = cols2
  <2>1. AllIds(groups) \in Seq(Col) /\ cur_cols \in Seq(Col)
    BY <1>2, ListTypes
  <2> DEFINE a == AllIds(groups)
             o == cur_cols
  <2> HIDE DEF a, o
  <2>2. a \in Seq(Col) /\ o \in Seq(Col)
    BY <2>1 DEF a, o
  <2>3. a \o Append(o, col) = Append(a \o o, col)
    BY <2>2
  <2> QED
    BY <1>1, <1>5, <1>7, <1>10, <1>12, <2>3, Zenon DEF a, o
<1>11. /\ Chained(cols, BlocksStart(hdr)) /\ EndOf(cols, BlocksStart(hdr)) = write_pos
       /\ Holds(cols, laid, body)
       /\ \A k \in DOMAIN cols : cols[k].off + cols[k].total <= write_pos
  BY <1>1, <1>4 DEF LaidAs, Written
<1>21. col.off = write_pos /\ col.total = RecordSize[p]
  BY <1>6, <1>12
<1>13. /\ cols2 \in Seq(Col) /\ Chained(cols2, BlocksStart(hdr))
       /\ EndOf(cols2, BlocksStart(hdr)) = write_pos'
  <2>1. col.off = EndOf(cols, BlocksStart(hdr))
    BY <1>11, <1>21
  <2>2. /\ Append(cols, col) \in Seq(Col)
        /\ Chained(Append(cols, col), BlocksStart(hdr))
        /\ EndOf(Append(cols, col), BlocksStart(hdr)) = col.off + col.total
    BY <1>5, <1>11, <1>12, <2>1, ChainAppend, Zenon
  <2> QED
    BY <1>1, <1>10, <1>21, <2>2
<1>14. Holds(cols, laid, body')
  BY <1>2, <1>5, <1>11, HoldsKept
<1>15. /\ Len(cols2) = Len(cols) + 1 /\ DOMAIN cols2 = 1..(Len(cols) + 1)
       /\ cols2[Len(cols) + 1] = col
       /\ \A k \in 1..Len(cols) : cols2[k] = cols[k] /\ k \in DOMAIN cols
       /\ Len(cols) \in Nat
  BY <1>5, <1>10, <1>12
<1>22. /\ Len(laid') = Len(cols) + 1 /\ laid'[Len(cols) + 1] = p
       /\ \A k \in 1..Len(cols) : laid'[k] = laid[k]
  <2>1. /\ Len(Append(laid, p)) = Len(laid) + 1
        /\ Append(laid, p)[Len(laid) + 1] = p
        /\ \A k \in 1..Len(laid) : Append(laid, p)[k] = laid[k]
    BY <1>2, <1>8
  <2> QED
    BY <1>8, <1>11, <2>1 DEF Holds
<1>16. BlockExtent(write_pos, p) \in body'
  BY <1>1, <1>2 DEF Put
<1> HIDE DEF p
<1>17. Holds(cols2, laid', body')
  <2>1. ASSUME NEW k \in 1..(Len(cols) + 1)
        PROVE  /\ cols2[k].total = RecordSize[laid'[k]]
               /\ BlockExtent(cols2[k].off, laid'[k]) \in body'
    <3>1. CASE k \in 1..Len(cols)
      BY <3>1, <1>14, <1>15, <1>22 DEF Holds
    <3>2. CASE k = Len(cols) + 1
      BY <3>2, <1>15, <1>16, <1>21, <1>22
    <3>3. k \in 1..Len(cols) \/ k = Len(cols) + 1
      <4>1. Len(cols) \in Nat
        BY <1>15
      <4> QED
        BY <4>1
    <3> QED
      BY <3>1, <3>2, <3>3
  <2> QED
    BY <2>1, <1>15, <1>22 DEF Holds
<1>18. \A k \in DOMAIN cols2 : cols2[k].off + cols2[k].total <= write_pos'
  <2>1. write_pos' = write_pos + RecordSize[p] /\ RecordSize[p] \in Nat
    BY <1>1, <1>2, SizesAssumption DEF p
  <2>2. \A k \in DOMAIN cols : cols[k].off \in Nat /\ cols[k].total \in Nat
    BY <1>5, ColType
  <2>3. ASSUME NEW k \in 1..(Len(cols) + 1)
        PROVE  cols2[k].off + cols2[k].total <= write_pos'
    <3>1. CASE k \in 1..Len(cols)
      BY <3>1, <1>2, <1>11, <1>15, <2>1, <2>2
    <3>2. CASE k = Len(cols) + 1
      BY <3>2, <1>2, <1>15, <1>21, <2>1
    <3>3. k \in 1..Len(cols) \/ k = Len(cols) + 1
      <4>1. Len(cols) \in Nat
        BY <1>15
      <4> QED
        BY <4>1
    <3> QED
      BY <3>1, <3>2, <3>3
  <2> QED
    BY <1>15, <2>3
<1>19. LaidAs(cols2)'
  BY <1>7, <1>13, <1>17, <1>18, <1>20 DEF LaidAs, Written
<1> QED
  BY <1>9, <1>19 DEF CreateLaid

\* A finished row group takes the columns that were open.
LEMMA GroupEnds ==
    ASSUME PassInv, EndRowgroup, MaxCols < ColWrap
    PROVE  /\ \E s : groups' = Append(groups, [off   |-> cur_group_offset,
                                               cols  |-> cur_cols,
                                               stats |-> s])
           /\ cur_cols' = <<>>
           /\ want' = [groups |-> Append(want.groups, [cols  |-> want.open,
                                                       stats |-> cur_stats]),
                       open   |-> <<>>]
           /\ UNCHANGED <<hdr, body, session, write_pos, n_blocks, pc, failed>>
           /\ ~ failed
<1> DEFINE n == Len(cur_cols) % ColWrap
<1>1. PICK s \in StatsRead(cur_stats, n) :
         groups' = Append(groups, [off   |-> cur_group_offset,
                                   cols  |-> SubSeq(cur_cols, 1, n),
                                   stats |-> s])
  BY DEF EndRowgroup
<1>2. /\ cur_cols' = <<>> /\ ~ failed /\ mode # "closed"
      /\ want' = [groups |-> Append(want.groups, [cols  |-> want.open,
                                                  stats |-> cur_stats]),
                  open   |-> <<>>]
      /\ UNCHANGED <<hdr, body, session, write_pos, n_blocks, pc, failed>>
  BY DEF EndRowgroup, CanCall, disk, cursor, control
<1>3. cur_cols \in Seq(Col) /\ Len(cur_cols) <= MaxCols
  BY <1>2 DEF PassInv, IInv, TypeOK, ControlOK
<1>4. n = Len(cur_cols)
  <2>1. /\ Len(cur_cols) \in Nat /\ ColWrap \in Nat
        /\ Len(cur_cols) < ColWrap
    BY <1>3, SizesAssumption, BoundsAssumption
  <2> QED
    BY <2>1, SmallMod
<1>5. SubSeq(cur_cols, 1, n) = cur_cols
  BY <1>3, <1>4
<1> HIDE DEF n
<1> QED
  BY <1>1, <1>2, <1>5

LEMMA CreateEnds ==
    ASSUME FileInv, PassInv', mode = "create", EndRowgroup, MaxCols < ColWrap,
           laid' = AllIds(want'.groups) \o want'.open
    PROVE  CreateLaid'
<1> DEFINE told == [cols |-> want.open, stats |-> cur_stats]
<1>1. /\ PassInv /\ LaysAll /\ \E cols : LaidAs(cols)
      /\ TypeOK /\ TypeOK'
  BY DEF FileInv, CreateLaid, PassInv, IInv
<1>2. PICK s : groups' = Append(groups, [off   |-> cur_group_offset,
                                         cols  |-> cur_cols,
                                         stats |-> s])
  BY <1>1, GroupEnds
<1>3. PICK cols : LaidAs(cols)
  BY <1>1
<1>4. /\ cur_cols' = <<>> /\ want'.groups = Append(want.groups, told)
      /\ want'.open = <<>> /\ ~ failed
      /\ UNCHANGED <<hdr, body, session, write_pos, n_blocks, pc, failed>>
  BY <1>1, GroupEnds
<1>5. /\ groups \in Seq(Group) /\ want.groups \in Seq(Told)
      /\ want.open \in Seq(Payload) /\ AllIds(groups') \in Seq(Col)
      /\ AllIds(want'.groups) \in Seq(Payload)
  <2>1. /\ groups \in Seq(Group) /\ want.groups \in Seq(Told)
        /\ want.open \in Seq(Payload)
    BY <1>1, ListTypes
  <2>2. AllIds(groups)' \in Seq(Col) /\ AllIds(want.groups)' \in Seq(Payload)
    <3>1. groups' \in Seq(Group) /\ want'.groups \in Seq(Told)
      BY <1>1 DEF TypeOK, Staged, Told
    <3>2. \A r \in Told : r.cols \in Seq(Payload)
      BY DEF Told
    <3> QED
      BY <3>1, <3>2, GroupCols, ColSeqs
  <2> QED
    BY <2>1, <2>2
<1>6. told \in Told /\ told.cols = want.open
  BY <1>1, <1>5 DEF Told, TypeOK
<1> HIDE DEF told
<1>7. AllIds(want'.groups) = AllIds(want.groups) \o want.open
  <2>1. \A r \in Told : r.cols \in Seq(Payload)
    BY DEF Told
  <2>2. AllIds(Append(want.groups, told)) = AllIds(want.groups) \o told.cols
    BY <1>5, <1>6, <2>1, AllIdsAppend, ZenonT(30)
  <2> QED
    BY <1>4, <1>6, <2>2
<1> DEFINE new == [off |-> cur_group_offset, cols |-> cur_cols, stats |-> s]
<1>8. AllIds(groups') = AllIds(groups) \o cur_cols
  <2>1. new \in Group
    <3>1. groups' \in Seq(Group) /\ Len(groups') = Len(groups) + 1
          /\ groups'[Len(groups) + 1] = new
      BY <1>1, <1>2, <1>5 DEF TypeOK
    <3>2. Len(groups) + 1 \in 1..Len(groups')
      BY <1>5, <3>1
    <3> HIDE DEF new
    <3> QED
      BY <3>1, <3>2
  <2>2. new.cols = cur_cols /\ groups' = Append(groups, new)
    BY <1>2
  <2> HIDE DEF new
  <2>3. AllIds(Append(groups, new)) = AllIds(groups) \o new.cols
    BY <1>5, <2>1, GroupCols, AllIdsAppend
  <2> QED
    BY <2>2, <2>3
<1>9. laid' = laid
  <2> DEFINE a == AllIds(want'.groups)
  <2>1. laid' = a \o <<>> /\ laid = a /\ a \in Seq(Payload)
    BY <1>1, <1>4, <1>5, <1>7 DEF LaysAll
  <2> HIDE DEF a
  <2>2. a \o <<>> = a
    BY <2>1
  <2> QED
    BY <2>1, <2>2
<1>10. LaysAll'
  <2>1. schema_cols' = schema_cols
    BY <1>4 DEF session
  <2> QED
    BY <1>1, <1>4, <1>9, <2>1 DEF LaysAll
<1>11. AllIds(groups') \o cur_cols' = cols
  <2> DEFINE a == AllIds(groups')
  <2>1. a = cols /\ a \in Seq(Col)
    BY <1>3, <1>4, <1>5, <1>8 DEF LaidAs
  <2> HIDE DEF a
  <2>2. a \o <<>> = a
    BY <2>1
  <2> QED
    BY <1>4, <2>1, <2>2 DEF a
<1>12. LaidAs(cols)'
  BY <1>3, <1>4, <1>9, <1>11 DEF LaidAs, Written
<1> QED
  BY <1>10, <1>12 DEF CreateLaid

LEMMA CreateNext ==
    ASSUME CarryOn \subseteq {"mem"}, MaxCols < ColWrap,
           FileInv, PassInv', Next,
           mode' = "create" => laid' = AllIds(want'.groups) \o want'.open
    PROVE  CreateLaid'
<1> SUFFICES ASSUME mode' = "create"
             PROVE  CreateLaid'
  BY DEF CreateLaid
<1>1. CASE mode = "closed"
  <2>1. \/ \E n \in Columns, s \in BOOLEAN : OpenCreate(n, s)
        \/ \E n \in Columns : OpenWiden(n)
        \/ OpenExtend
    BY <1>1, Opens DEF FileInv
  <2>2. ~ ((\E n \in Columns : OpenWiden(n)) \/ OpenExtend)
    BY DEF OpenWiden, OpenExtend
  <2> QED
    BY <2>1, <2>2, CreateOpens
<1>2. CASE mode # "closed"
  <2>1. UNCHANGED session /\ mode = "create"
    BY <1>2, EndsOrStays DEF session
  <2>2. /\ pc \in {"idle", "open_schema", "append", "index", "patch"}
        /\ failed => pc = "idle"
        /\ pc = "append" => req.call # "widen"
    BY <2>1 DEF FileInv, PassInv, IInv, ControlOK
  <2>3. KeptBelow(body, body', write_pos)
    BY <1>2, <2>2, Survives DEF FileInv
  <2>4. ~ Ends
    BY DEF Ends, PatchHeader, Abort, RestoreHeader, Crash, LastWriteFails,
           HookFails, NoMemory, Free
  <2>5. CASE \/ \E n \in Columns, s \in BOOLEAN : OpenCreate(n, s)
             \/ \E n \in Columns : OpenWiden(n)
             \/ OpenExtend
    BY <1>2, <2>5, OpensClosed
  <2>6. CASE \/ \E p \in Payload : WriteBlock(p)
             \/ \E p \in Payload, g \in DOMAIN groups, s \in BOOLEAN :
                   WidenBlock(p, g, s)
             \/ Close
    <3>1. CanCall /\ \E r : Begin(r)
      BY <2>6, Zenon DEF WriteBlock, WidenBlock, Close
    <3>2. PICK r : Begin(r)
      BY <3>1
    <3>3. pc' = FirstStep(r) /\ UNCHANGED <<disk, cursor, openrg, staged, failed, history>>
      BY <3>2, Zenon DEF Begin
    <3>4. pc' # "open_schema" /\ pc # "open_schema"
      BY <3>1, <3>3 DEF FirstStep, AfterRoom, CanCall
    <3> QED
      BY <2>1, <2>3, <3>3, <3>4, CreateQuiet
         DEF disk, cursor, openrg, staged, history
  <2>7. CASE WriteOpenSchema
    BY <2>1, <2>7, CreateSchema
  <2>8. CASE AppendToGroup
    BY <2>1, <2>3, <2>8, CreateAppends
  <2>9. CASE EndRowgroup
    BY <2>1, <2>9, CreateEnds
  <2>10. CASE SetRowgroupStats
    <3>1. /\ UNCHANGED <<hdr, write_pos, n_blocks, want, pc, failed, groups>>
          /\ cur_cols' = cur_cols
      BY <2>10 DEF SetRowgroupStats, disk, cursor, control, history
    <3> QED
      BY <2>1, <2>3, <3>1, CreateQuiet
  <2>11. CASE WriteIndex
    <3>1. /\ UNCHANGED <<hdr, write_pos, n_blocks, want, failed, groups>>
          /\ cur_cols' = cur_cols /\ pc = "index" /\ pc' = "patch"
      BY <2>11 DEF WriteIndex, openrg, staged, history
    <3> QED
      BY <2>1, <2>3, <3>1, CreateQuiet
  <2>12. CASE WriteFails
    <3>1. /\ UNCHANGED <<write_pos, n_blocks, want>>
          /\ pc' = "idle" /\ failed'
      BY <2>12 DEF WriteFails, Fail, history
    <3>2. hdr' = hdr /\ pc # "open_schema"
      BY <2>2, <2>12 DEF WriteFails
    <3> QED
      BY <2>1, <2>3, <3>1, <3>2, CreateQuiet
  <2>13. CASE NoMemory
    <3>1. pc = "append"
      BY <2>4, <2>13 DEF NoMemory, Ends
    <3>2. /\ UNCHANGED <<hdr, write_pos, n_blocks, want, groups, cur_cols>>
          /\ pc' = "idle" /\ failed' \in BOOLEAN
      BY <2>13, <3>1 DEF NoMemory, Fail, history, disk
    <3>3. ~ failed /\ failed \in BOOLEAN
      BY <2>2, <3>1 DEF FileInv, PassInv, IInv, TypeOK
    <3> QED
      BY <2>1, <2>3, <3>1, <3>2, <3>3, CreateQuiet
  <2>14. CASE \/ CopyIndex \/ Repoint \/ HookReturns \/ AppendToColumn
              \/ WriteTailSchema \/ AbortMoved \/ RestoreIndex
    BY <2>1, <2>2, <2>14 DEF CopyIndex, Repoint, HookReturns, AppendToColumn,
                             WriteTailSchema, AbortMoved, RestoreIndex
  <2>15. CASE PatchHeader \/ Abort \/ RestoreHeader \/ Crash \/ LastWriteFails
    BY <2>4, <2>15 DEF Ends
  <2>16. CASE HookFails
    BY <2>2, <2>16 DEF HookFails
  <2> QED
    BY <2>5, <2>6, <2>7, <2>8, <2>9, <2>10, <2>11, <2>12, <2>13, <2>14, <2>15,
       <2>16 DEF Next
<1> QED
  BY <1>1, <1>2

\* The blocks of a creation lie one after another, and an index it leaves
\* lists the first of them and comes right behind the last.
LEMMA CreateLeaves ==
    ASSUME FileInv, PassInv', Next, Ends, mode = "create"
    PROVE  /\ ~ hdr'.widened /\ hdr'.n_blocks \in {0, Len(laid)}
           /\ \E cols \in Seq(Col) :
                 /\ Written(cols, laid, hdr', body')
                 /\ Committed(hdr') =>
                       /\ hdr'.n_blocks = Len(laid)
                       /\ cols = AllIds(groups) \o cur_cols
                       /\ EndOf(cols, BlocksStart(hdr')) = hdr'.idx_off
                       /\ IndexLive(hdr', body', groups)
<1>1. /\ PassInv /\ IInv /\ TypeOK /\ LaysAll /\ ~ Committed(hdr)
      /\ write_pos \in Nat
  BY DEF FileInv, PassInv, IInv, TypeOK, CreateLaid, CreateOK
<1>2. PICK cols : LaidAs(cols)
  BY DEF FileInv, CreateLaid
<1>3. pc # "undo_index" /\ pc \in {"idle", "open_schema", "append", "index", "patch"}
  BY <1>1 DEF IInv, ControlOK
<1>4. Holds(cols, laid, body')
  <2>1. KeptBelow(body, body', write_pos)
    BY <1>1, <1>3, Survives
  <2> QED
    BY <1>1, <1>2, <2>1, HoldsKept DEF LaidAs, Written
<1>5. cols \in Seq(Col) /\ Chained(cols, BlocksStart(hdr))
  BY <1>2 DEF LaidAs, Written
<1>6. CASE hdr' = hdr
  <2>1. Written(cols, laid, hdr', body') /\ ~ Committed(hdr')
    BY <1>1, <1>4, <1>5, <1>6 DEF Written
  <2> QED
    BY <1>1, <1>5, <1>6, <2>1 DEF LaysAll
<1>7. CASE hdr' # hdr
  <2>1. hdr' = FinalHeader /\ body' = body /\ pc = "patch"
    BY <1>3, <1>7, EndDisk DEF HeaderWrites, NextHeader
  <2>2. FinalSchemaOffset = 0
    BY DEF FinalSchemaOffset
  <2>3. ~ failed
    BY <1>1, <2>1 DEF IInv, ControlOK
  <2>4. CASE groups = <<>>
    <3>1. hdr' = EncoderHeader(n_blocks, 0, 0, 0)
      BY <1>7, <2>1, <2>2, <2>4 DEF FinalHeader
    <3>2. /\ ~ hdr'.widened /\ ~ Committed(hdr')
          /\ hdr'.schema_size = SizeOfSchema(schema_cols)
      BY <3>1, EncoderHeaderFields DEF Committed
    <3>3. hdr'.n_blocks = n_blocks
      BY <3>1 DEF EncoderHeader
    <3>4. BlocksStart(hdr') = BlocksStart(hdr)
      BY <1>1, <3>2 DEF BlocksStart, LaysAll
    <3> QED
      BY <1>1, <1>4, <1>5, <3>2, <3>3, <3>4 DEF Written, LaysAll
  <2>5. CASE groups # <<>>
    <3>1. hdr' = EncoderHeader(n_blocks, write_pos, SizeOfIndex(groups), 0)
      BY <1>7, <2>1, <2>2, <2>5 DEF FinalHeader
    <3>2. /\ ~ hdr'.widened /\ hdr'.idx_off = write_pos
          /\ hdr'.idx_size = SizeOfIndex(groups)
          /\ hdr'.schema_size = SizeOfSchema(schema_cols)
      BY <3>1, EncoderHeaderFields
    <3>3. hdr'.n_blocks = n_blocks
      BY <3>1 DEF EncoderHeader
    <3>4. BlocksStart(hdr') = BlocksStart(hdr)
      BY <1>1, <3>2 DEF BlocksStart, LaysAll
    <3>5. cols = AllIds(groups) \o cur_cols /\ EndOf(cols, BlocksStart(hdr)) = write_pos
      BY <1>2, <2>1, <2>3 DEF LaidAs
    <3>6. \E x \in body : /\ x.kind = "index" /\ x.at = write_pos
                          /\ x.size = SizeOfIndex(groups) /\ x.groups = groups
      BY <1>1, <2>1, <2>3, <2>5 DEF IInv, StagedOK
    <3>7. IndexLive(hdr', body', groups)
      BY <2>1, <3>2, <3>6 DEF IndexLive, IndexesAt
    <3> QED
      BY <1>1, <1>4, <1>5, <3>2, <3>3, <3>4, <3>5, <3>7 DEF Written, LaysAll
  <2> QED
    BY <2>4, <2>5
<1> QED
  BY <1>6, <1>7

LEMMA RestNext ==
    ASSUME FileInv, PassInv', Next, mode' = "closed" => laid' = laid
    PROVE  RestLaid'
<1> SUFFICES ASSUME mode' = "closed"
             PROVE  RestLaid'
  BY DEF RestLaid
<1>1. mode # "closed"
  BY Opens, OpensClosed DEF FileInv
<1>2. Ends /\ n_blocks' = 0
  BY <1>1, EndsOrStays
<1>3. CASE Reopened
  <2>1. Committed(hdr')
    BY <1>2, <1>3, ReopenedLeaves DEF FileInv
  <2> QED
    BY <1>2, <2>1 DEF RestLaid
<1>4. CASE ~ Reopened
  <2>1. mode = "create"
    BY <1>1, <1>4 DEF FileInv, PassInv, IInv, TypeOK, Reopened
  <2>2. /\ ~ hdr'.widened /\ hdr'.n_blocks \in {0, Len(laid)}
        /\ \E cols \in Seq(Col) : Written(cols, laid, hdr', body')
    BY <1>2, <2>1, CreateLeaves
  <2> QED
    BY <1>2, <2>2 DEF RestLaid
<1> QED
  BY <1>3, <1>4

LEMMA FoundNext ==
    ASSUME FileInv, PassInv', Next
    PROVE  FoundLaid'
<1>1. PassInv /\ TypeOK /\ FoundLaid /\ TypeOK' /\ BodyOK(body')
  BY DEF FileInv, PassInv, IInv
<1>2. ASSUME NEW gs, IndexLive(hdr', body', gs)
      PROVE  \A x \in IndexesAt(hdr', body') : x.groups = gs
  BY <1>1, <1>2, OneIndex DEF TypeOK, IndexLive
<1>3. CASE mode = "closed"
  <2>1. CASE \E n \in Columns, s \in BOOLEAN : OpenCreate(n, s)
    <3>1. mode' = "create"
      BY <2>1, Zenon DEF OpenCreate
    <3> QED
      BY <3>1 DEF FoundLaid, Reopened
  <2>2. CASE (\E n \in Columns : OpenWiden(n)) \/ OpenExtend
    <3>1. mode' \in {"widen", "extend"} /\ \E x \in IndexesAt(hdr, body) : Reopen(x)
      BY <2>2 DEF OpenWiden, OpenExtend
    <3>2. PICK x \in IndexesAt(hdr, body) : Reopen(x)
      BY <3>1
    <3>3. orig_hdr' = hdr /\ orig_groups' = x.groups
      BY <3>2 DEF Reopen
    <3>4. IndexLaid(hdr, x.groups)
      BY <1>1, <1>3, <3>2 DEF FoundLaid
    <3> QED
      BY <3>1, <3>3, <3>4 DEF FoundLaid, IndexLaid
  <2> QED
    BY <1>1, <1>3, <2>1, <2>2, Opens
<1>4. CASE UNCHANGED session /\ mode # "closed"
  BY <1>1, <1>4 DEF session, FoundLaid, Reopened, IndexLaid
<1>5. CASE Ends /\ mode' = "closed" /\ Reopened
  <2> SUFFICES ASSUME NEW x \in IndexesAt(hdr', body')
               PROVE  IndexLaid(hdr', x.groups)
    BY <1>5 DEF FoundLaid, Reopened, IndexLaid
  <2>1. CASE hdr'.widened
    BY <2>1 DEF IndexLaid
  <2>2. CASE ~ hdr'.widened
    <3>1. hdr' = orig_hdr /\ IndexLive(hdr', body', orig_groups)
      BY <1>1, <1>5, <2>2, ReopenedLeaves
    <3>2. x.groups = orig_groups
      BY <1>2, <3>1
    <3> QED
      BY <1>1, <1>5, <3>1, <3>2 DEF FoundLaid
  <2> QED
    BY <2>1, <2>2
<1>6. CASE Ends /\ mode' = "closed" /\ mode = "create"
  <2> SUFFICES ASSUME NEW x \in IndexesAt(hdr', body'), Committed(hdr')
               PROVE  /\ Chained(AllIds(x.groups), BlocksStart(hdr'))
                      /\ Len(AllIds(x.groups)) <= hdr'.n_blocks
                      /\ Len(AllIds(x.groups)) = hdr'.n_blocks =>
                            EndOf(AllIds(x.groups), BlocksStart(hdr')) = hdr'.idx_off
    BY <1>6 DEF FoundLaid, Reopened, IndexLaid
  <2>1. PICK cols \in Seq(Col) :
           /\ Written(cols, laid, hdr', body')
           /\ hdr'.n_blocks = Len(laid)
           /\ cols = AllIds(groups) \o cur_cols
           /\ EndOf(cols, BlocksStart(hdr')) = hdr'.idx_off
           /\ IndexLive(hdr', body', groups)
    BY <1>6, CreateLeaves
  <2>2. x.groups = groups
    BY <1>2, <2>1
  <2> DEFINE a == AllIds(groups)
  <2>3. a \in Seq(Col) /\ cur_cols \in Seq(Col) /\ cols = a \o cur_cols
    BY <1>1, <2>1, ListTypes
  <2>4. Chained(cols, BlocksStart(hdr')) /\ Len(cols) = hdr'.n_blocks
    BY <2>1 DEF Written, Holds
  <2> HIDE DEF a
  <2>5. Chained(a, BlocksStart(hdr')) /\ Len(a) <= hdr'.n_blocks
    BY <2>3, <2>4, ChainPrefix
  <2>6. Len(a) = hdr'.n_blocks => a = cols
    BY <2>3, <2>4
  <2> QED
    BY <2>1, <2>2, <2>5, <2>6 DEF a
<1>7. mode # "closed" => Reopened \/ mode = "create"
  BY <1>1 DEF TypeOK, Reopened
<1> QED
  BY <1>3, <1>4, <1>5, <1>6, <1>7, EndsOrStays

-----------------------------------------------------------------------------
(* A pass goes on listing what the one before listed, and keeps it.        *)

LEMMA ListsOn ==
    ASSUME PassInv, NEW col, ListedIn(col, groups), Next,
           mode # "closed", mode' # "closed", MaxCols < ColWrap
    PROVE  ListedIn(col, groups')
<1>1. groups \in Seq(Group) /\ DOMAIN groups = 1..Len(groups) /\ Len(groups) \in Nat
  BY DEF PassInv, IInv, TypeOK
<1>2. PICK g \in DOMAIN groups : \E c \in DOMAIN groups[g].cols : groups[g].cols[c] = col
  BY DEF ListedIn
<1>3. PICK c \in DOMAIN groups[g].cols : groups[g].cols[c] = col
  BY <1>2
<1>4. ASSUME groups' = groups
      PROVE  ListedIn(col, groups')
  BY <1>4
<1>5. CASE EndRowgroup
  <2>1. \E r : groups' = Append(groups, r)
    BY <1>5, GroupEnds
  <2>2. PICK r : groups' = Append(groups, r)
    BY <2>1
  <2>3. g \in DOMAIN groups' /\ groups'[g] = groups[g]
    BY <1>1, <2>2
  <2> QED
    BY <1>3, <2>3 DEF ListedIn
<1>6. CASE AppendToColumn
  <2>1. groups' = [groups EXCEPT ![req.rg] =
                    [off   |-> @.off,
                     cols  |-> Append(@.cols, Pending),
                     stats |-> WidenedStats(req.rg, req.with_stats)]]
    BY <1>6 DEF AppendToColumn
  <2>2. DOMAIN groups' = DOMAIN groups
    BY <2>1
  <2>3. CASE g = req.rg
    <3>1. groups'[g].cols = Append(groups[g].cols, Pending)
      BY <2>1, <2>3
    <3>2. groups[g].cols \in Seq(Col)
      BY <1>1, GroupType
    <3>3. c \in DOMAIN groups'[g].cols /\ groups'[g].cols[c] = col
      BY <1>3, <3>1, <3>2
    <3> QED
      BY <2>2, <3>3 DEF ListedIn
  <2>4. CASE g # req.rg
    <3>1. groups'[g] = groups[g]
      BY <2>1, <2>4
    <3> QED
      BY <1>3, <2>2, <3>1 DEF ListedIn
  <2> QED
    BY <2>3, <2>4
<1>7. CASE WriteFails
  <2>1. \/ groups' = groups
        \/ \E s : groups' = [groups EXCEPT ![req.rg].stats = s]
    BY <1>7 DEF WriteFails
  <2>2. CASE \E s : groups' = [groups EXCEPT ![req.rg].stats = s]
    <3>1. PICK s : groups' = [groups EXCEPT ![req.rg].stats = s]
      BY <2>2
    <3>2. groups[g] \in Group
      BY <1>1
    <3>3. DOMAIN groups' = DOMAIN groups /\ groups'[g].cols = groups[g].cols
      BY <3>1, <3>2 DEF Group
    <3> QED
      BY <1>3, <3>3 DEF ListedIn
  <2> QED
    BY <1>4, <2>1, <2>2
<1>8. CASE \/ \E n \in Columns, s \in BOOLEAN : OpenCreate(n, s)
           \/ \E n \in Columns : OpenWiden(n)
           \/ OpenExtend
  BY <1>8, OpensClosed
<1>9. CASE \/ \E p \in Payload : WriteBlock(p)
           \/ \E p \in Payload, h \in DOMAIN groups, s \in BOOLEAN :
                 WidenBlock(p, h, s)
           \/ Close
  <2>1. UNCHANGED staged
    BY <1>9, Zenon DEF WriteBlock, WidenBlock, Close, Begin
  <2> QED
    BY <1>4, <2>1 DEF staged
<1>10. CASE \/ WriteOpenSchema \/ CopyIndex \/ Repoint \/ HookReturns
            \/ AppendToGroup \/ SetRowgroupStats \/ WriteTailSchema
            \/ WriteIndex \/ AbortMoved \/ RestoreIndex
  BY <1>4, <1>10 DEF WriteOpenSchema, CopyIndex, Repoint, HookReturns,
     AppendToGroup, SetRowgroupStats, WriteTailSchema, WriteIndex, AbortMoved,
     RestoreIndex, staged
<1>11. CASE PatchHeader \/ Abort \/ RestoreHeader \/ Crash \/ LastWriteFails
  BY <1>11 DEF PatchHeader, Abort, RestoreHeader, Crash, LastWriteFails, Free
<1>12. CASE HookFails \/ NoMemory
  BY <1>4, <1>12 DEF HookFails, NoMemory, Free
<1> QED
  BY <1>5, <1>6, <1>7, <1>8, <1>9, <1>10, <1>11, <1>12 DEF Next

LEMMA ListedNext ==
    ASSUME FileInv, PassInv', Next, mode # "create", mode' # "create",
           MaxCols < ColWrap, Committed(hdr)
    PROVE  /\ Committed(hdr')
           /\ \A col : Listed(col) => Listed(col)'
<1>1. PassInv /\ IInv /\ TypeOK /\ IInv' /\ TypeOK' /\ BodyOK(body')
  BY DEF FileInv, PassInv, IInv
<1>2. CASE mode = "closed"
  <2>1. ~ \E n \in Columns, s \in BOOLEAN : OpenCreate(n, s)
    BY Zenon DEF OpenCreate
  <2>2. mode' \in {"widen", "extend"} /\ \E x \in IndexesAt(hdr, body) : Reopen(x)
    BY <1>1, <1>2, <2>1, Opens DEF OpenWiden, OpenExtend
  <2>3. PICK x \in IndexesAt(hdr, body) : Reopen(x)
    BY <2>2
  <2>4. orig_groups' = x.groups /\ groups' = x.groups /\ hdr' = hdr
    BY <2>3 DEF Reopen, disk
  <2> QED
    BY <1>2, <2>2, <2>3, <2>4 DEF Listed, Reopened
<1>3. CASE mode # "closed" /\ UNCHANGED session /\ mode' # "closed"
  <2>1. Reopened /\ Reopened'
    BY <1>1, <1>3 DEF TypeOK, Reopened
  <2>2. Committed(hdr')
    <3>1. /\ Committed(orig_hdr')
          /\ \/ hdr'.idx_off = orig_hdr'.idx_off
             \/ hdr'.idx_off >= orig_hdr'.idx_off + orig_hdr'.idx_size
      BY <1>1, <2>1 DEF IInv, FoundOK
    <3>2. /\ hdr'.idx_off \in Nat /\ orig_hdr'.idx_off \in Nat
          /\ orig_hdr'.idx_size \in Nat
      BY <1>1 DEF TypeOK, Header
    <3> QED
      BY <3>1, <3>2 DEF Committed
  <2> QED
    BY <1>1, <1>3, <2>1, <2>2, ListsOn DEF Listed, session
<1>4. CASE mode # "closed" /\ Ends /\ mode' = "closed"
  <2>1. Reopened
    BY <1>1, <1>4 DEF TypeOK, Reopened
  <2>2. /\ Committed(hdr')
        /\ IndexLive(hdr', body', orig_groups) \/ IndexLive(hdr', body', groups)
    BY <1>1, <1>4, <2>1, ReopenedLeaves
  <2>3. ASSUME NEW gs, IndexLive(hdr', body', gs)
        PROVE  \A x \in IndexesAt(hdr', body') : x.groups = gs
    BY <1>1, <2>3, OneIndex DEF TypeOK, IndexLive
  <2> QED
    BY <1>4, <2>1, <2>2, <2>3 DEF Listed, Reopened
<1> QED
  BY <1>2, <1>3, <1>4, EndsOrStays DEF FileInv

\* No pass writes over a block the container lists.
LEMMA ListedStays ==
    ASSUME FileInv, PassInv', Next, mode # "create", mode' # "create",
           NEW col, Listed(col), NEW e \in body, e.at = col.off, e.size = col.total
    PROVE  e \in body'
<1>1. PassInv /\ IInv /\ TypeOK
  BY DEF FileInv, PassInv, IInv
<1>2. CASE mode = "closed"
  <2>1. ~ \E n \in Columns, s \in BOOLEAN : OpenCreate(n, s)
    BY Zenon DEF OpenCreate
  <2>2. \E x \in IndexesAt(hdr, body) : Reopen(x)
    BY <1>1, <1>2, <2>1, Opens DEF OpenWiden, OpenExtend
  <2> QED
    BY <2>2 DEF Reopen, disk
<1>3. CASE mode # "closed"
  <2>1. Reopened
    BY <1>1, <1>3 DEF TypeOK, Reopened
  <2>2. ListedIn(col, orig_groups) /\ BlocksLive(orig_groups, body, reuse_start)
    BY <1>1, <2>1 DEF Listed, IInv, FoundOK
  <2>3. col.off + col.total <= reuse_start
    BY <2>2 DEF ListedIn, BlocksLive, ColsLive
  <2>4. KeptBelow(body, body', reuse_start)
    BY <1>1, <1>3, <2>1, Survives
  <2> QED
    BY <2>3, <2>4 DEF KeptBelow
<1> QED
  BY <1>2, <1>3

-----------------------------------------------------------------------------
(* The encoder goes on under a reader.                                     *)

LEMMA FileNext ==
    ASSUME CarryOn \subseteq {"mem"}, MaxCols < ColWrap, ~ LateBlocks,
           FileInv, Next,
           laid' = IF mode' = "create" THEN AllIds(want'.groups) \o want'.open
                                       ELSE laid
    PROVE  FileInv'
<1>1. PassInv'
  BY PassNext DEF FileInv
<1>2. WholeBlocks'
  BY WholeNext
<1>3. CreateLaid'
  BY <1>1, CreateNext
<1>4. RestLaid'
  BY <1>1, RestNext
<1>5. FoundLaid'
  BY <1>1, FoundNext
<1> QED
  BY <1>1, <1>2, <1>3, <1>4, <1>5 DEF FileInv

\* What a reader found stays, whatever passes come after it.
LEMMA OwedNext ==
    ASSUME FileInv, PassInv', Next, mode # "create", mode' # "create",
           MaxCols < ColWrap, Committed(hdr), Committed(r_header),
           NEW cols \in Seq(Col), Owed(cols), overtaken',
           UNCHANGED <<reading, owed>>
    PROVE  Owed(cols)'
<1>1. \A k \in DOMAIN cols : Listed(cols[k]) /\ Listed(cols[k])'
  BY ListedNext DEF Owed
<1>2. ASSUME NEW k \in DOMAIN cols
      PROVE  BlockExtent(cols[k].off, owed[k]) \in body'
  <2> DEFINE e == BlockExtent(cols[k].off, owed[k])
  <2>1. e \in body /\ e.at = cols[k].off /\ e.size = cols[k].total
    BY DEF Owed, Holds, BlockExtent
  <2> HIDE DEF e
  <2>2. Listed(cols[k])
    BY <1>1
  <2>3. e \in body'
    BY <2>1, <2>2, ListedStays
  <2> QED
    BY <2>3 DEF e
<1>3. Holds(cols, owed', body')
  BY <1>2 DEF Owed, Holds, reading
<1>4. ~ Settled'
  BY DEF Settled
<1> QED
  BY <1>1, <1>3, <1>4 DEF Owed, reading

LEMMA EncoderKeeps ==
    ASSUME CarryOn \subseteq {"mem"}, MaxCols < ColWrap, ~ LateBlocks,
           ReadInv, EncoderStep
    PROVE  ReadInv'
<1>1. /\ Next /\ UNCHANGED <<reading, owed, due, readers>>
      /\ mode' = "create" => (r_open => mode = "create")
      /\ laid' = IF mode' = "create" THEN AllIds(want'.groups) \o want'.open
                                     ELSE laid
      /\ overtaken' = (overtaken \/ (r_open /\ mode' # "closed"))
  BY DEF EncoderStep
<1>2. FileInv' /\ FileInv /\ PassInv'
  BY <1>1, FileNext DEF ReadInv, FileInv
<1>3. ReaderTypeOK'
  <2>1. AllIds(want.groups)' \in Seq(Payload) /\ want'.open \in Seq(Payload)
    <3>1. want'.groups \in Seq(Told) /\ want'.open \in Seq(Payload)
      BY <1>2 DEF PassInv, IInv, TypeOK, Staged, Told
    <3>2. \A r \in Told : r.cols \in Seq(Payload)
      BY DEF Told
    <3> QED
      BY <3>1, <3>2, ColSeqs
  <2> DEFINE a == AllIds(want'.groups)
  <2>2. a \in Seq(Payload)
    BY <2>1
  <2> HIDE DEF a
  <2>3. a \o want'.open \in Seq(Payload)
    BY <2>1, <2>2
  <2>4. laid' \in Seq(Payload)
    BY <1>1, <2>3 DEF ReadInv, ReaderTypeOK, a
  <2> QED
    BY <1>1, <2>4 DEF ReadInv, ReaderTypeOK, reading
<1>4. ReaderShut'
  BY <1>1 DEF ReadInv, ReaderShut, reading
<1>5. ReaderKept'
  <2> SUFFICES ASSUME r_open
               PROVE  ReaderKept'
    BY <1>1 DEF ReaderKept, reading
  <2>1. /\ mode # "create" /\ mode' # "create"
        /\ ~ overtaken => mode = "closed" /\ hdr = r_header
        /\ Committed(r_header) => Committed(hdr)
        /\ ~ Committed(r_header) => ~ overtaken
        /\ ~ r_header.widened =>
              r_header.n_blocks = 0 \/ Len(owed) <= r_header.n_blocks
        /\ \E cols \in Seq(Col) : Owed(cols) /\ Walked(cols)
    BY <1>1 DEF ReadInv, ReaderKept
  <2>2. mode = "closed" => /\ \E x \in IndexesAt(hdr, body) : Reopen(x)
                           /\ mode' # "closed"
    <3>1. ~ \E n \in Columns, s \in BOOLEAN : OpenCreate(n, s)
      BY <2>1, Zenon DEF OpenCreate
    <3> QED
      BY <1>1, <1>2, <3>1, Opens DEF FileInv, OpenWiden, OpenExtend
  <2>3. Committed(r_header) /\ Committed(hdr) /\ overtaken'
    BY <1>1, <2>1, <2>2 DEF Reopen
  <2>4. PICK cols \in Seq(Col) : Owed(cols) /\ Walked(cols)
    BY <2>1
  <2>5. Owed(cols)'
    BY <1>1, <1>2, <2>1, <2>3, <2>4, OwedNext
  <2>6. Walked(cols)'
    BY <1>1, <2>3, <2>4 DEF Walked, Settled, reading
  <2>7. Committed(hdr')
    BY <1>1, <1>2, <2>1, <2>3, ListedNext
  <2> QED
    BY <1>1, <2>1, <2>3, <2>4, <2>5, <2>6, <2>7 DEF ReaderKept, reading
<1> QED
  BY <1>2, <1>3, <1>4, <1>5 DEF ReadInv

-----------------------------------------------------------------------------
(* A reader opens.                                                         *)

LEMMA FileStill ==
    ASSUME CarryOn \subseteq {"mem"}, MaxCols < ColWrap, ~ LateBlocks,
           FileInv, UNCHANGED <<vars, laid>>
    PROVE  FileInv'
<1>1. PassInv'
  BY PassNext DEF FileInv
<1> USE DEF FileInv, vars, disk, session, cursor, openrg, staged, control, history
<1>2. WholeBlocks' /\ FoundLaid'
  BY DEF WholeBlocks, FoundLaid, IndexLaid, Reopened
<1>3. RestLaid'
  BY DEF RestLaid, Written
<1>4. CreateLaid'
  BY DEF CreateLaid, LaysAll, LaidAs, Written
<1> QED
  BY <1>1, <1>2, <1>3, <1>4

\* The columns the index lists are where the blocks it promises are.
LEMMA ReadsHeld ==
    ASSUME TypeOK, BodyOK(body), WholeBlocks, NEW gs \in Seq(Group), NEW n,
           BlocksLive(gs, body, n)
    PROVE  /\ AllIds(gs) \in Seq(Col)
           /\ Holds(AllIds(gs), AllIds(GroupsRead(gs, body)), body)
           /\ \A k \in DOMAIN AllIds(gs) : ListedIn(AllIds(gs)[k], gs)
<1> DEFINE cols == AllIds(gs)
           ids  == AllIds(GroupsRead(gs, body))
<1>1. cols \in Seq(Col)
  BY GroupCols, ColSeqs
<1>2. ASSUME NEW k \in DOMAIN cols
      PROVE  \E g \in DOMAIN gs : \E c \in DOMAIN gs[g].cols : cols[k] = gs[g].cols[c]
  BY GroupCols, AllIdsFrom
<1>3. Len(ids) = Len(cols) /\ \A k \in DOMAIN cols : ids[k] = TheId(BlocksAt(cols[k], body))
  BY AllIdsRead
<1> HIDE DEF cols, ids
<1>4. ASSUME NEW k \in DOMAIN cols
      PROVE  /\ cols[k].total = RecordSize[ids[k]]
             /\ BlockExtent(cols[k].off, ids[k]) \in body
  <2>1. BlocksAt(cols[k], body) # {}
    BY <1>2 DEF BlocksLive, ColsLive
  <2> DEFINE e == CHOOSE x \in BlocksAt(cols[k], body) : TRUE
  <2>2. e \in BlocksAt(cols[k], body)
    BY <2>1
  <2>3. ids[k] = e.id
    BY <1>3 DEF TheId
  <2> HIDE DEF e
  <2>4. /\ e \in body /\ e.kind = "block" /\ e.at = cols[k].off
        /\ e.size = cols[k].total
    BY <2>2 DEF BlocksAt
  <2>5. e = BlockExtent(e.at, e.id) /\ e.id \in Payload
    BY <2>4 DEF WholeBlocks, BodyOK
  <2>6. e.size = RecordSize[e.id]
    BY <2>5 DEF BlockExtent
  <2> QED
    BY <2>3, <2>4, <2>5, <2>6
<1> QED
  BY <1>1, <1>2, <1>3, <1>4 DEF Holds, ListedIn, cols, ids

\* The blocks a reader of a committed container is owed are those listed.
LEMMA OwesListed ==
    ASSUME FileInv, mode = "closed", Committed(hdr)
    PROVE  \E gs \in Seq(Group) :
              /\ \A x \in IndexesAt(hdr, body) : x.groups = gs
              /\ AllIds(gs) \in Seq(Col)
              /\ Holds(AllIds(gs), AllIds(Contents(hdr, body).groups), body)
              /\ \A k \in DOMAIN AllIds(gs) : Listed(AllIds(gs)[k])
              /\ IndexLaid(hdr, gs)
<1>1. /\ IInv /\ TypeOK /\ BodyOK(body) /\ HeaderOK(hdr, body) /\ WholeBlocks
      /\ FoundLaid /\ body \in SUBSET Extent
  BY DEF FileInv, PassInv, IInv, TypeOK
<1>2. PICK x \in IndexesAt(hdr, body) : BlocksLive(x.groups, body, hdr.idx_off)
  BY <1>1 DEF HeaderOK
<1> DEFINE gs == x.groups
<1>3. gs \in Seq(Group)
  BY <1>1 DEF IndexesAt, Extent
<1>4. \A y \in IndexesAt(hdr, body) : y.groups = gs
  BY <1>1, OneIndex
<1>5. IndexLive(hdr, body, gs) /\ IndexLaid(hdr, gs)
  BY <1>1, <1>2 DEF IndexLive, FoundLaid
<1>6. BlocksLive(gs, body, hdr.idx_off)
  BY <1>2
<1> HIDE DEF gs
<1>7. Contents(hdr, body).groups = GroupsRead(gs, body)
  BY <1>1, <1>5, ContentsOf
<1>8. /\ AllIds(gs) \in Seq(Col)
      /\ Holds(AllIds(gs), AllIds(GroupsRead(gs, body)), body)
      /\ \A k \in DOMAIN AllIds(gs) : ListedIn(AllIds(gs)[k], gs)
  BY <1>1, <1>3, <1>6, ReadsHeld
<1>9. \A k \in DOMAIN AllIds(gs) : Listed(AllIds(gs)[k])
  BY <1>4, <1>8 DEF Listed, Reopened
<1> QED
  BY <1>3, <1>4, <1>5, <1>7, <1>8, <1>9

LEMMA OpenKept ==
    ASSUME CarryOn \subseteq {"mem"}, MaxCols < ColWrap, ~ LateBlocks,
           ReadInv, NEW s \in BOOLEAN, OpenReader(s)
    PROVE  ReadInv'
<1>1. /\ mode = "closed" /\ UNCHANGED <<vars, laid>> /\ due' = 1 /\ ~ overtaken'
      /\ owed' = IF Committed(hdr) THEN AllIds(Contents(hdr, body).groups)
                                   ELSE laid
  BY DEF OpenReader
<1>2. /\ r_open' /\ r_header' = hdr /\ r_can_seek' = s
      /\ r_io' = BlocksStart(hdr) /\ r_blocks_read' = 0
      /\ r_peeked' = D!NoRecord /\ r_outcome' = "opened" /\ hdr.magic
      /\ \/ r_rg' = <<>>
         \/ hdr.idx_off > 0 /\ \E x \in IndexesAt(hdr, body) : r_rg' = x.groups
  <2>1. D!Open(s)
    BY DEF OpenReader
  <2>2. IF s /\ hdr.idx_off > 0 /\ hdr.idx_size > 0
        THEN \E x \in IndexesAt(hdr, body) :
                IndexParses(x.groups, hdr.has_stats) /\ r_rg' = x.groups
        ELSE r_rg' = <<>>
    BY <2>1 DEF D!Open, D!IndexesAt, IndexesAt, D!IndexParses, IndexParses
  <2>3. \/ r_rg' = <<>>
        \/ hdr.idx_off > 0 /\ \E x \in IndexesAt(hdr, body) : r_rg' = x.groups
    BY <2>2
  <2> QED
    BY <2>1, <2>3 DEF D!Open, D!BlocksStart, BlocksStart
<1>3. /\ FileInv /\ FileInv' /\ IInv /\ TypeOK
      /\ hdr' = hdr /\ body' = body /\ mode' = mode
  BY <1>1, FileStill DEF ReadInv, FileInv, PassInv, IInv, vars, disk, session
<1>4. /\ hdr \in Header /\ hdr.idx_off \in Nat /\ hdr.n_blocks \in Nat
      /\ BlocksStart(hdr) \in Nat
  BY <1>3, OffsetTypes DEF TypeOK, Header
<1>5. owed' \in Seq(Payload)
  <2>1. Contents(hdr, body).groups \in Seq(Told)
    BY <1>3, ContentsType DEF Told
  <2>2. \A r \in Told : r.cols \in Seq(Payload)
    BY DEF Told
  <2>3. AllIds(Contents(hdr, body).groups) \in Seq(Payload)
    BY <2>1, <2>2, ColSeqs
  <2> QED
    BY <1>1, <2>3 DEF ReadInv, ReaderTypeOK
<1>6. r_rg' \in Seq(Group)
  <2>1. \A x \in IndexesAt(hdr, body) : x.groups \in Seq(Group)
    BY <1>3 DEF TypeOK, IndexesAt, Extent
  <2>2. <<>> \in Seq(Group)
    OBVIOUS
  <2> QED
    BY <1>2, <2>1, <2>2
<1>7. ReaderTypeOK'
  <2>1. laid' \in Seq(Payload)
    BY <1>1 DEF ReadInv, ReaderTypeOK
  <2> QED
    BY <1>1, <1>2, <1>4, <1>5, <1>6, <2>1 DEF ReaderTypeOK
<1>8. ReaderShut'
  BY <1>2 DEF ReaderShut
<1>9. ASSUME NEW cols \in Seq(Col),
             ~ hdr.widened => Chained(cols, BlocksStart(hdr))
      PROVE  Walked(cols)'
  <2>1. ~ hdr.widened => Place(cols, BlocksStart(hdr), 1) = BlocksStart(hdr)
    BY <1>9, ChainFirst
  <2> QED
    BY <1>1, <1>2, <2>1 DEF Walked
<1>10. CASE Committed(hdr)
  <2>1. PICK gs \in Seq(Group) :
           /\ \A x \in IndexesAt(hdr, body) : x.groups = gs
           /\ AllIds(gs) \in Seq(Col)
           /\ Holds(AllIds(gs), owed', body)
           /\ \A k \in DOMAIN AllIds(gs) : Listed(AllIds(gs)[k])
           /\ IndexLaid(hdr, gs)
    BY <1>1, <1>3, <1>10, OwesListed
  <2> DEFINE cols == AllIds(gs)
  <2>2. /\ cols \in Seq(Col) /\ Holds(cols, owed', body)
        /\ \A k \in DOMAIN cols : Listed(cols[k])
        /\ r_rg' = <<>> \/ AllIds(r_rg') = cols
    BY <1>2, <2>1
  <2>3. Len(owed') = Len(cols)
    BY <2>1 DEF Holds
  <2>4. ~ hdr.widened => /\ Chained(cols, BlocksStart(hdr))
                         /\ Len(cols) <= hdr.n_blocks
                         /\ Len(cols) = hdr.n_blocks =>
                               EndOf(cols, BlocksStart(hdr)) = hdr.idx_off
    BY <1>10, <2>1 DEF IndexLaid
  <2> HIDE DEF cols
  <2>5. \A k \in DOMAIN cols : Listed(cols[k])'
    BY <1>1, <1>3, <2>2 DEF Listed, Reopened
  <2>6. Owed(cols)'
    BY <1>2, <1>3, <2>2, <2>3, <2>4, <2>5 DEF Owed, Settled
  <2>7. Walked(cols)'
    BY <1>9, <2>2, <2>4
  <2>8. ReaderKept'
    BY <1>1, <1>2, <1>3, <1>10, <2>2, <2>3, <2>4, <2>6, <2>7 DEF ReaderKept
  <2> QED
    BY <1>3, <1>7, <1>8, <2>8 DEF ReadInv
<1>11. CASE ~ Committed(hdr)
  <2>1. PICK cols \in Seq(Col) : Written(cols, laid, hdr, body)
    BY <1>1, <1>2, <1>3, <1>11 DEF FileInv, RestLaid
  <2>2. /\ ~ hdr.widened /\ hdr.n_blocks \in {0, Len(laid)}
        /\ owed' = laid
    BY <1>1, <1>2, <1>3, <1>11 DEF FileInv, RestLaid
  <2>3. r_rg' = <<>>
    BY <1>2, <1>4, <1>11 DEF Committed
  <2>4. Owed(cols)'
    BY <1>2, <1>3, <1>11, <2>1, <2>2, <2>3 DEF Owed, Settled, Written
  <2>5. Walked(cols)'
    BY <1>9, <2>1 DEF Written
  <2>6. Len(laid) \in Nat
    BY DEF ReadInv, ReaderTypeOK
  <2>7. ReaderKept'
    BY <1>1, <1>2, <1>3, <1>4, <1>11, <2>2, <2>4, <2>5, <2>6 DEF ReaderKept
  <2> QED
    BY <1>3, <1>7, <1>8, <2>7 DEF ReadInv
<1> QED
  BY <1>10, <1>11

-----------------------------------------------------------------------------
(* A reader walks.                                                         *)

\* A step of the reader leaves the file, what it is owed and what it opened.
Standing == <<vars, laid, owed, overtaken, readers, r_open, r_header, r_rg,
              r_can_seek>>

LEMMA StepKept ==
    ASSUME CarryOn \subseteq {"mem"}, MaxCols < ColWrap, ~ LateBlocks,
           ReadInv, r_open, UNCHANGED Standing, ReaderTypeOK',
           \A cols \in Seq(Col) : Owed(cols) /\ Walked(cols) => Walked(cols)'
    PROVE  ReadInv'
<1>1. FileInv'
  BY FileStill DEF ReadInv, Standing
<1> USE DEF Standing
<1>2. ReaderShut'
  BY DEF ReaderShut
<1>3. UNCHANGED <<hdr, body, mode, groups, orig_groups>>
  BY DEF vars, disk, session, staged
<1>4. PICK cols \in Seq(Col) : Owed(cols) /\ Walked(cols)
  BY DEF ReadInv, ReaderKept
<1>5. Owed(cols)'
  BY <1>3, <1>4 DEF Owed, Settled, Listed, Reopened
<1>6. Walked(cols)'
  BY <1>4
<1>7. ReaderKept'
  BY <1>3, <1>4, <1>5, <1>6 DEF ReadInv, ReaderKept
<1> QED
  BY <1>1, <1>2, <1>7 DEF ReadInv

\* Two extents that begin together are one.
LEMMA OneExtent ==
    ASSUME TypeOK, BodyOK(body), NEW e \in body, NEW f \in body, e.at = f.at
    PROVE  e = f
<1>1. e \in Extent /\ f \in Extent
  BY DEF TypeOK
<1>2. e.at \in Nat /\ e.size \in Nat /\ f.size \in Nat
  BY <1>1 DEF Extent
<1>3. /\ e.size > 0 /\ f.size > 0
      /\ e = f \/ e.at + e.size <= f.at \/ f.at + f.size <= e.at
  BY DEF BodyOK
<1> QED
  BY <1>2, <1>3

LEMMA RecordIsWhole ==
    ASSUME TypeOK, BodyOK(body), WholeBlocks, NEW e \in body, e.kind = "block"
    PROVE  /\ e.size \in Nat /\ e.size >= BlockHeader /\ e.id \in Payload
           /\ e = BlockExtent(e.at, e.id)
<1>1. e.id \in Payload /\ e = BlockExtent(e.at, e.id) /\ e.size \in Nat
  BY DEF TypeOK, BodyOK, WholeBlocks, Extent
<1>2. e.size = RecordSize[e.id]
  BY <1>1 DEF BlockExtent
<1> QED
  BY <1>1, <1>2, RecordAssumption

\* The index of a settled container is where its header says.
LEMMA SettledIndex ==
    ASSUME ReadInv, r_open, Settled
    PROVE  \E x \in body : x.kind = "index" /\ x.at = r_header.idx_off
<1>1. hdr = r_header /\ HeaderOK(hdr, body)
  BY DEF ReadInv, ReaderKept, FileInv, PassInv, IInv, Settled
<1> QED
  BY <1>1 DEF HeaderOK, Settled, IndexesAt

\* What a peek at the place of the m-th block finds.
LEMMA Peeked ==
    ASSUME ReadInv, r_open, UNCHANGED Standing,
           NEW m \in Nat, m >= 1, NEW n \in Nat, n < m, NEW o \in Nat,
           due' = m, r_blocks_read' = n, D!PeekHere(o, n),
           r_header.widened => n = 0 /\ m \in DOMAIN owed,
           NEW cols \in Seq(Col), Owed(cols),
           \/ m \in DOMAIN owed /\ o = cols[m].off
           \/ m = Len(owed) + 1 /\ o = EndOf(cols, BlocksStart(r_header))
    PROVE  Walked(cols)'
<1>1. /\ TypeOK /\ BodyOK(body) /\ WholeBlocks /\ ReaderTypeOK
  BY DEF ReadInv, FileInv, PassInv, IInv
<1>2. /\ Len(owed) \in Nat /\ DOMAIN owed = 1..Len(owed)
      /\ r_header.n_blocks \in Nat
  BY <1>1 DEF ReaderTypeOK, Header
<1>3. m \in DOMAIN owed => BlockExtent(o, owed[m]) \in body
  BY <1>2 DEF Owed, Holds
<1>4. m \notin DOMAIN owed =>
         /\ m = Len(owed) + 1 /\ ~ r_header.widened
         /\ o = EndOf(cols, BlocksStart(r_header))
  OBVIOUS
<1>5. m \notin DOMAIN owed /\ Settled =>
         \E x \in body : x.kind = "index" /\ x.at = o
  BY <1>4, SettledIndex DEF Owed
<1>6. D!NoRecord.kind = "none"
  BY DEF D!NoRecord
<1>7. UNCHANGED <<owed, overtaken, r_header>> /\ Settled' = Settled
  BY DEF Standing, Settled
<1>8. CASE D!AllRead(n) /\ r_peeked' = D!NoRecord /\ r_outcome' = "end"
  <2>1. r_header.n_blocks > 0 /\ n >= r_header.n_blocks
    BY <1>8 DEF D!AllRead
  <2>2. ~ r_header.widened
    BY <1>2, <2>1
  <2>3. Len(owed) <= r_header.n_blocks
    BY <1>2, <2>1, <2>2 DEF ReadInv, ReaderKept
  <2>4. m > Len(owed)
    BY <1>2, <2>1, <2>3
  <2> QED
    BY <1>7, <1>8, <2>4 DEF Walked
<1>9. CASE \E e \in D!RecordsAt(o) : D!Finds(e, o)
  <2>1. PICK e \in D!RecordsAt(o) : D!Finds(e, o)
    BY <1>9
  <2>2. e \in body /\ e.kind = "block" /\ e.at = o
    BY DEF D!RecordsAt
  <2>3. r_peeked' = e /\ r_io' = o + BlockHeader /\ r_outcome' = "record"
    BY <2>1 DEF D!Finds
  <2>4. e.size \in Nat /\ e.size >= BlockHeader
    BY <1>1, <2>2, RecordIsWhole
  <2>5. m \in DOMAIN owed => e = BlockExtent(o, owed[m])
    <3>1. BlockExtent(o, owed[m]).at = o
      BY DEF BlockExtent
    <3> HIDE DEF BlockExtent
    <3> QED
      BY <1>1, <1>3, <2>2, <3>1, OneExtent
  <2>6. Settled => m \in DOMAIN owed
    <3> SUFFICES ASSUME Settled, m \notin DOMAIN owed
                 PROVE  FALSE
      OBVIOUS
    <3>1. PICK x \in body : x.kind = "index" /\ x.at = o
      BY <1>5
    <3>2. x = e
      BY <1>1, <2>2, <3>1, OneExtent
    <3> QED
      BY <2>2, <3>1, <3>2
  <2>7. e # D!NoRecord
    BY <1>6, <2>2
  <2>8. m \in DOMAIN owed => /\ r_peeked' = BlockExtent(cols[m].off, owed[m])
                             /\ r_io' = cols[m].off + BlockHeader
    BY <1>2, <2>3, <2>5
  <2> QED
    BY <1>7, <2>3, <2>4, <2>6, <2>7, <2>8 DEF Walked
<1>10. CASE D!RecordsAt(o) = {} /\ r_peeked' = D!NoRecord /\ r_outcome' = "end"
  <2>1. m \notin DOMAIN owed
    <3> DEFINE e == BlockExtent(o, owed[m])
    <3>1. e.at = o /\ e.kind = "block"
      BY DEF BlockExtent
    <3> HIDE DEF e
    <3>2. e \notin body
      BY <1>10, <3>1 DEF D!RecordsAt
    <3> QED
      BY <1>3, <3>2 DEF e
  <2>2. m > Len(owed)
    BY <1>2, <1>4, <2>1
  <2> QED
    BY <1>7, <1>10, <2>2 DEF Walked
<1>11. CASE /\ D!RecordsAt(o) = {} /\ ~ D!IndexAt(o)
            /\ \/ r_peeked' = D!NoRecord /\ r_outcome' = "corrupt"
               \/ \E p \in Payload : D!Finds(D!Wreck(o, p), o)
  <2>1. m \notin DOMAIN owed
    <3> DEFINE e == BlockExtent(o, owed[m])
    <3>1. e.at = o /\ e.kind = "block"
      BY DEF BlockExtent
    <3> HIDE DEF e
    <3>2. e \notin body
      BY <1>11, <3>1 DEF D!RecordsAt
    <3> QED
      BY <1>3, <3>2 DEF e
  <2>2. ~ Settled
    BY <1>5, <1>11, <2>1 DEF D!IndexAt
  <2>3. CASE r_peeked' = D!NoRecord /\ r_outcome' = "corrupt"
    BY <1>7, <2>2, <2>3 DEF Walked
  <2>4. CASE \E p \in Payload : D!Finds(D!Wreck(o, p), o)
    <3>1. PICK p \in Payload : D!Finds(D!Wreck(o, p), o)
      BY <2>4
    <3> DEFINE e == D!Wreck(o, p)
    <3>2. e.kind = "wreck" /\ e.size = RecordSize[p]
      BY DEF D!Wreck, D!BlockExtent
    <3>3. r_peeked' = e /\ r_outcome' = "record"
      BY <3>1 DEF D!Finds
    <3> HIDE DEF e
    <3>4. e.size \in Nat /\ e.size >= BlockHeader
      BY <3>2, RecordAssumption, SizesAssumption
    <3> QED
      BY <1>6, <1>7, <2>1, <2>2, <3>2, <3>3, <3>4 DEF Walked
  <2> QED
    BY <1>11, <2>3, <2>4
<1>12. CASE r_peeked' = D!NoRecord /\ r_outcome' = "error"
  BY <1>12 DEF Walked
<1> QED
  BY <1>8, <1>9, <1>10, <1>11, <1>12 DEF D!PeekHere

LEMMA PeekTypes ==
    ASSUME TypeOK, BodyOK(body), WholeBlocks, NEW o \in Nat, NEW n,
           D!PeekHere(o, n)
    PROVE  /\ r_io' \in Nat
           /\ r_peeked' = D!NoRecord \/ r_peeked'.kind \in {"block", "wreck"}
           /\ r_outcome' \in {"record", "end", "corrupt", "error"}
<1>1. o + BlockHeader \in Nat
  BY RecordAssumption
<1>2. ASSUME NEW e, D!Finds(e, o), e.kind \in {"block", "wreck"}
      PROVE  /\ r_io' \in Nat /\ r_outcome' = "record"
             /\ r_peeked'.kind \in {"block", "wreck"}
  BY <1>1, <1>2 DEF D!Finds
<1>3. \A p \in Payload : D!Wreck(o, p).kind = "wreck"
  BY DEF D!Wreck, D!BlockExtent
<1>4. \A e \in D!RecordsAt(o) : e.kind = "block"
  BY DEF D!RecordsAt
<1>5. CASE \E e \in D!RecordsAt(o) : D!Finds(e, o)
  BY <1>2, <1>4, <1>5
<1>6. CASE \E p \in Payload : D!Finds(D!Wreck(o, p), o)
  BY <1>2, <1>3, <1>6
<1> QED
  BY <1>5, <1>6 DEF D!PeekHere

LEMMA PeeksKept ==
    ASSUME CarryOn \subseteq {"mem"}, MaxCols < ColWrap, ~ LateBlocks,
           ReadInv, Peeks
    PROVE  ReadInv'
<1>1. /\ due <= Len(owed) + 1 /\ due' = due /\ r_open /\ ~ r_header.widened
      /\ r_outcome \in {"opened", "read", "skipped", "undecoded"}
      /\ D!PeekHere(r_io, r_blocks_read) /\ r_blocks_read' = r_blocks_read
      /\ UNCHANGED Standing
  BY DEF Peeks, D!PeekBlock, D!WalkOn, ReaderStep, Standing
<1>2. /\ TypeOK /\ BodyOK(body) /\ WholeBlocks /\ ReaderTypeOK
      /\ due \in Nat /\ r_io \in Nat /\ r_blocks_read \in Nat
  BY DEF ReadInv, FileInv, PassInv, IInv, ReaderTypeOK
<1>3. /\ r_io' \in Nat
      /\ r_peeked' = D!NoRecord \/ r_peeked'.kind \in {"block", "wreck"}
      /\ r_outcome' \in {"record", "end", "corrupt", "error"}
  BY <1>1, <1>2, PeekTypes
<1>4. ReaderTypeOK'
  BY <1>1, <1>2, <1>3 DEF ReaderTypeOK, Standing
<1>5. ASSUME NEW cols \in Seq(Col), Owed(cols), Walked(cols)
      PROVE  Walked(cols)'
  <2>1. due >= 1 /\ r_blocks_read < due /\ r_io = Place(cols, BlocksStart(r_header), due)
    BY <1>1, <1>5 DEF Walked
  <2>2. /\ Len(cols) = Len(owed) /\ DOMAIN cols = 1..Len(cols) /\ Len(cols) \in Nat
        /\ DOMAIN owed = 1..Len(owed)
    BY <1>2, <1>5 DEF Owed, Holds, ReaderTypeOK
  <2>3. \/ due \in DOMAIN owed /\ r_io = cols[due].off
        \/ due = Len(owed) + 1 /\ r_io = EndOf(cols, BlocksStart(r_header))
    BY <1>1, <1>2, <2>1, <2>2 DEF Place
  <2> QED
    BY <1>1, <1>2, <1>5, <2>1, <2>3, Peeked
<1> QED
  BY <1>1, <1>4, <1>5, StepKept

LEMMA SeeksKept ==
    ASSUME CarryOn \subseteq {"mem"}, MaxCols < ColWrap, ~ LateBlocks,
           ReadInv, Seeks
    PROVE  ReadInv'
<1>0. PICK g \in DOMAIN r_rg : \E c \in DOMAIN r_rg[g].cols :
         /\ D!SeekRowgroup(g, c)
         /\ ReaderStep(Len(AllIds(SubSeq(r_rg, 1, g - 1))) + c)
  BY DEF Seeks
<1>1. PICK c \in DOMAIN r_rg[g].cols :
         /\ D!SeekRowgroup(g, c)
         /\ ReaderStep(Len(AllIds(SubSeq(r_rg, 1, g - 1))) + c)
  BY <1>0
<1> DEFINE m == Len(AllIds(SubSeq(r_rg, 1, g - 1))) + c
           o == r_rg[g].cols[c].off
<1>2. /\ r_open /\ r_blocks_read' = 0 /\ due' = m /\ UNCHANGED Standing
      /\ \/ D!PeekHere(o, 0)
         \/ r_io' = r_io /\ r_peeked' = D!NoRecord /\ r_outcome' = "error"
  BY <1>1 DEF D!SeekRowgroup, ReaderStep, Standing
<1>3. /\ TypeOK /\ BodyOK(body) /\ WholeBlocks /\ ReaderTypeOK
      /\ r_rg \in Seq(Group) /\ r_io \in Nat
  BY DEF ReadInv, FileInv, PassInv, IInv, ReaderTypeOK
<1>4. r_rg[g].cols \in Seq(Col) /\ r_rg[g].cols[c] \in Col /\ o \in Nat
  <2>1. r_rg[g].cols \in Seq(Col)
    BY <1>3, GroupType
  <2> QED
    BY <2>1, ColType
<1>5. m \in DOMAIN AllIds(r_rg) /\ AllIds(r_rg)[m] = r_rg[g].cols[c]
  BY <1>3, GroupCols, AllIdsNth
<1>6. AllIds(r_rg) \in Seq(Col)
  BY <1>3, GroupCols, ColSeqs
<1>7. m \in Nat /\ m >= 1
  BY <1>5, <1>6
<1>8. /\ r_io' \in Nat
      /\ r_peeked' = D!NoRecord \/ r_peeked'.kind \in {"block", "wreck"}
      /\ r_outcome' \in {"record", "end", "corrupt", "error"}
  <2> HIDE DEF o
  <2> QED
    BY <1>2, <1>3, <1>4, PeekTypes
<1> HIDE DEF m
<1>9. ReaderTypeOK'
  BY <1>2, <1>3, <1>7, <1>8 DEF ReaderTypeOK, Standing
<1>10. ASSUME NEW cols \in Seq(Col), Owed(cols), Walked(cols)
       PROVE  Walked(cols)'
  <2>1. AllIds(r_rg) = cols
    <3>1. r_rg # <<>>
      BY <1>3
    <3> QED
      BY <1>10, <3>1 DEF Owed
  <2>2. m \in DOMAIN owed /\ o = cols[m].off
    <3>1. Len(cols) = Len(owed)
      BY <1>10 DEF Owed, Holds
    <3>2. DOMAIN owed = 1..Len(owed) /\ DOMAIN cols = 1..Len(cols)
      BY <1>3 DEF ReaderTypeOK
    <3> QED
      BY <1>5, <2>1, <3>1, <3>2
  <2> HIDE DEF o
  <2>3. CASE D!PeekHere(o, 0)
    BY <1>2, <1>4, <1>7, <1>10, <2>2, <2>3, Peeked
  <2>4. CASE r_peeked' = D!NoRecord /\ r_outcome' = "error"
    BY <2>4 DEF Walked
  <2> QED
    BY <1>2, <2>3, <2>4 DEF o
<1> QED
  BY <1>2, <1>9, <1>10, StepKept

\* The record that is peeked is the one due, or none the reader is owed.
LEMMA PeekedIs ==
    ASSUME ReadInv, D!HasPeeked
    PROVE  /\ r_open /\ r_peeked # D!NoRecord /\ r_outcome \in {"record", "nomem"}
           /\ due \in Nat /\ due >= 1 /\ r_blocks_read \in Nat
           /\ r_blocks_read < due /\ r_io \in Nat
           /\ D!Remaining \in Nat /\ Len(owed) \in Nat
           /\ DOMAIN owed = 1..Len(owed)
           /\ r_peeked.kind = "wreck" => due \notin DOMAIN owed /\ ~ Settled
           /\ \A cols \in Seq(Col) :
                 /\ Owed(cols) /\ Walked(cols) /\ due \in DOMAIN owed
                 /\ ~ r_header.widened
                 => r_io + D!Remaining = Place(cols, BlocksStart(r_header), due + 1)
<1>1. /\ r_open /\ r_peeked # D!NoRecord /\ r_outcome \in {"record", "nomem"}
  BY DEF D!HasPeeked
<1>2. /\ due \in Nat /\ r_blocks_read \in Nat /\ r_io \in Nat
      /\ owed \in Seq(Payload)
  BY DEF ReadInv, ReaderTypeOK
<1>3. Len(owed) \in Nat /\ DOMAIN owed = 1..Len(owed)
  BY <1>2
<1>4. PICK cols \in Seq(Col) : Owed(cols) /\ Walked(cols)
  BY <1>1 DEF ReadInv, ReaderKept
<1>5. /\ due >= 1 /\ r_blocks_read < due
      /\ r_peeked.size \in Nat /\ r_peeked.size >= BlockHeader
      /\ due \in DOMAIN owed => r_peeked = BlockExtent(cols[due].off, owed[due])
      /\ Settled => due \in DOMAIN owed
  BY <1>1, <1>4 DEF Walked
<1>6. D!Remaining \in Nat
  BY <1>5, RecordAssumption DEF D!Remaining
<1>7. due \in DOMAIN owed => r_peeked.kind = "block"
  BY <1>5 DEF BlockExtent
<1>8. ASSUME NEW cs \in Seq(Col), Owed(cs), Walked(cs), due \in DOMAIN owed,
             ~ r_header.widened
      PROVE  r_io + D!Remaining = Place(cs, BlocksStart(r_header), due + 1)
  <2>1. /\ r_peeked = BlockExtent(cs[due].off, owed[due])
        /\ r_io = cs[due].off + BlockHeader
    BY <1>1, <1>8 DEF Walked
  <2>2. /\ Chained(cs, BlocksStart(r_header)) /\ due \in DOMAIN cs
        /\ cs[due].total = RecordSize[owed[due]]
    <3>1. Len(cs) = Len(owed) /\ DOMAIN cs = 1..Len(cs)
      BY <1>8 DEF Owed, Holds
    <3> QED
      BY <1>3, <1>8, <3>1 DEF Owed, Holds
  <2>3. r_peeked.size = cs[due].total
    BY <2>1, <2>2 DEF BlockExtent
  <2>4. cs[due].off \in Nat /\ cs[due].total \in Nat /\ BlockHeader \in Nat
    BY <2>2, ColType, RecordAssumption
  <2>5. r_io + D!Remaining = cs[due].off + cs[due].total
    BY <2>1, <2>3, <2>4 DEF D!Remaining
  <2> QED
    BY <2>2, <2>5, ChainNext
<1> QED
  BY <1>1, <1>2, <1>3, <1>5, <1>6, <1>7, <1>8

\* The record is behind.
LEMMA PastKept ==
    ASSUME CarryOn \subseteq {"mem"}, MaxCols < ColWrap, ~ LateBlocks,
           ReadInv, D!HasPeeked, D!Past, due' = due + 1, UNCHANGED Standing,
           r_outcome' \in {"read", "undecoded", "skipped"}
    PROVE  ReadInv'
<1>1. /\ r_io' = r_io + D!Remaining /\ r_peeked' = D!NoRecord
      /\ r_blocks_read' = r_blocks_read + 1
  BY DEF D!Past
<1>2. /\ r_open /\ due \in Nat /\ due >= 1 /\ r_blocks_read \in Nat
      /\ r_blocks_read < due /\ r_io \in Nat
      /\ D!Remaining \in Nat /\ Len(owed) \in Nat
      /\ DOMAIN owed = 1..Len(owed)
  BY PeekedIs
<1>3. r_io' \in Nat /\ r_blocks_read' \in Nat /\ due' \in Nat
  BY <1>1, <1>2
<1>4. ReaderTypeOK'
  BY <1>1, <1>3 DEF ReadInv, ReaderTypeOK, Standing
<1>5. ASSUME NEW cols \in Seq(Col), Owed(cols), Walked(cols)
      PROVE  Walked(cols)'
  <2>1. ~ r_header.widened /\ due + 1 <= Len(owed) + 1 =>
           r_io' = Place(cols, BlocksStart(r_header), due + 1)
    <3>1. due + 1 <= Len(owed) + 1 => due \in DOMAIN owed
      BY <1>2
    <3> QED
      BY <1>1, <1>5, <3>1, PeekedIs
  <2>2. due + 1 >= 1 /\ r_blocks_read + 1 < due + 1
    BY <1>2
  <2> QED
    BY <1>1, <2>1, <2>2 DEF Walked, Standing
<1> QED
  BY <1>2, <1>4, <1>5, StepKept

\* The record was not to be had, and the walk is over.
LEMMA WreckKept ==
    ASSUME CarryOn \subseteq {"mem"}, MaxCols < ColWrap, ~ LateBlocks,
           ReadInv, D!HasPeeked, r_peeked.kind = "wreck", due' = due + 1,
           UNCHANGED <<Standing, r_io, r_peeked, r_blocks_read>>,
           r_outcome' = "corrupt"
    PROVE  ReadInv'
<1>1. /\ r_open /\ due \in Nat /\ due >= 1 /\ r_blocks_read \in Nat
      /\ r_blocks_read < due /\ Len(owed) \in Nat
      /\ DOMAIN owed = 1..Len(owed)
      /\ due \notin DOMAIN owed /\ ~ Settled
  BY PeekedIs
<1>2. due + 1 \notin DOMAIN owed /\ due + 1 >= 1 /\ r_blocks_read < due + 1
  BY <1>1
<1>3. ReaderTypeOK'
  BY <1>1 DEF ReadInv, ReaderTypeOK, Standing
<1>4. ~ Settled'
  BY <1>1 DEF Settled, Standing
<1>5. ASSUME NEW cols \in Seq(Col), Walked(cols)
      PROVE  Walked(cols)'
  BY <1>2, <1>4, <1>5 DEF Walked, Standing
<1> QED
  BY <1>1, <1>3, <1>5, StepKept

LEMMA ReadsKept ==
    ASSUME CarryOn \subseteq {"mem"}, MaxCols < ColWrap, ~ LateBlocks,
           ReadInv, Reads
    PROVE  ReadInv'
<1>1. D!HasPeeked /\ due' = due + 1 /\ UNCHANGED Standing
  BY DEF Reads, D!ReadBlock, ReaderStep, Standing
<1>2. \/ D!Past /\ r_outcome' \in {"read", "undecoded"}
      \/ /\ r_peeked.kind = "wreck" /\ r_outcome' = "corrupt"
         /\ UNCHANGED <<r_io, r_peeked, r_blocks_read>>
  BY DEF Reads, D!ReadBlock
<1> QED
  BY <1>1, <1>2, PastKept, WreckKept

LEMMA SkipsKept ==
    ASSUME CarryOn \subseteq {"mem"}, MaxCols < ColWrap, ~ LateBlocks,
           ReadInv, Skips
    PROVE  ReadInv'
<1>1. D!HasPeeked /\ due' = due + 1 /\ UNCHANGED Standing
  BY DEF Skips, D!SkipBlock, ReaderStep, Standing
<1>2. \/ D!Past /\ r_outcome' = "skipped"
      \/ /\ r_peeked.kind = "wreck" \/ IoFails
         /\ r_io' = r_io /\ r_peeked' = D!NoRecord
         /\ r_blocks_read' = r_blocks_read + 1
         /\ r_outcome' = IF IoFails THEN "error" ELSE "corrupt"
  BY DEF Skips, D!SkipBlock
<1>3. CASE /\ r_peeked.kind = "wreck" \/ IoFails
           /\ r_io' = r_io /\ r_peeked' = D!NoRecord
           /\ r_blocks_read' = r_blocks_read + 1
           /\ r_outcome' = IF IoFails THEN "error" ELSE "corrupt"
  <2>1. /\ r_open /\ due \in Nat /\ r_blocks_read \in Nat
        /\ r_peeked.kind = "wreck" => ~ Settled
    BY <1>1, PeekedIs
  <2>2. due' \in Nat /\ r_blocks_read' \in Nat
    BY <1>1, <1>3, <2>1
  <2>3. ReaderTypeOK'
    BY <1>1, <1>3, <2>2 DEF ReadInv, ReaderTypeOK, Standing
  <2>4. r_outcome' = "corrupt" => ~ Settled'
    BY <1>1, <1>3, <2>1 DEF Settled, Standing
  <2>5. ASSUME NEW cols \in Seq(Col)
        PROVE  Walked(cols)'
    BY <1>3, <2>4 DEF Walked
  <2> QED
    BY <1>1, <2>1, <2>3, <2>5, StepKept
<1> QED
  BY <1>1, <1>2, <1>3, PastKept

LEMMA FailsKept ==
    ASSUME CarryOn \subseteq {"mem"}, MaxCols < ColWrap, ~ LateBlocks,
           ReadInv, Fails
    PROVE  ReadInv'
<1>1. /\ D!HasPeeked /\ due' = due /\ UNCHANGED Standing
      /\ UNCHANGED <<r_io, r_blocks_read, r_peeked>>
      /\ r_outcome' \in {"nomem", "error"}
  BY DEF Fails, D!ReadNoMemory, D!ReadFails, ReaderStep, Standing
<1>2. r_open /\ r_outcome \in {"record", "nomem"}
  BY <1>1, PeekedIs
<1>3. ReaderTypeOK'
  BY <1>1 DEF ReadInv, ReaderTypeOK, Standing
<1>4. ASSUME NEW cols \in Seq(Col), Walked(cols)
      PROVE  Walked(cols)'
  BY <1>1, <1>2, <1>4 DEF Walked, Settled, Standing
<1> QED
  BY <1>1, <1>2, <1>3, <1>4, StepKept

LEMMA ClosesKept ==
    ASSUME CarryOn \subseteq {"mem"}, MaxCols < ColWrap, ~ LateBlocks,
           ReadInv, Closes
    PROVE  ReadInv'
<1>1. /\ r_open' = FALSE /\ r_header' = NoHeader /\ r_rg' = <<>>
      /\ r_can_seek' = FALSE /\ r_io' = 0 /\ r_blocks_read' = 0
      /\ r_peeked' = D!NoRecord /\ r_outcome' = "none" /\ due' = 0
      /\ UNCHANGED <<vars, laid, owed, overtaken>>
  BY DEF Closes, D!CloseDecoder, D!NoHeader, NoHeader, ReaderStep
<1>2. FileInv'
  BY <1>1, FileStill DEF ReadInv
<1>3. NoHeader \in Header /\ <<>> \in Seq(Group)
  BY DEF NoHeader, Header
<1>4. ReaderTypeOK'
  BY <1>1, <1>3 DEF ReadInv, ReaderTypeOK
<1> QED
  BY <1>1, <1>2, <1>4 DEF ReadInv, ReaderKept, ReaderShut

LEMMA ReadInit == InitAll => ReadInv
<1> SUFFICES ASSUME InitAll
             PROVE  ReadInv
  OBVIOUS
<1>1. PassInv
  BY PassInit DEF InitAll
<1>2. /\ hdr = NoHeader /\ body = {} /\ mode = "closed" /\ n_blocks = 0
      /\ ~ Reopened
  BY DEF InitAll, Init, Reopened
<1>3. WholeBlocks /\ CreateLaid /\ RestLaid
  BY <1>2 DEF WholeBlocks, CreateLaid, RestLaid, NoHeader
<1>4. FoundLaid
  BY <1>2 DEF FoundLaid, IndexesAt
<1>5. /\ r_open = FALSE /\ r_header = NoHeader /\ r_rg = <<>>
      /\ r_can_seek = FALSE /\ r_io = 0 /\ r_blocks_read = 0
      /\ r_peeked = D!NoRecord /\ r_outcome = "none" /\ due = 0
      /\ laid = <<>> /\ owed = <<>>
  BY DEF InitAll, D!Init, D!NoHeader, NoHeader
<1>6. NoHeader \in Header /\ <<>> \in Seq(Group) /\ <<>> \in Seq(Payload)
  BY DEF NoHeader, Header
<1>7. ReaderTypeOK
  BY <1>5, <1>6 DEF ReaderTypeOK
<1> QED
  BY <1>1, <1>3, <1>4, <1>5, <1>7 DEF ReadInv, FileInv, ReaderKept, ReaderShut

LEMMA ReadNext ==
    ASSUME CarryOn \subseteq {"mem"}, MaxCols < ColWrap, ~ LateBlocks
    PROVE  ReadInv /\ [NextAll]_allVars => ReadInv'
<1> SUFFICES ASSUME ReadInv, [NextAll]_allVars
             PROVE  ReadInv'
  OBVIOUS
<1>1. CASE EncoderStep
  BY <1>1, EncoderKeeps
<1>2. CASE \E s \in BOOLEAN : OpenReader(s)
  BY <1>2, OpenKept
<1>3. CASE Peeks
  BY <1>3, PeeksKept
<1>4. CASE Seeks
  BY <1>4, SeeksKept
<1>5. CASE Reads
  BY <1>5, ReadsKept
<1>6. CASE Skips
  BY <1>6, SkipsKept
<1>7. CASE Fails
  BY <1>7, FailsKept
<1>8. CASE Closes
  BY <1>8, ClosesKept
<1>9. CASE UNCHANGED allVars
  <2>1. UNCHANGED <<vars, laid, owed, overtaken, reading, due>>
    BY <1>9 DEF allVars, ledger
  <2>2. FileInv'
    BY <2>1, FileStill DEF ReadInv
  <2> USE <2>1 DEF reading
  <2>3. UNCHANGED <<hdr, body, mode, groups, orig_groups>>
    BY DEF vars, disk, session, staged
  <2>4. ReaderTypeOK' /\ ReaderShut'
    BY DEF ReadInv, ReaderTypeOK, ReaderShut
  <2>5. ReaderKept'
    BY <2>3 DEF ReadInv, ReaderKept, Owed, Walked, Settled, Listed, Reopened
  <2> QED
    BY <2>2, <2>4, <2>5 DEF ReadInv
<1> QED
  BY <1>1, <1>2, <1>3, <1>4, <1>5, <1>6, <1>7, <1>8, <1>9 DEF NextAll

-----------------------------------------------------------------------------
(* The theorems.                                                           *)

\* Where the blocks of the file are, and where the reader is among them,
\* stays as ReadInv says through every step of the encoder (create, widen,
\* extend, close, abort, crash) and of the decoder.
THEOREM ReadbackInvariant ==
    ASSUME CarryOn \subseteq {"mem"}, MaxCols < ColWrap, ~ LateBlocks
    PROVE  SpecAll => []ReadInv
<1>1. InitAll => ReadInv
  BY ReadInit
<1>2. ReadInv /\ [NextAll]_allVars => ReadInv'
  BY ReadNext
<1> QED
  BY <1>1, <1>2, PTL DEF SpecAll

\* The reader's variables keep their types.
THEOREM ReaderTypeCorrect ==
    ASSUME CarryOn \subseteq {"mem"}, MaxCols < ColWrap, ~ LateBlocks
    PROVE  SpecAll => []ReaderTypeOK
<1>1. ReadInv => ReaderTypeOK
  BY DEF ReadInv
<1> QED
  BY <1>1, ReadbackInvariant, PTL

\* Every record the decoder hands out, walking or seeking, is the one due:
\* no other bytes are taken for a block, also while later passes grow the
\* container or die in the middle of it.
THEOREM HandsOut ==
    ASSUME CarryOn \subseteq {"mem"}, MaxCols < ColWrap, ~ LateBlocks
    PROVE  SpecAll => []HandsOutWhatIsDue
<1>1. ReadInv => HandsOutWhatIsDue
  <2> SUFFICES ASSUME ReadInv, r_peeked # D!NoRecord,
                      due \in DOMAIN owed \/ Settled
               PROVE  /\ r_peeked.kind = "block"
                      /\ due \in DOMAIN owed
                      /\ r_peeked.id = owed[due]
    BY DEF HandsOutWhatIsDue
  <2>1. r_open
    BY DEF ReadInv, ReaderShut, ReaderTypeOK
  <2>2. PICK cols \in Seq(Col) : Walked(cols)
    BY <2>1 DEF ReadInv, ReaderKept
  <2>3. /\ due \in DOMAIN owed
        /\ r_peeked = BlockExtent(cols[due].off, owed[due])
    BY <2>2 DEF Walked
  <2> QED
    BY <2>3 DEF BlockExtent
<1> QED
  BY <1>1, ReadbackInvariant, PTL

\* No walk reports the end of the blocks before the last one (peek_block).
THEOREM EndsLast ==
    ASSUME CarryOn \subseteq {"mem"}, MaxCols < ColWrap, ~ LateBlocks
    PROVE  SpecAll => []EndsAfterTheLast
<1>1. ReadInv => EndsAfterTheLast
  BY DEF ReadInv, ReaderShut, ReaderKept, Walked, EndsAfterTheLast
<1> QED
  BY <1>1, ReadbackInvariant, PTL

\* A committed container never reads as corrupt, whatever became of the
\* passes over it.
THEOREM StaysIntact ==
    ASSUME CarryOn \subseteq {"mem"}, MaxCols < ColWrap, ~ LateBlocks
    PROVE  SpecAll => []CommittedIsIntact
<1>1. ReadInv => CommittedIsIntact
  BY DEF ReadInv, ReaderShut, ReaderKept, Walked, CommittedIsIntact
<1> QED
  BY <1>1, ReadbackInvariant, PTL
=============================================================================
