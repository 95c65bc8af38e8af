------------------------ MODULE StreamEncoderProofs ------------------------
(***************************************************************************)
(* Crash safety of the streaming encoder, for every size of header, index, *)
(* schema and record and every number of passes: IInv is inductive, and    *)
(* whatever a committed header names is on disk in one piece.              *)
(***************************************************************************)
EXTENDS StreamEncoderInv, TLAPS, FiniteSetTheorems

-----------------------------------------------------------------------------
(* Sizes.                                                                  *)

\* The offsets a header names are numbers.
LEMMA OffsetTypes ==
    ASSUME NEW h \in Header
    PROVE  /\ h.schema_size \in Nat /\ BlocksStart(h) \in Nat
           /\ SchemaOffset(h) \in Nat
BY SizesAssumption DEF Header, BlocksStart, SchemaOffset

\* An index is never empty, whatever it lists (rowgroup.c, serialized_size).
LEMMA SizeOfIndexType ==
    ASSUME NEW gs \in Seq(Group)
    PROVE  SizeOfIndex(gs) \in Nat /\ SizeOfIndex(gs) > 0
<1> DEFINE grid == (1..Len(gs)) \X (1..ColWrap)
<1>1. IsFiniteSet(grid)
  <2>1. IsFiniteSet(1..Len(gs)) /\ IsFiniteSet(1..ColWrap)
    BY FS_Interval, SizesAssumption
  <2> QED
    BY <2>1, FS_Product
<1>2. ColEntries(gs) \subseteq grid /\ StatsEntries(gs) \subseteq grid
  BY DEF ColEntries, StatsEntries
<1>3. /\ Cardinality(ColEntries(gs)) \in Nat
      /\ Cardinality(StatsEntries(gs)) \in Nat
  BY <1>1, <1>2, FS_Subset, FS_CardinalityType
<1>4. Len(gs) \in Nat
  OBVIOUS
<1> HIDE DEF grid
<1>5. ASSUME NEW a \in Nat, NEW b \in Nat
      PROVE  a * b \in Nat
  OBVIOUS
<1>6. /\ GroupHeader * Len(gs) \in Nat
      /\ ColEntry * Cardinality(ColEntries(gs)) \in Nat
      /\ StatsEntry * Cardinality(StatsEntries(gs)) \in Nat
  BY <1>3, <1>4, <1>5, SizesAssumption
<1> QED
  BY <1>6, SizesAssumption DEF SizeOfIndex

\* A schema with columns is never empty (schema.c, serialized_size).
LEMMA SizeOfSchemaType ==
    ASSUME NEW n \in Nat
    PROVE  /\ SizeOfSchema(n) \in Nat
           /\ n # 0 <=> SizeOfSchema(n) > 0
<1>1. n * SchemaCol \in Nat
  BY SizesAssumption
<1> QED
  BY <1>1, SizesAssumption DEF SizeOfSchema

-----------------------------------------------------------------------------
(* What a write leaves on disk.  The lemmas cover a whole write and a torn *)
(* one: b2 holds at least what a write of n bytes at offset at spares.     *)

LEMMA SparedBody ==
    ASSUME NEW b \in SUBSET Extent, BodyOK(b), NEW at, NEW n
    PROVE  Spared(b, at, n) \in SUBSET Extent /\ BodyOK(Spared(b, at, n))
BY DEF Spared, BodyOK

LEMMA PutBody ==
    ASSUME NEW b \in SUBSET Extent, BodyOK(b), NEW x \in Extent, x.size > 0,
           x.kind = "schema" => x.size = SizeOfSchema(x.id),
           x.kind = "block" => x.id \in Payload
    PROVE  /\ Put(b, x) \in SUBSET Extent
           /\ BodyOK(Put(b, x))
           /\ x \in Put(b, x)
           /\ Spared(b, x.at, x.size) \subseteq Put(b, x)
<1>1. Put(b, x) \in SUBSET Extent
  BY DEF Put, Spared
<1>2. ASSUME NEW e \in Put(b, x), NEW f \in Put(b, x), e # f
      PROVE  e.at + e.size <= f.at \/ f.at + f.size <= e.at
  BY <1>2 DEF Put, Spared, BodyOK, Extent
<1> QED
  BY <1>1, <1>2 DEF Put, Spared, BodyOK

LEMMA ColType ==
    ASSUME NEW cols \in Seq(Col), NEW c \in DOMAIN cols
    PROVE  cols[c].off \in Nat /\ cols[c].total \in Nat
<1>1. cols[c] \in Col
  OBVIOUS
<1> QED
  BY <1>1 DEF Col

LEMMA ColsKept ==
    ASSUME NEW b \in SUBSET Extent, NEW b2, NEW cols \in Seq(Col),
           NEW at \in Nat, NEW n \in Nat, NEW m \in Nat,
           Spared(b, at, n) \subseteq b2,
           ColsLive(cols, b, m), m <= at
    PROVE  ColsLive(cols, b2, m)
<1> SUFFICES ASSUME NEW c \in DOMAIN cols
             PROVE  BlocksAt(cols[c], b2) # {} /\ cols[c].off + cols[c].total <= m
  BY DEF ColsLive
<1>1. cols[c].off \in Nat /\ cols[c].total \in Nat
  BY ColType
<1>2. BlocksAt(cols[c], b) # {} /\ cols[c].off + cols[c].total <= m
  BY DEF ColsLive
<1>3. BlocksAt(cols[c], b) \subseteq BlocksAt(cols[c], b2)
  BY <1>1, <1>2 DEF BlocksAt, Spared, Extent
<1> QED
  BY <1>2, <1>3

LEMMA ColsLater ==
    ASSUME NEW b, NEW cols \in Seq(Col), NEW m \in Nat, NEW k \in Nat,
           ColsLive(cols, b, m), m <= k
    PROVE  ColsLive(cols, b, k)
BY ColType DEF ColsLive

LEMMA GroupType ==
    ASSUME NEW gs \in Seq(Group), NEW g \in DOMAIN gs
    PROVE  /\ gs[g] \in Group /\ gs[g].off \in Nat
           /\ gs[g].cols \in Seq(Col) /\ gs[g].stats \in Seq(BOOLEAN)
<1>1. gs[g] \in Group
  OBVIOUS
<1> QED
  BY <1>1 DEF Group

LEMMA BlocksKept ==
    ASSUME NEW b \in SUBSET Extent, NEW b2, NEW gs \in Seq(Group),
           NEW at \in Nat, NEW n \in Nat, NEW m \in Nat,
           Spared(b, at, n) \subseteq b2,
           BlocksLive(gs, b, m), m <= at
    PROVE  BlocksLive(gs, b2, m)
BY GroupType, ColsKept DEF BlocksLive

LEMMA BlocksLater ==
    ASSUME NEW b, NEW gs \in Seq(Group), NEW m \in Nat, NEW k \in Nat,
           BlocksLive(gs, b, m), m <= k
    PROVE  BlocksLive(gs, b, k)
BY GroupType, ColsLater DEF BlocksLive

LEMMA SchemaKept ==
    ASSUME NEW b \in SUBSET Extent, NEW b2, NEW h \in Header,
           NEW at \in Nat, NEW n \in Nat, NEW m \in Nat,
           Spared(b, at, n) \subseteq b2,
           SchemaLive(h, b, m), m <= at
    PROVE  SchemaLive(h, b2, m)
BY SizesAssumption
   DEF SchemaLive, SchemasAt, SchemaOffset, BlocksStart, Spared, Extent, Header

LEMMA IndexKept ==
    ASSUME NEW b \in SUBSET Extent, NEW b2, NEW h \in Header, NEW gs,
           NEW at \in Nat, NEW n \in Nat,
           Spared(b, at, n) \subseteq b2,
           IndexLive(h, b, gs),
           at + n <= h.idx_off \/ h.idx_off + h.idx_size <= at
    PROVE  IndexLive(h, b2, gs)
BY DEF IndexLive, IndexesAt, Spared, Extent, Header

\* Two indexes a header may name are the same: extents share no byte.
LEMMA OneIndex ==
    ASSUME NEW b \in SUBSET Extent, BodyOK(b), NEW h,
           NEW x \in IndexesAt(h, b), NEW y \in IndexesAt(h, b)
    PROVE  x = y
BY DEF BodyOK, IndexesAt, Extent

-----------------------------------------------------------------------------
(* The write that comes next.                                              *)

LEMMA NeedType ==
    ASSUME IInv, pc \in {"append", "copy", "repoint", "hook"}
    PROVE  Need \in Nat
<1>1. SizeOfIndex(groups) \in Nat
  BY SizeOfIndexType DEF IInv, TypeOK
<1>2. SizeOfSchema(schema_cols) \in Nat
  BY SizeOfSchemaType DEF IInv, TypeOK
<1>3. req.call # "close" => req.payload \in Payload
  BY DEF IInv, ControlOK
<1>4. req.payload \in Payload => RecordSize[req.payload] \in Nat
  BY SizesAssumption
<1> QED
  BY <1>1, <1>2, <1>3, <1>4 DEF Need, NeedOf

\* v2_make_room puts the copy past the current index and past the write.
LEMMA CopyRoom ==
    ASSUME NEW n \in Nat, reuse_start \in Nat, live_index_off \in Nat,
           write_pos \in Nat, orig_hdr.idx_size \in Nat,
           reuse_start <= live_index_off, reuse_start <= write_pos
    PROVE  /\ CopyOffset(n) \in Nat
           /\ live_index_off + orig_hdr.idx_size <= CopyOffset(n)
           /\ write_pos + n <= CopyOffset(n)
           /\ reuse_start <= CopyOffset(n)
<1>1. CASE live_index_off > reuse_start
  BY <1>1 DEF CopyOffset
<1>2. CASE ~ (live_index_off > reuse_start)
  BY <1>2 DEF CopyOffset
<1> QED
  BY <1>1, <1>2

\* The header's own fields, as the session found them or moved them.
LEMMA HeaderFields ==
    ASSUME IInv, Reopened
    PROVE  /\ hdr \in Header /\ orig_hdr \in Header
           /\ hdr.magic /\ Committed(hdr)
           /\ SchemaOffset(hdr) = SchemaOffset(orig_hdr)
           /\ BlocksStart(hdr) = BlocksStart(orig_hdr)
           /\ hdr.schema_size = orig_hdr.schema_size
           /\ hdr.has_stats = orig_hdr.has_stats
           /\ hdr.idx_size = orig_hdr.idx_size
           /\ hdr.idx_off \in Nat /\ hdr.idx_size \in Nat
           /\ orig_hdr.idx_off \in Nat
           /\ reuse_start <= hdr.idx_off
           /\ reuse_start \in Nat /\ write_pos \in Nat
           /\ live_index_off \in Nat
<1>1. hdr \in Header /\ orig_hdr \in Header
  BY DEF IInv, TypeOK
<1>2. /\ reuse_start \in Nat /\ live_index_off \in Nat
      /\ write_pos \in Nat
  BY DEF IInv, TypeOK
<1>3. /\ hdr.idx_off \in Nat /\ hdr.idx_size \in Nat
      /\ orig_hdr.idx_off \in Nat /\ orig_hdr.idx_size \in Nat
  BY <1>1 DEF Header
<1>4. /\ Committed(orig_hdr) /\ orig_hdr.magic /\ orig_hdr.idx_size > 0
      /\ hdr = orig_hdr \/ hdr = MovedHeader(hdr.idx_off)
      /\ reuse_start <= orig_hdr.idx_off
      /\ \/ hdr.idx_off = orig_hdr.idx_off
         \/ hdr.idx_off >= orig_hdr.idx_off + orig_hdr.idx_size
  BY DEF IInv, FoundOK
<1>5. CASE hdr = orig_hdr
  BY <1>1, <1>2, <1>3, <1>4, <1>5
<1>6. CASE hdr = MovedHeader(hdr.idx_off)
  <2>1. /\ hdr.magic /\ hdr.widened
        /\ hdr.schema_off = SchemaOffset(orig_hdr)
        /\ hdr.blocks_start = BlocksStart(orig_hdr)
        /\ hdr.schema_size = orig_hdr.schema_size
        /\ hdr.has_stats = orig_hdr.has_stats
        /\ hdr.idx_size = orig_hdr.idx_size
    BY <1>1, <1>6 DEF MovedHeader, Header
  <2>2. Committed(hdr) /\ reuse_start <= hdr.idx_off
    BY <1>2, <1>3, <1>4 DEF Committed
  <2> QED
    BY <1>1, <1>2, <1>3, <2>1, <2>2 DEF SchemaOffset, BlocksStart
<1> QED
  BY <1>4, <1>5, <1>6

\* No write of a reopened container reaches what the header names: it starts
\* past the found blocks and schema, and stays off the index.
LEMMA WriteRegion ==
    ASSUME IInv, Reopened, pc \in BodyWrites
    PROVE  /\ WriteAt \in Nat /\ WriteSize \in Nat
           /\ reuse_start <= WriteAt
           /\ \/ WriteAt + WriteSize <= hdr.idx_off
              \/ hdr.idx_off + hdr.idx_size <= WriteAt
           /\ pc # "undo_index" => write_pos <= WriteAt
<1> USE HeaderFields
<1>1. /\ reuse_start <= write_pos /\ reuse_start <= live_index_off
      /\ live_index_off <= hdr.idx_off
      /\ ~ failed => live_index_off = hdr.idx_off
  BY DEF IInv, CursorOK
<1>2. orig_hdr.idx_size \in Nat
  BY DEF Header
<1>3. CASE pc = "copy"
  <2>1. ~ failed
    BY <1>3 DEF IInv, ControlOK
  <2>2. Need \in Nat
    BY <1>3, NeedType
  <2>3. WriteAt = CopyOffset(Need) /\ WriteSize = orig_hdr.idx_size
    BY <1>3 DEF WriteAt, WriteSize
  <2>4. /\ CopyOffset(Need) \in Nat
        /\ live_index_off + orig_hdr.idx_size <= CopyOffset(Need)
        /\ write_pos + Need <= CopyOffset(Need)
        /\ reuse_start <= CopyOffset(Need)
    BY <1>1, <1>2, <2>2, CopyRoom
  <2> QED
    BY <1>1, <1>2, <1>3, <2>1, <2>2, <2>3, <2>4
<1>4. CASE pc = "undo_index"
  <2>1. WriteAt = orig_hdr.idx_off /\ WriteSize = orig_hdr.idx_size
    BY <1>4 DEF WriteAt, WriteSize
  <2>2. /\ hdr.idx_off >= orig_hdr.idx_off + orig_hdr.idx_size
        /\ reuse_start <= orig_hdr.idx_off
    BY <1>4 DEF IInv, FoundOK, CursorOK
  <2> QED
    BY <1>2, <1>4, <2>1, <2>2
<1>5. CASE pc = "append"
  <2>1. /\ WriteAt = write_pos /\ WriteSize = RecordSize[req.payload]
        /\ ~ failed
    BY <1>5 DEF IInv, StagedOK, ControlOK, AtCursor, Reopened, WriteAt, WriteSize
  <2>2. RecordSize[req.payload] \in Nat
    BY <1>5, SizesAssumption DEF IInv, ControlOK
  <2>3. write_pos + RecordSize[req.payload] <= live_index_off
    BY <1>5 DEF IInv, CursorOK
  <2> QED
    BY <1>1, <1>5, <2>1, <2>2, <2>3
<1>6. CASE pc = "schema"
  <2>1. /\ WriteAt = write_pos /\ WriteSize = SizeOfSchema(schema_cols)
        /\ ~ failed
    BY <1>6 DEF IInv, StagedOK, ControlOK, AtCursor, Reopened, WriteAt, WriteSize
  <2>2. SizeOfSchema(schema_cols) \in Nat /\ SizeOfIndex(groups) \in Nat
    BY SizeOfSchemaType, SizeOfIndexType DEF IInv, TypeOK
  <2>3. write_pos + SizeOfSchema(schema_cols) + SizeOfIndex(groups)
           <= live_index_off
    BY <1>6 DEF IInv, CursorOK
  <2> QED
    BY <1>1, <1>6, <2>1, <2>2, <2>3
<1>7. CASE pc = "index"
  <2>1. /\ WriteAt = write_pos /\ WriteSize = SizeOfIndex(groups)
        /\ ~ failed
    BY <1>7 DEF IInv, StagedOK, ControlOK, AtCursor, Reopened, WriteAt, WriteSize
  <2>2. SizeOfIndex(groups) \in Nat
    BY SizeOfIndexType DEF IInv, TypeOK
  <2>3. write_pos + SizeOfIndex(groups) <= live_index_off
    BY <1>7 DEF IInv, CursorOK
  <2> QED
    BY <1>1, <1>7, <2>1, <2>2, <2>3
<1> QED
  BY <1>3, <1>4, <1>5, <1>6, <1>7 DEF BodyWrites, IInv, ControlOK

\* What such a write leaves of the container as found.
LEMMA FoundKept ==
    ASSUME IInv, Reopened, NEW b2, NEW at \in Nat, NEW n \in Nat,
           Spared(body, at, n) \subseteq b2,
           reuse_start <= at,
           at + n <= hdr.idx_off \/ hdr.idx_off + hdr.idx_size <= at
    PROVE  /\ BlocksLive(orig_groups, b2, reuse_start)
           /\ SchemaLive(orig_hdr, b2, reuse_start)
           /\ IndexLive(hdr, b2, orig_groups)
<1>1. /\ body \in SUBSET Extent /\ orig_groups \in Seq(Group)
      /\ orig_hdr \in Header /\ hdr \in Header /\ reuse_start \in Nat
  BY DEF IInv, TypeOK
<1>2. /\ BlocksLive(orig_groups, body, reuse_start)
      /\ SchemaLive(orig_hdr, body, reuse_start)
      /\ IndexLive(hdr, body, orig_groups)
  BY DEF IInv, FoundOK
<1> QED
  BY <1>1, <1>2, BlocksKept, SchemaKept, IndexKept

\* Any header that differs from the found one in where it says the index is
\* reads as the found container, if the index is there.
LEMMA FoundReadsAs ==
    ASSUME IInv, Reopened, NEW b2, NEW h \in Header, h.magic,
           SchemaOffset(h) = SchemaOffset(orig_hdr),
           BlocksStart(h) = BlocksStart(orig_hdr),
           h.schema_size = orig_hdr.schema_size,
           h.has_stats = orig_hdr.has_stats,
           reuse_start <= h.idx_off,
           BlocksLive(orig_groups, b2, reuse_start),
           SchemaLive(orig_hdr, b2, reuse_start),
           IndexLive(h, b2, orig_groups)
    PROVE  HeaderOK(h, b2)
<1> USE HeaderFields
<1>1. orig_groups \in Seq(Group) /\ h.idx_off \in Nat
  BY DEF IInv, TypeOK, Header
<1>2. BlocksLive(orig_groups, b2, h.idx_off)
  BY <1>1, BlocksLater
<1>3. SchemasAt(h, b2) = SchemasAt(orig_hdr, b2)
  BY DEF SchemasAt
<1>4. SchemaLive(h, b2, h.idx_off)
  <2>1. /\ SchemaOffset(orig_hdr) \in Nat /\ orig_hdr.schema_size \in Nat
        /\ BlocksStart(orig_hdr) \in Nat
    BY SizesAssumption DEF Header, SchemaOffset, BlocksStart
  <2> QED
    BY <1>1, <1>3, <2>1 DEF SchemaLive
<1>5. IndexParses(orig_groups, h.has_stats)
  BY DEF IInv, FoundOK
<1> QED
  BY <1>2, <1>4, <1>5 DEF HeaderOK, IndexLive

LEMMA FoundReads ==
    ASSUME IInv, Reopened, NEW b2,
           BlocksLive(orig_groups, b2, reuse_start),
           SchemaLive(orig_hdr, b2, reuse_start),
           IndexLive(hdr, b2, orig_groups)
    PROVE  HeaderOK(hdr, b2)
BY HeaderFields, FoundReadsAs

LEMMA MovedFields ==
    ASSUME NEW at \in Nat, orig_hdr \in Header
    PROVE  /\ MovedHeader(at) \in Header
           /\ MovedHeader(at).magic
           /\ MovedHeader(at).idx_off = at
           /\ MovedHeader(at).idx_size = orig_hdr.idx_size
           /\ MovedHeader(at).schema_size = orig_hdr.schema_size
           /\ MovedHeader(at).has_stats = orig_hdr.has_stats
           /\ SchemaOffset(MovedHeader(at)) = SchemaOffset(orig_hdr)
           /\ BlocksStart(MovedHeader(at)) = BlocksStart(orig_hdr)
<1>1. SchemaOffset(orig_hdr) \in Nat /\ BlocksStart(orig_hdr) \in Nat
  BY SizesAssumption DEF Header, SchemaOffset, BlocksStart
<1>2. /\ MovedHeader(at) \in Header
      /\ MovedHeader(at).magic /\ MovedHeader(at).widened
      /\ MovedHeader(at).idx_off = at
      /\ MovedHeader(at).idx_size = orig_hdr.idx_size
      /\ MovedHeader(at).schema_size = orig_hdr.schema_size
      /\ MovedHeader(at).has_stats = orig_hdr.has_stats
      /\ MovedHeader(at).schema_off = SchemaOffset(orig_hdr)
      /\ MovedHeader(at).blocks_start = BlocksStart(orig_hdr)
  BY <1>1 DEF MovedHeader, Header
<1> QED
  BY <1>2 DEF SchemaOffset, BlocksStart

-----------------------------------------------------------------------------
(* Steps that free the encoder.                                            *)

LEMMA Freed ==
    ASSUME TypeOK,
           NEW how \in {"closed", "aborted", "error", "crashed"}, Free(how),
           hdr' \in Header, body' \in SUBSET Extent, BodyOK(body'),
           HeaderOK(hdr', body')
    PROVE  IInv'
<1>1. TypeOK'
  <2>1. NoHeader \in Header
    BY DEF NoHeader, Header
  <2>2. NoRequest \in Request
    BY DEF NoRequest, Request
  <2>3. want' \in Staged /\ passes' \in Nat
    BY DEF Free, Staged, TypeOK
  <2>4. /\ <<>> \in Seq(Group) /\ <<>> \in Seq(Col) /\ <<>> \in Seq(BOOLEAN)
    OBVIOUS
  <2> QED
    BY <2>1, <2>2, <2>3, <2>4 DEF Free, TypeOK, Steps
<1>2. BodyOK(body)' /\ HeaderOK(hdr, body)'
  OBVIOUS
<1>3. mode' = "closed" /\ pc' = "idle" /\ failed' = FALSE /\ cur_cols' = <<>>
      /\ groups' = <<>> /\ cur_stats' = <<>> /\ moves' = 0
  BY DEF Free
<1>4. ControlOK'
  BY <1>3, BoundsAssumption DEF ControlOK, Reopened
<1>5. StagedOK'
  BY <1>3 DEF StagedOK, BlocksLive, ColsLive, IndexParses
<1>6. CreateOK' /\ FoundOK' /\ CursorOK' /\ SchemaOK'
  BY <1>3 DEF CreateOK, FoundOK, CursorOK, SchemaOK, Reopened
<1> QED
  BY <1>1, <1>2, <1>4, <1>5, <1>6 DEF IInv

\* A body write cut short, or reported as failed.
LEMMA TornWrite ==
    ASSUME IInv, mode # "closed", pc \in BodyWrites,
           NEW n \in 0..WriteSize, body' = Spared(body, WriteAt, n), hdr' = hdr
    PROVE  /\ hdr' \in Header /\ body' \in SUBSET Extent /\ BodyOK(body')
           /\ HeaderOK(hdr', body')
<1>1. hdr \in Header /\ body \in SUBSET Extent /\ BodyOK(body)
  BY DEF IInv, TypeOK
<1>2. body' \in SUBSET Extent /\ BodyOK(body')
  BY <1>1, SparedBody
<1>3. CASE mode = "create"
  BY <1>1, <1>2, <1>3 DEF IInv, CreateOK, HeaderOK
<1>4. CASE Reopened
  <2>1. /\ WriteAt \in Nat /\ WriteSize \in Nat /\ reuse_start <= WriteAt
        /\ \/ WriteAt + WriteSize <= hdr.idx_off
           \/ hdr.idx_off + hdr.idx_size <= WriteAt
    BY <1>4, WriteRegion
  <2>2. n \in Nat /\ n <= WriteSize
    BY <2>1
  <2>3. \/ WriteAt + n <= hdr.idx_off
        \/ hdr.idx_off + hdr.idx_size <= WriteAt
    BY <1>4, <2>1, <2>2, HeaderFields
  <2>4. /\ BlocksLive(orig_groups, body', reuse_start)
        /\ SchemaLive(orig_hdr, body', reuse_start)
        /\ IndexLive(hdr, body', orig_groups)
    BY <1>4, <2>1, <2>2, <2>3, FoundKept
  <2>5. HeaderOK(hdr, body')
    BY <1>4, <2>4, FoundReads
  <2> QED
    BY <1>1, <1>2, <2>5
<1> QED
  BY <1>3, <1>4 DEF IInv, TypeOK, Reopened

\* The disk as it is.
LEMMA DiskAsIs ==
    ASSUME IInv, UNCHANGED disk
    PROVE  /\ hdr' \in Header /\ body' \in SUBSET Extent /\ BodyOK(body')
           /\ HeaderOK(hdr', body')
BY DEF IInv, TypeOK, disk

LEMMA EncoderHeaderFields ==
    ASSUME NEW n, NEW off, NEW size, NEW so
    PROVE  /\ EncoderHeader(n, off, size, so).magic
           /\ EncoderHeader(n, off, size, so).idx_off = off
           /\ EncoderHeader(n, off, size, so).idx_size = size
           /\ EncoderHeader(n, off, size, so).has_stats = any_stats
           /\ EncoderHeader(n, off, size, so).schema_size
                 = SizeOfSchema(schema_cols)
           /\ so # 0 => EncoderHeader(n, off, size, so).widened
           /\ so = 0 => ~ EncoderHeader(n, off, size, so).widened
           /\ EncoderHeader(n, off, size, so).schema_off = so
           /\ so # 0 => EncoderHeader(n, off, size, so).blocks_start
                           = BlocksStart(orig_hdr)
BY DEF EncoderHeader

LEMMA EncoderHeaderType ==
    ASSUME TypeOK, NEW n, NEW off, NEW size, NEW so,
           n \in Nat, off \in Nat, size \in Nat, so \in Nat
    PROVE  EncoderHeader(n, off, size, so) \in Header
<1>1. SizeOfSchema(schema_cols) \in Nat
  BY SizeOfSchemaType DEF TypeOK
<1>2. BlocksStart(orig_hdr) \in Nat
  <2>1. orig_hdr \in Header
    BY DEF TypeOK
  <2>2. orig_hdr.blocks_start \in Nat /\ orig_hdr.schema_size \in Nat
    BY <2>1 DEF Header
  <2> QED
    BY <2>2, SizesAssumption DEF BlocksStart
<1>3. any_stats \in BOOLEAN
  BY DEF TypeOK
<1> QED
  BY <1>1, <1>2, <1>3 DEF EncoderHeader, Header

\* The schema the patched header names is whole, and ends before the index.
LEMMA PatchedSchema ==
    ASSUME IInv, pc = "patch", ~ failed, mode # "closed"
    PROVE  /\ FinalSchemaOffset \in Nat
           /\ \A n, size \in Nat :
                 SchemaLive(EncoderHeader(n, write_pos, size,
                                          FinalSchemaOffset),
                            body, write_pos)
<1> USE DEF IInv
<1>1. /\ SizeOfSchema(schema_cols) \in Nat
      /\ schema_cols # 0 <=> SizeOfSchema(schema_cols) > 0
      /\ write_pos \in Nat
  BY SizeOfSchemaType DEF TypeOK
<1>2. CASE mode = "create"
  <2>1. FinalSchemaOffset = 0
    BY <1>2 DEF FinalSchemaOffset
  <2>2. ASSUME NEW n \in Nat, NEW size \in Nat
        PROVE  SchemaLive(EncoderHeader(n, write_pos, size, 0), body, write_pos)
    <3> DEFINE h == EncoderHeader(n, write_pos, size, 0)
    <3>1. h.schema_size = SizeOfSchema(schema_cols) /\ ~ h.widened
      BY EncoderHeaderFields
    <3> HIDE DEF h
    <3>2. SchemaOffset(h) = HeaderSize
          /\ BlocksStart(h) = HeaderSize + SizeOfSchema(schema_cols)
      BY <3>1 DEF SchemaOffset, BlocksStart
    <3>3. HeaderSize + SizeOfSchema(schema_cols) <= write_pos
      BY <1>2 DEF CreateOK
    <3>4. h.schema_size # 0 => SchemasAt(h, body) # {}
      BY <1>1, <1>2, <3>1, <3>2 DEF CreateOK, SchemasAt
    <3>5. SchemaLive(h, body, write_pos)
      BY <3>1, <3>2, <3>3, <3>4, SizesAssumption DEF SchemaLive
    <3> QED
      BY <3>5 DEF h
  <2> QED
    BY <2>1, <2>2
<1>3. CASE mode = "widen"
  <2> Reopened
    BY <1>3 DEF Reopened
  <2>1. PICK e \in body : /\ e.kind = "schema"
                          /\ e.at + e.size = write_pos
                          /\ e.size = SizeOfSchema(schema_cols)
                          /\ e.at >= reuse_start
    BY <1>3 DEF SchemaOK
  <2>2. e.at \in Nat /\ e.size \in Nat
    BY DEF TypeOK, Extent
  <2>3. FinalSchemaOffset = e.at
    BY <1>1, <1>3, <2>1, <2>2 DEF FinalSchemaOffset
  <2>4. HeaderSize <= reuse_start /\ BlocksStart(orig_hdr) <= reuse_start
        /\ BlocksStart(orig_hdr) \in Nat /\ reuse_start <= write_pos
        /\ reuse_start \in Nat
    <3>1. /\ orig_hdr.schema_size \in Nat /\ BlocksStart(orig_hdr) \in Nat
          /\ SchemaOffset(orig_hdr) \in Nat /\ reuse_start \in Nat
      <4>1. orig_hdr \in Header /\ reuse_start \in Nat
        BY DEF TypeOK
      <4> QED
        BY <4>1, OffsetTypes
    <3> QED
      BY <3>1, SizesAssumption DEF FoundOK, SchemaLive, CursorOK
  <2>5. e.at # 0
    BY <2>1, <2>2, <2>4, SizesAssumption
  <2>6. ASSUME NEW n \in Nat, NEW size \in Nat
        PROVE  SchemaLive(EncoderHeader(n, write_pos, size, e.at),
                          body, write_pos)
    <3> DEFINE h == EncoderHeader(n, write_pos, size, e.at)
    <3>1. /\ h.schema_size = SizeOfSchema(schema_cols) /\ h.widened
          /\ h.schema_off = e.at /\ h.blocks_start = BlocksStart(orig_hdr)
      BY <2>5 DEF EncoderHeader
    <3> HIDE DEF h
    <3>2. SchemaOffset(h) = e.at /\ BlocksStart(h) = BlocksStart(orig_hdr)
      BY <3>1 DEF SchemaOffset, BlocksStart
    <3>3. e \in SchemasAt(h, body)
      BY <2>1, <3>1, <3>2 DEF SchemasAt
    <3>4. SchemaLive(h, body, write_pos)
      BY <1>1, <2>1, <2>2, <2>4, <3>1, <3>2, <3>3, SizesAssumption
         DEF SchemaLive
    <3> QED
      BY <3>4 DEF h
  <2> QED
    BY <2>2, <2>3, <2>6
<1>4. CASE mode = "extend"
  <2> Reopened
    BY <1>4 DEF Reopened
  <2>1. FinalSchemaOffset = SchemaOffset(orig_hdr)
    BY <1>4 DEF FinalSchemaOffset
  <2>2. /\ orig_hdr.schema_size \in Nat /\ BlocksStart(orig_hdr) \in Nat
        /\ SchemaOffset(orig_hdr) \in Nat /\ reuse_start \in Nat
    <3>1. orig_hdr \in Header /\ reuse_start \in Nat
      BY DEF TypeOK
    <3> QED
      BY <3>1, OffsetTypes
  <2>3. /\ SchemaLive(orig_hdr, body, reuse_start)
        /\ reuse_start <= write_pos
        /\ SizeOfSchema(schema_cols) = orig_hdr.schema_size
    BY <1>4 DEF FoundOK, CursorOK, SchemaOK
  <2>4. SchemaOffset(orig_hdr) # 0
    BY <2>2, <2>3, SizesAssumption DEF SchemaLive
  <2>5. ASSUME NEW n \in Nat, NEW size \in Nat
        PROVE  SchemaLive(EncoderHeader(n, write_pos, size,
                                        SchemaOffset(orig_hdr)),
                          body, write_pos)
    <3> DEFINE h == EncoderHeader(n, write_pos, size, SchemaOffset(orig_hdr))
    <3>1. /\ h.schema_size = SizeOfSchema(schema_cols) /\ h.widened
          /\ h.schema_off = SchemaOffset(orig_hdr)
          /\ h.blocks_start = BlocksStart(orig_hdr)
      BY <2>4 DEF EncoderHeader
    <3> HIDE DEF h
    <3>2. /\ SchemaOffset(h) = SchemaOffset(orig_hdr)
          /\ BlocksStart(h) = BlocksStart(orig_hdr)
      BY <3>1 DEF SchemaOffset, BlocksStart
    <3>3. SchemasAt(h, body) = SchemasAt(orig_hdr, body)
      BY <2>3, <3>1, <3>2 DEF SchemasAt
    <3>4. SchemaLive(h, body, write_pos)
      BY <1>1, <2>2, <2>3, <3>1, <3>2, <3>3 DEF SchemaLive
    <3> QED
      BY <3>4 DEF h
  <2> QED
    BY <2>1, <2>2, <2>5
<1> QED
  BY <1>2, <1>3, <1>4 DEF TypeOK

\* A header write of a repointing, an abort or a close, done or not.
LEMMA NewHeader ==
    ASSUME IInv, pc \in HeaderWrites, hdr' = NextHeader, body' = body
    PROVE  /\ hdr' \in Header /\ body' \in SUBSET Extent /\ BodyOK(body')
           /\ HeaderOK(hdr', body')
<1> USE DEF IInv
<1>1. body' \in SUBSET Extent /\ BodyOK(body')
  BY DEF TypeOK
<1>2. CASE pc = "repoint"
  <2>1. Reopened /\ ~ failed
    BY <1>2 DEF ControlOK, Reopened, TypeOK
  <2>2. hdr' = MovedHeader(CopyOffset(Need))
    BY <1>2 DEF NextHeader
  <2>3. CopyOffset(Need) \in Nat /\ reuse_start <= CopyOffset(Need)
    BY <1>2, <2>1, NeedType, CopyRoom, HeaderFields DEF CursorOK, Header
  <2>4. IndexLive(hdr', body, orig_groups)
    BY <1>2, <2>1, <2>2, <2>3, MovedFields, HeaderFields
       DEF CursorOK, IndexLive, IndexesAt
  <2>5. HeaderOK(hdr', body)
    BY <2>1, <2>2, <2>3, <2>4, MovedFields, HeaderFields, FoundReadsAs
       DEF FoundOK
  <2> QED
    BY <1>1, <2>1, <2>2, <2>3, <2>5, MovedFields, HeaderFields
<1>3. CASE pc = "undo_header"
  <2>1. Reopened
    BY <1>3 DEF ControlOK, Reopened, TypeOK
  <2>2. hdr' = orig_hdr
    BY <1>3 DEF NextHeader
  <2>3. IndexLive(orig_hdr, body, orig_groups)
    BY <1>3, <2>1 DEF CursorOK
  <2>4. HeaderOK(orig_hdr, body)
    BY <2>1, <2>3, HeaderFields, FoundReadsAs DEF FoundOK
  <2> QED
    BY <1>1, <2>1, <2>2, <2>4, HeaderFields
<1>4. CASE pc = "patch"
  <2>1. ~ failed /\ mode # "closed"
    BY <1>4 DEF ControlOK
  <2>2. hdr' = FinalHeader
    BY <1>4 DEF NextHeader
  <2>3. CASE ~ seekable
    BY <1>1, <2>2, <2>3 DEF FinalHeader, TypeOK
  <2>4. CASE seekable /\ groups = <<>>
    <3>1. FinalSchemaOffset \in Nat
      BY <1>4, <2>1, PatchedSchema
    <3>2. hdr' = EncoderHeader(n_blocks, 0, 0, FinalSchemaOffset)
      BY <2>2, <2>4 DEF FinalHeader
    <3>3. hdr' \in Header /\ ~ Committed(hdr')
      <4>1. n_blocks \in Nat /\ TypeOK
        BY DEF TypeOK
      <4>2. EncoderHeader(n_blocks, 0, 0, FinalSchemaOffset) \in Header
        BY <3>1, <4>1, EncoderHeaderType
      <4> QED
        BY <3>2, <4>2, EncoderHeaderFields DEF Committed
    <3> QED
      BY <1>1, <3>3 DEF HeaderOK
  <2>5. CASE seekable /\ groups # <<>>
    <3> DEFINE h == EncoderHeader(n_blocks, write_pos, SizeOfIndex(groups),
                                  FinalSchemaOffset)
    <3>1. hdr' = h
      BY <2>2, <2>5 DEF FinalHeader
    <3>2. SizeOfIndex(groups) \in Nat
      BY SizeOfIndexType DEF TypeOK
    <3>3. FinalSchemaOffset \in Nat
      BY <1>4, <2>1, PatchedSchema
    <3>4. /\ h \in Header /\ h.magic /\ h.idx_off = write_pos
          /\ h.idx_size = SizeOfIndex(groups) /\ h.has_stats = any_stats
      <4>1. n_blocks \in Nat /\ write_pos \in Nat /\ TypeOK
        BY DEF TypeOK
      <4>2. h \in Header
        BY <3>2, <3>3, <4>1, EncoderHeaderType
      <4> QED
        BY <4>2, EncoderHeaderFields
    <3>5. SchemaLive(h, body, write_pos)
      BY <1>4, <2>1, <3>2, PatchedSchema DEF TypeOK
    <3>6. /\ BlocksLive(groups, body, write_pos)
          /\ IndexParses(groups, any_stats)
          /\ \E x \in body : /\ x.kind = "index"
                             /\ x.at = write_pos
                             /\ x.size = SizeOfIndex(groups)
                             /\ x.groups = groups
      BY <1>4, <2>1, <2>5 DEF StagedOK
    <3> HIDE DEF h
    <3>7. HeaderOK(h, body)
      BY <3>4, <3>5, <3>6 DEF HeaderOK, IndexesAt
    <3> QED
      BY <1>1, <3>1, <3>4, <3>7
  <2> QED
    BY <2>3, <2>4, <2>5 DEF TypeOK
<1> QED
  BY <1>2, <1>3, <1>4 DEF HeaderWrites

-----------------------------------------------------------------------------
(* Steps inside a pass.                                                    *)

\* A step that leaves the disk and the session alone.
LEMMA SameDisk ==
    ASSUME IInv, UNCHANGED <<disk, session, moves>>
    PROVE  /\ hdr' = hdr /\ body' = body /\ mode' = mode
           /\ BodyOK(body)' /\ HeaderOK(hdr, body)' /\ FoundOK'
<1>1. /\ hdr' = hdr /\ body' = body /\ mode' = mode /\ moves' = moves
      /\ orig_hdr' = orig_hdr /\ orig_groups' = orig_groups
      /\ reuse_start' = reuse_start
  BY DEF disk, session
<1>2. BodyOK(body)' /\ HeaderOK(hdr, body)'
  BY <1>1 DEF IInv
<1>3. FoundOK'
  BY <1>1 DEF IInv, FoundOK, Reopened, MovedHeader
<1> QED
  BY <1>1, <1>2, <1>3

\* A write into the body, whole or torn, that stays off the container found.
LEMMA BodyStep ==
    ASSUME IInv, mode # "closed", UNCHANGED <<hdr, session, moves>>,
           NEW at \in Nat, NEW n \in Nat,
           Spared(body, at, n) \subseteq body',
           body' \in SUBSET Extent, BodyOK(body'),
           Reopened =>
              /\ reuse_start <= at
              /\ at + n <= hdr.idx_off \/ hdr.idx_off + hdr.idx_size <= at
    PROVE  /\ hdr' = hdr /\ mode' = mode
           /\ BodyOK(body)' /\ HeaderOK(hdr, body)' /\ FoundOK'
<1>1. /\ hdr' = hdr /\ mode' = mode /\ moves' = moves
      /\ orig_hdr' = orig_hdr /\ orig_groups' = orig_groups
      /\ reuse_start' = reuse_start
  BY DEF session
<1>2. CASE mode = "create"
  BY <1>1, <1>2 DEF IInv, CreateOK, HeaderOK, FoundOK, Reopened
<1>3. CASE Reopened
  <2>1. /\ BlocksLive(orig_groups, body', reuse_start)
        /\ SchemaLive(orig_hdr, body', reuse_start)
        /\ IndexLive(hdr, body', orig_groups)
    BY <1>3, FoundKept
  <2>2. HeaderOK(hdr, body')
    BY <1>3, <2>1, FoundReads
  <2>3. FoundOK'
    BY <1>1, <1>3, <2>1 DEF IInv, FoundOK, Reopened, MovedHeader
  <2> QED
    BY <1>1, <2>2, <2>3
<1> QED
  BY <1>2, <1>3 DEF IInv, TypeOK, Reopened

\* What a write past the cursor leaves of the blocks already staged.
LEMMA StagedKept ==
    ASSUME IInv, pc \notin {"undo_index", "undo_header"}, ~ failed,
           NEW b2, NEW at \in Nat, NEW n \in Nat,
           Spared(body, at, n) \subseteq b2, write_pos <= at
    PROVE  /\ BlocksLive(groups, b2, write_pos)
           /\ ColsLive(cur_cols, b2, write_pos)
<1>1. /\ body \in SUBSET Extent /\ groups \in Seq(Group)
      /\ cur_cols \in Seq(Col) /\ write_pos \in Nat
  BY DEF IInv, TypeOK
<1>2. /\ BlocksLive(groups, body, write_pos)
      /\ ColsLive(cur_cols, body, write_pos)
  BY DEF IInv, StagedOK
<1> QED
  BY <1>1, <1>2, BlocksKept, ColsKept

\* And of the schema of a container being created.
LEMMA CreateKept ==
    ASSUME IInv, mode = "create", pc # "open_schema",
           NEW b2, NEW at \in Nat, NEW n \in Nat,
           Spared(body, at, n) \subseteq b2, write_pos <= at
    PROVE  schema_cols # 0 => \E e \in b2 : /\ e.kind = "schema"
                                            /\ e.at = HeaderSize
                                            /\ e.size = SizeOfSchema(schema_cols)
<1>1. HeaderSize + SizeOfSchema(schema_cols) <= write_pos /\ write_pos \in Nat
      /\ SizeOfSchema(schema_cols) \in Nat
  BY SizeOfSchemaType DEF IInv, CreateOK, TypeOK
<1>2. SUFFICES ASSUME schema_cols # 0
               PROVE  \E e \in b2 : /\ e.kind = "schema"
                                    /\ e.at = HeaderSize
                                    /\ e.size = SizeOfSchema(schema_cols)
  OBVIOUS
<1>3. PICK e \in body : /\ e.kind = "schema" /\ e.at = HeaderSize
                        /\ e.size = SizeOfSchema(schema_cols)
  BY <1>2 DEF IInv, CreateOK
<1>4. e \in Spared(body, at, n)
  BY <1>1, <1>3, SizesAssumption DEF Spared
<1> QED
  BY <1>3, <1>4

-----------------------------------------------------------------------------
(* Steps that free the encoder.                                            *)

LEMMA FreeSteps ==
    ASSUME IInv,
           \/ PatchHeader \/ Abort \/ RestoreHeader \/ Crash
           \/ LastWriteFails
           \/ HookFails /\ req.call = "close"
           \/ NoMemory /\ pc = "index"
    PROVE  IInv'
<1> DEFINE DiskFine == /\ hdr' \in Header /\ body' \in SUBSET Extent
                       /\ BodyOK(body') /\ HeaderOK(hdr', body')
<1>1. TypeOK
  BY DEF IInv
<1>2. ASSUME NEW how \in {"closed", "aborted", "error", "crashed"},
             Free(how), DiskFine
      PROVE  IInv'
  BY <1>1, <1>2, Freed
<1>3. ASSUME hdr' = hdr, body' = body
      PROVE  DiskFine
  BY <1>3, DiskAsIs DEF disk
<1>4. ASSUME pc \in HeaderWrites, hdr' = NextHeader, body' = body
      PROVE  DiskFine
  BY <1>4, NewHeader
<1>5. ASSUME mode # "closed", pc \in BodyWrites, NEW n \in 0..WriteSize,
             body' = Spared(body, WriteAt, n), hdr' = hdr
      PROVE  DiskFine
  BY <1>5, TornWrite
<1>6. pc \in BodyWrites \cup HeaderWrites => mode # "closed"
  BY DEF IInv, ControlOK, BodyWrites, HeaderWrites
<1> HIDE DEF DiskFine
<1>7. CASE PatchHeader
  <2>1. hdr' = NextHeader /\ body' = body /\ pc \in HeaderWrites
    BY <1>7 DEF PatchHeader, NextHeader, HeaderWrites
  <2> QED
    BY <1>2, <1>4, <1>7, <2>1 DEF PatchHeader
<1>8. CASE Abort
  BY <1>2, <1>3, <1>8 DEF Abort, disk
<1>9. CASE RestoreHeader
  <2>1. hdr' = NextHeader /\ body' = body /\ pc \in HeaderWrites
    BY <1>9 DEF RestoreHeader, NextHeader, HeaderWrites
  <2> QED
    BY <1>2, <1>4, <1>9, <2>1 DEF RestoreHeader
<1>10. CASE Crash
  <2>1. CASE pc \in BodyWrites
    BY <1>2, <1>5, <1>10, <2>1 DEF Crash
  <2>2. CASE pc \notin BodyWrites
    BY <1>2, <1>3, <1>10, <2>2 DEF Crash
  <2> QED
    BY <2>1, <2>2
<1>11. CASE LastWriteFails
  <2>1. DiskFine
    BY <1>3, <1>4, <1>5, <1>6, <1>11 DEF LastWriteFails
  <2> QED
    BY <1>2, <1>11, <2>1 DEF LastWriteFails
<1>12. CASE HookFails /\ req.call = "close"
  BY <1>2, <1>3, <1>12 DEF HookFails, disk
<1>13. CASE NoMemory /\ pc = "index"
  BY <1>2, <1>3, <1>13 DEF NoMemory, disk
<1> QED
  BY <1>7, <1>8, <1>9, <1>10, <1>11, <1>12, <1>13

-----------------------------------------------------------------------------
(* Steps that write nothing.                                               *)

\* The request a call hands to v2_make_room.
ValidRequest(r) ==
    /\ r \in Request
    /\ r.call \in {"write", "widen", "close"}
    /\ r.call # "close" => r.payload \in Payload
    /\ r.call = "widen" => mode = "widen" /\ r.rg \in DOMAIN groups
    /\ r.call = "write" => mode # "widen" /\ Len(cur_cols) < MaxCols

\* A call that has its room, before or after a move, starts to write.
LEMMA RoomMade ==
    ASSUME IInv, mode # "closed", ~ failed,
           pc \notin {"open_schema", "undo_index", "undo_header"},
           ValidRequest(req'), Fits(NeedOf(req')),
           pc' = AfterRoom(req'.call), io' = write_pos,
           UNCHANGED <<disk, session, write_pos, live_index_off, moves, openrg,
                       staged, failed, ended, history>>
    PROVE  IInv'
<1> DEFINE r == req'
<1>1. /\ hdr' = hdr /\ body' = body /\ mode' = mode
      /\ BodyOK(body)' /\ HeaderOK(hdr, body)' /\ FoundOK'
  BY SameDisk DEF disk, session
<1>2. /\ schema_cols' = schema_cols /\ orig_hdr' = orig_hdr
      /\ orig_groups' = orig_groups /\ reuse_start' = reuse_start
      /\ write_pos' = write_pos /\ live_index_off' = live_index_off
      /\ groups' = groups /\ cur_cols' = cur_cols /\ cur_stats' = cur_stats
      /\ any_stats' = any_stats /\ failed' = failed /\ moves' = moves
  BY DEF session, openrg, staged
<1>3. TypeOK'
  <2>1. pc' \in Steps
    BY DEF AfterRoom, Steps
  <2>2. io' \in Nat /\ req' \in Request
    BY DEF IInv, TypeOK, ValidRequest
  <2>3. TypeOK
    BY DEF IInv
  <2> QED
    BY <1>1, <1>2, <2>1, <2>2, <2>3
       DEF TypeOK, session, openrg, staged, history
<1>4. /\ pc' \in {"append", "schema", "index", "patch"}
      /\ pc' = "append" <=> r.call \in {"write", "widen"}
      /\ pc' = "schema" => mode = "widen"
      /\ pc' \in {"index", "patch"} => ~ (mode = "widen" /\ schema_cols # 0)
      /\ pc' = "patch" => groups = <<>>
  <2>1. CASE r.call \in {"write", "widen"}
    <3>1. pc' = "append"
      BY <2>1 DEF AfterRoom
    <3> QED
      BY <2>1, <3>1
  <2>2. CASE r.call = "close"
    <3>1. mode = "widen" /\ schema_cols # 0 => pc' = "schema"
      BY <2>2 DEF AfterRoom
    <3>2. ~ (mode = "widen" /\ schema_cols # 0) =>
             pc' = IF groups # <<>> THEN "index" ELSE "patch"
      BY <2>2 DEF AfterRoom
    <3> QED
      BY <2>2, <3>1, <3>2
  <2> QED
    BY <2>1, <2>2 DEF ValidRequest
<1>5. mode = "widen" => pc' \notin {"index", "patch"}
  BY <1>4 DEF IInv, SchemaOK, Reopened
<1>6. ControlOK'
  BY <1>1, <1>2, <1>4 DEF IInv, ControlOK, Reopened, ValidRequest, TypeOK
<1>7. StagedOK'
  <2>1. /\ BlocksLive(groups, body, write_pos)
        /\ ColsLive(cur_cols, body, write_pos)
        /\ IndexParses(groups, any_stats)
        /\ cur_stats # <<>> => any_stats
    BY DEF IInv, StagedOK
  <2> QED
    BY <1>1, <1>2, <1>4, <2>1 DEF StagedOK
<1>8. CreateOK'
  BY <1>1, <1>2, <1>4 DEF IInv, CreateOK
<1>9. CursorOK'
  <2>1. CASE Reopened
    <3>1. /\ reuse_start <= write_pos /\ reuse_start <= live_index_off
          /\ live_index_off <= hdr.idx_off /\ live_index_off = hdr.idx_off
      BY <2>1 DEF IInv, CursorOK
    <3>2. write_pos + NeedOf(r) <= live_index_off
      BY <2>1 DEF Fits, Reopened
    <3>3. pc' = "append" => NeedOf(r) = RecordSize[r.payload]
      BY <1>4 DEF NeedOf
    <3>4. pc' # "append" => r.call = "close"
      BY <1>4 DEF ValidRequest
    <3>5. pc' = "schema" =>
             NeedOf(r) = SizeOfIndex(groups) + SizeOfSchema(schema_cols)
      BY <1>4, <3>4 DEF NeedOf
    <3>6. pc' = "index" => NeedOf(r) = SizeOfIndex(groups)
      BY <1>4, <1>5, <2>1, <3>4, SizeOfIndexType DEF NeedOf, IInv, TypeOK
    <3>7. /\ write_pos \in Nat /\ SizeOfIndex(groups) \in Nat
          /\ SizeOfSchema(schema_cols) \in Nat
      BY SizeOfIndexType, SizeOfSchemaType DEF IInv, TypeOK
    <3>8. pc' = "schema" =>
             write_pos + SizeOfSchema(schema_cols) + SizeOfIndex(groups)
                = write_pos + NeedOf(r)
      BY <3>5, <3>7
    <3> QED
      BY <1>1, <1>2, <1>4, <3>1, <3>2, <3>3, <3>6, <3>8 DEF CursorOK
  <2>2. CASE ~ Reopened
    BY <1>1, <2>2 DEF CursorOK, Reopened
  <2> QED
    BY <2>1, <2>2
<1>10. SchemaOK'
  BY <1>1, <1>2, <1>5 DEF IInv, SchemaOK, Reopened
<1> QED
  BY <1>1, <1>3, <1>6, <1>7, <1>8, <1>9, <1>10 DEF IInv

\* A call that does not have its room moves the index first.
LEMMA RoomMissing ==
    ASSUME IInv, mode # "closed", ~ failed, pc = "idle",
           ValidRequest(req'), ~ Fits(NeedOf(req')), pc' = "copy",
           UNCHANGED <<disk, session, cursor, openrg, staged, failed, ended,
                       history>>
    PROVE  IInv'
<1>1. /\ hdr' = hdr /\ body' = body /\ mode' = mode
      /\ BodyOK(body)' /\ HeaderOK(hdr, body)' /\ FoundOK'
  BY SameDisk DEF disk, session, cursor
<1>2. /\ schema_cols' = schema_cols /\ orig_hdr' = orig_hdr
      /\ orig_groups' = orig_groups /\ reuse_start' = reuse_start
      /\ write_pos' = write_pos /\ live_index_off' = live_index_off
      /\ groups' = groups /\ cur_cols' = cur_cols /\ cur_stats' = cur_stats
      /\ any_stats' = any_stats /\ failed' = failed /\ io' = io
      /\ moves' = moves
  BY DEF session, openrg, staged, cursor
<1>3. Reopened
  BY DEF Fits, IInv, TypeOK, Reopened
<1>4. TypeOK'
  BY <1>1, <1>2
     DEF IInv, TypeOK, session, openrg, staged, history, ValidRequest, Steps
<1>5. ControlOK'
  BY <1>1, <1>2, <1>3 DEF IInv, ControlOK, Reopened, ValidRequest
<1>6. StagedOK'
  <2>1. /\ BlocksLive(groups, body, write_pos)
        /\ ColsLive(cur_cols, body, write_pos)
        /\ IndexParses(groups, any_stats)
        /\ cur_stats # <<>> => any_stats
    BY DEF IInv, StagedOK
  <2> QED
    BY <1>1, <1>2, <2>1 DEF StagedOK, AtCursor
<1>7. CreateOK'
  BY <1>1, <1>3 DEF CreateOK, Reopened
<1>8. CursorOK'
  BY <1>1, <1>2, <1>3 DEF IInv, CursorOK
<1>9. SchemaOK'
  BY <1>1, <1>2 DEF IInv, SchemaOK, Reopened
<1> QED
  BY <1>1, <1>4, <1>5, <1>6, <1>7, <1>8, <1>9 DEF IInv

LEMMA BeginStep ==
    ASSUME IInv, CanCall, NEW r, ValidRequest(r), Begin(r)
    PROVE  IInv'
<1>1. /\ pc = "idle" /\ mode # "closed" /\ ~ failed
      /\ req' = r /\ pc' = FirstStep(r)
      /\ UNCHANGED <<disk, session, cursor, openrg, staged, failed, ended,
                     history>>
  BY DEF CanCall, Begin
<1>2. io' = io /\ io = write_pos
  BY <1>1 DEF IInv, StagedOK, cursor
<1>3. ValidRequest(req')
  BY <1>1
<1>4. CASE Fits(NeedOf(r))
  <2>1. pc' = AfterRoom(req'.call) /\ Fits(NeedOf(req'))
    BY <1>1, <1>4 DEF FirstStep
  <2>2. /\ io' = write_pos
        /\ UNCHANGED <<disk, session, write_pos, live_index_off, moves, openrg,
                       staged, failed, ended, history>>
    BY <1>1, <1>2 DEF cursor
  <2> QED
    BY <1>1, <1>3, <2>1, <2>2, RoomMade
<1>5. CASE ~ Fits(NeedOf(r))
  <2>1. pc' = "copy" /\ ~ Fits(NeedOf(req'))
    BY <1>1, <1>5 DEF FirstStep
  <2> QED
    BY <1>1, <1>3, <2>1, RoomMissing
<1> QED
  BY <1>4, <1>5

LEMMA CallSteps ==
    ASSUME IInv,
           \/ \E p \in Payload : WriteBlock(p)
           \/ \E p \in Payload, g \in DOMAIN groups, s \in BOOLEAN :
                 WidenBlock(p, g, s)
           \/ Close
    PROVE  IInv'
<1>1. ASSUME NEW p \in Payload, WriteBlock(p)
      PROVE  IInv'
  <2> DEFINE r == [NoRequest EXCEPT !.call = "write", !.payload = p]
  <2>1. CanCall /\ mode # "widen" /\ Len(cur_cols) < MaxCols /\ Begin(r)
    BY <1>1 DEF WriteBlock
  <2>2. r \in Request /\ r.call = "write" /\ r.payload = p
    BY DEF NoRequest, Request
  <2>3. ValidRequest(r)
    BY <2>1, <2>2 DEF ValidRequest
  <2> HIDE DEF r
  <2> QED
    BY <2>1, <2>3, BeginStep
<1>2. ASSUME NEW p \in Payload, NEW g \in DOMAIN groups, NEW s \in BOOLEAN,
             WidenBlock(p, g, s)
      PROVE  IInv'
  <2> DEFINE r == [call |-> "widen", payload |-> p, rg |-> g, with_stats |-> s]
  <2>1. CanCall /\ mode = "widen" /\ Begin(r)
    BY <1>2 DEF WidenBlock
  <2>2. g \in Nat
    BY DEF IInv, TypeOK
  <2>3. r \in Request /\ r.call = "widen" /\ r.payload = p /\ r.rg = g
    BY <2>2 DEF Request
  <2>4. ValidRequest(r)
    BY <2>1, <2>3 DEF ValidRequest
  <2> HIDE DEF r
  <2> QED
    BY <2>1, <2>4, BeginStep
<1>3. CASE Close
  <2> DEFINE r == [NoRequest EXCEPT !.call = "close"]
  <2>1. CanCall /\ Begin(r)
    BY <1>3 DEF Close
  <2>2. r \in Request /\ r.call = "close"
    BY DEF NoRequest, Request
  <2>3. ValidRequest(r)
    BY <2>2 DEF ValidRequest
  <2> HIDE DEF r
  <2> QED
    BY <2>1, <2>3, BeginStep
<1> QED
  BY <1>1, <1>2, <1>3

LEMMA HookStep ==
    ASSUME IInv, HookReturns
    PROVE  IInv'
<1>1. /\ pc = "hook" /\ io' = write_pos /\ pc' = AfterRoom(req'.call)
      /\ req' = req
      /\ UNCHANGED <<disk, session, write_pos, live_index_off, moves, openrg,
                     staged, failed, ended, history>>
  BY DEF HookReturns
<1>2. mode # "closed" /\ ~ failed /\ Reopened
  BY <1>1 DEF IInv, ControlOK, TypeOK, Reopened
<1>3. ValidRequest(req')
  BY <1>1 DEF IInv, ControlOK, ValidRequest, TypeOK
<1>4. Fits(NeedOf(req'))
  BY <1>1, <1>2 DEF IInv, CursorOK, Need, Fits
<1> QED
  BY <1>1, <1>2, <1>3, <1>4, RoomMade

-----------------------------------------------------------------------------
(* Steps that write into the body.                                         *)

\* What any whole write at the cursor does to the disk.
LEMMA CursorWrite ==
    ASSUME IInv, pc \in AtCursor, NEW x \in Extent,
           x.at = io, x.size = WriteSize, x.size > 0,
           x.kind = "schema" => x.size = SizeOfSchema(x.id),
           x.kind = "block" => x.id \in Payload,
           body' = Put(body, x), UNCHANGED <<hdr, session, moves>>
    PROVE  /\ mode # "closed" /\ ~ failed /\ io = write_pos
           /\ body' \in SUBSET Extent /\ x \in body'
           /\ Spared(body, x.at, x.size) \subseteq body'
           /\ hdr' = hdr /\ mode' = mode
           /\ BodyOK(body)' /\ HeaderOK(hdr, body)' /\ FoundOK'
           /\ BlocksLive(groups, body', write_pos)
           /\ ColsLive(cur_cols, body', write_pos)
           /\ mode = "create" /\ schema_cols # 0 =>
                 \E e \in body' : /\ e.kind = "schema"
                                  /\ e.at = HeaderSize
                                  /\ e.size = SizeOfSchema(schema_cols)
<1>1. /\ mode # "closed" /\ ~ failed /\ io = write_pos
      /\ pc \in BodyWrites /\ pc # "open_schema" /\ pc # "undo_index"
      /\ pc # "copy" /\ pc # "undo_header"
  BY DEF IInv, ControlOK, StagedOK, AtCursor, BodyWrites
<1>2. body \in SUBSET Extent /\ BodyOK(body) /\ io \in Nat
  BY DEF IInv, TypeOK
<1>3. x.at \in Nat /\ x.size \in Nat
  BY DEF Extent
<1>4. /\ body' \in SUBSET Extent /\ BodyOK(body') /\ x \in body'
      /\ Spared(body, x.at, x.size) \subseteq body'
  BY <1>2, PutBody
<1>5. x.at = WriteAt
  BY <1>1 DEF WriteAt
<1>6. Reopened => /\ reuse_start <= x.at
                  /\ \/ x.at + x.size <= hdr.idx_off
                     \/ hdr.idx_off + hdr.idx_size <= x.at
  BY <1>1, <1>5, WriteRegion
<1>7. /\ hdr' = hdr /\ mode' = mode
      /\ BodyOK(body)' /\ HeaderOK(hdr, body)' /\ FoundOK'
  BY <1>1, <1>3, <1>4, <1>6, BodyStep
<1>8. write_pos <= x.at
  BY <1>1, <1>2
<1>9. /\ BlocksLive(groups, body', write_pos)
      /\ ColsLive(cur_cols, body', write_pos)
  BY <1>1, <1>3, <1>4, <1>8, StagedKept
<1>10. mode = "create" /\ schema_cols # 0 =>
          \E e \in body' : /\ e.kind = "schema"
                           /\ e.at = HeaderSize
                           /\ e.size = SizeOfSchema(schema_cols)
  BY <1>1, <1>3, <1>4, <1>8, CreateKept
<1> QED
  BY <1>1, <1>4, <1>7, <1>9, <1>10

LEMMA SchemaExtentType ==
    ASSUME NEW at, NEW n, at \in Nat, n \in Nat, n # 0
    PROVE  /\ SchemaExtent(at, n) \in Extent
           /\ SchemaExtent(at, n).at = at
           /\ SchemaExtent(at, n).size = SizeOfSchema(n)
           /\ SchemaExtent(at, n).size > 0
           /\ SchemaExtent(at, n).kind = "schema"
           /\ SchemaExtent(at, n).id = n
<1>1. SizeOfSchema(n) \in Nat /\ SizeOfSchema(n) > 0
  BY SizeOfSchemaType
<1> QED
  BY <1>1 DEF SchemaExtent, Extent

LEMMA IndexExtentType ==
    ASSUME NEW at, NEW gs, at \in Nat, gs \in Seq(Group)
    PROVE  /\ IndexExtent(at, gs) \in Extent
           /\ IndexExtent(at, gs).at = at
           /\ IndexExtent(at, gs).size = SizeOfIndex(gs)
           /\ IndexExtent(at, gs).kind = "index"
           /\ IndexExtent(at, gs).groups = gs
<1>1. SizeOfIndex(gs) \in Nat
  BY SizeOfIndexType
<1> QED
  BY <1>1 DEF IndexExtent, Extent

\* A copy of an index is as long as the one it copies.
LEMMA IndexCopyType ==
    ASSUME NEW at, NEW gs, NEW size,
           at \in Nat, gs \in Seq(Group), size \in Nat
    PROVE  /\ [IndexExtent(at, gs) EXCEPT !.size = size] \in Extent
           /\ [IndexExtent(at, gs) EXCEPT !.size = size].at = at
           /\ [IndexExtent(at, gs) EXCEPT !.size = size].size = size
           /\ [IndexExtent(at, gs) EXCEPT !.size = size].kind = "index"
           /\ [IndexExtent(at, gs) EXCEPT !.size = size].groups = gs
<1>1. SizeOfIndex(gs) \in Nat
  BY SizeOfIndexType
<1> QED
  BY <1>1 DEF IndexExtent, Extent

LEMMA BlockExtentType ==
    ASSUME NEW at, NEW p, at \in Nat, p \in Payload
    PROVE  /\ BlockExtent(at, p) \in Extent
           /\ BlockExtent(at, p).at = at
           /\ BlockExtent(at, p).size = RecordSize[p]
           /\ BlockExtent(at, p).size > 0
           /\ BlockExtent(at, p).kind = "block"
           /\ BlockExtent(at, p).id = p
           /\ RecordSize[p] \in Nat /\ RecordSize[p] > 0
<1>1. RecordSize[p] \in Nat /\ RecordSize[p] > 0 /\ p \in Nat
  BY SizesAssumption
<1> QED
  BY <1>1 DEF BlockExtent, Extent

LEMMA OpenSchemaStep ==
    ASSUME IInv, WriteOpenSchema
    PROVE  IInv'
<1> DEFINE x == SchemaExtent(io, schema_cols)
<1>1. /\ pc = "open_schema" /\ pc' = "idle"
      /\ body' = Put(body, x) /\ io' = io + SizeOfSchema(schema_cols)
      /\ write_pos' = write_pos + SizeOfSchema(schema_cols)
      /\ UNCHANGED <<hdr, session, live_index_off, moves, openrg, staged,
                     req, failed, ended, history>>
  BY DEF WriteOpenSchema
<1>2. mode = "create" /\ ~ failed
  BY <1>1 DEF IInv, ControlOK, TypeOK, Reopened
<1>3. /\ io = HeaderSize /\ write_pos = HeaderSize /\ schema_cols # 0
      /\ groups = <<>> /\ cur_cols = <<>>
  BY <1>1, <1>2 DEF IInv, CreateOK
<1>4. /\ io \in Nat /\ schema_cols \in Nat /\ write_pos \in Nat
      /\ SizeOfSchema(schema_cols) \in Nat
  BY SizeOfSchemaType DEF IInv, TypeOK
<1>5. /\ x \in Extent /\ x.at = io /\ x.size = SizeOfSchema(schema_cols)
      /\ x.size > 0 /\ x.kind = "schema" /\ x.id = schema_cols
  BY <1>3, <1>4, SchemaExtentType
<1> HIDE DEF x
<1>6. /\ body' \in SUBSET Extent /\ BodyOK(body') /\ x \in body'
      /\ Spared(body, x.at, x.size) \subseteq body'
  BY <1>1, <1>5, PutBody DEF IInv, TypeOK
<1>7. /\ hdr' = hdr /\ mode' = mode
      /\ BodyOK(body)' /\ HeaderOK(hdr, body)' /\ FoundOK'
  <2>1. x.at \in Nat /\ x.size \in Nat /\ ~ Reopened /\ mode # "closed"
    BY <1>2, <1>4, <1>5 DEF Reopened
  <2> QED
    BY <1>1, <1>6, <2>1, BodyStep
<1>8. /\ schema_cols' = schema_cols /\ groups' = groups
      /\ cur_cols' = cur_cols /\ cur_stats' = cur_stats
      /\ any_stats' = any_stats /\ failed' = failed
  BY <1>1 DEF session, openrg, staged
<1>9. io' \in Nat /\ write_pos' \in Nat /\ io' = write_pos'
  BY <1>1, <1>3, <1>4
<1>10. TypeOK'
  <2>1. TypeOK
    BY DEF IInv
  <2> QED
    BY <1>1, <1>6, <1>7, <1>8, <1>9, <2>1
       DEF TypeOK, session, openrg, staged, history, Steps
<1>11. ControlOK'
  BY <1>1, <1>2, <1>7, <1>8 DEF IInv, ControlOK, Reopened
<1>12. StagedOK'
  BY <1>1, <1>2, <1>3, <1>8, <1>9
     DEF IInv, StagedOK, BlocksLive, ColsLive, IndexParses
<1>13. CreateOK'
  BY <1>1, <1>2, <1>3, <1>4, <1>5, <1>6, <1>7, <1>8, SizesAssumption
     DEF IInv, CreateOK
<1>14. CursorOK' /\ SchemaOK'
  BY <1>2, <1>7 DEF CursorOK, SchemaOK, Reopened
<1> QED
  BY <1>7, <1>10, <1>11, <1>12, <1>13, <1>14 DEF IInv

LEMMA TailSchemaStep ==
    ASSUME IInv, WriteTailSchema
    PROVE  IInv'
<1> DEFINE x == SchemaExtent(io, schema_cols)
<1>1. /\ pc = "schema" /\ pc' = IF groups # <<>> THEN "index" ELSE "patch"
      /\ body' = Put(body, x) /\ io' = io + SizeOfSchema(schema_cols)
      /\ write_pos' = write_pos + SizeOfSchema(schema_cols)
      /\ UNCHANGED <<hdr, session, live_index_off, moves, openrg, staged,
                     req, failed, ended, history>>
  BY DEF WriteTailSchema
<1>2. mode = "widen" /\ Reopened
  BY <1>1 DEF IInv, ControlOK, Reopened
<1>3. /\ io \in Nat /\ schema_cols \in Nat /\ write_pos \in Nat
      /\ SizeOfSchema(schema_cols) \in Nat /\ schema_cols # 0
      /\ SizeOfIndex(groups) \in Nat
  BY <1>2, SizeOfSchemaType, SizeOfIndexType DEF IInv, TypeOK, SchemaOK
<1>4. /\ x \in Extent /\ x.at = io /\ x.size = SizeOfSchema(schema_cols)
      /\ x.size > 0 /\ x.kind = "schema" /\ x.id = schema_cols
  BY <1>3, SchemaExtentType
<1> HIDE DEF x
<1>5. x.size = WriteSize /\ pc \in AtCursor
  BY <1>1, <1>4 DEF WriteSize, AtCursor
<1>6. /\ ~ failed /\ io = write_pos /\ body' \in SUBSET Extent /\ x \in body'
      /\ hdr' = hdr /\ mode' = mode
      /\ BodyOK(body)' /\ HeaderOK(hdr, body)' /\ FoundOK'
      /\ BlocksLive(groups, body', write_pos)
      /\ ColsLive(cur_cols, body', write_pos)
  BY <1>1, <1>4, <1>5, CursorWrite
<1>7. /\ schema_cols' = schema_cols /\ groups' = groups
      /\ cur_cols' = cur_cols /\ cur_stats' = cur_stats
      /\ any_stats' = any_stats /\ failed' = failed
      /\ live_index_off' = live_index_off /\ reuse_start' = reuse_start
      /\ orig_hdr' = orig_hdr
  BY <1>1 DEF session, openrg, staged
<1>8. io' \in Nat /\ write_pos' \in Nat /\ io' = write_pos'
      /\ write_pos <= write_pos'
  BY <1>1, <1>3, <1>6
<1>9. TypeOK'
  <2>1. TypeOK
    BY DEF IInv
  <2> QED
    BY <1>1, <1>6, <1>7, <1>8, <2>1
       DEF TypeOK, session, openrg, staged, history, Steps
<1>10. ControlOK'
  BY <1>1, <1>2, <1>6, <1>7 DEF IInv, ControlOK, Reopened
<1>11. StagedOK'
  <2>1. /\ BlocksLive(groups, body', write_pos')
        /\ ColsLive(cur_cols, body', write_pos')
    BY <1>3, <1>6, <1>8, BlocksLater, ColsLater DEF IInv, TypeOK
  <2>2. IndexParses(groups, any_stats) /\ (cur_stats # <<>> => any_stats)
    BY <1>1, <1>6 DEF IInv, StagedOK
  <2>3. pc' = "patch" => groups = <<>>
    BY <1>1
  <2> QED
    BY <1>7, <1>8, <2>1, <2>2, <2>3 DEF StagedOK
<1>12. CreateOK'
  BY <1>2, <1>6 DEF CreateOK
<1>13. CursorOK'
  <2>1. /\ reuse_start <= write_pos /\ reuse_start <= live_index_off
        /\ live_index_off <= hdr.idx_off /\ live_index_off = hdr.idx_off
        /\ write_pos + SizeOfSchema(schema_cols) + SizeOfIndex(groups)
              <= live_index_off
    BY <1>1, <1>2, <1>6 DEF IInv, CursorOK
  <2>2. reuse_start <= write_pos'
    BY <1>2, <1>3, <1>8, <2>1, HeaderFields
  <2>3. pc' \in {"index", "patch"}
    BY <1>1
  <2> QED
    BY <1>1, <1>6, <1>7, <2>1, <2>2, <2>3 DEF CursorOK
<1>14. SchemaOK'
  <2>1. x.at + x.size = write_pos' /\ x.at >= reuse_start
    BY <1>1, <1>2, <1>4, <1>6 DEF IInv, CursorOK
  <2> QED
    BY <1>2, <1>3, <1>4, <1>6, <1>7, <2>1 DEF SchemaOK
<1> QED
  BY <1>6, <1>9, <1>10, <1>11, <1>12, <1>13, <1>14 DEF IInv

LEMMA IndexStep ==
    ASSUME IInv, WriteIndex
    PROVE  IInv'
<1> DEFINE x == IndexExtent(io, groups)
<1>1. /\ pc = "index" /\ pc' = "patch"
      /\ body' = Put(body, x) /\ io' = io + SizeOfIndex(groups)
      /\ UNCHANGED <<hdr, session, write_pos, live_index_off, moves, openrg,
                     staged, req, failed, ended, history>>
  BY DEF WriteIndex
<1>2. /\ io \in Nat /\ groups \in Seq(Group) /\ write_pos \in Nat
      /\ SizeOfIndex(groups) \in Nat /\ SizeOfIndex(groups) > 0
  BY SizeOfIndexType DEF IInv, TypeOK
<1>3. /\ x \in Extent /\ x.at = io /\ x.size = SizeOfIndex(groups)
      /\ x.kind = "index" /\ x.groups = groups
  BY <1>2, IndexExtentType
<1> HIDE DEF x
<1>4. x.size = WriteSize /\ pc \in AtCursor
  BY <1>1, <1>3 DEF WriteSize, AtCursor
<1>5. /\ mode # "closed" /\ ~ failed /\ io = write_pos
      /\ body' \in SUBSET Extent /\ x \in body'
      /\ Spared(body, x.at, x.size) \subseteq body'
      /\ hdr' = hdr /\ mode' = mode
      /\ BodyOK(body)' /\ HeaderOK(hdr, body)' /\ FoundOK'
      /\ BlocksLive(groups, body', write_pos)
      /\ ColsLive(cur_cols, body', write_pos)
      /\ mode = "create" /\ schema_cols # 0 =>
            \E e \in body' : /\ e.kind = "schema"
                             /\ e.at = HeaderSize
                             /\ e.size = SizeOfSchema(schema_cols)
  BY <1>1, <1>2, <1>3, <1>4, CursorWrite
<1>6. /\ schema_cols' = schema_cols /\ groups' = groups
      /\ cur_cols' = cur_cols /\ cur_stats' = cur_stats
      /\ any_stats' = any_stats /\ failed' = failed
      /\ live_index_off' = live_index_off /\ reuse_start' = reuse_start
      /\ orig_hdr' = orig_hdr /\ write_pos' = write_pos
  BY <1>1 DEF session, openrg, staged
<1>7. TypeOK'
  <2>1. TypeOK /\ io' \in Nat
    BY <1>1, <1>2 DEF IInv
  <2> QED
    BY <1>1, <1>5, <1>6, <2>1
       DEF TypeOK, session, openrg, staged, history, Steps
<1>8. ControlOK'
  BY <1>1, <1>5, <1>6 DEF IInv, ControlOK, Reopened
<1>9. StagedOK'
  <2>1. IndexParses(groups, any_stats) /\ (cur_stats # <<>> => any_stats)
    BY <1>1, <1>5 DEF IInv, StagedOK
  <2> QED
    BY <1>1, <1>3, <1>5, <1>6, <2>1 DEF StagedOK, AtCursor
<1>10. CreateOK'
  BY <1>1, <1>5, <1>6 DEF IInv, CreateOK
<1>11. CursorOK'
  BY <1>1, <1>5, <1>6 DEF IInv, CursorOK, Reopened
<1>12. SchemaOK'
  <2>1. CASE mode = "widen"
    <3>1. PICK e \in body : /\ e.kind = "schema"
                            /\ e.at + e.size = write_pos
                            /\ e.size = SizeOfSchema(schema_cols)
                            /\ e.at >= reuse_start
      BY <1>1, <2>1 DEF IInv, SchemaOK, Reopened
    <3>2. e \in body'
      BY <1>2, <1>3, <1>5, <3>1 DEF Spared
    <3> QED
      BY <1>5, <1>6, <2>1, <3>1, <3>2 DEF IInv, SchemaOK, Reopened
  <2>2. CASE mode # "widen"
    BY <1>5, <1>6, <2>2 DEF IInv, SchemaOK, Reopened
  <2> QED
    BY <2>1, <2>2
<1> QED
  BY <1>5, <1>7, <1>8, <1>9, <1>10, <1>11, <1>12 DEF IInv

LEMMA ColsAppend ==
    ASSUME NEW b, NEW cols \in Seq(Col), NEW c, c \in Col, NEW n,
           ColsLive(cols, b, n), BlocksAt(c, b) # {}, c.off + c.total <= n
    PROVE  ColsLive(Append(cols, c), b, n)
<1> SUFFICES ASSUME NEW i \in DOMAIN Append(cols, c)
             PROVE  /\ BlocksAt(Append(cols, c)[i], b) # {}
                    /\ Append(cols, c)[i].off + Append(cols, c)[i].total <= n
  BY DEF ColsLive
<1>1. CASE i = Len(cols) + 1
  <2>1. Append(cols, c)[i] = c
    BY <1>1
  <2> QED
    BY <2>1
<1>2. CASE i # Len(cols) + 1
  <2>1. i \in DOMAIN cols /\ Append(cols, c)[i] = cols[i]
    BY <1>2
  <2> QED
    BY <2>1 DEF ColsLive
<1> QED
  BY <1>1, <1>2

LEMMA GroupAppendStep ==
    ASSUME IInv, AppendToGroup
    PROVE  IInv'
<1> DEFINE x == BlockExtent(io, req.payload)
<1>1. /\ pc = "append" /\ req.call = "write" /\ pc' = "idle"
      /\ cur_group_offset' = OpenGroupOffset
      /\ cur_cols' = Append(cur_cols, Pending)
      /\ want' = [want EXCEPT !.open = Append(@, req.payload)]
      /\ body' = Put(body, x) /\ io' = io + RecordSize[req.payload]
      /\ write_pos' = write_pos + RecordSize[req.payload]
      /\ n_blocks' = n_blocks + 1 /\ req' = NoRequest
      /\ UNCHANGED <<hdr, session, live_index_off, moves, cur_stats, failed,
                     ended, passes, groups, any_stats>>
  BY DEF AppendToGroup, Advance
<1>2. /\ io \in Nat /\ write_pos \in Nat /\ req.payload \in Payload
      /\ cur_cols \in Seq(Col) /\ groups \in Seq(Group)
      /\ mode # "widen" /\ Len(cur_cols) < MaxCols
  BY <1>1 DEF IInv, TypeOK, ControlOK
<1>3. /\ x \in Extent /\ x.at = io /\ x.size = RecordSize[req.payload]
      /\ x.size > 0 /\ x.kind = "block" /\ x.id = req.payload
      /\ RecordSize[req.payload] \in Nat
  BY <1>2, BlockExtentType
<1> HIDE DEF x
<1>4. x.size = WriteSize /\ pc \in AtCursor
  BY <1>1, <1>3 DEF WriteSize, AtCursor
<1>5. /\ mode # "closed" /\ ~ failed /\ io = write_pos
      /\ body' \in SUBSET Extent /\ x \in body'
      /\ hdr' = hdr /\ mode' = mode
      /\ BodyOK(body)' /\ HeaderOK(hdr, body)' /\ FoundOK'
      /\ BlocksLive(groups, body', write_pos)
      /\ ColsLive(cur_cols, body', write_pos)
      /\ mode = "create" /\ schema_cols # 0 =>
            \E e \in body' : /\ e.kind = "schema"
                             /\ e.at = HeaderSize
                             /\ e.size = SizeOfSchema(schema_cols)
  BY <1>1, <1>2, <1>3, <1>4, CursorWrite
<1>6. /\ schema_cols' = schema_cols /\ groups' = groups
      /\ cur_stats' = cur_stats
      /\ any_stats' = any_stats /\ failed' = failed
      /\ live_index_off' = live_index_off /\ reuse_start' = reuse_start
      /\ orig_hdr' = orig_hdr
  BY <1>1 DEF session
<1>7. /\ io' = write_pos' /\ write_pos' \in Nat /\ write_pos <= write_pos'
  BY <1>1, <1>2, <1>3, <1>5
<1>8. Pending \in Col /\ Pending.off = write_pos
      /\ Pending.total = RecordSize[req.payload]
  BY <1>2, <1>3 DEF Pending, Col
<1>9. cur_cols' \in Seq(Col) /\ Len(cur_cols') = Len(cur_cols) + 1
  BY <1>1, <1>2, <1>8
<1>10. TypeOK'
  <2>1. TypeOK
    BY DEF IInv
  <2>2. cur_group_offset' \in Nat /\ n_blocks' \in Nat
    BY <1>1, <2>1 DEF OpenGroupOffset, TypeOK
  <2>3. NoRequest \in Request
    BY DEF NoRequest, Request
  <2>4. want' \in Staged
    <3>1. want.open \in Seq(Payload) /\ want \in Staged
      BY <2>1 DEF TypeOK, Staged
    <3>2. Append(want.open, req.payload) \in Seq(Payload)
      BY <1>2, <3>1
    <3> QED
      BY <1>1, <3>1, <3>2 DEF Staged
  <2> QED
    BY <1>1, <1>5, <1>6, <1>7, <1>9, <2>1, <2>2, <2>3, <2>4
       DEF TypeOK, session, Steps
<1>11. ControlOK'
  <2>1. Len(cur_cols') <= MaxCols
    BY <1>2, <1>9, BoundsAssumption
  <2> QED
    BY <1>1, <1>5, <1>6, <2>1 DEF IInv, ControlOK, Reopened
<1>12. ColsLive(cur_cols', body', write_pos')
  <2>1. x \in BlocksAt(Pending, body')
    BY <1>3, <1>5, <1>8 DEF BlocksAt
  <2>2. ColsLive(cur_cols, body', write_pos')
    BY <1>2, <1>5, <1>7, ColsLater
  <2>3. Pending.off + Pending.total <= write_pos'
    BY <1>1, <1>2, <1>3, <1>8
  <2> QED
    BY <1>1, <1>2, <1>8, <2>1, <2>2, <2>3, ColsAppend
<1>13. StagedOK'
  <2>1. BlocksLive(groups, body', write_pos')
    BY <1>2, <1>5, <1>7, BlocksLater
  <2>2. IndexParses(groups, any_stats) /\ (cur_stats # <<>> => any_stats)
    BY <1>1, <1>5 DEF IInv, StagedOK
  <2> QED
    BY <1>1, <1>6, <1>7, <1>12, <2>1, <2>2 DEF StagedOK
<1>14. CreateOK'
  <2>1. mode = "create" =>
           /\ ~ Committed(hdr)
           /\ HeaderSize + SizeOfSchema(schema_cols) <= write_pos
    BY <1>1 DEF IInv, CreateOK
  <2>2. SizeOfSchema(schema_cols) \in Nat
    BY SizeOfSchemaType DEF IInv, TypeOK
  <2>3. mode = "create" =>
           HeaderSize + SizeOfSchema(schema_cols) <= write_pos'
    BY <1>2, <1>7, <2>1, <2>2, SizesAssumption
  <2> QED
    BY <1>1, <1>5, <1>6, <2>1, <2>3 DEF CreateOK
<1>15. CursorOK'
  <2>1. CASE Reopened
    <3>1. /\ reuse_start <= write_pos /\ reuse_start <= live_index_off
          /\ live_index_off <= hdr.idx_off /\ live_index_off = hdr.idx_off
      BY <1>5, <2>1 DEF IInv, CursorOK
    <3>2. reuse_start <= write_pos'
      BY <1>2, <1>7, <2>1, <3>1, HeaderFields
    <3> QED
      BY <1>1, <1>5, <1>6, <3>1, <3>2 DEF CursorOK
  <2> QED
    BY <1>5, <2>1 DEF CursorOK, Reopened
<1>16. SchemaOK'
  BY <1>1, <1>5, <1>6 DEF IInv, SchemaOK, Reopened
<1> QED
  BY <1>5, <1>10, <1>11, <1>13, <1>14, <1>15, <1>16 DEF IInv

LEMMA NoStatsType ==
    ASSUME NEW n, n \in Nat
    PROVE  NoStats(n) \in Seq(BOOLEAN)
BY DEF NoStats

LEMMA WidenedStatsType ==
    ASSUME TypeOK, NEW g \in DOMAIN groups, NEW s, s \in BOOLEAN
    PROVE  WidenedStats(g, s) \in Seq(BOOLEAN)
<1>1. groups[g].cols \in Seq(Col) /\ groups[g].stats \in Seq(BOOLEAN)
  BY GroupType DEF TypeOK
<1>2. NoStats(Len(groups[g].cols)) \in Seq(BOOLEAN)
  <2>1. Len(groups[g].cols) \in Nat
    BY <1>1
  <2> QED
    BY <2>1, NoStatsType
<1>3. Append(groups[g].stats, s) \in Seq(BOOLEAN)
  BY <1>1
<1>4. Append(NoStats(Len(groups[g].cols)), TRUE) \in Seq(BOOLEAN)
  BY <1>2
<1>5. <<>> \in Seq(BOOLEAN)
  OBVIOUS
<1> QED
  BY <1>3, <1>4, <1>5 DEF WidenedStats

LEMMA WithColumnType ==
    ASSUME NEW asked, NEW p, NEW s,
           asked.cols \in Seq(Payload), asked.stats \in Seq(BOOLEAN),
           p \in Payload, s \in BOOLEAN
    PROVE  WithColumn(asked, p, s)
              \in [cols : Seq(Payload), stats : Seq(BOOLEAN)]
<1> DEFINE row == IF asked.stats = <<>> THEN NoStats(Len(asked.cols))
                                        ELSE asked.stats
<1>1. row \in Seq(BOOLEAN)
  <2>1. Len(asked.cols) \in Nat
    OBVIOUS
  <2> QED
    BY <2>1, NoStatsType
<1>2. Append(row, s) \in Seq(BOOLEAN)
  BY <1>1
<1>3. Append(asked.cols, p) \in Seq(Payload) /\ <<>> \in Seq(BOOLEAN)
  OBVIOUS
<1> HIDE DEF row
<1> QED
  BY <1>2, <1>3 DEF WithColumn, row

LEMMA ColumnAppendStep ==
    ASSUME IInv, AppendToColumn
    PROVE  IInv'
<1> DEFINE x    == BlockExtent(io, req.payload)
           rg   == req.rg
           grown == [off   |-> groups[rg].off,
                     cols  |-> Append(groups[rg].cols, Pending),
                     stats |-> WidenedStats(rg, req.with_stats)]
<1>1. /\ pc = "append" /\ req.call = "widen" /\ pc' = "idle"
      /\ any_stats' = (any_stats \/ req.with_stats)
      /\ body' = Put(body, x) /\ io' = io + RecordSize[req.payload]
      /\ write_pos' = write_pos + RecordSize[req.payload]
      /\ n_blocks' = n_blocks + 1 /\ req' = NoRequest
      /\ UNCHANGED <<hdr, session, live_index_off, moves, cur_stats, failed,
                     ended, passes, cur_cols, cur_group_offset>>
  BY DEF AppendToColumn, Advance
<1>2. /\ io \in Nat /\ write_pos \in Nat /\ req.payload \in Payload
      /\ cur_cols \in Seq(Col) /\ groups \in Seq(Group) /\ req \in Request
      /\ mode = "widen" /\ rg \in DOMAIN groups /\ Reopened
      /\ req.with_stats \in BOOLEAN /\ any_stats \in BOOLEAN
      /\ cur_stats \in Seq(BOOLEAN)
  BY <1>1 DEF IInv, TypeOK, ControlOK, Reopened, Request
<1>3. /\ x \in Extent /\ x.at = io /\ x.size = RecordSize[req.payload]
      /\ x.size > 0 /\ x.kind = "block" /\ x.id = req.payload
      /\ RecordSize[req.payload] \in Nat
  BY <1>2, BlockExtentType
<1>4. /\ groups[rg].off \in Nat /\ groups[rg].cols \in Seq(Col)
      /\ groups[rg].stats \in Seq(BOOLEAN) /\ groups[rg] \in Group
  BY <1>2, GroupType
<1>5. groups' = [groups EXCEPT ![rg] = grown]
  BY <1>1, <1>4 DEF AppendToColumn, Group
<1> HIDE DEF x
<1>6. x.size = WriteSize /\ pc \in AtCursor
  BY <1>1, <1>3 DEF WriteSize, AtCursor
<1>7. /\ mode # "closed" /\ ~ failed /\ io = write_pos
      /\ body' \in SUBSET Extent /\ x \in body'
      /\ hdr' = hdr /\ mode' = mode
      /\ BodyOK(body)' /\ HeaderOK(hdr, body)' /\ FoundOK'
      /\ BlocksLive(groups, body', write_pos)
      /\ ColsLive(cur_cols, body', write_pos)
  BY <1>1, <1>2, <1>3, <1>6, CursorWrite
<1>8. /\ schema_cols' = schema_cols /\ cur_stats' = cur_stats
      /\ cur_cols' = cur_cols /\ failed' = failed
      /\ live_index_off' = live_index_off /\ reuse_start' = reuse_start
      /\ orig_hdr' = orig_hdr
  BY <1>1 DEF session
<1>9. /\ io' = write_pos' /\ write_pos' \in Nat /\ write_pos <= write_pos'
  BY <1>1, <1>2, <1>3, <1>7
<1>10. Pending \in Col /\ Pending.off = write_pos
       /\ Pending.total = RecordSize[req.payload]
  BY <1>2, <1>3 DEF Pending, Col
<1>11. /\ grown \in Group /\ grown.cols = Append(groups[rg].cols, Pending)
       /\ grown.stats = WidenedStats(rg, req.with_stats)
       /\ grown.cols \in Seq(Col) /\ grown.cols # <<>>
       /\ Len(grown.cols) = Len(groups[rg].cols) + 1
  <2>1. WidenedStats(rg, req.with_stats) \in Seq(BOOLEAN)
    BY <1>2, WidenedStatsType DEF IInv
  <2>2. /\ Append(groups[rg].cols, Pending) \in Seq(Col)
        /\ Append(groups[rg].cols, Pending) # <<>>
        /\ Len(Append(groups[rg].cols, Pending)) = Len(groups[rg].cols) + 1
    BY <1>4, <1>10
  <2> QED
    BY <1>4, <2>1, <2>2 DEF Group
<1>12. ColsLive(grown.cols, body', write_pos')
  <2>1. x \in BlocksAt(Pending, body')
    BY <1>3, <1>7, <1>10 DEF BlocksAt
  <2>2. ColsLive(groups[rg].cols, body', write_pos')
    BY <1>2, <1>4, <1>7, <1>9, ColsLater DEF BlocksLive
  <2>3. Pending.off + Pending.total <= write_pos'
    BY <1>1, <1>2, <1>3, <1>10
  <2>4. ColsLive(Append(groups[rg].cols, Pending), body', write_pos')
    BY <1>4, <1>10, <2>1, <2>2, <2>3, ColsAppend
  <2> QED
    BY <1>11, <2>4
<1> HIDE DEF grown
<1>13. groups' \in Seq(Group) /\ DOMAIN groups' = DOMAIN groups
       /\ \A g \in DOMAIN groups :
             groups'[g] = IF g = rg THEN grown ELSE groups[g]
  BY <1>2, <1>5, <1>11
<1>14. TypeOK'
  <2>1. TypeOK
    BY DEF IInv
  <2>2. n_blocks' \in Nat /\ any_stats' \in BOOLEAN
    BY <1>1, <1>2, <2>1 DEF TypeOK
  <2>3. NoRequest \in Request
    BY DEF NoRequest, Request
  <2>4. want' \in Staged
    <3> DEFINE Kept == [cols : Seq(Payload), stats : Seq(BOOLEAN)]
               asked == want.groups[rg]
               new == WithColumn(asked, req.payload, req.with_stats)
    <3>1. want' = [want EXCEPT !.groups = [want.groups EXCEPT ![rg] = new]]
      BY DEF AppendToColumn
    <3>2. want.groups \in Seq(Kept) /\ want \in Staged
      BY <2>1 DEF TypeOK, Staged
    <3> HIDE DEF Kept, new
    <3>3. CASE rg \in DOMAIN want.groups
      <4>1. asked \in Kept
        BY <3>2, <3>3
      <4>2. asked.cols \in Seq(Payload) /\ asked.stats \in Seq(BOOLEAN)
        BY <4>1 DEF Kept
      <4>3. new \in Kept
        BY <1>2, <4>2, WithColumnType DEF Kept, new
      <4>4. [want.groups EXCEPT ![rg] = new] \in Seq(Kept)
        BY <3>2, <3>3, <4>3
      <4> QED
        BY <3>1, <3>2, <4>4 DEF Staged, Kept
    <3>4. CASE rg \notin DOMAIN want.groups
      <4>1. [want.groups EXCEPT ![rg] = new] = want.groups
        BY <3>2, <3>4
      <4> QED
        BY <3>1, <3>2, <4>1 DEF Staged
    <3> QED
      BY <3>3, <3>4
  <2> QED
    BY <1>1, <1>7, <1>8, <1>9, <1>13, <2>1, <2>2, <2>3, <2>4
       DEF TypeOK, session, Steps
<1>15. ControlOK'
  BY <1>1, <1>2, <1>7, <1>8, <1>13 DEF IInv, ControlOK, Reopened
<1>16. StagedOK'
  <2>1. BlocksLive(groups, body', write_pos')
    BY <1>2, <1>7, <1>9, BlocksLater
  <2>2. BlocksLive(groups', body', write_pos')
    BY <1>12, <1>13, <2>1 DEF BlocksLive
  <2>3. ColsLive(cur_cols, body', write_pos')
    BY <1>2, <1>7, <1>9, ColsLater
  <2>4. IndexParses(groups, any_stats) /\ (cur_stats # <<>> => any_stats)
    BY <1>1, <1>7 DEF IInv, StagedOK
  <2>5. grown.stats # <<>> => groups[rg].stats # <<>> \/ req.with_stats
    BY <1>11 DEF WidenedStats
  <2>6. IndexParses(groups', any_stats')
    <3> SUFFICES ASSUME NEW g \in DOMAIN groups
                 PROVE  /\ groups'[g].cols # <<>>
                        /\ groups'[g].stats # <<>> => any_stats'
      BY <1>13 DEF IndexParses
    <3>1. /\ groups[g].cols # <<>>
          /\ groups[g].stats # <<>> => any_stats
      BY <2>4 DEF IndexParses
    <3>2. CASE g = rg
      BY <1>1, <1>11, <1>13, <2>5, <3>1, <3>2
    <3>3. CASE g # rg
      BY <1>1, <1>13, <3>1, <3>3
    <3> QED
      BY <3>2, <3>3
  <2>7. cur_stats # <<>> => any_stats'
    BY <1>1, <2>4
  <2> QED
    BY <1>1, <1>8, <1>9, <2>2, <2>3, <2>6, <2>7 DEF StagedOK
<1>17. CreateOK'
  BY <1>2, <1>7 DEF CreateOK
<1>18. CursorOK'
  <2>1. /\ reuse_start <= write_pos /\ reuse_start <= live_index_off
        /\ live_index_off <= hdr.idx_off /\ live_index_off = hdr.idx_off
    BY <1>2, <1>7 DEF IInv, CursorOK
  <2>2. reuse_start <= write_pos'
    BY <1>2, <1>9, <2>1, HeaderFields
  <2> QED
    BY <1>1, <1>7, <1>8, <2>1, <2>2 DEF CursorOK
<1>19. SchemaOK'
  BY <1>1, <1>2, <1>7, <1>8 DEF IInv, SchemaOK, Reopened
<1> QED
  BY <1>7, <1>14, <1>15, <1>16, <1>17, <1>18, <1>19 DEF IInv

-----------------------------------------------------------------------------
(* Moving the index, and putting it back.                                  *)

LEMMA CopyStep ==
    ASSUME IInv, CopyIndex
    PROVE  IInv'
<1> DEFINE at == CopyOffset(Need)
           x  == [IndexExtent(at, orig_groups) EXCEPT !.size = orig_hdr.idx_size]
<1>1. /\ pc = "copy" /\ pc' = "repoint" /\ body' = Put(body, x)
      /\ io' = at + orig_hdr.idx_size
      /\ UNCHANGED <<hdr, session, write_pos, live_index_off, moves, openrg,
                     staged, req, failed, ended, history>>
  BY DEF CopyIndex
<1>2. mode # "closed" /\ mode # "create" /\ Reopened /\ ~ failed
  BY <1>1 DEF IInv, ControlOK, TypeOK, Reopened
<1>3. Need \in Nat
  BY <1>1, NeedType
<1>4. /\ orig_hdr.idx_size \in Nat /\ orig_hdr.idx_size > 0
      /\ orig_groups \in Seq(Group) /\ write_pos \in Nat
      /\ body \in SUBSET Extent /\ BodyOK(body)
  BY <1>2, HeaderFields DEF IInv, TypeOK, FoundOK, Header
<1>5. at \in Nat /\ write_pos + Need <= at
  BY <1>2, <1>3, <1>4, CopyRoom, HeaderFields DEF IInv, CursorOK
<1>6. WriteAt = at /\ WriteSize = orig_hdr.idx_size /\ pc \in BodyWrites
  BY <1>1 DEF WriteAt, WriteSize, BodyWrites
<1> HIDE DEF at
<1>7. /\ x \in Extent /\ x.at = at /\ x.size = orig_hdr.idx_size
      /\ x.kind = "index" /\ x.groups = orig_groups
  BY <1>4, <1>5, IndexCopyType
<1> HIDE DEF x
<1>8. /\ body' \in SUBSET Extent /\ BodyOK(body') /\ x \in body'
      /\ Spared(body, at, orig_hdr.idx_size) \subseteq body'
  BY <1>1, <1>4, <1>7, PutBody
<1>9. /\ hdr' = hdr /\ mode' = mode
      /\ BodyOK(body)' /\ HeaderOK(hdr, body)' /\ FoundOK'
  <2>1. /\ reuse_start <= at
        /\ \/ at + orig_hdr.idx_size <= hdr.idx_off
           \/ hdr.idx_off + hdr.idx_size <= at
    BY <1>2, <1>6, WriteRegion
  <2> QED
    BY <1>1, <1>2, <1>4, <1>5, <1>8, <2>1, BodyStep
<1>10. /\ BlocksLive(groups, body', write_pos)
       /\ ColsLive(cur_cols, body', write_pos)
  <2>1. write_pos <= at
    BY <1>3, <1>4, <1>5
  <2> QED
    BY <1>1, <1>2, <1>4, <1>5, <1>8, <2>1, StagedKept
<1>11. /\ schema_cols' = schema_cols /\ groups' = groups
       /\ cur_cols' = cur_cols /\ cur_stats' = cur_stats
       /\ any_stats' = any_stats /\ failed' = failed /\ req' = req
       /\ live_index_off' = live_index_off /\ reuse_start' = reuse_start
       /\ orig_hdr' = orig_hdr /\ orig_groups' = orig_groups
       /\ write_pos' = write_pos
  BY <1>1 DEF session, openrg, staged
<1>12. TypeOK'
  <2>1. TypeOK /\ io' \in Nat
    BY <1>1, <1>4, <1>5 DEF IInv
  <2> QED
    BY <1>1, <1>8, <1>9, <1>11, <2>1
       DEF TypeOK, session, openrg, staged, history, Steps
<1>13. ControlOK'
  BY <1>1, <1>2, <1>9, <1>11 DEF IInv, ControlOK, Reopened
<1>14. StagedOK'
  <2>1. IndexParses(groups, any_stats) /\ (cur_stats # <<>> => any_stats)
    BY <1>1, <1>2 DEF IInv, StagedOK
  <2> QED
    BY <1>1, <1>10, <1>11, <2>1 DEF StagedOK, AtCursor
<1>15. CreateOK'
  BY <1>2, <1>9 DEF CreateOK
<1>16. CopyOffset(Need)' = at
  BY <1>9, <1>11 DEF at, CopyOffset, Need, NeedOf, SizeOfIndex, StatsEntries,
                     ColEntries
<1>17. CursorOK'
  <2>1. x.at = CopyOffset(Need)'
    BY <1>7, <1>16
  <2> QED
    BY <1>1, <1>2, <1>7, <1>8, <1>9, <1>11, <2>1 DEF IInv, CursorOK
<1>18. SchemaOK'
  BY <1>1, <1>2, <1>9, <1>11 DEF IInv, SchemaOK, Reopened
<1> QED
  BY <1>9, <1>12, <1>13, <1>14, <1>15, <1>17, <1>18 DEF IInv

\* The header a repointing writes: what it means for the container found.
LEMMA Repointed ==
    ASSUME IInv, pc = "repoint", hdr' = MovedHeader(CopyOffset(Need)),
           body' = body, UNCHANGED session
    PROVE  /\ Reopened /\ ~ failed
           /\ hdr' \in Header /\ BodyOK(body)' /\ HeaderOK(hdr, body)'
           /\ hdr'.idx_off = CopyOffset(Need) /\ CopyOffset(Need) \in Nat
           /\ write_pos + Need <= CopyOffset(Need) /\ Need \in Nat
           /\ live_index_off + orig_hdr.idx_size <= CopyOffset(Need)
           /\ live_index_off = hdr.idx_off
           /\ FoundOK'
<1> DEFINE at == CopyOffset(Need)
<1>1. Reopened /\ ~ failed
  BY DEF IInv, ControlOK, TypeOK, Reopened
<1>2. Need \in Nat
  BY NeedType
<1>3. /\ at \in Nat /\ write_pos + Need <= at
      /\ live_index_off + orig_hdr.idx_size <= at /\ reuse_start <= at
      /\ live_index_off = hdr.idx_off /\ orig_hdr.idx_size \in Nat
  BY <1>1, <1>2, CopyRoom, HeaderFields DEF IInv, CursorOK, Header
<1>4. hdr' \in Header /\ BodyOK(body)' /\ HeaderOK(hdr, body)'
  BY NewHeader DEF NextHeader, HeaderWrites
<1>5. /\ hdr'.idx_off = at /\ hdr'.idx_size = orig_hdr.idx_size
  BY <1>1, <1>3, MovedFields, HeaderFields
<1>6. IndexLive(hdr', body', orig_groups)
  BY <1>1, <1>5 DEF IInv, CursorOK, IndexLive, IndexesAt
<1>7. /\ orig_hdr' = orig_hdr /\ orig_groups' = orig_groups
      /\ reuse_start' = reuse_start /\ mode' = mode
  BY DEF session
<1>8. hdr' = MovedHeader(hdr.idx_off)'
  <2>1. hdr' = MovedHeader(hdr'.idx_off)
    BY <1>5
  <2> QED
    BY <1>7, <2>1 DEF MovedHeader, SchemaOffset, BlocksStart
<1>9. hdr'.idx_off >= orig_hdr.idx_off + orig_hdr.idx_size
  BY <1>1, <1>3, <1>5, HeaderFields DEF IInv, FoundOK
<1> HIDE DEF at
<1>10. FoundOK'
  BY <1>1, <1>6, <1>7, <1>8, <1>9 DEF IInv, FoundOK, Reopened
<1> QED
  BY <1>1, <1>2, <1>3, <1>4, <1>5, <1>10 DEF at

LEMMA RepointStep ==
    ASSUME IInv, Repoint
    PROVE  IInv'
<1>1. /\ pc = "repoint" /\ pc' = "hook" /\ body' = body
      /\ hdr' = MovedHeader(CopyOffset(Need))
      /\ live_index_off' = CopyOffset(Need)
      /\ moves' = moves + 1 /\ io' = HeaderSize
      /\ UNCHANGED <<session, write_pos, openrg, staged, req, failed, ended,
                     history>>
  BY DEF Repoint
<1>2. /\ Reopened /\ ~ failed
      /\ hdr' \in Header /\ BodyOK(body)' /\ HeaderOK(hdr, body)'
      /\ hdr'.idx_off = CopyOffset(Need) /\ CopyOffset(Need) \in Nat
      /\ write_pos + Need <= CopyOffset(Need) /\ Need \in Nat
      /\ live_index_off + orig_hdr.idx_size <= CopyOffset(Need)
      /\ FoundOK'
  BY <1>1, Repointed
<1>3. /\ mode' = mode /\ schema_cols' = schema_cols /\ groups' = groups
      /\ cur_cols' = cur_cols /\ cur_stats' = cur_stats
      /\ any_stats' = any_stats /\ failed' = failed /\ req' = req
      /\ reuse_start' = reuse_start /\ orig_hdr' = orig_hdr
      /\ write_pos' = write_pos
  BY <1>1 DEF session, openrg, staged
<1>4. TypeOK'
  <2>1. TypeOK
    BY DEF IInv
  <2>2. io' \in Nat /\ moves' \in Nat
    BY <1>1, <2>1, SizesAssumption DEF TypeOK
  <2> QED
    BY <1>1, <1>2, <1>3, <2>1, <2>2
       DEF TypeOK, session, openrg, staged, history, Steps
<1>5. ControlOK'
  BY <1>1, <1>2, <1>3 DEF IInv, ControlOK, Reopened
<1>6. StagedOK'
  BY <1>1, <1>2, <1>3 DEF IInv, StagedOK, AtCursor
<1>7. CreateOK'
  BY <1>2, <1>3 DEF CreateOK, Reopened
<1>8. Need' = Need
  BY <1>3 DEF Need, NeedOf, SizeOfIndex, StatsEntries, ColEntries
<1>9. CursorOK'
  <2>1. /\ reuse_start <= write_pos /\ reuse_start \in Nat
        /\ write_pos \in Nat
    BY <1>2, HeaderFields DEF IInv, CursorOK
  <2>2. reuse_start <= CopyOffset(Need)
    BY <1>2, <2>1
  <2> QED
    BY <1>1, <1>2, <1>3, <1>8, <2>1, <2>2 DEF CursorOK
<1>10. SchemaOK'
  BY <1>1, <1>2, <1>3 DEF IInv, SchemaOK, Reopened
<1> QED
  BY <1>1, <1>2, <1>4, <1>5, <1>6, <1>7, <1>9, <1>10 DEF IInv

LEMMA AbortMovedStep ==
    ASSUME IInv, AbortMoved
    PROVE  IInv'
<1>1. /\ pc = "idle" /\ mode \in {"widen", "extend"} /\ moves > 0
      /\ pc' = "undo_index"
      /\ UNCHANGED <<disk, session, cursor, openrg, staged, req, failed, ended,
                     history>>
  BY DEF AbortMoved
<1>2. /\ hdr' = hdr /\ body' = body /\ mode' = mode
      /\ BodyOK(body)' /\ HeaderOK(hdr, body)' /\ FoundOK'
  BY <1>1, SameDisk DEF cursor
<1>3. /\ schema_cols' = schema_cols /\ orig_hdr' = orig_hdr
      /\ reuse_start' = reuse_start /\ write_pos' = write_pos
      /\ live_index_off' = live_index_off /\ groups' = groups
      /\ cur_cols' = cur_cols /\ failed' = failed
  BY <1>1 DEF session, openrg, staged, cursor
<1>4. TypeOK'
  BY <1>1, <1>2
     DEF IInv, TypeOK, session, cursor, openrg, staged, history, Steps
<1>5. ControlOK'
  BY <1>1, <1>2, <1>3 DEF IInv, ControlOK, Reopened
<1>6. StagedOK' /\ CreateOK'
  BY <1>1, <1>2 DEF StagedOK, CreateOK
<1>7. hdr.idx_off # orig_hdr.idx_off
  <2>1. Reopened
    BY <1>1 DEF Reopened
  <2>2. /\ orig_hdr.idx_size > 0 /\ orig_hdr.idx_size \in Nat
        /\ hdr.idx_off >= orig_hdr.idx_off + orig_hdr.idx_size
    BY <1>1, <2>1, HeaderFields DEF IInv, FoundOK, Header
  <2> QED
    BY <2>1, <2>2, HeaderFields
<1>8. CursorOK'
  BY <1>1, <1>2, <1>3, <1>7 DEF IInv, CursorOK, Reopened
<1>9. SchemaOK'
  BY <1>1, <1>2, <1>3 DEF IInv, SchemaOK, Reopened
<1> QED
  BY <1>2, <1>4, <1>5, <1>6, <1>8, <1>9 DEF IInv

LEMMA RestoreStep ==
    ASSUME IInv, RestoreIndex
    PROVE  IInv'
<1> DEFINE at == orig_hdr.idx_off
           x  == [IndexExtent(at, orig_groups) EXCEPT !.size = orig_hdr.idx_size]
<1>1. /\ pc = "undo_index" /\ pc' = "undo_header" /\ body' = Put(body, x)
      /\ io' = HeaderSize
      /\ UNCHANGED <<hdr, session, write_pos, live_index_off, moves, openrg,
                     staged, req, failed, ended, history>>
  BY DEF RestoreIndex
<1>2. mode # "closed" /\ mode # "create" /\ Reopened
  BY <1>1 DEF IInv, ControlOK, TypeOK, Reopened
<1>3. /\ orig_hdr.idx_size \in Nat /\ orig_hdr.idx_size > 0 /\ at \in Nat
      /\ orig_groups \in Seq(Group) /\ body \in SUBSET Extent /\ BodyOK(body)
  BY <1>2, HeaderFields DEF IInv, TypeOK, FoundOK, Header
<1>4. WriteAt = at /\ WriteSize = orig_hdr.idx_size /\ pc \in BodyWrites
  BY <1>1 DEF WriteAt, WriteSize, BodyWrites
<1>5. /\ x \in Extent /\ x.at = at /\ x.size = orig_hdr.idx_size
      /\ x.kind = "index" /\ x.groups = orig_groups
  BY <1>3, IndexCopyType
<1> HIDE DEF x
<1>6. /\ body' \in SUBSET Extent /\ BodyOK(body') /\ x \in body'
      /\ Spared(body, at, orig_hdr.idx_size) \subseteq body'
  BY <1>1, <1>3, <1>5, PutBody
<1>7. /\ hdr' = hdr /\ mode' = mode
      /\ BodyOK(body)' /\ HeaderOK(hdr, body)' /\ FoundOK'
  <2>1. /\ reuse_start <= at
        /\ \/ at + orig_hdr.idx_size <= hdr.idx_off
           \/ hdr.idx_off + hdr.idx_size <= at
    BY <1>2, <1>4, WriteRegion
  <2> QED
    BY <1>1, <1>2, <1>3, <1>6, <2>1, BodyStep
<1>8. /\ schema_cols' = schema_cols /\ groups' = groups
      /\ cur_cols' = cur_cols /\ failed' = failed
      /\ live_index_off' = live_index_off /\ reuse_start' = reuse_start
      /\ orig_hdr' = orig_hdr /\ orig_groups' = orig_groups
      /\ write_pos' = write_pos
  BY <1>1 DEF session, openrg, staged
<1>9. TypeOK'
  <2>1. TypeOK /\ io' \in Nat
    BY <1>1, SizesAssumption DEF IInv
  <2> QED
    BY <1>1, <1>6, <1>7, <1>8, <2>1
       DEF TypeOK, session, openrg, staged, history, Steps
<1>10. ControlOK'
  BY <1>1, <1>2, <1>7, <1>8 DEF IInv, ControlOK, Reopened
<1>11. StagedOK' /\ CreateOK'
  BY <1>1, <1>2, <1>7 DEF StagedOK, CreateOK
<1>12. IndexLive(orig_hdr, body', orig_groups)
  BY <1>5, <1>6 DEF IndexLive, IndexesAt
<1>13. CursorOK'
  BY <1>1, <1>2, <1>7, <1>8, <1>12 DEF IInv, CursorOK
<1>14. SchemaOK'
  BY <1>1, <1>2, <1>7, <1>8 DEF IInv, SchemaOK, Reopened
<1> QED
  BY <1>7, <1>9, <1>10, <1>11, <1>13, <1>14 DEF IInv

-----------------------------------------------------------------------------
(* Calls that fail and leave the encoder to be aborted.                    *)

LEMMA CallFails ==
    ASSUME IInv, NEW fault, Fail(fault), fault \notin CarryOn,
           pc \in {"copy", "repoint", "hook", "append"},
           TypeOK', BodyOK(body)', HeaderOK(hdr, body)', FoundOK',
           mode = "create" =>
              /\ ~ Committed(hdr')
              /\ schema_cols # 0 =>
                    \E e \in body' : /\ e.kind = "schema"
                                     /\ e.at = HeaderSize
                                     /\ e.size = SizeOfSchema(schema_cols),
           Reopened => live_index_off <= hdr'.idx_off
    PROVE  IInv'
<1>1. /\ pc' = "idle" /\ failed' = TRUE /\ mode' = mode /\ mode # "closed"
      /\ schema_cols' = schema_cols /\ reuse_start' = reuse_start
      /\ write_pos' = write_pos /\ live_index_off' = live_index_off
      /\ orig_hdr' = orig_hdr
  BY DEF Fail, session, IInv, ControlOK
<1>2. ControlOK'
  BY <1>1 DEF ControlOK, Reopened
<1>3. StagedOK'
  BY <1>1 DEF StagedOK
<1>4. CreateOK'
  BY <1>1 DEF IInv, CreateOK
<1>5. CursorOK'
  BY <1>1 DEF IInv, CursorOK, Reopened
<1>6. SchemaOK'
  BY <1>1 DEF IInv, SchemaOK, Reopened
<1> QED
  BY <1>2, <1>3, <1>4, <1>5, <1>6 DEF IInv

\* The types of what Fail itself assigns.
LEMMA FailType ==
    ASSUME TypeOK, NEW fault, Fail(fault),
           hdr' \in Header, body' \in SUBSET Extent, io' \in Nat,
           cur_cols' \in Seq(Col), cur_group_offset' \in Nat,
           groups' \in Seq(Group), any_stats' \in BOOLEAN
    PROVE  TypeOK'
<1>1. NoRequest \in Request
  BY DEF NoRequest, Request
<1> QED
  BY <1>1 DEF TypeOK, Fail, session, history, Steps

\* A failed call that wrote nothing.
LEMMA QuietFailStep ==
    ASSUME IInv, CarryOn \subseteq {"mem"},
           \/ HookFails /\ req.call # "close"
           \/ NoMemory /\ pc # "index"
    PROVE  IInv'
<1>1. /\ \E fault \in {"hook", "mem"} : Fail(fault)
      /\ hdr' = hdr /\ body' = body
      /\ pc \in {"hook", "append"}
      /\ groups' = groups /\ any_stats' = any_stats /\ cur_cols' = cur_cols
      /\ io' \in {io, HeaderSize, live_index_off + orig_hdr.idx_size}
      /\ cur_group_offset' \in {cur_group_offset, OpenGroupOffset}
  BY DEF HookFails, NoMemory, disk
<1>2. TypeOK
  BY DEF IInv
<1>3. io' \in Nat /\ cur_group_offset' \in Nat
  <2>1. /\ io \in Nat /\ live_index_off \in Nat /\ orig_hdr.idx_size \in Nat
        /\ cur_group_offset \in Nat /\ write_pos \in Nat
    BY <1>2 DEF TypeOK, Header
  <2>2. OpenGroupOffset \in Nat
    BY <2>1 DEF OpenGroupOffset
  <2> QED
    BY <1>1, <2>1, <2>2, SizesAssumption
<1>4. TypeOK'
  BY <1>1, <1>2, <1>3, FailType DEF TypeOK
<1>5. BodyOK(body)' /\ HeaderOK(hdr, body)' /\ FoundOK'
  BY <1>1, SameDisk DEF Fail, disk
<1>6. mode = "create" =>
         /\ ~ Committed(hdr')
         /\ schema_cols # 0 =>
               \E e \in body' : /\ e.kind = "schema"
                                /\ e.at = HeaderSize
                                /\ e.size = SizeOfSchema(schema_cols)
  BY <1>1 DEF IInv, CreateOK
<1>7. Reopened => live_index_off <= hdr'.idx_off
  BY <1>1 DEF IInv, CursorOK
<1>8. CASE failed' = TRUE
  <2>1. \E fault \in {"hook", "mem"} : Fail(fault) /\ fault \notin CarryOn
    BY <1>1, <1>8 DEF Fail
  <2> QED
    BY <1>1, <1>4, <1>5, <1>6, <1>7, <2>1, CallFails
\* An allocation failed and the caller goes on: the encoder is as it was
\* before the call, with its room made.
<1>9. CASE failed' # TRUE
  <2>1. /\ NoMemory /\ pc = "append" /\ io' = io
        /\ pc' = "idle" /\ failed' = FALSE
        /\ UNCHANGED <<session, write_pos, live_index_off, moves, cur_stats>>
    <3>1. \E fault \in {"hook", "mem"} : Fail(fault) /\ fault \in CarryOn
      BY <1>1, <1>9 DEF Fail
    <3>2. Fail("mem") /\ ~ Fail("hook")
      <4>1. "hook" \notin CarryOn
        OBVIOUS
      <4> QED
        BY <1>9, <3>1, <4>1 DEF Fail
    <3>3. ~ HookFails \/ req.call = "close"
      BY <3>2 DEF HookFails
    <3> QED
      BY <1>9, <3>2, <3>3 DEF NoMemory, Fail
  <2>2. ~ failed /\ mode # "closed"
    BY <2>1 DEF IInv, ControlOK
  <2>3. ControlOK'
    BY <1>1, <2>1, <2>2 DEF IInv, ControlOK, Reopened, session
  <2>4. StagedOK'
    BY <1>1, <2>1, <2>2 DEF IInv, StagedOK, AtCursor, session
  <2>5. CreateOK'
    BY <1>1, <2>1, <2>2 DEF IInv, CreateOK, session
  <2>6. CursorOK'
    BY <1>1, <2>1, <2>2 DEF IInv, CursorOK, Reopened, session
  <2>7. SchemaOK'
    BY <1>1, <2>1, <2>2 DEF IInv, SchemaOK, Reopened, session
  <2> QED
    BY <1>4, <1>5, <2>3, <2>4, <2>5, <2>6, <2>7 DEF IInv
<1> QED
  BY <1>8, <1>9

\* The write of a copy or of a record is cut short.
LEMMA TornFailStep ==
    ASSUME IInv, "io" \notin CarryOn, WriteFails, pc \in {"copy", "append"}
    PROVE  IInv'
<1>1. PICK n \in 0..WriteSize :
         body' = Spared(body, WriteAt, n) /\ io' = WriteAt + n
  BY DEF WriteFails
<1>2. /\ hdr' = hdr /\ Fail("io")
      /\ \/ cur_cols' = cur_cols /\ cur_group_offset' = cur_group_offset
         \/ /\ pc = "append"
            /\ cur_cols' = Append(cur_cols, Pending)
            /\ cur_group_offset' = OpenGroupOffset
      /\ \/ groups' = groups /\ any_stats' = any_stats
         \/ /\ pc = "append" /\ req.call = "widen"
            /\ groups' = IF req.with_stats /\ groups[req.rg].stats = <<>>
                         THEN [groups EXCEPT ![req.rg].stats =
                                  NoStats(Len(groups[req.rg].cols))]
                         ELSE groups
            /\ any_stats' = (any_stats \/ req.with_stats)
  BY DEF WriteFails
<1>3. TypeOK /\ body \in SUBSET Extent /\ BodyOK(body) /\ hdr \in Header
  BY DEF IInv, TypeOK
<1>4. /\ mode # "closed" /\ ~ failed /\ pc \in BodyWrites
      /\ pc = "append" => req.payload \in Payload
  BY DEF IInv, ControlOK, BodyWrites
<1>5. WriteAt \in Nat /\ WriteSize \in Nat /\ write_pos <= WriteAt
  <2>1. CASE Reopened
    BY <1>4, <2>1, WriteRegion
  <2>2. CASE mode = "create"
    <3>1. pc = "append"
      BY <2>2 DEF IInv, ControlOK
    <3>2. io = write_pos /\ io \in Nat
      BY <1>3, <1>4, <3>1 DEF IInv, StagedOK, AtCursor, TypeOK
    <3> QED
      BY <1>4, <3>1, <3>2, SizesAssumption DEF WriteAt, WriteSize
  <2> QED
    BY <1>3, <1>4, <2>1, <2>2 DEF TypeOK, Reopened
<1>6. n \in Nat /\ n <= WriteSize /\ io' \in Nat
  BY <1>1, <1>5
<1>7. body' \in SUBSET Extent /\ BodyOK(body')
  BY <1>1, <1>3, SparedBody
<1>8. BodyOK(body)' /\ HeaderOK(hdr, body)' /\ FoundOK'
  <2>1. Reopened => /\ reuse_start <= WriteAt
                    /\ \/ WriteAt + WriteSize <= hdr.idx_off
                       \/ hdr.idx_off + hdr.idx_size <= WriteAt
    BY <1>4, WriteRegion
  <2>2. Reopened => \/ WriteAt + n <= hdr.idx_off
                    \/ hdr.idx_off + hdr.idx_size <= WriteAt
    BY <1>5, <1>6, <2>1, HeaderFields
  <2>3. UNCHANGED <<hdr, session, moves>>
    BY <1>2 DEF Fail
  <2> QED
    BY <1>1, <1>4, <1>5, <1>6, <1>7, <2>1, <2>2, <2>3, BodyStep
<1>9. pc = "append" => Pending \in Col
  <2>1. pc = "append" => RecordSize[req.payload] \in Nat
    BY <1>4, SizesAssumption
  <2>2. write_pos \in Nat
    BY <1>3 DEF TypeOK
  <2> QED
    BY <2>1, <2>2 DEF Pending, Col
<1>10. TypeOK'
  <2>1. cur_cols' \in Seq(Col) /\ cur_group_offset' \in Nat
    <3>1. /\ cur_cols \in Seq(Col) /\ cur_group_offset \in Nat
          /\ write_pos \in Nat
      BY <1>3 DEF TypeOK
    <3>2. OpenGroupOffset \in Nat
      BY <3>1 DEF OpenGroupOffset
    <3>3. pc = "append" => Append(cur_cols, Pending) \in Seq(Col)
      BY <1>9, <3>1
    <3> QED
      BY <1>2, <3>1, <3>2, <3>3
  <2>2. groups' \in Seq(Group) /\ any_stats' \in BOOLEAN
    <3>1. CASE groups' = groups /\ any_stats' = any_stats
      BY <1>3, <3>1 DEF TypeOK
    <3>2. CASE /\ pc = "append" /\ req.call = "widen"
               /\ groups' = IF req.with_stats /\ groups[req.rg].stats = <<>>
                            THEN [groups EXCEPT ![req.rg].stats =
                                     NoStats(Len(groups[req.rg].cols))]
                            ELSE groups
               /\ any_stats' = (any_stats \/ req.with_stats)
      <4> DEFINE g == req.rg
      <4>1. g \in DOMAIN groups /\ groups \in Seq(Group)
        BY <1>3, <3>2 DEF IInv, ControlOK, TypeOK
      <4>2. /\ groups[g] \in Group /\ groups[g].off \in Nat
            /\ groups[g].cols \in Seq(Col)
        BY <4>1, GroupType
      <4>3. NoStats(Len(groups[g].cols)) \in Seq(BOOLEAN)
        <5>1. Len(groups[g].cols) \in Nat
          BY <4>2
        <5> QED
          BY <5>1, NoStatsType
      <4>4. [groups[g] EXCEPT !.stats = NoStats(Len(groups[g].cols))] \in Group
        BY <4>2, <4>3 DEF Group
      <4> HIDE DEF g
      <4>5. [groups EXCEPT ![g] =
               [groups[g] EXCEPT !.stats = NoStats(Len(groups[g].cols))]]
                  \in Seq(Group)
        BY <4>1, <4>4
      <4>6. groups' \in Seq(Group)
        BY <3>2, <4>1, <4>5 DEF g
      <4>7. any_stats' \in BOOLEAN
        BY <1>3, <3>2 DEF TypeOK
      <4> QED
        BY <4>6, <4>7
    <3> QED
      BY <1>2, <3>1, <3>2
  <2> QED
    BY <1>2, <1>3, <1>6, <1>7, <2>1, <2>2, FailType
<1>11. mode = "create" =>
         /\ ~ Committed(hdr')
         /\ schema_cols # 0 =>
               \E e \in body' : /\ e.kind = "schema"
                                /\ e.at = HeaderSize
                                /\ e.size = SizeOfSchema(schema_cols)
  <2>1. mode = "create" => ~ Committed(hdr')
    BY <1>2 DEF IInv, CreateOK
  <2>2. pc # "open_schema"
    OBVIOUS
  <2> QED
    BY <1>1, <1>5, <1>6, <2>1, <2>2, CreateKept
<1>12. Reopened => live_index_off <= hdr'.idx_off
  BY <1>2 DEF IInv, CursorOK
<1> QED
  BY <1>2, <1>8, <1>10, <1>11, <1>12, CallFails

\* The header write of a move fails: it may have reached the disk.
LEMMA RepointFailStep ==
    ASSUME IInv, "io" \notin CarryOn, WriteFails, pc = "repoint"
    PROVE  IInv'
<1>1. /\ Fail("io") /\ hdr' \in {hdr, MovedHeader(CopyOffset(Need))}
      /\ body' = body /\ io' = HeaderSize
      /\ cur_cols' = cur_cols /\ cur_group_offset' = cur_group_offset
      /\ groups' = groups /\ any_stats' = any_stats
  BY DEF WriteFails, NextHeader
<1>2. TypeOK /\ Reopened
  BY DEF IInv, ControlOK, TypeOK, Reopened
<1>3. UNCHANGED <<session, moves>>
  BY <1>1 DEF Fail
<1>4. /\ hdr' \in Header /\ BodyOK(body)' /\ HeaderOK(hdr, body)' /\ FoundOK'
      /\ live_index_off <= hdr'.idx_off
  <2>1. CASE hdr' = hdr
    BY <1>1, <1>2, <1>3, <2>1, SameDisk DEF disk, TypeOK, IInv, CursorOK
  <2>2. CASE hdr' = MovedHeader(CopyOffset(Need))
    <3>1. /\ hdr' \in Header /\ BodyOK(body)' /\ HeaderOK(hdr, body)'
          /\ hdr'.idx_off = CopyOffset(Need) /\ CopyOffset(Need) \in Nat
          /\ live_index_off + orig_hdr.idx_size <= CopyOffset(Need)
          /\ FoundOK'
      BY <1>1, <1>3, <2>2, Repointed
    <3>2. live_index_off \in Nat /\ orig_hdr.idx_size \in Nat
      BY <1>2 DEF TypeOK, Header
    <3> QED
      BY <3>1, <3>2
  <2> QED
    BY <1>1, <2>1, <2>2
<1>5. TypeOK'
  <2>1. io' \in Nat
    BY <1>1, SizesAssumption
  <2> QED
    BY <1>1, <1>2, <1>4, <2>1, FailType DEF TypeOK
<1>6. mode # "create"
  BY <1>2 DEF Reopened
<1> QED
  BY <1>1, <1>4, <1>5, <1>6, CallFails

-----------------------------------------------------------------------------
(* Row groups.                                                             *)

LEMMA StatsStep ==
    ASSUME IInv, SetRowgroupStats
    PROVE  IInv'
<1>1. /\ cur_stats' = [c \in DOMAIN cur_cols |-> TRUE] /\ any_stats' = TRUE
      /\ UNCHANGED <<disk, session, cursor, cur_cols, cur_group_offset, groups,
                     n_blocks, control, history>>
      /\ pc = "idle" /\ mode # "closed"
  BY DEF SetRowgroupStats, CanCall
<1>2. /\ hdr' = hdr /\ body' = body /\ mode' = mode
      /\ BodyOK(body)' /\ HeaderOK(hdr, body)' /\ FoundOK'
  BY <1>1, SameDisk DEF cursor
<1>3. /\ schema_cols' = schema_cols /\ orig_hdr' = orig_hdr
      /\ reuse_start' = reuse_start /\ write_pos' = write_pos /\ io' = io
      /\ live_index_off' = live_index_off /\ failed' = failed /\ pc' = pc
      /\ req' = req /\ moves' = moves
  BY <1>1 DEF session, control, cursor
<1>4. TypeOK'
  <2>1. TypeOK
    BY DEF IInv
  <2>2. cur_stats' \in Seq(BOOLEAN)
    <3>1. cur_cols \in Seq(Col)
      BY <2>1 DEF TypeOK
    <3>2. DOMAIN cur_cols = 1..Len(cur_cols) /\ Len(cur_cols) \in Nat
      BY <3>1
    <3> QED
      BY <1>1, <3>2
  <2> QED
    BY <1>1, <1>2, <1>3, <2>1, <2>2
       DEF TypeOK, session, cursor, control, history
<1>5. ControlOK'
  BY <1>1, <1>2, <1>3 DEF IInv, ControlOK, Reopened
<1>6. StagedOK'
  <2>1. ~ failed =>
           /\ BlocksLive(groups, body, write_pos)
           /\ ColsLive(cur_cols, body, write_pos)
           /\ IndexParses(groups, any_stats) /\ io = write_pos
    BY <1>1 DEF IInv, StagedOK
  <2>2. IndexParses(groups, any_stats) => IndexParses(groups, TRUE)
    BY DEF IndexParses
  <2> QED
    BY <1>1, <1>2, <1>3, <2>1, <2>2 DEF StagedOK
<1>7. CreateOK' /\ CursorOK' /\ SchemaOK'
  BY <1>1, <1>2, <1>3 DEF IInv, CreateOK, CursorOK, SchemaOK, Reopened
<1> QED
  BY <1>2, <1>4, <1>5, <1>6, <1>7 DEF IInv

LEMMA SmallMod ==
    ASSUME NEW a \in Nat, NEW b \in Nat, a < b
    PROVE  a % b = a
BY SMTT(60)

LEMMA EndStep ==
    ASSUME IInv, MaxCols < ColWrap, EndRowgroup
    PROVE  IInv'
<1> DEFINE n == Len(cur_cols) % ColWrap
<1>1. PICK s \in StatsRead(cur_stats, n) :
         groups' = Append(groups, [off   |-> cur_group_offset,
                                   cols  |-> SubSeq(cur_cols, 1, n),
                                   stats |-> s])
  BY DEF EndRowgroup
<1>2. /\ cur_cols' = <<>> /\ cur_group_offset' = 0 /\ cur_stats' = <<>>
      /\ want' = [groups |-> Append(want.groups, [cols  |-> want.open,
                                                  stats |-> cur_stats]),
                  open   |-> <<>>]
      /\ UNCHANGED <<disk, session, cursor, any_stats, n_blocks, control,
                     passes>>
      /\ cur_cols # <<>> /\ pc = "idle" /\ mode # "closed" /\ ~ failed
      /\ mode # "widen"
  BY DEF EndRowgroup, CanCall
<1>3. TypeOK /\ cur_cols \in Seq(Col) /\ cur_stats \in Seq(BOOLEAN)
      /\ groups \in Seq(Group) /\ cur_group_offset \in Nat
  BY DEF IInv, TypeOK
<1>4. n = Len(cur_cols)
  <2>1. Len(cur_cols) <= MaxCols
    BY <1>2 DEF IInv, ControlOK
  <2>2. /\ Len(cur_cols) \in Nat /\ ColWrap \in Nat
        /\ Len(cur_cols) < ColWrap
    BY <1>3, <2>1, SizesAssumption, BoundsAssumption
  <2>3. Len(cur_cols) % ColWrap = Len(cur_cols)
    BY <2>2, SmallMod
  <2> QED
    BY <2>3
<1>5. SubSeq(cur_cols, 1, n) = cur_cols
  BY <1>3, <1>4
<1> DEFINE new == [off |-> cur_group_offset, cols |-> cur_cols, stats |-> s]
<1> HIDE DEF n
<1>6. groups' = Append(groups, new)
  BY <1>1, <1>5
<1>7. /\ s \in Seq(BOOLEAN)
      /\ s # <<>> => cur_stats # <<>>
  <2>1. n \in Nat
    BY <1>3, <1>4
  <2>2. CASE cur_stats = <<>>
    BY <2>2 DEF StatsRead
  <2>3. CASE cur_stats # <<>>
    BY <2>1, <2>3 DEF StatsRead
  <2> QED
    BY <2>2, <2>3
<1>8. new \in Group /\ new.cols = cur_cols /\ new.stats = s
  BY <1>3, <1>7 DEF Group
<1> HIDE DEF new
<1>9. /\ groups' \in Seq(Group) /\ Len(groups') = Len(groups) + 1
      /\ \A g \in DOMAIN groups' :
            groups'[g] = IF g = Len(groups) + 1 THEN new ELSE groups[g]
      /\ \A g \in DOMAIN groups' : g # Len(groups) + 1 => g \in DOMAIN groups
  BY <1>3, <1>6, <1>8
<1>10. /\ hdr' = hdr /\ body' = body /\ mode' = mode
       /\ BodyOK(body)' /\ HeaderOK(hdr, body)' /\ FoundOK'
  BY <1>2, SameDisk DEF cursor
<1>11. /\ schema_cols' = schema_cols /\ orig_hdr' = orig_hdr
       /\ reuse_start' = reuse_start /\ write_pos' = write_pos /\ io' = io
       /\ live_index_off' = live_index_off /\ failed' = failed /\ pc' = pc
       /\ req' = req /\ any_stats' = any_stats /\ moves' = moves
  BY <1>2 DEF session, control, cursor
<1>12. TypeOK'
  <2>1. want' \in Staged
    <3> DEFINE Kept == [cols : Seq(Payload), stats : Seq(BOOLEAN)]
    <3>1. want.groups \in Seq(Kept) /\ want.open \in Seq(Payload)
      BY <1>3 DEF TypeOK, Staged
    <3>2. [cols |-> want.open, stats |-> cur_stats] \in Kept
      BY <1>3, <3>1
    <3> HIDE DEF Kept
    <3>3. Append(want.groups, [cols |-> want.open, stats |-> cur_stats])
             \in Seq(Kept)
      BY <3>1, <3>2
    <3>4. <<>> \in Seq(Payload)
      OBVIOUS
    <3> QED
      BY <1>2, <3>3, <3>4 DEF Staged, Kept
  <2>2. <<>> \in Seq(Col) /\ <<>> \in Seq(BOOLEAN)
    OBVIOUS
  <2> QED
    BY <1>2, <1>3, <1>9, <1>10, <1>11, <2>1, <2>2
       DEF TypeOK, session, cursor, control
<1>13. ControlOK'
  <2>1. Len(cur_cols') <= MaxCols
    BY <1>2, BoundsAssumption
  <2> QED
    BY <1>2, <1>10, <1>11, <2>1 DEF IInv, ControlOK, Reopened
<1>14. StagedOK'
  <2>1. /\ BlocksLive(groups, body, write_pos)
        /\ ColsLive(cur_cols, body, write_pos)
        /\ IndexParses(groups, any_stats)
        /\ cur_stats # <<>> => any_stats
        /\ io = write_pos
    BY <1>2 DEF IInv, StagedOK
  <2>2. BlocksLive(groups', body, write_pos)
    BY <1>8, <1>9, <2>1 DEF BlocksLive
  <2>3. IndexParses(groups', any_stats)
    BY <1>2, <1>7, <1>8, <1>9, <2>1 DEF IndexParses
  <2>4. ColsLive(<<>>, body, write_pos)
    BY DEF ColsLive
  <2> QED
    BY <1>2, <1>10, <1>11, <2>1, <2>2, <2>3, <2>4 DEF StagedOK
<1>15. CreateOK' /\ CursorOK' /\ SchemaOK'
  BY <1>2, <1>10, <1>11 DEF IInv, CreateOK, CursorOK, SchemaOK, Reopened
<1> QED
  BY <1>10, <1>12, <1>13, <1>14, <1>15 DEF IInv

-----------------------------------------------------------------------------
(* Opening.                                                                *)

LEMMA CreateStep ==
    ASSUME IInv, NEW n \in Columns, NEW canSeek \in BOOLEAN,
           OpenCreate(n, canSeek)
    PROVE  IInv'
<1>1. /\ mode = "closed" /\ mode' = "create" /\ seekable' = canSeek
      /\ schema_cols' = n /\ body' = {} /\ io' = HeaderSize
      /\ write_pos' = HeaderSize
      /\ hdr' = [NoHeader EXCEPT !.magic = TRUE,
                                 !.schema_size = SizeOfSchema(n)]
      /\ pc' = IF n = 0 THEN "idle" ELSE "open_schema"
      /\ ended' = "open" /\ passes' = passes + 1
      /\ UNCHANGED <<orig_hdr, orig_groups, reuse_start, live_index_off, moves,
                     openrg, staged, req, failed, want>>
  BY DEF OpenCreate, CanOpen
<1>2. /\ ~ failed /\ groups = <<>> /\ cur_cols = <<>> /\ cur_stats = <<>>
  BY <1>1 DEF IInv, ControlOK
<1>3. /\ groups' = groups /\ cur_cols' = cur_cols /\ cur_stats' = cur_stats
      /\ failed' = failed
  BY <1>1 DEF openrg, staged
<1>4. n \in Nat /\ SizeOfSchema(n) \in Nat /\ HeaderSize \in Nat
  BY SizeOfSchemaType, BoundsAssumption, SizesAssumption
<1>5. hdr' \in Header /\ ~ Committed(hdr')
  BY <1>1, <1>4 DEF NoHeader, Header, Committed
<1>6. BodyOK(body)' /\ HeaderOK(hdr, body)'
  BY <1>1, <1>5 DEF BodyOK, HeaderOK
<1>7. TypeOK'
  <2>1. TypeOK
    BY DEF IInv
  <2>2. pc' \in Steps /\ passes' \in Nat
    BY <1>1, <2>1 DEF Steps, TypeOK
  <2> QED
    BY <1>1, <1>3, <1>4, <1>5, <2>1, <2>2 DEF TypeOK, openrg, staged
<1>8. ControlOK'
  BY <1>1, <1>2, <1>3, BoundsAssumption DEF ControlOK, Reopened
<1>9. StagedOK'
  BY <1>1, <1>2, <1>3 DEF StagedOK, BlocksLive, ColsLive, IndexParses, AtCursor
<1>10. CreateOK'
  <2>1. n = 0 => SizeOfSchema(n) = 0
    BY DEF SizeOfSchema
  <2> QED
    BY <1>1, <1>2, <1>3, <1>4, <1>5, <2>1 DEF CreateOK
<1>11. FoundOK' /\ CursorOK' /\ SchemaOK'
  BY <1>1 DEF FoundOK, CursorOK, SchemaOK, Reopened
<1> QED
  BY <1>6, <1>7, <1>8, <1>9, <1>10, <1>11 DEF IInv

\* Whatever a committed header names is on disk in one piece.
LEMMA ReadsWhole ==
    ASSUME IInv
    PROVE  Committed(hdr) => Readable(hdr, body)
<1> SUFFICES ASSUME Committed(hdr)
             PROVE  Readable(hdr, body)
  OBVIOUS
<1>1. PICK x \in IndexesAt(hdr, body) :
         IndexParses(x.groups, hdr.has_stats)
         /\ BlocksLive(x.groups, body, hdr.idx_off)
  BY DEF IInv, HeaderOK
<1>2. hdr.schema_size # 0 => SchemasAt(hdr, body) # {}
  BY DEF IInv, HeaderOK, SchemaLive
<1> QED
  BY <1>1, <1>2 DEF Readable, BlocksLive, ColsLive

LEMMA ContentsType ==
    ASSUME IInv
    PROVE  Contents(hdr, body).groups
              \in Seq([cols : Seq(Payload), stats : Seq(BOOLEAN)])
<1> DEFINE Kept == [cols : Seq(Payload), stats : Seq(BOOLEAN)]
           gs   == (CHOOSE x \in IndexesAt(hdr, body) : TRUE).groups
           col(g, c) == TheId(BlocksAt(gs[g].cols[c], body))
           group(g)  == [cols  |-> [c \in DOMAIN gs[g].cols |-> col(g, c)],
                         stats |-> gs[g].stats]
<1>1. CASE ~ (Committed(hdr) /\ Readable(hdr, body))
  BY <1>1 DEF Contents
<1>2. CASE Committed(hdr) /\ Readable(hdr, body)
  <2>1. PICK x \in IndexesAt(hdr, body) :
           \A g \in DOMAIN x.groups : \A c \in DOMAIN x.groups[g].cols :
              BlocksAt(x.groups[g].cols[c], body) # {}
    BY <1>2 DEF Readable
  <2>2. gs = x.groups
    <3>1. (CHOOSE y \in IndexesAt(hdr, body) : TRUE) \in IndexesAt(hdr, body)
      OBVIOUS
    <3>2. body \in SUBSET Extent /\ BodyOK(body)
      BY DEF IInv, TypeOK
    <3>3. (CHOOSE y \in IndexesAt(hdr, body) : TRUE) = x
      BY <3>1, <3>2, OneIndex
    <3> QED
      BY <3>3
  <2>3. x.groups \in Seq(Group)
    BY DEF IInv, TypeOK, IndexesAt, Extent
  <2>4. gs \in Seq(Group)
    BY <2>2, <2>3
  <2>5. Contents(hdr, body).groups = [g \in DOMAIN gs |-> group(g)]
    BY <1>2 DEF Contents
  <2> HIDE DEF gs
  <2>6. ASSUME NEW g \in DOMAIN gs
        PROVE  group(g) \in Kept
    <3>1. gs[g].cols \in Seq(Col) /\ gs[g].stats \in Seq(BOOLEAN)
      BY <2>4, GroupType
    <3>2. ASSUME NEW c \in DOMAIN gs[g].cols
          PROVE  col(g, c) \in Payload
      <4>1. BlocksAt(gs[g].cols[c], body) # {}
        BY <2>1, <2>2
      <4>2. ASSUME NEW e \in BlocksAt(gs[g].cols[c], body)
            PROVE  e.id \in Payload
        BY DEF BlocksAt, IInv, BodyOK
      <4> QED
        BY <4>1, <4>2 DEF TheId
    <3> HIDE DEF col
    <3>3. /\ DOMAIN gs[g].cols = 1..Len(gs[g].cols)
          /\ Len(gs[g].cols) \in Nat
      BY <3>1
    <3>4. [c \in DOMAIN gs[g].cols |-> col(g, c)] \in Seq(Payload)
      BY <3>2, <3>3
    <3> QED
      BY <3>1, <3>4
  <2>7. DOMAIN gs = 1..Len(gs) /\ Len(gs) \in Nat
    BY <2>4
  <2> HIDE DEF group, Kept
  <2>8. [g \in DOMAIN gs |-> group(g)] \in Seq(Kept)
    BY <2>6, <2>7
  <2> QED
    BY <2>5, <2>8 DEF Kept
<1> QED
  BY <1>1, <1>2

\* v2_reopen_existing: what opening over a committed container finds.
LEMMA Reopening ==
    ASSUME IInv, CanOpen, NEW x \in IndexesAt(hdr, body), Reopen(x),
           mode' \in {"widen", "extend"}, schema_cols' \in Nat,
           schema_cols' # 0,
           mode' = "extend" => SizeOfSchema(schema_cols') = hdr.schema_size
    PROVE  IInv'
<1>1. /\ hdr.magic /\ Committed(hdr) /\ IndexParses(x.groups, hdr.has_stats)
      /\ orig_hdr' = hdr /\ orig_groups' = x.groups /\ groups' = x.groups
      /\ any_stats' = hdr.has_stats /\ n_blocks' = hdr.n_blocks
      /\ live_index_off' = hdr.idx_off /\ seekable' = TRUE
      /\ want' = [groups |-> Contents(hdr, body).groups, open |-> <<>>]
      /\ ended' = "open" /\ passes' = passes + 1
      /\ UNCHANGED <<disk, moves, openrg, pc, req, failed>>
  BY DEF Reopen
<1>2. PICK live_end \in SectionEnds(hdr, x.groups) :
         /\ \A e \in SectionEnds(hdr, x.groups) : e <= live_end
         /\ reuse_start' = live_end /\ write_pos' = live_end
         /\ io' = live_end
  BY DEF Reopen
<1>3. /\ mode = "closed" /\ pc = "idle" /\ ~ failed /\ moves = 0
      /\ cur_cols = <<>> /\ cur_stats = <<>>
  BY DEF CanOpen, IInv, ControlOK
<1>4. /\ hdr' = hdr /\ body' = body /\ moves' = moves /\ pc' = pc
      /\ failed' = failed /\ cur_cols' = cur_cols /\ cur_stats' = cur_stats
  BY <1>1 DEF disk, openrg
<1>5. /\ TypeOK /\ BodyOK(body) /\ hdr \in Header /\ body \in SUBSET Extent
      /\ HeaderOK(hdr, body)
  BY DEF IInv, TypeOK
<1>6. /\ x \in body /\ x.groups \in Seq(Group) /\ x.kind = "index"
      /\ x.at = hdr.idx_off /\ x.size = hdr.idx_size
      /\ x.size \in Nat /\ x.size > 0
  BY <1>5 DEF IndexesAt, Extent, BodyOK
<1>7. /\ SchemaLive(hdr, body, hdr.idx_off)
      /\ BlocksLive(x.groups, body, hdr.idx_off)
  BY <1>1, <1>5, OneIndex DEF HeaderOK
<1>8. /\ hdr.idx_off \in Nat /\ hdr.schema_size \in Nat
      /\ SchemaOffset(hdr) \in Nat /\ BlocksStart(hdr) \in Nat
  BY <1>5, SizesAssumption DEF Header, SchemaOffset, BlocksStart
<1>9. ASSUME NEW e \in SectionEnds(hdr, x.groups)
      PROVE  e \in Nat /\ e <= hdr.idx_off
  <2>1. CASE e \in {SchemaOffset(hdr) + hdr.schema_size, BlocksStart(hdr)}
    BY <1>7, <1>8, <2>1 DEF SchemaLive
  <2>2. CASE \E g \in DOMAIN x.groups : \E c \in DOMAIN x.groups[g].cols :
                e = x.groups[g].cols[c].off + x.groups[g].cols[c].total
    <3>0. PICK g \in DOMAIN x.groups : \E c \in DOMAIN x.groups[g].cols :
             e = x.groups[g].cols[c].off + x.groups[g].cols[c].total
      BY <2>2
    <3>1. PICK c \in DOMAIN x.groups[g].cols :
             e = x.groups[g].cols[c].off + x.groups[g].cols[c].total
      BY <3>0
    <3>2. x.groups[g].cols \in Seq(Col)
      BY <1>6, GroupType
    <3>3. /\ x.groups[g].cols[c].off \in Nat
          /\ x.groups[g].cols[c].total \in Nat
      BY <3>2, ColType
    <3>4. x.groups[g].cols[c].off + x.groups[g].cols[c].total <= hdr.idx_off
      BY <1>7 DEF BlocksLive, ColsLive
    <3> QED
      BY <3>1, <3>3, <3>4
  <2> QED
    BY <2>1, <2>2 DEF SectionEnds
<1>10. live_end \in Nat /\ live_end <= hdr.idx_off
  BY <1>2, <1>9
<1>11. SchemaLive(hdr, body, live_end)
  <2>1. {SchemaOffset(hdr) + hdr.schema_size, BlocksStart(hdr)}
           \subseteq SectionEnds(hdr, x.groups)
    BY DEF SectionEnds
  <2>2. /\ SchemaOffset(hdr) + hdr.schema_size <= live_end
        /\ BlocksStart(hdr) <= live_end
    BY <1>2, <2>1
  <2> QED
    BY <1>7, <2>2 DEF SchemaLive
<1>12. BlocksLive(x.groups, body, live_end)
  <2> SUFFICES ASSUME NEW g \in DOMAIN x.groups,
                      NEW c \in DOMAIN x.groups[g].cols
               PROVE  /\ BlocksAt(x.groups[g].cols[c], body) # {}
                      /\ x.groups[g].cols[c].off + x.groups[g].cols[c].total
                            <= live_end
    BY DEF BlocksLive, ColsLive
  <2>1. x.groups[g].cols[c].off + x.groups[g].cols[c].total
           \in SectionEnds(hdr, x.groups)
    BY DEF SectionEnds
  <2> QED
    BY <1>2, <1>7, <2>1 DEF BlocksLive, ColsLive
<1>13. TypeOK'
  <2>1. /\ hdr.idx_off \in Nat /\ hdr.n_blocks \in Nat
        /\ hdr.has_stats \in BOOLEAN
    BY <1>5 DEF Header
  <2>2. want' \in Staged
    BY <1>1, ContentsType DEF Staged
  <2>3. passes' \in Nat
    BY <1>1, <1>5 DEF TypeOK
  <2> QED
    BY <1>1, <1>2, <1>4, <1>5, <1>6, <1>10, <2>1, <2>2, <2>3
       DEF TypeOK, openrg
<1>14. BodyOK(body)' /\ HeaderOK(hdr, body)'
  BY <1>4, <1>5
<1>15. ControlOK'
  BY <1>3, <1>4, BoundsAssumption DEF ControlOK, Reopened
<1>16. StagedOK'
  BY <1>1, <1>2, <1>3, <1>4, <1>12 DEF StagedOK, ColsLive
<1>17. CreateOK'
  BY DEF CreateOK
<1>18. FoundOK'
  <2>1. IndexLive(hdr, body, x.groups)
    BY DEF IndexLive
  <2> QED
    BY <1>1, <1>2, <1>3, <1>4, <1>6, <1>10, <1>11, <1>12, <2>1
       DEF FoundOK
<1>19. CursorOK'
  BY <1>1, <1>2, <1>3, <1>4, <1>8, <1>10 DEF CursorOK
<1>20. SchemaOK'
  BY <1>1, <1>3, <1>4 DEF SchemaOK
<1> QED
  BY <1>13, <1>14, <1>15, <1>16, <1>17, <1>18, <1>19, <1>20 DEF IInv

LEMMA OpenSteps ==
    ASSUME IInv,
           \/ \E n \in Columns, s \in BOOLEAN : OpenCreate(n, s)
           \/ \E n \in Columns : OpenWiden(n)
           \/ OpenExtend
    PROVE  IInv'
<1>1. ASSUME NEW n \in Columns, OpenWiden(n)
      PROVE  IInv'
  <2>1. PICK x \in IndexesAt(hdr, body) : Reopen(x)
    BY <1>1 DEF OpenWiden
  <2>2. CanOpen /\ mode' = "widen" /\ schema_cols' = n /\ n # 0 /\ n \in Nat
    BY <1>1, BoundsAssumption DEF OpenWiden
  <2> QED
    BY <2>1, <2>2, Reopening
<1>2. CASE OpenExtend
  <2>1. PICK x \in IndexesAt(hdr, body) : Reopen(x)
    BY <1>2 DEF OpenExtend
  <2>2. PICK e \in SchemasAt(hdr, body) : schema_cols' = e.id
    BY <1>2 DEF OpenExtend
  <2>3. CanOpen /\ mode' = "extend" /\ hdr.schema_size # 0
    BY <1>2 DEF OpenExtend
  <2>4. e.id \in Nat /\ SizeOfSchema(e.id) = hdr.schema_size
    BY <2>2 DEF SchemasAt, IInv, TypeOK, BodyOK, Extent
  <2>5. e.id # 0
    BY <2>3, <2>4 DEF SizeOfSchema
  <2> QED
    BY <2>1, <2>2, <2>3, <2>4, <2>5, Reopening
<1> QED
  BY <1>1, <1>2, CreateStep

-----------------------------------------------------------------------------
(* The theorems.                                                           *)

LEMMA InitInv == Init => IInv
<1> SUFFICES ASSUME Init
             PROVE  IInv
  OBVIOUS
<1> USE DEF Init
<1>1. TypeOK
  <2>1. NoHeader \in Header
    BY DEF NoHeader, Header
  <2>2. NoRequest \in Request
    BY DEF NoRequest, Request
  <2>3. [groups |-> <<>>, open |-> <<>>] \in Staged
    BY DEF Staged
  <2> QED
    <3>1. /\ <<>> \in Seq(Group) /\ <<>> \in Seq(Col)
          /\ <<>> \in Seq(BOOLEAN) /\ {} \in SUBSET Extent
      OBVIOUS
    <3> QED
      BY <2>1, <2>2, <2>3, <3>1 DEF TypeOK, Steps
<1>2. BodyOK(body) /\ HeaderOK(hdr, body)
  BY DEF BodyOK, HeaderOK, Committed, NoHeader
<1>3. ControlOK
  BY BoundsAssumption DEF ControlOK, Reopened
<1>4. StagedOK
  BY DEF StagedOK, BlocksLive, ColsLive, IndexParses
<1>5. CreateOK /\ FoundOK /\ CursorOK /\ SchemaOK
  BY DEF CreateOK, FoundOK, CursorOK, SchemaOK, Reopened
<1> QED
  BY <1>1, <1>2, <1>3, <1>4, <1>5 DEF IInv

LEMMA NextInv ==
    ASSUME CarryOn \subseteq {"mem"}, MaxCols < ColWrap
    PROVE  IInv /\ [Next]_vars => IInv'
<1> SUFFICES ASSUME IInv, [Next]_vars
             PROVE  IInv'
  OBVIOUS
<1>1. CASE \/ \E n \in Columns, s \in BOOLEAN : OpenCreate(n, s)
           \/ \E n \in Columns : OpenWiden(n)
           \/ OpenExtend
  BY <1>1, OpenSteps
<1>2. CASE \/ \E p \in Payload : WriteBlock(p)
           \/ \E p \in Payload, g \in DOMAIN groups, s \in BOOLEAN :
                 WidenBlock(p, g, s)
           \/ Close
  BY <1>2, CallSteps
<1>3. CASE WriteOpenSchema
  BY <1>3, OpenSchemaStep
<1>4. CASE CopyIndex
  BY <1>4, CopyStep
<1>5. CASE Repoint
  BY <1>5, RepointStep
<1>6. CASE HookReturns
  BY <1>6, HookStep
<1>7. CASE AppendToGroup
  BY <1>7, GroupAppendStep
<1>8. CASE AppendToColumn
  BY <1>8, ColumnAppendStep
<1>9. CASE SetRowgroupStats
  BY <1>9, StatsStep
<1>10. CASE EndRowgroup
  BY <1>10, EndStep
<1>11. CASE WriteTailSchema
  BY <1>11, TailSchemaStep
<1>12. CASE WriteIndex
  BY <1>12, IndexStep
<1>13. CASE PatchHeader \/ Abort \/ RestoreHeader \/ Crash \/ LastWriteFails
  BY <1>13, FreeSteps
<1>14. CASE AbortMoved
  BY <1>14, AbortMovedStep
<1>15. CASE RestoreIndex
  BY <1>15, RestoreStep
<1>16. CASE WriteFails
  <2>1. "io" \notin CarryOn
    OBVIOUS
  <2>2. pc \in {"copy", "append", "repoint"}
    BY <1>16 DEF WriteFails
  <2> QED
    BY <1>16, <2>1, <2>2, TornFailStep, RepointFailStep
<1>17. CASE HookFails
  BY <1>17, FreeSteps, QuietFailStep
<1>18. CASE NoMemory
  BY <1>18, FreeSteps, QuietFailStep
<1>19. CASE UNCHANGED vars
  <2> USE <1>19 DEF vars, disk, session, cursor, openrg, staged, control,
                    history
  <2>1. TypeOK'
    BY DEF IInv, TypeOK
  <2>2. BodyOK(body)' /\ HeaderOK(hdr, body)' /\ FoundOK'
    BY SameDisk
  <2>3. ControlOK' /\ StagedOK' /\ CreateOK' /\ SchemaOK'
    BY DEF IInv, ControlOK, StagedOK, CreateOK, SchemaOK, Reopened, AtCursor
  <2>4. Need' = Need /\ (CopyOffset(Need))' = CopyOffset(Need)
    BY DEF CopyOffset, Need, NeedOf, SizeOfIndex, StatsEntries, ColEntries
  <2>5. CursorOK'
    BY <2>4 DEF IInv, CursorOK, Reopened
  <2> QED
    BY <2>1, <2>2, <2>3, <2>5 DEF IInv
<1> QED
  BY <1>1, <1>2, <1>3, <1>4, <1>5, <1>6, <1>7, <1>8, <1>9, <1>10, <1>11,
     <1>12, <1>13, <1>14, <1>15, <1>16, <1>17, <1>18, <1>19 DEF Next

\* The inductive invariant holds of every pass: the container as found stays
\* whole below the write cursor until its index has been replaced.
THEOREM InductiveInvariant ==
    ASSUME CarryOn \subseteq {"mem"}, MaxCols < ColWrap
    PROVE  Spec => []IInv
<1>1. Init => IInv
  BY InitInv
<1>2. IInv /\ [Next]_vars => IInv'
  BY NextInv
<1> QED
  BY <1>1, <1>2, PTL DEF Spec

\* Every variable keeps its type.
THEOREM TypeCorrect ==
    ASSUME CarryOn \subseteq {"mem"}, MaxCols < ColWrap
    PROVE  Spec => []TypeOK
<1>1. Spec => []IInv
  BY InductiveInvariant
<1>2. IInv => TypeOK
  BY DEF IInv
<1> QED
  BY <1>1, <1>2, PTL

\* "Crash safety. At every instant the header names either the original
\* index or the complete rebuilt one" (include/tdc/stream.h): whatever
\* interrupts a pass, what the header names is on disk in one piece, as long
\* as the caller aborts an encoder whose hook or write failed (it may go on
\* after a failed allocation) and a row group's column count fits its uint16_t.
THEOREM CrashSafe ==
    ASSUME CarryOn \subseteq {"mem"}, MaxCols < ColWrap
    PROVE  Spec => []AlwaysReadable
<1>1. Spec => []IInv
  BY InductiveInvariant
<1>2. IInv => AlwaysReadable
  BY ReadsWhole DEF AlwaysReadable
<1> QED
  BY <1>1, <1>2, PTL
=============================================================================
