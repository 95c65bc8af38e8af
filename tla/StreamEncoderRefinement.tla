---------------------- MODULE StreamEncoderRefinement ----------------------
(***************************************************************************)
(* The streaming encoder implements Container: what a reader finds changes *)
(* only by a commit, to exactly what the caller was told is staged; and an *)
(* abort puts the container found back.  The proof rests on PassInv, the   *)
(* inductive invariant of crash safety with what the pass has promised.    *)
(* Then how a pass leaves the file, how seldom it moves the index, and,    *)
(* resting on GapInv, that extending a container leaves no gap in it.      *)
(***************************************************************************)
EXTENDS StreamEncoderProofs, DataLemmas

-----------------------------------------------------------------------------
(* What is read of a file, and what a write leaves of it.                  *)

\* What ends by offset m in the body b is still in b2.
KeptBelow(b, b2, m) == \A e \in b : e.at + e.size <= m => e \in b2

\* A write at or past m keeps what ends by m.
LEMMA SparedBelow ==
    ASSUME NEW b \in SUBSET Extent, NEW b2, NEW at \in Nat, NEW n \in Nat,
           NEW m \in Nat, Spared(b, at, n) \subseteq b2, m <= at
    PROVE  KeptBelow(b, b2, m)
BY DEF KeptBelow, Spared, Extent

\* A column has one block: extents share no byte.
LEMMA OneBlock ==
    ASSUME NEW b \in SUBSET Extent, BodyOK(b), NEW c,
           NEW x \in BlocksAt(c, b), NEW y \in BlocksAt(c, b)
    PROVE  x = y
BY DEF BodyOK, BlocksAt, Extent

\* The same of the schema a header names.
LEMMA OneSchema ==
    ASSUME NEW b \in SUBSET Extent, BodyOK(b), NEW h,
           NEW x \in SchemasAt(h, b), NEW y \in SchemasAt(h, b)
    PROVE  x = y
BY DEF BodyOK, SchemasAt, Extent

\* Each of these sets holds one extent, so a write that spares it leaves the
\* set as it was.
LEMMA BlocksSame ==
    ASSUME NEW b \in SUBSET Extent, NEW b2 \in SUBSET Extent, BodyOK(b2),
           NEW m \in Nat, KeptBelow(b, b2, m),
           NEW c \in Col, BlocksAt(c, b) # {}, c.off + c.total <= m
    PROVE  BlocksAt(c, b2) # {} /\ TheId(BlocksAt(c, b2)) = TheId(BlocksAt(c, b))
<1>1. PICK e \in BlocksAt(c, b) : TRUE
  OBVIOUS
<1>2. c.off \in Nat /\ c.total \in Nat
  BY DEF Col
<1>3. BlocksAt(c, b) \subseteq BlocksAt(c, b2)
  BY <1>2 DEF BlocksAt, KeptBelow, Extent
<1>4. \A x \in BlocksAt(c, b2) : x = e
  BY <1>1, <1>3, OneBlock
<1>5. BlocksAt(c, b) = BlocksAt(c, b2)
  BY <1>1, <1>3, <1>4
<1> QED
  BY <1>1, <1>5

\* A write past the schema leaves the one schema the header names.
LEMMA SchemasSame ==
    ASSUME NEW b \in SUBSET Extent, NEW b2 \in SUBSET Extent, BodyOK(b2),
           NEW m \in Nat, KeptBelow(b, b2, m),
           NEW h \in Header, SchemaLive(h, b, m), h.schema_size # 0
    PROVE  SchemasAt(h, b2) = SchemasAt(h, b)
<1>1. /\ SchemaOffset(h) \in Nat /\ h.schema_size \in Nat
      /\ SchemaOffset(h) + h.schema_size <= m
  BY OffsetTypes DEF SchemaLive
<1>2. PICK e \in SchemasAt(h, b) : TRUE
  BY DEF SchemaLive
<1>3. SchemasAt(h, b) \subseteq SchemasAt(h, b2)
  BY <1>1 DEF SchemasAt, KeptBelow, Extent
<1>4. \A x \in SchemasAt(h, b2) : x = e
  BY <1>2, <1>3, OneSchema
<1> QED
  BY <1>2, <1>3, <1>4

\* So the columns that end by m read as they did,
LEMMA ColsReadSame ==
    ASSUME NEW b \in SUBSET Extent, NEW b2 \in SUBSET Extent, BodyOK(b2),
           NEW m \in Nat, KeptBelow(b, b2, m),
           NEW cols \in Seq(Col), ColsLive(cols, b, m)
    PROVE  ColsRead(cols, b2) = ColsRead(cols, b)
<1>1. ASSUME NEW c \in DOMAIN cols
      PROVE  TheId(BlocksAt(cols[c], b2)) = TheId(BlocksAt(cols[c], b))
  <2> DEFINE col == cols[c]
  <2>1. col \in Col
    OBVIOUS
  <2>2. BlocksAt(col, b) # {} /\ col.off + col.total <= m
    BY DEF ColsLive
  <2> HIDE DEF col
  <2>3. TheId(BlocksAt(col, b2)) = TheId(BlocksAt(col, b))
    BY <2>1, <2>2, BlocksSame
  <2> QED
    BY <2>3 DEF col
<1> QED
  BY <1>1 DEF ColsRead

\* and so do the groups.
LEMMA GroupsReadSame ==
    ASSUME NEW b \in SUBSET Extent, NEW b2 \in SUBSET Extent, BodyOK(b2),
           NEW m \in Nat, KeptBelow(b, b2, m),
           NEW gs \in Seq(Group), BlocksLive(gs, b, m)
    PROVE  GroupsRead(gs, b2) = GroupsRead(gs, b)
<1>1. ASSUME NEW g \in DOMAIN gs
      PROVE  ColsRead(gs[g].cols, b2) = ColsRead(gs[g].cols, b)
  <2>1. gs[g].cols \in Seq(Col)
    BY GroupType
  <2>2. ColsLive(gs[g].cols, b, m)
    BY DEF BlocksLive
  <2> QED
    BY <2>1, <2>2, ColsReadSame
<1>2. \A g \in DOMAIN gs :
         [cols |-> ColsRead(gs[g].cols, b2), stats |-> gs[g].stats]
         = [cols |-> ColsRead(gs[g].cols, b), stats |-> gs[g].stats]
  BY <1>1
<1> QED
  BY <1>2, Zenon DEF GroupsRead

\* A committed header whose every reference holds reads as the groups its
\* index lists.
LEMMA ContentsOf ==
    ASSUME NEW b \in SUBSET Extent, BodyOK(b), NEW h, Committed(h),
           HeaderOK(h, b), NEW gs, IndexLive(h, b, gs)
    PROVE  Contents(h, b) =
              [schema |-> IF h.schema_size = 0 THEN 0 ELSE TheId(SchemasAt(h, b)),
               groups |-> GroupsRead(gs, b)]
<1>1. PICK x \in IndexesAt(h, b) : x.groups = gs
  BY DEF IndexLive
<1>2. (CHOOSE y \in IndexesAt(h, b) : TRUE).groups = gs
  BY <1>1, OneIndex
<1>3. Readable(h, b)
  <2>1. PICK y \in IndexesAt(h, b) :
           IndexParses(y.groups, h.has_stats) /\ BlocksLive(y.groups, b, h.idx_off)
    BY DEF HeaderOK
  <2>2. h.schema_size # 0 => SchemasAt(h, b) # {}
    BY DEF HeaderOK, SchemaLive
  <2> QED
    BY <2>1, <2>2 DEF Readable, BlocksLive, ColsLive
<1> QED
  BY <1>2, <1>3 DEF Contents, GroupsRead, ColsRead

-----------------------------------------------------------------------------
(* The store of a pass.                                                    *)

\* While a container is open for widening or extending, any header that says
\* of it what the original one says, and names a copy of its index, reads as
\* the container found.
LEMMA FoundContents ==
    ASSUME IInv, Reopened, NEW b \in SUBSET Extent, BodyOK(b),
           NEW h \in Header, h.magic,
           SchemaOffset(h) = SchemaOffset(orig_hdr),
           BlocksStart(h) = BlocksStart(orig_hdr),
           h.schema_size = orig_hdr.schema_size,
           h.has_stats = orig_hdr.has_stats,
           reuse_start <= h.idx_off,
           BlocksLive(orig_groups, b, reuse_start),
           SchemaLive(orig_hdr, b, reuse_start),
           IndexLive(h, b, orig_groups)
    PROVE  Contents(h, b) =
              [schema |-> IF orig_hdr.schema_size = 0 THEN 0
                          ELSE TheId(SchemasAt(orig_hdr, b)),
               groups |-> GroupsRead(orig_groups, b)]
<1>1. HeaderOK(h, b)
  BY FoundReadsAs
<1>2. Committed(h)
  <2>1. HeaderSize <= SchemaOffset(orig_hdr)
        /\ SchemaOffset(orig_hdr) + orig_hdr.schema_size <= reuse_start
    BY DEF SchemaLive
  <2>2. /\ SchemaOffset(orig_hdr) \in Nat /\ orig_hdr.schema_size \in Nat
        /\ reuse_start \in Nat /\ h.idx_off \in Nat
    BY HeaderFields, OffsetTypes DEF Header
  <2> QED
    BY <2>1, <2>2, SizesAssumption DEF Committed
<1>3. SchemasAt(h, b) = SchemasAt(orig_hdr, b)
  BY DEF SchemasAt
<1>4. Contents(h, b) =
         [schema |-> IF h.schema_size = 0 THEN 0 ELSE TheId(SchemasAt(h, b)),
          groups |-> GroupsRead(orig_groups, b)]
  BY <1>1, <1>2, ContentsOf
<1> QED
  BY <1>3, <1>4

\* Where the body write that comes next goes, whatever the mode.
LEMMA WritePlace ==
    ASSUME IInv, mode # "closed", pc \in BodyWrites
    PROVE  /\ WriteAt \in Nat /\ WriteSize \in Nat
           /\ pc # "undo_index" => write_pos <= WriteAt
           /\ Reopened \/ mode = "create"
           /\ pc # "undo_index" => ~ failed
<1>1. /\ TypeOK /\ write_pos \in Nat /\ io \in Nat
      /\ groups \in Seq(Group) /\ schema_cols \in Nat
  BY DEF IInv, TypeOK
<1>2. pc # "undo_index" => ~ failed
  BY DEF IInv, ControlOK, BodyWrites
<1>3. Reopened \/ mode = "create"
  BY <1>1 DEF TypeOK, Reopened
<1>4. CASE mode = "create"
  <2>1. pc \in {"open_schema", "append", "index"} /\ ~ failed
    BY <1>2, <1>4 DEF IInv, ControlOK, BodyWrites
  <2>2. io = write_pos
    BY <1>4, <2>1 DEF IInv, CreateOK, StagedOK, AtCursor
  <2>3. pc = "append" => RecordSize[req.payload] \in Nat
    BY SizesAssumption DEF IInv, ControlOK
  <2>4. SizeOfSchema(schema_cols) \in Nat /\ SizeOfIndex(groups) \in Nat
    BY <1>1, SizeOfSchemaType, SizeOfIndexType
  <2>5. WriteAt = io /\ WriteSize \in Nat
    BY <2>1, <2>3, <2>4 DEF WriteAt, WriteSize
  <2> QED
    BY <1>1, <1>2, <1>4, <2>2, <2>5
<1>5. CASE Reopened
  BY <1>2, <1>3, <1>5, WriteRegion
<1> QED
  BY <1>3, <1>4, <1>5

\* A write into the body, whole or torn, leaves what the container holds,
\* what the pass has staged and the schema of either.
LEMMA BodyKept ==
    ASSUME IInv, NonemptyOK, mode # "closed", pc \in BodyWrites,
           NEW n \in 0..WriteSize, NEW b \in SUBSET Extent, BodyOK(b),
           Spared(body, WriteAt, n) \subseteq b
    PROVE  /\ Contents(hdr, b) = Contents(hdr, body)
           /\ Committed(hdr) => \A x \in IndexesAt(hdr, b) : x.groups # <<>>
           /\ pc # "undo_index" => KeptBelow(body, b, write_pos)
           /\ Reopened => KeptBelow(body, b, reuse_start)
<1>1. /\ WriteAt \in Nat /\ WriteSize \in Nat /\ n \in Nat /\ n <= WriteSize
      /\ pc # "undo_index" => write_pos <= WriteAt
      /\ Reopened \/ mode = "create"
  BY WritePlace
<1>2. /\ body \in SUBSET Extent /\ BodyOK(body)
      /\ write_pos \in Nat /\ reuse_start \in Nat
      /\ orig_groups \in Seq(Group) /\ orig_hdr \in Header /\ hdr \in Header
  BY DEF IInv, TypeOK
<1>3. pc # "undo_index" => KeptBelow(body, b, write_pos)
  BY <1>1, <1>2, SparedBelow
<1>4. CASE mode = "create"
  <2>1. ~ Committed(hdr) /\ ~ Reopened
    BY <1>4 DEF IInv, CreateOK, Reopened
  <2> QED
    BY <1>3, <2>1 DEF Contents
<1>5. CASE Reopened
  <2>1. /\ reuse_start <= WriteAt
        /\ WriteAt + n <= hdr.idx_off \/ hdr.idx_off + hdr.idx_size <= WriteAt
    BY <1>1, <1>5, WriteRegion, HeaderFields
  <2>2. KeptBelow(body, b, reuse_start)
    BY <1>1, <1>2, <2>1, SparedBelow
  <2>3. /\ BlocksLive(orig_groups, b, reuse_start)
        /\ SchemaLive(orig_hdr, b, reuse_start)
        /\ IndexLive(hdr, b, orig_groups)
    BY <1>1, <1>5, <2>1, FoundKept
  <2>4. /\ BlocksLive(orig_groups, body, reuse_start)
        /\ SchemaLive(orig_hdr, body, reuse_start)
        /\ IndexLive(hdr, body, orig_groups)
    BY <1>5 DEF IInv, FoundOK
  <2>5. GroupsRead(orig_groups, b) = GroupsRead(orig_groups, body)
    BY <1>2, <2>2, <2>4, GroupsReadSame
  <2>6. orig_hdr.schema_size # 0 =>
           SchemasAt(orig_hdr, b) = SchemasAt(orig_hdr, body)
    BY <1>2, <2>2, <2>4, SchemasSame
  <2>7. Contents(hdr, b) =
           [schema |-> IF orig_hdr.schema_size = 0 THEN 0
                       ELSE TheId(SchemasAt(orig_hdr, b)),
            groups |-> GroupsRead(orig_groups, b)]
    BY <1>5, <2>3, HeaderFields, FoundContents
  <2>8. Contents(hdr, body) =
           [schema |-> IF orig_hdr.schema_size = 0 THEN 0
                       ELSE TheId(SchemasAt(orig_hdr, body)),
            groups |-> GroupsRead(orig_groups, body)]
    BY <1>2, <1>5, <2>4, HeaderFields, FoundContents
  <2>9. \A x \in IndexesAt(hdr, b) : x.groups # <<>>
    <3>1. PICK y \in IndexesAt(hdr, b) : y.groups = orig_groups
      BY <2>3 DEF IndexLive
    <3>2. orig_groups # <<>>
      BY <1>5 DEF NonemptyOK
    <3> QED
      BY <3>1, <3>2, OneIndex
  <2> QED
    BY <1>3, <2>2, <2>5, <2>6, <2>7, <2>8, <2>9
<1> QED
  BY <1>1, <1>4, <1>5

\* Repointing the header, and putting the original one back, change nothing a
\* reader finds.
LEMMA HeaderKept ==
    ASSUME PassInv, pc \in {"repoint", "undo_header"}
    PROVE  /\ Reopened
           /\ Contents(NextHeader, body) = Contents(hdr, body)
           /\ \A x \in IndexesAt(NextHeader, body) : x.groups # <<>>
<1> DEFINE h == NextHeader
<1>1. Reopened /\ IInv /\ NonemptyOK
  BY DEF PassInv, IInv, ControlOK, Reopened, TypeOK
<1>2. /\ h \in Header /\ h.magic
      /\ SchemaOffset(h) = SchemaOffset(orig_hdr)
      /\ BlocksStart(h) = BlocksStart(orig_hdr)
      /\ h.schema_size = orig_hdr.schema_size
      /\ h.has_stats = orig_hdr.has_stats
      /\ reuse_start <= h.idx_off
      /\ IndexLive(h, body, orig_groups)
  <2>1. CASE pc = "repoint"
    <3> DEFINE at == CopyOffset(Need)
    <3>1. h = MovedHeader(at)
      BY <2>1 DEF NextHeader
    <3>2. at \in Nat /\ reuse_start <= at
      BY <1>1, <2>1, NeedType, CopyRoom, HeaderFields DEF IInv, CursorOK, Header
    <3>3. \E x \in body : /\ x.kind = "index" /\ x.at = at
                          /\ x.size = orig_hdr.idx_size
                          /\ x.groups = orig_groups
      BY <1>1, <2>1 DEF IInv, CursorOK
    <3>4. orig_hdr \in Header
      BY <1>1, HeaderFields
    <3> HIDE DEF at, h
    <3> QED
      BY <3>1, <3>2, <3>3, <3>4, MovedFields DEF IndexLive, IndexesAt
  <2>2. CASE pc = "undo_header"
    <3>1. h = orig_hdr
      BY <2>2 DEF NextHeader
    <3> QED
      BY <1>1, <2>2, <3>1, HeaderFields DEF IInv, CursorOK, FoundOK
  <2> QED
    BY <2>1, <2>2
<1>3. /\ body \in SUBSET Extent /\ BodyOK(body) /\ hdr \in Header
      /\ BlocksLive(orig_groups, body, reuse_start)
      /\ SchemaLive(orig_hdr, body, reuse_start)
      /\ IndexLive(hdr, body, orig_groups)
      /\ orig_groups # <<>>
  BY <1>1 DEF IInv, TypeOK, FoundOK, NonemptyOK
<1> HIDE DEF h
<1> DEFINE found == [schema |-> IF orig_hdr.schema_size = 0 THEN 0
                                ELSE TheId(SchemasAt(orig_hdr, body)),
                     groups |-> GroupsRead(orig_groups, body)]
<1>4. Contents(h, body) = found
  BY <1>1, <1>2, <1>3, FoundContents
<1>5. Contents(hdr, body) = found
  BY <1>1, <1>3, HeaderFields, FoundContents
<1>6. PICK y \in IndexesAt(h, body) : y.groups = orig_groups
  BY <1>2 DEF IndexLive
<1>7. \A x \in IndexesAt(h, body) : x.groups # <<>>
  BY <1>3, <1>6, OneIndex
<1> QED
  BY <1>1, <1>4, <1>5, <1>7 DEF h

\* What the pass in progress would store.
Promised == [schema |-> schema_cols, groups |-> want.groups]

\* Patching the header stores what was promised; without seeking, or with no
\* row group, it stores nothing.
LEMMA PatchedContents ==
    ASSUME PassInv, pc = "patch", hdr' = FinalHeader, body' = body
    PROVE  /\ \/ Contents(hdr', body) = Contents(hdr, body)
              \/ want.groups # <<>> /\ Contents(hdr', body) = Promised
           /\ Committed(hdr') =>
                 \A x \in IndexesAt(hdr', body) : x.groups # <<>>
<1>1. /\ IInv /\ ~ failed /\ mode # "closed" /\ TypeOK
      /\ body \in SUBSET Extent /\ BodyOK(body)
      /\ groups \in Seq(Group) /\ write_pos \in Nat /\ schema_cols \in Nat
  BY DEF PassInv, IInv, ControlOK, TypeOK
<1>2. HeaderOK(hdr', body) /\ hdr' \in Header
  BY <1>1, NewHeader DEF NextHeader, HeaderWrites
<1>3. CASE ~ seekable
  BY <1>3 DEF FinalHeader, PassInv, NonemptyOK
<1>4. CASE seekable /\ groups = <<>>
  <2>1. ~ Committed(hdr')
    BY <1>4, EncoderHeaderFields DEF FinalHeader, Committed
  <2>2. ~ Committed(hdr)
    BY <1>1, <1>4 DEF PassInv, NonemptyOK, IInv, CreateOK, TypeOK, Reopened
  <2> QED
    BY <2>1, <2>2 DEF Contents
<1>5. CASE seekable /\ groups # <<>>
  <2> DEFINE size == SizeOfIndex(groups)
             h    == EncoderHeader(n_blocks, write_pos, size, FinalSchemaOffset)
  <2>1. hdr' = h
    BY <1>5 DEF FinalHeader
  <2>2. size \in Nat /\ size > 0 /\ n_blocks \in Nat
    BY <1>1, SizeOfIndexType DEF TypeOK
  <2>3. /\ SchemaLive(h, body, write_pos) /\ FinalSchemaOffset \in Nat
    BY <1>1, <2>2, PatchedSchema
  <2>4. /\ h.idx_off = write_pos /\ h.idx_size = size
        /\ h.schema_size = SizeOfSchema(schema_cols)
        /\ FinalSchemaOffset # 0 => SchemaOffset(h) = FinalSchemaOffset
        /\ FinalSchemaOffset = 0 => SchemaOffset(h) = HeaderSize
    BY EncoderHeaderFields DEF SchemaOffset
  <2>5. PICK x \in body : /\ x.kind = "index" /\ x.at = write_pos
                          /\ x.size = size /\ x.groups = groups
    BY <1>1, <1>5 DEF IInv, StagedOK
  <2> HIDE DEF h, size
  <2>6. IndexLive(h, body, groups) /\ x \in IndexesAt(h, body)
    BY <2>4, <2>5 DEF IndexLive, IndexesAt
  <2>7. Committed(h)
    <3>1. HeaderSize <= SchemaOffset(h) /\ SchemaOffset(h) + h.schema_size <= write_pos
      BY <2>3 DEF SchemaLive
    <3>2. SchemaOffset(h) \in Nat /\ h.schema_size \in Nat
      BY <1>2, <2>1, OffsetTypes
    <3> QED
      BY <1>1, <2>4, <3>1, <3>2, SizesAssumption DEF Committed
  <2>8. Contents(h, body) =
           [schema |-> IF h.schema_size = 0 THEN 0 ELSE TheId(SchemasAt(h, body)),
            groups |-> GroupsRead(groups, body)]
    BY <1>1, <1>2, <2>1, <2>6, <2>7, ContentsOf
  <2>9. GroupsRead(groups, body) = want.groups
    BY <1>1 DEF PassInv, WantOK
  <2>10. want.groups # <<>>
    BY <1>5, <2>9 DEF GroupsRead
  <2>11. ASSUME schema_cols # 0
         PROVE  \E e \in SchemasAt(h, body) : e.id = schema_cols
    <3>1. SizeOfSchema(schema_cols) \in Nat
      BY <1>1, SizeOfSchemaType
    <3>2. CASE mode = "create"
      <4>1. FinalSchemaOffset = 0
        BY <3>2 DEF FinalSchemaOffset
      <4>2. PICK e \in body : /\ e.kind = "schema" /\ e.at = HeaderSize
                              /\ e.id = schema_cols
        BY <2>11, <3>2 DEF PassInv, SchemaIdOK
      <4>3. e.size = h.schema_size
        BY <1>1, <2>4, <4>2 DEF BodyOK
      <4> QED
        BY <2>4, <4>1, <4>2, <4>3 DEF SchemasAt
    <3>3. CASE mode = "extend"
      <4>1. FinalSchemaOffset = SchemaOffset(orig_hdr)
        BY <3>3 DEF FinalSchemaOffset
      <4>2. Reopened /\ HeaderSize <= SchemaOffset(orig_hdr)
        BY <3>3 DEF PassInv, IInv, FoundOK, SchemaLive, Reopened
      <4>3. SchemaOffset(orig_hdr) \in Nat
        BY <1>1, OffsetTypes DEF TypeOK
      <4>4. SchemaOffset(h) = SchemaOffset(orig_hdr)
        BY <2>4, <4>1, <4>2, <4>3, SizesAssumption
      <4>5. PICK e \in SchemasAt(orig_hdr, body) : e.id = schema_cols
        BY <3>3 DEF PassInv, SchemaIdOK
      <4>6. e.size = h.schema_size
        BY <1>1, <2>4, <4>5 DEF BodyOK, SchemasAt
      <4> QED
        BY <4>4, <4>5, <4>6 DEF SchemasAt
    <3>4. CASE mode = "widen"
      <4>1. FinalSchemaOffset = write_pos - SizeOfSchema(schema_cols)
        BY <3>4 DEF FinalSchemaOffset
      <4>2. PICK e \in body : /\ e.kind = "schema"
                              /\ e.at + e.size = write_pos
                              /\ e.id = schema_cols
        BY <3>4 DEF PassInv, SchemaIdOK
      <4>3. e.size = h.schema_size /\ e.at \in Nat /\ e.size \in Nat
        BY <1>1, <2>4, <4>2 DEF BodyOK, Extent
      <4>4. e.at = FinalSchemaOffset
        BY <1>1, <2>4, <3>1, <4>1, <4>2, <4>3
      <4>5. SchemaOffset(h) = e.at
        <5>1. HeaderSize <= SchemaOffset(h)
          BY <2>3 DEF SchemaLive
        <5>2. /\ Reopened /\ reuse_start \in Nat
              /\ HeaderSize <= SchemaOffset(orig_hdr)
              /\ SchemaOffset(orig_hdr) + orig_hdr.schema_size <= reuse_start
              /\ orig_hdr \in Header
          BY <1>1, <3>4 DEF PassInv, IInv, FoundOK, SchemaLive, Reopened, TypeOK
        <5>3. PICK f \in body : /\ f.at + f.size = write_pos
                                /\ f.size = SizeOfSchema(schema_cols)
                                /\ f.at >= reuse_start
          BY <3>4, <5>2 DEF PassInv, IInv, SchemaOK
        <5>4. f.at \in Nat /\ f.size \in Nat
          BY <1>1 DEF Extent
        <5>5. f.at = FinalSchemaOffset
          BY <1>1, <3>1, <4>1, <5>3, <5>4
        <5>6. SchemaOffset(orig_hdr) \in Nat /\ orig_hdr.schema_size \in Nat
          BY <5>2, OffsetTypes
        <5>7. FinalSchemaOffset # 0
          BY <5>2, <5>3, <5>4, <5>5, <5>6, SizesAssumption
        <5> QED
          BY <2>4, <4>4, <5>7
      <4> QED
        BY <4>2, <4>3, <4>5 DEF SchemasAt
    <3> QED
      BY <1>1, <3>2, <3>3, <3>4 DEF TypeOK
  <2>12. (IF h.schema_size = 0 THEN 0 ELSE TheId(SchemasAt(h, body)))
         = schema_cols
    <3>1. schema_cols = 0 <=> h.schema_size = 0
      BY <1>1, <2>4, SizeOfSchemaType
    <3>2. schema_cols # 0 => TheId(SchemasAt(h, body)) = schema_cols
      BY <1>1, <2>11, OneSchema DEF TheId
    <3> QED
      BY <3>1, <3>2
  <2>13. \A y \in IndexesAt(h, body) : y.groups # <<>>
    BY <1>1, <1>5, <2>5, <2>6, OneIndex
  <2> QED
    BY <2>1, <2>8, <2>9, <2>10, <2>12, <2>13 DEF Promised
<1> QED
  BY <1>3, <1>4, <1>5 DEF TypeOK

-----------------------------------------------------------------------------
(* Steps that free the encoder.                                            *)

\* Every way a pass ends stores what was promised, or nothing.
LEMMA PassEnds ==
    ASSUME PassInv,
           \/ PatchHeader \/ Abort \/ RestoreHeader \/ Crash
           \/ LastWriteFails
           \/ HookFails /\ req.call = "close"
           \/ NoMemory /\ pc = "index"
    PROVE  /\ mode # "closed"
           /\ \E how \in {"closed", "aborted", "error", "crashed"} : Free(how)
           /\ \/ Contents(hdr', body') = Contents(hdr, body)
              \/ want.groups # <<>> /\ Contents(hdr', body') = Promised
           /\ Committed(hdr') =>
                 \A x \in IndexesAt(hdr', body') : x.groups # <<>>
<1>1. /\ IInv /\ NonemptyOK /\ TypeOK /\ body \in SUBSET Extent /\ BodyOK(body)
      /\ mode = "closed" => pc = "idle"
  BY DEF PassInv, IInv, ControlOK, TypeOK
<1>2. ASSUME UNCHANGED <<hdr, body>>
      PROVE  /\ Contents(hdr', body') = Contents(hdr, body)
             /\ Committed(hdr') =>
                   \A x \in IndexesAt(hdr', body') : x.groups # <<>>
  BY <1>1, <1>2 DEF NonemptyOK
<1>3. ASSUME hdr' = hdr, pc \in BodyWrites, mode # "closed",
             NEW n \in 0..WriteSize, body' = Spared(body, WriteAt, n)
      PROVE  /\ Contents(hdr', body') = Contents(hdr, body)
             /\ Committed(hdr') =>
                   \A x \in IndexesAt(hdr', body') : x.groups # <<>>
  <2>1. body' \in SUBSET Extent /\ BodyOK(body')
    BY <1>1, <1>3, SparedBody
  <2> QED
    BY <1>1, <1>3, <2>1, BodyKept
<1>4. ASSUME hdr' = NextHeader, body' = body, pc \in HeaderWrites
      PROVE  /\ \/ Contents(hdr', body') = Contents(hdr, body)
                \/ want.groups # <<>> /\ Contents(hdr', body') = Promised
             /\ Committed(hdr') =>
                   \A x \in IndexesAt(hdr', body') : x.groups # <<>>
  <2>1. CASE pc = "patch"
    BY <1>4, <2>1, PatchedContents DEF NextHeader
  <2>2. CASE pc \in {"repoint", "undo_header"}
    BY <1>4, <2>2, HeaderKept
  <2> QED
    BY <1>4, <2>1, <2>2 DEF HeaderWrites
<1>5. CASE PatchHeader
  <2>1. pc = "patch" /\ hdr' = FinalHeader /\ body' = body /\ Free("closed")
    BY <1>5 DEF PatchHeader
  <2>2. hdr' = NextHeader /\ pc \in HeaderWrites
    BY <2>1 DEF NextHeader, HeaderWrites
  <2> QED
    BY <1>1, <1>4, <2>1, <2>2
<1>6. CASE Abort
  BY <1>2, <1>6 DEF Abort, disk
<1>7. CASE RestoreHeader
  <2>1. pc = "undo_header" /\ hdr' = orig_hdr /\ body' = body /\ Free("aborted")
    BY <1>7 DEF RestoreHeader
  <2>2. hdr' = NextHeader /\ pc \in HeaderWrites
    BY <2>1 DEF NextHeader, HeaderWrites
  <2> QED
    BY <1>1, <1>4, <2>1, <2>2
<1>8. CASE Crash
  <2>1. mode # "closed" /\ hdr' = hdr /\ Free("crashed")
    BY <1>8 DEF Crash
  <2>2. CASE pc \in BodyWrites
    <3>1. PICK n \in 0..WriteSize : body' = Spared(body, WriteAt, n)
      BY <1>8, <2>2 DEF Crash
    <3> QED
      BY <1>3, <2>1, <2>2, <3>1
  <2>3. CASE pc \notin BodyWrites
    <3>1. body' = body
      BY <1>8, <2>3 DEF Crash
    <3> QED
      BY <1>2, <2>1, <3>1
  <2> QED
    BY <2>2, <2>3
<1>9. CASE LastWriteFails
  <2>1. Free("error")
    BY <1>9 DEF LastWriteFails
  <2>2. CASE pc \in BodyWrites /\ hdr' = hdr
               /\ \E n \in 0..WriteSize : body' = Spared(body, WriteAt, n)
    <3>1. mode # "closed"
      BY <1>1, <2>2 DEF BodyWrites
    <3> QED
      BY <1>3, <2>1, <2>2, <3>1
  <2>3. CASE pc \in HeaderWrites /\ hdr' \in {hdr, NextHeader} /\ body' = body
    <3>1. mode # "closed"
      BY <1>1, <2>3 DEF HeaderWrites
    <3> QED
      BY <1>2, <1>4, <2>1, <2>3, <3>1
  <2> QED
    BY <1>9, <2>2, <2>3 DEF LastWriteFails
<1>10. CASE HookFails /\ req.call = "close"
  <2>1. pc = "hook" /\ UNCHANGED <<hdr, body>> /\ Free("error")
    BY <1>10 DEF HookFails, disk
  <2> QED
    BY <1>1, <1>2, <2>1
<1>11. CASE NoMemory /\ pc = "index"
  <2>1. UNCHANGED <<hdr, body>> /\ Free("error")
    BY <1>11 DEF NoMemory, disk
  <2> QED
    BY <1>1, <1>2, <1>11, <2>1
<1> QED
  BY <1>5, <1>6, <1>7, <1>8, <1>9, <1>10, <1>11

\* Of no groups and no columns nothing is read.
LEMMA NothingRead ==
    ASSUME NEW b
    PROVE  GroupsRead(<<>>, b) = <<>> /\ ColsRead(<<>>, b) = <<>>
BY DEF GroupsRead, ColsRead

\* An encoder that is freed keeps PassInv if its file does.
LEMMA FreeKeeps ==
    ASSUME IInv', NEW how, Free(how),
           Committed(hdr') => \A x \in IndexesAt(hdr', body') : x.groups # <<>>
    PROVE  PassInv'
<1>1. /\ mode' = "closed" /\ schema_cols' = 0 /\ cur_cols' = <<>>
      /\ cur_stats' = <<>> /\ groups' = <<>> /\ pc' = "idle"
      /\ failed' = FALSE /\ want' = [groups |-> <<>>, open |-> <<>>]
  BY DEF Free
<1>2. WantOK'
  BY <1>1, NothingRead DEF WantOK
<1>3. StatsOK' /\ SchemaIdOK' /\ MovedOK' /\ RoomOK' /\ IdleOK'
  BY <1>1 DEF StatsOK, SchemaIdOK, MovedOK, RoomOK, IdleOK, Reopened
<1>4. NonemptyOK'
  BY <1>1 DEF NonemptyOK, Reopened
<1> QED
  BY <1>2, <1>3, <1>4 DEF PassInv

\* In the terms of Container: the pass is committed or discarded.
LEMMA EndsAsPromised ==
    ASSUME PassInv,
           \/ PatchHeader \/ Abort \/ RestoreHeader \/ Crash
           \/ LastWriteFails
           \/ HookFails /\ req.call = "close"
           \/ NoMemory /\ pc = "index"
    PROVE  C!Next
<1>1. /\ mode # "closed"
      /\ \E how \in {"closed", "aborted", "error", "crashed"} : Free(how)
      /\ \/ Contents(hdr', body') = Contents(hdr, body)
         \/ want.groups # <<>> /\ Contents(hdr', body') = Promised
  BY PassEnds
<1>2. /\ mode' = "closed" /\ schema_cols' = 0 /\ cur_stats' = <<>>
      /\ want'.groups = <<>> /\ want'.open = <<>>
  BY <1>1 DEF Free
<1>3. CASE Contents(hdr', body') = Contents(hdr, body)
  <2>1. C!Discard
    BY <1>1, <1>2, <1>3 DEF C!Discard, C!NoPass
  <2> QED
    BY <2>1 DEF C!Next
<1>4. CASE want.groups # <<>> /\ Contents(hdr', body') = Promised
  <2>1. C!Commit
    BY <1>1, <1>2, <1>4 DEF C!Commit, C!NoPass, Promised
  <2> QED
    BY <2>1 DEF C!Next
<1> QED
  BY <1>1, <1>3, <1>4

-----------------------------------------------------------------------------
(* Opening.                                                                *)

\* The pass of Container with some of its fields replaced: one at a time, for
\* the provers.
LEMMA PassOpened ==
    ASSUME NEW k, NEW n, NEW gs
    PROVE  /\ [C!NoPass EXCEPT !.kind = k, !.schema = n] =
                 [kind |-> k, schema |-> n, groups |-> <<>>, open |-> <<>>,
                  stats |-> <<>>]
           /\ [C!NoPass EXCEPT !.kind = k, !.schema = n, !.groups = gs] =
                 [kind |-> k, schema |-> n, groups |-> gs, open |-> <<>>,
                  stats |-> <<>>]
<1> DEFINE r == C!NoPass
           s == [r EXCEPT !.kind = k]
           t == [s EXCEPT !.schema = n]
<1>1. r = [kind |-> "closed", schema |-> 0, groups |-> <<>>, open |-> <<>>,
           stats |-> <<>>]
  BY DEF C!NoPass
<1>2. s = [kind |-> k, schema |-> 0, groups |-> <<>>, open |-> <<>>,
           stats |-> <<>>]
  <2> HIDE DEF r
  <2> QED
    BY <1>1
<1>3. t = [kind |-> k, schema |-> n, groups |-> <<>>, open |-> <<>>,
           stats |-> <<>>]
  <2> HIDE DEF s
  <2> QED
    BY <1>2
<1>4. [t EXCEPT !.groups = gs] =
         [kind |-> k, schema |-> n, groups |-> gs, open |-> <<>>,
          stats |-> <<>>]
  <2> HIDE DEF t
  <2> QED
    BY <1>3
<1>5. [C!NoPass EXCEPT !.kind = k, !.schema = n] = t
  BY DEF C!NoPass
<1>6. [C!NoPass EXCEPT !.kind = k, !.schema = n, !.groups = gs]
      = [t EXCEPT !.groups = gs]
  BY DEF C!NoPass
<1> QED
  BY <1>3, <1>4, <1>5, <1>6

\* Creating a container begins a pass of Container.
LEMMA CreateKeeps ==
    ASSUME PassInv, IInv', NEW n \in Columns, NEW s, OpenCreate(n, s)
    PROVE  PassInv' /\ C!BeginCreate(n)
<1>1. /\ mode = "closed" /\ ~ Committed(hdr) /\ mode' = "create"
      /\ hdr' = [NoHeader EXCEPT !.magic = TRUE,
                                 !.schema_size = SizeOfSchema(n)]
      /\ schema_cols' = n /\ pc' = IF n = 0 THEN "idle" ELSE "open_schema"
      /\ UNCHANGED <<orig_hdr, orig_groups, cur_cols, cur_stats, groups, req,
                     failed, want>>
  BY DEF OpenCreate, CanOpen, openrg, staged
<1>2. /\ groups = <<>> /\ cur_cols = <<>> /\ cur_stats = <<>>
      /\ want = [groups |-> <<>>, open |-> <<>>] /\ schema_cols = 0
  BY <1>1 DEF PassInv, IInv, ControlOK, IdleOK
<1>3. ~ Committed(hdr')
  BY <1>1 DEF Committed, NoHeader
<1>4. WantOK'
  BY <1>1, <1>2, NothingRead DEF WantOK
<1>5. StatsOK' /\ MovedOK' /\ RoomOK' /\ IdleOK' /\ NonemptyOK' /\ SchemaIdOK'
  BY <1>1, <1>2, <1>3
     DEF StatsOK, MovedOK, RoomOK, IdleOK, NonemptyOK, SchemaIdOK, Reopened
<1>6. C!BeginCreate(n)
  <2>1. /\ Contents(hdr, body) = [schema |-> 0, groups |-> <<>>]
        /\ Contents(hdr', body') = [schema |-> 0, groups |-> <<>>]
    BY <1>1, <1>3 DEF Contents
  <2>2. /\ want.groups = <<>> /\ want.open = <<>>
        /\ want'.groups = <<>> /\ want'.open = <<>> /\ cur_stats' = <<>>
    BY <1>1, <1>2
  <2> DEFINE pass == [kind |-> mode, schema |-> schema_cols,
                      groups |-> want.groups, open |-> want.open,
                      stats |-> cur_stats]
  <2>3. pass = C!NoPass
    BY <1>1, <1>2, <2>2 DEF C!NoPass
  <2>4. pass' = [C!NoPass EXCEPT !.kind = "create", !.schema = n]
    BY <1>1, <2>2, PassOpened
  <2>5. Contents(hdr, body) = C!Nothing /\ Contents(hdr, body)' = Contents(hdr, body)
    BY <2>1 DEF C!Nothing
  <2> QED
    BY <2>3, <2>4, <2>5 DEF C!BeginCreate
<1> QED
  BY <1>4, <1>5, <1>6 DEF PassInv

\* A pass that reopens a container promises, to begin with, what it found.
LEMMA ReopenKeeps ==
    ASSUME PassInv, IInv', CanOpen, NEW x \in IndexesAt(hdr, body), Reopen(x),
           mode' \in {"widen", "extend"},
           mode' = "extend" =>
              \E e \in SchemasAt(hdr, body) : e.id = schema_cols'
    PROVE  /\ PassInv'
           /\ Contents(hdr', body') = Contents(hdr, body)
           /\ Contents(hdr, body).groups # <<>>
           /\ want' = [groups |-> Contents(hdr, body).groups, open |-> <<>>]
           /\ mode = "closed" /\ schema_cols = 0 /\ cur_stats = <<>>
           /\ want = [groups |-> <<>>, open |-> <<>>] /\ cur_stats' = <<>>
           /\ hdr.schema_size # 0 =>
                 Contents(hdr, body).schema = TheId(SchemasAt(hdr, body))
<1>1. /\ mode = "closed" /\ Committed(hdr) /\ orig_hdr' = hdr
      /\ orig_groups' = x.groups /\ groups' = x.groups
      /\ live_index_off' = hdr.idx_off
      /\ want' = [groups |-> Contents(hdr, body).groups, open |-> <<>>]
      /\ hdr' = hdr /\ body' = body
      /\ UNCHANGED <<moves, cur_cols, cur_stats, pc, req, failed>>
  BY DEF CanOpen, Reopen, disk, openrg
<1>2. /\ IInv /\ cur_cols = <<>> /\ cur_stats = <<>>
      /\ want = [groups |-> <<>>, open |-> <<>>] /\ schema_cols = 0
      /\ pc = "idle" /\ moves = 0
      /\ body \in SUBSET Extent /\ BodyOK(body) /\ HeaderOK(hdr, body)
  BY <1>1 DEF PassInv, IInv, ControlOK, IdleOK, TypeOK
<1>3. Contents(hdr, body) =
         [schema |-> IF hdr.schema_size = 0 THEN 0
                     ELSE TheId(SchemasAt(hdr, body)),
          groups |-> GroupsRead(x.groups, body)]
  BY <1>1, <1>2, ContentsOf DEF IndexLive
<1>4. x.groups # <<>>
  BY <1>1 DEF PassInv, NonemptyOK
<1>5. GroupsRead(x.groups, body) # <<>>
  <2>1. x.groups \in Seq(Group)
    BY <1>2 DEF IndexesAt, Extent
  <2>2. 1 \in DOMAIN x.groups
    BY <1>4, <2>1
  <2> QED
    BY <2>2 DEF GroupsRead
<1>6. WantOK'
  BY <1>1, <1>2, <1>3, NothingRead DEF WantOK
<1>7. StatsOK' /\ RoomOK' /\ IdleOK' /\ SchemaIdOK'
  BY <1>1, <1>2 DEF StatsOK, RoomOK, IdleOK, SchemaIdOK
<1>8. NonemptyOK' /\ MovedOK'
  BY <1>1, <1>4 DEF PassInv, NonemptyOK, MovedOK, Reopened
<1> QED
  BY <1>1, <1>2, <1>3, <1>5, <1>6, <1>7, <1>8 DEF PassInv

\* So does opening one, in whichever way.
LEMMA OpenKeeps ==
    ASSUME PassInv, IInv',
           \/ \E n \in Columns, s \in BOOLEAN : OpenCreate(n, s)
           \/ \E n \in Columns : OpenWiden(n)
           \/ OpenExtend
    PROVE  PassInv' /\ C!Next
<1>1. ASSUME NEW n \in Columns, NEW s, OpenCreate(n, s)
      PROVE  PassInv' /\ C!Next
  BY <1>1, CreateKeeps DEF C!Next
<1>2. ASSUME NEW n \in Columns, OpenWiden(n)
      PROVE  PassInv' /\ C!Next
  <2>1. PICK x \in IndexesAt(hdr, body) : Reopen(x)
    BY <1>2 DEF OpenWiden
  <2>2. CanOpen /\ mode' = "widen" /\ schema_cols' = n /\ n > 0
    BY <1>2 DEF OpenWiden
  <2>3. /\ PassInv'
        /\ Contents(hdr', body') = Contents(hdr, body)
        /\ Contents(hdr, body).groups # <<>>
        /\ want' = [groups |-> Contents(hdr, body).groups, open |-> <<>>]
        /\ mode = "closed" /\ schema_cols = 0 /\ cur_stats = <<>>
        /\ want = [groups |-> <<>>, open |-> <<>>] /\ cur_stats' = <<>>
    BY <2>1, <2>2, ReopenKeeps
  <2>4. C!BeginWiden(n)
    <3>1. /\ want.groups = <<>> /\ want.open = <<>> /\ want'.open = <<>>
          /\ want'.groups = Contents(hdr, body).groups
      BY <2>3
    <3> DEFINE pass == [kind |-> mode, schema |-> schema_cols,
                        groups |-> want.groups, open |-> want.open,
                        stats |-> cur_stats]
    <3>2. pass = C!NoPass
      BY <2>2, <2>3, <3>1 DEF C!NoPass
    <3> DEFINE gs == Contents(hdr, body).groups
    <3>3. pass' = [C!NoPass EXCEPT !.kind = "widen", !.schema = n, !.groups = gs]
      <4>1. pass' = [kind |-> "widen", schema |-> n, groups |-> gs,
                     open |-> <<>>, stats |-> <<>>]
        BY <2>2, <2>3, <3>1
      <4> HIDE DEF gs, pass
      <4>2. [C!NoPass EXCEPT !.kind = "widen", !.schema = n, !.groups = gs]
            = [kind |-> "widen", schema |-> n, groups |-> gs,
               open |-> <<>>, stats |-> <<>>]
        BY PassOpened
      <4> QED
        BY <4>1, <4>2
    <3> QED
      BY <2>2, <2>3, <3>1, <3>2, <3>3 DEF C!BeginWiden
  <2> QED
    BY <2>3, <2>4 DEF C!Next
<1>3. CASE OpenExtend
  <2>1. PICK x \in IndexesAt(hdr, body) : Reopen(x)
    BY <1>3 DEF OpenExtend
  <2>2. PICK e \in SchemasAt(hdr, body) : schema_cols' = e.id
    BY <1>3 DEF OpenExtend
  <2>3. CanOpen /\ mode' = "extend" /\ hdr.schema_size # 0
    BY <1>3 DEF OpenExtend
  <2>4. /\ PassInv'
        /\ Contents(hdr', body') = Contents(hdr, body)
        /\ Contents(hdr, body).groups # <<>>
        /\ want' = [groups |-> Contents(hdr, body).groups, open |-> <<>>]
        /\ mode = "closed" /\ schema_cols = 0 /\ cur_stats = <<>>
        /\ want = [groups |-> <<>>, open |-> <<>>] /\ cur_stats' = <<>>
        /\ Contents(hdr, body).schema = TheId(SchemasAt(hdr, body))
    BY <2>1, <2>2, <2>3, ReopenKeeps
  <2>5. body \in SUBSET Extent /\ BodyOK(body)
    BY DEF PassInv, IInv, TypeOK
  <2>6. TheId(SchemasAt(hdr, body)) = schema_cols'
    BY <2>2, <2>5, OneSchema DEF TheId
  <2>7. e.id \in Nat /\ SizeOfSchema(e.id) = hdr.schema_size
    BY <2>2, <2>5 DEF SchemasAt, BodyOK, Extent
  <2>8. schema_cols' > 0
    BY <2>2, <2>3, <2>7 DEF SizeOfSchema
  <2>9. C!BeginExtend
    <3>1. /\ want.groups = <<>> /\ want.open = <<>> /\ want'.open = <<>>
          /\ want'.groups = Contents(hdr, body).groups
      BY <2>4
    <3> DEFINE pass == [kind |-> mode, schema |-> schema_cols,
                        groups |-> want.groups, open |-> want.open,
                        stats |-> cur_stats]
    <3>2. pass = C!NoPass
      BY <2>3, <2>4, <2>6, <2>8, <3>1 DEF C!NoPass
    <3> DEFINE gs == Contents(hdr, body).groups
               n0 == Contents(hdr, body).schema
    <3>3. pass' = [C!NoPass EXCEPT !.kind = "extend", !.schema = n0, !.groups = gs]
      <4>1. pass' = [kind |-> "extend", schema |-> n0, groups |-> gs,
                     open |-> <<>>, stats |-> <<>>]
        BY <2>3, <2>4, <2>6, <2>8, <3>1
      <4> HIDE DEF gs, n0, pass
      <4>2. [C!NoPass EXCEPT !.kind = "extend", !.schema = n0, !.groups = gs]
            = [kind |-> "extend", schema |-> n0, groups |-> gs,
               open |-> <<>>, stats |-> <<>>]
        BY PassOpened
      <4> QED
        BY <4>1, <4>2
    <3> QED
      BY <2>3, <2>4, <2>6, <2>8, <3>1, <3>2, <3>3 DEF C!BeginExtend
  <2> QED
    BY <2>4, <2>9 DEF C!Next
<1> QED
  BY <1>1, <1>2, <1>3

-----------------------------------------------------------------------------
(* Writes into the body.                                                   *)

\* What any of them, whole or torn, leaves as it was.
LEMMA BodyWritten ==
    ASSUME PassInv, mode # "closed", pc \in BodyWrites, NEW n \in 0..WriteSize,
           body' \in SUBSET Extent, BodyOK(body'),
           Spared(body, WriteAt, n) \subseteq body',
           UNCHANGED <<hdr, session, live_index_off, moves>>
    PROVE  /\ Contents(hdr', body') = Contents(hdr, body)
           /\ Committed(hdr') =>
                 \A x \in IndexesAt(hdr', body') : x.groups # <<>>
           /\ MovedOK' /\ mode' # "closed"
           /\ pc # "undo_index" =>
                 /\ ~ failed
                 /\ GroupsRead(groups, body') = want.groups
                 /\ ColsRead(cur_cols, body') = want.open
           /\ mode = "create" /\ pc # "open_schema" /\ schema_cols # 0 =>
                 \E e \in body' : /\ e.kind = "schema"
                                  /\ e.at = HeaderSize
                                  /\ e.id = schema_cols
           /\ mode = "extend" =>
                 \E e \in SchemasAt(orig_hdr, body') : e.id = schema_cols
           /\ mode = "widen" /\ pc = "index" =>
                 \E e \in body' : /\ e.kind = "schema"
                                  /\ e.at + e.size = write_pos
                                  /\ e.id = schema_cols
<1>1. /\ IInv /\ NonemptyOK /\ TypeOK /\ body \in SUBSET Extent /\ BodyOK(body)
      /\ groups \in Seq(Group) /\ cur_cols \in Seq(Col) /\ write_pos \in Nat
      /\ reuse_start \in Nat /\ orig_hdr \in Header /\ schema_cols \in Nat
  BY DEF PassInv, IInv, TypeOK
<1>2. /\ Contents(hdr, body') = Contents(hdr, body)
      /\ Committed(hdr) => \A x \in IndexesAt(hdr, body') : x.groups # <<>>
      /\ pc # "undo_index" => KeptBelow(body, body', write_pos)
      /\ Reopened => KeptBelow(body, body', reuse_start)
  BY <1>1, BodyKept
<1>3. /\ hdr' = hdr /\ mode' = mode /\ orig_hdr' = orig_hdr
      /\ live_index_off' = live_index_off /\ moves' = moves
  BY DEF session
<1>4. MovedOK'
  BY <1>3 DEF PassInv, MovedOK, Reopened
<1>5. ASSUME pc # "undo_index"
      PROVE  /\ ~ failed
             /\ GroupsRead(groups, body') = want.groups
             /\ ColsRead(cur_cols, body') = want.open
  <2>1. ~ failed /\ pc # "undo_header"
    BY <1>1, <1>5, WritePlace DEF BodyWrites
  <2>2. BlocksLive(groups, body, write_pos) /\ ColsLive(cur_cols, body, write_pos)
    BY <1>1, <1>5, <2>1 DEF IInv, StagedOK
  <2>3. /\ want.groups = GroupsRead(groups, body)
        /\ want.open = ColsRead(cur_cols, body)
    BY <1>5, <2>1 DEF PassInv, WantOK
  <2>4. GroupsRead(groups, body') = GroupsRead(groups, body)
    BY <1>1, <1>2, <1>5, <2>2, GroupsReadSame
  <2>5. ColsRead(cur_cols, body') = ColsRead(cur_cols, body)
    BY <1>1, <1>2, <1>5, <2>2, ColsReadSame
  <2> QED
    BY <2>1, <2>3, <2>4, <2>5
<1>6. ASSUME mode = "create", pc # "open_schema", schema_cols # 0
      PROVE  \E e \in body' : /\ e.kind = "schema"
                              /\ e.at = HeaderSize
                              /\ e.id = schema_cols
  <2>1. PICK e \in body : /\ e.kind = "schema" /\ e.at = HeaderSize
                          /\ e.id = schema_cols
    BY <1>6 DEF PassInv, SchemaIdOK
  <2>2. e.size = SizeOfSchema(schema_cols)
    BY <1>1, <2>1 DEF BodyOK
  <2>3. HeaderSize + SizeOfSchema(schema_cols) <= write_pos
    BY <1>1, <1>6 DEF IInv, CreateOK
  <2>4. pc # "undo_index"
    BY <1>1, <1>6 DEF IInv, ControlOK
  <2>5. e \in body'
    BY <1>2, <2>1, <2>2, <2>3, <2>4 DEF KeptBelow
  <2> QED
    BY <2>1, <2>5
<1>7. ASSUME mode = "extend"
      PROVE  \E e \in SchemasAt(orig_hdr, body') : e.id = schema_cols
  <2>1. PICK e \in SchemasAt(orig_hdr, body) : e.id = schema_cols
    BY <1>7 DEF PassInv, SchemaIdOK
  <2>2. SchemaOffset(orig_hdr) + orig_hdr.schema_size <= reuse_start /\ Reopened
    BY <1>1, <1>7 DEF IInv, FoundOK, SchemaLive, Reopened
  <2>3. e \in body'
    BY <1>2, <2>1, <2>2 DEF KeptBelow, SchemasAt
  <2> QED
    BY <2>1, <2>3 DEF SchemasAt
<1>8. ASSUME mode = "widen", pc = "index"
      PROVE  \E e \in body' : /\ e.kind = "schema"
                              /\ e.at + e.size = write_pos
                              /\ e.id = schema_cols
  <2>1. PICK e \in body : /\ e.kind = "schema" /\ e.at + e.size = write_pos
                          /\ e.id = schema_cols
    BY <1>8 DEF PassInv, SchemaIdOK
  <2>2. e \in body'
    BY <1>1, <1>2, <1>8, <2>1 DEF KeptBelow
  <2> QED
    BY <2>1, <2>2
<1> QED
  BY <1>1, <1>2, <1>3, <1>4, <1>5, <1>6, <1>7, <1>8

\* The same of a whole write of the extent x.
LEMMA ExtentWritten ==
    ASSUME PassInv, mode # "closed", pc \in BodyWrites, NEW x \in Extent,
           x.at = WriteAt, x.size = WriteSize, x.size > 0,
           x.kind = "schema" => x.size = SizeOfSchema(x.id),
           x.kind = "block" => x.id \in Payload,
           body' = Put(body, x)
    PROVE  /\ body' \in SUBSET Extent /\ BodyOK(body') /\ x \in body'
           /\ Spared(body, WriteAt, WriteSize) \subseteq body'
           /\ WriteSize \in 0..WriteSize
<1>1. body \in SUBSET Extent /\ BodyOK(body)
  BY DEF PassInv, IInv, TypeOK
<1>2. WriteSize \in Nat
  BY WritePlace DEF PassInv
<1> QED
  BY <1>1, <1>2, PutBody

\* A write of a schema or of an index changes nothing the caller was promised.
LEMMA WriteKeeps ==
    ASSUME PassInv, IInv', mode # "closed", pc \in BodyWrites,
           NEW x \in Extent, x.at = WriteAt, x.size = WriteSize, x.size > 0,
           x.kind = "schema" => x.size = SizeOfSchema(x.id),
           x.kind # "block",
           body' = Put(body, x),
           UNCHANGED <<hdr, session, live_index_off, moves, openrg, staged,
                       req, failed, history>>,
           pc = "undo_index" <=> pc' = "undo_header",
           pc' \in {"idle", "repoint", "index", "patch", "undo_header"},
           pc' = "repoint" => ~ Fits(Need)' /\ (req.call = "write" => cur_stats = <<>>),
           mode = "create" /\ pc = "open_schema" =>
              x.kind = "schema" /\ x.at = HeaderSize /\ x.id = schema_cols,
           mode = "widen" /\ pc' \in {"index", "patch"} =>
              \/ pc = "index" /\ write_pos' = write_pos
              \/ /\ x.kind = "schema" /\ x.at + x.size = write_pos'
                 /\ x.id = schema_cols
    PROVE  PassInv' /\ UNCHANGED C!vars
<1>1. /\ body' \in SUBSET Extent /\ BodyOK(body') /\ x \in body'
      /\ Spared(body, WriteAt, WriteSize) \subseteq body'
      /\ WriteSize \in 0..WriteSize
  BY ExtentWritten
<1>2. /\ Contents(hdr', body') = Contents(hdr, body)
      /\ Committed(hdr') =>
            \A y \in IndexesAt(hdr', body') : y.groups # <<>>
      /\ MovedOK' /\ mode' # "closed"
      /\ pc # "undo_index" =>
            /\ GroupsRead(groups, body') = want.groups
            /\ ColsRead(cur_cols, body') = want.open
      /\ mode = "create" /\ pc # "open_schema" /\ schema_cols # 0 =>
            \E e \in body' : /\ e.kind = "schema"
                             /\ e.at = HeaderSize
                             /\ e.id = schema_cols
      /\ mode = "extend" =>
            \E e \in SchemasAt(orig_hdr, body') : e.id = schema_cols
      /\ mode = "widen" /\ pc = "index" =>
            \E e \in body' : /\ e.kind = "schema"
                             /\ e.at + e.size = write_pos
                             /\ e.id = schema_cols
  BY <1>1, BodyWritten
<1>3. /\ mode' = mode /\ schema_cols' = schema_cols /\ orig_hdr' = orig_hdr
      /\ orig_groups' = orig_groups /\ cur_cols' = cur_cols
      /\ cur_stats' = cur_stats /\ groups' = groups /\ want' = want
      /\ req' = req /\ failed' = failed /\ hdr' = hdr
  BY DEF session, openrg, staged, history
<1>4. WantOK'
  BY <1>2, <1>3 DEF WantOK
<1>5. StatsOK'
  BY <1>3 DEF PassInv, StatsOK
<1>6. NonemptyOK'
  BY <1>2, <1>3 DEF PassInv, NonemptyOK, Reopened
<1>7. SchemaIdOK'
  BY <1>1, <1>2, <1>3 DEF SchemaIdOK
<1>8. RoomOK' /\ IdleOK'
  BY <1>2 DEF RoomOK, IdleOK
<1>9. UNCHANGED C!vars
  BY <1>2, <1>3 DEF C!vars
<1> QED
  BY <1>2, <1>4, <1>5, <1>6, <1>7, <1>8, <1>9 DEF PassInv

\* Writing a schema, an index or the copy of one promises nothing new.
LEMMA SchemaKeeps ==
    ASSUME PassInv, IInv', WriteOpenSchema \/ WriteTailSchema
    PROVE  PassInv' /\ UNCHANGED C!vars
<1> DEFINE x == SchemaExtent(io, schema_cols)
<1>1. /\ pc \in {"open_schema", "schema"} /\ body' = Put(body, x)
      /\ write_pos' = write_pos + SizeOfSchema(schema_cols)
      /\ UNCHANGED <<hdr, session, live_index_off, moves, openrg, staged,
                     req, failed, history>>
      /\ pc = "open_schema" => pc' = "idle"
      /\ pc = "schema" => pc' \in {"index", "patch"}
  BY DEF WriteOpenSchema, WriteTailSchema
<1>2. /\ mode # "closed" /\ schema_cols # 0
      /\ io \in Nat /\ schema_cols \in Nat /\ io = write_pos
      /\ mode = "create" => pc = "open_schema" /\ io = HeaderSize
      /\ mode = "widen" => pc = "schema"
  BY <1>1 DEF PassInv, IInv, ControlOK, CreateOK, SchemaOK, StagedOK, Reopened,
              TypeOK, AtCursor
<1>3. /\ x \in Extent /\ x.at = io /\ x.size = SizeOfSchema(schema_cols)
      /\ x.size > 0 /\ x.kind = "schema" /\ x.id = schema_cols
  BY <1>2, SchemaExtentType
<1>4. WriteAt = io /\ WriteSize = SizeOfSchema(schema_cols) /\ pc \in BodyWrites
  BY <1>1 DEF WriteAt, WriteSize, BodyWrites
<1> HIDE DEF x
<1> QED
  BY <1>1, <1>2, <1>3, <1>4, WriteKeeps

\* So does the index a close writes: no header names it yet.
LEMMA IndexKeeps ==
    ASSUME PassInv, IInv', WriteIndex
    PROVE  PassInv' /\ UNCHANGED C!vars
<1> DEFINE x == IndexExtent(io, groups)
<1>1. /\ pc = "index" /\ body' = Put(body, x) /\ pc' = "patch"
      /\ write_pos' = write_pos
      /\ UNCHANGED <<hdr, session, live_index_off, moves, openrg, staged,
                     req, failed, history>>
  BY DEF WriteIndex
<1>2. mode # "closed" /\ io \in Nat /\ groups \in Seq(Group)
  BY <1>1 DEF PassInv, IInv, ControlOK, TypeOK
<1>3. /\ x \in Extent /\ x.at = io /\ x.size = SizeOfIndex(groups)
      /\ x.size > 0 /\ x.kind = "index"
  BY <1>2, IndexExtentType, SizeOfIndexType
<1>4. WriteAt = io /\ WriteSize = SizeOfIndex(groups) /\ pc \in BodyWrites
  BY <1>1 DEF WriteAt, WriteSize, BodyWrites
<1> HIDE DEF x
<1> QED
  BY <1>1, <1>2, <1>3, <1>4, WriteKeeps

\* A copy of the original index, ahead of the cursor or back in its place.
LEMMA CopyKeeps ==
    ASSUME PassInv, IInv', CopyIndex \/ RestoreIndex
    PROVE  PassInv' /\ UNCHANGED C!vars
<1> DEFINE x == [IndexExtent(WriteAt, orig_groups)
                    EXCEPT !.size = orig_hdr.idx_size]
<1>1. /\ pc \in {"copy", "undo_index"} /\ body' = Put(body, x)
      /\ write_pos' = write_pos
      /\ UNCHANGED <<hdr, session, live_index_off, moves, openrg, staged,
                     req, failed, history>>
      /\ pc = "copy" => pc' = "repoint"
      /\ pc = "undo_index" => pc' = "undo_header"
  BY DEF CopyIndex, RestoreIndex, WriteAt
<1>2. /\ mode # "closed" /\ Reopened /\ orig_groups \in Seq(Group)
      /\ orig_hdr.idx_size \in Nat /\ orig_hdr.idx_size > 0
      /\ mode # "create"
  BY <1>1 DEF PassInv, IInv, ControlOK, TypeOK, FoundOK, Reopened, Header
<1>3. pc \in BodyWrites /\ WriteSize = orig_hdr.idx_size
  BY <1>1 DEF WriteSize, BodyWrites
<1>4. WriteAt \in Nat
  BY <1>2, <1>3, WritePlace DEF PassInv
<1>5. /\ x \in Extent /\ x.at = WriteAt /\ x.size = orig_hdr.idx_size
      /\ x.size > 0 /\ x.kind = "index"
  BY <1>2, <1>4, IndexCopyType
<1>6. ASSUME pc = "copy"
      PROVE  ~ Fits(Need)' /\ (req.call = "write" => cur_stats = <<>>)
  <2>1. ~ Fits(Need)
    BY <1>6 DEF PassInv, RoomOK
  <2>2. Fits(Need)' = Fits(Need)
    BY <1>1 DEF Fits, Need, NeedOf, session, staged, openrg, SizeOfIndex,
                StatsEntries, ColEntries
  <2> QED
    BY <1>6, <2>1, <2>2 DEF PassInv, StatsOK
<1> HIDE DEF x
<1> QED
  BY <1>1, <1>2, <1>3, <1>4, <1>5, <1>6, WriteKeeps

-----------------------------------------------------------------------------
(* Blocks.                                                                 *)

\* A block more is read as a payload more.
LEMMA ColsReadAppend ==
    ASSUME NEW b \in SUBSET Extent, BodyOK(b), NEW cols \in Seq(Col),
           NEW c \in Col, NEW x \in BlocksAt(c, b), x.id \in Payload,
           NEW w \in Seq(Payload), w = ColsRead(cols, b)
    PROVE  ColsRead(Append(cols, c), b) = Append(w, x.id)
<1>1. TheId(BlocksAt(c, b)) = x.id
  BY OneBlock DEF TheId
<1>2. Len(w) = Len(cols)
  BY DEF ColsRead
<1>3. \A i \in 1..Len(cols) : w[i] = TheId(BlocksAt(cols[i], b))
  BY DEF ColsRead
<1> DEFINE more == Append(cols, c)
           wide == Append(w, x.id)
<1>4. /\ DOMAIN more = 1..(Len(cols) + 1)
      /\ \A i \in 1..Len(cols) : more[i] = cols[i]
      /\ more[Len(cols) + 1] = c
  OBVIOUS
<1>5. /\ wide \in Seq(Payload) /\ DOMAIN wide = 1..(Len(cols) + 1)
      /\ \A i \in 1..Len(cols) : wide[i] = w[i]
      /\ wide[Len(cols) + 1] = x.id
  BY <1>2
<1> HIDE DEF more, wide
<1>6. ASSUME NEW i \in 1..(Len(cols) + 1)
      PROVE  TheId(BlocksAt(more[i], b)) = wide[i]
  BY <1>1, <1>3, <1>4, <1>5
<1>7. ColsRead(more, b) = [i \in 1..(Len(cols) + 1) |-> TheId(BlocksAt(more[i], b))]
  BY <1>4 DEF ColsRead
<1>8. ColsRead(more, b) = wide
  BY <1>5, <1>6, <1>7
<1> QED
  BY <1>8 DEF more, wide

\* What the record being written leaves, whichever call writes it.
LEMMA RecordWritten ==
    ASSUME PassInv, pc = "append", Advance
    PROVE  /\ mode # "closed" /\ ~ failed /\ mode \in {"create", "extend", "widen"}
           /\ mode' = mode /\ schema_cols' = schema_cols /\ req.payload \in Payload
           /\ body' \in SUBSET Extent /\ BodyOK(body')
           /\ BlockExtent(io, req.payload) \in BlocksAt(Pending, body')
           /\ BlockExtent(io, req.payload).id = req.payload /\ Pending \in Col
           /\ Contents(hdr', body') = Contents(hdr, body)
           /\ GroupsRead(groups, body') = want.groups
           /\ ColsRead(cur_cols, body') = want.open
           /\ Committed(hdr') =>
                 \A y \in IndexesAt(hdr', body') : y.groups # <<>>
           /\ SchemaIdOK' /\ MovedOK' /\ RoomOK' /\ IdleOK'
<1> DEFINE p == req.payload
           x == BlockExtent(io, p)
<1>1. /\ body' = Put(body, x) /\ pc' = "idle"
      /\ UNCHANGED <<hdr, session, live_index_off, moves>>
  BY DEF Advance
<1>2. /\ mode # "closed" /\ mode \in {"create", "extend", "widen"}
      /\ p \in Payload /\ io \in Nat /\ io = write_pos /\ ~ failed
  BY DEF PassInv, IInv, ControlOK, StagedOK, TypeOK, AtCursor
<1>3. /\ x \in Extent /\ x.at = io /\ x.size = RecordSize[p] /\ x.size > 0
      /\ x.kind = "block" /\ x.id = p
  BY <1>2, BlockExtentType
<1>4. pc \in BodyWrites /\ WriteAt = io /\ WriteSize = RecordSize[p]
  BY DEF BodyWrites, WriteAt, WriteSize
<1> HIDE DEF x
<1>5. /\ body' \in SUBSET Extent /\ BodyOK(body') /\ x \in body'
      /\ Spared(body, WriteAt, WriteSize) \subseteq body'
      /\ WriteSize \in 0..WriteSize
  BY <1>1, <1>2, <1>3, <1>4, ExtentWritten
<1>6. /\ Contents(hdr', body') = Contents(hdr, body)
      /\ Committed(hdr') =>
            \A y \in IndexesAt(hdr', body') : y.groups # <<>>
      /\ MovedOK' /\ mode' # "closed"
      /\ GroupsRead(groups, body') = want.groups
      /\ ColsRead(cur_cols, body') = want.open
      /\ mode = "create" /\ schema_cols # 0 =>
            \E e \in body' : /\ e.kind = "schema"
                             /\ e.at = HeaderSize
                             /\ e.id = schema_cols
      /\ mode = "extend" =>
            \E e \in SchemasAt(orig_hdr, body') : e.id = schema_cols
  BY <1>1, <1>2, <1>4, <1>5, BodyWritten
<1>7. mode' = mode /\ schema_cols' = schema_cols /\ orig_hdr' = orig_hdr
  BY <1>1 DEF session
<1>8. SchemaIdOK' /\ RoomOK' /\ IdleOK'
  BY <1>1, <1>6, <1>7 DEF SchemaIdOK, RoomOK, IdleOK
<1>9. x \in BlocksAt(Pending, body') /\ Pending \in Col
  <2>1. Pending.off = write_pos /\ Pending.total = RecordSize[p]
    BY DEF Pending
  <2>2. RecordSize[p] \in Nat
    BY <1>2, SizesAssumption
  <2> QED
    BY <1>2, <1>3, <1>5, <2>1, <2>2 DEF BlocksAt, Col, Pending
<1> QED
  BY <1>1, <1>2, <1>3, <1>5, <1>6, <1>7, <1>8, <1>9 DEF x

\* The block that ends write_block is staged in the open row group,
LEMMA GroupAppendKeeps ==
    ASSUME PassInv, IInv', AppendToGroup
    PROVE  PassInv' /\ C!Next
<1> DEFINE p == req.payload
<1>1. /\ pc = "append" /\ req.call = "write" /\ Advance
      /\ cur_cols' = Append(cur_cols, Pending)
      /\ want' = [want EXCEPT !.open = Append(@, p)]
      /\ groups' = groups
  BY DEF AppendToGroup
<1>2. /\ mode' = mode /\ schema_cols' = schema_cols /\ p \in Payload
      /\ body' \in SUBSET Extent /\ BodyOK(body')
      /\ BlockExtent(io, p) \in BlocksAt(Pending, body')
      /\ BlockExtent(io, p).id = p /\ Pending \in Col
      /\ Contents(hdr', body') = Contents(hdr, body)
      /\ GroupsRead(groups, body') = want.groups
      /\ ColsRead(cur_cols, body') = want.open
      /\ Committed(hdr') =>
            \A y \in IndexesAt(hdr', body') : y.groups # <<>>
      /\ SchemaIdOK' /\ MovedOK' /\ RoomOK' /\ IdleOK'
      /\ mode \in {"create", "extend", "widen"}
  BY <1>1, RecordWritten
<1>3. mode \in {"create", "extend"} /\ cur_stats = <<>> /\ cur_stats' = <<>>
      /\ orig_groups' = orig_groups /\ pc' = "idle"
  BY <1>1, <1>2 DEF PassInv, IInv, ControlOK, StatsOK, Advance, session
<1>4. cur_cols \in Seq(Col) /\ want \in Staged
  BY DEF PassInv, IInv, TypeOK
<1>5. /\ want'.groups = want.groups /\ want'.open = Append(want.open, p)
      /\ want.open \in Seq(Payload)
  BY <1>1, <1>4 DEF Staged
<1>6. ColsRead(cur_cols', body') = Append(want.open, p)
  <2> DEFINE x == BlockExtent(io, p)
             c == Pending
             b == body'
  <2>1. /\ b \in SUBSET Extent /\ BodyOK(b) /\ c \in Col /\ x \in BlocksAt(c, b)
        /\ x.id = p /\ want.open = ColsRead(cur_cols, b)
    BY <1>2
  <2> HIDE DEF x, c, b
  <2>2. ColsRead(Append(cur_cols, c), b) = Append(want.open, x.id)
    BY <1>2, <1>4, <1>5, <2>1, ColsReadAppend
  <2> QED
    BY <1>1, <2>1, <2>2 DEF b, c
<1>7. WantOK'
  BY <1>1, <1>2, <1>5, <1>6 DEF WantOK
<1>8. StatsOK' /\ NonemptyOK'
  BY <1>1, <1>2, <1>3 DEF PassInv, StatsOK, NonemptyOK, Reopened
<1>9. C!AddBlock(p)
  <2> DEFINE pass == [kind |-> mode, schema |-> schema_cols,
                      groups |-> want.groups, open |-> want.open,
                      stats |-> cur_stats]
  <2>1. pass' = [kind |-> mode, schema |-> schema_cols,
                 groups |-> want.groups, open |-> Append(want.open, p),
                 stats |-> cur_stats]
    BY <1>2, <1>3, <1>5
  <2>2. pass.kind \in {"create", "extend"} /\ pass.open = want.open
    BY <1>3
  <2>3. pass = [kind |-> mode, schema |-> schema_cols, groups |-> want.groups,
                open |-> want.open, stats |-> cur_stats]
    OBVIOUS
  <2> HIDE DEF pass
  <2>4. pass' = [pass EXCEPT !.open = Append(@, p)]
    <3> DEFINE w == Append(want.open, p)
    <3>1. pass' = [kind |-> mode, schema |-> schema_cols,
                   groups |-> want.groups, open |-> w, stats |-> cur_stats]
      BY <2>1
    <3>2. [pass EXCEPT !.open = Append(@, p)] = [pass EXCEPT !.open = w]
      BY <2>2
    <3> HIDE DEF w
    <3>3. [pass EXCEPT !.open = w]
             = [kind |-> mode, schema |-> schema_cols,
                groups |-> want.groups, open |-> w, stats |-> cur_stats]
      BY <2>3
    <3> QED
      BY <3>1, <3>2, <3>3
  <2> QED
    BY <1>2, <2>2, <2>4 DEF C!AddBlock, pass
<1>10. C!Next
  BY <1>2, <1>9 DEF C!Next
<1> QED
  BY <1>2, <1>7, <1>8, <1>10 DEF PassInv

\* The pass in progress, as Container sees it.
Pass == [kind |-> mode, schema |-> schema_cols, groups |-> want.groups,
         open |-> want.open, stats |-> cur_stats]

\* That pass with one group widened, one field at a time.
LEMMA GroupWidened ==
    ASSUME want \in Staged, NEW g \in DOMAIN want.groups, NEW p, NEW s
    PROVE  [Pass EXCEPT !.groups[g].cols = Append(@, p), !.groups[g].stats = s]
           = [kind |-> mode, schema |-> schema_cols,
              groups |-> [want.groups EXCEPT
                             ![g] = [cols  |-> Append(want.groups[g].cols, p),
                                     stats |-> s]],
              open |-> want.open, stats |-> cur_stats]
<1> DEFINE P  == Pass
           S  == Payload
           gs == want.groups
           k  == mode
           n  == schema_cols
           op == want.open
           st == cur_stats
<1>0. P = [kind |-> k, schema |-> n, groups |-> gs, open |-> op, stats |-> st]
  BY DEF Pass
<1>a. gs \in Seq([cols : Seq(S), stats : Seq(BOOLEAN)]) /\ g \in DOMAIN gs
  BY DEF Staged
<1> HIDE DEF P, S, gs, k, n, op, st
<1> DEFINE old  == gs[g]
           cols == Append(old.cols, p)
           mid  == [cols |-> cols, stats |-> old.stats]
           new  == [cols |-> cols, stats |-> s]
           g1   == [gs EXCEPT ![g] = mid]
           g2   == [gs EXCEPT ![g] = new]
           P1   == [kind |-> k, schema |-> n, groups |-> g1, open |-> op,
                    stats |-> st]
           P2   == [kind |-> k, schema |-> n, groups |-> g2, open |-> op,
                    stats |-> st]
<1>1. P.groups = gs
  BY <1>0
<1>2. [P EXCEPT !.groups[g].cols = Append(@, p)] = P1
  <2>1. old \in [cols : Seq(S), stats : Seq(BOOLEAN)]
    <3> DEFINE T == [cols : Seq(S), stats : Seq(BOOLEAN)]
    <3>1. gs \in Seq(T)
      BY <1>a
    <3> HIDE DEF T
    <3>2. gs[g] \in T
      BY <1>a, <3>1
    <3> QED
      BY <3>2 DEF T
  <2>2. [old EXCEPT !.cols = Append(@, p)] = mid
    <3> DEFINE st0 == old.stats
               c0  == old.cols
    <3>1. old = [cols |-> c0, stats |-> st0]
      <4> HIDE DEF old
      <4> QED
        BY <2>1
    <3>2. [old EXCEPT !.cols = Append(@, p)] = [old EXCEPT !.cols = cols]
      OBVIOUS
    <3>3. mid = [cols |-> cols, stats |-> st0]
      OBVIOUS
    <3> HIDE DEF old, cols, st0, c0, mid
    <3>4. [old EXCEPT !.cols = cols] = [cols |-> cols, stats |-> st0]
      BY <3>1
    <3> QED
      BY <3>2, <3>3, <3>4
  <2>3. [P EXCEPT !.groups = g1] = P1
    <3> HIDE DEF g1
    <3> QED
      BY <1>0
  <2> HIDE DEF mid, P1, cols
  <2> QED
    BY <1>1, <2>2, <2>3
<1>3. [P1 EXCEPT !.groups[g].stats = s] = P2
  <2>1. P1.groups = g1 /\ g1[g] = mid /\ [g1 EXCEPT ![g] = new] = g2
    <3> HIDE DEF mid, new
    <3> QED
      BY <1>a
  <2>2. [mid EXCEPT !.stats = s] = new
    <3> HIDE DEF cols
    <3> QED
      OBVIOUS
  <2>3. [P1 EXCEPT !.groups = g2] = P2
    <3> HIDE DEF g2
    <3>1. P1 = [kind |-> k, schema |-> n, groups |-> g1, open |-> op,
                stats |-> st]
      OBVIOUS
    <3> HIDE DEF P1, g1
    <3> QED
      BY <3>1
  <2> HIDE DEF mid, new, P1, P2, g1, g2
  <2> QED
    BY <2>1, <2>2, <2>3
<1> HIDE DEF P1, P2, g1
<1>4. [P EXCEPT !.groups[g].cols = Append(@, p), !.groups[g].stats = s] = P2
  BY <1>2, <1>3
<1> QED
  BY <1>4 DEF P2, P, S, gs, k, n, op, st

\* What a reader finds of group g, one column wider, is what the caller was
\* told of it.
LEMMA ColumnRead ==
    ASSUME PassInv, pc = "append", req.call = "widen", Advance,
           NEW g, g = req.rg, NEW b, b = body'
    PROVE  /\ g \in DOMAIN groups /\ DOMAIN want.groups = DOMAIN groups
           /\ ColsRead(Append(groups[g].cols, Pending), b)
                 = WithColumn(want.groups[g], req.payload, req.with_stats).cols
           /\ WidenedStats(g, req.with_stats)
                 = WithColumn(want.groups[g], req.payload, req.with_stats).stats
           /\ GroupsRead(groups, b) = want.groups
<1> DEFINE p == req.payload
           s == req.with_stats
           asked == want.groups[g]
           x == BlockExtent(io, p)
<1>1. /\ p \in Payload /\ b \in SUBSET Extent /\ BodyOK(b)
      /\ x \in BlocksAt(Pending, b) /\ x.id = p /\ Pending \in Col
      /\ GroupsRead(groups, b) = want.groups
  BY RecordWritten
<1>2. /\ g \in DOMAIN groups /\ groups \in Seq(Group) /\ want \in Staged
      /\ s \in BOOLEAN
  BY DEF PassInv, IInv, ControlOK, TypeOK, Request
<1>3. /\ DOMAIN want.groups = DOMAIN groups
      /\ asked = [cols |-> ColsRead(groups[g].cols, b), stats |-> groups[g].stats]
  BY <1>1, <1>2 DEF GroupsRead
<1>4. asked.cols = ColsRead(groups[g].cols, b) /\ asked.stats = groups[g].stats
  BY <1>3
<1>5. groups[g].cols \in Seq(Col) /\ groups[g].stats \in Seq(BOOLEAN)
  BY <1>2, GroupType
<1>6. asked.cols \in Seq(Payload)
  <2> DEFINE T == [cols : Seq(Payload), stats : Seq(BOOLEAN)]
  <2>1. want.groups \in Seq(T)
    BY <1>2 DEF Staged
  <2> HIDE DEF T
  <2>2. asked \in T
    BY <1>2, <1>3, <2>1
  <2> QED
    BY <2>2 DEF T
<1>7. ColsRead(Append(groups[g].cols, Pending), b) = Append(asked.cols, p)
  <2> DEFINE cols == groups[g].cols
             c    == Pending
             w    == asked.cols
  <2>1. /\ cols \in Seq(Col) /\ c \in Col /\ w \in Seq(Payload)
        /\ w = ColsRead(cols, b) /\ x \in BlocksAt(c, b)
    BY <1>1, <1>4, <1>5, <1>6
  <2> HIDE DEF cols, c, w, x
  <2>2. ColsRead(Append(cols, c), b) = Append(w, x.id)
    BY <1>1, <2>1, ColsReadAppend
  <2> QED
    BY <1>1, <2>2 DEF cols, c, w
<1>8. Len(asked.cols) = Len(groups[g].cols)
  BY <1>4, <1>5, <1>6 DEF ColsRead
<1>9. WithColumn(asked, p, s).cols = Append(asked.cols, p)
  BY DEF WithColumn
<1>10. WidenedStats(g, s) = WithColumn(asked, p, s).stats
  <2> DEFINE old  == groups[g].stats
             none == NoStats(Len(groups[g].cols))
  <2>1. WidenedStats(g, s) = IF old # <<>> THEN Append(old, s)
                             ELSE IF s THEN Append(none, TRUE) ELSE <<>>
    BY DEF WidenedStats
  <2>2. WithColumn(asked, p, s).stats
           = IF s \/ old # <<>>
             THEN Append(IF old = <<>> THEN none ELSE old, s)
             ELSE <<>>
    BY <1>4, <1>8 DEF WithColumn
  <2> HIDE DEF old, none
  <2>3. CASE s = TRUE
    BY <2>1, <2>2, <2>3
  <2>4. CASE s = FALSE
    BY <2>1, <2>2, <2>4
  <2> QED
    BY <1>2, <2>3, <2>4
<1> HIDE DEF x
<1> QED
  BY <1>1, <1>2, <1>3, <1>7, <1>9, <1>10

\* the one that ends widen_block in the group it widens.
LEMMA ColumnAppendKeeps ==
    ASSUME PassInv, IInv', AppendToColumn
    PROVE  PassInv' /\ C!Next
<1> DEFINE p == req.payload
           s == req.with_stats
           g == req.rg
           b == body'
           asked == want.groups[g]
           wide  == WithColumn(asked, p, s)
           grown == [off |-> groups[g].off, cols |-> Append(groups[g].cols, Pending),
                     stats |-> WidenedStats(g, s)]
<1>1. /\ pc = "append" /\ req.call = "widen" /\ Advance
      /\ groups' = [groups EXCEPT ![g] = grown]
      /\ cur_cols' = cur_cols
      /\ want' = [want EXCEPT !.groups[g] = wide]
  BY DEF AppendToColumn
<1>2. /\ mode' = mode /\ schema_cols' = schema_cols /\ p \in Payload
      /\ Contents(hdr', b) = Contents(hdr, body)
      /\ ColsRead(cur_cols, b) = want.open
      /\ Committed(hdr') =>
            \A y \in IndexesAt(hdr', b) : y.groups # <<>>
      /\ SchemaIdOK' /\ MovedOK' /\ RoomOK' /\ IdleOK'
  BY <1>1, RecordWritten
<1>3. /\ g \in DOMAIN groups /\ DOMAIN want.groups = DOMAIN groups
      /\ ColsRead(grown.cols, b) = wide.cols
      /\ grown.stats = wide.stats
      /\ GroupsRead(groups, b) = want.groups
  BY <1>1, ColumnRead
<1>4. /\ mode = "widen" /\ cur_stats' = cur_stats /\ pc' = "idle"
      /\ failed' = failed /\ ~ failed /\ s \in BOOLEAN
      /\ orig_groups' = orig_groups
      /\ groups \in Seq(Group) /\ want \in Staged
  BY <1>1 DEF PassInv, IInv, ControlOK, TypeOK, Request, Advance, session
<1>5. /\ want'.open = want.open
      /\ want'.groups = [want.groups EXCEPT ![g] = wide]
  <2> HIDE DEF wide
  <2> QED
    BY <1>1, <1>4 DEF Staged
<1>6. GroupsRead(groups', b) = want'.groups
  <2> DEFINE read(gr) == [cols |-> ColsRead(gr.cols, b), stats |-> gr.stats]
  <2>1. wide = read(grown)
    <3>1. wide = [cols |-> wide.cols, stats |-> wide.stats]
      BY DEF WithColumn
    <3> HIDE DEF wide, grown
    <3> QED
      BY <1>3, <3>1
  <2>2. \A h \in DOMAIN groups : want.groups[h] = read(groups[h])
    BY <1>3 DEF GroupsRead
  <2> HIDE DEF grown, wide
  <2>3. /\ DOMAIN groups' = DOMAIN groups /\ groups'[g] = grown
        /\ \A h \in DOMAIN groups : h # g => groups'[h] = groups[h]
    BY <1>1, <1>3, <1>4
  <2>4. /\ DOMAIN want'.groups = DOMAIN groups /\ want'.groups[g] = wide
        /\ \A h \in DOMAIN groups : h # g => want'.groups[h] = want.groups[h]
    BY <1>3, <1>4, <1>5
  <2>5. \A h \in DOMAIN groups : want'.groups[h] = read(groups'[h])
    BY <2>1, <2>2, <2>3, <2>4
  <2>6. want'.groups = [h \in DOMAIN want'.groups |-> want'.groups[h]]
    <3> DEFINE gs == want.groups
    <3>1. want'.groups = [gs EXCEPT ![g] = wide]
      BY <1>5
    <3> HIDE DEF gs
    <3> QED
      BY <3>1
  <2>7. GroupsRead(groups', b) = [h \in DOMAIN groups |-> read(groups'[h])]
    BY <2>3 DEF GroupsRead
  <2>8. [h \in DOMAIN groups |-> read(groups'[h])]
           = [h \in DOMAIN groups |-> want'.groups[h]]
    BY <2>5
  <2> QED
    BY <2>4, <2>6, <2>7, <2>8
<1>7. WantOK'
  BY <1>1, <1>2, <1>5, <1>6 DEF WantOK
<1>8. StatsOK' /\ NonemptyOK'
  <2>1. groups' # <<>>
    BY <1>1, <1>3, <1>4
  <2> QED
    BY <1>1, <1>2, <1>4, <2>1 DEF PassInv, StatsOK, NonemptyOK, Reopened
<1>9. C!WidenGroup(g, p, s)
  <2> DEFINE gs   == want.groups
             st   == wide.stats
             more == [gs EXCEPT ![g] = [cols |-> Append(gs[g].cols, p),
                                        stats |-> st]]
  <2>1. want'.groups = more
    <3>1. wide = [cols |-> Append(gs[g].cols, p), stats |-> st]
      BY DEF WithColumn
    <3> HIDE DEF wide
    <3> QED
      BY <1>5, <3>1
  <2>2. Pass' = [kind |-> mode, schema |-> schema_cols, groups |-> more,
                 open |-> want.open, stats |-> cur_stats]
    <3> HIDE DEF more
    <3> QED
      BY <1>2, <1>4, <1>5, <2>1 DEF Pass
  <2>3. /\ Pass.kind = "widen" /\ Pass.groups = gs
        /\ st = IF s \/ gs[g].stats # <<>>
                THEN Append(IF gs[g].stats = <<>>
                            THEN [c \in 1..Len(gs[g].cols) |-> FALSE]
                            ELSE gs[g].stats, s)
                ELSE <<>>
    BY <1>4 DEF WithColumn, NoStats, Pass
  <2> HIDE DEF st
  <2>4. [Pass EXCEPT !.groups[g].cols = Append(@, p), !.groups[g].stats = st]
           = [kind |-> mode, schema |-> schema_cols, groups |-> more,
              open |-> want.open, stats |-> cur_stats]
    <3>1. want \in Staged /\ g \in DOMAIN want.groups
      BY <1>3, <1>4
    <3> HIDE DEF g, p
    <3>2. [Pass EXCEPT !.groups[g].cols = Append(@, p), !.groups[g].stats = st]
           = [kind |-> mode, schema |-> schema_cols,
              groups |-> [want.groups EXCEPT
                             ![g] = [cols  |-> Append(want.groups[g].cols, p),
                                     stats |-> st]],
              open |-> want.open, stats |-> cur_stats]
      BY <3>1, GroupWidened, Zenon
    <3> QED
      BY <3>2
  <2> HIDE DEF gs
  <2>5. Pass' = [Pass EXCEPT !.groups[g].cols = Append(@, p),
                             !.groups[g].stats = st]
    BY <2>2, <2>4
  <2>6. C!WidenGroup(g, p, s)
           <=> /\ Pass.kind = "widen"
               /\ Pass' = [Pass EXCEPT
                     !.groups[g].cols  = Append(@, p),
                     !.groups[g].stats =
                        IF s \/ Pass.groups[g].stats # <<>>
                        THEN Append(IF Pass.groups[g].stats = <<>>
                                    THEN [c \in 1..Len(Pass.groups[g].cols) |-> FALSE]
                                    ELSE Pass.groups[g].stats, s)
                        ELSE <<>>]
               /\ UNCHANGED Contents(hdr, body)
    BY Zenon DEF C!WidenGroup, Pass
  <2> QED
    BY <1>2, <2>3, <2>5, <2>6
<1>10. C!Next
  BY <1>2, <1>3, <1>4, <1>9 DEF C!Next
<1> QED
  BY <1>2, <1>7, <1>8, <1>10 DEF PassInv

-----------------------------------------------------------------------------
(* Steps that write no extent, and calls that fail.                        *)

\* A step that stages nothing and writes no extent is a stutter of Container.
LEMMA QuietKeeps ==
    ASSUME PassInv, IInv', mode # "closed", body' = body,
           UNCHANGED <<session, cur_cols, cur_stats, groups, want>>,
           Contents(hdr', body) = Contents(hdr, body),
           Committed(hdr') => \A x \in IndexesAt(hdr', body) : x.groups # <<>>,
           MovedOK', RoomOK',
           failed => failed',
           pc \in {"undo_index", "undo_header"} => pc' = pc \/ failed',
           pc # "open_schema",
           mode = "widen" => pc' \notin {"index", "patch"},
           pc' \in {"append", "copy", "repoint", "hook"} /\ req'.call = "write"
              => cur_stats = <<>>
    PROVE  PassInv' /\ UNCHANGED C!vars
<1>1. /\ mode' = mode /\ schema_cols' = schema_cols /\ orig_hdr' = orig_hdr
      /\ orig_groups' = orig_groups /\ cur_cols' = cur_cols
      /\ cur_stats' = cur_stats /\ groups' = groups /\ want' = want
      /\ body' = body
  BY DEF session
<1>2. WantOK' /\ StatsOK'
  BY <1>1 DEF PassInv, WantOK, StatsOK
<1>3. NonemptyOK' /\ IdleOK' /\ SchemaIdOK'
  BY <1>1 DEF PassInv, NonemptyOK, IdleOK, SchemaIdOK, Reopened
<1>4. UNCHANGED C!vars
  BY <1>1 DEF C!vars
<1> QED
  BY <1>2, <1>3, <1>4 DEF PassInv

\* A call stages nothing before its own write,
LEMMA BeginKeeps ==
    ASSUME PassInv, IInv', CanCall, NEW r, Begin(r),
           r.call \in {"write", "widen", "close"},
           r.call = "write" => cur_stats = <<>>
    PROVE  PassInv' /\ UNCHANGED C!vars
<1>1. /\ pc = "idle" /\ mode # "closed" /\ ~ failed
      /\ req' = r /\ pc' = FirstStep(r)
      /\ UNCHANGED <<disk, session, cursor, openrg, staged, failed, ended,
                     history>>
  BY DEF CanCall, Begin
<1>2. /\ hdr' = hdr /\ body' = body /\ mode' = mode /\ schema_cols' = schema_cols
      /\ orig_hdr' = orig_hdr /\ write_pos' = write_pos /\ moves' = moves
      /\ live_index_off' = live_index_off /\ groups' = groups
      /\ cur_cols' = cur_cols /\ cur_stats' = cur_stats /\ want' = want
      /\ UNCHANGED session
  BY <1>1 DEF disk, session, cursor, openrg, staged, history
<1>3. MovedOK'
  BY <1>2 DEF PassInv, MovedOK, Reopened
<1>4. RoomOK'
  <2>1. Need' = NeedOf(r)
    BY <1>1, <1>2 DEF Need, NeedOf, SizeOfIndex, StatsEntries, ColEntries
  <2>2. Fits(Need)' = Fits(NeedOf(r))
    BY <1>2, <2>1 DEF Fits
  <2>3. pc' # "repoint" /\ (pc' = "copy" => ~ Fits(NeedOf(r)))
    BY <1>1 DEF FirstStep, AfterRoom
  <2> QED
    BY <2>2, <2>3 DEF RoomOK
<1>5. mode = "widen" => pc' \notin {"index", "patch"}
  BY <1>1 DEF FirstStep, AfterRoom, PassInv, IInv, SchemaOK, Reopened
<1>6. /\ Contents(hdr', body) = Contents(hdr, body)
      /\ Committed(hdr') => \A x \in IndexesAt(hdr', body) : x.groups # <<>>
  BY <1>2 DEF PassInv, NonemptyOK
<1> QED
  BY <1>1, <1>2, <1>3, <1>4, <1>5, <1>6, QuietKeeps

\* whichever call it is.
LEMMA CallKeeps ==
    ASSUME PassInv, IInv', ~ LateBlocks,
           \/ \E p \in Payload : WriteBlock(p)
           \/ \E p \in Payload, g \in DOMAIN groups, s \in BOOLEAN :
                 WidenBlock(p, g, s)
           \/ Close
    PROVE  PassInv' /\ UNCHANGED C!vars
<1>1. ASSUME NEW p \in Payload, WriteBlock(p)
      PROVE  PassInv' /\ UNCHANGED C!vars
  <2> DEFINE r == [NoRequest EXCEPT !.call = "write", !.payload = p]
  <2>1. CanCall /\ cur_stats = <<>> /\ Begin(r)
    BY <1>1 DEF WriteBlock
  <2>2. r.call = "write"
    BY DEF NoRequest
  <2> HIDE DEF r
  <2> QED
    BY <2>1, <2>2, BeginKeeps
<1>2. ASSUME NEW p \in Payload, NEW g \in DOMAIN groups, NEW s \in BOOLEAN,
             WidenBlock(p, g, s)
      PROVE  PassInv' /\ UNCHANGED C!vars
  <2> DEFINE r == [call |-> "widen", payload |-> p, rg |-> g, with_stats |-> s]
  <2>1. CanCall /\ Begin(r)
    BY <1>2 DEF WidenBlock
  <2>2. r.call = "widen"
    OBVIOUS
  <2> HIDE DEF r
  <2> QED
    BY <2>1, <2>2, BeginKeeps
<1>3. CASE Close
  <2> DEFINE r == [NoRequest EXCEPT !.call = "close"]
  <2>1. CanCall /\ Begin(r)
    BY <1>3 DEF Close
  <2>2. r.call = "close"
    BY DEF NoRequest
  <2> HIDE DEF r
  <2> QED
    BY <2>1, <2>2, BeginKeeps
<1> QED
  BY <1>1, <1>2, <1>3

\* The hook returns, the caller decides to abort, or a hook or an allocation
\* fails.
LEMMA IdleKeeps ==
    ASSUME PassInv, IInv',
           \/ HookReturns
           \/ AbortMoved
           \/ HookFails /\ req.call # "close"
           \/ NoMemory /\ pc # "index"
    PROVE  PassInv' /\ UNCHANGED C!vars
<1>1. /\ hdr' = hdr /\ body' = body /\ live_index_off' = live_index_off
      /\ moves' = moves
      /\ UNCHANGED <<session, cur_cols, cur_stats, groups, want>>
      /\ failed => failed'
      /\ \/ pc = "hook" /\ pc' = AfterRoom(req.call) /\ req' = req
         \/ pc = "idle" /\ pc' = "undo_index"
         \/ pc \in {"hook", "append"} /\ pc' = "idle"
  <2>1. CASE HookReturns
    BY <2>1 DEF HookReturns, disk, openrg, staged, history
  <2>2. CASE AbortMoved
    BY <2>2 DEF AbortMoved, disk, cursor, openrg, staged, history
  <2>3. CASE HookFails /\ req.call # "close"
    BY <2>3 DEF HookFails, Fail, disk, history, PassInv, IInv, ControlOK
  <2>4. CASE NoMemory /\ pc # "index"
    BY <2>4 DEF NoMemory, Fail, disk, history, PassInv, IInv, ControlOK
  <2> QED
    BY <2>1, <2>2, <2>3, <2>4
<1>2. /\ mode # "closed" /\ pc # "open_schema"
      /\ pc \notin {"undo_index", "undo_header"}
  <2>1. AbortMoved => mode # "closed"
    BY DEF AbortMoved
  <2> QED
    BY <1>1, <2>1 DEF PassInv, IInv, ControlOK, HookReturns, HookFails, NoMemory
<1>3. mode' = mode /\ orig_hdr' = orig_hdr
  BY <1>1 DEF session
<1>4. MovedOK' /\ RoomOK'
  BY <1>1, <1>3 DEF PassInv, MovedOK, RoomOK, Reopened, AfterRoom
<1>5. mode = "widen" => pc' \notin {"index", "patch"}
  BY <1>1 DEF AfterRoom, PassInv, IInv, SchemaOK, Reopened
<1>6. pc' \in {"append", "copy", "repoint", "hook"} /\ req'.call = "write"
         => cur_stats = <<>>
  BY <1>1 DEF PassInv, StatsOK, AfterRoom
<1>7. /\ Contents(hdr', body) = Contents(hdr, body)
      /\ Committed(hdr') => \A x \in IndexesAt(hdr', body) : x.groups # <<>>
  BY <1>1 DEF PassInv, NonemptyOK
<1> QED
  BY <1>1, <1>2, <1>4, <1>5, <1>6, <1>7, QuietKeeps

\* The header is repointed at the copy, by a whole write or by one reported
\* as failed.
LEMMA RepointKeeps ==
    ASSUME PassInv, IInv',
           \/ Repoint
           \/ WriteFails /\ pc = "repoint" /\ "io" \notin CarryOn
    PROVE  PassInv' /\ UNCHANGED C!vars
<1>1. /\ pc = "repoint" /\ body' = body
      /\ UNCHANGED <<session, cur_cols, cur_stats, groups, want>>
      /\ \/ /\ hdr' = NextHeader /\ live_index_off' = CopyOffset(Need)
            /\ moves' = moves + 1 /\ pc' = "hook" /\ req' = req
            /\ failed' = failed
         \/ /\ hdr' \in {hdr, NextHeader} /\ live_index_off' = live_index_off
            /\ moves' = moves /\ pc' = "idle" /\ failed'
  <2>1. CASE Repoint
    BY <2>1 DEF Repoint, NextHeader, openrg, staged, history
  <2>2. CASE WriteFails /\ pc = "repoint" /\ "io" \notin CarryOn
    <3>1. /\ Fail("io") /\ hdr' \in {hdr, NextHeader} /\ body' = body
          /\ cur_cols' = cur_cols /\ groups' = groups
      BY <2>2 DEF WriteFails
    <3> QED
      BY <2>2, <3>1 DEF Fail, history
  <2> QED
    BY <2>1, <2>2
<1>2. mode # "closed" /\ moves \in Nat /\ IInv
  BY <1>1 DEF PassInv, IInv, ControlOK, TypeOK
<1>3. /\ Reopened /\ Contents(NextHeader, body) = Contents(hdr, body)
      /\ \A x \in IndexesAt(NextHeader, body) : x.groups # <<>>
  BY <1>1, HeaderKept
<1>4. /\ Contents(hdr', body) = Contents(hdr, body)
      /\ Committed(hdr') => \A x \in IndexesAt(hdr', body) : x.groups # <<>>
  BY <1>1, <1>3 DEF PassInv, NonemptyOK
<1>5. NextHeader.idx_off # orig_hdr.idx_off
  <2> DEFINE at == CopyOffset(Need)
             lo == live_index_off
             os == orig_hdr.idx_size
             oo == orig_hdr.idx_off
  <2>1. ~ failed /\ orig_hdr \in Header /\ write_pos \in Nat /\ lo \in Nat
        /\ reuse_start \in Nat
    BY <1>1, <1>2 DEF IInv, ControlOK, TypeOK
  <2>2. /\ lo = hdr.idx_off /\ os > 0 /\ reuse_start <= write_pos
        /\ reuse_start <= lo
        /\ hdr.idx_off = oo \/ hdr.idx_off >= oo + os
    BY <1>2, <1>3, <2>1 DEF IInv, CursorOK, FoundOK
  <2>3. os \in Nat /\ oo \in Nat
    BY <2>1 DEF Header
  <2>4. Need \in Nat
    BY <1>1, <1>2, NeedType
  <2>5. at \in Nat /\ lo + os <= at
    BY <2>1, <2>2, <2>3, <2>4, CopyRoom
  <2>6. NextHeader.idx_off = at
    <3>1. NextHeader = MovedHeader(at)
      BY <1>1 DEF NextHeader
    <3> HIDE DEF at
    <3> QED
      BY <2>1, <2>5, <3>1, MovedFields
  <2> HIDE DEF at, lo, os, oo
  <2>7. at # oo
    BY <2>1, <2>2, <2>3, <2>5
  <2> QED
    BY <2>6, <2>7 DEF oo
<1>6. MovedOK'
  <2>1. mode' = mode /\ orig_hdr' = orig_hdr
    BY <1>1 DEF session
  <2>2. /\ moves = 0 => live_index_off = orig_hdr.idx_off
        /\ hdr.idx_off = orig_hdr.idx_off => hdr = orig_hdr
    BY <1>3 DEF PassInv, MovedOK
  <2>3. moves + 1 # 0
    BY <1>2
  <2> QED
    BY <1>1, <1>5, <2>1, <2>2, <2>3 DEF MovedOK
<1>7. /\ pc \notin {"undo_index", "undo_header"}
      /\ pc' \notin {"index", "patch"}
      /\ pc' \in {"append", "copy", "repoint", "hook"} /\ req'.call = "write"
            => cur_stats = <<>>
  BY <1>1 DEF PassInv, StatsOK
<1>8. RoomOK' /\ pc # "open_schema" /\ (failed => failed')
  BY <1>1 DEF RoomOK
<1> QED
  BY <1>1, <1>2, <1>4, <1>6, <1>7, <1>8, QuietKeeps

\* A torn copy, or a torn record: the encoder is left to the caller, who
\* aborts it.
LEMMA TornKeeps ==
    ASSUME PassInv, IInv', WriteFails, pc \in {"copy", "append"},
           "io" \notin CarryOn
    PROVE  PassInv' /\ UNCHANGED C!vars
<1>1. PICK n \in 0..WriteSize : body' = Spared(body, WriteAt, n)
  BY DEF WriteFails
<1>2. /\ hdr' = hdr /\ Fail("io")
      /\ \/ groups' = groups
         \/ groups' = [groups EXCEPT ![req.rg].stats =
                          NoStats(Len(groups[req.rg].cols))]
  BY DEF WriteFails
<1>3. /\ UNCHANGED <<hdr, session, live_index_off, moves, cur_stats, want>>
      /\ failed' /\ pc' = "idle"
  BY <1>2 DEF Fail, history
<1>4. /\ mode # "closed" /\ pc \in BodyWrites /\ body \in SUBSET Extent
      /\ BodyOK(body) /\ groups \in Seq(Group)
  BY DEF PassInv, IInv, ControlOK, TypeOK, BodyWrites
<1>5. body' \in SUBSET Extent /\ BodyOK(body')
  BY <1>1, <1>4, SparedBody
<1>6. Spared(body, WriteAt, n) \subseteq body'
  BY <1>1
<1>7. /\ Contents(hdr', body') = Contents(hdr, body)
      /\ Committed(hdr') =>
            \A x \in IndexesAt(hdr', body') : x.groups # <<>>
      /\ MovedOK' /\ mode' # "closed"
      /\ mode = "create" /\ schema_cols # 0 =>
            \E e \in body' : /\ e.kind = "schema"
                             /\ e.at = HeaderSize
                             /\ e.id = schema_cols
      /\ mode = "extend" =>
            \E e \in SchemasAt(orig_hdr, body') : e.id = schema_cols
  BY <1>3, <1>4, <1>5, <1>6, BodyWritten
<1>8. /\ mode' = mode /\ schema_cols' = schema_cols /\ orig_hdr' = orig_hdr
      /\ orig_groups' = orig_groups
  BY <1>3 DEF session
<1>9. groups # <<>> => groups' # <<>>
  BY <1>2, <1>4
<1>10. NonemptyOK'
  BY <1>7, <1>8, <1>9 DEF PassInv, NonemptyOK, Reopened
<1>11. WantOK' /\ StatsOK' /\ RoomOK' /\ IdleOK'
  BY <1>3, <1>7 DEF WantOK, StatsOK, RoomOK, IdleOK
<1>12. SchemaIdOK'
  BY <1>3, <1>7, <1>8 DEF SchemaIdOK
<1>13. UNCHANGED C!vars
  BY <1>3, <1>7, <1>8 DEF C!vars
<1> QED
  BY <1>7, <1>10, <1>11, <1>12, <1>13 DEF PassInv

-----------------------------------------------------------------------------
(* Row groups.                                                             *)

\* A sequence that is not empty has an element.
LEMMA NonemptySeq ==
    ASSUME NEW S, NEW q \in Seq(S), q # <<>>
    PROVE  DOMAIN q # {}
<1>1. Len(q) \in Nat \ {0}
  BY EmptySeq
<1>2. 1 \in DOMAIN q
  BY <1>1
<1> QED
  BY <1>2

\* set_rowgroup_stats stages a row for the open row group.
LEMMA StatsKeep ==
    ASSUME PassInv, IInv', SetRowgroupStats
    PROVE  PassInv' /\ C!Next
<1>1. /\ pc = "idle" /\ mode # "closed" /\ ~ failed
      /\ cur_cols # <<>> /\ cur_stats = <<>>
      /\ cur_stats' = [c \in DOMAIN cur_cols |-> TRUE]
      /\ hdr' = hdr /\ body' = body /\ cur_cols' = cur_cols
      /\ groups' = groups /\ want' = want /\ pc' = pc /\ failed' = failed
      /\ live_index_off' = live_index_off /\ moves' = moves
      /\ UNCHANGED session
  BY DEF SetRowgroupStats, CanCall, disk, cursor, control, history
<1>2. /\ mode' = mode /\ schema_cols' = schema_cols /\ orig_hdr' = orig_hdr
      /\ orig_groups' = orig_groups
  BY <1>1 DEF session
<1>3. cur_cols \in Seq(Col) /\ want.open = ColsRead(cur_cols, body)
      /\ want \in Staged
  BY <1>1 DEF PassInv, IInv, TypeOK, WantOK
<1>4. DOMAIN want.open = DOMAIN cur_cols /\ want.open # <<>>
  <2>1. DOMAIN want.open = DOMAIN cur_cols
    BY <1>3 DEF ColsRead
  <2>2. DOMAIN cur_cols # {}
    BY <1>1, <1>3
  <2>3. want.open # <<>>
    BY <2>1, <2>2
  <2> QED
    BY <2>1, <2>3
<1>5. StatsOK'
  BY <1>1, <1>3 DEF StatsOK
<1>6. WantOK' /\ NonemptyOK' /\ SchemaIdOK' /\ MovedOK' /\ RoomOK' /\ IdleOK'
  BY <1>1, <1>2 DEF PassInv, WantOK, NonemptyOK, SchemaIdOK, MovedOK, RoomOK,
                    IdleOK, Reopened
<1>7. C!AttachStats
  <2> DEFINE st == [c \in DOMAIN want.open |-> TRUE]
  <2>1. cur_stats' = st
    BY <1>1, <1>4
  <2>2. Pass = [kind |-> mode, schema |-> schema_cols, groups |-> want.groups,
                open |-> want.open, stats |-> cur_stats]
    BY DEF Pass
  <2>3. Pass' = [kind |-> mode, schema |-> schema_cols, groups |-> want.groups,
                 open |-> want.open, stats |-> st]
    <3> HIDE DEF st
    <3> QED
      BY <1>1, <1>2, <2>1 DEF Pass
  <2>4. Pass.open = want.open /\ Pass.stats = <<>>
    BY <1>1 DEF Pass
  <2>5. Pass' = [Pass EXCEPT !.stats = [c \in DOMAIN Pass.open |-> TRUE]]
    <3>1. st = [c \in DOMAIN Pass.open |-> TRUE]
      BY <2>4
    <3> HIDE DEF st
    <3>2. [Pass EXCEPT !.stats = st]
             = [kind |-> mode, schema |-> schema_cols, groups |-> want.groups,
                open |-> want.open, stats |-> st]
      BY <2>2
    <3> QED
      BY <2>3, <3>1, <3>2
  <2>6. C!AttachStats
           <=> /\ Pass.open # <<>> /\ Pass.stats = <<>>
               /\ Pass' = [Pass EXCEPT !.stats = [c \in DOMAIN Pass.open |-> TRUE]]
               /\ UNCHANGED Contents(hdr, body)
    BY Zenon DEF C!AttachStats, Pass
  <2> QED
    BY <1>1, <1>4, <2>4, <2>5, <2>6
<1> QED
  BY <1>5, <1>6, <1>7 DEF PassInv, C!Next

\* The open row group becomes the last of the groups.
LEMMA EndKeeps ==
    ASSUME PassInv, IInv', EndRowgroup, MaxCols < ColWrap
    PROVE  PassInv' /\ C!Next
<1> DEFINE n == Len(cur_cols) % ColWrap
<1>1. PICK s \in StatsRead(cur_stats, n) :
         groups' = Append(groups, [off   |-> cur_group_offset,
                                   cols  |-> SubSeq(cur_cols, 1, n),
                                   stats |-> s])
  BY DEF EndRowgroup
<1>2. /\ cur_cols' = <<>> /\ cur_stats' = <<>>
      /\ want' = [groups |-> Append(want.groups, [cols  |-> want.open,
                                                  stats |-> cur_stats]),
                  open   |-> <<>>]
      /\ UNCHANGED <<hdr, body, session, live_index_off, moves, pc, failed>>
      /\ cur_cols # <<>> /\ pc = "idle" /\ mode # "closed" /\ ~ failed
      /\ mode = "extend" => Len(cur_cols) = schema_cols
  BY DEF EndRowgroup, CanCall, disk, cursor, control
<1>3. /\ cur_cols \in Seq(Col) /\ cur_stats \in Seq(BOOLEAN)
      /\ groups \in Seq(Group) /\ want \in Staged
      /\ want.open = ColsRead(cur_cols, body)
      /\ want.groups = GroupsRead(groups, body)
  BY <1>2 DEF PassInv, IInv, TypeOK, WantOK
<1>4. n = Len(cur_cols)
  <2>1. Len(cur_cols) <= MaxCols
    BY <1>2 DEF PassInv, IInv, ControlOK
  <2>2. /\ Len(cur_cols) \in Nat /\ ColWrap \in Nat
        /\ Len(cur_cols) < ColWrap
    BY <1>3, <2>1, SizesAssumption, BoundsAssumption
  <2>3. Len(cur_cols) % ColWrap = Len(cur_cols)
    BY <2>2, SmallMod
  <2> QED
    BY <2>3
<1>5. SubSeq(cur_cols, 1, n) = cur_cols
  BY <1>3, <1>4
<1>6. s = cur_stats
  <2> HIDE DEF n
  <2>1. CASE cur_stats = <<>>
    BY <2>1 DEF StatsRead
  <2>2. CASE cur_stats # <<>>
    <3>1. DOMAIN cur_stats = 1..n /\ n \in Nat
      BY <1>2, <1>3, <1>4, <2>2 DEF PassInv, StatsOK
    <3>2. /\ s \in [1..n -> BOOLEAN]
          /\ \A c \in DOMAIN cur_stats : c <= n => s[c] = cur_stats[c]
      BY <2>2 DEF StatsRead
    <3>3. \A c \in 1..n : s[c] = cur_stats[c]
      BY <3>1, <3>2
    <3>4. cur_stats = [c \in 1..n |-> cur_stats[c]]
      BY <1>3, <3>1
    <3>5. s = [c \in 1..n |-> s[c]]
      BY <3>2
    <3>6. [c \in 1..n |-> s[c]] = [c \in 1..n |-> cur_stats[c]]
      BY <3>3, Zenon
    <3> QED
      BY <3>4, <3>5, <3>6
  <2> QED
    BY <2>1, <2>2
<1> DEFINE new  == [off |-> cur_group_offset, cols |-> cur_cols, stats |-> cur_stats]
           told == [cols |-> want.open, stats |-> cur_stats]
<1> HIDE DEF n
<1>7. groups' = Append(groups, new)
  BY <1>1, <1>5, <1>6
<1>8. /\ mode' = mode /\ schema_cols' = schema_cols /\ orig_hdr' = orig_hdr
      /\ orig_groups' = orig_groups
  BY <1>2 DEF session
<1>9. DOMAIN cur_cols # {} /\ want.open # <<>>
  <2>1. DOMAIN want.open = DOMAIN cur_cols
    BY <1>3 DEF ColsRead
  <2>2. DOMAIN cur_cols # {}
    <3>1. cur_cols \in Seq(Col) /\ cur_cols # <<>>
      BY <1>2, <1>3
    <3> QED
      BY <3>1, NonemptySeq
  <2>3. want.open # <<>>
    BY <2>1, <2>2
  <2> QED
    BY <2>2, <2>3
<1>10. want'.groups = Append(want.groups, told) /\ want'.open = <<>>
  BY <1>2
<1>11. GroupsRead(groups', body) = Append(want.groups, told)
  <2> DEFINE read(gr) == [cols |-> ColsRead(gr.cols, body), stats |-> gr.stats]
             m    == Len(groups)
             T    == [cols : Seq(Payload), stats : Seq(BOOLEAN)]
             all  == Append(want.groups, told)
  <2>1. told = read(new)
    BY <1>3
  <2>2. want.groups \in Seq(T) /\ told \in T
    BY <1>3 DEF Staged
  <2> HIDE DEF T, told, new
  <2>3. DOMAIN want.groups = DOMAIN groups /\ Len(want.groups) = m /\ m \in Nat
    BY <1>3, <2>2 DEF GroupsRead
  <2>4. \A h \in 1..m : want.groups[h] = read(groups[h])
    BY <1>3 DEF GroupsRead
  <2>5. /\ DOMAIN groups' = 1..(m + 1) /\ groups'[m + 1] = new
        /\ \A h \in 1..m : groups'[h] = groups[h]
    BY <1>3, <1>7
  <2>6. /\ DOMAIN all = 1..(m + 1) /\ all[m + 1] = told
        /\ \A h \in 1..m : all[h] = want.groups[h]
        /\ all = [h \in 1..(m + 1) |-> all[h]]
    BY <2>2, <2>3
  <2> HIDE DEF m, all
  <2>7. ASSUME NEW h \in 1..(m + 1)
        PROVE  all[h] = read(groups'[h])
    <3>1. CASE h \in 1..m
      BY <2>4, <2>5, <2>6, <3>1
    <3>2. CASE h = m + 1
      BY <2>1, <2>5, <2>6, <3>2
    <3> QED
      BY <2>3, <3>1, <3>2
  <2>8. GroupsRead(groups', body) = [h \in 1..(m + 1) |-> read(groups'[h])]
    BY <2>5 DEF GroupsRead
  <2>9. [h \in 1..(m + 1) |-> read(groups'[h])] = [h \in 1..(m + 1) |-> all[h]]
    BY <2>7, Zenon
  <2> QED
    BY <2>6, <2>8, <2>9 DEF all
<1>12. WantOK'
  BY <1>2, <1>10, <1>11, NothingRead DEF WantOK
<1>13. NonemptyOK'
  <2>1. groups' # <<>>
    BY <1>3, <1>7
  <2> QED
    BY <1>2, <1>8, <2>1 DEF PassInv, NonemptyOK, Reopened
<1>14. StatsOK' /\ SchemaIdOK' /\ MovedOK' /\ RoomOK' /\ IdleOK'
  BY <1>2, <1>8 DEF PassInv, StatsOK, SchemaIdOK, MovedOK, RoomOK, IdleOK,
                    Reopened
<1>15. C!EndGroup
  <2>1. Len(want.open) = Len(cur_cols)
    BY <1>3 DEF ColsRead, Staged
  <2> DEFINE gs == Append(want.groups, told)
             p1 == [kind |-> mode, schema |-> schema_cols, groups |-> gs,
                    open |-> want.open, stats |-> cur_stats]
             p2 == [kind |-> mode, schema |-> schema_cols, groups |-> gs,
                    open |-> <<>>, stats |-> cur_stats]
             p3 == [kind |-> mode, schema |-> schema_cols, groups |-> gs,
                    open |-> <<>>, stats |-> <<>>]
  <2>2. Pass' = p3
    <3> HIDE DEF gs
    <3> QED
      BY <1>2, <1>8, <1>10 DEF Pass, gs
  <2>3. [Pass EXCEPT !.groups = gs] = p1
    <3>1. Pass = [kind |-> mode, schema |-> schema_cols, groups |-> want.groups,
                  open |-> want.open, stats |-> cur_stats]
      BY DEF Pass
    <3> HIDE DEF gs
    <3> QED
      BY <3>1
  <2>4. [p1 EXCEPT !.open = <<>>] = p2
    <3>1. p1 = [kind |-> mode, schema |-> schema_cols, groups |-> gs,
                open |-> want.open, stats |-> cur_stats]
      OBVIOUS
    <3> HIDE DEF gs, p1
    <3> QED
      BY <3>1
  <2>5. [p2 EXCEPT !.stats = <<>>] = p3
    <3>1. p2 = [kind |-> mode, schema |-> schema_cols, groups |-> gs,
                open |-> <<>>, stats |-> cur_stats]
      OBVIOUS
    <3> HIDE DEF gs, p2
    <3> QED
      BY <3>1
  <2>6. /\ Pass.open = want.open /\ Pass.groups = want.groups
        /\ Pass.stats = cur_stats /\ Pass.kind = mode
        /\ Pass.schema = schema_cols
    BY DEF Pass
  <2> HIDE DEF p1, p2, p3
  <2>7. Pass' = [Pass EXCEPT !.groups = Append(@, [cols  |-> Pass.open,
                                                   stats |-> Pass.stats]),
                             !.open = <<>>, !.stats = <<>>]
    BY <2>2, <2>3, <2>4, <2>5, <2>6
  <2>8. C!EndGroup
           <=> /\ Pass.open # <<>>
               /\ Pass.kind = "extend" => Len(Pass.open) = Pass.schema
               /\ Pass' = [Pass EXCEPT
                     !.groups = Append(@, [cols  |-> Pass.open,
                                           stats |-> Pass.stats]),
                     !.open = <<>>, !.stats = <<>>]
               /\ UNCHANGED Contents(hdr, body)
    BY Zenon DEF C!EndGroup, Pass
  <2> QED
    BY <1>2, <1>9, <2>1, <2>6, <2>7, <2>8
<1> QED
  BY <1>12, <1>13, <1>14, <1>15 DEF PassInv, C!Next

-----------------------------------------------------------------------------
(* Every pass.                                                             *)

\* An empty file promises nothing and holds nothing.
LEMMA PassInit == Init => PassInv /\ C!Init
<1> SUFFICES ASSUME Init
             PROVE  PassInv /\ C!Init
  OBVIOUS
<1>1. IInv
  BY InitInv
<1>2. /\ hdr = NoHeader /\ body = {} /\ mode = "closed" /\ schema_cols = 0
      /\ cur_cols = <<>> /\ cur_stats = <<>> /\ groups = <<>> /\ pc = "idle"
      /\ want = [groups |-> <<>>, open |-> <<>>]
  BY DEF Init
<1>3. ~ Committed(hdr)
  BY <1>2 DEF Committed, NoHeader
<1>4. WantOK
  BY <1>2, NothingRead DEF WantOK
<1>5. StatsOK /\ NonemptyOK /\ SchemaIdOK /\ MovedOK /\ RoomOK /\ IdleOK
  BY <1>2, <1>3
     DEF StatsOK, NonemptyOK, SchemaIdOK, MovedOK, RoomOK, IdleOK, Reopened
<1>6. C!Init
  BY <1>2, <1>3 DEF C!Init, C!Nothing, C!NoPass, Contents
<1> QED
  BY <1>1, <1>4, <1>5, <1>6 DEF PassInv

\* Every step keeps PassInv and is a step or a stutter of Container.
LEMMA PassNext ==
    ASSUME CarryOn \subseteq {"mem"}, MaxCols < ColWrap, ~ LateBlocks
    PROVE  PassInv /\ [Next]_vars => PassInv' /\ [C!Next]_(C!vars)
<1> SUFFICES ASSUME PassInv, [Next]_vars
             PROVE  PassInv' /\ [C!Next]_(C!vars)
  OBVIOUS
<1>1. IInv'
  BY NextInv DEF PassInv
<1> HIDE DEF PassInv
<1>2. CASE \/ \E n \in Columns, s \in BOOLEAN : OpenCreate(n, s)
           \/ \E n \in Columns : OpenWiden(n)
           \/ OpenExtend
  BY <1>1, <1>2, OpenKeeps
<1>3. CASE \/ \E p \in Payload : WriteBlock(p)
           \/ \E p \in Payload, g \in DOMAIN groups, s \in BOOLEAN :
                 WidenBlock(p, g, s)
           \/ Close
  BY <1>1, <1>3, CallKeeps
<1>4. CASE WriteOpenSchema \/ WriteTailSchema
  BY <1>1, <1>4, SchemaKeeps
<1>5. CASE CopyIndex \/ RestoreIndex
  BY <1>1, <1>5, CopyKeeps
<1>6. CASE WriteIndex
  BY <1>1, <1>6, IndexKeeps
<1>7. CASE AppendToGroup
  BY <1>1, <1>7, GroupAppendKeeps
<1>8. CASE AppendToColumn
  BY <1>1, <1>8, ColumnAppendKeeps
<1>9. CASE SetRowgroupStats
  BY <1>1, <1>9, StatsKeep
<1>10. CASE EndRowgroup
  BY <1>1, <1>10, EndKeeps
<1>11. CASE Repoint
  BY <1>1, <1>11, RepointKeeps
<1>12. CASE WriteFails
  <2>1. "io" \notin CarryOn
    OBVIOUS
  <2>2. pc \in {"copy", "append", "repoint"}
    BY <1>12 DEF WriteFails
  <2> QED
    BY <1>1, <1>12, <2>1, <2>2, TornKeeps, RepointKeeps
<1>13. CASE \/ HookReturns \/ AbortMoved
            \/ HookFails /\ req.call # "close"
            \/ NoMemory /\ pc # "index"
  BY <1>1, <1>13, IdleKeeps
<1>14. CASE \/ PatchHeader \/ Abort \/ RestoreHeader \/ Crash
            \/ LastWriteFails
            \/ HookFails /\ req.call = "close"
            \/ NoMemory /\ pc = "index"
  <2>1. \E how \in {"closed", "aborted", "error", "crashed"} : Free(how)
    BY <1>14, PassEnds
  <2>2. Committed(hdr') => \A x \in IndexesAt(hdr', body') : x.groups # <<>>
    BY <1>14, PassEnds
  <2>3. PassInv'
    BY <1>1, <2>1, <2>2, FreeKeeps
  <2>4. C!Next
    BY <1>14, EndsAsPromised
  <2> QED
    BY <2>3, <2>4
<1>15. CASE UNCHANGED vars
  <2> USE <1>15 DEF vars, disk, session, cursor, openrg, staged, control,
                    history
  <2>1. WantOK' /\ StatsOK' /\ NonemptyOK' /\ SchemaIdOK' /\ MovedOK' /\ IdleOK'
    BY DEF PassInv, WantOK, StatsOK, NonemptyOK, SchemaIdOK, MovedOK, IdleOK,
           Reopened
  <2>2. Fits(Need)' = Fits(Need)
    BY DEF Fits, Need, NeedOf, SizeOfIndex, StatsEntries, ColEntries
  <2>3. RoomOK'
    BY <2>2 DEF PassInv, RoomOK
  <2>4. UNCHANGED C!vars
    BY DEF C!vars
  <2> QED
    BY <1>1, <2>1, <2>3, <2>4 DEF PassInv
<1> QED
  BY <1>2, <1>3, <1>4, <1>5, <1>6, <1>7, <1>8, <1>9, <1>10, <1>11, <1>12,
     <1>13, <1>14, <1>15 DEF Next

\* What the pass has promised stays true of the disk: the invariant of crash
\* safety, the blocks and statistics the caller was told are staged, the
\* schema the header will name and the header an abort will put back.
THEOREM PassInvariant ==
    ASSUME CarryOn \subseteq {"mem"}, MaxCols < ColWrap, ~ LateBlocks
    PROVE  Spec => []PassInv
<1>1. Init => PassInv
  BY PassInit
<1>2. PassInv /\ [Next]_vars => PassInv'
  BY PassNext
<1> QED
  BY <1>1, <1>2, PTL DEF Spec

\* What a reader of the file finds changes only by a commit, in one step, to
\* exactly what the caller staged; an abort, a failed close and a crash in the
\* middle of any write discard the pass (include/tdc/stream.h, crash safety).
THEOREM ImplementsContainer ==
    ASSUME CarryOn \subseteq {"mem"}, MaxCols < ColWrap, ~ LateBlocks
    PROVE  Spec => CommitsOrDiscards
<1>1. Init => PassInv /\ C!Init
  BY PassInit
<1>2. PassInv /\ [Next]_vars => PassInv' /\ [C!Next]_(C!vars)
  BY PassNext
<1> QED
  BY <1>1, <1>2, PTL DEF Spec, CommitsOrDiscards, C!Spec

-----------------------------------------------------------------------------
(* Aborting.                                                               *)

\* The encoder in use has not ended.
EndedOK == mode # "closed" => ended = "open"

\* Only a step that frees the encoder says how it ended.
LEMMA EndedNext == EndedOK /\ [Next]_vars => EndedOK'
<1> SUFFICES ASSUME EndedOK, [Next]_vars
             PROVE  EndedOK'
  OBVIOUS
<1> USE DEF EndedOK
<1>1. CASE \/ \E n \in Columns, s \in BOOLEAN : OpenCreate(n, s)
           \/ \E n \in Columns : OpenWiden(n)
           \/ OpenExtend
  BY <1>1 DEF OpenCreate, OpenWiden, OpenExtend, Reopen
<1>2. CASE \/ \E p \in Payload : WriteBlock(p)
           \/ \E p \in Payload, g \in DOMAIN groups, s \in BOOLEAN :
                 WidenBlock(p, g, s)
           \/ Close
  BY <1>2 DEF WriteBlock, WidenBlock, Close, Begin, session
<1>3. CASE \/ WriteOpenSchema \/ WriteTailSchema \/ WriteIndex \/ CopyIndex
           \/ Repoint \/ HookReturns \/ AbortMoved \/ RestoreIndex
  BY <1>3 DEF WriteOpenSchema, WriteTailSchema, WriteIndex, CopyIndex, Repoint,
              HookReturns, AbortMoved, RestoreIndex, session
<1>4. CASE AppendToGroup \/ AppendToColumn \/ SetRowgroupStats \/ EndRowgroup
  BY <1>4 DEF AppendToGroup, AppendToColumn, SetRowgroupStats, EndRowgroup,
              Advance, session, control
<1>5. CASE PatchHeader \/ Abort \/ RestoreHeader \/ Crash \/ LastWriteFails
  BY <1>5 DEF PatchHeader, Abort, RestoreHeader, Crash, LastWriteFails, Free
<1>6. CASE WriteFails \/ HookFails \/ NoMemory
  BY <1>6 DEF WriteFails, HookFails, NoMemory, Fail, Free, session
<1>7. CASE UNCHANGED vars
  BY <1>7 DEF vars, session, control
<1> QED
  BY <1>1, <1>2, <1>3, <1>4, <1>5, <1>6, <1>7 DEF Next

\* Only two actions end a pass with an abort.
LEMMA AbortsBy ==
    ASSUME EndedOK, Next, mode # "closed", ended' = "aborted"
    PROVE  Abort \/ RestoreHeader
<1>1. ended = "open"
  BY DEF EndedOK
<1>2. CASE \/ \E n \in Columns, s \in BOOLEAN : OpenCreate(n, s)
           \/ \E n \in Columns : OpenWiden(n)
           \/ OpenExtend
  BY <1>2 DEF OpenCreate, OpenWiden, OpenExtend, CanOpen
<1>3. CASE \/ \E p \in Payload : WriteBlock(p)
           \/ \E p \in Payload, g \in DOMAIN groups, s \in BOOLEAN :
                 WidenBlock(p, g, s)
           \/ Close
  BY <1>1, <1>3 DEF WriteBlock, WidenBlock, Close, Begin
<1>4. CASE \/ WriteOpenSchema \/ WriteTailSchema \/ WriteIndex \/ CopyIndex
           \/ Repoint \/ HookReturns \/ AbortMoved \/ RestoreIndex
  BY <1>1, <1>4 DEF WriteOpenSchema, WriteTailSchema, WriteIndex, CopyIndex,
                    Repoint, HookReturns, AbortMoved, RestoreIndex
<1>5. CASE AppendToGroup \/ AppendToColumn \/ SetRowgroupStats \/ EndRowgroup
  BY <1>1, <1>5 DEF AppendToGroup, AppendToColumn, SetRowgroupStats,
                    EndRowgroup, Advance, control
<1>6. CASE PatchHeader \/ Crash \/ LastWriteFails
  BY <1>6 DEF PatchHeader, Crash, LastWriteFails, Free
<1>7. CASE WriteFails \/ HookFails \/ NoMemory
  BY <1>1, <1>7 DEF WriteFails, HookFails, NoMemory, Fail, Free
<1> QED
  BY <1>2, <1>3, <1>4, <1>5, <1>6, <1>7 DEF Next

\* What an abort leaves of a pass over a container.
LEMMA AbortedPass ==
    ASSUME PassInv, Abort \/ RestoreHeader, Reopened,
           failed => hdr.idx_off = live_index_off
    PROVE  /\ hdr' = orig_hdr
           /\ \E x \in IndexesAt(orig_hdr, body') : x.groups = orig_groups
<1>1. CASE Abort
  <2>1. hdr' = hdr /\ body' = body /\ moves = 0
    BY <1>1 DEF Abort, disk, Reopened
  <2>2. hdr.idx_off = live_index_off /\ IndexLive(hdr, body, orig_groups)
    BY DEF PassInv, IInv, CursorOK, FoundOK
  <2>3. hdr = orig_hdr
    BY <2>1, <2>2 DEF PassInv, MovedOK
  <2> QED
    BY <2>1, <2>2, <2>3 DEF IndexLive
<1>2. CASE RestoreHeader
  <2>1. pc = "undo_header" /\ hdr' = orig_hdr /\ body' = body
    BY <1>2 DEF RestoreHeader
  <2>2. IndexLive(orig_hdr, body, orig_groups)
    BY <2>1 DEF PassInv, IInv, CursorOK
  <2> QED
    BY <2>1, <2>2 DEF IndexLive
<1> QED
  BY <1>1, <1>2

\* Wherever a pass had got to, tdc_stream_encoder_abort leaves the header it
\* found and the index it found at the offset that header names, unless a
\* header write reported as failed is on disk.
THEOREM AbortPutsBack ==
    ASSUME CarryOn \subseteq {"mem"}, MaxCols < ColWrap, ~ LateBlocks
    PROVE  Spec => AbortRestores
<1>1. Spec => []PassInv
  BY PassInvariant
<1>2. Spec => []EndedOK
  <2>1. Init => EndedOK
    BY DEF Init, EndedOK
  <2> QED
    BY <2>1, EndedNext, PTL DEF Spec
<1> DEFINE Restores ==
       (/\ ended' = "aborted" /\ mode \in {"widen", "extend"}
        /\ failed => hdr.idx_off = live_index_off)
       => /\ hdr' = orig_hdr
          /\ \E x \in IndexesAt(orig_hdr, body') : x.groups = orig_groups
<1>3. PassInv /\ EndedOK /\ [Next]_vars => [Restores]_vars
  <2> SUFFICES ASSUME PassInv, EndedOK, Next, ended' = "aborted",
                      mode \in {"widen", "extend"},
                      failed => hdr.idx_off = live_index_off
               PROVE  /\ hdr' = orig_hdr
                      /\ \E x \in IndexesAt(orig_hdr, body') :
                            x.groups = orig_groups
    OBVIOUS
  <2>1. Abort \/ RestoreHeader
    BY AbortsBy
  <2> QED
    BY <2>1, AbortedPass DEF Reopened
<1> QED
  BY <1>1, <1>2, <1>3, PTL DEF Spec, AbortRestores

-----------------------------------------------------------------------------
(* What a step of the encoder does to the file.                            *)

\* Between passes an encoder can only be opened.
LEMMA Opens ==
    ASSUME PassInv, Next, mode = "closed"
    PROVE  \/ \E n \in Columns, s \in BOOLEAN : OpenCreate(n, s)
           \/ \E n \in Columns : OpenWiden(n)
           \/ OpenExtend
<1>1. pc = "idle" /\ ~ Reopened /\ groups = <<>>
  BY DEF PassInv, IInv, ControlOK, Reopened
<1>2. ~ (CanCall \/ \E p \in Payload : WriteBlock(p))
  BY DEF CanCall, WriteBlock
<1>3. ~ (\E p \in Payload, g \in DOMAIN groups, s \in BOOLEAN :
            WidenBlock(p, g, s))
  BY DEF CanCall, WidenBlock
<1>4. ~ (WriteOpenSchema \/ CopyIndex \/ Repoint \/ HookReturns
         \/ AppendToGroup \/ AppendToColumn \/ WriteTailSchema \/ WriteIndex
         \/ PatchHeader \/ RestoreIndex \/ RestoreHeader)
  BY <1>1 DEF WriteOpenSchema, CopyIndex, Repoint, HookReturns, AppendToGroup,
              AppendToColumn, WriteTailSchema, WriteIndex, PatchHeader,
              RestoreIndex, RestoreHeader
<1>5. ~ (SetRowgroupStats \/ EndRowgroup \/ Close \/ Abort \/ AbortMoved \/ Crash)
  BY <1>2 DEF SetRowgroupStats, EndRowgroup, Close, Abort, AbortMoved, Crash
<1>6. ~ (WriteFails \/ LastWriteFails \/ HookFails \/ NoMemory)
  BY <1>1 DEF WriteFails, LastWriteFails, HookFails, NoMemory, BodyWrites,
              HeaderWrites
<1> QED
  BY <1>2, <1>3, <1>4, <1>5, <1>6 DEF Next

\* The steps that end a pass, as PassEnds takes them; any other leaves what
\* the encoder was opened on alone.
Ends ==
    \/ PatchHeader \/ Abort \/ RestoreHeader \/ Crash
    \/ LastWriteFails
    \/ HookFails /\ req.call = "close"
    \/ NoMemory /\ pc = "index"

\* Opening, which is for a file no encoder has, writes no byte of the body.
LEMMA OpensClosed ==
    ASSUME \/ \E n \in Columns, s \in BOOLEAN : OpenCreate(n, s)
           \/ \E n \in Columns : OpenWiden(n)
           \/ OpenExtend
    PROVE  mode = "closed" /\ body' \subseteq body /\ mode' # "closed"
<1>1. ASSUME NEW n \in Columns, NEW s \in BOOLEAN, OpenCreate(n, s)
      PROVE  mode = "closed" /\ body' = {} /\ mode' = "create"
  BY <1>1, Zenon DEF OpenCreate, CanOpen
<1>2. ASSUME \/ \E n \in Columns : OpenWiden(n)
             \/ OpenExtend
      PROVE  mode = "closed" /\ body' = body /\ mode' \in {"widen", "extend"}
  BY <1>2 DEF OpenWiden, OpenExtend, CanOpen, Reopen, disk
<1> QED
  BY <1>1, <1>2

\* A step of an open pass ends it, or leaves its session alone.
LEMMA EndsOrStays ==
    ASSUME Next, mode # "closed"
    PROVE  \/ Ends /\ mode' = "closed" /\ n_blocks' = 0
           \/ UNCHANGED session /\ mode' # "closed"
<1>1. CASE \/ \E n \in Columns, s \in BOOLEAN : OpenCreate(n, s)
           \/ \E n \in Columns : OpenWiden(n)
           \/ OpenExtend
  BY <1>1, OpensClosed
<1>2. CASE \/ \E p \in Payload : WriteBlock(p)
           \/ \E p \in Payload, g \in DOMAIN groups, s \in BOOLEAN :
                 WidenBlock(p, g, s)
           \/ Close
  <2>1. CanCall /\ UNCHANGED session
    BY <1>2, Zenon DEF WriteBlock, WidenBlock, Close, Begin
  <2> QED
    BY <2>1 DEF session
<1>3. CASE \/ WriteOpenSchema \/ WriteTailSchema \/ WriteIndex \/ CopyIndex
           \/ Repoint \/ HookReturns \/ AbortMoved \/ RestoreIndex
  BY <1>3 DEF WriteOpenSchema, WriteTailSchema, WriteIndex, CopyIndex, Repoint,
              HookReturns, AbortMoved, RestoreIndex, session
<1>4. CASE AppendToGroup \/ AppendToColumn \/ SetRowgroupStats \/ EndRowgroup
  BY <1>4 DEF AppendToGroup, AppendToColumn, SetRowgroupStats, EndRowgroup,
              Advance, session
<1>5. CASE PatchHeader \/ Abort \/ RestoreHeader \/ Crash \/ LastWriteFails
  BY <1>5 DEF PatchHeader, Abort, RestoreHeader, Crash, LastWriteFails, Free,
              Ends
<1>6. CASE WriteFails
  BY <1>6 DEF WriteFails, Fail, session
<1>7. CASE HookFails
  BY <1>7 DEF HookFails, Fail, Free, session, Ends
<1>8. CASE NoMemory
  BY <1>8 DEF NoMemory, Fail, Free, session, Ends
<1> QED
  BY <1>1, <1>2, <1>3, <1>4, <1>5, <1>6, <1>7, <1>8 DEF Next

\* A write lands where WriteAt says, and the only blocks it adds are those
\* appended.
BodyGoes ==
    /\ body' # body =>
          /\ pc \in BodyWrites
          /\ \E n \in 0..WriteSize : Spared(body, WriteAt, n) \subseteq body'
    /\ \A e \in body' :
          /\ e \in body \/ (pc \in BodyWrites /\ e.at = WriteAt)
          /\ e.kind = "block" =>
                e \in body \/ (pc = "append" /\ e = BlockExtent(io, req.payload))

\* A whole write goes where WriteAt says.
LEMMA PutGoes ==
    ASSUME PassInv, mode # "closed", pc \in BodyWrites, NEW x,
           x.at = WriteAt, x.size = WriteSize, body' = Put(body, x),
           x.kind = "block" => pc = "append" /\ x = BlockExtent(io, req.payload)
    PROVE  BodyGoes
<1>1. WriteSize \in Nat
  BY WritePlace DEF PassInv
<1>2. WriteSize \in 0..WriteSize
  BY <1>1
<1>3. Spared(body, WriteAt, WriteSize) \subseteq body'
  BY DEF Put
<1>4. \A e \in body' : e \in body \/ e = x
  BY DEF Put, Spared
<1> QED
  BY <1>2, <1>3, <1>4 DEF BodyGoes

\* So does one that is torn,
LEMMA TornGoes ==
    ASSUME pc \in BodyWrites,
           \E n \in 0..WriteSize : body' = Spared(body, WriteAt, n)
    PROVE  BodyGoes
BY DEF BodyGoes, Spared

\* and a step that writes nothing goes nowhere.
LEMMA StillGoes ==
    ASSUME body' = body
    PROVE  BodyGoes
BY DEF BodyGoes

\* Every step of an open pass.
LEMMA BodyBy ==
    ASSUME PassInv, Next, mode # "closed"
    PROVE  BodyGoes
<1> USE DEF BodyWrites
<1>1. CASE \/ \E n \in Columns, s \in BOOLEAN : OpenCreate(n, s)
           \/ \E n \in Columns : OpenWiden(n)
           \/ OpenExtend
  BY <1>1, OpensClosed
<1>2. CASE \/ \E p \in Payload : WriteBlock(p)
           \/ \E p \in Payload, g \in DOMAIN groups, s \in BOOLEAN :
                 WidenBlock(p, g, s)
           \/ Close
  <2>1. UNCHANGED disk
    BY <1>2, Zenon DEF WriteBlock, WidenBlock, Close, Begin
  <2> QED
    BY <2>1, StillGoes DEF disk
<1>3. CASE WriteOpenSchema \/ WriteTailSchema
  <2> DEFINE x == SchemaExtent(io, schema_cols)
  <2>1. /\ x.at = io /\ x.size = SizeOfSchema(schema_cols) /\ x.kind # "block"
    BY DEF SchemaExtent
  <2>2. pc \in {"open_schema", "schema"} /\ body' = Put(body, x)
    BY <1>3 DEF WriteOpenSchema, WriteTailSchema
  <2>3. WriteAt = io /\ WriteSize = SizeOfSchema(schema_cols)
    BY <2>2 DEF WriteAt, WriteSize
  <2> HIDE DEF x
  <2> QED
    BY <2>1, <2>2, <2>3, PutGoes
<1>4. CASE WriteIndex
  <2> DEFINE x == IndexExtent(io, groups)
  <2>1. x.at = io /\ x.size = SizeOfIndex(groups) /\ x.kind # "block"
    BY DEF IndexExtent
  <2>2. pc = "index" /\ body' = Put(body, x)
    BY <1>4 DEF WriteIndex
  <2>3. WriteAt = io /\ WriteSize = SizeOfIndex(groups)
    BY <2>2 DEF WriteAt, WriteSize
  <2> HIDE DEF x
  <2> QED
    BY <2>1, <2>2, <2>3, PutGoes
<1>5. CASE CopyIndex
  <2> DEFINE x == [IndexExtent(CopyOffset(Need), orig_groups)
                      EXCEPT !.size = orig_hdr.idx_size]
  <2>1. x.at = CopyOffset(Need) /\ x.size = orig_hdr.idx_size /\ x.kind # "block"
    BY DEF IndexExtent
  <2>2. pc = "copy" /\ body' = Put(body, x)
    BY <1>5 DEF CopyIndex
  <2>3. WriteAt = CopyOffset(Need) /\ WriteSize = orig_hdr.idx_size
    BY <2>2 DEF WriteAt, WriteSize
  <2> HIDE DEF x
  <2> QED
    BY <2>1, <2>2, <2>3, PutGoes
<1>6. CASE RestoreIndex
  <2> DEFINE x == [IndexExtent(orig_hdr.idx_off, orig_groups)
                      EXCEPT !.size = orig_hdr.idx_size]
  <2>1. x.at = orig_hdr.idx_off /\ x.size = orig_hdr.idx_size /\ x.kind # "block"
    BY DEF IndexExtent
  <2>2. pc = "undo_index" /\ body' = Put(body, x)
    BY <1>6 DEF RestoreIndex
  <2>3. WriteAt = orig_hdr.idx_off /\ WriteSize = orig_hdr.idx_size
    BY <2>2 DEF WriteAt, WriteSize
  <2> HIDE DEF x
  <2> QED
    BY <2>1, <2>2, <2>3, PutGoes
<1>7. CASE AppendToGroup \/ AppendToColumn
  <2> DEFINE x == BlockExtent(io, req.payload)
  <2>1. /\ x.at = io /\ x.size = RecordSize[req.payload]
        /\ x = BlockExtent(io, req.payload)
    BY DEF BlockExtent
  <2>2. pc = "append" /\ body' = Put(body, x)
    BY <1>7 DEF AppendToGroup, AppendToColumn, Advance
  <2>3. WriteAt = io /\ WriteSize = RecordSize[req.payload]
    BY <2>2 DEF WriteAt, WriteSize
  <2> HIDE DEF x
  <2> QED
    BY <2>1, <2>2, <2>3, PutGoes
<1>8. CASE Repoint \/ HookReturns \/ AbortMoved \/ SetRowgroupStats \/ EndRowgroup
  BY <1>8, StillGoes DEF Repoint, HookReturns, AbortMoved, SetRowgroupStats,
                         EndRowgroup, disk
<1>9. CASE PatchHeader \/ Abort \/ RestoreHeader \/ HookFails \/ NoMemory
  BY <1>9, StillGoes DEF PatchHeader, Abort, RestoreHeader, HookFails, NoMemory,
                         disk
<1>10. CASE Crash \/ LastWriteFails
  <2>1. \/ body' = body
        \/ pc \in BodyWrites /\ \E n \in 0..WriteSize : body' = Spared(body, WriteAt, n)
    BY <1>10 DEF Crash, LastWriteFails
  <2> QED
    BY <2>1, StillGoes, TornGoes
<1>11. CASE WriteFails
  <2>1. \/ body' = body
        \/ pc \in BodyWrites /\ \E n \in 0..WriteSize : body' = Spared(body, WriteAt, n)
    BY <1>11 DEF WriteFails
  <2> QED
    BY <2>1, StillGoes, TornGoes
<1> QED
  BY <1>1, <1>2, <1>3, <1>4, <1>5, <1>6, <1>7, <1>8, <1>9, <1>10, <1>11 DEF Next

\* What is staged, and what was found, stays.
LEMMA Survives ==
    ASSUME PassInv, PassInv', Next, mode # "closed"
    PROVE  /\ pc # "undo_index" => KeptBelow(body, body', write_pos)
           /\ Reopened => KeptBelow(body, body', reuse_start)
<1>1. BodyGoes
  BY BodyBy
<1>2. /\ IInv /\ NonemptyOK
      /\ body' \in SUBSET Extent /\ BodyOK(body')
  BY DEF PassInv, IInv, TypeOK
<1>3. CASE body' = body
  BY <1>3 DEF KeptBelow
<1>4. CASE body' # body
  <2>1. /\ pc \in BodyWrites
        /\ \E n \in 0..WriteSize : Spared(body, WriteAt, n) \subseteq body'
    BY <1>1, <1>4 DEF BodyGoes
  <2>2. PICK n \in 0..WriteSize : Spared(body, WriteAt, n) \subseteq body'
    BY <2>1
  <2> QED
    BY <1>2, <2>1, <2>2, BodyKept
<1> QED
  BY <1>3, <1>4

-----------------------------------------------------------------------------
(* How a pass leaves the file.                                             *)

\* A pass that ends leaves the header as it is, or the one it was about to
\* write; and only a close is told it succeeded.
LEMMA EndDisk ==
    ASSUME Ends
    PROVE  \/ hdr' = hdr /\ ended' # "closed"
           \/ /\ hdr' = NextHeader /\ body' = body /\ pc \in HeaderWrites
              /\ ended' = "closed" => pc = "patch"
<1>1. CASE PatchHeader
  BY <1>1 DEF PatchHeader, NextHeader, HeaderWrites
<1>2. CASE RestoreHeader
  BY <1>2 DEF RestoreHeader, NextHeader, HeaderWrites, Free
<1>3. CASE Abort \/ Crash
  BY <1>3 DEF Abort, Crash, disk, Free
<1>4. CASE \/ HookFails /\ req.call = "close"
           \/ NoMemory /\ pc = "index"
  BY <1>4 DEF HookFails, NoMemory, disk, Free
<1>5. CASE LastWriteFails
  BY <1>5 DEF LastWriteFails, Free
<1> QED
  BY <1>1, <1>2, <1>3, <1>4, <1>5 DEF Ends

\* The header a close patches in over an index.
PatchedHeader ==
    EncoderHeader(n_blocks, write_pos, SizeOfIndex(groups), FinalSchemaOffset)

\* A pass over a container leaves it the index found, where the header found
\* or moved says, or the one the pass built, under the header it patched in.
LEMMA ReopenedEnds ==
    ASSUME PassInv, Next, Ends, Reopened
    PROVE  /\ Committed(hdr')
           /\ \/ /\ IndexLive(hdr', body', orig_groups)
                 /\ hdr' = orig_hdr \/ hdr' = MovedHeader(hdr'.idx_off)
                 /\ hdr'.idx_off \in Nat
                 /\ seekable => ended' # "closed"
              \/ /\ IndexLive(hdr', body', groups)
                 /\ hdr' = PatchedHeader /\ FinalSchemaOffset # 0
                 /\ pc = "patch"
<1>1. /\ IInv /\ TypeOK /\ mode # "closed" /\ FoundOK /\ CursorOK
      /\ groups # <<>>
  BY DEF PassInv, IInv, Reopened, NonemptyOK
<1>2. /\ hdr \in Header /\ orig_hdr \in Header /\ Committed(hdr)
      /\ hdr.idx_off \in Nat /\ hdr.idx_size \in Nat
      /\ orig_hdr.idx_size \in Nat /\ reuse_start \in Nat /\ write_pos \in Nat
      /\ live_index_off \in Nat
  BY <1>1, HeaderFields DEF Header
<1>3. HeaderSize <= reuse_start /\ HeaderSize \in Nat \ {0}
  <2>1. /\ HeaderSize <= SchemaOffset(orig_hdr)
        /\ SchemaOffset(orig_hdr) + orig_hdr.schema_size <= reuse_start
    BY <1>1 DEF FoundOK, SchemaLive
  <2> QED
    BY <1>2, <2>1, OffsetTypes, SizesAssumption
<1>4. CASE hdr' = hdr /\ (seekable => ended' # "closed")
  <2>1. hdr = orig_hdr \/ hdr = MovedHeader(hdr.idx_off)
    BY <1>1 DEF FoundOK
  <2>2. IndexLive(hdr, body', orig_groups)
    <3>1. CASE body' = body
      BY <1>1, <3>1 DEF FoundOK
    <3>2. CASE body' # body
      <4>1. /\ pc \in BodyWrites
            /\ \E n \in 0..WriteSize : Spared(body, WriteAt, n) \subseteq body'
        BY <1>1, <3>2, BodyBy DEF BodyGoes
      <4>2. PICK n \in 0..WriteSize : Spared(body, WriteAt, n) \subseteq body'
        BY <4>1
      <4>3. /\ WriteAt \in Nat /\ WriteSize \in Nat
            /\ reuse_start <= WriteAt
            /\ \/ WriteAt + WriteSize <= hdr.idx_off
               \/ hdr.idx_off + hdr.idx_size <= WriteAt
        BY <1>1, <4>1, WriteRegion
      <4>4. /\ n \in Nat
            /\ \/ WriteAt + n <= hdr.idx_off
               \/ hdr.idx_off + hdr.idx_size <= WriteAt
        BY <1>2, <4>3
      <4> QED
        BY <1>1, <4>2, <4>3, <4>4, FoundKept
    <3> QED
      BY <3>1, <3>2
  <2> QED
    BY <1>2, <1>4, <2>1, <2>2
<1>5. CASE /\ hdr' = NextHeader /\ body' = body /\ pc = "repoint"
           /\ ended' # "closed"
  <2> DEFINE at == CopyOffset(Need)
  <2>1. hdr' = MovedHeader(at)
    BY <1>5 DEF NextHeader
  <2>2. \E x \in body : /\ x.kind = "index" /\ x.at = at
                        /\ x.size = orig_hdr.idx_size /\ x.groups = orig_groups
    BY <1>1, <1>5 DEF CursorOK
  <2>3. /\ at \in Nat /\ reuse_start <= at
    <3>1. Need \in Nat /\ reuse_start <= live_index_off /\ reuse_start <= write_pos
      BY <1>1, <1>5, NeedType DEF CursorOK
    <3> QED
      BY <1>2, <3>1, CopyRoom
  <2> HIDE DEF at
  <2>4. /\ MovedHeader(at).idx_off = at
        /\ MovedHeader(at).idx_size = orig_hdr.idx_size
    BY <1>2, <2>3, MovedFields
  <2>6. IndexLive(MovedHeader(at), body, orig_groups)
    BY <2>2, <2>4 DEF IndexLive, IndexesAt
  <2>7. at # 0
    BY <1>2, <1>3, <2>3
  <2> QED
    BY <1>5, <2>1, <2>3, <2>4, <2>6, <2>7 DEF Committed
<1>6. CASE /\ hdr' = NextHeader /\ body' = body /\ pc = "undo_header"
           /\ ended' # "closed"
  <2>1. hdr' = orig_hdr
    BY <1>6 DEF NextHeader
  <2>2. IndexLive(orig_hdr, body, orig_groups) /\ Committed(orig_hdr)
    BY <1>1, <1>6 DEF CursorOK, FoundOK
  <2> QED
    BY <1>2, <1>6, <2>1, <2>2 DEF Header
<1>7. CASE hdr' = NextHeader /\ body' = body /\ pc = "patch" /\ seekable
  <2> DEFINE so == FinalSchemaOffset
             h  == EncoderHeader(n_blocks, write_pos, SizeOfIndex(groups), so)
  <2>1. hdr' = h
    BY <1>1, <1>7 DEF NextHeader, FinalHeader
  <2>2. \E x \in body : /\ x.kind = "index" /\ x.at = write_pos
                        /\ x.size = SizeOfIndex(groups) /\ x.groups = groups
    BY <1>1, <1>7 DEF IInv, ControlOK, StagedOK
  <2>3. so # 0
    <3>1. CASE mode = "widen"
      <4>1. PICK e \in body : /\ e.at + e.size = write_pos
                              /\ e.size = SizeOfSchema(schema_cols)
                              /\ e.at >= reuse_start
        BY <1>1, <1>7, <3>1 DEF IInv, SchemaOK
      <4>2. e.at \in Nat /\ e.size \in Nat
        BY <1>1 DEF TypeOK, Extent
      <4>3. so = write_pos - SizeOfSchema(schema_cols)
        BY <3>1 DEF FinalSchemaOffset
      <4> HIDE DEF so
      <4> QED
        BY <1>2, <1>3, <4>1, <4>2, <4>3
    <3>2. CASE mode = "extend"
      <4>1. so = SchemaOffset(orig_hdr)
        BY <3>2 DEF FinalSchemaOffset
      <4>2. HeaderSize <= SchemaOffset(orig_hdr) /\ SchemaOffset(orig_hdr) \in Nat
        BY <1>1, <1>2, OffsetTypes DEF FoundOK, SchemaLive
      <4> HIDE DEF so
      <4> QED
        BY <1>3, <4>1, <4>2
    <3> QED
      BY <3>1, <3>2 DEF Reopened
  <2>7. h = PatchedHeader /\ so = FinalSchemaOffset
    BY DEF PatchedHeader
  <2> HIDE DEF so
  <2>4. /\ h.widened /\ h.idx_off = write_pos /\ h.idx_size = SizeOfIndex(groups)
    BY <2>3, EncoderHeaderFields
  <2> HIDE DEF h
  <2>5. IndexLive(h, body, groups)
    BY <2>2, <2>4 DEF IndexLive, IndexesAt
  <2>6. write_pos # 0
    BY <1>1, <1>2, <1>3 DEF CursorOK
  <2> QED
    BY <1>7, <2>1, <2>3, <2>4, <2>5, <2>6, <2>7 DEF Committed
<1>8. CASE hdr' = NextHeader /\ body' = body /\ pc = "patch" /\ ~ seekable
  <2>1. hdr' = hdr
    BY <1>8 DEF NextHeader, FinalHeader
  <2> QED
    BY <1>4, <1>8, <2>1
<1> QED
  BY <1>4, <1>5, <1>6, <1>7, <1>8, EndDisk DEF HeaderWrites

\* The header such a pass leaves is the one found or says where its schema is.
LEMMA ReopenedLeaves ==
    ASSUME PassInv, Next, Ends, Reopened
    PROVE  /\ Committed(hdr')
           /\ \/ /\ IndexLive(hdr', body', orig_groups)
                 /\ hdr' = orig_hdr \/ hdr'.widened
              \/ IndexLive(hdr', body', groups) /\ hdr'.widened
<1>1. orig_hdr \in Header
  BY DEF PassInv, IInv, TypeOK
<1>2. \A at : MovedHeader(at).widened
  BY <1>1 DEF MovedHeader, Header
<1>3. FinalSchemaOffset # 0 => PatchedHeader.widened
  BY EncoderHeaderFields DEF PatchedHeader
<1> QED
  BY <1>2, <1>3, ReopenedEnds

-----------------------------------------------------------------------------
(* Moving the index.                                                       *)

\* The moves are counted by one action.
LEMMA MovesBy ==
    ASSUME moves \in Nat, Next, moves' = moves + 1
    PROVE  Repoint
<1>1. moves' # moves /\ moves' # 0
  OBVIOUS
<1>2. ASSUME NEW how, Free(how)
      PROVE  FALSE
  BY <1>1, <1>2 DEF Free
<1>3. CASE \/ \E n \in Columns, s \in BOOLEAN : OpenCreate(n, s)
           \/ \E n \in Columns : OpenWiden(n)
           \/ OpenExtend
  BY <1>1, <1>3 DEF OpenCreate, OpenWiden, OpenExtend, Reopen
<1>4. CASE \/ \E p \in Payload : WriteBlock(p)
           \/ \E p \in Payload, g \in DOMAIN groups, s \in BOOLEAN :
                 WidenBlock(p, g, s)
           \/ Close
  BY <1>1, <1>4 DEF WriteBlock, WidenBlock, Close, Begin, cursor
<1>5. CASE \/ WriteOpenSchema \/ WriteTailSchema \/ WriteIndex \/ CopyIndex
           \/ HookReturns \/ AbortMoved \/ RestoreIndex
  BY <1>1, <1>5 DEF WriteOpenSchema, WriteTailSchema, WriteIndex, CopyIndex,
                    HookReturns, AbortMoved, RestoreIndex, cursor
<1>6. CASE AppendToGroup \/ AppendToColumn \/ SetRowgroupStats \/ EndRowgroup
  BY <1>1, <1>6 DEF AppendToGroup, AppendToColumn, SetRowgroupStats,
                    EndRowgroup, Advance, cursor
<1>7. CASE PatchHeader \/ Abort \/ RestoreHeader \/ Crash \/ LastWriteFails
  BY <1>2, <1>7 DEF PatchHeader, Abort, RestoreHeader, Crash, LastWriteFails
<1>8. CASE WriteFails \/ HookFails \/ NoMemory
  BY <1>1, <1>2, <1>8 DEF WriteFails, HookFails, NoMemory, Fail
<1> QED
  BY <1>3, <1>4, <1>5, <1>6, <1>7, <1>8 DEF Next

\* What moving the index does to the room before it.
LEMMA MoveDoubles ==
    ASSUME PassInv, Repoint
    PROVE  /\ write_pos + Need > live_index_off
           /\ live_index_off' - reuse_start
                 >= 2 * (live_index_off - reuse_start + orig_hdr.idx_size)
           /\ moves \in Nat /\ moves' = moves + 1
           /\ Reopened /\ UNCHANGED session
           /\ live_index_off \in Nat /\ live_index_off' \in Nat
           /\ reuse_start \in Nat /\ orig_hdr.idx_size \in Nat
           /\ reuse_start <= live_index_off /\ write_pos \in Nat /\ Need \in Nat
<1>1. IInv /\ TypeOK /\ moves \in Nat
  BY DEF PassInv, IInv, TypeOK
<1>2. /\ pc = "repoint" /\ live_index_off' = CopyOffset(Need)
      /\ moves' = moves + 1 /\ UNCHANGED session
  BY DEF Repoint
<1>3. Need \in Nat /\ Reopened /\ mode # "create"
  BY <1>1, <1>2, NeedType DEF IInv, ControlOK, TypeOK, Reopened
<1>4. ~ (write_pos + Need <= live_index_off)
  BY <1>2, <1>3 DEF PassInv, RoomOK, Fits
<1> DEFINE need == Need
           size == orig_hdr.idx_size
           room == IF live_index_off > reuse_start
                   THEN live_index_off - reuse_start ELSE 0
           dbl  == 2 * (room + size)
           far  == write_pos + need - reuse_start
<1>5. /\ write_pos \in Nat /\ live_index_off \in Nat /\ reuse_start \in Nat
      /\ size \in Nat /\ need \in Nat
      /\ reuse_start <= live_index_off /\ reuse_start <= write_pos
  BY <1>1, <1>3 DEF TypeOK, Header, IInv, CursorOK
<1>6. room = live_index_off - reuse_start
  BY <1>5
<1>7. CopyOffset(need) = reuse_start + (IF dbl < far THEN far ELSE dbl)
  BY DEF CopyOffset
<1>8. CopyOffset(need) \in Nat
  BY <1>5, CopyRoom
<1> HIDE DEF need, size, room
<1>9. reuse_start + (IF dbl < far THEN far ELSE dbl) - reuse_start >= dbl
  BY <1>5, <1>6
<1> QED
  BY <1>1, <1>2, <1>3, <1>4, <1>5, <1>6, <1>7, <1>8, <1>9 DEF need, size

\* The index moves only out of the way of a write that would reach it, and
\* each move at least doubles the room before it.
MovesDouble ==
    [][moves' = moves + 1 =>
          /\ write_pos + Need > live_index_off
          /\ live_index_off' - reuse_start
                >= 2 * (live_index_off - reuse_start + orig_hdr.idx_size)]_vars

\* What makes moving the index cheap (include/tdc/stream.h, write order): a
\* pass moves it only when a write would reach it, and never to a place that
\* leaves less than twice the room, index included.
THEOREM MovingIsAmortised ==
    ASSUME CarryOn \subseteq {"mem"}, MaxCols < ColWrap, ~ LateBlocks
    PROVE  Spec => MovesDouble
<1>1. Spec => []PassInv
  BY PassInvariant
<1> DEFINE Doubles ==
       moves' = moves + 1 =>
          /\ write_pos + Need > live_index_off
          /\ live_index_off' - reuse_start
                >= 2 * (live_index_off - reuse_start + orig_hdr.idx_size)
<1>2. PassInv /\ [Next]_vars => [Doubles]_vars
  <2> SUFFICES ASSUME PassInv, Next, moves' = moves + 1
               PROVE  /\ write_pos + Need > live_index_off
                      /\ live_index_off' - reuse_start
                            >= 2 * (live_index_off - reuse_start
                                    + orig_hdr.idx_size)
    OBVIOUS
  <2>1. moves \in Nat
    BY DEF PassInv, IInv, TypeOK
  <2>2. Repoint
    BY <2>1, MovesBy
  <2> QED
    BY <2>2, MoveDoubles
<1> QED
  BY <1>1, <1>2, PTL DEF Spec, MovesDouble

\* The index moves, and the pass learns where it is, in one action.
LEMMA MovesOnlyBy ==
    ASSUME Next, mode # "closed", mode' # "closed"
    PROVE  Repoint \/ UNCHANGED <<moves, live_index_off>>
<1>1. CASE \/ \E n \in Columns, s \in BOOLEAN : OpenCreate(n, s)
           \/ \E n \in Columns : OpenWiden(n)
           \/ OpenExtend
  BY <1>1, OpensClosed
<1>2. CASE \/ \E p \in Payload : WriteBlock(p)
           \/ \E p \in Payload, g \in DOMAIN groups, s \in BOOLEAN :
                 WidenBlock(p, g, s)
           \/ Close
  <2>1. UNCHANGED cursor
    BY <1>2, Zenon DEF WriteBlock, WidenBlock, Close, Begin
  <2> QED
    BY <2>1 DEF cursor
<1>3. CASE \/ WriteOpenSchema \/ WriteTailSchema \/ WriteIndex \/ CopyIndex
           \/ HookReturns \/ AbortMoved \/ RestoreIndex
  BY <1>3 DEF WriteOpenSchema, WriteTailSchema, WriteIndex, CopyIndex,
              HookReturns, AbortMoved, RestoreIndex, cursor
<1>4. CASE AppendToGroup \/ AppendToColumn \/ SetRowgroupStats \/ EndRowgroup
  BY <1>4 DEF AppendToGroup, AppendToColumn, SetRowgroupStats, EndRowgroup,
              Advance, cursor
<1>5. CASE PatchHeader \/ Abort \/ RestoreHeader \/ Crash \/ LastWriteFails
  BY <1>5 DEF PatchHeader, Abort, RestoreHeader, Crash, LastWriteFails, Free
<1>6. CASE WriteFails \/ HookFails \/ NoMemory
  BY <1>6 DEF WriteFails, HookFails, NoMemory, Fail, Free
<1> QED
  BY <1>1, <1>2, <1>3, <1>4, <1>5, <1>6 DEF Next

\* After the k-th move there is room for 2^k times the index found.
RoomGrown ==
    Reopened /\ moves >= 1 =>
        live_index_off - reuse_start >= orig_hdr.idx_size * 2^moves

\* What the provers need told of products.
LEMMA Twice ==
    ASSUME NEW a \in Nat, NEW b \in Nat
    PROVE  a * (2 * b) = 2 * (a * b) /\ a * b \in Nat
OBVIOUS

\* Moving keeps up with the doubling; nothing else moves the index.
LEMMA RoomGrows ==
    ASSUME PassInv, PassInv', Next, RoomGrown
    PROVE  RoomGrown'
<1>1. CASE mode' = "closed" \/ mode = "closed"
  <2>1. CASE mode' = "closed"
    BY <2>1 DEF RoomGrown, Reopened
  <2>2. CASE mode = "closed"
    <3>1. moves = 0
      BY <2>2 DEF PassInv, IInv, ControlOK
    <3>2. moves' = moves
      BY <2>2, Opens DEF OpenCreate, OpenWiden, OpenExtend, Reopen
    <3> QED
      BY <3>1, <3>2 DEF RoomGrown
  <2> QED
    BY <1>1, <2>1, <2>2
<1>2. CASE mode # "closed" /\ mode' # "closed" /\ ~ Repoint
  <2>1. UNCHANGED <<moves, live_index_off>>
    BY <1>2, MovesOnlyBy
  <2>2. UNCHANGED session
    BY <1>2, EndsOrStays
  <2> QED
    BY <2>1, <2>2 DEF RoomGrown, Reopened, session
<1>3. CASE Repoint
  <2> DEFINE p == 2^moves
             q == 2^(moves + 1)
             w == orig_hdr.idx_size
  <2>1. /\ live_index_off' - reuse_start
              >= 2 * (live_index_off - reuse_start + w)
        /\ moves \in Nat /\ moves' = moves + 1
        /\ Reopened /\ UNCHANGED session
        /\ live_index_off \in Nat /\ live_index_off' \in Nat
        /\ reuse_start \in Nat /\ w \in Nat /\ reuse_start <= live_index_off
    BY <1>3, MoveDoubles
  <2>2. p \in Nat /\ q = 2 * p
    BY <2>1, PowerIs, PowerDoubles, Zenon
  <2>3. moves = 0 => p = 1
    BY PowerZero, Zenon
  <2>4. /\ w * (2 * p) = 2 * (w * p) /\ w * p \in Nat
    BY <2>1, <2>2, Twice
  <2>5. reuse_start' = reuse_start /\ orig_hdr' = orig_hdr
    BY <2>1 DEF session
  <2>6. moves >= 1 => live_index_off - reuse_start >= w * p
    BY <2>1 DEF RoomGrown
  <2>7. RoomGrown' <=> (Reopened' /\ moves' >= 1 =>
                           live_index_off' - reuse_start' >= orig_hdr'.idx_size * q)
    BY <2>1, Zenon DEF RoomGrown
  <2> HIDE DEF p, q, w
  <2> DEFINE wp == w * p
             a  == live_index_off
             b  == live_index_off'
             r  == reuse_start
  <2>8. w * q = 2 * wp /\ wp \in Nat
    BY <2>2, <2>4
  <2>9. moves = 0 => wp = w
    <3>1. w * 1 = w
      BY <2>1
    <3> QED
      BY <2>3, <3>1
  <2>10. moves >= 1 => a - r >= wp
    BY <2>6
  <2>11. /\ b - r >= 2 * (a - r + w) /\ moves \in Nat
         /\ a \in Nat /\ b \in Nat /\ r \in Nat /\ w \in Nat /\ r <= a
    BY <2>1
  <2> HIDE DEF wp, a, b, r
  <2>12. b - r >= 2 * wp
    BY <2>8, <2>9, <2>10, <2>11
  <2>13. live_index_off' - reuse_start >= w * q
    BY <2>8, <2>12 DEF b, r
  <2> QED
    BY <2>5, <2>7, <2>13 DEF w
<1> QED
  BY <1>1, <1>2, <1>3

\* "a pass that writes D bytes moves it O(log D) times" (include/tdc/stream.h,
\* write order) in its exact form: a pass that moves its index a (k+1)-th time
\* has reached past 2^k times the size of the index it found.
THEOREM MovesRarely ==
    ASSUME CarryOn \subseteq {"mem"}, MaxCols < ColWrap, ~ LateBlocks
    PROVE  Spec => MovesAreRare
<1> DEFINE Inv  == PassInv /\ RoomGrown
           Rare == moves' = moves + 1 /\ moves >= 1 =>
                      write_pos + Need - reuse_start > orig_hdr.idx_size * 2^moves
<1>1. Init => Inv
  BY PassInit DEF RoomGrown, Init, Reopened
<1>2. Inv /\ [Next]_vars => Inv'
  <2> SUFFICES ASSUME Inv, [Next]_vars
               PROVE  Inv'
    OBVIOUS
  <2>1. PassInv'
    BY PassNext
  <2>2. CASE Next
    BY <2>1, <2>2, RoomGrows
  <2>3. CASE UNCHANGED vars
    <3>1. UNCHANGED <<mode, moves, live_index_off, reuse_start, orig_hdr>>
      BY <2>3 DEF vars, session, cursor
    <3> QED
      BY <2>1, <3>1, Zenon DEF RoomGrown, Reopened
  <2> QED
    BY <2>2, <2>3
<1>3. Inv /\ [Next]_vars => [Rare]_vars
  <2> SUFFICES ASSUME PassInv, RoomGrown, Next, moves' = moves + 1, moves >= 1
               PROVE  write_pos + Need - reuse_start > orig_hdr.idx_size * 2^moves
    OBVIOUS
  <2>1. moves \in Nat
    BY DEF PassInv, IInv, TypeOK
  <2>2. Repoint
    BY <2>1, MovesBy
  <2> DEFINE wp   == orig_hdr.idx_size * 2^moves
             need == Need
  <2>3. /\ write_pos + need > live_index_off /\ Reopened
        /\ live_index_off \in Nat /\ reuse_start \in Nat /\ write_pos \in Nat
        /\ need \in Nat /\ orig_hdr.idx_size \in Nat
    BY <2>2, MoveDoubles
  <2>4. live_index_off - reuse_start >= wp
    BY <2>3, Zenon DEF RoomGrown
  <2>5. wp \in Nat
    <3>1. 2^moves \in Nat
      BY <2>1, PowerIs, Zenon
    <3> QED
      BY <2>3, <3>1, Twice, Zenon
  <2> HIDE DEF wp, need
  <2>6. write_pos + need - reuse_start > wp
    BY <2>3, <2>4, <2>5
  <2> QED
    BY <2>6, Zenon DEF wp, need
<1> HIDE DEF Inv
<1>4. Spec => [][Rare]_vars
  BY <1>1, <1>2, <1>3, PTL DEF Spec
<1> QED
  BY <1>4 DEF MovesAreRare

-----------------------------------------------------------------------------
(* No gap between the records.                                             *)

\* Offset o is inside a record the groups (the columns) list.
InGroups(o, gs) ==
    \E g \in DOMAIN gs : \E c \in DOMAIN gs[g].cols :
        /\ gs[g].cols[c].off <= o
        /\ o < gs[g].cols[c].off + gs[g].cols[c].total
InCols(o, cols) ==
    \E c \in DOMAIN cols : cols[c].off <= o /\ o < cols[c].off + cols[c].total

Filled(gs, cols, from, to) ==
    \A o \in from..(to - 1) : InGroups(o, gs) \/ InCols(o, cols)

\* No more blocks are listed than the n counted, and when all of them are,
\* their records fill the bytes up to `to`.
Counted(n, gs, cols, from, to) ==
    /\ Cardinality(ColEntries(gs)) + Len(cols) <= n
    /\ Cardinality(ColEntries(gs)) + Len(cols) = n => Filled(gs, cols, from, to)

\* While the schema is in its original slot, the records follow it, up to
\* whichever section ends last.
Dense(h, gs) ==
    SchemaOffset(h) = HeaderSize =>
        /\ BlocksStart(h) = HeaderSize + h.schema_size
        /\ \A e \in SectionEnds(h, gs) :
              Counted(h.n_blocks, gs, <<>>, BlocksStart(h), e)

\* The open pass has staged its records one after the other.
PassFilled ==
    ~ failed =>
        /\ mode = "create" =>
              Counted(n_blocks, groups, cur_cols,
                      HeaderSize + SizeOfSchema(schema_cols), write_pos)
        /\ mode = "extend" /\ SchemaOffset(orig_hdr) = HeaderSize =>
              Counted(n_blocks, groups, cur_cols, BlocksStart(orig_hdr), write_pos)

\* A container at rest is dense, and a close leaves its index right behind
\* the last record.
RestFilled ==
    mode = "closed" /\ Committed(hdr) =>
        \A x \in IndexesAt(hdr, body) :
            /\ Dense(hdr, x.groups)
            /\ ended = "closed" /\ SchemaOffset(hdr) = HeaderSize =>
                  Counted(hdr.n_blocks, x.groups, <<>>, BlocksStart(hdr),
                          hdr.idx_off)

\* So is the container a pass was opened on, and its io can seek.
FoundFilled == Reopened => seekable /\ Dense(orig_hdr, orig_groups)

\* Nothing but the header is in the header's bytes.
PastHeader == \A e \in body : HeaderSize <= e.at

GapInv == PassInv /\ EndedOK /\ PassFilled /\ RestFilled /\ FoundFilled /\ PastHeader

\* The entries of an index can be counted.
LEMMA ColEntriesCount ==
    ASSUME NEW gs \in Seq(Group)
    PROVE  /\ IsFiniteSet(ColEntries(gs))
           /\ Cardinality(ColEntries(gs)) \in Nat
<1> DEFINE grid == (1..Len(gs)) \X (1..ColWrap)
<1>1. IsFiniteSet(grid)
  <2>1. IsFiniteSet(1..Len(gs)) /\ IsFiniteSet(1..ColWrap)
    BY FS_Interval, SizesAssumption
  <2> QED
    BY <2>1, FS_Product
<1>2. ColEntries(gs) \subseteq grid
  BY DEF ColEntries
<1> QED
  BY <1>1, <1>2, FS_Subset, FS_CardinalityType

\* A row group adds as many entries as it has columns.
LEMMA ColEntriesAppend ==
    ASSUME NEW gs \in Seq(Group), NEW g \in Group, Len(g.cols) <= ColWrap
    PROVE  Cardinality(ColEntries(Append(gs, g)))
              = Cardinality(ColEntries(gs)) + Len(g.cols)
<1> DEFINE m   == Len(gs)
             k   == Len(g.cols)
             row == {m + 1} \X (1..k)
             old == ColEntries(gs)
             f   == [c \in 1..k |-> <<m + 1, c>>]
             gs2 == Append(gs, g)
<1>1. m \in Nat /\ k \in Nat /\ k <= ColWrap /\ ColWrap \in Nat
  BY SizesAssumption DEF Group
<1>2. ColEntries(gs2) = old \cup row
  <2>1. /\ Len(gs2) = m + 1 /\ gs2[m + 1].cols = g.cols
        /\ \A i \in 1..m : gs2[i] = gs[i]
    OBVIOUS
  <2> HIDE DEF gs2
  <2>2. ASSUME NEW e \in ColEntries(gs2)
        PROVE  e \in old \cup row
    <3>1. /\ e \in (1..(m + 1)) \X (1..ColWrap)
          /\ e[2] <= Len(gs2[e[1]].cols)
      BY <2>1 DEF ColEntries
    <3>2. CASE e[1] = m + 1
      BY <1>1, <2>1, <3>1, <3>2
    <3>3. CASE e[1] # m + 1
      <4>1. e[1] \in 1..m
        BY <1>1, <3>1, <3>3
      <4> QED
        BY <2>1, <3>1, <4>1 DEF ColEntries
    <3> QED
      BY <3>2, <3>3
  <2>3. ASSUME NEW e \in old
        PROVE  e \in ColEntries(gs2)
    <3>1. /\ e \in (1..m) \X (1..ColWrap)
          /\ e[2] <= Len(gs[e[1]].cols)
      BY DEF ColEntries
    <3> QED
      BY <1>1, <2>1, <3>1 DEF ColEntries
  <2>4. ASSUME NEW e \in row
        PROVE  e \in ColEntries(gs2)
    <3>1. e = <<m + 1, e[2]>> /\ e[2] \in 1..k
      OBVIOUS
    <3> QED
      BY <1>1, <2>1, <3>1 DEF ColEntries
  <2> QED
    BY <2>2, <2>3, <2>4
<1>3. old \cap row = {}
  <2>1. \A e \in old : e[1] \in 1..m
    BY DEF ColEntries
  <2>2. \A e \in row : e[1] = m + 1
    OBVIOUS
  <2>3. m + 1 \notin 1..m
    BY <1>1
  <2> HIDE DEF old, row
  <2> QED
    BY <2>1, <2>2, <2>3
<1>4. IsFiniteSet(old) /\ Cardinality(old) \in Nat
  BY ColEntriesCount
<1>5. IsFiniteSet(1..k) /\ Cardinality(1..k) = k
  <2>1. k \in Int /\ 1 \in Int
    BY <1>1
  <2>2. 1 > k => k = 0
    BY <1>1
  <2> HIDE DEF k
  <2>3. IsFiniteSet(1..k) /\ Cardinality(1..k) = IF 1 > k THEN 0 ELSE k - 1 + 1
    BY <2>1, FS_Interval
  <2> QED
    BY <2>1, <2>2, <2>3
<1>6. IsFiniteSet(row) /\ Cardinality(row) = k
  <2>1. f \in [1..k -> row] /\ DOMAIN f = 1..k /\ \A c \in 1..k : f[c] = <<m + 1, c>>
    OBVIOUS
  <2>2. \A e \in row : \E c \in 1..k : <<m + 1, c>> = e
    OBVIOUS
  <2>3. \A c, d : <<m + 1, c>> = <<m + 1, d>> => c = d
    OBVIOUS
  <2> HIDE DEF f, row
  <2>4. f \in Injection(1..k, row)
    BY <2>1, <2>3 DEF Injection, IsInjective
  <2>5. f \in Surjection(1..k, row)
    BY <2>1, <2>2 DEF Surjection
  <2>6. f \in Bijection(1..k, row)
    BY <2>4, <2>5 DEF Bijection
  <2>7. ExistsBijection(1..k, row)
    BY <2>6 DEF ExistsBijection
  <2> HIDE DEF k
  <2> QED
    BY <1>5, <2>7, FS_Bijection
<1> HIDE DEF row, old
<1>7. Cardinality(old \cup row) = Cardinality(old) + Cardinality(row) - Cardinality({})
  BY <1>3, <1>4, <1>6, FS_Union
<1>8. Cardinality({}) = 0
  BY FS_EmptySet
<1> QED
  BY <1>1, <1>2, <1>4, <1>6, <1>7, <1>8 DEF old

\* A record written at the cursor extends what is filled.
LEMMA CountedAppend ==
    ASSUME NEW n \in Nat, NEW gs \in Seq(Group), NEW cols \in Seq(Col),
           NEW from \in Nat, NEW to \in Nat, NEW size \in Nat,
           Counted(n, gs, cols, from, to)
    PROVE  Counted(n + 1, gs, Append(cols, [off |-> to, total |-> size]),
                   from, to + size)
<1> DEFINE c  == [off |-> to, total |-> size]
             cs == Append(cols, c)
             k  == Cardinality(ColEntries(gs))
<1>1. k \in Nat /\ Len(cols) \in Nat /\ Len(cs) = Len(cols) + 1
  BY ColEntriesCount
<1>2. cs[Len(cols) + 1] = c /\ \A i \in DOMAIN cols : i \in DOMAIN cs /\ cs[i] = cols[i]
  OBVIOUS
<1>3. Len(cols) + 1 \in DOMAIN cs
  OBVIOUS
<1>4. c.off = to /\ c.total = size
  OBVIOUS
<1> HIDE DEF c, cs
<1>5. ASSUME Filled(gs, cols, from, to)
      PROVE  Filled(gs, cs, from, to + size)
  <2> SUFFICES ASSUME NEW o \in Nat, from <= o, o < to + size
               PROVE  InGroups(o, gs) \/ InCols(o, cs)
    BY DEF Filled
  <2>1. CASE o < to
    BY <1>2, <1>5, <2>1 DEF Filled, InCols
  <2>2. CASE ~ (o < to)
    BY <1>2, <1>3, <1>4, <2>2 DEF InCols
  <2> QED
    BY <2>1, <2>2
<1> HIDE DEF k
<1>6. k + Len(cs) <= n + 1 /\ (k + Len(cs) = n + 1 => k + Len(cols) = n)
  <2>1. k + Len(cols) <= n
    BY DEF Counted, k
  <2> QED
    BY <1>1, <2>1
<1>7. Counted(n + 1, gs, cs, from, to + size)
  BY <1>5, <1>6 DEF Counted, k
<1> QED
  BY <1>7 DEF c, cs

\* The open row group's columns become a row group.
LEMMA CountedGroup ==
    ASSUME NEW n \in Nat, NEW gs \in Seq(Group), NEW g \in Group,
           NEW from \in Nat, NEW to \in Nat, Len(g.cols) <= ColWrap,
           Counted(n, gs, g.cols, from, to)
    PROVE  Counted(n, Append(gs, g), <<>>, from, to)
<1> DEFINE gs2 == Append(gs, g)
<1>1. /\ Len(gs) + 1 \in DOMAIN gs2 /\ gs2[Len(gs) + 1] = g
      /\ \A i \in DOMAIN gs : i \in DOMAIN gs2 /\ gs2[i] = gs[i]
  OBVIOUS
<1>2. Cardinality(ColEntries(gs2)) + Len(<<>>) = Cardinality(ColEntries(gs)) + Len(g.cols)
  <2>1. Cardinality(ColEntries(gs2)) = Cardinality(ColEntries(gs)) + Len(g.cols)
    BY ColEntriesAppend
  <2>2. Cardinality(ColEntries(gs)) \in Nat /\ Len(<<>>) = 0
    BY ColEntriesCount
  <2>3. Len(g.cols) \in Nat
    BY DEF Group
  <2> HIDE DEF gs2
  <2> QED
    BY <2>1, <2>2, <2>3
<1> HIDE DEF gs2
<1>3. ASSUME Filled(gs, g.cols, from, to)
      PROVE  Filled(gs2, <<>>, from, to)
  <2> SUFFICES ASSUME NEW o \in Nat, from <= o, o < to
               PROVE  InGroups(o, gs2)
    BY DEF Filled
  <2>1. CASE InGroups(o, gs)
    BY <1>1, <2>1 DEF InGroups
  <2>2. CASE InCols(o, g.cols)
    BY <1>1, <2>2 DEF InGroups, InCols
  <2> QED
    BY <1>3, <2>1, <2>2 DEF Filled
<1>4. Counted(n, gs2, <<>>, from, to)
  BY <1>2, <1>3 DEF Counted
<1> QED
  BY <1>4 DEF gs2

\* A close drops the columns no row group took; a shorter stretch is filled
\* when a longer one is.
LEMMA CountedLess ==
    ASSUME NEW n \in Nat, NEW gs \in Seq(Group), NEW cols \in Seq(Col),
           NEW from \in Nat, NEW to \in Nat, NEW less \in Nat, less <= to,
           Counted(n, gs, cols, from, to)
    PROVE  Counted(n, gs, <<>>, from, less)
<1>1. Cardinality(ColEntries(gs)) \in Nat /\ Len(cols) \in Nat /\ Len(<<>>) = 0
  BY ColEntriesCount
<1>2. Cardinality(ColEntries(gs)) + Len(<<>>) <= n
  BY <1>1 DEF Counted
<1>3. ASSUME Cardinality(ColEntries(gs)) + Len(<<>>) = n
      PROVE  Filled(gs, <<>>, from, less)
  <2>1. Len(cols) = 0 /\ Cardinality(ColEntries(gs)) + Len(cols) = n
    BY <1>1, <1>3 DEF Counted
  <2>2. cols = <<>>
    BY <2>1
  <2> QED
    BY <2>1, <2>2 DEF Counted, Filled
<1> QED
  BY <1>2, <1>3 DEF Counted

\* No section of a live container ends past what holds all of it.
LEMMA SectionsEndBy ==
    ASSUME NEW h \in Header, NEW b, NEW gs \in Seq(Group), NEW n \in Nat,
           SchemaLive(h, b, n), BlocksLive(gs, b, n)
    PROVE  \A e \in SectionEnds(h, gs) : e \in Nat /\ e <= n
<1> SUFFICES ASSUME NEW e \in SectionEnds(h, gs)
             PROVE  e \in Nat /\ e <= n
  OBVIOUS
<1>1. /\ h.schema_size \in Nat /\ BlocksStart(h) \in Nat
      /\ SchemaOffset(h) \in Nat
      /\ SchemaOffset(h) + h.schema_size <= n /\ BlocksStart(h) <= n
  BY OffsetTypes DEF SchemaLive
<1>2. CASE e \in {SchemaOffset(h) + h.schema_size, BlocksStart(h)}
  BY <1>1, <1>2
<1>3. CASE e \notin {SchemaOffset(h) + h.schema_size, BlocksStart(h)}
  <2>1. PICK g \in DOMAIN gs : \E c \in DOMAIN gs[g].cols :
                e = gs[g].cols[c].off + gs[g].cols[c].total
    BY <1>3 DEF SectionEnds
  <2>2. PICK c \in DOMAIN gs[g].cols :
                e = gs[g].cols[c].off + gs[g].cols[c].total
    BY <2>1
  <2>3. gs[g].cols \in Seq(Col)
    BY GroupType
  <2>4. gs[g].cols[c].off \in Nat /\ gs[g].cols[c].total \in Nat
    BY <2>3, ColType
  <2>5. e <= n
    BY <2>2 DEF BlocksLive, ColsLive
  <2> QED
    BY <2>2, <2>4, <2>5
<1> QED
  BY <1>2, <1>3

\* A body write stays out of the header, and a container ends past it.
LEMMA WritesPast ==
    ASSUME IInv, mode # "closed", pc \in BodyWrites
    PROVE  HeaderSize <= WriteAt
<1>1. /\ WriteAt \in Nat /\ HeaderSize \in Nat /\ write_pos \in Nat
      /\ schema_cols \in Nat /\ reuse_start \in Nat /\ orig_hdr \in Header
  BY WritePlace, SizesAssumption DEF IInv, TypeOK
<1>2. CASE Reopened
  <2>1. reuse_start <= WriteAt
    BY <1>2, WriteRegion
  <2>2. /\ HeaderSize <= SchemaOffset(orig_hdr)
        /\ SchemaOffset(orig_hdr) + orig_hdr.schema_size <= reuse_start
    BY <1>2 DEF IInv, FoundOK, SchemaLive
  <2>3. SchemaOffset(orig_hdr) \in Nat /\ orig_hdr.schema_size \in Nat
    BY <1>1, OffsetTypes
  <2> QED
    BY <1>1, <2>1, <2>2, <2>3
<1>3. CASE mode = "create"
  <2>1. pc # "undo_index"
    BY <1>3 DEF IInv, ControlOK
  <2>2. write_pos <= WriteAt
    BY <2>1, WritePlace
  <2>3. /\ pc = "open_schema" => write_pos = HeaderSize
        /\ pc # "open_schema" => HeaderSize + SizeOfSchema(schema_cols) <= write_pos
    BY <1>3 DEF IInv, CreateOK
  <2>4. SizeOfSchema(schema_cols) \in Nat
    BY <1>1, SizeOfSchemaType
  <2> QED
    BY <1>1, <2>2, <2>3, <2>4
<1> QED
  BY <1>2, <1>3, WritePlace

\* A container lists a record, so it ends past its header.
LEMMA FoundPast ==
    ASSUME PassInv, PastHeader, Reopened
    PROVE  HeaderSize < reuse_start
<1>1. /\ IInv /\ TypeOK /\ orig_groups # <<>> /\ orig_groups \in Seq(Group)
      /\ IndexParses(orig_groups, orig_hdr.has_stats)
      /\ BlocksLive(orig_groups, body, reuse_start)
  BY DEF PassInv, IInv, TypeOK, NonemptyOK, FoundOK
<1>2. 1 \in DOMAIN orig_groups
  BY <1>1
<1> DEFINE cols == orig_groups[1].cols
<1>3. cols \in Seq(Col) /\ cols # <<>>
  BY <1>1, <1>2, GroupType DEF IndexParses
<1>4. ColsLive(cols, body, reuse_start)
  BY <1>1, <1>2 DEF BlocksLive
<1> HIDE DEF cols
<1>5. 1 \in DOMAIN cols
  BY <1>3
<1>6. cols[1].off \in Nat /\ cols[1].total \in Nat
  BY <1>3, <1>5, ColType
<1>7. PICK e \in BlocksAt(cols[1], body) : TRUE
  BY <1>4, <1>5 DEF ColsLive
<1>8. e \in body /\ e.at = cols[1].off /\ e.size = cols[1].total
  BY <1>7 DEF BlocksAt
<1>9. e.size > 0 /\ HeaderSize <= e.at
  BY <1>1, <1>8 DEF IInv, BodyOK, PastHeader
<1>10. cols[1].off + cols[1].total <= reuse_start
  BY <1>4, <1>5 DEF ColsLive
<1>11. HeaderSize \in Nat /\ reuse_start \in Nat
  BY <1>1, SizesAssumption DEF TypeOK
<1> QED
  BY <1>6, <1>8, <1>9, <1>10, <1>11

\* Opening writes no extent and a write keeps out of the header's bytes.
LEMMA PastNext ==
    ASSUME PassInv, PastHeader, Next
    PROVE  PastHeader'
<1>1. CASE mode = "closed"
  <2>1. body' \subseteq body
    BY <1>1, Opens, OpensClosed
  <2> QED
    BY <2>1 DEF PastHeader
<1>2. CASE mode # "closed"
  <2>1. \A e \in body' : e \in body \/ (pc \in BodyWrites /\ e.at = WriteAt)
    BY <1>2, BodyBy DEF BodyGoes
  <2>2. pc \in BodyWrites => HeaderSize <= WriteAt
    BY <1>2, WritesPast DEF PassInv
  <2> QED
    BY <2>1, <2>2 DEF PastHeader
<1> QED
  BY <1>1, <1>2

\* What is filled stays filled while nothing is staged.
LEMMA QuietFills ==
    ASSUME PassFilled, UNCHANGED session,
           \/ failed'
           \/ ~ failed /\ UNCHANGED <<groups, cur_cols, n_blocks, write_pos>>
    PROVE  PassFilled'
BY DEF PassFilled, session

\* One step of an open pass.
LEMMA FillsNext ==
    ASSUME CarryOn \subseteq {"mem"}, MaxCols < ColWrap,
           PassInv, PassFilled, Next, mode # "closed", mode' # "closed"
    PROVE  PassFilled'
<1>1. /\ UNCHANGED session /\ mode' = mode
      /\ ~ (\/ \E n \in Columns, s \in BOOLEAN : OpenCreate(n, s)
            \/ \E n \in Columns : OpenWiden(n)
            \/ OpenExtend)
  BY EndsOrStays, OpensClosed DEF session
<1>2. /\ IInv /\ TypeOK /\ ControlOK
      /\ groups \in Seq(Group) /\ cur_cols \in Seq(Col) /\ n_blocks \in Nat
      /\ write_pos \in Nat /\ schema_cols \in Nat /\ orig_hdr \in Header
      /\ HeaderSize \in Nat
  BY SizesAssumption DEF PassInv, IInv, TypeOK
<1>3. BlocksStart(orig_hdr) \in Nat /\ HeaderSize + SizeOfSchema(schema_cols) \in Nat
  <2>1. SizeOfSchema(schema_cols) \in Nat
    BY <1>2, SizeOfSchemaType
  <2> QED
    BY <1>2, <2>1, OffsetTypes
<1>4. CASE \/ \E p \in Payload : WriteBlock(p)
           \/ \E p \in Payload, g \in DOMAIN groups, s \in BOOLEAN :
                 WidenBlock(p, g, s)
           \/ Close
  <2>1. ~ failed /\ UNCHANGED <<openrg, staged, cursor>>
    BY <1>4, Zenon DEF WriteBlock, WidenBlock, Close, Begin, CanCall
  <2> QED
    BY <1>1, <2>1, QuietFills DEF openrg, staged, cursor
<1>5. CASE \/ CopyIndex \/ Repoint \/ HookReturns \/ AbortMoved \/ RestoreIndex
           \/ WriteIndex \/ SetRowgroupStats
  <2>1. UNCHANGED <<groups, cur_cols, n_blocks, write_pos, failed>>
    BY <1>5 DEF CopyIndex, Repoint, HookReturns, AbortMoved, RestoreIndex,
                WriteIndex, SetRowgroupStats, openrg, staged, cursor, control
  <2>2. failed \in BOOLEAN
    BY <1>2 DEF TypeOK
  <2> QED
    BY <1>1, <2>1, <2>2, QuietFills
<1>6. CASE WriteOpenSchema
  <2>1. /\ pc = "open_schema" /\ mode = "create" /\ write_pos = HeaderSize
    BY <1>2, <1>6 DEF WriteOpenSchema, IInv, ControlOK, CreateOK, Reopened, TypeOK
  <2>2. /\ write_pos' = HeaderSize + SizeOfSchema(schema_cols)
        /\ UNCHANGED <<groups, cur_cols, n_blocks, failed, schema_cols>>
    BY <1>6, <2>1 DEF WriteOpenSchema, openrg, staged, session
  <2>3. Counted(n_blocks, groups, cur_cols,
                HeaderSize + SizeOfSchema(schema_cols), write_pos) =>
           Counted(n_blocks, groups, cur_cols,
                   HeaderSize + SizeOfSchema(schema_cols),
                   HeaderSize + SizeOfSchema(schema_cols))
    BY <1>3 DEF Counted, Filled
  <2> QED
    BY <1>1, <2>1, <2>2, <2>3 DEF PassFilled
<1>7. CASE WriteTailSchema
  <2>1. mode = "widen"
    BY <1>2, <1>7 DEF WriteTailSchema, ControlOK
  <2> QED
    BY <1>1, <2>1 DEF PassFilled
<1>8. CASE AppendToGroup
  <2>1. /\ pc = "append" /\ req.call = "write"
        /\ cur_cols' = Append(cur_cols, Pending) /\ groups' = groups
        /\ n_blocks' = n_blocks + 1 /\ failed' = failed
        /\ write_pos' = write_pos + RecordSize[req.payload]
    BY <1>8 DEF AppendToGroup, Advance
  <2>2. RecordSize[req.payload] \in Nat
    BY <1>2, <2>1, SizesAssumption DEF ControlOK
  <2>3. ASSUME NEW from \in Nat, Counted(n_blocks, groups, cur_cols, from, write_pos)
        PROVE  Counted(n_blocks', groups', cur_cols', from, write_pos')
    BY <1>2, <2>1, <2>2, <2>3, CountedAppend DEF Pending
  <2>4. schema_cols' = schema_cols /\ orig_hdr' = orig_hdr
    BY <1>1 DEF session
  <2> QED
    BY <1>1, <1>3, <2>1, <2>3, <2>4 DEF PassFilled
<1>9. CASE AppendToColumn
  <2>1. mode = "widen"
    BY <1>2, <1>9 DEF AppendToColumn, ControlOK
  <2> QED
    BY <1>1, <2>1 DEF PassFilled
<1>10. CASE EndRowgroup
  <2> DEFINE n_cols == Len(cur_cols) % ColWrap
  <2>1. /\ cur_cols' = <<>> /\ n_blocks' = n_blocks /\ write_pos' = write_pos
        /\ failed' = failed /\ ~ failed
    BY <1>10 DEF EndRowgroup, CanCall, cursor, control
  <2>2. \E s \in StatsRead(cur_stats, n_cols) :
           groups' = Append(groups, [off   |-> cur_group_offset,
                                     cols  |-> SubSeq(cur_cols, 1, n_cols),
                                     stats |-> s])
    BY <1>10 DEF EndRowgroup
  <2>3. Len(cur_cols) \in Nat /\ Len(cur_cols) <= MaxCols /\ MaxCols \in Nat
        /\ ColWrap \in Nat
    BY <1>2, <2>1, BoundsAssumption, SizesAssumption DEF ControlOK
  <2>4. n_cols = Len(cur_cols)
    BY <2>3, SmallMod
  <2> HIDE DEF n_cols
  <2>5. SubSeq(cur_cols, 1, n_cols) = cur_cols
    BY <1>2, <2>4
  <2>6. PICK s \in StatsRead(cur_stats, n_cols) :
           groups' = Append(groups, [off   |-> cur_group_offset,
                                     cols  |-> cur_cols, stats |-> s])
    BY <2>2, <2>5
  <2> DEFINE g == [off |-> cur_group_offset, cols |-> cur_cols, stats |-> s]
  <2>7. g \in Group /\ g.cols = cur_cols
    <3>1. cur_group_offset \in Nat
      BY <1>2 DEF TypeOK
    <3>2. s \in Seq(BOOLEAN)
      <4>1. n_cols \in Nat
        BY <2>3, <2>4
      <4>2. CASE cur_stats = <<>>
        BY <4>2 DEF StatsRead
      <4>3. CASE cur_stats # <<>>
        BY <4>1, <4>3 DEF StatsRead
      <4> QED
        BY <4>2, <4>3
    <3> QED
      BY <1>2, <3>1, <3>2 DEF Group
  <2>8. groups' = Append(groups, g)
    BY <2>6
  <2> HIDE DEF g
  <2>9. Len(g.cols) <= ColWrap
    BY <2>3, <2>7
  <2>10. ASSUME NEW from \in Nat, Counted(n_blocks, groups, cur_cols, from, write_pos)
         PROVE  Counted(n_blocks', groups', cur_cols', from, write_pos')
    BY <1>2, <2>1, <2>7, <2>8, <2>9, <2>10, CountedGroup
  <2>11. schema_cols' = schema_cols /\ orig_hdr' = orig_hdr
    BY <1>1 DEF session
  <2> QED
    BY <1>1, <1>3, <2>1, <2>10, <2>11 DEF PassFilled
<1>11. CASE WriteFails
  <2>1. failed'
    BY <1>11 DEF WriteFails, Fail
  <2> QED
    BY <1>1, <2>1, QuietFills
<1>12. CASE HookFails
  <2>1. Fail("hook")
    BY <1>12 DEF HookFails, Free
  <2>2. failed'
    BY <2>1 DEF Fail
  <2> QED
    BY <1>1, <2>2, QuietFills
<1>13. CASE NoMemory
  <2>1. /\ pc = "append" /\ Fail("mem") /\ UNCHANGED <<cur_cols, groups>>
    BY <1>13 DEF NoMemory, Free
  <2>2. ~ failed /\ UNCHANGED <<n_blocks, write_pos>>
    BY <1>2, <2>1 DEF ControlOK, Fail
  <2> QED
    BY <1>1, <2>1, <2>2, QuietFills
<1>14. CASE PatchHeader \/ Abort \/ RestoreHeader \/ Crash \/ LastWriteFails
  BY <1>14 DEF PatchHeader, Abort, RestoreHeader, Crash, LastWriteFails, Free
<1> QED
  BY <1>1, <1>4, <1>5, <1>6, <1>7, <1>8, <1>9, <1>10, <1>11, <1>12, <1>13, <1>14
     DEF Next

\* What Dense takes of a header.
LEMMA DenseSame ==
    ASSUME NEW h, NEW h2, NEW gs, Dense(h, gs),
           SchemaOffset(h2) = SchemaOffset(h), BlocksStart(h2) = BlocksStart(h),
           h2.schema_size = h.schema_size, h2.n_blocks = h.n_blocks
    PROVE  Dense(h2, gs)
BY DEF Dense, SectionEnds

\* A close commits what the pass filled.
LEMMA PatchedDense ==
    ASSUME IInv, pc = "patch", mode # "closed", NEW h, h = PatchedHeader,
           SchemaOffset(h) = HeaderSize =>
              /\ BlocksStart(h) = HeaderSize + h.schema_size
              /\ Counted(n_blocks, groups, cur_cols, BlocksStart(h), write_pos)
    PROVE  /\ Dense(h, groups)
           /\ SchemaOffset(h) = HeaderSize =>
                 Counted(h.n_blocks, groups, <<>>, BlocksStart(h), h.idx_off)
<1>1. /\ TypeOK /\ ~ failed
      /\ groups \in Seq(Group) /\ cur_cols \in Seq(Col) /\ n_blocks \in Nat
      /\ write_pos \in Nat
  BY DEF IInv, TypeOK, ControlOK
<1>2. SizeOfIndex(groups) \in Nat
  BY <1>1, SizeOfIndexType
<1>3. FinalSchemaOffset \in Nat /\ SchemaLive(h, body, write_pos)
  BY <1>1, <1>2, PatchedSchema DEF PatchedHeader
<1>4. h \in Header
  BY <1>1, <1>2, <1>3, EncoderHeaderType DEF PatchedHeader
<1>5. h.idx_off = write_pos /\ h.n_blocks = n_blocks
  BY DEF PatchedHeader, EncoderHeader
<1>6. BlocksLive(groups, body, write_pos)
  BY <1>1 DEF IInv, StagedOK
<1>7. \A e \in SectionEnds(h, groups) : e \in Nat /\ e <= write_pos
  BY <1>1, <1>3, <1>4, <1>6, SectionsEndBy
<1>8. BlocksStart(h) \in Nat
  BY <1>4, OffsetTypes
<1>9. ASSUME Counted(n_blocks, groups, cur_cols, BlocksStart(h), write_pos),
             NEW e \in Nat, e <= write_pos
      PROVE  Counted(n_blocks, groups, <<>>, BlocksStart(h), e)
  BY <1>1, <1>9, <1>8, CountedLess
<1> QED
  BY <1>1, <1>5, <1>7, <1>9 DEF Dense

\* A pass that ends leaves a dense container: the one it found, under the
\* header it had or a moved one, or the one it filled.
LEMMA EndsFilled ==
    ASSUME GapInv, PassInv', Next, mode # "closed", mode' = "closed"
    PROVE  RestFilled'
<1>1. /\ PassInv /\ IInv /\ TypeOK /\ Ends
      /\ PassFilled /\ FoundFilled /\ PastHeader
      /\ body' \in SUBSET Extent /\ BodyOK(body')
      /\ orig_hdr \in Header /\ schema_cols \in Nat
      /\ HeaderSize \in Nat
  BY EndsOrStays, SizesAssumption DEF GapInv, PassInv, IInv, TypeOK
<1>2. ASSUME NEW gs, IndexLive(hdr', body', gs),
             Dense(hdr', gs),
             ended' = "closed" /\ SchemaOffset(hdr') = HeaderSize =>
                Counted(hdr'.n_blocks, gs, <<>>, BlocksStart(hdr'), hdr'.idx_off)
      PROVE  RestFilled'
  <2>1. \A x \in IndexesAt(hdr', body') : x.groups = gs
    BY <1>1, <1>2, OneIndex DEF IndexLive
  <2> QED
    BY <1>2, <2>1 DEF RestFilled
<1>3. CASE Reopened
  <2>1. /\ Dense(orig_hdr, orig_groups) /\ seekable
        /\ mode # "closed"
    BY <1>1, <1>3 DEF FoundFilled
  <2>2. CASE /\ IndexLive(hdr', body', orig_groups)
             /\ hdr' = orig_hdr \/ hdr' = MovedHeader(hdr'.idx_off)
             /\ hdr'.idx_off \in Nat
             /\ ended' # "closed"
    <3> DEFINE at == hdr'.idx_off
    <3>1. /\ SchemaOffset(MovedHeader(at)) = SchemaOffset(orig_hdr)
          /\ BlocksStart(MovedHeader(at)) = BlocksStart(orig_hdr)
          /\ MovedHeader(at).schema_size = orig_hdr.schema_size
      BY <1>1, <2>2, MovedFields
    <3>2. MovedHeader(at).n_blocks = orig_hdr.n_blocks
      BY <1>1 DEF MovedHeader, Header
    <3>3. Dense(hdr', orig_groups)
      BY <2>1, <2>2, <3>1, <3>2, DenseSame
    <3> QED
      BY <1>2, <2>2, <3>3
  <2>3. CASE /\ IndexLive(hdr', body', groups)
             /\ hdr' = PatchedHeader /\ FinalSchemaOffset # 0
             /\ pc = "patch"
    <3>1. ~ failed
      BY <1>1, <2>3 DEF IInv, ControlOK
    <3>2. /\ hdr'.widened /\ hdr'.schema_off = FinalSchemaOffset
          /\ hdr'.blocks_start = BlocksStart(orig_hdr)
          /\ hdr'.schema_size = SizeOfSchema(schema_cols)
      BY <2>3, EncoderHeaderFields DEF PatchedHeader
    <3>3. SchemaOffset(hdr') = FinalSchemaOffset /\ BlocksStart(hdr') = BlocksStart(orig_hdr)
      BY <3>2 DEF SchemaOffset, BlocksStart
    <3>4. SchemaOffset(hdr') = HeaderSize =>
             /\ BlocksStart(hdr') = HeaderSize + hdr'.schema_size
             /\ Counted(n_blocks, groups, cur_cols, BlocksStart(hdr'), write_pos)
      <4>1. CASE mode = "widen"
        <5>1. PICK e \in body : /\ e.at + e.size = write_pos
                                /\ e.size = SizeOfSchema(schema_cols)
                                /\ e.at >= reuse_start
          BY <1>1, <1>3, <2>3, <4>1 DEF IInv, SchemaOK
        <5>2. e.at \in Nat /\ e.size \in Nat /\ reuse_start \in Nat
          BY <1>1 DEF TypeOK, Extent
        <5>3. FinalSchemaOffset = write_pos - SizeOfSchema(schema_cols)
          BY <4>1 DEF FinalSchemaOffset
        <5>4. HeaderSize < reuse_start
          BY <1>1, <1>3, FoundPast
        <5> QED
          BY <1>1, <3>3, <5>1, <5>2, <5>3, <5>4
      <4>2. CASE mode = "extend"
        <5>1. FinalSchemaOffset = SchemaOffset(orig_hdr)
          BY <4>2 DEF FinalSchemaOffset
        <5>2. SizeOfSchema(schema_cols) = orig_hdr.schema_size
          BY <1>1, <1>3, <4>2 DEF IInv, SchemaOK
        <5> QED
          BY <1>1, <2>1, <3>1, <3>2, <3>3, <4>2, <5>1, <5>2 DEF Dense, PassFilled
      <4> QED
        BY <1>3, <4>1, <4>2 DEF Reopened
    <3>5. /\ Dense(hdr', groups)
          /\ SchemaOffset(hdr') = HeaderSize =>
                Counted(hdr'.n_blocks, groups, <<>>, BlocksStart(hdr'), hdr'.idx_off)
      BY <1>1, <2>1, <2>3, <3>4, PatchedDense
    <3> QED
      BY <1>2, <2>3, <3>5
  <2> QED
    BY <1>1, <1>3, <2>1, <2>2, <2>3, ReopenedEnds
<1>4. CASE mode = "create"
  <2>1. CASE ~ Committed(hdr')
    BY <2>1 DEF RestFilled
  <2>2. CASE Committed(hdr')
    <3>1. ~ Committed(hdr) /\ pc \notin {"repoint", "undo_header"}
      BY <1>1, <1>4 DEF IInv, CreateOK, ControlOK
    <3>2. hdr' = FinalHeader /\ body' = body /\ pc = "patch"
      BY <1>1, <2>2, <3>1, EndDisk DEF HeaderWrites, NextHeader
    <3>3. seekable /\ ~ failed
      BY <1>1, <2>2, <3>1, <3>2 DEF FinalHeader, IInv, ControlOK
    <3>4. FinalSchemaOffset = 0
      BY <1>4 DEF FinalSchemaOffset
    <3>5. groups # <<>>
      <4>1. EncoderHeader(n_blocks, 0, 0, FinalSchemaOffset).idx_off = 0
        BY EncoderHeaderFields
      <4> QED
        BY <2>2, <3>2, <3>3, <4>1 DEF FinalHeader, Committed
    <3>6. hdr' = PatchedHeader
      BY <3>2, <3>3, <3>5 DEF FinalHeader, PatchedHeader
    <3>7. /\ ~ hdr'.widened /\ hdr'.idx_off = write_pos
          /\ hdr'.idx_size = SizeOfIndex(groups)
          /\ hdr'.schema_size = SizeOfSchema(schema_cols)
      BY <3>4, <3>6, EncoderHeaderFields DEF PatchedHeader
    <3>8. \E x \in body : /\ x.kind = "index" /\ x.at = write_pos
                          /\ x.size = SizeOfIndex(groups) /\ x.groups = groups
      BY <1>1, <3>2, <3>3, <3>5 DEF IInv, StagedOK
    <3>9. IndexLive(hdr', body', groups)
      BY <3>2, <3>7, <3>8 DEF IndexLive, IndexesAt
    <3>10. /\ BlocksStart(hdr') = HeaderSize + hdr'.schema_size
           /\ Counted(n_blocks, groups, cur_cols, BlocksStart(hdr'), write_pos)
      BY <1>1, <1>4, <3>3, <3>7 DEF BlocksStart, PassFilled
    <3>11. /\ Dense(hdr', groups)
           /\ SchemaOffset(hdr') = HeaderSize =>
                 Counted(hdr'.n_blocks, groups, <<>>, BlocksStart(hdr'), hdr'.idx_off)
      BY <1>1, <3>2, <3>6, <3>10, PatchedDense
    <3> QED
      BY <1>2, <3>9, <3>11
  <2> QED
    BY <2>1, <2>2
<1> QED
  BY <1>1, <1>3, <1>4 DEF TypeOK, Reopened

\* A pass starts filled up to the write cursor: an empty container right
\* behind its schema, one found up to where its last section ends.
LEMMA OpensFilled ==
    ASSUME GapInv, PassInv', Next, mode = "closed"
    PROVE  mode' # "closed" /\ PassFilled' /\ FoundFilled'
<1>1. /\ PassInv /\ IInv /\ TypeOK /\ RestFilled /\ groups = <<>> /\ cur_cols = <<>>
      /\ n_blocks \in Nat /\ schema_cols' \in Nat /\ HeaderSize \in Nat
      /\ hdr \in Header
  BY SizesAssumption DEF GapInv, PassInv, IInv, TypeOK, ControlOK
<1>2. CASE \E n \in Columns, s \in BOOLEAN : OpenCreate(n, s)
  <2>1. /\ mode' = "create" /\ groups' = <<>> /\ cur_cols' = <<>>
        /\ n_blocks' = n_blocks /\ write_pos' = HeaderSize
    BY <1>1, <1>2 DEF OpenCreate, openrg, staged
  <2>2. SizeOfSchema(schema_cols') \in Nat
    BY <1>1, SizeOfSchemaType
  <2>3. Cardinality(ColEntries(<<>>)) + Len(<<>>) = 0
    <3>1. ColEntries(<<>>) = {}
      BY DEF ColEntries
    <3> QED
      BY <3>1, FS_EmptySet
  <2>4. Counted(n_blocks, <<>>, <<>>, HeaderSize + SizeOfSchema(schema_cols'), HeaderSize)
    BY <1>1, <2>2, <2>3 DEF Counted, Filled
  <2> QED
    BY <2>1, <2>4 DEF PassFilled, FoundFilled, Reopened
<1>3. CASE \/ \E n \in Columns : OpenWiden(n)
           \/ OpenExtend
  <2>1. /\ mode' \in {"widen", "extend"}
        /\ \E x \in IndexesAt(hdr, body) : Reopen(x)
        /\ cur_cols' = cur_cols
    BY <1>3 DEF OpenWiden, OpenExtend, Reopen, openrg
  <2>2. PICK x \in IndexesAt(hdr, body) : Reopen(x)
    BY <2>1
  <2>3. /\ Committed(hdr) /\ orig_hdr' = hdr /\ orig_groups' = x.groups
        /\ groups' = x.groups /\ n_blocks' = hdr.n_blocks /\ seekable'
        /\ write_pos' \in SectionEnds(hdr, x.groups)
    BY <2>2 DEF Reopen
  <2>4. Dense(hdr, x.groups)
    BY <1>1, <2>3 DEF RestFilled
  <2> QED
    BY <1>1, <2>1, <2>3, <2>4 DEF PassFilled, FoundFilled, Dense
<1> QED
  BY <1>1, <1>2, <1>3, Opens

\* An empty file has nothing to fill.
LEMMA GapInit == Init => GapInv
<1> SUFFICES ASSUME Init
             PROVE  GapInv
  OBVIOUS
<1>1. PassInv
  BY PassInit
<1>2. mode = "closed" /\ ~ Committed(hdr) /\ body = {}
  BY DEF Init, NoHeader, Committed
<1> QED
  BY <1>1, <1>2 DEF GapInv, EndedOK, PassFilled, RestFilled, FoundFilled,
                    PastHeader, Reopened

\* Every step keeps GapInv.
LEMMA GapNext ==
    ASSUME CarryOn \subseteq {"mem"}, MaxCols < ColWrap, ~ LateBlocks
    PROVE  GapInv /\ [Next]_vars => GapInv'
<1> SUFFICES ASSUME GapInv, [Next]_vars
             PROVE  GapInv'
  OBVIOUS
<1>1. PassInv' /\ EndedOK'
  BY PassNext, EndedNext DEF GapInv
<1>2. CASE Next
  <2>1. PastHeader'
    BY <1>2, PastNext DEF GapInv
  <2>2. CASE mode = "closed"
    BY <1>1, <1>2, <2>1, <2>2, OpensFilled DEF GapInv, RestFilled
  <2>3. CASE mode # "closed" /\ mode' = "closed"
    BY <1>1, <1>2, <2>1, <2>3, EndsFilled
       DEF GapInv, PassFilled, FoundFilled, Reopened
  <2>4. CASE mode # "closed" /\ mode' # "closed"
    <3>1. PassFilled'
      BY <1>2, <2>4, FillsNext DEF GapInv
    <3>2. UNCHANGED session
      BY <1>2, <2>4, EndsOrStays
    <3>3. FoundFilled'
      BY <3>2 DEF GapInv, FoundFilled, Reopened, session
    <3> QED
      BY <1>1, <2>1, <2>4, <3>1, <3>3 DEF GapInv, RestFilled
  <2> QED
    BY <2>2, <2>3, <2>4
<1>3. CASE UNCHANGED vars
  BY <1>1, <1>3 DEF GapInv, PassFilled, RestFilled, FoundFilled, PastHeader,
                    Reopened, vars, disk, session, cursor, openrg, staged, control
<1> QED
  BY <1>2, <1>3

\* GapInv is inductive.
THEOREM FilledInvariant ==
    ASSUME CarryOn \subseteq {"mem"}, MaxCols < ColWrap, ~ LateBlocks
    PROVE  Spec => []GapInv
<1>1. GapInv /\ [Next]_vars => GapInv'
  BY GapNext
<1> QED
  BY <1>1, GapInit, PTL DEF Spec

\* Extending in several passes leaves what one pass would (the byte-identity
\* tests/test_stream_extend.c:17 tells of): while the schema is in its
\* original slot and no pass was closed on an open row group, schema, records
\* and index follow one another without a gap, whatever passes crashed, failed
\* or were aborted in between.
THEOREM NoGapLeft ==
    ASSUME CarryOn \subseteq {"mem"}, MaxCols < ColWrap, ~ LateBlocks
    PROVE  Spec => []ExtendLeavesNoGap
<1>1. Spec => []GapInv
  BY FilledInvariant
<1>2. GapInv => ExtendLeavesNoGap
  <2> SUFFICES ASSUME GapInv, NoOrphans, SchemaOffset(hdr) = HeaderSize,
                      NEW o \in HeaderSize..(hdr.idx_off - 1)
               PROVE  Covered(o, LiveExtents(hdr, body))
    BY DEF ExtendLeavesNoGap
  <2>1. /\ IInv /\ HeaderOK(hdr, body) /\ Committed(hdr) /\ ended = "closed"
        /\ mode = "closed" /\ body \in SUBSET Extent /\ hdr \in Header
        /\ HeaderSize \in Nat /\ RestFilled
    BY SizesAssumption DEF GapInv, PassInv, IInv, TypeOK, EndedOK, NoOrphans
  <2>2. PICK x \in IndexesAt(hdr, body) : BlocksLive(x.groups, body, hdr.idx_off)
    BY <2>1 DEF HeaderOK
  <2> DEFINE gs == x.groups
             live == LiveExtents(hdr, body)
  <2>3. gs \in Seq(Group)
    BY <2>1 DEF IndexesAt, Extent
  <2>4. /\ Dense(hdr, gs)
        /\ Counted(hdr.n_blocks, gs, <<>>, BlocksStart(hdr), hdr.idx_off)
        /\ hdr.n_blocks = Cardinality(ColEntries(gs))
    BY <2>1 DEF RestFilled, NoOrphans
  <2>5. Filled(gs, <<>>, BlocksStart(hdr), hdr.idx_off)
    <3>1. Cardinality(ColEntries(gs)) \in Nat /\ Len(<<>>) = 0
      BY <2>3, ColEntriesCount
    <3> QED
      BY <2>4, <3>1 DEF Counted
  <2>6. /\ o \in Nat /\ HeaderSize <= o /\ o < hdr.idx_off
        /\ hdr.schema_size \in Nat
    BY <2>1 DEF Header
  <2>7. CASE o < HeaderSize + hdr.schema_size
    <3>1. hdr.schema_size # 0
      BY <2>1, <2>6, <2>7
    <3>2. PICK e \in SchemasAt(hdr, body) : TRUE
      BY <2>1, <3>1 DEF HeaderOK, SchemaLive
    <3>3. e \in live /\ e.at = HeaderSize /\ e.size = hdr.schema_size
      BY <3>2 DEF LiveExtents, SchemasAt
    <3> QED
      BY <2>6, <2>7, <3>3 DEF Covered
  <2>8. CASE ~ (o < HeaderSize + hdr.schema_size)
    <3>1. BlocksStart(hdr) = HeaderSize + hdr.schema_size
      BY <2>4 DEF Dense
    <3>2. BlocksStart(hdr) <= o
      BY <2>1, <2>6, <2>8, <3>1
    <3>3. InGroups(o, gs)
      BY <2>5, <2>6, <3>2 DEF Filled, InCols
    <3>4. PICK g \in DOMAIN gs : \E c \in DOMAIN gs[g].cols :
             /\ gs[g].cols[c].off <= o
             /\ o < gs[g].cols[c].off + gs[g].cols[c].total
      BY <3>3 DEF InGroups
    <3>5. PICK c \in DOMAIN gs[g].cols :
             /\ gs[g].cols[c].off <= o
             /\ o < gs[g].cols[c].off + gs[g].cols[c].total
      BY <3>4
    <3>6. PICK e \in BlocksAt(gs[g].cols[c], body) : TRUE
      BY <2>2 DEF BlocksLive, ColsLive
    <3>7. e \in body /\ e.at = gs[g].cols[c].off /\ e.size = gs[g].cols[c].total
      BY <3>6 DEF BlocksAt
    <3>8. e \in live
      BY <3>6, <3>7 DEF LiveExtents
    <3> QED
      BY <3>5, <3>7, <3>8 DEF Covered
  <2> QED
    BY <2>7, <2>8
<1> QED
  BY <1>1, <1>2, PTL
=============================================================================
