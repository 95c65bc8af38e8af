--------------------------- MODULE StreamEncoder ---------------------------
(***************************************************************************)
(* The streaming encoder of src/src/api/stream_encode.c, one step per I/O  *)
(* call: creating a container, widening it (new columns for the row groups *)
(* present), extending it (new row groups), closing, aborting, and a crash *)
(* between or inside any two writes.                                       *)
(*                                                                         *)
(* A torn write drops what its prefix overlaps and adds nothing.           *)
(***************************************************************************)
EXTENDS ContainerFile

CONSTANTS          \* bounds of an instance
    Columns,       \* column counts a schema may declare (0: no schema)
    MaxCols,       \* columns of a row group
    MaxGroups,     \* row groups in a container
    MaxPasses      \* encoders opened

CONSTANTS          \* the environment of an instance
    Faults,        \* a subset of {"crash", "io", "hook", "mem"}
    CarryOn,       \* the faults after which the caller goes on calling
    LateBlocks     \* the caller writes blocks after set_rowgroup_stats

ASSUME BoundsAssumption ==
    /\ Columns \subseteq Nat
    /\ MaxCols \in Nat
    /\ MaxGroups \in Nat
    /\ MaxPasses \in Nat

ASSUME EnvironmentAssumption ==
    /\ Faults \subseteq {"crash", "io", "hook", "mem"}
    \* where a failed write leaves the io position is not modelled further
    /\ CarryOn \subseteq {"hook", "mem"}
    /\ LateBlocks \in BOOLEAN

VARIABLES
    \* the file
    hdr, body,
    \* e->mode, e->seekable and what open decided for the whole pass
    mode, seekable, schema_cols, orig_hdr, orig_groups, reuse_start,
    \* the io position, e->write_pos, e->live_index_off, index moves so far
    io, write_pos, live_index_off, moves,
    \* the open row group: e->cur_cols, e->cur_group_offset, e->cur_stats
    cur_cols, cur_group_offset, cur_stats,
    \* e->groups, e->any_stats, e->n_blocks
    groups, any_stats, n_blocks,
    \* the call in progress and its next I/O step; has a call failed; how
    \* the last encoder ended
    pc, req, failed, ended,
    \* history: what the caller has been told is staged; encoders opened
    want, passes

disk     == <<hdr, body>>
session  == <<mode, seekable, schema_cols, orig_hdr, orig_groups, reuse_start>>
cursor   == <<io, write_pos, live_index_off, moves>>
openrg   == <<cur_cols, cur_group_offset, cur_stats>>
staged   == <<groups, any_stats, n_blocks>>
control  == <<pc, req, failed, ended>>
history  == <<want, passes>>

vars == <<disk, session, cursor, openrg, staged, control, history>>

-----------------------------------------------------------------------------
(* Opening an encoder.                                                     *)

NoRequest == [call |-> "none", payload |-> 0, rg |-> 0, with_stats |-> FALSE]

\* The encoder is freed; `how` is what its last call told the caller.
Free(how) ==
    /\ mode' = "closed" /\ seekable' = FALSE /\ schema_cols' = 0
    /\ orig_hdr' = NoHeader /\ orig_groups' = <<>> /\ reuse_start' = 0
    /\ io' = 0 /\ write_pos' = 0 /\ live_index_off' = 0 /\ moves' = 0
    /\ cur_cols' = <<>> /\ cur_group_offset' = 0 /\ cur_stats' = <<>>
    /\ groups' = <<>> /\ any_stats' = FALSE /\ n_blocks' = 0
    /\ pc' = "idle" /\ req' = NoRequest /\ failed' = FALSE /\ ended' = how
    /\ want' = [groups |-> <<>>, open |-> <<>>]
    /\ UNCHANGED passes

Init ==
    /\ hdr = NoHeader /\ body = {}
    /\ mode = "closed" /\ seekable = FALSE /\ schema_cols = 0
    /\ orig_hdr = NoHeader /\ orig_groups = <<>> /\ reuse_start = 0
    /\ io = 0 /\ write_pos = 0 /\ live_index_off = 0 /\ moves = 0
    /\ cur_cols = <<>> /\ cur_group_offset = 0 /\ cur_stats = <<>>
    /\ groups = <<>> /\ any_stats = FALSE /\ n_blocks = 0
    /\ pc = "idle" /\ req = NoRequest /\ failed = FALSE /\ ended = "none"
    /\ want = [groups |-> <<>>, open |-> <<>>]
    /\ passes = 0

CanOpen == mode = "closed" /\ passes < MaxPasses

\* v2_write_header: the header of a container whose schema sits at
\* schemaOffset, or in its original slot when that is 0.
EncoderHeader(nBlocks, idxOff, idxSize, schemaOffset) ==
    [magic |-> TRUE, widened |-> schemaOffset # 0, has_stats |-> any_stats,
     n_blocks |-> nBlocks, schema_size |-> SizeOfSchema(schema_cols),
     schema_off |-> schemaOffset,
     blocks_start |-> IF schemaOffset = 0 THEN 0 ELSE BlocksStart(orig_hdr),
     idx_off |-> idxOff, idx_size |-> idxSize]

\* tdc_stream_encoder_open on a new file, or over one no pass completed:
\* the header is written with its deferred fields zero.
OpenCreate(n, canSeek) ==
    /\ CanOpen
    /\ ~ Committed(hdr)
    /\ mode' = "create" /\ seekable' = canSeek /\ schema_cols' = n
    /\ hdr' = [NoHeader EXCEPT !.magic = TRUE,
                               !.schema_size = SizeOfSchema(n)]
    /\ body' = {}
    /\ io' = HeaderSize /\ write_pos' = HeaderSize
    /\ pc' = IF n = 0 THEN "idle" ELSE "open_schema"
    /\ ended' = "open"
    /\ passes' = passes + 1
    /\ UNCHANGED <<orig_hdr, orig_groups, reuse_start, live_index_off, moves,
                   openrg, staged, req, failed, want>>

\* The schema section, right after the header.
WriteOpenSchema ==
    /\ pc = "open_schema"
    /\ body' = Put(body, SchemaExtent(io, schema_cols))
    /\ io' = io + SizeOfSchema(schema_cols)
    /\ write_pos' = write_pos + SizeOfSchema(schema_cols)
    /\ pc' = "idle"
    /\ UNCHANGED <<hdr, session, live_index_off, moves, openrg, staged,
                   req, failed, ended, history>>

\* Mutant: writing starts past the old index, not over it.
SectionEndsAndIndex(h, gs) ==
    {SchemaOffset(h) + h.schema_size, BlocksStart(h), h.idx_off + h.idx_size}
    \cup UNION {{gs[g].cols[c].off + gs[g].cols[c].total :
                    c \in DOMAIN gs[g].cols} : g \in DOMAIN gs}

\* The first byte past each section the container refers to, its index
\* apart.
SectionEnds(h, gs) ==
    {SchemaOffset(h) + h.schema_size, BlocksStart(h)}
    \cup UNION {{gs[g].cols[c].off + gs[g].cols[c].total :
                    c \in DOMAIN gs[g].cols} : g \in DOMAIN gs}

\* v2_reopen_existing: adopt the header and the index, and start writing
\* where the last live section ends.  It writes nothing.
Reopen(x) ==
    /\ hdr.magic
    /\ Committed(hdr)
    /\ IndexParses(x.groups, hdr.has_stats)
    /\ orig_hdr' = hdr
    /\ orig_groups' = x.groups
    /\ groups' = x.groups
    /\ any_stats' = hdr.has_stats
    /\ n_blocks' = hdr.n_blocks
    /\ \E live_end \in SectionEnds(hdr, x.groups) :
          /\ \A e \in SectionEnds(hdr, x.groups) : e <= live_end
          /\ reuse_start' = live_end
          /\ write_pos' = live_end
          /\ io' = live_end
    /\ live_index_off' = hdr.idx_off
    /\ want' = [groups |-> Contents(hdr, body).groups, open |-> <<>>]
    /\ seekable' = TRUE
    /\ ended' = "open"
    /\ passes' = passes + 1
    /\ UNCHANGED <<disk, moves, openrg, pc, req, failed>>

\* tdc_stream_encoder_open_widen with a replacement schema of n columns
OpenWiden(n) ==
    /\ CanOpen
    /\ n > 0
    /\ \E x \in IndexesAt(hdr, body) : Reopen(x)
    /\ mode' = "widen"
    /\ schema_cols' = n

\* tdc_stream_encoder_open_extend: the schema is kept and its column count
\* read back.
OpenExtend ==
    /\ CanOpen
    /\ hdr.schema_size # 0
    /\ \E x \in IndexesAt(hdr, body) : Reopen(x)
    /\ mode' = "extend"
    /\ \E s \in SchemasAt(hdr, body) : schema_cols' = s.id

-----------------------------------------------------------------------------
(* Making room: the index the header names moves ahead of the write        *)
(* cursor.                                                                 *)

\* Mutant: a close makes room for the index alone.
NeedOfIndexOnly(r) ==
    CASE r.call \in {"write", "widen"} -> RecordSize[r.payload]
      [] r.call = "close" -> SizeOfIndex(groups)
      [] OTHER -> 0

\* Bytes the call r is about to write at write_pos.
NeedOf(r) ==
    CASE r.call \in {"write", "widen"} -> RecordSize[r.payload]
      [] r.call = "close" ->
            SizeOfIndex(groups)
            + IF mode = "widen" THEN SizeOfSchema(schema_cols) ELSE 0
      [] OTHER -> 0

Need == NeedOf(req)

\* The write stays short of the index the header names.
Fits(n) == mode = "create" \/ write_pos + n <= live_index_off

\* Mutants: the copy goes right past the write, wherever the index is; it
\* goes no further than it must.
CopyOffsetAtCursor(n) == write_pos + n
CopyOffsetNoSlack(n) ==
    LET past == live_index_off + orig_hdr.idx_size
    IN  IF past < write_pos + n THEN write_pos + n ELSE past

\* Where v2_make_room puts the copy.
CopyOffset(n) ==
    LET room   == IF live_index_off > reuse_start
                  THEN live_index_off - reuse_start ELSE 0
        double == 2 * (room + orig_hdr.idx_size)
        reach  == write_pos + n - reuse_start
    IN  reuse_start + (IF double < reach THEN reach ELSE double)

\* v2_moved_header
MovedHeader(at) ==
    [orig_hdr EXCEPT !.magic = TRUE, !.widened = TRUE,
                     !.schema_off = SchemaOffset(orig_hdr),
                     !.blocks_start = BlocksStart(orig_hdr),
                     !.idx_off = at]

\* The step of a call once it has room, and its first step.
AfterRoom(call) ==
    IF call \in {"write", "widen"} THEN "append"
    ELSE IF mode = "widen" /\ schema_cols # 0 THEN "schema"
    ELSE IF groups # <<>> THEN "index" ELSE "patch"

FirstStep(r) == IF Fits(NeedOf(r)) THEN AfterRoom(r.call) ELSE "copy"

CopyIndex ==
    /\ pc = "copy"
    /\ body' = Put(body, [IndexExtent(CopyOffset(Need), orig_groups)
                             EXCEPT !.size = orig_hdr.idx_size])
    /\ io' = CopyOffset(Need) + orig_hdr.idx_size
    /\ pc' = "repoint"
    /\ UNCHANGED <<hdr, session, write_pos, live_index_off, moves, openrg,
                   staged, req, failed, ended, history>>

\* The header is repointed at the copy.
Repoint ==
    /\ pc = "repoint"
    /\ hdr' = MovedHeader(CopyOffset(Need))
    /\ live_index_off' = CopyOffset(Need)
    /\ moves' = moves + 1
    /\ io' = HeaderSize
    /\ pc' = "hook"
    /\ UNCHANGED <<body, session, write_pos, openrg, staged,
                   req, failed, ended, history>>

\* Mutant: the encoder does not seek back.
HookReturnsNoSeek ==
    /\ pc = "hook"
    /\ pc' = AfterRoom(req.call)
    /\ UNCHANGED <<disk, session, cursor, openrg, staged, req, failed, ended,
                   history>>

\* The relocation hook ran (or there is none), and the encoder seeks back.
HookReturns ==
    /\ pc = "hook"
    /\ io' = write_pos
    /\ pc' = AfterRoom(req.call)
    /\ UNCHANGED <<disk, session, write_pos, live_index_off, moves, openrg,
                   staged, req, failed, ended, history>>

-----------------------------------------------------------------------------
(* Writing blocks and row groups.                                          *)

CanCall == pc = "idle" /\ mode # "closed" /\ ~ failed

Begin(r) ==
    /\ req' = r
    /\ pc' = FirstStep(r)
    /\ UNCHANGED <<disk, session, cursor, openrg, staged, failed, ended,
                   history>>

\* tdc_stream_encoder_write_block and _write_record, once the record is
\* encoded or found well formed.
WriteBlock(p) ==
    /\ CanCall
    /\ mode # "widen"
    /\ Len(cur_cols) < MaxCols
    /\ cur_stats # <<>> => LateBlocks
    /\ Begin([NoRequest EXCEPT !.call = "write", !.payload = p])

\* tdc_stream_encoder_widen_block
WidenBlock(p, g, s) ==
    /\ CanCall
    /\ mode = "widen"
    /\ Len(groups[g].cols) < ColWrap - 1
    /\ Len(groups[g].cols) < MaxCols
    /\ Begin([call |-> "widen", payload |-> p, rg |-> g, with_stats |-> s])

Pending == [off |-> write_pos, total |-> RecordSize[req.payload]]

\* Mutant: the block count goes the wrong way.
AdvanceCountingDown ==
    /\ body' = Put(body, BlockExtent(io, req.payload))
    /\ io' = io + RecordSize[req.payload]
    /\ write_pos' = write_pos + RecordSize[req.payload]
    /\ n_blocks' = n_blocks - 1
    /\ pc' = "idle" /\ req' = NoRequest
    /\ UNCHANGED <<hdr, session, live_index_off, moves, cur_stats, failed,
                   ended, passes>>

Advance ==
    /\ body' = Put(body, BlockExtent(io, req.payload))
    /\ io' = io + RecordSize[req.payload]
    /\ write_pos' = write_pos + RecordSize[req.payload]
    /\ n_blocks' = n_blocks + 1
    /\ pc' = "idle" /\ req' = NoRequest
    /\ UNCHANGED <<hdr, session, live_index_off, moves, cur_stats, failed,
                   ended, passes>>

OpenGroupOffset == IF cur_cols = <<>> THEN write_pos ELSE cur_group_offset

\* v2_append_record: the record lands in the open row group.
AppendToGroup ==
    /\ pc = "append" /\ req.call = "write"
    /\ cur_group_offset' = OpenGroupOffset
    /\ cur_cols' = Append(cur_cols, Pending)
    /\ Advance
    /\ want' = [want EXCEPT !.open = Append(@, req.payload)]
    /\ UNCHANGED <<groups, any_stats>>

NoStats(n) == [c \in 1..n |-> FALSE]

\* Mutant: a new statistics row is not padded for the older columns.
WidenedStatsUnpadded(g, withStats) ==
    LET old == groups[g].stats
    IN  IF old # <<>> THEN Append(old, withStats)
        ELSE IF withStats THEN <<TRUE>> ELSE <<>>

\* The statistics row of group g once the record being written is its last
\* column.  A row that did not exist claims nothing of the older columns.
WidenedStats(g, withStats) ==
    LET old == groups[g].stats
    IN  IF old # <<>> THEN Append(old, withStats)
        ELSE IF withStats
             THEN Append(NoStats(Len(groups[g].cols)), TRUE)
             ELSE <<>>

\* The group the caller has been told is staged, one column wider.
WithColumn(asked, p, withStats) ==
    LET row == IF asked.stats = <<>> THEN NoStats(Len(asked.cols))
                                     ELSE asked.stats
    IN  [cols  |-> Append(asked.cols, p),
         stats |-> IF withStats \/ asked.stats # <<>>
                   THEN Append(row, withStats) ELSE <<>>]

\* The write that ends widen_block: the record becomes the group's last
\* column.
AppendToColumn ==
    /\ pc = "append" /\ req.call = "widen"
    /\ groups' = [groups EXCEPT ![req.rg] =
                    [off   |-> @.off,
                     cols  |-> Append(@.cols, Pending),
                     stats |-> WidenedStats(req.rg, req.with_stats)]]
    /\ any_stats' = (any_stats \/ req.with_stats)
    /\ Advance
    /\ want' = [want EXCEPT !.groups[req.rg] =
                  WithColumn(@, req.payload, req.with_stats)]
    /\ UNCHANGED <<cur_cols, cur_group_offset>>

\* tdc_stream_encoder_set_rowgroup_stats, given one entry per block written
SetRowgroupStats ==
    /\ CanCall
    /\ cur_cols # <<>>
    /\ cur_stats = <<>>
    /\ cur_stats' = [c \in DOMAIN cur_cols |-> TRUE]
    /\ any_stats' = TRUE
    /\ UNCHANGED <<disk, session, cursor, cur_cols, cur_group_offset, groups,
                   n_blocks, control, history>>

\* The n entries a serializer reads of the statistics array st: past its end
\* it reads whatever the allocation is followed by.
StatsRead(st, n) ==
    IF st = <<>> THEN {<<>>}
    ELSE {s \in [1..n -> BOOLEAN] :
             \A c \in DOMAIN st : c <= n => s[c] = st[c]}

\* tdc_stream_encoder_end_rowgroup: the column count is a uint16_t.
EndRowgroup ==
    /\ CanCall
    /\ mode # "widen"
    /\ cur_cols # <<>>
    /\ mode = "extend" => Len(cur_cols) = schema_cols
    /\ Len(groups) < MaxGroups
    /\ LET n_cols == Len(cur_cols) % ColWrap
       IN  \E s \in StatsRead(cur_stats, n_cols) :
             groups' = Append(groups, [off   |-> cur_group_offset,
                                       cols  |-> SubSeq(cur_cols, 1, n_cols),
                                       stats |-> s])
    /\ cur_cols' = <<>> /\ cur_group_offset' = 0 /\ cur_stats' = <<>>
    /\ want' = [groups |-> Append(want.groups, [cols  |-> want.open,
                                                stats |-> cur_stats]),
                open   |-> <<>>]
    /\ UNCHANGED <<disk, session, cursor, any_stats, n_blocks, control, passes>>

-----------------------------------------------------------------------------
(* Closing and aborting.                                                   *)

\* tdc_stream_encoder_close
Close ==
    /\ CanCall
    /\ Begin([NoRequest EXCEPT !.call = "close"])

\* Widening writes the replacement schema at the tail.
WriteTailSchema ==
    /\ pc = "schema"
    /\ body' = Put(body, SchemaExtent(io, schema_cols))
    /\ io' = io + SizeOfSchema(schema_cols)
    /\ write_pos' = write_pos + SizeOfSchema(schema_cols)
    /\ pc' = IF groups # <<>> THEN "index" ELSE "patch"
    /\ UNCHANGED <<hdr, session, live_index_off, moves, openrg, staged,
                   req, failed, ended, history>>

WriteIndex ==
    /\ pc = "index"
    /\ body' = Put(body, IndexExtent(io, groups))
    /\ io' = io + SizeOfIndex(groups)
    /\ pc' = "patch"
    /\ UNCHANGED <<hdr, session, write_pos, live_index_off, moves, openrg,
                   staged, req, failed, ended, history>>

\* Mutant: an extended container's schema is taken to be at the tail too.
FinalSchemaOffsetAtTail ==
    IF mode = "create" THEN 0 ELSE write_pos - SizeOfSchema(schema_cols)

\* Where the patched header says the schema is.
FinalSchemaOffset ==
    CASE mode = "widen"  -> write_pos - SizeOfSchema(schema_cols)
      [] mode = "extend" -> SchemaOffset(orig_hdr)
      [] OTHER           -> 0

FinalHeader ==
    IF ~ seekable THEN hdr
    ELSE IF groups = <<>>
         THEN EncoderHeader(n_blocks, 0, 0, FinalSchemaOffset)
         ELSE EncoderHeader(n_blocks, write_pos, SizeOfIndex(groups),
                            FinalSchemaOffset)

\* The header is patched last, and the encoder freed.
PatchHeader ==
    /\ pc = "patch"
    /\ hdr' = FinalHeader
    /\ UNCHANGED body
    /\ Free("closed")

\* Mutant: aborting leaves a moved index where it is.
AbortInPlace ==
    /\ pc = "idle" /\ mode # "closed"
    /\ UNCHANGED disk
    /\ Free("aborted")

\* tdc_stream_encoder_abort when the original index was never moved
Abort ==
    /\ pc = "idle" /\ mode # "closed"
    /\ mode = "create" \/ moves = 0
    /\ UNCHANGED disk
    /\ Free("aborted")

\* and when it was: it goes back to its own offset first.
AbortMoved ==
    /\ pc = "idle" /\ mode \in {"widen", "extend"} /\ moves > 0
    /\ pc' = "undo_index"
    /\ UNCHANGED <<disk, session, cursor, openrg, staged, req, failed, ended,
                   history>>

RestoreIndex ==
    /\ pc = "undo_index"
    /\ body' = Put(body, [IndexExtent(orig_hdr.idx_off, orig_groups)
                             EXCEPT !.size = orig_hdr.idx_size])
    /\ io' = HeaderSize
    /\ pc' = "undo_header"
    /\ UNCHANGED <<hdr, session, write_pos, live_index_off, moves, openrg,
                   staged, req, failed, ended, history>>

RestoreHeader ==
    /\ pc = "undo_header"
    /\ hdr' = orig_hdr
    /\ UNCHANGED body
    /\ Free("aborted")

-----------------------------------------------------------------------------
(* What goes wrong.                                                        *)

BodyWrites   == {"open_schema", "copy", "append", "schema", "index",
                 "undo_index"}
HeaderWrites == {"repoint", "patch", "undo_header"}

\* Where the body write that comes next starts, and how long it is.
WriteAt ==
    CASE pc = "copy"       -> CopyOffset(Need)
      [] pc = "undo_index" -> orig_hdr.idx_off
      [] OTHER             -> io

WriteSize ==
    CASE pc \in {"copy", "undo_index"}      -> orig_hdr.idx_size
      [] pc = "append"                      -> RecordSize[req.payload]
      [] pc \in {"open_schema", "schema"}   -> SizeOfSchema(schema_cols)
      [] OTHER                              -> SizeOfIndex(groups)

\* The process dies, in the middle of a body write or between two writes.
Crash ==
    /\ "crash" \in Faults
    /\ mode # "closed"
    /\ IF pc \in BodyWrites
       THEN \E n \in 0..WriteSize : body' = Spared(body, WriteAt, n)
       ELSE UNCHANGED body
    /\ UNCHANGED hdr
    /\ Free("crashed")

\* The header the header write that comes next carries.
NextHeader ==
    CASE pc = "repoint" -> MovedHeader(CopyOffset(Need))
      [] pc = "patch"   -> FinalHeader
      [] OTHER          -> orig_hdr

\* A call reports failure and leaves the encoder to the caller, who aborts it
\* unless the fault is one to carry on after.
Fail(fault) ==
    /\ pc' = "idle" /\ req' = NoRequest /\ failed' = (fault \notin CarryOn)
    /\ UNCHANGED <<session, write_pos, live_index_off, moves, cur_stats,
                   n_blocks, ended, history>>

\* The io write (or the seek before it) fails inside a call that leaves the
\* encoder open: some prefix of the bytes may be on disk.
WriteFails ==
    /\ "io" \in Faults
    /\ req.call \in {"write", "widen"}
    /\ \/ /\ pc = "copy"
          /\ \E n \in 0..WriteSize :
                body' = Spared(body, WriteAt, n) /\ io' = WriteAt + n
          /\ UNCHANGED <<hdr, cur_cols, cur_group_offset, groups, any_stats>>
       \/ /\ pc = "repoint"
          /\ hdr' \in {hdr, NextHeader}
          /\ io' = HeaderSize
          /\ UNCHANGED <<body, cur_cols, cur_group_offset, groups, any_stats>>
       \* the open row group already lists the column
       \/ /\ pc = "append" /\ req.call = "write"
          /\ \E n \in 0..WriteSize :
                body' = Spared(body, WriteAt, n) /\ io' = WriteAt + n
          /\ cur_group_offset' = OpenGroupOffset
          /\ cur_cols' = Append(cur_cols, Pending)
          /\ UNCHANGED <<hdr, groups, any_stats>>
       \* the widened group may already have a statistics row
       \/ /\ pc = "append" /\ req.call = "widen"
          /\ \E n \in 0..WriteSize :
                body' = Spared(body, WriteAt, n) /\ io' = WriteAt + n
          /\ groups' = IF req.with_stats /\ groups[req.rg].stats = <<>>
                       THEN [groups EXCEPT ![req.rg].stats =
                                NoStats(Len(groups[req.rg].cols))]
                       ELSE groups
          /\ any_stats' = (any_stats \/ req.with_stats)
          /\ UNCHANGED <<hdr, cur_cols, cur_group_offset>>
    /\ Fail("io")

\* The io write fails inside open, close or abort: the encoder is freed.
LastWriteFails ==
    /\ "io" \in Faults
    /\ req.call \notin {"write", "widen"}
    /\ \/ /\ pc \in BodyWrites
          /\ \E n \in 0..WriteSize : body' = Spared(body, WriteAt, n)
          /\ UNCHANGED hdr
       \/ /\ pc \in HeaderWrites
          /\ hdr' \in {hdr, NextHeader}
          /\ UNCHANGED body
    /\ Free("error")

\* The relocation hook fails; where it left the io position is unspecified.
HookFails ==
    /\ "hook" \in Faults
    /\ pc = "hook"
    /\ UNCHANGED disk
    /\ IF req.call = "close"
       THEN Free("error")
       ELSE /\ io' \in {HeaderSize, live_index_off + orig_hdr.idx_size}
            /\ UNCHANGED <<cur_cols, cur_group_offset, groups, any_stats>>
            /\ Fail("hook")

\* Mutant: the column is listed before the allocation that fails.
NoMemoryAfterEntry ==
    /\ "mem" \in Faults
    /\ UNCHANGED disk
    /\ \/ /\ pc = "append"
          /\ cur_group_offset' = IF req.call = "write" THEN OpenGroupOffset
                                                      ELSE cur_group_offset
          /\ cur_cols' = IF req.call = "write" THEN Append(cur_cols, Pending)
                                               ELSE cur_cols
          /\ UNCHANGED <<io, groups, any_stats>>
          /\ Fail("mem")
       \/ /\ pc = "index"
          /\ Free("error")

\* An allocation fails once there is room: nothing is staged.
NoMemory ==
    /\ "mem" \in Faults
    /\ UNCHANGED disk
    /\ \/ /\ pc = "append"
          /\ cur_group_offset' = IF req.call = "write" THEN OpenGroupOffset
                                                      ELSE cur_group_offset
          /\ UNCHANGED <<io, cur_cols, groups, any_stats>>
          /\ Fail("mem")
       \/ /\ pc = "index"
          /\ Free("error")

-----------------------------------------------------------------------------
Next ==
    \/ \E n \in Columns, s \in BOOLEAN : OpenCreate(n, s)
    \/ \E n \in Columns : OpenWiden(n)
    \/ OpenExtend
    \/ WriteOpenSchema
    \/ \E p \in Payload : WriteBlock(p)
    \/ \E p \in Payload, g \in DOMAIN groups, s \in BOOLEAN : WidenBlock(p, g, s)
    \/ CopyIndex \/ Repoint \/ HookReturns
    \/ AppendToGroup \/ AppendToColumn
    \/ SetRowgroupStats \/ EndRowgroup
    \/ Close \/ WriteTailSchema \/ WriteIndex \/ PatchHeader
    \/ Abort \/ AbortMoved \/ RestoreIndex \/ RestoreHeader
    \/ Crash \/ WriteFails \/ LastWriteFails \/ HookFails \/ NoMemory

Spec == Init /\ [][Next]_vars

-----------------------------------------------------------------------------
(* Properties.                                                             *)

Steps == {"idle", "open_schema", "copy", "repoint", "hook", "append",
          "schema", "index", "patch", "undo_index", "undo_header"}

Request == [call : {"none", "write", "widen", "close"}, payload : Payload \cup {0},
            rg : Nat, with_stats : BOOLEAN]

Staged == [groups : Seq([cols : Seq(Payload), stats : Seq(BOOLEAN)]),
           open   : Seq(Payload)]

\* The type of every variable.
TypeOK ==
    /\ hdr \in Header /\ body \in SUBSET Extent
    /\ mode \in {"closed", "create", "widen", "extend"}
    /\ seekable \in BOOLEAN /\ schema_cols \in Nat
    /\ orig_hdr \in Header /\ orig_groups \in Seq(Group)
    /\ reuse_start \in Nat
    /\ io \in Nat /\ write_pos \in Nat /\ live_index_off \in Nat
    /\ moves \in Nat
    /\ cur_cols \in Seq(Col) /\ cur_group_offset \in Nat
    /\ cur_stats \in Seq(BOOLEAN)
    /\ groups \in Seq(Group) /\ any_stats \in BOOLEAN /\ n_blocks \in Nat
    /\ pc \in Steps /\ req \in Request /\ failed \in BOOLEAN
    /\ ended \in {"none", "open", "closed", "aborted", "error", "crashed"}
    /\ want \in Staged /\ passes \in Nat

\* "At every instant the header names either the original index (at its own
\* offset or as a copy) or the complete rebuilt one" (include/tdc/stream.h,
\* crash safety): whatever a header names is on disk in one piece, after any
\* crash, failed write or failed hook.
AlwaysReadable == Committed(hdr) => Readable(hdr, body)

\* What the reader finds changes only by a commit, to exactly what the
\* caller staged, and an abort or a crash discards the whole pass.
C == INSTANCE Container WITH
        store <- Contents(hdr, body),
        pass  <- [kind |-> mode, schema |-> schema_cols,
                  groups |-> want.groups, open |-> want.open,
                  stats |-> cur_stats]

CommitsOrDiscards == C!Spec

\* Moving the index is amortized: the k-th move after the first happens only
\* once the pass reaches past 2^k times the original index, so a pass that
\* writes D bytes moves it O(log D) times and one that adds less than the
\* index's own size moves it once (include/tdc/stream.h, write order).
MovesAreRare ==
    [][moves' = moves + 1 /\ moves >= 1 =>
          write_pos + Need - reuse_start > orig_hdr.idx_size * 2^moves]_vars

\* tdc_stream_encoder_abort puts the original header back, and the original
\* index at its own offset, wherever the pass had got to and whichever call
\* failed; except when a header write reported as failed reached the disk, and
\* the header is not where the encoder believes it left it.
AbortRestores ==
    [][(/\ ended' = "aborted" /\ mode \in {"widen", "extend"}
        /\ failed => hdr.idx_off = live_index_off)
       => /\ hdr' = orig_hdr
          /\ \E x \in IndexesAt(orig_hdr, body') : x.groups = orig_groups]_vars

LiveExtents(h, b) ==
    LET index == IndexesAt(h, b)
    IN  index \cup SchemasAt(h, b)
        \cup {e \in b : \E x \in index : \E g \in DOMAIN x.groups :
                           \E c \in DOMAIN x.groups[g].cols :
                              e \in BlocksAt(x.groups[g].cols[c], b)}

Covered(o, S) == \E e \in S : e.at <= o /\ o < e.at + e.size

\* A pass just committed and every block counted belongs to a row group: no
\* encoder was ever closed on an open one.
NoOrphans ==
    /\ Committed(hdr) /\ ended = "closed"
    /\ \A x \in IndexesAt(hdr, body) :
          hdr.n_blocks = Cardinality(ColEntries(x.groups))

\* "Any number of extend passes yields the same container bytes as one pass
\* writing the same row groups" (tests/test_stream_extend.c:17): while the
\* schema is in its original slot, the schema, the blocks and the index
\* follow each other without a gap, also after passes that crashed.
ExtendLeavesNoGap ==
    NoOrphans /\ SchemaOffset(hdr) = HeaderSize =>
        \A o \in HeaderSize..(hdr.idx_off - 1) :
            Covered(o, LiveExtents(hdr, body))

\* "set_rowgroup_stats validated that cur_stats_n_cols == cur_n_cols, so we
\* can transfer ownership" (stream_encode.c, end_rowgroup): the statistics
\* the caller gave cover every column of the finished row group.
StatsCoverColumns ==
    \A g \in DOMAIN groups :
        groups[g].stats # <<>> =>
            Len(want.groups[g].stats) = Len(groups[g].cols)

\* tdc_container_header_validate on a heterogeneous header.
ValidHeader(h) ==
    /\ h.magic
    /\ h.widened =>
          /\ h.schema_off # 0 /\ h.blocks_start # 0
          /\ h.blocks_start >= HeaderSize
          /\ h.schema_off > h.blocks_start
          /\ h.schema_size # 0
    /\ ~ h.widened => h.schema_off = 0 /\ h.blocks_start = 0
    /\ IF h.n_blocks = 0
       THEN h.idx_off = 0 /\ h.idx_size = 0
       ELSE h.idx_off # 0 /\ h.idx_size # 0

\* The structural checker the public header promises accepts every header
\* the encoder leaves behind a completed pass over a container that has row
\* groups.
ClosedHeaderIsValid ==
    Committed(hdr) /\ ended = "closed" => ValidHeader(hdr)
=============================================================================
