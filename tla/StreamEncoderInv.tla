------------------------- MODULE StreamEncoderInv --------------------------
(***************************************************************************)
(* The inductive invariant behind the crash safety of StreamEncoder, in    *)
(* named parts.  It is stated for a caller that does not use an encoder    *)
(* again after a failed write or hook (CarryOn \subseteq {"mem"}) and for  *)
(* row groups whose column count fits its uint16_t (MaxCols < ColWrap).    *)
(***************************************************************************)
EXTENDS StreamEncoder

Reopened == mode \in {"widen", "extend"}

\* Extents are nonempty and share no byte.
BodyOK(b) ==
    /\ \A e \in b : e.size > 0
    /\ \A e \in b : e.kind = "schema" => e.size = SizeOfSchema(e.id)
    /\ \A e \in b : e.kind = "block" => e.id \in Payload
    /\ \A e, f \in b : e = f \/ e.at + e.size <= f.at \/ f.at + f.size <= e.at

\* Every block the columns (the groups) list is on disk, and ends by offset
\* n.
ColsLive(cols, b, n) ==
    \A c \in DOMAIN cols :
        BlocksAt(cols[c], b) # {} /\ cols[c].off + cols[c].total <= n
BlocksLive(gs, b, n) == \A g \in DOMAIN gs : ColsLive(gs[g].cols, b, n)

\* The schema h names is on disk past the header, and it and the first block
\* slot end by n.
SchemaLive(h, b, n) ==
    /\ h.schema_size # 0 => SchemasAt(h, b) # {}
    /\ HeaderSize <= SchemaOffset(h)
    /\ SchemaOffset(h) + h.schema_size <= n
    /\ BlocksStart(h) <= n

\* An index holding gs sits where h says, and is as long as h says.
IndexLive(h, b, gs) == \E x \in IndexesAt(h, b) : x.groups = gs

\* A committed header: everything it names is on disk, before its index.
HeaderOK(h, b) ==
    Committed(h) =>
        /\ h.magic
        /\ SchemaLive(h, b, h.idx_off)
        /\ \E x \in IndexesAt(h, b) :
              /\ IndexParses(x.groups, h.has_stats)
              /\ BlocksLive(x.groups, b, h.idx_off)

\* Steps that find the cursor at the write position.
AtCursor == {"append", "schema", "index"}

\* Which step may be pending in which mode, and for which call.
ControlOK ==
    /\ mode = "closed" =>
          /\ pc = "idle" /\ ~ failed /\ moves = 0
          /\ groups = <<>> /\ cur_cols = <<>> /\ cur_stats = <<>>
    /\ mode = "create" => pc \in {"idle", "open_schema", "append", "index",
                                  "patch"}
    /\ Reopened => pc # "open_schema"
    /\ failed => pc \in {"idle", "undo_index", "undo_header"}
    /\ pc = "append" => /\ req.call \in {"write", "widen"}
                        /\ req.payload \in Payload
    /\ pc \in {"copy", "repoint", "hook"} =>
          /\ req.call \in {"write", "widen", "close"}
          /\ req.call # "close" => req.payload \in Payload
    /\ pc \in {"append", "copy", "repoint", "hook"} /\ req.call = "widen" =>
          mode = "widen" /\ req.rg \in DOMAIN groups
    /\ pc \in {"append", "copy", "repoint", "hook"} /\ req.call = "write" =>
          mode # "widen" /\ Len(cur_cols) < MaxCols
    /\ pc = "schema" => mode = "widen"
    /\ Len(cur_cols) <= MaxCols \/ failed

\* What was staged is on disk before write_pos, until an abort takes its
\* space back.
StagedOK ==
    pc \notin {"undo_index", "undo_header"} /\ ~ failed =>
        /\ BlocksLive(groups, body, write_pos)
        /\ ColsLive(cur_cols, body, write_pos)
        /\ IndexParses(groups, any_stats)
        /\ cur_stats # <<>> => any_stats
        /\ pc \in AtCursor \cup {"idle"} /\ mode # "closed" => io = write_pos
        /\ pc = "patch" /\ groups # <<>> =>
              \E x \in body : /\ x.kind = "index"
                              /\ x.at = write_pos
                              /\ x.size = SizeOfIndex(groups)
                              /\ x.groups = groups

\* A container being created has no index yet, and its schema follows its
\* header.
CreateOK ==
    mode = "create" =>
        /\ ~ Committed(hdr)
        /\ pc = "open_schema" => io = HeaderSize /\ write_pos = HeaderSize
                                 /\ schema_cols # 0
                                 /\ groups = <<>> /\ cur_cols = <<>>
        /\ pc # "open_schema" =>
              /\ HeaderSize + SizeOfSchema(schema_cols) <= write_pos
              /\ schema_cols # 0 =>
                    \E e \in body : /\ e.kind = "schema"
                                    /\ e.at = HeaderSize
                                    /\ e.size = SizeOfSchema(schema_cols)

\* The container as found stays whole below reuse_start, and the header is
\* its own, or the moved one.
FoundOK ==
    Reopened =>
        /\ Committed(orig_hdr) /\ orig_hdr.magic
        /\ orig_hdr.idx_size > 0
        /\ BlocksLive(orig_groups, body, reuse_start)
        /\ IndexParses(orig_groups, orig_hdr.has_stats)
        /\ SchemaLive(orig_hdr, body, reuse_start)
        /\ hdr = orig_hdr \/ hdr = MovedHeader(hdr.idx_off)
        /\ IndexLive(hdr, body, orig_groups)
        /\ reuse_start <= orig_hdr.idx_off
        /\ \/ moves = 0 /\ hdr.idx_off = orig_hdr.idx_off
           \/ hdr.idx_off >= orig_hdr.idx_off + orig_hdr.idx_size

\* The write cursor stays between the found container and the index the
\* header names, with room for the writes still to come.
CursorOK ==
    Reopened =>
        /\ reuse_start <= write_pos
        /\ reuse_start <= live_index_off
        /\ live_index_off <= hdr.idx_off
        /\ ~ failed => live_index_off = hdr.idx_off
        /\ pc = "append" =>
              write_pos + RecordSize[req.payload] <= live_index_off
        /\ pc = "schema" =>
              write_pos + SizeOfSchema(schema_cols) + SizeOfIndex(groups)
                  <= live_index_off
        /\ pc = "index" => write_pos + SizeOfIndex(groups) <= live_index_off
        /\ pc = "hook" => write_pos + Need <= live_index_off
        /\ pc = "repoint" =>
              \E x \in body : /\ x.kind = "index"
                              /\ x.at = CopyOffset(Need)
                              /\ x.size = orig_hdr.idx_size
                              /\ x.groups = orig_groups
        /\ pc = "undo_index" => hdr.idx_off # orig_hdr.idx_off
        /\ pc = "undo_header" => IndexLive(orig_hdr, body, orig_groups)

\* The schema the patched header will name.
SchemaOK ==
    Reopened =>
        /\ schema_cols # 0
        /\ mode = "extend" => SizeOfSchema(schema_cols) = orig_hdr.schema_size
        /\ mode = "widen" /\ pc \in {"index", "patch"} =>
              \E e \in body : /\ e.kind = "schema"
                              /\ e.at + e.size = write_pos
                              /\ e.size = SizeOfSchema(schema_cols)
                              /\ e.at >= reuse_start

IInv ==
    /\ TypeOK
    /\ BodyOK(body)
    /\ HeaderOK(hdr, body)
    /\ ControlOK
    /\ StagedOK
    /\ CreateOK
    /\ FoundOK
    /\ CursorOK
    /\ SchemaOK

-----------------------------------------------------------------------------
(* What a pass has promised its caller and what the file holds of it, for a *)
(* caller that writes no block after set_rowgroup_stats (~ LateBlocks).     *)

ColsRead(cols, b) == [c \in DOMAIN cols |-> TheId(BlocksAt(cols[c], b))]
GroupsRead(gs, b) ==
    [g \in DOMAIN gs |-> [cols  |-> ColsRead(gs[g].cols, b),
                          stats |-> gs[g].stats]]

\* What the caller was told is staged is what a reader would find of it.
WantOK ==
    pc \notin {"undo_index", "undo_header"} /\ ~ failed =>
        /\ want.groups = GroupsRead(groups, body)
        /\ want.open = ColsRead(cur_cols, body)

\* Statistics cover the columns of the open row group, and no column comes
\* after them.
StatsOK ==
    /\ cur_stats # <<>> /\ ~ failed => Len(cur_stats) = Len(cur_cols)
    /\ pc \in {"append", "copy", "repoint", "hook"} /\ req.call = "write" =>
          cur_stats = <<>>

\* An index that is committed lists a row group, the one a pass found and the
\* one it builds on it too.
NonemptyOK ==
    /\ Committed(hdr) => \A x \in IndexesAt(hdr, body) : x.groups # <<>>
    /\ Reopened => orig_groups # <<>> /\ groups # <<>>

\* The schema the patched header will name is the pass's own.
SchemaIdOK ==
    /\ mode = "create" /\ pc # "open_schema" /\ schema_cols # 0 =>
          \E e \in body : /\ e.kind = "schema"
                          /\ e.at = HeaderSize
                          /\ e.id = schema_cols
    /\ mode = "extend" =>
          \E e \in SchemasAt(orig_hdr, body) : e.id = schema_cols
    /\ mode = "widen" /\ pc \in {"index", "patch"} =>
          \E e \in body : /\ e.kind = "schema"
                          /\ e.at + e.size = write_pos
                          /\ e.id = schema_cols

\* A header that names the index at its own offset is the one found.
MovedOK ==
    Reopened =>
        /\ moves = 0 => live_index_off = orig_hdr.idx_off
        /\ hdr.idx_off = orig_hdr.idx_off => hdr = orig_hdr

\* The index moves only out of the way of a write that would reach it.
RoomOK == pc \in {"copy", "repoint"} => ~ Fits(Need)

IdleOK ==
    mode = "closed" => /\ want = [groups |-> <<>>, open |-> <<>>]
                       /\ schema_cols = 0

PassInv ==
    /\ IInv
    /\ WantOK
    /\ StatsOK
    /\ NonemptyOK
    /\ SchemaIdOK
    /\ MovedOK
    /\ RoomOK
    /\ IdleOK
=============================================================================
