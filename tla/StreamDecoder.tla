--------------------------- MODULE StreamDecoder ---------------------------
(***************************************************************************)
(* The streaming decoder of src/src/api/stream_decode.c: the forward walk  *)
(* (peek, then read or skip), the jump to a column through the row-group   *)
(* index, and what a failed call leaves behind.  A caller whose call       *)
(* failed, or who was told the blocks are over, seeks or closes: where     *)
(* such a call leaves the io position is not modelled further.             *)
(***************************************************************************)
EXTENDS ContainerFile

CONSTANTS
    BlockHeader,    \* TDC_BLOCK_HEADER_SIZE
    IoFails         \* BOOLEAN: reads and seeks may fail

VARIABLES
    hdr, body,          \* the file, which a decoder never changes
    open,               \* there is a decoder
    header,             \* d->header
    rg,                 \* d->rg: the row groups it loaded
    can_seek,           \* io.seek_fn # NULL
    io,                 \* the io position
    blocks_read,
    peeked,             \* d->peeked_record, or NoRecord
    outcome             \* what the last call told the caller

reader == <<open, header, rg, can_seek, io, blocks_read, peeked, outcome>>
file   == <<hdr, body>>

NoRecord == [at |-> 0, size |-> 0, kind |-> "none", id |-> 0, groups |-> <<>>]

Init ==
    /\ open = FALSE /\ header = NoHeader /\ rg = <<>> /\ can_seek = FALSE
    /\ io = 0 /\ blocks_read = 0 /\ peeked = NoRecord /\ outcome = "none"

\* tdc_stream_decoder_open, where it succeeds; where it fails, nothing of
\* it is left.
Open(canSeek) ==
    /\ ~ open
    /\ hdr.magic
    /\ hdr.widened => canSeek
    /\ hdr.schema_size # 0 => SchemasAt(hdr, body) # {}
    /\ IF canSeek /\ hdr.idx_off > 0 /\ hdr.idx_size > 0
       THEN \E x \in IndexesAt(hdr, body) :
               IndexParses(x.groups, hdr.has_stats) /\ rg' = x.groups
       ELSE rg' = <<>>
    /\ open' = TRUE /\ header' = hdr /\ can_seek' = canSeek
    /\ io' = BlocksStart(hdr)
    /\ blocks_read' = 0 /\ peeked' = NoRecord /\ outcome' = "opened"
    /\ UNCHANGED file

-----------------------------------------------------------------------------
(* Peeking.                                                                *)

RecordsAt(o) == {e \in body : e.kind = "block" /\ e.at = o}

\* What is left of a record whose header is in place and whose rest is not.
Wreck(o, p) == [BlockExtent(o, p) EXCEPT !.kind = "wreck"]

\* The bytes at o are those of the index: no record begins there.
IndexAt(o) == \E e \in body : e.kind = "index" /\ e.at = o

AllRead(n) == header.n_blocks > 0 /\ n >= header.n_blocks

\* A peek that finds a record header at o.
Finds(e, o) ==
    /\ peeked' = e
    /\ io' = o + BlockHeader
    /\ outcome' = "record"

\* peek_block_here at position o, with n blocks read.  Bytes that are no
\* intact record are the end of the file, a magic nobody knows, a header
\* that does not validate, or a header without its record.
PeekHere(o, n) ==
    \/ /\ AllRead(n)
       /\ io' = o /\ peeked' = NoRecord /\ outcome' = "end"
    \/ /\ ~ AllRead(n)
       /\ \E e \in RecordsAt(o) : Finds(e, o)
    \/ /\ ~ AllRead(n) /\ RecordsAt(o) = {}
       /\ io' = o /\ peeked' = NoRecord /\ outcome' = "end"
    \/ /\ ~ AllRead(n) /\ RecordsAt(o) = {} /\ ~ IndexAt(o)
       /\ \/ io' = o /\ peeked' = NoRecord /\ outcome' = "corrupt"
          \/ \E p \in Payload : Finds(Wreck(o, p), o)
    \/ /\ IoFails /\ ~ AllRead(n)
       /\ io' = o /\ peeked' = NoRecord /\ outcome' = "error"

\* The caller goes on walking after these.
WalkOn == outcome \in {"opened", "read", "skipped", "undecoded"}

\* Mutant: a widened container is walked like any other.
PeekBlockWidened ==
    /\ open /\ WalkOn
    /\ PeekHere(io, blocks_read)
    /\ UNCHANGED <<file, open, header, rg, can_seek, blocks_read>>

\* tdc_stream_decoder_peek_block: a widened container is not walked.
PeekBlock ==
    /\ open /\ WalkOn
    /\ ~ header.widened
    /\ PeekHere(io, blocks_read)
    /\ UNCHANGED <<file, open, header, rg, can_seek, blocks_read>>

\* Mutant: the blocks read so far stay counted.
SeekRowgroupCounting(g, c) ==
    /\ open /\ can_seek
    /\ g \in DOMAIN rg /\ c \in DOMAIN rg[g].cols
    /\ PeekHere(rg[g].cols[c].off, blocks_read)
    /\ UNCHANGED <<file, open, header, rg, can_seek, blocks_read>>

\* tdc_stream_decoder_seek_rowgroup
SeekRowgroup(g, c) ==
    /\ open /\ can_seek
    /\ g \in DOMAIN rg /\ c \in DOMAIN rg[g].cols
    /\ blocks_read' = 0
    /\ \/ PeekHere(rg[g].cols[c].off, 0)
       \* the seek itself fails
       \/ IoFails /\ io' = io /\ peeked' = NoRecord /\ outcome' = "error"
    /\ UNCHANGED <<file, open, header, rg, can_seek>>

-----------------------------------------------------------------------------
(* Reading and skipping what was peeked.                                   *)

HasPeeked == open /\ peeked # NoRecord /\ outcome \in {"record", "nomem"}

Remaining == peeked.size - BlockHeader

\* Mutants: the record header is skipped twice; the blocks are counted down.
PastWhole ==
    /\ io' = io + peeked.size
    /\ peeked' = NoRecord
    /\ blocks_read' = blocks_read + 1
PastCountingDown ==
    /\ io' = io + Remaining
    /\ peeked' = NoRecord
    /\ blocks_read' = blocks_read - 1

\* The position and the counters once the peeked record is behind.
Past ==
    /\ io' = io + Remaining
    /\ peeked' = NoRecord
    /\ blocks_read' = blocks_read + 1

\* tdc_stream_decoder_read_block
ReadBlock ==
    /\ HasPeeked
    /\ \/ peeked.kind = "block" /\ Past /\ outcome' = "read"
       \* the record does not decode, or dst is not fit for it
       \/ Past /\ outcome' = "undecoded"
       \* the file ends inside the record
       \/ /\ peeked.kind = "wreck" /\ outcome' = "corrupt"
          /\ UNCHANGED <<io, peeked, blocks_read>>
    /\ UNCHANGED <<file, open, header, rg, can_seek>>

\* The scratch buffer cannot grow: nothing was consumed.
ReadNoMemory ==
    /\ HasPeeked
    /\ outcome' = "nomem"
    /\ UNCHANGED <<file, open, header, rg, can_seek, io, blocks_read, peeked>>

\* A read fails with part of the record consumed and the peek still set.
ReadFails ==
    /\ IoFails /\ HasPeeked /\ Remaining > 0
    /\ outcome' = "error"
    /\ UNCHANGED <<file, open, header, rg, can_seek, io, blocks_read, peeked>>

\* tdc_stream_decoder_skip_block: by a seek, which a file end does not stop,
\* or by reading.
SkipBlock ==
    /\ HasPeeked
    /\ \/ Past /\ outcome' = "skipped"
       \* the file ends, or the read or the seek fails: the record still
       \* counts as skipped
       \/ /\ Remaining > 0
          /\ (peeked.kind = "wreck" /\ ~ can_seek) \/ IoFails
          /\ io' = io /\ peeked' = NoRecord /\ blocks_read' = blocks_read + 1
          /\ outcome' = IF IoFails THEN "error" ELSE "corrupt"
    /\ UNCHANGED <<file, open, header, rg, can_seek>>

\* tdc_stream_decoder_close
CloseDecoder ==
    /\ open
    /\ open' = FALSE /\ header' = NoHeader /\ rg' = <<>> /\ can_seek' = FALSE
    /\ io' = 0 /\ blocks_read' = 0 /\ peeked' = NoRecord /\ outcome' = "none"
    /\ UNCHANGED file

Next ==
    \/ \E s \in BOOLEAN : Open(s)
    \/ PeekBlock
    \/ \E g \in DOMAIN rg : \E c \in DOMAIN rg[g].cols : SeekRowgroup(g, c)
    \/ ReadBlock \/ ReadNoMemory \/ ReadFails \/ SkipBlock \/ CloseDecoder
=============================================================================
