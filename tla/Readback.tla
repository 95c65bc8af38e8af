------------------------------ MODULE Readback ------------------------------
(***************************************************************************)
(* One file, the encoders that write it one pass after another and the     *)
(* decoder that reads it: opened over whatever a pass left (closed,        *)
(* aborted, failed or crashed), and kept open, if the caller likes, while  *)
(* later passes grow the container.                                        *)
(***************************************************************************)
EXTENDS StreamEncoder, SequencesExt

CONSTANTS
    BlockHeader, IoFails,
    MaxReaders,     \* bound: decoders opened
    MaxBlocks       \* bound: blocks in the file

\* Every record begins with its header.
ASSUME RecordAssumption ==
    /\ BlockHeader \in Nat
    /\ \A p \in Payload : RecordSize[p] >= BlockHeader

VARIABLES
    r_open, r_header, r_rg, r_can_seek, r_io, r_blocks_read, r_peeked,
    r_outcome,
    \* history: the blocks the last creation wrote, in order; those the
    \* reader is owed, in file order; which of them is due next; whether a
    \* pass began since the reader opened; decoders opened
    laid, owed, due, overtaken, readers

D == INSTANCE StreamDecoder WITH
        open <- r_open, header <- r_header, rg <- r_rg,
        can_seek <- r_can_seek, io <- r_io, blocks_read <- r_blocks_read,
        peeked <- r_peeked, outcome <- r_outcome

reading  == <<r_open, r_header, r_rg, r_can_seek, r_io, r_blocks_read,
              r_peeked, r_outcome>>
ledger   == <<laid, owed, due, overtaken, readers>>
allVars  == <<vars, reading, ledger>>

AllIds(gs) == FlattenSeq([g \in DOMAIN gs |-> gs[g].cols])

InitAll ==
    /\ Init /\ D!Init
    /\ laid = <<>> /\ owed = <<>> /\ due = 0 /\ overtaken = FALSE
    /\ readers = 0

\* A step of the encoder, whose statistics a reader's walk does not touch.
\* A file is not created anew under a reader.
EncoderStep ==
    /\ Next
    /\ n_blocks' <= MaxBlocks /\ cur_stats' = <<>> /\ ~ req'.with_stats
    /\ mode' = "create" => (r_open => mode = "create")
    /\ laid' = IF mode' = "create" THEN AllIds(want'.groups) \o want'.open
                                   ELSE laid
    /\ overtaken' = (overtaken \/ (r_open /\ mode' # "closed"))
    /\ UNCHANGED <<reading, owed, due, readers>>

\* The decoder is opened between two passes.  It is owed the blocks the
\* index lists; of a file that has no index in its header, all blocks.
OpenReader(s) ==
    /\ mode = "closed"
    /\ readers < MaxReaders
    /\ D!Open(s)
    /\ owed' = IF Committed(hdr) THEN AllIds(Contents(hdr, body).groups)
                                 ELSE laid
    /\ due' = 1 /\ overtaken' = FALSE /\ readers' = readers + 1
    /\ UNCHANGED <<vars, laid>>

ReaderStep(n) ==
    /\ due' = n
    /\ UNCHANGED <<vars, laid, owed, overtaken, readers>>

\* Bound: a walk goes on to the block after the last, and no further.
Peeks == due <= Len(owed) + 1 /\ D!PeekBlock /\ ReaderStep(due)

Seeks ==
    \E g \in DOMAIN r_rg : \E c \in DOMAIN r_rg[g].cols :
        /\ D!SeekRowgroup(g, c)
        /\ ReaderStep(Len(AllIds(SubSeq(r_rg, 1, g - 1))) + c)

Reads  == D!ReadBlock /\ ReaderStep(due + 1)
Skips  == D!SkipBlock /\ ReaderStep(due + 1)
Fails  == (D!ReadNoMemory \/ D!ReadFails) /\ ReaderStep(due)
Closes == D!CloseDecoder /\ ReaderStep(0)

NextAll ==
    \/ EncoderStep
    \/ \E s \in BOOLEAN : OpenReader(s)
    \/ Peeks \/ Seeks \/ Reads \/ Skips \/ Fails \/ Closes

SpecAll == InitAll /\ [][NextAll]_allVars

-----------------------------------------------------------------------------
(* Properties.                                                             *)

\* The type of the reader's variables.
ReaderTypeOK ==
    /\ r_open \in BOOLEAN /\ r_header \in Header /\ r_rg \in Seq(Group)
    /\ r_can_seek \in BOOLEAN /\ r_io \in Nat /\ r_blocks_read \in Nat
    /\ r_peeked = D!NoRecord \/ r_peeked.kind \in {"block", "wreck"}
    /\ r_outcome \in {"none", "opened", "record", "read", "skipped", "end",
                      "undecoded", "nomem", "corrupt", "error"}
    /\ laid \in Seq(Payload) /\ owed \in Seq(Payload) /\ due \in Nat

\* The header counts the blocks the index lists (no encoder was closed on an
\* open row group), and no pass has touched the file since.
Settled ==
    /\ Committed(r_header) /\ r_header.n_blocks = Len(owed)
    /\ ~ overtaken

\* Every record handed out is the one that is due: the walk from the start
\* and the walk from a column found through the index visit the blocks of
\* the file in order, each once, and no other bytes are taken for a block.
\* It holds for a reader that was opened before later passes began or were
\* interrupted, up to the last block there was when it opened.
HandsOutWhatIsDue ==
    r_peeked # D!NoRecord /\ (due \in DOMAIN owed \/ Settled) =>
        /\ r_peeked.kind = "block"
        /\ due \in DOMAIN owed
        /\ r_peeked.id = owed[due]

\* "so a forward walk would ... report a clean end-of-blocks partway
\* through" (stream_decode.c, peek_block): no walk ends early, whatever the
\* container went through before.
EndsAfterTheLast == r_outcome = "end" => due > Len(owed)

\* A committed container never reads as corrupt, whatever became of the
\* passes over it.
CommittedIsIntact == r_outcome = "corrupt" => ~ Settled
=============================================================================
