-------------------------- MODULE PushPullDecoder --------------------------
(***************************************************************************)
(* The byte-stream decoder of src/src/api/pushpull_decode.c.  The bytes    *)
(* are those of PushPullEncoder.  Between calls in_head is always zero:    *)
(* the one step that advances it compacts the input at once, so `in` below *)
(* starts at the record in progress.                                       *)
(***************************************************************************)
EXTENDS Naturals, Sequences

CONSTANTS
    HeaderBytes,    \* TDC_BLOCK_HEADER_SIZE
    Damage          \* BOOLEAN: the transport may alter bytes

VARIABLES
    in,                          \* d->in
    phase,                       \* d->phase
    cur_total,                   \* length of the record in progress
    finished,
    blocks_pulled, bytes_produced,
    reported,                    \* what the last call to next returned
    delivered                    \* history: the elements handed out

vars == <<in, phase, cur_total, finished, blocks_pulled, bytes_produced,
          reported, delivered>>

Init ==
    /\ in = <<>> /\ phase = "header" /\ cur_total = 0 /\ finished = FALSE
    /\ blocks_pulled = 0 /\ bytes_produced = 0
    /\ reported = "none" /\ delivered = <<>>

Drop(s, n) == SubSeq(s, n + 1, Len(s))

\* The first n bytes of the input are the first n of one record.  Anything
\* else is taken to fail validation or decoding.
StartsRecord(n) ==
    n <= Len(in) /\ \A k \in 1..n : in[k] = [in[1] EXCEPT !.pos = k]

\* tdc_pushpull_decoder_push
Push(bytes) ==
    /\ phase # "corrupt" /\ ~ finished
    /\ bytes # <<>>
    /\ in' = in \o bytes
    /\ UNCHANGED <<phase, cur_total, finished, blocks_pulled, bytes_produced,
                   reported, delivered>>

\* tdc_pushpull_decoder_finish
Finish ==
    /\ phase # "corrupt"
    /\ finished' = TRUE
    /\ UNCHANGED <<in, phase, cur_total, blocks_pulled, bytes_produced,
                   reported, delivered>>

-----------------------------------------------------------------------------
(* tdc_pushpull_decoder_next: pp_try_parse, then one of its outcomes.      *)

HeaderArrived == phase = "header" /\ Len(in) >= HeaderBytes

\* The record length try_parse finds, from this header or an earlier one.
ParsedTotal == IF HeaderArrived THEN in[1].size ELSE cur_total

\* Mutant: a whole record is one whose header is here.
PhaseReadyEarly ==
    IF phase = "ready" THEN phase
    ELSE IF phase = "parsed" \/ HeaderArrived THEN "ready"
    ELSE "header"

\* The phase try_parse leaves, given a header that validates.
ParsedPhase ==
    IF phase = "ready" THEN phase
    ELSE IF phase = "parsed" \/ HeaderArrived
    THEN IF Len(in) >= ParsedTotal THEN "ready" ELSE "parsed"
    ELSE "header"

HeaderValid == HeaderArrived => StartsRecord(HeaderBytes)
HeaderBad   == HeaderArrived /\ (Damage \/ ~ StartsRecord(HeaderBytes))

Latch(result) ==
    /\ phase' = "corrupt"
    /\ reported' = result
    /\ UNCHANGED <<in, finished, blocks_pulled, bytes_produced, delivered>>

NextBadHeader ==
    /\ phase # "corrupt"
    /\ HeaderBad
    /\ Latch("corrupt")
    /\ UNCHANGED cur_total

\* pp_decode_ready
NextBlock ==
    /\ phase # "corrupt" /\ HeaderValid /\ ParsedPhase = "ready"
    /\ StartsRecord(ParsedTotal)
    /\ in' = Drop(in, ParsedTotal)
    /\ phase' = "header" /\ cur_total' = 0
    /\ blocks_pulled' = blocks_pulled + 1
    /\ bytes_produced' = bytes_produced + Len(in[1].elems)
    /\ delivered' = delivered \o in[1].elems
    /\ reported' = "block"
    /\ UNCHANGED finished

\* The output buffer cannot grow: the record stays ready for a retry.
NextNoMemory ==
    /\ phase # "corrupt" /\ HeaderValid /\ ParsedPhase = "ready"
    /\ phase' = "ready" /\ cur_total' = ParsedTotal
    /\ reported' = "nomem"
    /\ UNCHANGED <<in, finished, blocks_pulled, bytes_produced, delivered>>

\* Mutant: a record that does not decode is skipped.
NextUndecodableSkips ==
    /\ phase # "corrupt" /\ HeaderValid /\ ParsedPhase = "ready"
    /\ Damage \/ ~ StartsRecord(ParsedTotal)
    /\ in' = Drop(in, ParsedTotal)
    /\ phase' = "header" /\ cur_total' = 0
    /\ reported' = "corrupt"
    /\ UNCHANGED <<finished, blocks_pulled, bytes_produced, delivered>>

\* The record does not decode; or it would, but tdc_decode_block ran out of
\* memory for its scratch.
NextUndecodable ==
    /\ phase # "corrupt" /\ HeaderValid /\ ParsedPhase = "ready"
    /\ Damage \/ ~ StartsRecord(ParsedTotal)
    /\ cur_total' = ParsedTotal
    /\ Latch("corrupt")

NextDecodeNoMemory ==
    /\ phase # "corrupt" /\ HeaderValid /\ ParsedPhase = "ready"
    /\ StartsRecord(ParsedTotal)
    /\ cur_total' = ParsedTotal
    /\ Latch("nomem")

\* No whole record is here.
Starved == phase # "corrupt" /\ HeaderValid /\ ParsedPhase # "ready"

NextStarved ==
    /\ Starved /\ ~ finished
    /\ phase' = ParsedPhase
    /\ cur_total' = IF ParsedPhase = "parsed" THEN ParsedTotal ELSE cur_total
    /\ reported' = "starved"
    /\ UNCHANGED <<in, finished, blocks_pulled, bytes_produced, delivered>>

\* The stream ended inside a record.
NextTruncated ==
    /\ Starved /\ finished /\ in # <<>>
    /\ cur_total' = IF ParsedPhase = "parsed" THEN ParsedTotal ELSE cur_total
    /\ Latch("corrupt")

\* Mutant: the end of a header in progress is taken for the end of stream.
NextDoneInHeader ==
    /\ Starved /\ finished /\ ParsedPhase = "header"
    /\ phase' = ParsedPhase
    /\ reported' = "done"
    /\ UNCHANGED <<in, cur_total, finished, blocks_pulled, bytes_produced,
                   delivered>>

NextDone ==
    /\ Starved /\ finished /\ in = <<>>
    /\ phase' = ParsedPhase
    /\ reported' = "done"
    /\ UNCHANGED <<in, cur_total, finished, blocks_pulled, bytes_produced,
                   delivered>>

\* A decoder that latched a failure keeps reporting it.
NextLatched ==
    /\ phase = "corrupt"
    /\ reported' = "corrupt"
    /\ UNCHANGED <<in, phase, cur_total, finished, blocks_pulled,
                   bytes_produced, delivered>>

\* What a call to next does when no allocation fails.
Next ==
    \/ NextBadHeader \/ NextBlock \/ NextUndecodable
    \/ NextStarved \/ NextTruncated \/ NextDone \/ NextLatched

\* tdc_pushpull_decoder_reset
Reset ==
    /\ in' = <<>> /\ phase' = "header" /\ cur_total' = 0 /\ finished' = FALSE
    /\ blocks_pulled' = 0 /\ bytes_produced' = 0
    /\ reported' = "none" /\ delivered' = <<>>

\* tdc_pushpull_decoder_checkpoint
Checkpoint == [blocks |-> blocks_pulled, bytes |-> bytes_produced]
=============================================================================
