-------------------------- MODULE PushPullEncoder --------------------------
(***************************************************************************)
(* The byte-stream encoder of src/src/api/pushpull_encode.c.  Elements are *)
(* numbered in the order the caller offers them, and stand for elem_size   *)
(* bytes each; a record is the elements it encodes and its length in       *)
(* bytes; a byte of the output queue is a position in a record.            *)
(*                                                                         *)
(* One push is a loop: absorb what fits, emit the block when it is full.   *)
(* Each turn is two steps here, since either may fail and leave the turns  *)
(* before it done.                                                         *)
(***************************************************************************)
EXTENDS Naturals, Sequences

CONSTANTS
    Target,        \* target_block_elems
    RecordSizes    \* lengths tdc_encode_block may give a record

VARIABLES
    in,              \* e->in: pending elements
    out, out_head,   \* e->out: queued record bytes, and those already pulled
    blocks_emitted, bytes_consumed, finished,
    rest,            \* what the push in progress has yet to absorb
    at,              \* where that push is: "idle", "absorb", "emit"
    offered,         \* history: elements offered by the caller
    moved, pulled    \* history: bytes moved by compaction, bytes pulled

vars == <<in, out, out_head, blocks_emitted, bytes_consumed, finished,
          rest, at, offered, moved, pulled>>

Init ==
    /\ in = <<>> /\ out = <<>> /\ out_head = 0
    /\ blocks_emitted = 0 /\ bytes_consumed = 0 /\ finished = FALSE
    /\ rest = <<>> /\ at = "idle" /\ offered = 0
    /\ moved = 0 /\ pulled = 0

Drop(s, n) == SubSeq(s, n + 1, Len(s))

\* The bytes of a record of `size` bytes that encodes `elems`.
RecordBytes(elems, size) ==
    [k \in 1..size |-> [elems |-> elems, size |-> size, pos |-> k]]

-----------------------------------------------------------------------------
(* Emitting a block.                                                       *)

\* pp_emit_block: the first n elements become a record at the end of the
\* queue.  Until the record is there, nothing has changed.
EmitBlock(n) ==
    /\ n <= Len(in)
    /\ \E size \in RecordSizes :
          out' = out \o RecordBytes(SubSeq(in, 1, n), size)
    /\ in' = Drop(in, n)
    /\ blocks_emitted' = blocks_emitted + 1

-----------------------------------------------------------------------------
(* tdc_pushpull_encoder_push.                                              *)

Push(n) ==
    /\ at = "idle"
    /\ ~ finished
    /\ n > 0
    /\ rest' = [i \in 1..n |-> offered + i]
    /\ offered' = offered + n
    /\ at' = "absorb"
    /\ UNCHANGED <<in, out, out_head, blocks_emitted, bytes_consumed,
                   finished, moved, pulled>>

\* Mutant: everything offered is taken at once.
TakeWhole == Len(rest)

\* What fits below the target.
Take == LET room == Target - Len(in)
        IN  IF Len(rest) < room THEN Len(rest) ELSE room

Absorb ==
    /\ at = "absorb"
    /\ in' = in \o SubSeq(rest, 1, Take)
    /\ bytes_consumed' = bytes_consumed + Take
    /\ rest' = Drop(rest, Take)
    /\ at' = IF Len(in) + Take >= Target THEN "emit"
             ELSE IF Take < Len(rest) THEN "absorb" ELSE "idle"
    /\ UNCHANGED <<out, out_head, blocks_emitted, finished, offered,
                   moved, pulled>>

EmitFull ==
    /\ at = "emit"
    /\ EmitBlock(Target)
    /\ at' = IF rest = <<>> THEN "idle" ELSE "absorb"
    /\ UNCHANGED <<out_head, bytes_consumed, finished, rest, offered,
                   moved, pulled>>

\* The input or the queue cannot grow, or the block does not encode: push
\* reports the error, and keeps what it absorbed.
PushFails ==
    /\ \/ at = "absorb" /\ Take > 0
       \/ at = "emit"
    /\ at' = "idle" /\ rest' = <<>>
    /\ UNCHANGED <<in, out, out_head, blocks_emitted, bytes_consumed,
                   finished, offered, moved, pulled>>

-----------------------------------------------------------------------------
(* The other calls.                                                        *)

Queued == Len(out) - out_head

\* What a pull of capacity cap copies out, and what it reports.
PullTake(cap)   == IF Queued < cap THEN Queued ELSE cap
PullBytes(cap)  == SubSeq(out, out_head + 1, out_head + PullTake(cap))

\* Mutant: a queue is drained once the head passes the middle of it.
MoreAvailableHalf(cap) == 2 * (out_head + PullTake(cap)) < Len(out)

MoreAvailable(cap) == PullTake(cap) < Queued

\* Mutant: the queue is moved down at every pull.
CompactAlways(head) ==
    /\ out' = Drop(out, head)
    /\ out_head' = 0
    /\ moved' = moved + (Len(out) - head)

\* pp_out_compact, where pull calls it: once half the queue is behind the
\* head.
Compact(head) ==
    IF head > 0 /\ 2 * head >= Len(out)
    THEN /\ out' = Drop(out, head)
         /\ out_head' = 0
         /\ moved' = moved + (Len(out) - head)
    ELSE out' = out /\ out_head' = head /\ moved' = moved

\* tdc_pushpull_encoder_pull, with cap > 0
Pull(cap) ==
    /\ at = "idle"
    /\ cap > 0
    /\ Compact(out_head + PullTake(cap))
    /\ pulled' = pulled + PullTake(cap)
    /\ UNCHANGED <<in, blocks_emitted, bytes_consumed, finished, rest, at,
                   offered>>

\* tdc_pushpull_encoder_flush: a short block, or nothing.
Flush ==
    /\ at = "idle"
    /\ in # <<>>
    /\ EmitBlock(Len(in))
    /\ UNCHANGED <<out_head, bytes_consumed, finished, rest, at, offered,
                   moved, pulled>>

\* tdc_pushpull_encoder_finish: when its flush fails, the stream stays open.
Finish ==
    /\ at = "idle"
    /\ finished' = TRUE
    /\ IF in = <<>> THEN UNCHANGED <<in, out, blocks_emitted>>
                    ELSE EmitBlock(Len(in))
    /\ UNCHANGED <<out_head, bytes_consumed, rest, at, offered, moved, pulled>>

\* Mutant: the reset keeps the pull position.
ResetKeepsHead ==
    /\ at = "idle"
    /\ in' = <<>> /\ out' = <<>>
    /\ blocks_emitted' = 0 /\ bytes_consumed' = 0 /\ finished' = FALSE
    /\ offered' = 0 /\ moved' = 0 /\ pulled' = 0
    /\ UNCHANGED <<out_head, rest, at>>

\* tdc_pushpull_encoder_reset
Reset ==
    /\ at = "idle"
    /\ in' = <<>> /\ out' = <<>> /\ out_head' = 0
    /\ blocks_emitted' = 0 /\ bytes_consumed' = 0 /\ finished' = FALSE
    /\ offered' = 0 /\ moved' = 0 /\ pulled' = 0
    /\ UNCHANGED <<rest, at>>

\* Mutant: the checkpoint counts the elements that are still pending.
CheckpointPending == [blocks |-> blocks_emitted, bytes |-> bytes_consumed]

\* tdc_pushpull_encoder_checkpoint
Checkpoint == [blocks |-> blocks_emitted, bytes |-> bytes_consumed - Len(in)]

\* "Compact every time the head gets large enough that remaining is smaller
\* than the head -- cheap amortized linear work" (pull): compaction never
\* moves more bytes than pulls have handed out.
PullMovesLittle == moved <= pulled
=============================================================================
