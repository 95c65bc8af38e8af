------------------------------ MODULE PushPull ------------------------------
(***************************************************************************)
(* A push/pull encoder, the bytes its caller carries, and a push/pull      *)
(* decoder: the driver of tests/test_pushpull_roundtrip.c with the order   *)
(* of its calls left open.  The caller drains the encoder until it reports *)
(* nothing more, feeds the decoder in chunks of any length, and ends both. *)
(***************************************************************************)
EXTENDS Naturals, Sequences

CONSTANTS
    Target, RecordSizes, HeaderBytes,
    MaxElems,      \* bound: elements offered in one stream
    PushSizes,     \* bound: elements of one push
    Caps,          \* bound: capacities given to pull
    Chunks,        \* bound: bytes of one decoder push
    MaxStreams,    \* bound: streams the pair is used for
    Faults,        \* a subset of {"memory", "scratch", "damage"}
    EndsEarly      \* the caller may end the decoder's input at any byte

ASSUME PushPullAssumption ==
    /\ Target \in Nat \ {0}
    /\ HeaderBytes \in Nat \ {0}
    /\ RecordSizes \subseteq {n \in Nat : n >= HeaderBytes}
    /\ MaxElems \in Nat /\ MaxStreams \in Nat
    /\ PushSizes \subseteq Nat /\ Caps \subseteq Nat \ {0} /\ Chunks \subseteq Nat
    /\ Faults \subseteq {"memory", "scratch", "damage"}
    /\ EndsEarly \in BOOLEAN

VARIABLES
    e_in, e_out, e_head, e_blocks, e_consumed, e_finished, e_rest, e_at,
    e_offered, e_moved, e_pulled,
    d_in, d_phase, d_total, d_finished, d_blocks, d_produced, d_reported,
    d_delivered,
    wire,       \* bytes pulled and not yet pushed
    more,       \* the caller has cause to pull
    streams,    \* streams begun
    \* history of the stream: the elements absorbed, the encoder's
    \* checkpoint and the length of the encoded stream after each block, and
    \* the bytes fed to the decoder
    absorbed, marks, ends, fed

E == INSTANCE PushPullEncoder WITH
        in <- e_in, out <- e_out, out_head <- e_head,
        blocks_emitted <- e_blocks, bytes_consumed <- e_consumed,
        finished <- e_finished, rest <- e_rest, at <- e_at,
        offered <- e_offered, moved <- e_moved, pulled <- e_pulled

D == INSTANCE PushPullDecoder WITH
        Damage <- "damage" \in Faults,
        in <- d_in, phase <- d_phase, cur_total <- d_total,
        finished <- d_finished, blocks_pulled <- d_blocks,
        bytes_produced <- d_produced, reported <- d_reported,
        delivered <- d_delivered

encoder == <<e_in, e_out, e_head, e_blocks, e_consumed, e_finished, e_rest,
             e_at, e_offered, e_moved, e_pulled>>
decoder == <<d_in, d_phase, d_total, d_finished, d_blocks, d_produced,
             d_reported, d_delivered>>
history == <<absorbed, marks, ends, fed>>
vars    == <<encoder, decoder, wire, more, streams, history>>

Init ==
    /\ E!Init /\ D!Init
    /\ wire = <<>> /\ more = FALSE /\ streams = 1
    /\ absorbed = <<>> /\ marks = <<>> /\ ends = <<>> /\ fed = 0

-----------------------------------------------------------------------------
(* The encoder's side.                                                     *)

\* A step of the encoder: what the history records of it.
EncoderStep ==
    /\ marks' = IF e_blocks' = e_blocks THEN marks
                ELSE Append(marks, E!Checkpoint')
    /\ ends' = IF e_blocks' = e_blocks THEN ends
               ELSE Append(ends, e_pulled + Len(e_out') - e_head)
    /\ more' = TRUE
    /\ UNCHANGED <<decoder, wire, streams, fed>>

CallPush(n) ==
    /\ e_offered + n <= MaxElems
    /\ E!Push(n) /\ EncoderStep
    /\ UNCHANGED absorbed

Absorb ==
    /\ E!Absorb /\ EncoderStep
    /\ absorbed' = absorbed \o SubSeq(e_rest, 1, E!Take)

EmitFull == E!EmitFull /\ EncoderStep /\ UNCHANGED absorbed

PushFails ==
    /\ "memory" \in Faults
    /\ E!PushFails /\ EncoderStep
    /\ UNCHANGED absorbed

CallFlush == E!Flush /\ EncoderStep /\ UNCHANGED absorbed

CallFinish == ~ e_finished /\ E!Finish /\ EncoderStep /\ UNCHANGED absorbed

\* The caller pulls for as long as it is told there is more.
CallPull(cap) ==
    /\ more
    /\ E!Pull(cap)
    /\ wire' = wire \o E!PullBytes(cap)
    /\ more' = E!MoreAvailable(cap)
    /\ UNCHANGED <<decoder, streams, history>>

-----------------------------------------------------------------------------
(* The decoder's side.                                                     *)

DecoderStep == UNCHANGED <<encoder, more, streams, absorbed, marks, ends>>

Feed(n) ==
    /\ n <= Len(wire)
    /\ D!Push(SubSeq(wire, 1, n)) /\ DecoderStep
    /\ wire' = SubSeq(wire, n + 1, Len(wire))
    /\ fed' = fed + n

CallNext == D!Next /\ DecoderStep /\ UNCHANGED <<wire, fed>>

NextNoMemory ==
    /\ \/ "memory" \in Faults /\ D!NextNoMemory /\ DecoderStep
       \/ "scratch" \in Faults /\ D!NextDecodeNoMemory /\ DecoderStep
    /\ UNCHANGED <<wire, fed>>

AllCarried == e_finished /\ e_at = "idle" /\ ~ more /\ wire = <<>>

CallDecoderFinish ==
    /\ ~ d_finished
    /\ AllCarried \/ EndsEarly
    /\ D!Finish /\ DecoderStep
    /\ UNCHANGED <<wire, fed>>

\* Both ends are reset for the next stream, and the bytes on the way dropped.
ResetBoth ==
    /\ streams < MaxStreams
    /\ E!Reset /\ D!Reset
    /\ wire' = <<>> /\ more' = FALSE /\ streams' = streams + 1
    /\ absorbed' = <<>> /\ marks' = <<>> /\ ends' = <<>> /\ fed' = 0

Next ==
    \/ \E n \in PushSizes : CallPush(n)
    \/ Absorb \/ EmitFull \/ PushFails \/ CallFlush \/ CallFinish
    \/ \E cap \in Caps : CallPull(cap)
    \/ \E n \in Chunks : Feed(n)
    \/ CallNext \/ NextNoMemory \/ CallDecoderFinish
    \/ ResetBoth

Spec == Init /\ [][Next]_vars

\* The driver's loops: a push runs to its end, the queue is pulled while
\* there is more, what was pulled is fed, next is called again after every
\* block and every chunk, and the input is ended once all is carried.
Fairness ==
    /\ WF_vars(Absorb \/ EmitFull)
    /\ WF_vars(\E cap \in Caps : CallPull(cap))
    /\ WF_vars(\E n \in Chunks : Feed(n))
    /\ WF_vars(CallNext)
    /\ WF_vars(CallDecoderFinish)

FairSpec == Spec /\ Fairness

-----------------------------------------------------------------------------
(* Properties.                                                             *)

Byte == [elems : Seq(Nat), size : Nat, pos : Nat]

\* The type of every variable, and the length pushpull_encode.c promises of
\* the input buffer: it never outgrows one block.
TypeOK ==
    /\ e_in \in Seq(Nat) /\ Len(e_in) <= Target
    /\ e_out \in Seq(Byte) /\ e_head \in Nat
    /\ e_blocks \in Nat /\ e_consumed \in Nat /\ e_finished \in BOOLEAN
    /\ e_rest \in Seq(Nat) /\ e_at \in {"idle", "absorb", "emit"}
    /\ e_offered \in Nat /\ e_moved \in Nat /\ e_pulled \in Nat
    /\ d_in \in Seq(Byte)
    /\ d_phase \in {"header", "parsed", "ready", "corrupt"}
    /\ d_total \in Nat /\ d_finished \in BOOLEAN
    /\ d_blocks \in Nat /\ d_produced \in Nat
    /\ d_reported \in {"none", "block", "starved", "done", "corrupt", "nomem"}
    /\ d_delivered \in Seq(Nat)
    /\ wire \in Seq(Byte) /\ more \in BOOLEAN /\ streams \in Nat
    /\ absorbed \in Seq(Nat)
    /\ marks \in Seq([blocks : Nat, bytes : Nat])
    /\ ends \in Seq(Nat) /\ fed \in Nat

\* What the pair promises: the elements absorbed come out in order, in the
\* blocks they were cut into, and done is reported only after the last.
Pipe == INSTANCE ElementPipe WITH
            accepted <- absorbed,
            cuts <- [b \in DOMAIN marks |-> marks[b].bytes],
            taken <- d_blocks,
            delivered <- d_delivered,
            over <- (d_reported = "done")

DeliversInOrder == Pipe!Spec

\* "A checkpoint returned by tdc_pushpull_encoder_checkpoint after the Nth
\* block has been emitted matches the value returned by
\* tdc_pushpull_decoder_checkpoint after the Nth block has been pulled"
\* (pushpull.h), whatever was pushed, pulled or failed in between: when the
\* block was emitted, and still while the next one fills up.
CheckpointsMatch ==
    /\ d_blocks > 0 => /\ d_blocks <= Len(marks)
                       /\ D!Checkpoint = marks[d_blocks]
    /\ d_blocks = e_blocks => D!Checkpoint = E!Checkpoint

\* What was handed out is what was absorbed first, up to a block boundary,
\* also when bytes are damaged on the way or the input ends early.
DeliversPrefix ==
    d_delivered = SubSeq(absorbed, 1,
                         IF d_blocks = 0 THEN 0 ELSE marks[d_blocks].bytes)

\* The decoder of an intact stream never latches a failure: not on the way,
\* not at the end, not after a call that ran out of memory.
IntactIsNeverCorrupt == d_phase # "corrupt"

PullMovesLittle == E!PullMovesLittle

\* A stream cut short is never passed off as a whole one: next reports done
\* only if the bytes fed end exactly where the block last handed out ended.
DoneMeansDrained ==
    d_reported = "done" =>
        fed = IF d_blocks = 0 THEN 0 ELSE ends[d_blocks]

\* Once the encoder is finished, a driver that keeps its loops going sees
\* done (unless it starts another stream).
FinishReachesDone ==
    e_finished ~> (d_reported = "done" \/ ~ e_finished)
=============================================================================
