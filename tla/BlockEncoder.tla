---------------------------- MODULE BlockEncoder ----------------------------
(***************************************************************************)
(* tdc_encode_block (src/api/encode.c): one call, from the block and the   *)
(* specification the caller gives to the record in its buffer.  Every      *)
(* buffer grows through the caller's allocator, which may refuse.          *)
(***************************************************************************)
EXTENDS Registry

CONSTANT NoRecord     \* the caller's buffer before a call fills it

VARIABLES
    src,    \* the block to encode
    spec,   \* the caller's tdc_codec_spec: a model and two chains
    enc,    \* the locals of the call
    out     \* the record in the caller's buffer, or NoRecord

encoder_vars == <<src, spec, enc, out>>

EncFrame == [pc |-> "idle", status |-> "ok", i |-> 1, cur |-> 0,
             dtype |-> None, bufs |-> [b \in {0, 1} |-> NoBytes],
             side |-> NoBytes, side_section |-> NoSection, tlv |-> {},
             payload |-> NoSection, zero |-> FALSE,
             owned |-> {}]     \* scratch that may hold memory

EncScratch == {"b0", "b1", "side_meta", "xform_params", "payload"}
Buf(k) == IF k = 0 THEN "b0" ELSE "b1"

EncoderInit == enc = EncFrame /\ out = NoRecord

\* An early return before any buffer exists.
EncReturn(st) ==
    /\ enc' = [enc EXCEPT !.pc = "done", !.status = st]
    /\ UNCHANGED <<src, spec, out>>
\* Mutant: a failed side section is not freed where it fails.
EncCleanupLosingLocals(st, held, local) ==
    /\ enc' = [enc EXCEPT !.pc = "done", !.status = st,
                          !.owned = (@ \cup held \cup local) \ EncScratch]
    /\ UNCHANGED <<src, spec, out>>
\* "goto cleanup" with scratch that only this statement's scope knows.
EncCleanup(st, held, local) ==
    /\ enc' = [enc EXCEPT !.pc = "done", !.status = st,
                          !.owned = (@ \cup held \cup local) \ (EncScratch \cup local)]
    /\ UNCHANGED <<src, spec, out>>
EncContinue(frame) == enc' = frame /\ UNCHANGED <<src, spec, out>>

----------------------------------------------------------------------------

Coders == Active(spec.entropy)

Encode ==
    /\ enc.pc = "idle"
    /\ LET st == FirstOf(<<
               <<src.dtype = "string" /\ src.layout # "vector", "layout">>,
               <<~ Known("model", spec.model), "unsupported">>,
               <<\E k \in 1..Len(Coders) : ~ Known("entropy", Coders[k]), "unsupported">>,
               <<~ Sticky(spec.entropy), "inval">>>>)
       IN  IF st = "ok" THEN EncContinue([enc EXCEPT !.pc = "model"])
                        ELSE EncReturn(st)

\* Stage 1.  A block that is not empty and leaves no residual skips both
\* chains.
ModelEncode ==
    /\ enc.pc = "model"
    /\ LET st       == ModelStatus(spec.model, src)
           residual == ResidualBytes(spec.model, src)
           zero     == src.n > 0 /\ residual.size = 0
       IN  \/ st # "ok" /\ EncCleanup(st, {}, {})
           \/ /\ st = "ok" /\ NoMemory
              /\ \E held \in SUBSET {"b0", "side_meta"} : EncCleanup("nomem", held, {})
           \/ /\ st = "ok"
              /\ EncContinue([enc EXCEPT
                    !.pc = IF zero THEN "side" ELSE "xform",
                    !.bufs[0] = residual,
                    !.dtype = EncoderDtype(spec.model, src),
                    !.side = SideBytes(spec.model, src),
                    !.zero = zero,
                    !.owned = {"b0", "side_meta"}])

\* Stage 2: one transform, from one scratch buffer into the other.  Only
\* QUANTIZE has parameters the record keeps.
TransformStep ==
    /\ enc.pc = "xform"
    /\ enc.i <= Len(spec.xform) /\ spec.xform[enc.i].id # None
    /\ LET x    == spec.xform[enc.i]
           from == enc.bufs[enc.cur]
           to   == 1 - enc.cur
           st   == IF Known("xform", x.id) THEN XformStatus(x, enc.dtype, from.size)
                   ELSE "unsupported"
       IN  \/ st # "ok" /\ EncCleanup(st, {}, {})
           \/ /\ st = "ok" /\ NoMemory
              /\ \E held \in {{}, {Buf(to)}} : EncCleanup("nomem", held, {})
           \/ /\ st = "ok"
              /\ EncContinue([enc EXCEPT
                    !.i = @ + 1,
                    !.cur = to,
                    !.bufs[to] = Put(from, x.id, XformSize(x, enc.dtype, from.size)),
                    !.dtype = XformDtype(x, @),
                    !.tlv = IF x.id = "quantize" THEN @ \cup {enc.i} ELSE @,
                    !.owned = @ \cup {Buf(to)}
                              \cup (IF x.id = "quantize" THEN {"xform_params"} ELSE {})])

TransformsDone ==
    /\ enc.pc = "xform"
    /\ enc.i <= Len(spec.xform) => spec.xform[enc.i].id = None
    /\ EncContinue([enc EXCEPT !.pc = "entropy"])

\* Stage 3.  The chain's own two buffers are freed where it returns.
EntropyEncode ==
    /\ enc.pc = "entropy"
    /\ \/ /\ NoMemory
          /\ EncCleanup("nomem", {"payload"}, {})
       \/ EncContinue([enc EXCEPT
             !.pc = "side",
             !.payload = Section(Coders, enc.bufs[enc.cur]),
             !.owned = @ \cup {"payload"}])

\* Stage 3b: the side metadata is packed where the model's is, then goes
\* through the same coders.
PackSide ==
    /\ enc.pc = "side"
    /\ enc.side.size > 0 /\ SidePacks(spec.model)
    /\ \/ /\ NoMemory
          /\ EncCleanup("nomem", {}, {"packed"})
       \/ EncContinue([enc EXCEPT
             !.pc = "side_entropy",
             !.side = Put(@, "pack", PackedSize(@.size))])

SideNeedsNoPacking ==
    /\ enc.pc = "side"
    /\ enc.side.size = 0 \/ ~ SidePacks(spec.model)
    /\ EncContinue([enc EXCEPT !.pc = IF enc.side.size > 0
                                      THEN "side_entropy" ELSE "assemble"])

EncodeSide ==
    /\ enc.pc = "side_entropy"
    /\ \/ /\ NoMemory
          /\ EncCleanup("nomem", {}, {"side_enc"})
       \/ EncContinue([enc EXCEPT
             !.pc = "assemble",
             !.side_section = Section(Coders, enc.side)])

\* Mutant: only the first transform is looked at.
LossyFirst(chain) == chain[1].id = "quantize"
Lossy(chain)      == "quantize" \in ToSet(Active(XformIds(chain)))

\* Stage 4.  The caller's chains are kept in the header whether or not they
\* ran, and the lossy flag says whether one of them loses bits.
Record ==
    [model_id |-> spec.model,
     xform_ids |-> XformIds(spec.xform),
     entropy_ids |-> spec.entropy,
     dtype |-> src.dtype, layout |-> src.layout, n |-> src.n,
     has_validity |-> src.validity,
     zero_residual |-> enc.zero,
     lossy |-> Lossy(spec.xform),
     uncompressed_size |-> IF enc.zero
                           THEN (IF spec.model = "sparse_zero_1d" THEN Nonzero(src)
                                 ELSE src.n) * SizeOf[enc.dtype]
                           ELSE enc.bufs[enc.cur].size,
     side_raw |-> enc.side.size,
     side_meta |-> enc.side_section,
     xform_params |-> enc.tlv,
     payload |-> enc.payload,
     validity_size |-> IF src.validity THEN ValidityBytes(src.n) ELSE 0]

Assemble ==
    /\ enc.pc = "assemble"
    /\ \/ /\ NoMemory
          /\ EncCleanup("nomem", {}, {})
       \/ /\ out' = Record
          /\ enc' = [enc EXCEPT !.pc = "done", !.owned = @ \ EncScratch]
          /\ UNCHANGED <<src, spec>>

EncoderNext ==
    \/ Encode
    \/ ModelEncode
    \/ TransformStep
    \/ TransformsDone
    \/ EntropyEncode
    \/ PackSide
    \/ SideNeedsNoPacking
    \/ EncodeSide
    \/ Assemble
=============================================================================
