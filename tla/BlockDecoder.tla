---------------------------- MODULE BlockDecoder ----------------------------
(***************************************************************************)
(* driver_decode_block_impl (src/api/decode_impl.c) behind its entry       *)
(* points: into the caller's own memory ("fixed": tdc_decode_block, _ex    *)
(* and _into), into memory a hook allocates for a string block ("varlen"), *)
(* or keeping the dictionary and the indices apart ("dict").               *)
(***************************************************************************)
EXTENDS Registry

VARIABLES
    wire,   \* what the decoder is given: a record, whether an older library
            \* wrote it, and the harm that came to it
    dec     \* the locals of the call

\* header: a field the validator refuses; short: the record ends inside its
\* header; side, tlv, payload: bytes of that section were changed.
Entries == {"fixed", "varlen", "dict"}
Harms   == {"header", "short", "side", "tlv", "payload"}
Values  == {None, "exact", "approx", "wrong"}

DecFrame == [pc |-> "idle", status |-> "ok", entry |-> None, i |-> 0, cur |-> 0,
             bufs |-> [b \in {0, 1} |-> NoBytes], side |-> NoBytes,
             rdtype |-> None, len |-> 0,
             owned |-> {},     \* scratch that may hold memory
             caller |-> {},    \* memory allocated for the caller
             value |-> None]   \* what the caller was given

DecScratch == {"side_0", "side_1", "side_unpacked", "b0", "b1"}

rec       == wire.record
DecCoders == Active(rec.entropy_ids)
DecXforms == Active(rec.xform_ids)

DecContinue(frame) == dec' = frame /\ UNCHANGED wire
\* The cleanup labels, and a return that goes past them.
DecCleanup(st, held) ==
    /\ dec' = [dec EXCEPT !.pc = "returned", !.status = st,
                          !.owned = (@ \cup held) \ DecScratch]
    /\ UNCHANGED wire
DecReturn(st) ==
    /\ dec' = [dec EXCEPT !.pc = "returned", !.status = st]
    /\ UNCHANGED wire
DecSucceed(value, memory) ==
    /\ dec' = [dec EXCEPT !.pc = "returned", !.owned = @ \ DecScratch,
                          !.caller = memory, !.value = value]
    /\ UNCHANGED wire

----------------------------------------------------------------------------

\* The checks before any buffer exists.  dst is what the caller expects; the
\* dict entry point takes it from the header itself.
Decode(entry, dst) ==
    /\ dec.pc = "idle"
    /\ LET hook == entry # "fixed"
           st == FirstOf(<<
               <<entry = "varlen" /\ dst.dtype # "string", "dtype">>,
               <<wire.harm = "short", "corrupt">>,
               <<entry = "dict" /\ rec.model_id # "dict_1d", "unsupported">>,
               <<wire.harm = "header" \/ ~ HeaderValid(rec), "corrupt">>,
               <<entry # "dict" /\ dst.dtype # rec.dtype, "dtype">>,
               <<entry # "dict" /\ dst.layout # rec.layout, "layout">>,
               <<entry # "dict" /\ dst.n # rec.n, "shape">>,
               <<~ hook /\ rec.n > 0 /\ ~ dst.data, "inval">>,
               <<~ Known("model", rec.model_id), "unsupported">>,
               <<\E k \in 1..Len(DecCoders) : ~ Known("entropy", DecCoders[k]),
                 "unsupported">>>>)
       IN  IF st = "ok"
           THEN DecContinue([dec EXCEPT !.pc = "side", !.entry = entry])
           ELSE DecReturn(st)

\* Stage 0.  A record of this format holds the side metadata coded, and
\* packed for some models; an older one holds it as it is.
DecodeSide ==
    /\ dec.pc = "side"
    /\ LET harmed == wire.harm = "side" /\ rec.side_raw > 0
           coded  == IF harmed THEN Garbage(rec.side_raw)
                     ELSE Unwound(DecCoders, rec.side_meta)
           memory == {"side_0", "side_1"}
       IN  \/ /\ rec.side_raw = 0 \/ wire.legacy
              /\ DecContinue([dec EXCEPT !.pc = "params",
                    !.side = IF harmed THEN Garbage(rec.side_raw)
                             ELSE rec.side_meta.bytes])
           \/ /\ rec.side_raw > 0 /\ ~ wire.legacy
              /\ \/ /\ NoMemory
                    /\ \E held \in {memory, memory \cup {"side_unpacked"}} :
                          DecCleanup("nomem", held)
                 \/ /\ harmed
                    /\ \E held \in {memory, memory \cup {"side_unpacked"}} :
                          DecCleanup("corrupt", held)
                 \/ DecContinue([dec EXCEPT
                       !.pc = "params",
                       !.side = IF SidePacks(rec.model_id)
                                THEN Take(coded, "pack", UnpackedSize(coded.size))
                                ELSE coded,
                       !.owned = memory \cup (IF SidePacks(rec.model_id)
                                              THEN {"side_unpacked"} ELSE {})])

\* Stage 1a.  A section that cannot be parsed ends the call where it stands.
ParseParams ==
    /\ dec.pc = "params"
    /\ IF wire.harm = "tlv" /\ rec.xform_params # {}
       THEN DecReturn("corrupt")
       ELSE DecContinue([dec EXCEPT !.pc = "walk"])

\* The type before each transform of the chain and the one after the last.
WalkTypes(first) ==
    LET t[k \in 1..Len(DecXforms) + 1] ==
            IF k = 1 THEN first
            ELSE WalkDtype(DecXforms[k - 1], t[k - 1], k - 1 \in rec.xform_params)
    IN  t

\* Stage 1b: the chain's types and sizes, from the record alone.
Walk ==
    /\ dec.pc = "walk"
    /\ LET first == ResidualDtype(rec.model_id, rec.dtype, dec.side)
           t     == WalkTypes(first)
           last  == t[Len(DecXforms) + 1]
           empty == SectionSize(rec.payload) = 0 /\ rec.xform_params = {}
       IN  \E len \in ResidualLens(rec.model_id, rec.dtype, rec.n, dec.side) :
              LET st == FirstOf(<<
                     <<SizeOf[first] = 0, "unsupported">>,
                     <<len > rec.n, "corrupt">>,
                     <<\E k \in 1..Len(DecXforms) :
                          ~ Known("xform", DecXforms[k]) \/ SizeOf[t[k + 1]] = 0,
                       "unsupported">>,
                     <<rec.zero_residual /\ ~ empty, "corrupt">>,
                     <<rec.uncompressed_size #
                           len * SizeOf[IF rec.zero_residual THEN first ELSE last],
                       "corrupt">>>>)
              IN  IF st = "ok"
                  THEN DecContinue([dec EXCEPT !.pc = "entropy", !.rdtype = first,
                                               !.len = len])
                  ELSE DecCleanup(st, {})

\* Stage 2.  For a residual that was not stored the buffer is sized and left
\* as the allocator gave it.
EntropyDecode ==
    /\ dec.pc = "entropy"
    /\ LET size   == rec.uncompressed_size
           harmed == wire.harm = "payload" /\ SectionSize(rec.payload) > 0
           ready  == [dec EXCEPT !.owned = @ \cup {"b0", "b1"}]
       IN  \/ /\ NoMemory
              /\ DecCleanup("nomem", {"b0", "b1"})
           \/ /\ rec.zero_residual
              /\ DecContinue([ready EXCEPT !.pc = "hook",
                                           !.bufs[0] = Bytes("uninitialised", size)])
           \/ /\ ~ rec.zero_residual
              /\ harmed \/ HeldSize(rec.payload) # size
              /\ DecCleanup("corrupt", {"b0", "b1"})
           \/ /\ ~ rec.zero_residual /\ HeldSize(rec.payload) = size
              /\ LET cur == Len(DecCoders) % 2
                 IN  DecContinue([ready EXCEPT
                        !.pc = "xform", !.cur = cur, !.i = Len(DecXforms),
                        !.bufs[cur] = IF harmed THEN Garbage(size)
                                      ELSE Unwound(DecCoders, rec.payload)])

\* What undoing QUANTIZE gives is near the bytes that went in.
Undo(b, id, size) ==
    LET before == Take(b, id, size)
    IN  IF id = "quantize" /\ before.of = "residual"
        THEN [before EXCEPT !.of = "approximate"] ELSE before

\* Stage 3: one transform, backwards.
ReverseStep ==
    /\ dec.pc = "xform" /\ dec.i > 0
    /\ LET id   == DecXforms[dec.i]
           type == WalkTypes(dec.rdtype)[dec.i]
           from == dec.bufs[dec.cur]
           to   == 1 - dec.cur
           size == dec.len * SizeOf[type]
       IN  \/ NoMemory /\ DecCleanup("nomem", {})
           \/ IF InverseFits(id, type, dec.i \in rec.xform_params, from.size, size)
              THEN DecContinue([dec EXCEPT !.i = @ - 1, !.cur = to,
                                           !.bufs[to] = Undo(from, id, size)])
              ELSE DecCleanup("corrupt", {})

TransformsUndone ==
    /\ dec.pc = "xform" /\ dec.i = 0
    /\ DecContinue([dec EXCEPT !.pc = "hook"])

residual == dec.bufs[dec.cur]
\* Bytes that passed every coder and transform but are not the ones written:
\* the consumer's own checks may or may not notice.
Suspect == residual.of = "garbage" \/ dec.side.of = "garbage"

\* What the block or the dictionary is worth that these bytes give.
Outcomes ==
    LET unread == \/ residual.size = 0
                  \/ rec.zero_residual /\ rec.model_id = "plane_2d"
        sound  == dec.side.size = 0 \/ Intact(dec.side, "side")
        lossy  == residual.of = "approximate" \/ rec.model_id = "quantize_pred_2d"
        given  == residual.by = <<>> /\ residual.of \in {"residual", "approximate"}
    IN  IF sound /\ (unread \/ given) THEN {IF lossy THEN "approx" ELSE "exact"}
        ELSE IF sound /\ residual.of = "uninitialised" THEN {"exact", "wrong"}
        ELSE {"wrong"}

\* The hooks: what each entry point allocates for its caller before, or
\* instead of, the model.
NoHook ==
    /\ dec.pc = "hook" /\ dec.entry = "fixed"
    /\ DecContinue([dec EXCEPT !.pc = "model"])

\* Walk has refused every model but the dictionary's for a string block.
VarlenHook ==
    /\ dec.pc = "hook" /\ dec.entry = "varlen"
    /\ \/ /\ rec.n > 0 /\ Suspect
          /\ DecCleanup("corrupt", {})
       \/ /\ NoMemory
          /\ DecCleanup("nomem", {})
       \/ DecContinue([dec EXCEPT
             !.pc = "model",
             !.caller = IF rec.n = 0 THEN {"offsets"} ELSE {"offsets", "data"}])

\* What landed in the caller's structure before an allocation failed stays
\* there for the entry point to free.
DictHook ==
    /\ dec.pc = "hook" /\ dec.entry = "dict"
    /\ LET parts == IF rec.n = 0 THEN {"dict_offsets"}
                    ELSE {"dict_offsets", "dict_data", "indices"}
       IN  \/ Suspect /\ DecCleanup("corrupt", {})
           \/ /\ NoMemory
              /\ \E landed \in {{}, {"dict_offsets"}, {"dict_offsets", "dict_data"}} :
                    /\ landed # parts /\ landed \subseteq parts
                    /\ dec' = [dec EXCEPT !.pc = "returned", !.status = "nomem",
                                          !.owned = @ \ DecScratch, !.caller = landed]
                    /\ UNCHANGED wire
           \/ \E value \in Outcomes : DecSucceed(value, parts)

\* Stage 4.  The hook of a string block that is not empty has already made
\* the checks of the dictionary's model.
ModelDecode ==
    /\ dec.pc = "model"
    /\ \/ /\ Suspect /\ rec.model_id # "raw"
          /\ dec.entry = "fixed" \/ rec.n = 0
          /\ DecCleanup("corrupt", {})
       \/ /\ NoMemory /\ rec.model_id = "quantize_pred_2d" /\ rec.n > 0
          /\ DecCleanup("nomem", {})
       \/ \E value \in Outcomes : DecSucceed(value, dec.caller)

\* Back in the entry point: a call that failed frees what its hook gave the
\* caller.
EntryReturn ==
    /\ dec.pc = "returned"
    /\ dec' = [dec EXCEPT !.pc = "done",
                          !.caller = IF dec.status = "ok" THEN @ ELSE {}]
    /\ UNCHANGED wire

DecoderNext ==
    \/ DecodeSide
    \/ ParseParams
    \/ Walk
    \/ EntropyDecode
    \/ ReverseStep
    \/ TransformsUndone
    \/ NoHook
    \/ VarlenHook
    \/ DictHook
    \/ ModelDecode
    \/ EntryReturn
=============================================================================
