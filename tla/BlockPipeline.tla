--------------------------- MODULE BlockPipeline ---------------------------
(***************************************************************************)
(* One block through tdc_encode_block and back through a decode entry      *)
(* point, with whatever specification, block and registered backends the   *)
(* caller chose, an allocator that may fail, and a record that may reach   *)
(* the decoder harmed, or have been written by an older library.           *)
(***************************************************************************)
EXTENDS BlockEncoder, BlockDecoder

CONSTANTS
    Cases,            \* bound: the blocks and specifications callers give
    Faults,           \* a subset of Harms: what may happen to the record
    NoWire            \* nothing to decode yet

ASSUME PipelineAssumption ==
    /\ \A c \in Cases :
          /\ c.src \in [dtype : Dtypes, layout : Layouts, n : Nat,
                       exact : BOOLEAN, validity : BOOLEAN]
          /\ c.spec.model \in CoreModels \cup PluginModels
          /\ c.spec.xform \in Seq([id : CoreXforms \cup PluginXforms \cup {None},
                                   params : BOOLEAN])
          /\ c.spec.entropy \in Seq(CoreCoders \cup PluginCoders \cup {None})
    /\ Faults \subseteq Harms

VARIABLE asked     \* history: the entry point called and the block given to it

vars == <<slots, src, spec, enc, out, wire, dec, asked>>

NotAsked == [entry |-> None, dst |-> None]
Expected == [dtype |-> src.dtype, layout |-> src.layout, n |-> src.n, data |-> TRUE]
\* A caller that expects another block, or has no memory for it.
Mistaken == {[Expected EXCEPT !.dtype = IF @ = "u16" THEN "i16" ELSE "u16"],
             [Expected EXCEPT !.layout = CHOOSE l \in Layouts : l # @],
             [Expected EXCEPT !.n = @ + 1],
             [Expected EXCEPT !.data = FALSE]}

Init ==
    /\ \E c \in Cases : src = c.src /\ spec = c.spec
    /\ RegistryInit
    /\ EncoderInit
    /\ wire = NoWire
    /\ dec = DecFrame
    /\ asked = NotAsked

\* The program registers the backends its specification names, some of them,
\* or another plugin model, before it encodes, and may drop them all before it
\* decodes.
Named(stage) ==
    CASE stage = "model"   -> IF spec.model \in PluginModels THEN PluginModels ELSE {}
      [] stage = "xform"   -> ToSet(XformIds(spec.xform))
      [] stage = "entropy" -> ToSet(spec.entropy)

RegisterBackend ==
    /\ enc.pc = "idle"
    /\ \E stage \in Stages : \E id \in Named(stage) : Register(stage, id)
    /\ UNCHANGED <<src, spec, enc, out, wire, dec, asked>>

ClearBackends ==
    /\ wire # NoWire /\ dec.pc = "idle"
    /\ \E stage \in Stages : slots[stage] # <<>>
    /\ Clear
    /\ UNCHANGED <<src, spec, enc, out, wire, dec, asked>>

\* A library of the older format stored the side metadata as its model made it.
AsOlder(record) ==
    [record EXCEPT !.side_raw = SideBytes(spec.model, src).size,
                   !.side_meta = Section(<<>>, SideBytes(spec.model, src))]

Deliver ==
    /\ enc.pc = "done" /\ out # NoRecord /\ wire = NoWire
    /\ \/ \E harm \in Faults \cup {None} :
             wire' = [record |-> out, legacy |-> FALSE, harm |-> harm]
       \/ wire' = [record |-> AsOlder(out), legacy |-> TRUE, harm |-> None]
    /\ UNCHANGED <<slots, src, spec, enc, out, dec, asked>>

ReadBack ==
    /\ wire # NoWire
    /\ \E entry \in Entries :
          \E dst \in {Expected} \cup (IF wire.harm = None THEN Mistaken ELSE {}) :
             /\ Decode(entry, dst)
             /\ asked' = [entry |-> entry, dst |-> dst]
    /\ UNCHANGED <<slots, src, spec, enc, out>>

Encoding == EncoderNext /\ UNCHANGED <<slots, wire, dec, asked>>
Decoding == DecoderNext /\ UNCHANGED <<slots, src, spec, enc, out, asked>>

Finished ==
    /\ dec.pc = "done" \/ (enc.pc = "done" /\ out = NoRecord)
    /\ UNCHANGED vars

Next ==
    \/ RegisterBackend
    \/ Encoding
    \/ Deliver
    \/ ClearBackends
    \/ ReadBack
    \/ Decoding
    \/ Finished

Spec == Init /\ [][Next]_vars

----------------------------------------------------------------------------
(* Properties.                                                             *)

\* Every local of the two calls and every registry slot stays in its type; no
\* stage holds an id twice or more ids than it has slots.
TypeOK ==
    /\ RegistryTypeOK
    /\ enc.pc \in {"idle", "model", "xform", "entropy", "side", "side_entropy",
                   "assemble", "done"}
    /\ enc.status \in Statuses /\ enc.cur \in {0, 1}
    /\ enc.dtype \in Dtypes \cup {None}
    /\ enc.owned \subseteq EncScratch \cup {"packed", "side_enc"}
    /\ dec.pc \in {"idle", "side", "params", "walk", "entropy", "xform", "hook",
                   "model", "returned", "done"}
    /\ dec.status \in Statuses /\ dec.cur \in {0, 1}
    /\ dec.owned \subseteq DecScratch
    /\ dec.value \in Values

\* Whatever stage a call fails in, it has returned every scratch buffer to
\* the allocator when it returns, and a decode that fails has also taken back
\* what a hook had allocated for the caller.
NothingLeaks ==
    /\ enc.pc = "done" => enc.owned = {}
    /\ dec.pc = "done" => dec.owned = {}
    /\ dec.pc = "done" /\ dec.status # "ok" => dec.caller = {}

\* The call was made with the block the record holds and met no fault.
Fair ==
    /\ dec.pc = "done" /\ wire.harm = None
    /\ asked.dst = Expected /\ dec.status # "nomem"

Used == Active(XformIds(spec.xform))

\* What each core transform is given by the one before it.
EncodedTypes ==
    LET t[k \in 1..Len(Used) + 1] ==
            IF k = 1 THEN EncoderDtype(spec.model, src)
            ELSE XformDtype(spec.xform[k - 1], t[k - 1])
    IN  t

\* A residual that was left out is still walked through the chain, and the
\* record holds no parameters for it.
WalksWithoutResidual ==
    \A k \in 1..Len(Used) : \/ Used[k] \in {"byte_shuffle", "bit_shuffle"}
                            \/ Used[k] = "zigzag" /\ EncodedTypes[k] = "i16"

\* The blocks that come back, among all that tdc_encode_block accepts.
Regular ==
    /\ src.validity => src.n > 0
    /\ Sticky(XformIds(spec.xform))
    /\ ToSet(Used) \subseteq CoreXforms
    /\ spec.model = "narrowing" => src.n = 0 /\ "zigzag" \notin ToSet(Used)
    /\ out.zero_residual => WalksWithoutResidual
    /\ "bit_shuffle" \in ToSet(Used) /\ ~ out.zero_residual =>
           (IF spec.model = "sparse_zero_1d" THEN Nonzero(src) ELSE src.n) % 8 = 0
    /\ Known("model", spec.model)
    /\ \A k \in 1..Len(Coders) : Known("entropy", Coders[k])

\* An encoded block that reaches the decoder unharmed is decoded exactly when
\* the block and its specification are Regular: among the calls the encoder
\* accepts, these and no others can be read back.
ReadableExactly ==
    Fair => (dec.status = "ok" <=>
                /\ Regular
                /\ asked.entry = "varlen" => src.dtype = "string"
                /\ asked.entry = "dict" => spec.model = "dict_1d")

\* What is decoded is what was encoded: to the bit, unless the record says
\* that a transform lost some or its model is the quantizing one.  This holds
\* of records of the older format too.  A plugin model that reads the
\* residual it left out is the exception.
DecodesWhatItEncoded ==
    Fair /\ dec.status = "ok" =>
        \/ dec.value = "exact"
        \/ dec.value = "approx" /\ (out.lossy \/ spec.model = "quantize_pred_2d")
        \/ out.zero_residual /\ spec.model = "custom"

\* include/tdc/codec.h:379-380 of a decode: "On return (success or error), all
\* scratch memory allocated by the function has been freed."
ScratchFreed == dec.pc = "done" => dec.owned = {}

\* src/format/block_record.c:65-66 of an id a plugin registered: it is accepted
\* "so blocks encoded with any registered backend decode cleanly"; and
\* docs/extending/custom-backends.md:24: "any tdc build with a backend
\* registered for that id reads the block back correctly".
AllRegistered ==
    /\ Known("model", rec.model_id)
    /\ \A k \in 1..Len(DecXforms) : Known("xform", DecXforms[k])
    /\ \A k \in 1..Len(DecCoders) : Known("entropy", DecCoders[k])
RegisteredReadsBack ==
    Fair /\ asked.entry = "fixed" /\ AllRegistered => dec.status = "ok"
=============================================================================
