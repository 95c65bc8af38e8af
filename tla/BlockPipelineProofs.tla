------------------------ MODULE BlockPipelineProofs ------------------------
(***************************************************************************)
(* For every set of blocks and specifications, every chain of transforms   *)
(* and coders and every number of registry slots:                          *)
(*   - no exit of the two drivers leaks, whatever the harm but that of the *)
(*     transform parameters (which does leak: ScratchFreed);               *)
(*   - what is decoded is what was encoded, and exactly the Regular blocks *)
(*     and specifications come back;                                       *)
(*   - every local and every slot stays in its type.                       *)
(***************************************************************************)
EXTENDS BlockPipeline, DataLemmas

\* The encoder's scratch is its own and gone when it returns.
EncOwns ==
    /\ {"pc", "owned"} \subseteq DOMAIN enc
    /\ enc.owned \subseteq EncScratch
    /\ enc.pc \in {"idle", "done"} => enc.owned = {}

\* So is the decoder's, and it works on a record that was delivered.
DecOwns ==
    /\ {"pc", "owned", "status", "caller"} \subseteq DOMAIN dec
    /\ dec.owned \subseteq DecScratch
    /\ dec.pc \in {"idle", "returned", "done"} => dec.owned = {}
    /\ dec.pc = "done" /\ dec.status # "ok" => dec.caller = {}
    /\ dec.pc # "idle" => wire # NoWire

\* What is on its way to a decoder was harmed in the ways the constant allows.
Delivered == wire # NoWire => wire.harm \in Faults \cup {None}

Ownership == EncOwns /\ DecOwns /\ Delivered

----------------------------------------------------------------------------
(* The exits of the encoder.                                               *)

\* The cleanup label of tdc_encode_block frees what the call owned, whatever
\* scratch was in use and whatever a narrower scope added.
LEMMA EncCleanupFrees ==
    ASSUME EncOwns, NEW st, NEW held \in SUBSET EncScratch, NEW local,
           EncCleanup(st, held, local)
    PROVE  EncOwns'
  BY DEF EncOwns, EncCleanup, EncScratch

\* An early return of tdc_encode_block owns nothing.
LEMMA EncReturnOwnsNothing ==
    ASSUME EncOwns, enc.pc = "idle", NEW st, EncReturn(st)
    PROVE  EncOwns'
  BY DEF EncOwns, EncReturn

\* Every step of tdc_encode_block keeps track of its scratch.
LEMMA EncoderKeepsOwns ==
    ASSUME EncOwns, EncoderNext
    PROVE  EncOwns'
<1>1. CASE Encode
  BY <1>1, EncReturnOwnsNothing DEF Encode, EncContinue, EncOwns
<1>2. CASE ModelEncode
  <2> DEFINE bytes == ResidualBytes(spec.model, src)
             zero  == src.n > 0 /\ bytes.size = 0
             next  == [enc EXCEPT
                        !.pc = IF zero THEN "side" ELSE "xform",
                        !.bufs[0] = bytes,
                        !.dtype = EncoderDtype(spec.model, src),
                        !.side = SideBytes(spec.model, src),
                        !.zero = zero,
                        !.owned = {"b0", "side_meta"}]
  <2>1. SUBSET {"b0", "side_meta"} \subseteq SUBSET EncScratch
    BY DEF EncScratch
  <2>2. CASE \E st : \E held \in SUBSET EncScratch : EncCleanup(st, held, {})
    BY <2>2, EncCleanupFrees
  <2>3. CASE EncContinue(next)
    <3>1. DOMAIN next = DOMAIN enc
      OBVIOUS
    <3>2. next.pc \in {"side", "xform"} /\ next.owned = {"b0", "side_meta"}
      BY DEF EncOwns
    <3> HIDE DEF next
    <3> QED
      BY <2>1, <2>3, <3>1, <3>2 DEF EncContinue, EncOwns
  <2>4. \/ \E st : \E held \in SUBSET EncScratch : EncCleanup(st, held, {})
        \/ EncContinue(next)
    <3> HIDE DEF next
    <3>1. {} \in SUBSET EncScratch
      OBVIOUS
    <3> QED
      BY <1>2, <2>1, <3>1 DEF ModelEncode, next
  <2> QED
    BY <2>2, <2>3, <2>4
<1>3. CASE TransformStep
  <2> DEFINE x    == spec.xform[enc.i]
             from == enc.bufs[enc.cur]
             to   == 1 - enc.cur
             more == {Buf(to)} \cup (IF x.id = "quantize" THEN {"xform_params"} ELSE {})
             next == [enc EXCEPT
                        !.i = @ + 1,
                        !.cur = to,
                        !.bufs[to] = Put(from, x.id, XformSize(x, enc.dtype, from.size)),
                        !.dtype = XformDtype(x, @),
                        !.tlv = IF x.id = "quantize" THEN @ \cup {enc.i} ELSE @,
                        !.owned = @ \cup {Buf(to)}
                                  \cup (IF x.id = "quantize" THEN {"xform_params"} ELSE {})]
  <2>1. more \subseteq EncScratch
    BY DEF Buf, EncScratch
  <2>2. CASE \E st : \E held \in SUBSET EncScratch : EncCleanup(st, held, {})
    BY <2>2, EncCleanupFrees
  <2>3. CASE EncContinue(next)
    <3>1. enc.pc = "xform"
      BY <1>3 DEF TransformStep
    <3>2. DOMAIN next = DOMAIN enc
      OBVIOUS
    <3>3. next.pc = enc.pc /\ next.owned = enc.owned \cup more
      BY DEF EncOwns
    <3> HIDE DEF next, more
    <3> QED
      BY <2>1, <2>3, <3>1, <3>2, <3>3 DEF EncContinue, EncOwns
  <2>4. \/ \E st : \E held \in SUBSET EncScratch : EncCleanup(st, held, {})
        \/ EncContinue(next)
    <3> HIDE DEF next
    <3>1. {} \in SUBSET EncScratch /\ {Buf(to)} \in SUBSET EncScratch
      BY <2>1
    <3> QED
      BY <1>3, <3>1 DEF TransformStep, next
  <2> QED
    BY <2>2, <2>3, <2>4
<1>4. CASE TransformsDone
  BY <1>4 DEF TransformsDone, EncContinue, EncOwns
<1>5. CASE EntropyEncode
  BY <1>5, EncCleanupFrees DEF EntropyEncode, EncContinue, EncOwns, EncScratch
<1>6. CASE PackSide
  BY <1>6, EncCleanupFrees DEF PackSide, EncContinue, EncOwns, EncScratch
<1>7. CASE SideNeedsNoPacking
  BY <1>7 DEF SideNeedsNoPacking, EncContinue, EncOwns
<1>8. CASE EncodeSide
  BY <1>8, EncCleanupFrees DEF EncodeSide, EncContinue, EncOwns, EncScratch
<1>9. CASE Assemble
  BY <1>9, EncCleanupFrees DEF Assemble, EncOwns, EncScratch
<1> QED
  BY <1>1, <1>2, <1>3, <1>4, <1>5, <1>6, <1>7, <1>8, <1>9 DEF EncoderNext

----------------------------------------------------------------------------
(* The exits of the decoder.                                               *)

\* The cleanup labels of driver_decode_block_impl free what the call owned.
LEMMA DecCleanupFrees ==
    ASSUME DecOwns, dec.pc # "idle", NEW st, NEW held \in SUBSET DecScratch,
           DecCleanup(st, held)
    PROVE  DecOwns'
  BY DEF DecOwns, DecCleanup, DecScratch

\* So does a call that succeeds.
LEMMA DecSucceedFrees ==
    ASSUME DecOwns, dec.pc # "idle", NEW value, NEW memory,
           DecSucceed(value, memory)
    PROVE  DecOwns'
  BY DEF DecOwns, DecSucceed, DecScratch

\* An early return of driver_decode_block_impl owns nothing.
LEMMA DecodeOwns ==
    ASSUME DecOwns, wire # NoWire, NEW entry, NEW dst, Decode(entry, dst)
    PROVE  DecOwns'
  BY DEF Decode, DecOwns, DecReturn, DecContinue

\* Every step of driver_decode_block_impl keeps track of its scratch, unless
\* the parameters of a transform cannot be parsed.
LEMMA DecoderKeepsOwns ==
    ASSUME DecOwns, Delivered, "tlv" \notin Faults, DecoderNext
    PROVE  DecOwns'
<1>1. CASE DecodeSide
  <2> DEFINE memory == {"side_0", "side_1"}
             harmed == wire.harm = "side" /\ rec.side_raw > 0
             coded  == IF harmed THEN Garbage(rec.side_raw)
                       ELSE Unwound(DecCoders, rec.side_meta)
             more   == memory \cup (IF SidePacks(rec.model_id)
                                    THEN {"side_unpacked"} ELSE {})
             stored == [dec EXCEPT !.pc = "params",
                           !.side = IF harmed THEN Garbage(rec.side_raw)
                                    ELSE rec.side_meta.bytes]
             unpacked == [dec EXCEPT !.pc = "params",
                             !.side = IF SidePacks(rec.model_id)
                                      THEN Take(coded, "pack", UnpackedSize(coded.size))
                                      ELSE coded,
                             !.owned = more]
  <2>1. /\ memory \in SUBSET DecScratch /\ memory \cup {"side_unpacked"} \in SUBSET DecScratch
        /\ more \subseteq DecScratch
    BY DEF DecScratch
  <2>2. CASE \E st : \E held \in SUBSET DecScratch : DecCleanup(st, held)
    BY <1>1, <2>2, DecCleanupFrees DEF DecodeSide
  <2>3. CASE DecContinue(stored)
    BY <1>1, <2>3 DEF DecodeSide, DecContinue, DecOwns
  <2>4. CASE DecContinue(unpacked)
    BY <1>1, <2>1, <2>4 DEF DecodeSide, DecContinue, DecOwns
  <2>5. \/ \E st : \E held \in SUBSET DecScratch : DecCleanup(st, held)
        \/ DecContinue(stored)
        \/ DecContinue(unpacked)
    BY <1>1, <2>1 DEF DecodeSide
  <2> QED
    BY <2>2, <2>3, <2>4, <2>5
<1>2. CASE ParseParams
  <2>1. wire.harm # "tlv"
    BY <1>2 DEF ParseParams, DecOwns, Delivered, None
  <2> QED
    BY <1>2, <2>1 DEF ParseParams, DecContinue, DecOwns
<1>3. CASE Walk
  BY <1>3, DecCleanupFrees DEF Walk, DecContinue, DecOwns
<1>4. CASE EntropyDecode
  <2> DEFINE size   == rec.uncompressed_size
             harmed == wire.harm = "payload" /\ SectionSize(rec.payload) > 0
             cur    == Len(DecCoders) % 2
             ready  == [dec EXCEPT !.owned = @ \cup {"b0", "b1"}]
             absent == [ready EXCEPT !.pc = "hook",
                                     !.bufs[0] = Bytes("uninitialised", size)]
             stored == [ready EXCEPT
                          !.pc = "xform", !.cur = cur, !.i = Len(DecXforms),
                          !.bufs[cur] = IF harmed THEN Garbage(size)
                                        ELSE Unwound(DecCoders, rec.payload)]
  <2>1. {} \in SUBSET DecScratch /\ {"b0", "b1"} \in SUBSET DecScratch
    BY DEF DecScratch
  <2>2. CASE \E st : \E held \in SUBSET DecScratch : DecCleanup(st, held)
    BY <1>4, <2>2, DecCleanupFrees DEF EntropyDecode
  <2>3. CASE DecContinue(absent)
    BY <1>4, <2>1, <2>3 DEF EntropyDecode, DecContinue, DecOwns
  <2>4. CASE DecContinue(stored)
    BY <1>4, <2>1, <2>4 DEF EntropyDecode, DecContinue, DecOwns
  <2>5. \/ \E st : \E held \in SUBSET DecScratch : DecCleanup(st, held)
        \/ DecContinue(absent)
        \/ DecContinue(stored)
    <3> HIDE DEF absent, stored
    <3> QED
      BY <1>4, <2>1 DEF EntropyDecode, absent, stored
  <2> QED
    BY <2>2, <2>3, <2>4, <2>5
<1>5. CASE ReverseStep
  BY <1>5, DecCleanupFrees DEF ReverseStep, DecContinue, DecOwns
<1>6. CASE TransformsUndone
  BY <1>6 DEF TransformsUndone, DecContinue, DecOwns
<1>7. CASE NoHook
  BY <1>7 DEF NoHook, DecContinue, DecOwns
<1>8. CASE VarlenHook
  BY <1>8, DecCleanupFrees DEF VarlenHook, DecContinue, DecOwns
<1>9. CASE DictHook
  BY <1>9, DecCleanupFrees, DecSucceedFrees DEF DictHook, DecOwns, DecScratch
<1>10. CASE ModelDecode
  BY <1>10, DecCleanupFrees, DecSucceedFrees DEF ModelDecode, DecOwns
<1>11. CASE EntryReturn
  BY <1>11 DEF EntryReturn, DecOwns
<1> QED
  BY <1>1, <1>2, <1>3, <1>4, <1>5, <1>6, <1>7, <1>8, <1>9, <1>10, <1>11
     DEF DecoderNext

----------------------------------------------------------------------------

\* Before any call nothing is owned.
LEMMA OwnershipInit ==
    Init => Ownership
  BY DEF Init, EncoderInit, EncFrame, DecFrame, EncScratch, DecScratch,
         Ownership, EncOwns, DecOwns, Delivered

\* Every step of the program and of the two drivers keeps track of every
\* buffer.
LEMMA OwnershipStep ==
    ASSUME Ownership, "tlv" \notin Faults, [Next]_vars
    PROVE  Ownership'
<1>1. CASE RegisterBackend
  BY <1>1 DEF RegisterBackend, Ownership, EncOwns, DecOwns, Delivered
<1>2. CASE Encoding
  BY <1>2, EncoderKeepsOwns DEF Encoding, Ownership, DecOwns, Delivered
<1>3. CASE Deliver
  BY <1>3 DEF Deliver, Ownership, EncOwns, DecOwns, Delivered
<1>4. CASE ClearBackends
  BY <1>4 DEF ClearBackends, Ownership, EncOwns, DecOwns, Delivered
<1>5. CASE ReadBack
  <2>1. wire' = wire
    BY <1>5 DEF ReadBack, Decode, DecReturn, DecContinue
  <2> QED
    BY <1>5, <2>1, DecodeOwns DEF ReadBack, Ownership, EncOwns, Delivered
<1>6. CASE Decoding
  <2>1. wire' = wire
    BY <1>6 DEF Decoding, DecoderNext, DecodeSide, ParseParams, Walk, EntropyDecode,
                ReverseStep, TransformsUndone, NoHook, VarlenHook, DictHook,
                ModelDecode, EntryReturn, DecCleanup, DecReturn, DecSucceed, DecContinue
  <2> QED
    BY <1>6, <2>1, DecoderKeepsOwns DEF Decoding, Ownership, EncOwns, Delivered
<1>7. CASE UNCHANGED vars
  BY <1>7 DEF vars, Ownership, EncOwns, DecOwns, Delivered
<1> QED
  BY <1>1, <1>2, <1>3, <1>4, <1>5, <1>6, <1>7 DEF Next, Finished

\* tdc_encode_block and the decode entry points return every scratch buffer
\* on every exit, and a failed decode leaves the caller nothing to free,
\* unless the transform parameters of a record were harmed.
THEOREM Leakless ==
    ASSUME "tlv" \notin Faults
    PROVE  Spec => []NothingLeaks
<1>1. Ownership /\ [Next]_vars => Ownership'
  BY OwnershipStep
<1>2. Ownership => NothingLeaks
  BY DEF Ownership, EncOwns, DecOwns, NothingLeaks
<1> QED
  BY OwnershipInit, <1>1, <1>2, PTL DEF Spec

----------------------------------------------------------------------------
(* Sections.                                                               *)

\* What can be done to bytes, what the bytes can hold, and bytes.
Marks       == CoreXforms \cup PluginXforms \cup CoreCoders \cup PluginCoders
               \cup {None, "pack"}
Contents    == {"nothing", "residual", "side"}
ByteStrings == [of : Contents, by : Seq(Marks), size : Nat]

\* The section after the first k coders.
CodedBy(coders, b, k) ==
    [table |-> [j \in 1..k |-> b.size + j - 1],
     bytes |-> [of |-> b.of, by |-> b.by \o SubSeq(coders, 1, k), size |-> b.size + k]]

\* s is a table of what Section makes of b coder by coder.
SectionSteps(s, coders, b) ==
    s = [k \in 0..Len(coders) |->
            IF k = 0 THEN [table |-> <<>>, bytes |-> b]
            ELSE [table |-> Append(s[k - 1].table, s[k - 1].bytes.size),
                  bytes |-> Put(s[k - 1].bytes, coders[k], s[k - 1].bytes.size + 1)]]

\* No coder leaves the bytes as they are.
LEMMA CodedFirst ==
    ASSUME NEW coders \in Seq(Marks), NEW b \in ByteStrings
    PROVE  CodedBy(coders, b, 0) = [table |-> <<>>, bytes |-> b]
<1>1. b.by \o SubSeq(coders, 1, 0) = b.by
  <2>1. SubSeq(coders, 1, 0) = <<>>
    OBVIOUS
  <2> QED
    BY <2>1 DEF ByteStrings
<1>2. [j \in 1..0 |-> b.size + j - 1] = <<>>
  OBVIOUS
<1>3. b.size + 0 = b.size /\ b = [of |-> b.of, by |-> b.by, size |-> b.size]
  BY DEF ByteStrings
<1> QED
  BY <1>1, <1>2, <1>3 DEF CodedBy

\* One more coder: one more size in the table, one more stage on the bytes.
LEMMA CodedNext ==
    ASSUME NEW coders \in Seq(Marks), NEW b \in ByteStrings, NEW k \in 1..Len(coders)
    PROVE  LET s == CodedBy(coders, b, k - 1)
           IN  CodedBy(coders, b, k) =
                  [table |-> Append(s.table, s.bytes.size),
                   bytes |-> Put(s.bytes, coders[k], s.bytes.size + 1)]
<1> DEFINE s == CodedBy(coders, b, k - 1)
           a == b.by
           c == SubSeq(coders, 1, k - 1)
           x == coders[k]
<1>1. /\ a \in Seq(Marks) /\ c \in Seq(Marks) /\ x \in Marks /\ b.size \in Nat
      /\ SubSeq(coders, 1, k) = Append(c, x)
  BY DEF ByteStrings
<1>2. a \o Append(c, x) = Append(a \o c, x)
  <2> HIDE DEF a, c, x
  <2>1. <<x>> \in Seq(Marks) /\ a \o c \in Seq(Marks)
    BY <1>1
  <2>2. Append(c, x) = c \o <<x>> /\ Append(a \o c, x) = (a \o c) \o <<x>>
    BY <1>1, <2>1, AppendIsConcat, Zenon
  <2> QED
    <3>1. a \o (c \o <<x>>) = (a \o c) \o <<x>>
      BY <1>1, <2>1, ConcatAssociative
    <3> QED
      BY <2>2, <3>1
<1>3. [j \in 1..k |-> b.size + j - 1] = Append([j \in 1..(k - 1) |-> b.size + j - 1],
                                              b.size + (k - 1))
  BY <1>1
<1>4. b.size + (k - 1) + 1 = b.size + k
  BY <1>1
<1>5. s = [table |-> [j \in 1..(k - 1) |-> b.size + j - 1],
           bytes |-> [of |-> b.of, by |-> a \o c, size |-> b.size + (k - 1)]]
  BY DEF CodedBy
<1>6. Put(s.bytes, x, s.bytes.size + 1) =
         [of |-> b.of, by |-> Append(a \o c, x), size |-> b.size + (k - 1) + 1]
  <2> DEFINE t == s.bytes
  <2>1. t = [of |-> b.of, by |-> a \o c, size |-> b.size + (k - 1)]
    <3> HIDE DEF s, a, c
    <3> QED
      BY <1>5
  <2>2. Put(t, x, t.size + 1) = [t EXCEPT !.by = Append(t.by, x), !.size = t.size + 1]
    BY DEF Put
  <2> HIDE DEF t, a, c, x
  <2>3. t.by = a \o c /\ t.size = b.size + (k - 1) /\ t.of = b.of
    BY <2>1
  <2>4. Put(t, x, t.size + 1) = [of |-> b.of, by |-> Append(t.by, x), size |-> t.size + 1]
    BY <2>1, <2>2
  <2> QED
    BY <2>3, <2>4 DEF t
<1>7. s.table = [j \in 1..(k - 1) |-> b.size + j - 1] /\ s.bytes.size = b.size + (k - 1)
  BY <1>5
<1>8. CodedBy(coders, b, k) = [table |-> [j \in 1..k |-> b.size + j - 1],
           bytes |-> [of |-> b.of, by |-> a \o SubSeq(coders, 1, k), size |-> b.size + k]]
  BY DEF CodedBy
<1> HIDE DEF s, a, c, x
<1> QED
  BY <1>1, <1>2, <1>3, <1>4, <1>6, <1>7, <1>8, Zenon DEF s, x

\* Two functions that take the same steps are the same one.
LEMMA CodedSteps ==
    ASSUME NEW coders \in Seq(Marks), NEW b \in ByteStrings
    PROVE  SectionSteps([k \in 0..Len(coders) |-> CodedBy(coders, b, k)], coders, b)
<1> DEFINE w == [k \in 0..Len(coders) |-> CodedBy(coders, b, k)]
<1> SUFFICES ASSUME NEW k \in 0..Len(coders)
             PROVE  CodedBy(coders, b, k) =
                       IF k = 0 THEN [table |-> <<>>, bytes |-> b]
                       ELSE [table |-> Append(w[k - 1].table, w[k - 1].bytes.size),
                             bytes |-> Put(w[k - 1].bytes, coders[k], w[k - 1].bytes.size + 1)]
  BY Zenon DEF SectionSteps
<1>1. CASE k = 0
  BY <1>1, CodedFirst
<1>2. CASE k # 0
  <2>1. k \in 1..Len(coders) /\ k - 1 \in 0..Len(coders)
    BY <1>2
  <2>2. w[k - 1] = CodedBy(coders, b, k - 1)
    BY <2>1
  <2> HIDE DEF w
  <2> QED
    BY <1>2, <2>1, <2>2, CodedNext
<1> QED
  BY <1>1, <1>2

\* What a section holds after all its coders, in closed form.
LEMMA SectionIs ==
    ASSUME NEW coders \in Seq(Marks), NEW b \in ByteStrings
    PROVE  Section(coders, b) = CodedBy(coders, b, Len(coders))
<1> DEFINE s == CHOOSE s : SectionSteps(s, coders, b)
<1>1. Section(coders, b) = s[Len(coders)]
  BY DEF Section, SectionSteps
<1>2. SectionSteps(s, coders, b)
  BY CodedSteps
<1> DEFINE T == {k \in Nat : k <= Len(coders) => s[k] = CodedBy(coders, b, k)}
<1> HIDE DEF s
<1>3. 0 \in T
  BY <1>2, CodedFirst DEF SectionSteps
<1>4. ASSUME NEW k \in T
      PROVE  k + 1 \in T
  <2> SUFFICES ASSUME k + 1 <= Len(coders)
               PROVE  s[k + 1] = CodedBy(coders, b, k + 1)
    OBVIOUS
  <2>1. k + 1 \in 1..Len(coders) /\ k + 1 # 0 /\ (k + 1) - 1 = k
    OBVIOUS
  <2>2. s[k] = CodedBy(coders, b, k)
    OBVIOUS
  <2>3. k + 1 \in 0..Len(coders)
    BY <2>1
  <2>4. s[k + 1] = [table |-> Append(s[k].table, s[k].bytes.size),
                    bytes |-> Put(s[k].bytes, coders[k + 1], s[k].bytes.size + 1)]
    BY <1>2, <2>1, <2>3 DEF SectionSteps
  <2>5. CodedBy(coders, b, k + 1) = [table |-> Append(s[k].table, s[k].bytes.size),
                    bytes |-> Put(s[k].bytes, coders[k + 1], s[k].bytes.size + 1)]
    BY <2>1, <2>2, CodedNext, Zenon
  <2> QED
    BY <2>4, <2>5, Zenon
<1>5. Len(coders) \in T
  <2> HIDE DEF T
  <2>1. T \in SUBSET Nat
    BY DEF T
  <2> QED
    BY <1>3, <1>4, <2>1, Induct
<1> QED
  BY <1>1, <1>5

\* Undoing the stage that was applied last gives what it was applied to.
LEMMA TakePut ==
    ASSUME NEW b \in ByteStrings, NEW id \in Marks, NEW m \in Nat, NEW n \in Nat
    PROVE  Take(Put(b, id, m), id, n) = [b EXCEPT !.size = n]
<1> DEFINE a == b.by
           c == Append(a, id)
           o == b.of
           p == [of |-> o, by |-> c, size |-> m]
<1>1. a \in Seq(Marks) /\ b = [of |-> b.of, by |-> a, size |-> b.size]
  BY DEF ByteStrings
<1>2. c # <<>> /\ Len(c) = Len(a) + 1 /\ c[Len(c)] = id /\ SubSeq(c, 1, Len(c) - 1) = a
  <2> HIDE DEF a
  <2> QED
    BY <1>1
<1>3. Put(b, id, m) = p
  <2> HIDE DEF c
  <2>1. Put(b, id, m) = [b EXCEPT !.by = c, !.size = m]
    BY DEF Put, c
  <2> QED
    BY <1>1, <2>1
<1>4. p.by = c /\ Last(c) = id /\ Front(c) = a
  BY <1>2 DEF Last, Front
<1>5. Take(p, id, n) = [p EXCEPT !.by = a, !.size = n]
  <2> HIDE DEF p, c, a
  <2> QED
    BY <1>2, <1>4, Zenon DEF Take
<1>6. [p EXCEPT !.by = a, !.size = n] = [of |-> b.of, by |-> a, size |-> n]
  <2> HIDE DEF c, a, o
  <2> DEFINE q == [p EXCEPT !.by = a]
  <2>1. q = [of |-> o, by |-> a, size |-> m]
    OBVIOUS
  <2> HIDE DEF q
  <2>2. [q EXCEPT !.size = n] = [of |-> o, by |-> a, size |-> n]
    BY <2>1
  <2> QED
    BY <2>2 DEF q, o
<1>7. [b EXCEPT !.size = n] = [of |-> b.of, by |-> a, size |-> n]
  <2> HIDE DEF a
  <2> QED
    BY <1>1
<1> QED
  BY <1>3, <1>5, <1>6, <1>7, Zenon

\* The coders are undone as they were applied.
LEMMA UncodedNext ==
    ASSUME NEW coders \in Seq(Marks), NEW b \in ByteStrings, NEW k \in Nat,
           k + 1 <= Len(coders)
    PROVE  LET s == CodedBy(coders, b, Len(coders))
           IN  Take(CodedBy(coders, b, k + 1).bytes, coders[k + 1], s.table[k + 1])
                  = CodedBy(coders, b, k).bytes
<1> DEFINE s == CodedBy(coders, b, Len(coders))
           t == CodedBy(coders, b, k).bytes
           x == coders[k + 1]
<1>1. k + 1 \in 1..Len(coders) /\ (k + 1) - 1 = k /\ x \in Marks
  OBVIOUS
<1>2. CodedBy(coders, b, k + 1).bytes = Put(t, x, t.size + 1)
  BY <1>1, CodedNext
<1>3. s.table[k + 1] = b.size + k /\ b.size \in Nat /\ b.by \in Seq(Marks)
  BY <1>1 DEF CodedBy, ByteStrings
<1>4. t = [of |-> b.of, by |-> b.by \o SubSeq(coders, 1, k), size |-> b.size + k]
  BY DEF CodedBy
<1>5. b.by \o SubSeq(coders, 1, k) \in Seq(Marks)
  <2>1. SubSeq(coders, 1, k) \in Seq(Marks)
    BY <1>1
  <2> QED
    BY <1>3, <2>1, ConcatProperties
<1>6. t \in ByteStrings /\ t.size + 1 \in Nat
  BY <1>3, <1>4, <1>5 DEF ByteStrings
<1> HIDE DEF s, t, x
<1>7. [t EXCEPT !.size = b.size + k] = t
  <2> DEFINE a == b.by \o SubSeq(coders, 1, k)
             m == b.size + k
  <2>1. t = [of |-> b.of, by |-> a, size |-> m]
    BY <1>4
  <2> HIDE DEF a, m
  <2>2. [t EXCEPT !.size = m] = t
    BY <2>1
  <2> QED
    BY <2>2 DEF m
<1>8. Take(Put(t, x, t.size + 1), x, b.size + k) = [t EXCEPT !.size = b.size + k]
  <2>1. b.size + k \in Nat
    BY <1>3
  <2> DEFINE m == t.size + 1
             n == b.size + k
  <2> HIDE DEF m, n
  <2>2. m \in Nat /\ n \in Nat
    BY <1>6, <2>1 DEF m, n
  <2>3. Take(Put(t, x, m), x, n) = [t EXCEPT !.size = n]
    BY <1>1, <1>6, <2>2, TakePut
  <2> QED
    BY <2>3 DEF m, n
<1> QED
  BY <1>2, <1>3, <1>7, <1>8 DEF s, t, x

\* u is a table of what Unwound makes of s coder by coder.
UnwoundSteps(u, coders, s) ==
    u = [k \in 0..Len(coders) |->
            IF k = Len(coders) THEN s.bytes
            ELSE Take(u[k + 1], coders[k + 1], s.table[k + 1])]

\* A section gives back the bytes it was made of, for every chain of coders.
LEMMA UnwoundIs ==
    ASSUME NEW coders \in Seq(Marks), NEW b \in ByteStrings
    PROVE  Unwound(coders, Section(coders, b)) = b
<1> DEFINE n == Len(coders)
           s == CodedBy(coders, b, n)
           w == [k \in 0..n |-> CodedBy(coders, b, k).bytes]
           u == CHOOSE u : UnwoundSteps(u, coders, s)
<1>0. n \in Nat
  OBVIOUS
<1>1. UnwoundSteps(w, coders, s)
  <2> SUFFICES ASSUME NEW k \in 0..n
               PROVE  CodedBy(coders, b, k).bytes =
                         IF k = n THEN s.bytes
                         ELSE Take(w[k + 1], coders[k + 1], s.table[k + 1])
    BY Zenon DEF UnwoundSteps
  <2>1. CASE k = n
    BY <2>1
  <2>2. CASE k # n
    <3>1. k \in Nat /\ k + 1 <= n /\ k + 1 \in 0..n
      BY <2>2
    <3>2. w[k + 1] = CodedBy(coders, b, k + 1).bytes
      BY <3>1
    <3> HIDE DEF w
    <3> QED
      BY <2>2, <3>1, <3>2, UncodedNext
  <2> QED
    BY <2>1, <2>2
<1>2. UnwoundSteps(u, coders, s)
  <2> HIDE DEF s, w
  <2> QED
    BY <1>1
<1>3. Unwound(coders, s) = u[0]
  <2> HIDE DEF s, w
  <2> QED
    BY DEF Unwound, UnwoundSteps
<1> DEFINE T == {j \in Nat : j <= n => u[n - j] = CodedBy(coders, b, n - j).bytes}
<1> HIDE DEF u, w
<1>4. 0 \in T
  <2>1. n \in 0..n
    BY <1>0
  <2> HIDE DEF s
  <2>2. u[n] = s.bytes
    BY <1>2, <2>1 DEF UnwoundSteps
  <2> QED
    BY <2>2 DEF s
<1>5. ASSUME NEW j \in T
      PROVE  j + 1 \in T
  <2> SUFFICES ASSUME j + 1 <= n
               PROVE  u[n - (j + 1)] = CodedBy(coders, b, n - (j + 1)).bytes
    OBVIOUS
  <2> DEFINE k == n - (j + 1)
  <2>1. k \in Nat /\ k + 1 <= n /\ k \in 0..n /\ k # n /\ k + 1 = n - j
    OBVIOUS
  <2>2. u[k + 1] = CodedBy(coders, b, k + 1).bytes
    <3>1. j <= n /\ u[n - j] = CodedBy(coders, b, n - j).bytes
      <4> HIDE DEF s
      <4> QED
        BY <1>0
    <3> HIDE DEF s, k, T
    <3> QED
      BY <2>1, <3>1, Zenon
  <2> HIDE DEF s, k
  <2>3. u[k] = Take(u[k + 1], coders[k + 1], s.table[k + 1])
    BY <1>2, <2>1 DEF UnwoundSteps
  <2>4. Take(CodedBy(coders, b, k + 1).bytes, coders[k + 1], s.table[k + 1])
           = CodedBy(coders, b, k).bytes
    BY <2>1, UncodedNext DEF s
  <2> QED
    BY <2>2, <2>3, <2>4 DEF k
<1>6. n \in T
  <2> HIDE DEF T
  <2>1. T \in SUBSET Nat
    BY DEF T
  <2> QED
    BY <1>0, <1>4, <1>5, <2>1, Induct
<1>7. u[0] = CodedBy(coders, b, 0).bytes
  <2>1. n <= n /\ n - n = 0
    BY <1>0
  <2> HIDE DEF n
  <2> QED
    BY <1>6, <2>1
<1>8. CodedBy(coders, b, 0).bytes = b
  BY CodedFirst
<1> HIDE DEF s
<1> QED
  BY <1>3, <1>7, <1>8, SectionIs DEF s, n

\* The ids before the first NONE.
LEMMA ActiveIs ==
    ASSUME NEW S, NEW ids \in Seq(S)
    PROVE  /\ Active(ids) \in Seq(S)
           /\ Len(Active(ids)) \in 0..Len(ids)
           /\ \A k \in 1..Len(Active(ids)) : Active(ids)[k] = ids[k] /\ ids[k] # None
           /\ Len(Active(ids)) < Len(ids) => ids[Len(Active(ids)) + 1] = None
<1> DEFINE stops == {i \in 1..Len(ids) : ids[i] = None}
<1>1. CASE stops = {}
  BY <1>1 DEF Active
<1>2. CASE stops # {}
  <2> DEFINE m == CHOOSE i \in stops : \A j \in stops : i <= j
  <2>1. stops \in SUBSET Nat
    OBVIOUS
  <2>2. \E i \in stops : \A j \in stops : i <= j
    <3> HIDE DEF stops
    <3> QED
      BY <1>2, <2>1, Least
  <2>3. m \in stops /\ \A j \in stops : m <= j
    <3> HIDE DEF stops
    <3> QED
      BY <2>2
  <2>4. Active(ids) = SubSeq(ids, 1, m - 1)
    BY <1>2 DEF Active
  <2> HIDE DEF m
  <2>5. m \in 1..Len(ids) /\ ids[m] = None /\ \A k \in 1..Len(ids) : k < m => ids[k] # None
    BY <2>3
  <2> QED
    BY <2>4, <2>5
<1> QED
  BY <1>1, <1>2

----------------------------------------------------------------------------
(* What a call of tdc_encode_block writes and what tdc_decode_block makes   *)
(* of it, in closed form: functions of the block and the specification.     *)

\* The residual is empty: the record says zero_residual and has no payload.
LeftOut(spc, blk) == blk.n > 0 /\ ResidualBytes(spc.model, blk).size = 0

\* The elements the model stores: sparse_zero_1d keeps the nonzero ones.
Elements(spc, blk) == IF spc.model = "sparse_zero_1d" THEN Nonzero(blk) ELSE blk.n

\* The transforms and the coders that run: those before the first none.
UsedBy(spc) == Active(XformIds(spc.xform))
CodersOf(spc) == Active(spc.entropy)

\* The element type before the k-th transform of the encoder, and after the last.
TypesOf(spc, blk) ==
    LET t[k \in 1..Len(UsedBy(spc)) + 1] ==
            IF k = 1 THEN EncoderDtype(spc.model, blk)
            ELSE XformDtype(spc.xform[k - 1], t[k - 1])
    IN  t

\* The elements there: bit planes are padded to a whole byte each.
CountAt(spc, blk, k) ==
    IF \E j \in 1..k - 1 : UsedBy(spc)[j] = "bit_shuffle"
    THEN 8 * CeilDiv(Elements(spc, blk), 8) ELSE Elements(spc, blk)

\* The bytes in the current buffer there.
StageAt(spc, blk, k) ==
    [of |-> "residual", by |-> SubSeq(UsedBy(spc), 1, k - 1),
     size |-> CountAt(spc, blk, k) * SizeOf[TypesOf(spc, blk)[k]]]

\* The quantizers among the first n transforms: each adds a parameter, and none
\* is written when the residual is left out.
Quantized(spc, n) == {j \in 1..n : UsedBy(spc)[j] = "quantize"}
Params(spc, blk) == IF LeftOut(spc, blk) THEN {} ELSE Quantized(spc, Len(UsedBy(spc)))

\* The side metadata after TDC_SIDE_PACKED, then its section and the payload.
PackedSide(spc, blk) ==
    LET s == SideBytes(spc.model, blk)
    IN  IF s.size > 0 /\ SidePacks(spc.model) THEN Put(s, "pack", PackedSize(s.size)) ELSE s
SideSection(spc, blk) ==
    IF PackedSide(spc, blk).size > 0 THEN Section(CodersOf(spc), PackedSide(spc, blk)) ELSE NoSection
PayloadOf(spc, blk) ==
    IF LeftOut(spc, blk) THEN NoSection
    ELSE Section(CodersOf(spc), StageAt(spc, blk, Len(UsedBy(spc)) + 1))

\* The size the header declares for the payload before its coders.
Uncompressed(spc, blk) ==
    IF LeftOut(spc, blk) THEN Elements(spc, blk) * SizeOf[EncoderDtype(spc.model, blk)]
    ELSE StageAt(spc, blk, Len(UsedBy(spc)) + 1).size

\* The one record tdc_encode_block may write for blk under spc.
Written(spc, blk) ==
    [model_id |-> spc.model, xform_ids |-> XformIds(spc.xform), entropy_ids |-> spc.entropy,
     dtype |-> blk.dtype, layout |-> blk.layout, n |-> blk.n, has_validity |-> blk.validity,
     zero_residual |-> LeftOut(spc, blk), lossy |-> Lossy(spc.xform),
     uncompressed_size |-> Uncompressed(spc, blk),
     side_raw |-> PackedSide(spc, blk).size, side_meta |-> SideSection(spc, blk),
     xform_params |-> Params(spc, blk), payload |-> PayloadOf(spc, blk),
     validity_size |-> IF blk.validity THEN ValidityBytes(blk.n) ELSE 0]

\* The first n transforms take the type they are given.
TypesFit(spc, blk, n) == \A k \in 1..n : TypesOf(spc, blk)[k] \in XformDtypes(UsedBy(spc)[k])

\* What tdc_encode_block has checked when it writes a record.
Prepared(spc, blk) ==
    /\ ModelStatus(spc.model, blk) = "ok"
    /\ Sticky(spc.entropy)
    /\ ~ LeftOut(spc, blk) => TypesFit(spc, blk, Len(UsedBy(spc)))

\* The frame of the encoder.
EncFields == {"pc", "status", "i", "cur", "dtype", "bufs", "side", "side_section",
              "tlv", "payload", "zero", "owned"}
EncShape ==
    /\ EncFields \subseteq DOMAIN enc
    /\ {0, 1} \subseteq DOMAIN enc.bufs
    /\ enc.cur \in {0, 1}
    /\ enc.pc \in {"idle", "model", "xform", "entropy", "side", "side_entropy",
                   "assemble", "done"}

\* Where the encoder is: at each label, the locals are those of the closed form,
\* and the record written, if one was, is Written.
EncPath ==
    /\ EncShape
    /\ enc.pc = "idle" => enc = EncFrame
    /\ enc.pc \notin {"idle", "done", "assemble"} => enc.side_section = NoSection
    /\ enc.pc \notin {"idle", "done"} => Sticky(spec.entropy)
    /\ enc.pc = "model" => enc.i = 1 /\ enc.cur = 0 /\ enc.tlv = {}
    /\ enc.pc \in {"model", "xform", "entropy"} => enc.payload = NoSection
    /\ enc.pc \in {"xform", "entropy", "side", "side_entropy", "assemble"} =>
          /\ ModelStatus(spec.model, src) = "ok"
          /\ enc.zero = LeftOut(spec, src)
    /\ enc.pc \in {"xform", "entropy", "side"} => enc.side = SideBytes(spec.model, src)
    /\ enc.pc \in {"xform", "entropy"} => ~ LeftOut(spec, src)
    /\ enc.pc = "xform" =>
          /\ enc.i \in 1..(Len(UsedBy(spec)) + 1)
          /\ enc.dtype = TypesOf(spec, src)[enc.i]
          /\ enc.bufs[enc.cur] = StageAt(spec, src, enc.i)
          /\ enc.tlv = Quantized(spec, enc.i - 1)
          /\ TypesFit(spec, src, enc.i - 1)
    /\ enc.pc \in {"entropy", "side", "side_entropy", "assemble"} =>
          /\ ~ LeftOut(spec, src) =>
                /\ TypesFit(spec, src, Len(UsedBy(spec)))
                /\ enc.bufs[enc.cur] = StageAt(spec, src, Len(UsedBy(spec)) + 1)
          /\ LeftOut(spec, src) => enc.dtype = EncoderDtype(spec.model, src)
          /\ enc.tlv = Params(spec, src)
    /\ enc.pc \in {"side", "side_entropy", "assemble"} => enc.payload = PayloadOf(spec, src)
    /\ enc.pc \in {"side_entropy", "assemble"} => enc.side = PackedSide(spec, src)
    /\ enc.pc = "side_entropy" => PackedSide(spec, src).size > 0
    /\ enc.pc = "assemble" => enc.side_section = SideSection(spec, src)
    /\ out # NoRecord => enc.pc = "done" /\ out = Written(spec, src) /\ Prepared(spec, src)

\* A reader is given that record, or that of an older file.
WirePath ==
    wire # NoWire =>
        /\ out # NoRecord
        /\ wire.record = IF wire.legacy THEN AsOlder(Written(spec, src)) ELSE Written(spec, src)
        /\ wire.legacy \in BOOLEAN

\* The types the decoder derives, from the side metadata and the ids alone.
WalkedTypes(spc, blk) ==
    LET t[k \in 1..Len(UsedBy(spc)) + 1] ==
            IF k = 1 THEN ResidualDtype(spc.model, blk.dtype, SideBytes(spc.model, blk))
            ELSE WalkDtype(UsedBy(spc)[k - 1], t[k - 1], k - 1 \in Params(spc, blk))
    IN  t

\* The walk of the element types ends, at the size the header declares.
WalkPasses(spc, blk) ==
    LET w == WalkedTypes(spc, blk)
        n == Len(UsedBy(spc))
    IN  /\ \A k \in 1..n : SizeOf[w[k + 1]] # 0
        /\ Uncompressed(spc, blk) =
              Elements(spc, blk) * SizeOf[IF LeftOut(spc, blk) THEN w[1] ELSE w[n + 1]]

\* The inverse of the k-th transform accepts the sizes it is called with.
InverseAt(spc, blk, k) ==
    InverseFits(UsedBy(spc)[k], WalkedTypes(spc, blk)[k], k \in Params(spc, blk),
                Elements(spc, blk) * SizeOf[WalkedTypes(spc, blk)[k + 1]],
                Elements(spc, blk) * SizeOf[WalkedTypes(spc, blk)[k]])
InvertsDownTo(spc, blk, i) == \A k \in i + 1..Len(UsedBy(spc)) : InverseAt(spc, blk, k)

\* The bytes in the current buffer once every transform after the i-th is undone.
BackAt(spc, blk, i) ==
    [of |-> IF \E j \in i + 1..Len(UsedBy(spc)) : UsedBy(spc)[j] = "quantize"
            THEN "approximate" ELSE "residual",
     by |-> SubSeq(UsedBy(spc), 1, i),
     size |-> Elements(spc, blk) * SizeOf[WalkedTypes(spc, blk)[i + 1]]]

\* The residual the decoder hands to the model.
ResidualOf(spc, blk) ==
    IF LeftOut(spc, blk)
    THEN Bytes("uninitialised", Elements(spc, blk) * SizeOf[WalkedTypes(spc, blk)[1]])
    ELSE BackAt(spc, blk, 0)

\* Nothing the decoder checks of the record fails.
Decodable(spc, blk) ==
    /\ blk.validity => blk.n > 0
    /\ Sticky(XformIds(spc.xform))
    /\ WalkPasses(spc, blk)
    /\ ~ LeftOut(spc, blk) => InvertsDownTo(spc, blk, 0)

\* The slots the decoder looks up are taken, and the entry point fits the block.
AllKnown ==
    /\ Known("model", spec.model)
    /\ \A k \in 1..Len(CodersOf(spec)) : Known("entropy", CodersOf(spec)[k])
EntryFits ==
    /\ asked.entry = "varlen" => src.dtype = "string"
    /\ asked.entry = "dict" => spec.model = "dict_1d"

\* How close the value may be to the one that was encoded.
ValueFits ==
    \/ dec.value = "exact"
    \/ dec.value = "approx" /\ (Lossy(spec.xform) \/ spec.model = "quantize_pred_2d")
    \/ LeftOut(spec, src) /\ spec.model = "custom"

\* The frame of the decoder.
DecFields == {"pc", "status", "entry", "i", "cur", "bufs", "side", "rdtype", "len",
              "owned", "caller", "value"}
DecShape ==
    /\ DecFields \subseteq DOMAIN dec
    /\ {0, 1} \subseteq DOMAIN dec.bufs
    /\ dec.cur \in {0, 1}
    /\ dec.pc \in {"idle", "side", "params", "walk", "entropy", "xform", "hook",
                   "model", "returned", "done"}
    /\ dec.pc = "idle" => dec = DecFrame
    /\ dec.pc \in {"side", "params", "walk", "entropy"} => dec.cur = 0
    /\ dec.pc \notin {"returned", "done"} => dec.status = "ok"

\* What the decoder can read, stated of what was encoded.
Readable == Decodable(spec, src) /\ AllKnown /\ EntryFits

\* Where the decoder is, on a record that nothing harmed.
DecGood ==
    /\ dec.pc \notin {"returned", "done"} =>
          /\ (src.validity => src.n > 0) /\ Sticky(XformIds(spec.xform))
          /\ AllKnown /\ EntryFits
    /\ dec.pc \in {"params", "walk", "entropy", "xform", "hook", "model"} =>
          dec.side = SideBytes(spec.model, src)
    /\ dec.pc \in {"entropy", "xform", "hook", "model"} =>
          /\ WalkPasses(spec, src)
          /\ dec.rdtype = WalkedTypes(spec, src)[1] /\ dec.len = Elements(spec, src)
    /\ dec.pc = "xform" =>
          /\ ~ LeftOut(spec, src) /\ dec.i \in 0..Len(UsedBy(spec))
          /\ dec.bufs[dec.cur] = BackAt(spec, src, dec.i)
          /\ InvertsDownTo(spec, src, dec.i)
    /\ dec.pc \in {"hook", "model"} =>
          /\ dec.bufs[dec.cur] = ResidualOf(spec, src)
          /\ ~ LeftOut(spec, src) => InvertsDownTo(spec, src, 0)
    /\ dec.pc \in {"returned", "done"} =>
          /\ dec.status = "ok" => Readable /\ ValueFits
          /\ dec.status \notin {"ok", "nomem"} /\ asked.dst = Expected => ~ Readable

\* The decoder of an unharmed record is there.
DecPath ==
    wire # NoWire /\ wire.harm = None /\ dec.pc # "idle" => DecGood

\* A block and a specification as the constants allow them.
CaseOK(spc, blk) ==
    /\ blk \in [dtype : Dtypes, layout : Layouts, n : Nat,
               exact : BOOLEAN, validity : BOOLEAN]
    /\ spc.model \in CoreModels \cup PluginModels
    /\ spc.xform \in Seq([id : CoreXforms \cup PluginXforms \cup {None}, params : BOOLEAN])
    /\ spc.entropy \in Seq(CoreCoders \cup PluginCoders \cup {None})

\* The element sizes of format.h.
LEMMA Sizes ==
    /\ SizeOf["i16"] = 2 /\ SizeOf["u16"] = 2 /\ SizeOf["u32"] = 4 /\ SizeOf["f64"] = 8
    /\ SizeOf["string"] = 0 /\ SizeOf[None] = 0
  BY DEF SizeOf, Dtypes, Numeric, None

\* Strings have no element size, and every other type has one.
LEMMA SizeIsNat ==
    ASSUME NEW d \in Dtypes \cup {None}
    PROVE  SizeOf[d] \in Nat /\ (SizeOf[d] = 0 <=> d \notin Numeric)
  BY Sizes DEF Dtypes, Numeric, None

\* The transforms that run are the first of the caller's chain.
LEMMA UsedFacts ==
    ASSUME NEW spc, NEW blk, CaseOK(spc, blk)
    PROVE  /\ UsedBy(spc) \in Seq(CoreXforms \cup PluginXforms)
           /\ UsedBy(spc) \in Seq(Marks)
           /\ Len(UsedBy(spc)) \in 0..Len(spc.xform)
           /\ \A k \in 1..Len(UsedBy(spc)) :
                 /\ UsedBy(spc)[k] = spc.xform[k].id
                 /\ spc.xform[k].id # None
           /\ Len(UsedBy(spc)) < Len(spc.xform) => spc.xform[Len(UsedBy(spc)) + 1].id = None
<1> DEFINE ids == XformIds(spc.xform)
           S == CoreXforms \cup PluginXforms \cup {None}
           u == UsedBy(spc)
<1>1. ids \in Seq(S) /\ Len(ids) = Len(spc.xform) /\ \A k \in 1..Len(ids) : ids[k] = spc.xform[k].id
  <2> DEFINE x == spc.xform
  <2>1. x \in Seq([id : S, params : BOOLEAN])
    BY DEF CaseOK
  <2>2. ids = [k \in 1..Len(x) |-> x[k].id]
    BY DEF XformIds
  <2> HIDE DEF x, ids, S
  <2>3. \A k \in 1..Len(x) : x[k].id \in S
    <3> TAKE k \in 1..Len(x)
    <3> DEFINE e == x[k]
    <3>1. e \in [id : S, params : BOOLEAN]
      BY <2>1, ElementOfSeq
    <3> HIDE DEF e
    <3>2. e.id \in S
      BY <3>1
    <3> QED
      BY <3>2 DEF e
  <2>4. ids \in Seq(S) /\ Len(ids) = Len(x) /\ \A k \in 1..Len(x) : ids[k] = x[k].id
    <3>1. Len(x) \in Nat
      BY <2>1
    <3> QED
      BY <2>2, <2>3, <3>1
  <2>5. Len(ids) = Len(x)
    BY <2>4
  <2> QED
    BY <2>4, <2>5, Zenon DEF x
<1>2. /\ u \in Seq(S)
      /\ Len(u) \in 0..Len(ids)
      /\ \A k \in 1..Len(u) : u[k] = ids[k] /\ ids[k] # None
      /\ Len(u) < Len(ids) => ids[Len(u) + 1] = None
  <2> HIDE DEF ids, S
  <2> QED
    BY <1>1, ActiveIs DEF UsedBy, ids
<1> HIDE DEF ids, u
<1>3. \A k \in 1..Len(u) : u[k] \in CoreXforms \cup PluginXforms
  BY <1>2
<1>4. u \in Seq(CoreXforms \cup PluginXforms)
  BY <1>2, <1>3
<1>5. CoreXforms \cup PluginXforms \subseteq Marks
  BY DEF Marks
<1>6. u \in Seq(Marks)
  BY <1>4, <1>5
<1> QED
  BY <1>1, <1>2, <1>4, <1>6 DEF u

\* The coders that run are a list of ids.
LEMMA CoderFacts ==
    ASSUME NEW spc, NEW blk, CaseOK(spc, blk)
    PROVE  CodersOf(spc) \in Seq(Marks)
<1>1. CodersOf(spc) \in Seq(CoreCoders \cup PluginCoders \cup {None})
  BY ActiveIs DEF CaseOK, CodersOf
<1>2. CoreCoders \cup PluginCoders \cup {None} \subseteq Marks
  BY DEF Marks
<1> QED
  BY <1>1, <1>2

\* What holds of 1 and, with k, of k + 1 holds up to the end.
LEMMA Along ==
    ASSUME NEW n \in Nat, NEW S, 1 \in S, \A k \in 1..n : k \in S => k + 1 \in S
    PROVE  \A k \in 1..(n + 1) : k \in S
<1> DEFINE T == {j \in Nat : j + 1 <= n + 1 => j + 1 \in S}
<1>1. 0 \in T /\ T \in SUBSET Nat
  OBVIOUS
<1>2. ASSUME NEW j \in T
      PROVE  j + 1 \in T
  <2> SUFFICES ASSUME (j + 1) + 1 <= n + 1
               PROVE  (j + 1) + 1 \in S
    OBVIOUS
  <2>1. j + 1 \in S /\ j + 1 \in 1..n
    OBVIOUS
  <2> QED
    BY <2>1
<1>3. \A j \in Nat : j \in T
  <2> HIDE DEF T
  <2> QED
    BY <1>1, <1>2, Induct
<1> TAKE k \in 1..(n + 1)
<1>4. k - 1 \in T /\ (k - 1) + 1 = k
  <2>1. k - 1 \in Nat
    OBVIOUS
  <2> HIDE DEF T
  <2> QED
    BY <1>3, <2>1
<1> QED
  BY <1>4

\* t runs through what g makes of first, step by step.
Runs(t, m, first, g) ==
    t = [k \in 1..(m + 1) |-> IF k = 1 THEN first ELSE g[<<k - 1, t[k - 1]>>]]

\* A run of m steps goes one step further.
LEMMA RunsFurther ==
    ASSUME NEW m \in Nat, NEW first, NEW g, NEW t, Runs(t, m, first, g)
    PROVE  \E h : Runs(h, m + 1, first, g)
<1> DEFINE h == [k \in 1..((m + 1) + 1) |->
                    IF k = (m + 1) + 1 THEN g[<<m + 1, t[m + 1]>>] ELSE t[k]]
<1>1. \A k \in 1..(m + 1) : h[k] = t[k]
  OBVIOUS
<1>2. \A k \in 1..((m + 1) + 1) :
         h[k] = IF k = 1 THEN first ELSE g[<<k - 1, h[k - 1]>>]
  <2> TAKE k \in 1..((m + 1) + 1)
  <2>1. CASE k = (m + 1) + 1
    <3>1. k # 1 /\ k - 1 = m + 1 /\ m + 1 \in 1..(m + 1)
      BY <2>1
    <3>2. h[k] = g[<<m + 1, t[m + 1]>>] /\ h[m + 1] = t[m + 1]
      BY <1>1, <2>1, <3>1
    <3> HIDE DEF h
    <3> QED
      BY <3>1, <3>2
  <2>2. CASE k # (m + 1) + 1
    <3>1. k \in 1..(m + 1)
      BY <2>2
    <3>2. t[k] = IF k = 1 THEN first ELSE g[<<k - 1, t[k - 1]>>]
      BY <3>1 DEF Runs
    <3>3. k # 1 => k - 1 \in 1..(m + 1)
      BY <3>1
    <3> HIDE DEF h
    <3> QED
      BY <1>1, <3>1, <3>2, <3>3
  <2> QED
    BY <2>1, <2>2
<1>3. h = [k \in 1..((m + 1) + 1) |-> h[k]]
  OBVIOUS
<1>4. h = [k \in 1..((m + 1) + 1) |->
              IF k = 1 THEN first ELSE g[<<k - 1, h[k - 1]>>]]
  <2> HIDE DEF h
  <2> QED
    BY <1>2, <1>3, Zenon
<1> HIDE DEF h
<1> QED
  BY <1>4 DEF Runs

\* A function defined by a step from the value before it exists.
LEMMA Recursion ==
    ASSUME NEW n \in Nat, NEW first, NEW g
    PROVE  \E t : Runs(t, n, first, g)
<1> DEFINE T == {m \in Nat : \E t : Runs(t, m, first, g)}
<1>1. 0 \in T
  <2> DEFINE t == [k \in 1..1 |-> first]
  <2>1. \A k \in 1..1 : first = IF k = 1 THEN first ELSE g[<<k - 1, t[k - 1]>>]
    OBVIOUS
  <2>2. t = [k \in 1..1 |-> IF k = 1 THEN first ELSE g[<<k - 1, t[k - 1]>>]]
    BY <2>1, Zenon
  <2>3. 0 + 1 = 1
    OBVIOUS
  <2> HIDE DEF t
  <2>4. Runs(t, 0, first, g)
    BY <2>2, <2>3 DEF Runs
  <2> QED
    BY <2>4
<1>2. \A m \in T : m + 1 \in T
  BY RunsFurther
<1> QED
  <2>1. T \in SUBSET Nat
    OBVIOUS
  <2> HIDE DEF T
  <2>2. n \in T
    BY <1>1, <1>2, <2>1, Induct
  <2> QED
    BY <2>2 DEF T

\* It stays in a set its first value is in and its steps keep to.
LEMMA RunsTyped ==
    ASSUME NEW n \in Nat, NEW T, NEW first \in T, NEW g \in [(1..n) \X T -> T],
           NEW t, Runs(t, n, first, g)
    PROVE  \A k \in 1..(n + 1) : t[k] \in T
<1> DEFINE S == {k \in 1..(n + 1) : t[k] \in T}
<1>1. 1 \in S
  BY DEF Runs
<1>2. ASSUME NEW k \in 1..n, k \in S
      PROVE  k + 1 \in S
  <2>1. k + 1 \in 1..(n + 1) /\ k + 1 # 1 /\ (k + 1) - 1 = k
    OBVIOUS
  <2>2. t[k + 1] = g[<<k, t[k]>>]
    BY <2>1 DEF Runs
  <2>3. <<k, t[k]>> \in (1..n) \X T
    BY <1>2
  <2> QED
    BY <2>1, <2>2, <2>3
<1>3. \A k \in 1..(n + 1) : k \in S
  <2> HIDE DEF S
  <2> QED
    BY <1>1, <1>2, Along
<1> QED
  BY <1>3

\* The type before each transform, in the encoder.
LEMMA TypesAre ==
    ASSUME NEW spc, NEW blk, CaseOK(spc, blk)
    PROVE  /\ TypesOf(spc, blk)[1] = EncoderDtype(spc.model, blk)
           /\ \A k \in 1..Len(UsedBy(spc)) :
                 TypesOf(spc, blk)[k + 1] = XformDtype(spc.xform[k], TypesOf(spc, blk)[k])
<1> DEFINE n == Len(UsedBy(spc))
           T == Dtypes \cup {None}
           first == EncoderDtype(spc.model, blk)
           Q(t) == t = [k \in 1..n + 1 |-> IF k = 1 THEN first
                                           ELSE XformDtype(spc.xform[k - 1], t[k - 1])]
           g == [p \in (1..n) \X T |-> XformDtype(spc.xform[p[1]], p[2])]
<1>1. n \in Nat
  BY UsedFacts
<1>2. first \in T
  BY DEF CaseOK, EncoderDtype, Dtypes, Numeric
<1>3. g \in [(1..n) \X T -> T]
  BY DEF XformDtype, Dtypes, Numeric
<1>4. PICK t : Runs(t, n, first, g)
  <2> HIDE DEF n, first, g
  <2> QED
    BY <1>1, Recursion
<1>5. \A k \in 1..(n + 1) : t[k] \in T
  <2> HIDE DEF n, T, first, g
  <2> QED
    BY <1>1, <1>2, <1>3, <1>4, RunsTyped
<1>6. \A k \in 1..n + 1 : (IF k = 1 THEN first ELSE g[<<k - 1, t[k - 1]>>])
                        = (IF k = 1 THEN first ELSE XformDtype(spc.xform[k - 1], t[k - 1]))
  <2> TAKE k \in 1..n + 1
  <2> HIDE DEF n, T, first
  <2>1. CASE k = 1
    BY <2>1
  <2>2. CASE k # 1
    <3>1. k - 1 \in 1..n /\ k - 1 \in 1..(n + 1)
      BY <1>1, <2>2
    <3> DEFINE p == <<k - 1, t[k - 1]>>
    <3>2. p \in (1..n) \X T /\ p[1] = k - 1 /\ p[2] = t[k - 1]
      BY <1>5, <3>1
    <3>3. g[p] = XformDtype(spc.xform[p[1]], p[2])
      <4> HIDE DEF p
      <4> QED
        BY <3>2
    <3> QED
      BY <2>2, <3>2, <3>3, Zenon
  <2> QED
    BY <2>1, <2>2
<1>7. Q(t)
  <2> HIDE DEF n, T, first, g
  <2>1. t = [k \in 1..n + 1 |-> IF k = 1 THEN first ELSE g[<<k - 1, t[k - 1]>>]]
    BY <1>4 DEF Runs
  <2> QED
    BY <1>6, <2>1, Zenon
<1> DEFINE u == CHOOSE u : Q(u)
<1>8. Q(u)
  <2> HIDE DEF Q
  <2> QED
    BY <1>7
<1>9. TypesOf(spc, blk) = u
  BY DEF TypesOf
<1> HIDE DEF u
<1>10. u = [k \in 1..n + 1 |-> IF k = 1 THEN first ELSE XformDtype(spc.xform[k - 1], u[k - 1])]
  BY <1>8
<1> HIDE DEF n, first, Q
<1>11. 1 \in 1..n + 1
  BY <1>1
<1>12. ASSUME NEW k \in 1..n
       PROVE  u[k + 1] = XformDtype(spc.xform[k], u[k])
  <2>1. k + 1 \in 1..n + 1 /\ k + 1 # 1 /\ (k + 1) - 1 = k
    BY <1>1
  <2> QED
    BY <1>10, <2>1
<1>13. u[1] = first
  BY <1>10, <1>11
<1> QED
  BY <1>9, <1>12, <1>13 DEF n, first

\* The type before each transform, in the decoder.
LEMMA WalkedAre ==
    ASSUME NEW spc, NEW blk, CaseOK(spc, blk)
    PROVE  /\ WalkedTypes(spc, blk)[1] =
                 ResidualDtype(spc.model, blk.dtype, SideBytes(spc.model, blk))
           /\ \A k \in 1..Len(UsedBy(spc)) :
                 WalkedTypes(spc, blk)[k + 1] =
                    WalkDtype(UsedBy(spc)[k], WalkedTypes(spc, blk)[k], k \in Params(spc, blk))
<1> DEFINE n == Len(UsedBy(spc))
           T == Dtypes \cup {None}
           first == ResidualDtype(spc.model, blk.dtype, SideBytes(spc.model, blk))
           Q(t) == t = [k \in 1..n + 1 |->
                           IF k = 1 THEN first
                           ELSE WalkDtype(UsedBy(spc)[k - 1], t[k - 1], k - 1 \in Params(spc, blk))]
           g == [p \in (1..n) \X T |->
                    WalkDtype(UsedBy(spc)[p[1]], p[2], p[1] \in Params(spc, blk))]
<1>1. n \in Nat
  BY UsedFacts
<1>2. first \in T
  BY DEF CaseOK, ResidualDtype, Dtypes, Numeric
<1>3. g \in [(1..n) \X T -> T]
  BY DEF WalkDtype, Dtypes, Numeric
<1>4. PICK t : Runs(t, n, first, g)
  <2> HIDE DEF n, first, g
  <2> QED
    BY <1>1, Recursion
<1>5. \A k \in 1..(n + 1) : t[k] \in T
  <2> HIDE DEF n, T, first, g
  <2> QED
    BY <1>1, <1>2, <1>3, <1>4, RunsTyped
<1>6. \A k \in 1..n + 1 : (IF k = 1 THEN first ELSE g[<<k - 1, t[k - 1]>>])
                        = (IF k = 1 THEN first
                           ELSE WalkDtype(UsedBy(spc)[k - 1], t[k - 1], k - 1 \in Params(spc, blk)))
  <2> TAKE k \in 1..n + 1
  <2> HIDE DEF n, T, first
  <2>1. CASE k = 1
    BY <2>1
  <2>2. CASE k # 1
    <3>1. k - 1 \in 1..n /\ k - 1 \in 1..(n + 1)
      BY <1>1, <2>2
    <3> DEFINE p == <<k - 1, t[k - 1]>>
    <3>2. p \in (1..n) \X T /\ p[1] = k - 1 /\ p[2] = t[k - 1]
      BY <1>5, <3>1
    <3>3. g[p] = WalkDtype(UsedBy(spc)[p[1]], p[2], p[1] \in Params(spc, blk))
      <4> HIDE DEF p
      <4> QED
        BY <3>2
    <3> QED
      BY <2>2, <3>2, <3>3, Zenon
  <2> QED
    BY <2>1, <2>2
<1>7. Q(t)
  <2> HIDE DEF n, T, first, g
  <2>1. t = [k \in 1..n + 1 |-> IF k = 1 THEN first ELSE g[<<k - 1, t[k - 1]>>]]
    BY <1>4 DEF Runs
  <2> QED
    BY <1>6, <2>1, Zenon
<1> DEFINE u == CHOOSE u : Q(u)
<1>8. Q(u)
  <2> HIDE DEF Q
  <2> QED
    BY <1>7
<1>9. WalkedTypes(spc, blk) = u
  BY DEF WalkedTypes
<1> HIDE DEF u
<1>10. u = [k \in 1..n + 1 |->
                IF k = 1 THEN first
                ELSE WalkDtype(UsedBy(spc)[k - 1], u[k - 1], k - 1 \in Params(spc, blk))]
  BY <1>8
<1> HIDE DEF n, first, Q
<1>11. 1 \in 1..n + 1
  BY <1>1
<1>12. ASSUME NEW k \in 1..n
       PROVE  u[k + 1] = WalkDtype(UsedBy(spc)[k], u[k], k \in Params(spc, blk))
  <2>1. k + 1 \in 1..n + 1 /\ k + 1 # 1 /\ (k + 1) - 1 = k
    BY <1>1
  <2> QED
    BY <1>10, <2>1
<1>13. u[1] = first
  BY <1>10, <1>11
<1> QED
  BY <1>9, <1>12, <1>13 DEF n, first

----------------------------------------------------------------------------
(* The models.                                                             *)

\* A function goes on when none of its checks applies.
LEMMA FirstOfIs ==
    ASSUME NEW checks, Len(checks) \in Nat,
           \A i \in 1..Len(checks) : checks[i][2] # "ok"
    PROVE  /\ FirstOf(checks) = "ok" <=> \A i \in 1..Len(checks) : ~ checks[i][1]
           /\ FirstOf(checks) # "ok" => \E i \in 1..Len(checks) : FirstOf(checks) = checks[i][2]
<1> DEFINE hits == {i \in 1..Len(checks) : checks[i][1]}
           m == CHOOSE i \in hits : \A j \in hits : i <= j
<1>1. CASE hits = {}
  BY <1>1 DEF FirstOf
<1>2. CASE hits # {}
  <2>1. hits \in SUBSET Nat
    OBVIOUS
  <2>2. \E i \in hits : \A j \in hits : i <= j
    <3> HIDE DEF hits
    <3> QED
      BY <1>2, <2>1, Least
  <2>3. m \in hits
    <3> HIDE DEF hits
    <3> QED
      BY <2>2
  <2>4. FirstOf(checks) = checks[m][2]
    BY <1>2, Zenon DEF FirstOf
  <2> HIDE DEF m
  <2> QED
    BY <2>3, <2>4
<1> QED
  BY <1>1, <1>2

\* A block a model takes has an element type and a layout of the model's.
LEMMA ModelTakes ==
    ASSUME NEW model, NEW blk
    PROVE  ModelStatus(model, blk) = "ok" <=>
              /\ model = "dict_1d" => blk.dtype = "string"
              /\ blk.layout \in ModelLayouts(model)
              /\ blk.dtype \in ModelDtypes(model)
<1> DEFINE checks == <<<<model = "dict_1d" /\ blk.dtype # "string", "dtype">>,
                       <<blk.layout \notin ModelLayouts(model), "layout">>,
                       <<blk.dtype \notin ModelDtypes(model), "dtype">>>>
<1>1. /\ Len(checks) = 3
      /\ checks[1][2] = "dtype" /\ checks[2][2] = "layout" /\ checks[3][2] = "dtype"
  OBVIOUS
<1>2. /\ checks[1][1] <=> model = "dict_1d" /\ blk.dtype # "string"
      /\ checks[2][1] <=> blk.layout \notin ModelLayouts(model)
      /\ checks[3][1] <=> blk.dtype \notin ModelDtypes(model)
  OBVIOUS
<1>3. ModelStatus(model, blk) = FirstOf(checks)
  BY DEF ModelStatus
<1>4. \A i \in 1..3 : i = 1 \/ i = 2 \/ i = 3
  OBVIOUS
<1> HIDE DEF checks
<1>5. \A i \in 1..Len(checks) : checks[i][2] # "ok"
  BY <1>1, <1>4
<1>6. FirstOf(checks) = "ok" <=> \A i \in 1..Len(checks) : ~ checks[i][1]
  <2>1. Len(checks) \in Nat
    BY <1>1
  <2> QED
    BY <1>5, <2>1, FirstOfIs, Zenon
<1> QED
  BY <1>1, <1>2, <1>3, <1>4, <1>6

\* A model stores at most one element for each of the block.
LEMMA ElementsAre ==
    ASSUME NEW spc, NEW blk, CaseOK(spc, blk)
    PROVE  Elements(spc, blk) \in Nat /\ Elements(spc, blk) <= blk.n /\ blk.n \in Nat
  BY DEF CaseOK, Elements, Nonzero, CeilDiv

\* The decoder derives the element type the encoder started from, unless the
\* model is a plugin that narrows it.
LEMMA ModelTypes ==
    ASSUME NEW spc, NEW blk, CaseOK(spc, blk), ModelStatus(spc.model, blk) = "ok"
    PROVE  /\ EncoderDtype(spc.model, blk) \in Numeric
           /\ ResidualDtype(spc.model, blk.dtype, SideBytes(spc.model, blk)) =
                 IF spc.model = "narrowing" THEN blk.dtype ELSE EncoderDtype(spc.model, blk)
           /\ spc.model = "narrowing" => /\ blk.dtype \in {"u32", "f64"}
                                         /\ EncoderDtype(spc.model, blk) = "i16"
<1>1. blk.dtype \in ModelDtypes(spc.model)
  BY ModelTakes
<1> QED
  BY <1>1 DEF EncoderDtype, ResidualDtype, ModelDtypes, SideBytes, Bytes, Intact, Numeric,
              CaseOK, CoreModels, PluginModels

\* The residual has one element for each that is stored, or none at all.
LEMMA ResidualIs ==
    ASSUME NEW spc, NEW blk, CaseOK(spc, blk), ModelStatus(spc.model, blk) = "ok"
    PROVE  /\ ~ LeftOut(spc, blk) =>
                 ResidualBytes(spc.model, blk) =
                    Bytes("residual", Elements(spc, blk) * SizeOf[EncoderDtype(spc.model, blk)])
           /\ LeftOut(spc, blk) =>
                 /\ spc.model # "narrowing"
                 /\ Elements(spc, blk) = 0 \/ spc.model \in {"plane_2d", "custom"}
<1> DEFINE d == EncoderDtype(spc.model, blk)
           e == Elements(spc, blk)
           w == SizeOf[d]
           len == IF spc.model = "sparse_zero_1d" THEN Nonzero(blk)
                  ELSE IF spc.model \in {"plane_2d", "custom"} /\ blk.exact THEN 0
                  ELSE blk.n
<1>1. e \in Nat /\ blk.n \in Nat
  BY ElementsAre
<1>2. w \in {2, 4, 8}
  BY ModelTypes, Sizes DEF Numeric
<1>3. len = IF spc.model \in {"plane_2d", "custom"} /\ blk.exact THEN 0 ELSE e
  BY DEF Elements
<1>4. ResidualBytes(spc.model, blk) = Bytes("residual", len * w)
  BY DEF ResidualBytes
<1>5. ResidualBytes(spc.model, blk).size = len * w
  BY <1>4 DEF Bytes
<1>6. spc.model # "sparse_zero_1d" => e = blk.n
  BY DEF Elements
<1>7. spc.model \in {"plane_2d", "custom"} => spc.model # "sparse_zero_1d" /\ spc.model # "narrowing"
  OBVIOUS
<1> HIDE DEF d, e, w, len
<1>8. len \in Nat
  BY <1>1, <1>3
<1>9. len * w = 0 <=> len = 0
  BY <1>2, <1>8
<1>10. LeftOut(spc, blk) <=> blk.n > 0 /\ len = 0
  BY <1>5, <1>9 DEF LeftOut
<1>11. CASE LeftOut(spc, blk)
  <2>1. blk.n > 0 /\ len = 0
    BY <1>10, <1>11
  <2>2. CASE spc.model \in {"plane_2d", "custom"}
    BY <1>7, <1>11, <2>2
  <2>3. CASE spc.model \notin {"plane_2d", "custom"}
    <3>1. e = 0 /\ spc.model = "sparse_zero_1d"
      BY <1>3, <1>6, <2>1, <2>3
    <3> QED
      BY <1>11, <3>1 DEF e
  <2> QED
    BY <2>2, <2>3
<1>12. CASE ~ LeftOut(spc, blk)
  <2>1. len = e
    BY <1>1, <1>3, <1>6, <1>7, <1>10, <1>12
  <2> QED
    BY <1>4, <1>12, <2>1 DEF e, d, w
<1> QED
  BY <1>11, <1>12

\* The decoder counts the elements as the model did.
LEMMA LengthIs ==
    ASSUME NEW spc, NEW blk, CaseOK(spc, blk), ModelStatus(spc.model, blk) = "ok"
    PROVE  ResidualLens(spc.model, blk.dtype, blk.n, SideBytes(spc.model, blk))
              = {Elements(spc, blk)}
<1>1. CASE spc.model # "sparse_zero_1d"
  BY <1>1 DEF ResidualLens, Elements
<1>2. CASE spc.model = "sparse_zero_1d"
  <2> DEFINE w == SizeOf[blk.dtype]
             e == Nonzero(blk)
             side == SideBytes(spc.model, blk)
  <2>1. w \in {2, 4, 8}
    BY <1>2, ModelTakes, Sizes DEF ModelDtypes, Numeric
  <2>2. e \in Nat
    BY ElementsAre, <1>2 DEF Elements
  <2>3. side = Bytes("side", 5 + e * w)
    BY <1>2 DEF SideBytes
  <2>4. side.size = 5 + e * w /\ Intact(side, "side")
    BY <2>3 DEF Bytes, Intact
  <2> HIDE DEF w, e, side
  <2>5. (5 + e * w) >= 5 /\ ((5 + e * w) - 5) \div w = e
    <3>1. CASE w = 2
      BY <2>2, <3>1
    <3>2. CASE w = 4
      BY <2>2, <3>2
    <3>3. CASE w = 8
      BY <2>2, <3>3
    <3> QED
      BY <2>1, <3>1, <3>2, <3>3
  <2>6. ResidualLens(spc.model, blk.dtype, blk.n, side) = {(side.size - 5) \div w}
    <3>1. ~ (side.size < 5)
      BY <2>1, <2>2, <2>4, <2>5
    <3> QED
      BY <1>2, <2>4, <3>1, Zenon DEF ResidualLens, w
  <2> QED
    BY <1>2, <2>4, <2>5, <2>6 DEF Elements, side, e
<1> QED
  BY <1>1, <1>2

\* Side metadata goes into the record and comes back.
LEMMA SideIs ==
    ASSUME NEW spc, NEW blk, CaseOK(spc, blk)
    PROVE  LET s == SideBytes(spc.model, blk)
               p == PackedSide(spc, blk)
           IN  /\ s \in ByteStrings /\ p \in ByteStrings
               /\ s.by = <<>>
               /\ s.size = 0 => s = NoBytes
               /\ s.size > 0 => s.of = "side" /\ p.size > 0
               /\ p.size > 0 <=> s.size > 0
               /\ s.size > 0 /\ SidePacks(spc.model) =>
                     Take(p, "pack", UnpackedSize(p.size)) = s
               /\ ~ SidePacks(spc.model) => p = s
<1> DEFINE s == SideBytes(spc.model, blk)
           p == PackedSide(spc, blk)
<1>1. /\ s \in ByteStrings /\ s.by = <<>>
      /\ s.size = 0 => s = NoBytes
      /\ s.size > 0 => s.of = "side"
  <2>1. CASE spc.model = "sparse_zero_1d"
    <3> DEFINE e == Nonzero(blk)
               w == SizeOf[blk.dtype]
    <3>1. e \in Nat /\ w \in Nat
      BY <2>1, ElementsAre, SizeIsNat DEF Elements, CaseOK
    <3>2. s = Bytes("side", 5 + e * w)
      BY <2>1 DEF SideBytes
    <3> HIDE DEF e, w
    <3>3. 5 + e * w \in Nat /\ 5 + e * w # 0
      BY <3>1
    <3> QED
      BY <3>2, <3>3 DEF Bytes, ByteStrings, Contents
  <2>2. CASE spc.model # "sparse_zero_1d"
    BY <2>2 DEF SideBytes, Bytes, NoBytes, ByteStrings, Contents
  <2> QED
    BY <2>1, <2>2
<1>2. CASE s.size > 0 /\ SidePacks(spc.model)
  <2> DEFINE m == PackedSize(s.size)
             n == UnpackedSize(m)
  <2>1. s.size \in {12, 17}
    BY <1>2 DEF SidePacks, SideBytes, Bytes
  <2>2. m \in Nat /\ m > 0 /\ n = s.size
    BY <2>1 DEF PackedSize, UnpackedSize
  <2>3. p = Put(s, "pack", m)
    BY <1>2 DEF PackedSide
  <2>4. "pack" \in Marks
    BY DEF Marks
  <2> HIDE DEF s, m, n
  <2>5. Take(Put(s, "pack", m), "pack", n) = [s EXCEPT !.size = n] /\ n \in Nat
    BY <1>1, <2>2, <2>4, TakePut DEF ByteStrings
  <2>6. [s EXCEPT !.size = n] = s
    BY <1>1, <2>2 DEF ByteStrings
  <2>7. p.size = m /\ p \in ByteStrings
    <3>1. p = [s EXCEPT !.by = Append(s.by, "pack"), !.size = m]
      BY <2>3 DEF Put
    <3>2. Append(s.by, "pack") \in Seq(Marks)
      BY <1>1, <2>4 DEF ByteStrings
    <3> QED
      BY <1>1, <2>2, <3>1, <3>2 DEF ByteStrings
  <2> QED
    BY <1>1, <1>2, <2>2, <2>3, <2>5, <2>6, <2>7 DEF s, n
<1>3. CASE ~ (s.size > 0 /\ SidePacks(spc.model))
  <2>1. p = s
    BY <1>3 DEF PackedSide
  <2> HIDE DEF s, p
  <2> QED
    BY <1>1, <1>3, <2>1 DEF s, p
<1> QED
  BY <1>2, <1>3

----------------------------------------------------------------------------
(* The transforms, forwards.                                               *)

\* Eights of elements.
LEMMA Eights ==
    ASSUME NEW e \in Nat
    PROVE  /\ CeilDiv(e, 8) \in Nat
           /\ 8 * CeilDiv(e, 8) = e <=> e % 8 = 0
           /\ CeilDiv(8 * e, 8) = e
           /\ CeilDiv(0, 8) = 0
  BY DEF CeilDiv

\* A whole number of elements.
LEMMA WholeElements ==
    ASSUME NEW e \in Nat, NEW w \in {2, 4, 8}
    PROVE  /\ e * w \in Nat /\ (e * w) \div w = e /\ (e * w) % w = 0
           /\ e * w = 0 <=> e = 0
           /\ \A f \in Nat : e * w = f * w <=> e = f
           /\ \A c \in Nat : 8 * w * c = (8 * c) * w
<1>1. CASE w = 2
  BY <1>1
<1>2. CASE w = 4
  BY <1>2
<1>3. CASE w = 8
  BY <1>3
<1> QED
  BY <1>1, <1>2, <1>3

\* The sizes of the numeric types.
LEMMA NumericSize ==
    ASSUME NEW d \in Numeric
    PROVE  SizeOf[d] \in {2, 4, 8}
  BY Sizes DEF Numeric

\* No transform of the encoder makes anything but numbers.
LEMMA TypesNumeric ==
    ASSUME NEW spc, NEW blk, CaseOK(spc, blk), ModelStatus(spc.model, blk) = "ok"
    PROVE  \A k \in 1..(Len(UsedBy(spc)) + 1) : TypesOf(spc, blk)[k] \in Numeric
<1> DEFINE n == Len(UsedBy(spc))
           t == TypesOf(spc, blk)
           S == {k \in 1..(n + 1) : t[k] \in Numeric}
<1>1. n \in Nat
  BY UsedFacts
<1>2. t[1] \in Numeric
  BY TypesAre, ModelTypes
<1>3. ASSUME NEW k \in 1..n, t[k] \in Numeric
      PROVE  t[k + 1] \in Numeric
  <2>1. t[k + 1] = XformDtype(spc.xform[k], t[k])
    BY TypesAre
  <2> HIDE DEF t
  <2> QED
    BY <1>3, <2>1 DEF XformDtype, Numeric
<1> HIDE DEF n, t
<1>4. 1 \in S /\ \A k \in 1..n : k \in S => k + 1 \in S
  BY <1>1, <1>2, <1>3
<1>5. \A k \in 1..(n + 1) : k \in S
  <2> HIDE DEF S
  <2> QED
    BY <1>1, <1>4, Along
<1> QED
  BY <1>5 DEF n, t

\* The bit planes alone change the number of elements, to a multiple of eight.
LEMMA CountIs ==
    ASSUME NEW spc, NEW blk, CaseOK(spc, blk)
    PROVE  /\ \A k \in Nat : CountAt(spc, blk, k) \in Nat
           /\ CountAt(spc, blk, 1) = Elements(spc, blk)
           /\ \A k \in 1..Len(UsedBy(spc)) :
                 CountAt(spc, blk, k + 1) =
                    IF UsedBy(spc)[k] = "bit_shuffle" THEN 8 * CeilDiv(CountAt(spc, blk, k), 8)
                    ELSE CountAt(spc, blk, k)
<1> DEFINE e == Elements(spc, blk)
           u == UsedBy(spc)
           c == CeilDiv(e, 8)
<1>1. e \in Nat /\ c \in Nat /\ CeilDiv(8 * c, 8) = c
  BY ElementsAre, Eights
<1>2. \A k : CountAt(spc, blk, k) = IF \E j \in 1..k - 1 : u[j] = "bit_shuffle"
                                    THEN 8 * c ELSE e
  BY DEF CountAt
<1>3. Len(u) \in Nat
  BY UsedFacts
<1> HIDE DEF e, u, c
<1>4. \A k \in Nat : CountAt(spc, blk, k) \in Nat
  BY <1>1, <1>2
<1>5. CountAt(spc, blk, 1) = e
  BY <1>2
<1>6. ASSUME NEW k \in 1..Len(u)
      PROVE  CountAt(spc, blk, k + 1) =
                IF u[k] = "bit_shuffle" THEN 8 * CeilDiv(CountAt(spc, blk, k), 8)
                ELSE CountAt(spc, blk, k)
  <2>1. (\E j \in 1..(k + 1) - 1 : u[j] = "bit_shuffle")
           <=> (\E j \in 1..k - 1 : u[j] = "bit_shuffle") \/ u[k] = "bit_shuffle"
    <3>1. 1..(k + 1) - 1 = (1..k - 1) \cup {k}
      BY <1>3
    <3> QED
      BY <3>1
  <2>2. CASE \E j \in 1..k - 1 : u[j] = "bit_shuffle"
    <3>1. CountAt(spc, blk, k + 1) = 8 * c /\ CountAt(spc, blk, k) = 8 * c
      BY <1>2, <2>1, <2>2
    <3> QED
      BY <1>1, <3>1
  <2>3. CASE ~ (\E j \in 1..k - 1 : u[j] = "bit_shuffle")
    <3>1. CountAt(spc, blk, k) = e
      BY <1>2, <2>3
    <3>2. CountAt(spc, blk, k + 1) = IF u[k] = "bit_shuffle" THEN 8 * c ELSE e
      BY <1>2, <2>1, <2>3
    <3> QED
      BY <3>1, <3>2 DEF c
  <2> QED
    BY <2>2, <2>3
<1> QED
  BY <1>4, <1>5, <1>6 DEF e, u

\* What a transform that takes its input makes of it.
LEMMA XformSizeIs ==
    ASSUME NEW x, NEW d \in Numeric, d \in XformDtypes(x.id), NEW c \in Nat
    PROVE  XformSize(x, d, c * SizeOf[d]) =
              (IF x.id = "bit_shuffle" THEN 8 * CeilDiv(c, 8) ELSE c)
                 * SizeOf[XformDtype(x, d)]
<1> DEFINE w == SizeOf[d]
<1>1. w \in {2, 4, 8} /\ c * w \in Nat /\ (c * w) \div w = c
  BY NumericSize, WholeElements
<1>2. CASE x.id = "quantize"
  <2>1. d = "f64" /\ w = 8
    BY <1>2, Sizes DEF XformDtypes
  <2>2. XformDtype(x, d) = "i16" /\ SizeOf["i16"] = 2
    BY <1>2, Sizes DEF XformDtype
  <2>3. XformSize(x, d, c * w) = ((c * w) \div 8) * 2
    BY <1>2 DEF XformSize
  <2> HIDE DEF w
  <2>4. XformSize(x, d, c * w) = c * 2
    BY <1>1, <2>1, <2>3
  <2> QED
    BY <1>2, <2>2, <2>4 DEF w
<1>3. CASE x.id = "zigzag"
  <2>1. d = "i16" /\ XformDtype(x, d) = "u16" /\ SizeOf["i16"] = SizeOf["u16"]
    BY <1>3, Sizes DEF XformDtypes, XformDtype
  <2>2. XformSize(x, d, c * w) = c * w
    BY <1>3 DEF XformSize
  <2> QED
    BY <1>3, <2>1, <2>2
<1>4. CASE x.id = "bit_shuffle"
  <2>1. XformDtype(x, d) = d
    BY <1>4 DEF XformDtype
  <2>2. XformSize(x, d, c * w) = 8 * w * CeilDiv((c * w) \div w, 8)
    BY <1>4 DEF XformSize
  <2> HIDE DEF w
  <2>3. XformSize(x, d, c * w) = 8 * w * CeilDiv(c, 8)
    BY <1>1, <2>2
  <2>4. 8 * w * CeilDiv(c, 8) = (8 * CeilDiv(c, 8)) * w
    BY <1>1, Eights, WholeElements
  <2> QED
    BY <1>4, <2>1, <2>3, <2>4 DEF w
<1>5. CASE x.id \notin {"quantize", "zigzag", "bit_shuffle"}
  <2>1. XformDtype(x, d) = d
    BY <1>5 DEF XformDtype
  <2>2. XformSize(x, d, c * w) = c * w
    BY <1>5 DEF XformSize
  <2> QED
    BY <1>5, <2>1, <2>2
<1> QED
  BY <1>2, <1>3, <1>4, <1>5

\* The bytes after one more transform of the encoder.
LEMMA StageNext ==
    ASSUME NEW spc, NEW blk, CaseOK(spc, blk), ModelStatus(spc.model, blk) = "ok",
           NEW k \in 1..Len(UsedBy(spc)),
           TypesOf(spc, blk)[k] \in XformDtypes(UsedBy(spc)[k])
    PROVE  Put(StageAt(spc, blk, k), spc.xform[k].id,
               XformSize(spc.xform[k], TypesOf(spc, blk)[k], StageAt(spc, blk, k).size))
              = StageAt(spc, blk, k + 1)
<1> DEFINE u == UsedBy(spc)
           t == TypesOf(spc, blk)
           x == spc.xform[k]
           c == CountAt(spc, blk, k)
           s == StageAt(spc, blk, k)
           by == SubSeq(u, 1, k - 1)
           m == CountAt(spc, blk, k + 1) * SizeOf[t[k + 1]]
<1>1. u \in Seq(Marks) /\ k \in Nat /\ u[k] = x.id
  BY UsedFacts
<1>2. c \in Nat /\ t[k] \in Numeric
  <2>1. k \in Nat /\ k \in 1..(Len(u) + 1)
    BY <1>1
  <2> QED
    BY <2>1, CountIs, TypesNumeric
<1>3. s = [of |-> "residual", by |-> by, size |-> c * SizeOf[t[k]]]
  BY DEF StageAt
<1>4. XformSize(x, t[k], c * SizeOf[t[k]]) = m
  <2>1. t[k + 1] = XformDtype(x, t[k])
    BY TypesAre
  <2>2. CountAt(spc, blk, k + 1) = IF x.id = "bit_shuffle" THEN 8 * CeilDiv(c, 8) ELSE c
    BY <1>1, CountIs
  <2> HIDE DEF c, t, x, u
  <2> QED
    BY <1>1, <1>2, <2>1, <2>2, XformSizeIs DEF u, t
<1>5. SubSeq(u, 1, (k + 1) - 1) = Append(by, x.id)
  <2> HIDE DEF u, x
  <2> QED
    BY <1>1 DEF u
<1>6. StageAt(spc, blk, k + 1) = [of |-> "residual", by |-> Append(by, x.id), size |-> m]
  BY <1>5 DEF StageAt
<1>7. Put(s, x.id, m) = [s EXCEPT !.by = Append(s.by, x.id), !.size = m]
  BY DEF Put
<1>8. s.by = by /\ s.size = c * SizeOf[t[k]]
  BY <1>3
<1> HIDE DEF s, by, m, x, c, t
<1>9. [s EXCEPT !.by = Append(by, x.id), !.size = m]
         = [of |-> "residual", by |-> Append(by, x.id), size |-> m]
  <2> DEFINE a == Append(by, x.id)
             q == [s EXCEPT !.by = a]
  <2> HIDE DEF a
  <2>1. q = [of |-> "residual", by |-> a, size |-> c * SizeOf[t[k]]]
    BY <1>3
  <2> HIDE DEF q
  <2>2. [q EXCEPT !.size = m] = [of |-> "residual", by |-> a, size |-> m]
    BY <2>1
  <2> QED
    BY <2>2 DEF q, a
<1> QED
  BY <1>4, <1>6, <1>7, <1>8, <1>9, Zenon DEF s, x, t

----------------------------------------------------------------------------
(* The transforms, backwards.                                              *)

\* The walk has a rule for this transform of the chain.
Ruled(spc, blk, k) ==
    \/ UsedBy(spc)[k] \in {"byte_shuffle", "bit_shuffle"}
    \/ /\ UsedBy(spc)[k] = "zigzag"
       /\ TypesOf(spc, blk)[k] = "i16" \/ WalkedTypes(spc, blk)[k] = "i16"
    \/ UsedBy(spc)[k] = "quantize" /\ k \in Params(spc, blk)

\* A walk that goes on has met a transform it has a rule for.
LEMMA WalkGoesOn ==
    ASSUME NEW spc, NEW blk, CaseOK(spc, blk), NEW k \in 1..Len(UsedBy(spc)),
           SizeOf[WalkedTypes(spc, blk)[k + 1]] # 0
    PROVE  /\ UsedBy(spc)[k] = "zigzag" => WalkedTypes(spc, blk)[k] = "i16"
           /\ UsedBy(spc)[k] \in CoreXforms
           /\ Ruled(spc, blk, k)
<1> DEFINE d == WalkedTypes(spc, blk)[k]
           p == k \in Params(spc, blk)
           id == UsedBy(spc)[k]
<1>1. WalkedTypes(spc, blk)[k + 1] = WalkDtype(id, d, p)
  BY WalkedAre
<1> HIDE DEF d, p, id
<1>2. WalkDtype(id, d, p) # None
  BY <1>1, Sizes
<1>3. \/ id \in {"byte_shuffle", "bit_shuffle"}
      \/ id = "zigzag" /\ d = "i16"
      \/ id = "quantize" /\ p
  BY <1>2 DEF WalkDtype
<1> QED
  BY <1>3 DEF Ruled, CoreXforms, id, d, p

\* Where every transform has a rule the decoder goes through the encoder's
\* types.
LEMMA WalkAgrees ==
    ASSUME NEW spc, NEW blk, CaseOK(spc, blk), ModelStatus(spc.model, blk) = "ok",
           spc.model # "narrowing",
           \A k \in 1..Len(UsedBy(spc)) : Ruled(spc, blk, k)
    PROVE  /\ \A k \in 1..(Len(UsedBy(spc)) + 1) :
                 WalkedTypes(spc, blk)[k] = TypesOf(spc, blk)[k]
           /\ \A k \in 1..Len(UsedBy(spc)) : SizeOf[WalkedTypes(spc, blk)[k + 1]] # 0
<1> DEFINE n == Len(UsedBy(spc))
           t == TypesOf(spc, blk)
           w == WalkedTypes(spc, blk)
           S == {k \in 1..(n + 1) : w[k] = t[k]}
<1>1. n \in Nat
  BY UsedFacts
<1>2. w[1] = t[1]
  BY TypesAre, WalkedAre, ModelTypes
<1>3. ASSUME NEW k \in 1..n, w[k] = t[k]
      PROVE  w[k + 1] = t[k + 1]
  <2> DEFINE x == spc.xform[k]
             p == k \in Params(spc, blk)
  <2>1. /\ w[k + 1] = WalkDtype(x.id, w[k], p)
        /\ t[k + 1] = XformDtype(x, t[k])
    BY TypesAre, WalkedAre, UsedFacts
  <2>2. \/ x.id \in {"byte_shuffle", "bit_shuffle"}
        \/ x.id = "zigzag" /\ t[k] = "i16"
        \/ x.id = "quantize" /\ p
    BY <1>3, UsedFacts DEF Ruled
  <2> HIDE DEF x, p, w, t
  <2> QED
    BY <1>3, <2>1, <2>2 DEF WalkDtype, XformDtype
<1> HIDE DEF n, t, w
<1>4. 1 \in S /\ \A k \in 1..n : k \in S => k + 1 \in S
  BY <1>1, <1>2, <1>3
<1>5. \A k \in 1..(n + 1) : k \in S
  <2> HIDE DEF S
  <2> QED
    BY <1>1, <1>4, Along
<1>6. \A k \in 1..(n + 1) : w[k] = t[k]
  BY <1>5
<1>7. ASSUME NEW k \in 1..n
      PROVE  SizeOf[w[k + 1]] # 0
  <2>1. k + 1 \in 1..(n + 1)
    BY <1>1
  <2>2. t[k + 1] \in Numeric
    BY <2>1, TypesNumeric DEF n, t
  <2> QED
    BY <1>6, <2>1, <2>2, NumericSize
<1> QED
  BY <1>6, <1>7 DEF n, t, w

\* A model that turned wider elements into i16: the walk stays with the
\* wider type.
LEMMA WalkStaysWide ==
    ASSUME NEW spc, NEW blk, CaseOK(spc, blk), ModelStatus(spc.model, blk) = "ok",
           spc.model = "narrowing", TypesFit(spc, blk, Len(UsedBy(spc))),
           \A k \in 1..Len(UsedBy(spc)) :
              UsedBy(spc)[k] \in CoreXforms \ {"zigzag"} \/ SizeOf[WalkedTypes(spc, blk)[k + 1]] # 0
    PROVE  /\ \A k \in 1..(Len(UsedBy(spc)) + 1) :
                 /\ WalkedTypes(spc, blk)[k] = blk.dtype
                 /\ TypesOf(spc, blk)[k] = "i16"
           /\ \A k \in 1..Len(UsedBy(spc)) : UsedBy(spc)[k] \in {"byte_shuffle", "bit_shuffle"}
<1> DEFINE n == Len(UsedBy(spc))
           t == TypesOf(spc, blk)
           w == WalkedTypes(spc, blk)
           S == {k \in 1..(n + 1) : w[k] = blk.dtype /\ t[k] = "i16"}
<1>1. n \in Nat
  BY UsedFacts
<1>2. w[1] = blk.dtype /\ t[1] = "i16" /\ blk.dtype \in {"u32", "f64"}
  BY TypesAre, WalkedAre, ModelTypes
<1>3. ASSUME NEW k \in 1..n, w[k] = blk.dtype, t[k] = "i16"
      PROVE  /\ w[k + 1] = blk.dtype /\ t[k + 1] = "i16"
             /\ UsedBy(spc)[k] \in {"byte_shuffle", "bit_shuffle"}
  <2> DEFINE x == spc.xform[k]
  <2>1. /\ w[k + 1] = WalkDtype(x.id, w[k], k \in Params(spc, blk))
        /\ t[k + 1] = XformDtype(x, t[k])
        /\ UsedBy(spc)[k] = x.id
    BY TypesAre, WalkedAre, UsedFacts
  <2>2. x.id # "quantize"
    <3>1. t[k] \in XformDtypes(x.id)
      BY <2>1 DEF TypesFit
    <3> QED
      BY <1>3, <3>1 DEF XformDtypes
  <2>3. x.id \in CoreXforms \ {"zigzag"}
    <3>1. CASE SizeOf[w[k + 1]] # 0
      <4>1. x.id = "zigzag" => w[k] = "i16"
        BY <2>1, <3>1, WalkGoesOn
      <4>2. x.id \in CoreXforms
        BY <2>1, <3>1, WalkGoesOn
      <4> QED
        BY <1>2, <1>3, <4>1, <4>2
    <3>2. CASE SizeOf[w[k + 1]] = 0
      BY <2>1, <3>2
    <3> QED
      BY <3>1, <3>2
  <2>4. x.id \in {"byte_shuffle", "bit_shuffle"}
    BY <2>2, <2>3 DEF CoreXforms
  <2> HIDE DEF x, w, t
  <2> QED
    BY <1>3, <2>1, <2>4 DEF WalkDtype, XformDtype
<1> HIDE DEF n, t, w
<1>4. 1 \in S /\ \A k \in 1..n : k \in S => k + 1 \in S
  BY <1>1, <1>2, <1>3
<1>5. \A k \in 1..(n + 1) : k \in S
  <2> HIDE DEF S
  <2> QED
    BY <1>1, <1>4, Along
<1>6. \A k \in 1..(n + 1) : w[k] = blk.dtype /\ t[k] = "i16"
  BY <1>5
<1>7. \A k \in 1..n : UsedBy(spc)[k] \in {"byte_shuffle", "bit_shuffle"}
  <2>1. \A k \in 1..n : k \in 1..(n + 1)
    BY <1>1
  <2> QED
    BY <1>3, <1>6, <2>1
<1> QED
  BY <1>6, <1>7 DEF n, t, w

----------------------------------------------------------------------------
(* What can be read back.                                                  *)

\* What tells what the decoder can invert, of the ids, the types and the size:
\* Invertible, which the clauses of Regular say of a call.
Shuffled(spc)   == \E k \in 1..Len(UsedBy(spc)) : UsedBy(spc)[k] = "bit_shuffle"
OnlyCore(spc)   == \A k \in 1..Len(UsedBy(spc)) : UsedBy(spc)[k] \in CoreXforms
Walkable(spc, blk) ==
    \A k \in 1..Len(UsedBy(spc)) :
       \/ UsedBy(spc)[k] \in {"byte_shuffle", "bit_shuffle"}
       \/ UsedBy(spc)[k] = "zigzag" /\ TypesOf(spc, blk)[k] = "i16"
Inverts(spc, blk) ==
    WalkPasses(spc, blk) /\ (~ LeftOut(spc, blk) => InvertsDownTo(spc, blk, 0))
Invertible(spc, blk) ==
    /\ OnlyCore(spc)
    /\ spc.model = "narrowing" =>
          blk.n = 0 /\ \A k \in 1..Len(UsedBy(spc)) : UsedBy(spc)[k] # "zigzag"
    /\ LeftOut(spc, blk) => Walkable(spc, blk)
    /\ Shuffled(spc) /\ ~ LeftOut(spc, blk) => Elements(spc, blk) % 8 = 0

\* A residual that was left out.
LEMMA LeftOutInverts ==
    ASSUME NEW spc, NEW blk, CaseOK(spc, blk), Prepared(spc, blk), LeftOut(spc, blk)
    PROVE  Inverts(spc, blk) <=> Invertible(spc, blk)
<1> DEFINE n == Len(UsedBy(spc))
           t == TypesOf(spc, blk)
           w == WalkedTypes(spc, blk)
<1>1. /\ ModelStatus(spc.model, blk) = "ok" /\ spc.model # "narrowing"
      /\ n \in Nat
  BY ResidualIs, UsedFacts DEF Prepared
<1>2. w[1] = EncoderDtype(spc.model, blk)
  BY <1>1, WalkedAre, ModelTypes
<1>3. Inverts(spc, blk) <=> \A k \in 1..n : SizeOf[w[k + 1]] # 0
  BY <1>2 DEF Inverts, WalkPasses, Uncompressed
<1>4. Invertible(spc, blk) <=> OnlyCore(spc) /\ Walkable(spc, blk)
  BY <1>1 DEF Invertible
<1>5. Walkable(spc, blk) => OnlyCore(spc) /\ \A k \in 1..n : Ruled(spc, blk, k)
  BY DEF Walkable, OnlyCore, Ruled, CoreXforms
<1>6. Walkable(spc, blk) => \A k \in 1..n : SizeOf[w[k + 1]] # 0
  BY <1>1, <1>5, WalkAgrees
<1>7. ASSUME \A k \in 1..n : SizeOf[w[k + 1]] # 0
      PROVE  Walkable(spc, blk)
  <2>1. \A k \in 1..n : Ruled(spc, blk, k)
    BY <1>7, WalkGoesOn
  <2>2. \A k \in 1..n : w[k] = t[k]
    <3>1. \A k \in 1..n : k \in 1..(n + 1)
      BY <1>1
    <3> QED
      BY <1>1, <2>1, <3>1, WalkAgrees
  <2>3. \A k \in 1..n : k \notin Params(spc, blk)
    BY DEF Params
  <2> QED
    BY <2>1, <2>2, <2>3 DEF Walkable, Ruled
<1> QED
  BY <1>3, <1>4, <1>5, <1>6, <1>7

\* The inverse of one core transform, where both drivers have the same types
\* and no bit planes were rounded up.
LEMMA OneInverts ==
    ASSUME NEW spc, NEW blk, CaseOK(spc, blk), ModelStatus(spc.model, blk) = "ok",
           ~ LeftOut(spc, blk), NEW k \in 1..Len(UsedBy(spc)),
           UsedBy(spc)[k] \in CoreXforms,
           TypesOf(spc, blk)[k] \in XformDtypes(UsedBy(spc)[k]),
           WalkedTypes(spc, blk)[k] = TypesOf(spc, blk)[k],
           WalkedTypes(spc, blk)[k + 1] = TypesOf(spc, blk)[k + 1],
           Shuffled(spc) => Elements(spc, blk) % 8 = 0
    PROVE  InverseAt(spc, blk, k)
<1> DEFINE e == Elements(spc, blk)
           x == spc.xform[k]
           d == TypesOf(spc, blk)[k]
           f == TypesOf(spc, blk)[k + 1]
           p == k \in Params(spc, blk)
<1>1. /\ UsedBy(spc)[k] = x.id /\ f = XformDtype(x, d) /\ e \in Nat
      /\ d \in Numeric /\ d \in XformDtypes(x.id)
  <2>1. k \in 1..(Len(UsedBy(spc)) + 1)
    BY UsedFacts
  <2> QED
    BY <2>1, UsedFacts, TypesAre, TypesNumeric, ElementsAre
<1>2. InverseAt(spc, blk, k) <=> InverseFits(x.id, d, p, e * SizeOf[f], e * SizeOf[d])
  BY <1>1 DEF InverseAt
<1>3. x.id = "quantize" => p
  BY <1>1 DEF Params, Quantized
<1>4. x.id = "bit_shuffle" => e % 8 = 0
  BY <1>1 DEF Shuffled
<1>5. x.id \in CoreXforms
  BY <1>1
<1> HIDE DEF e, x, d, f, p
<1>6. CASE x.id = "quantize"
  <2>1. d = "f64" /\ f = "i16"
    BY <1>1, <1>6 DEF XformDtypes, XformDtype
  <2>2. (e * 2) % 2 = 0 /\ e * 8 = ((e * 2) \div 2) * 8
    BY <1>1
  <2> QED
    BY <1>2, <1>3, <1>6, <2>1, <2>2, Sizes DEF InverseFits
<1>7. CASE x.id = "zigzag"
  <2>1. d = "i16" /\ f = "u16"
    BY <1>1, <1>7 DEF XformDtypes, XformDtype
  <2>2. (e * 2) % 2 = 0
    BY <1>1
  <2> QED
    BY <1>2, <1>7, <2>1, <2>2, Sizes DEF InverseFits
<1>8. CASE x.id = "bit_shuffle"
  <2> DEFINE w == SizeOf[d]
  <2>1. f = d
    BY <1>1, <1>8 DEF XformDtype
  <2>2. (e * w) % w = 0 /\ (e * w) \div w = e /\ w \in {2, 4, 8}
    BY <1>1, NumericSize, WholeElements
  <2>3. 8 * w * CeilDiv(e, 8) = e * w
    <3>1. CeilDiv(e, 8) \in Nat /\ 8 * CeilDiv(e, 8) = e
      BY <1>1, <1>4, <1>8, Eights
    <3> HIDE DEF w
    <3>2. 8 * w * CeilDiv(e, 8) = (8 * CeilDiv(e, 8)) * w
      BY <2>2, <3>1, WholeElements
    <3> QED
      BY <3>1, <3>2
  <2> QED
    BY <1>2, <1>8, <2>1, <2>2, <2>3 DEF InverseFits
<1>9. CASE x.id = "byte_shuffle"
  <2>1. f = d
    BY <1>1, <1>9 DEF XformDtype
  <2> QED
    BY <1>2, <1>9, <2>1 DEF InverseFits
<1> QED
  BY <1>5, <1>6, <1>7, <1>8, <1>9 DEF CoreXforms

\* What the encoder counted at the end of the chain.
LEMMA CountAtEnd ==
    ASSUME NEW spc, NEW blk, CaseOK(spc, blk)
    PROVE  CountAt(spc, blk, Len(UsedBy(spc)) + 1) =
              IF Shuffled(spc) THEN 8 * CeilDiv(Elements(spc, blk), 8) ELSE Elements(spc, blk)
<1>1. (Len(UsedBy(spc)) + 1) - 1 = Len(UsedBy(spc))
  BY UsedFacts
<1> QED
  BY <1>1 DEF CountAt, Shuffled

\* A core model, or a plugin that keeps the type, with its residual stored.
LEMMA SameTypesInvert ==
    ASSUME NEW spc, NEW blk, CaseOK(spc, blk), Prepared(spc, blk), ~ LeftOut(spc, blk),
           spc.model # "narrowing"
    PROVE  Inverts(spc, blk) <=> Invertible(spc, blk)
<1> DEFINE n == Len(UsedBy(spc))
           t == TypesOf(spc, blk)
           w == WalkedTypes(spc, blk)
           e == Elements(spc, blk)
           c == CountAt(spc, blk, n + 1)
<1>1. /\ ModelStatus(spc.model, blk) = "ok" /\ TypesFit(spc, blk, n)
      /\ n \in Nat /\ n + 1 \in 1..(n + 1) /\ e \in Nat
  BY UsedFacts, ElementsAre DEF Prepared
<1>2. Invertible(spc, blk) <=> OnlyCore(spc) /\ (Shuffled(spc) => e % 8 = 0)
  BY DEF Invertible
<1>3. ASSUME OnlyCore(spc)
      PROVE  \A k \in 1..n : Ruled(spc, blk, k)
  <2> SUFFICES ASSUME NEW k \in 1..n
               PROVE  Ruled(spc, blk, k)
    OBVIOUS
  <2>1. UsedBy(spc)[k] \in CoreXforms /\ t[k] \in XformDtypes(UsedBy(spc)[k])
    BY <1>1, <1>3 DEF OnlyCore, TypesFit
  <2>2. UsedBy(spc)[k] = "quantize" => k \in Params(spc, blk)
    BY DEF Params, Quantized
  <2> HIDE DEF t
  <2> QED
    BY <2>1, <2>2 DEF Ruled, CoreXforms, XformDtypes, t
<1>4. OnlyCore(spc) => /\ \A k \in 1..(n + 1) : w[k] = t[k]
                       /\ \A k \in 1..n : SizeOf[w[k + 1]] # 0
  BY <1>1, <1>3, WalkAgrees
<1>5. OnlyCore(spc) =>
         (Uncompressed(spc, blk) = e * SizeOf[w[n + 1]] <=> (Shuffled(spc) => e % 8 = 0))
  <2> SUFFICES ASSUME OnlyCore(spc)
               PROVE  Uncompressed(spc, blk) = e * SizeOf[w[n + 1]]
                         <=> (Shuffled(spc) => e % 8 = 0)
    OBVIOUS
  <2> DEFINE s == SizeOf[t[n + 1]]
  <2>1. w[n + 1] = t[n + 1]
    BY <1>1, <1>4
  <2>2. s \in {2, 4, 8}
    BY <1>1, TypesNumeric, NumericSize
  <2>3. Uncompressed(spc, blk) = c * s
    BY DEF Uncompressed, StageAt
  <2>4. c \in Nat /\ c = IF Shuffled(spc) THEN 8 * CeilDiv(e, 8) ELSE e
    BY <1>1, CountIs, CountAtEnd
  <2>5. 8 * CeilDiv(e, 8) = e <=> e % 8 = 0
    BY <1>1, Eights
  <2> HIDE DEF s, c, e, w, t, n
  <2>6. c * s = e * s <=> c = e
    BY <1>1, <2>2, <2>4, WholeElements
  <2> QED
    BY <2>1, <2>3, <2>4, <2>5, <2>6 DEF s
<1>6. WalkPasses(spc, blk) => OnlyCore(spc)
  BY WalkGoesOn DEF WalkPasses, OnlyCore
<1>7. WalkPasses(spc, blk) <=> OnlyCore(spc) /\ (Shuffled(spc) => e % 8 = 0)
  <2>1. WalkPasses(spc, blk) <=> /\ \A k \in 1..n : SizeOf[w[k + 1]] # 0
                                 /\ Uncompressed(spc, blk) = e * SizeOf[w[n + 1]]
    BY DEF WalkPasses
  <2> HIDE DEF n, w, e
  <2> QED
    BY <1>4, <1>5, <1>6, <2>1
<1>8. WalkPasses(spc, blk) => InvertsDownTo(spc, blk, 0)
  <2> SUFFICES ASSUME WalkPasses(spc, blk), NEW k \in 0 + 1..n
               PROVE  InverseAt(spc, blk, k)
    BY DEF InvertsDownTo
  <2>1. k \in 1..n /\ k \in 1..(n + 1) /\ k + 1 \in 1..(n + 1)
    BY <1>1
  <2>2. UsedBy(spc)[k] \in CoreXforms /\ t[k] \in XformDtypes(UsedBy(spc)[k])
    BY <1>1, <1>6, <2>1 DEF OnlyCore, TypesFit
  <2>3. w[k] = t[k] /\ w[k + 1] = t[k + 1]
    BY <1>4, <1>6, <2>1
  <2> QED
    BY <1>1, <1>7, <2>1, <2>2, <2>3, OneInverts
<1> QED
  BY <1>2, <1>7, <1>8 DEF Inverts

\* A model that narrows: only what is empty comes back.
LEMMA NarrowedInverts ==
    ASSUME NEW spc, NEW blk, CaseOK(spc, blk), Prepared(spc, blk), ~ LeftOut(spc, blk),
           spc.model = "narrowing"
    PROVE  Inverts(spc, blk) <=> Invertible(spc, blk)
<1> DEFINE n == Len(UsedBy(spc))
           u == UsedBy(spc)
           t == TypesOf(spc, blk)
           w == WalkedTypes(spc, blk)
           e == Elements(spc, blk)
           c == CountAt(spc, blk, n + 1)
           z == SizeOf[blk.dtype]
           Wide == \A k \in 1..n : u[k] \in CoreXforms \ {"zigzag"}
                                   \/ SizeOf[w[k + 1]] # 0
           Shuffles == \A k \in 1..n : u[k] \in {"byte_shuffle", "bit_shuffle"}
<1>1. /\ ModelStatus(spc.model, blk) = "ok" /\ TypesFit(spc, blk, n)
      /\ n \in Nat /\ n + 1 \in 1..(n + 1) /\ e \in Nat
      /\ e = blk.n
  BY UsedFacts, ElementsAre DEF Prepared, Elements
<1>2. z \in {4, 8}
  BY <1>1, ModelTypes, Sizes
<1>3. Wide => /\ \A k \in 1..(n + 1) : w[k] = blk.dtype /\ t[k] = "i16"
              /\ Shuffles
  BY <1>1, WalkStaysWide
<1>4. Shuffles => OnlyCore(spc) /\ \A k \in 1..n : u[k] # "zigzag"
  BY DEF OnlyCore, CoreXforms
<1>5. OnlyCore(spc) /\ (\A k \in 1..n : u[k] # "zigzag") => Wide
  BY DEF OnlyCore
<1>6. Invertible(spc, blk) <=> Wide /\ e = 0
  <2>1. Invertible(spc, blk) <=>
           /\ OnlyCore(spc)
           /\ e = 0 /\ \A k \in 1..n : u[k] # "zigzag"
           /\ Shuffled(spc) => e % 8 = 0
    BY <1>1 DEF Invertible
  <2> HIDE DEF Wide, n, u, e
  <2>2. e = 0 => e % 8 = 0
    OBVIOUS
  <2> QED
    BY <1>3, <1>4, <1>5, <2>1, <2>2
<1>7. WalkPasses(spc, blk) <=> /\ \A k \in 1..n : SizeOf[w[k + 1]] # 0
                               /\ Uncompressed(spc, blk) = e * SizeOf[w[n + 1]]
  BY DEF WalkPasses
<1>8. Uncompressed(spc, blk) = c * SizeOf[t[n + 1]]
  BY DEF Uncompressed, StageAt
<1>9. c \in Nat /\ c = IF Shuffled(spc) THEN 8 * CeilDiv(e, 8) ELSE e
  BY <1>1, CountIs, CountAtEnd
<1>10. Wide => (Uncompressed(spc, blk) = e * SizeOf[w[n + 1]] <=> c * 2 = e * z)
  <2> HIDE DEF Wide, c, e, w, t, n
  <2> QED
    BY <1>1, <1>3, <1>8, Sizes
<1>11. ASSUME Wide, NEW k \in 1..n
       PROVE  InverseAt(spc, blk, k) <=>
                 (u[k] = "bit_shuffle" /\ e > 0 => 8 * CeilDiv(e, 8) = e)
  <2>1. k \in 1..(n + 1) /\ k + 1 \in 1..(n + 1)
    BY <1>1
  <2>2. w[k] = blk.dtype /\ w[k + 1] = blk.dtype /\ u[k] \in {"byte_shuffle", "bit_shuffle"}
    BY <1>3, <1>11, <2>1
  <2>3. InverseAt(spc, blk, k) <=>
           InverseFits(u[k], blk.dtype, k \in Params(spc, blk), e * z, e * z)
    BY <2>2 DEF InverseAt
  <2>4. /\ (e * z) % z = 0 /\ (e * z) \div z = e /\ (e * z = 0 <=> e = 0) /\ e * z \in Nat
        /\ CeilDiv(e, 8) \in Nat
    <3> HIDE DEF e, z
    <3>1. z \in {2, 4, 8} /\ e \in Nat
      BY <1>1, <1>2
    <3>2. CeilDiv(e, 8) \in Nat
      BY <3>1, Eights
    <3>3. (e * z) % z = 0 /\ (e * z) \div z = e /\ (e * z = 0 <=> e = 0) /\ e * z \in Nat
      BY <3>1, WholeElements
    <3> QED
      BY <3>2, <3>3
  <2>5. 8 * z * CeilDiv(e, 8) = (8 * CeilDiv(e, 8)) * z
    BY <1>2, <2>4, WholeElements
  <2>6. 8 * CeilDiv(e, 8) \in Nat
    BY <2>4
  <2>7. (8 * CeilDiv(e, 8)) * z = e * z <=> 8 * CeilDiv(e, 8) = e
    <3> DEFINE a == 8 * CeilDiv(e, 8)
    <3> HIDE DEF a, e, z
    <3> QED
      BY <1>1, <1>2, <2>6, WholeElements DEF a
  <2>8. CASE u[k] = "byte_shuffle"
    BY <2>3, <2>8 DEF InverseFits
  <2>9. CASE u[k] = "bit_shuffle"
    <3>1. InverseAt(spc, blk, k) <=>
             /\ (e * z) % z = 0
             /\ e * z > 0 => e * z = 8 * z * CeilDiv((e * z) \div z, 8)
      BY <2>3, <2>9 DEF InverseFits
    <3> DEFINE a == e * z
               b == 8 * CeilDiv(e, 8)
    <3>2. InverseAt(spc, blk, k) <=> (a > 0 => a = b * z)
      BY <2>4, <2>5, <3>1
    <3>3. a > 0 <=> e > 0
      BY <1>1, <2>4
    <3>4. a = b * z <=> b = e
      BY <2>7
    <3> HIDE DEF a, b, e, z
    <3> QED
      BY <2>9, <3>2, <3>3, <3>4 DEF b
  <2> QED
    BY <2>2, <2>8, <2>9
<1>12. (\A k \in 1..n : SizeOf[w[k + 1]] # 0) => Wide
  OBVIOUS
<1>13. Wide => \A k \in 1..n : SizeOf[w[k + 1]] # 0
  <2> SUFFICES ASSUME Wide, NEW k \in 1..n
               PROVE  SizeOf[w[k + 1]] # 0
    OBVIOUS
  <2>1. k + 1 \in 1..(n + 1)
    BY <1>1
  <2>2. w[k + 1] = blk.dtype
    BY <1>3, <2>1
  <2> QED
    BY <1>2, <2>2
<1>14. ASSUME Wide, e = 0
       PROVE  Inverts(spc, blk)
  <2>1. c = 0
    BY <1>9, <1>14, Eights
  <2>2. c * 2 = e * z
    BY <1>2, <1>14, <2>1
  <2>3. WalkPasses(spc, blk)
    BY <1>7, <1>10, <1>13, <1>14, <2>2
  <2>4. \A k \in 1..n : InverseAt(spc, blk, k)
    BY <1>11, <1>14
  <2> QED
    BY <1>1, <2>3, <2>4 DEF Inverts, InvertsDownTo
<1>15. ASSUME Inverts(spc, blk)
       PROVE  Wide /\ e = 0
  <2>1. Wide /\ WalkPasses(spc, blk)
    BY <1>7, <1>12, <1>15 DEF Inverts
  <2>2. c * 2 = e * z
    BY <1>7, <1>10, <2>1
  <2>3. Shuffled(spc) /\ e > 0 => 8 * CeilDiv(e, 8) = e
    <3> SUFFICES ASSUME NEW k \in 1..n, u[k] = "bit_shuffle", e > 0
                 PROVE  8 * CeilDiv(e, 8) = e
      BY DEF Shuffled
    <3>1. InverseAt(spc, blk, k)
      BY <1>1, <1>15 DEF Inverts, InvertsDownTo
    <3> QED
      BY <1>11, <2>1, <3>1
  <2>4. e > 0 => c = e
    BY <1>9, <2>3
  <2>5. e = 0
    <3> HIDE DEF c, e, z
    <3>1. CASE z = 4
      BY <1>1, <1>9, <2>2, <2>4, <3>1
    <3>2. CASE z = 8
      BY <1>1, <1>9, <2>2, <2>4, <3>2
    <3> QED
      BY <1>2, <3>1, <3>2
  <2> QED
    BY <2>1, <2>5
<1> QED
  BY <1>6, <1>14, <1>15

\* What the decoder can invert, for every chain and every block the encoder
\* takes.
LEMMA InvertibleInverts ==
    ASSUME NEW spc, NEW blk, CaseOK(spc, blk), Prepared(spc, blk)
    PROVE  Inverts(spc, blk) <=> Invertible(spc, blk)
  BY LeftOutInverts, SameTypesInvert, NarrowedInverts

----------------------------------------------------------------------------
(* The steps of the encoder.                                               *)

\* The chain starts from what the model left.
LEMMA StageFirst ==
    ASSUME NEW spc, NEW blk, CaseOK(spc, blk), ModelStatus(spc.model, blk) = "ok",
           ~ LeftOut(spc, blk)
    PROVE  ResidualBytes(spc.model, blk) = StageAt(spc, blk, 1)
<1>1. SubSeq(UsedBy(spc), 1, 1 - 1) = <<>>
  BY UsedFacts
<1> QED
  BY <1>1, ResidualIs, CountIs, TypesAre DEF StageAt, Bytes

\* A transform that succeeds was given a type it takes.
LEMMA XformTakes ==
    ASSUME NEW x, NEW d, NEW size, XformStatus(x, d, size) = "ok"
    PROVE  d \in XformDtypes(x.id)
<1> DEFINE checks == <<<<x.id = "quantize" /\ ~ x.params, "inval">>,
                       <<d \notin XformDtypes(x.id), "dtype">>,
                       <<x.id \in CoreXforms /\ size % SizeOf[d] # 0, "inval">>>>
<1>1. /\ Len(checks) = 3
      /\ checks[1][2] = "inval" /\ checks[2][2] = "dtype" /\ checks[3][2] = "inval"
  OBVIOUS
<1>2. checks[2][1] <=> d \notin XformDtypes(x.id)
  OBVIOUS
<1>3. FirstOf(checks) = "ok"
  BY DEF XformStatus
<1>4. \A i \in 1..3 : i = 1 \/ i = 2 \/ i = 3
  OBVIOUS
<1> HIDE DEF checks
<1>5. \A i \in 1..Len(checks) : checks[i][2] # "ok"
  BY <1>1, <1>4
<1>6. \A i \in 1..Len(checks) : ~ checks[i][1]
  <2>1. Len(checks) \in Nat
    BY <1>1
  <2> QED
    BY <1>3, <1>5, <2>1, FirstOfIs, Zenon
<1> QED
  BY <1>1, <1>2, <1>6

\* A call that ends without a record.
LEMMA EncEnds ==
    ASSUME EncPath, enc.pc # "done", UNCHANGED <<src, spec, out>>,
           EncFields \subseteq DOMAIN enc', enc'.pc = "done",
           enc'.bufs = enc.bufs, enc'.cur = enc.cur
    PROVE  EncPath'
<1>1. out = NoRecord
  BY DEF EncPath
<1>2. EncShape'
  BY DEF EncPath, EncShape
<1> QED
  BY <1>1, <1>2 DEF EncPath

\* So does one that goes to its cleanup label.
LEMMA EncCleanupEnds ==
    ASSUME EncPath, enc.pc # "done", NEW st, NEW held, NEW local, EncCleanup(st, held, local)
    PROVE  EncPath'
<1>1. /\ EncFields \subseteq DOMAIN enc' /\ enc'.pc = "done"
      /\ enc'.bufs = enc.bufs /\ enc'.cur = enc.cur
  BY DEF EncCleanup, EncPath, EncShape, EncFields
<1> QED
  BY <1>1, EncEnds DEF EncCleanup

\* The checks of tdc_encode_block.
LEMMA EncodePath ==
    ASSUME EncPath, Encode
    PROVE  EncPath'
<1> DEFINE checks == <<
               <<src.dtype = "string" /\ src.layout # "vector", "layout">>,
               <<~ Known("model", spec.model), "unsupported">>,
               <<\E k \in 1..Len(Coders) : ~ Known("entropy", Coders[k]), "unsupported">>,
               <<~ Sticky(spec.entropy), "inval">>>>
           st == FirstOf(checks)
<1>1. enc.pc = "idle" /\ enc = EncFrame
  BY DEF Encode, EncPath
<1>2. IF st = "ok" THEN EncContinue([enc EXCEPT !.pc = "model"]) ELSE EncReturn(st)
  BY DEF Encode
<1>3. CASE st # "ok"
  <2>1. EncReturn(st)
    BY <1>2, <1>3
  <2> HIDE DEF st
  <2>2. /\ EncFields \subseteq DOMAIN enc' /\ enc'.pc = "done"
        /\ enc'.bufs = enc.bufs /\ enc'.cur = enc.cur
    BY <2>1 DEF EncReturn, EncPath, EncShape, EncFields
  <2> QED
    BY <1>1, <2>1, <2>2, EncEnds DEF EncReturn
<1>4. CASE st = "ok"
  <2>1. Sticky(spec.entropy)
    <3>1. /\ Len(checks) = 4
          /\ checks[1][2] = "layout" /\ checks[2][2] = "unsupported"
          /\ checks[3][2] = "unsupported" /\ checks[4][2] = "inval"
      OBVIOUS
    <3>2. checks[4][1] <=> ~ Sticky(spec.entropy)
      OBVIOUS
    <3>3. \A i \in 1..4 : i = 1 \/ i = 2 \/ i = 3 \/ i = 4
      OBVIOUS
    <3> HIDE DEF checks
    <3>4. \A i \in 1..Len(checks) : checks[i][2] # "ok"
      BY <3>1, <3>3
    <3>5. \A i \in 1..Len(checks) : ~ checks[i][1]
      <4>1. Len(checks) \in Nat
        BY <3>1
      <4> QED
        BY <1>4, <3>4, <4>1, FirstOfIs, Zenon
    <3> QED
      BY <3>1, <3>2, <3>5
  <2> HIDE DEF st
  <2>2. enc' = [enc EXCEPT !.pc = "model"] /\ UNCHANGED <<src, spec, out>>
    BY <1>2, <1>4 DEF EncContinue
  <2>3. out = NoRecord
    BY <1>1 DEF EncPath
  <2>4. /\ EncShape' /\ enc'.pc = "model" /\ enc'.side_section = NoSection
        /\ enc'.i = 1 /\ enc'.cur = 0 /\ enc'.tlv = {} /\ enc'.payload = NoSection
    BY <1>1, <2>2 DEF EncFrame, EncShape, EncFields
  <2> QED
    BY <2>1, <2>2, <2>3, <2>4 DEF EncPath
<1> QED
  BY <1>3, <1>4

\* The checks of the model's dispatch, then what its encoder leaves.
LEMMA ModelEncodePath ==
    ASSUME CaseOK(spec, src), EncPath, ModelEncode
    PROVE  EncPath'
<1> DEFINE st == ModelStatus(spec.model, src)
           left == ResidualBytes(spec.model, src)
           zero == LeftOut(spec, src)
           dtype == EncoderDtype(spec.model, src)
           side == SideBytes(spec.model, src)
           next == [enc EXCEPT !.pc = IF zero THEN "side" ELSE "xform",
                               !.bufs[0] = left, !.dtype = dtype, !.side = side,
                               !.zero = zero, !.owned = {"b0", "side_meta"}]
<1>1. enc.pc = "model" /\ out = NoRecord
  BY DEF ModelEncode, EncPath
<1>3. CASE EncCleanup(st, {}, {})
  BY <1>1, <1>3, EncCleanupEnds
<1>4. CASE st = "ok" /\ EncContinue(next)
  <2>1. /\ EncShape /\ Sticky(spec.entropy) /\ enc.i = 1 /\ enc.cur = 0 /\ enc.tlv = {}
        /\ enc.payload = NoSection /\ enc.side_section = NoSection
    BY <1>1 DEF EncPath
  <2>2. UNCHANGED <<src, spec, out>> /\ enc' = next
    BY <1>4 DEF EncContinue
  <2>3. /\ DOMAIN next = DOMAIN enc
        /\ next.pc = IF zero THEN "side" ELSE "xform"
        /\ next.bufs[0] = left /\ DOMAIN next.bufs = DOMAIN enc.bufs
        /\ next.dtype = dtype /\ next.side = side /\ next.zero = zero
        /\ next.i = 1 /\ next.cur = 0 /\ next.tlv = {}
        /\ next.payload = NoSection /\ next.side_section = NoSection
    <3> HIDE DEF left, zero, dtype, side
    <3> QED
      BY <2>1 DEF EncShape, EncFields
  <2>4. zero => Params(spec, src) = {} /\ PayloadOf(spec, src) = NoSection
    BY DEF Params, PayloadOf
  <2>5. ~ zero => left = StageAt(spec, src, 1)
    BY <1>4, StageFirst
  <2>6. dtype = TypesOf(spec, src)[1]
    BY TypesAre
  <2>7. /\ 1 \in 1..(Len(UsedBy(spec)) + 1) /\ Quantized(spec, 1 - 1) = {}
        /\ TypesFit(spec, src, 1 - 1)
    BY UsedFacts DEF Quantized, TypesFit
  <2> HIDE DEF next, left, dtype, side
  <2>8. EncShape'
    BY <2>1, <2>2, <2>3 DEF EncShape
  <2>9. CASE zero
    BY <1>1, <1>4, <2>1, <2>2, <2>3, <2>4, <2>8, <2>9 DEF EncPath, side, dtype
  <2>10. CASE ~ zero
    BY <1>1, <1>4, <2>1, <2>2, <2>3, <2>5, <2>6, <2>7, <2>8, <2>10 DEF EncPath, side
  <2> QED
    BY <2>9, <2>10
<1>5. \/ EncCleanup(st, {}, {})
      \/ \E held \in SUBSET {"b0", "side_meta"} : EncCleanup("nomem", held, {})
      \/ st = "ok" /\ EncContinue(next)
  BY DEF ModelEncode, LeftOut
<1> QED
  BY <1>1, <1>3, <1>4, <1>5, EncCleanupEnds

\* One transform: the left goes one stage further.
LEMMA TransformStepPath ==
    ASSUME CaseOK(spec, src), EncPath, TransformStep
    PROVE  EncPath'
<1> DEFINE k == enc.i
           x == spec.xform[k]
           from == enc.bufs[enc.cur]
           to == 1 - enc.cur
           st == IF Known("xform", x.id) THEN XformStatus(x, enc.dtype, from.size)
                 ELSE "unsupported"
           made == Put(from, x.id, XformSize(x, enc.dtype, from.size))
           type == XformDtype(x, enc.dtype)
           tlv == IF x.id = "quantize" THEN enc.tlv \cup {k} ELSE enc.tlv
           owned == enc.owned \cup {Buf(to)}
                    \cup (IF x.id = "quantize" THEN {"xform_params"} ELSE {})
           next == [enc EXCEPT !.i = k + 1, !.cur = to, !.bufs[to] = made, !.dtype = type,
                               !.tlv = tlv, !.owned = owned]
           n == Len(UsedBy(spec))
<1>1. /\ enc.pc = "xform" /\ out = NoRecord /\ k <= Len(spec.xform) /\ x.id # None
      /\ EncShape
  BY DEF TransformStep, EncPath
<1>2. /\ ~ LeftOut(spec, src) /\ ModelStatus(spec.model, src) = "ok"
      /\ k \in 1..(n + 1) /\ enc.dtype = TypesOf(spec, src)[k] /\ from = StageAt(spec, src, k)
      /\ enc.tlv = Quantized(spec, k - 1) /\ TypesFit(spec, src, k - 1)
      /\ Sticky(spec.entropy) /\ enc.side_section = NoSection /\ enc.payload = NoSection
      /\ enc.zero = LeftOut(spec, src) /\ enc.side = SideBytes(spec.model, src)
  BY <1>1 DEF EncPath
<1>3. n \in Nat /\ k \in 1..n /\ k + 1 \in 1..(n + 1) /\ UsedBy(spec)[k] = x.id
  BY <1>1, <1>2, UsedFacts
<1>4. CASE st = "ok" /\ EncContinue(next)
  <2>1. enc.dtype \in XformDtypes(x.id)
    BY <1>4, XformTakes
  <2>2. made = StageAt(spec, src, k + 1)
    BY <1>2, <1>3, <2>1, StageNext
  <2>3. type = TypesOf(spec, src)[k + 1]
    BY <1>2, <1>3, TypesAre
  <2>4. tlv = Quantized(spec, (k + 1) - 1)
    <3>1. Quantized(spec, (k + 1) - 1) =
             Quantized(spec, k - 1) \cup (IF x.id = "quantize" THEN {k} ELSE {})
      BY <1>3 DEF Quantized
    <3> QED
      BY <1>2, <3>1
  <2>5. TypesFit(spec, src, (k + 1) - 1)
    <3> SUFFICES ASSUME NEW j \in 1..((k + 1) - 1)
                 PROVE  TypesOf(spec, src)[j] \in XformDtypes(UsedBy(spec)[j])
      BY DEF TypesFit
    <3>1. j = k \/ j \in 1..(k - 1)
      BY <1>3
    <3> QED
      BY <1>2, <1>3, <2>1, <3>1 DEF TypesFit
  <2>6. UNCHANGED <<src, spec, out>> /\ enc' = next
    BY <1>4 DEF EncContinue
  <2>7. to \in {0, 1}
    BY <1>1 DEF EncShape
  <2>8. /\ DOMAIN next = DOMAIN enc /\ next.pc = enc.pc /\ next.i = k + 1
        /\ next.cur = to /\ next.bufs[to] = made /\ DOMAIN next.bufs = DOMAIN enc.bufs
        /\ next.dtype = type /\ next.tlv = tlv
        /\ next.side = enc.side /\ next.zero = enc.zero
        /\ next.payload = enc.payload /\ next.side_section = enc.side_section
    <3> HIDE DEF made, type, tlv, owned, to, k
    <3> QED
      BY <1>1, <2>7 DEF EncShape, EncFields
  <2> HIDE DEF next, made, type, tlv, owned, to, k, n, x, from, st
  <2>9. EncShape'
    BY <1>1, <2>6, <2>7, <2>8 DEF EncShape
  <2>10. enc'.pc = "xform" /\ enc'.i = k + 1 /\ enc'.bufs[enc'.cur] = StageAt(spec, src, k + 1)
    BY <1>1, <2>2, <2>6, <2>8
  <2>11. /\ enc'.dtype = TypesOf(spec, src)[k + 1] /\ enc'.tlv = Quantized(spec, (k + 1) - 1)
         /\ k + 1 \in 1..(Len(UsedBy(spec)) + 1)
    BY <1>3, <2>3, <2>4, <2>6, <2>8 DEF n
  <2> QED
    BY <1>1, <1>2, <2>5, <2>6, <2>8, <2>9, <2>10, <2>11 DEF EncPath
<1>5. \/ EncCleanup(st, {}, {})
      \/ \E held \in {{}, {Buf(to)}} : EncCleanup("nomem", held, {})
      \/ st = "ok" /\ EncContinue(next)
  BY DEF TransformStep
<1> QED
  BY <1>1, <1>4, <1>5, EncCleanupEnds

\* The end of the chain.
LEMMA TransformsDonePath ==
    ASSUME CaseOK(spec, src), EncPath, TransformsDone
    PROVE  EncPath'
<1> DEFINE n == Len(UsedBy(spec))
           next == [enc EXCEPT !.pc = "entropy"]
<1>1. /\ enc.pc = "xform" /\ out = NoRecord /\ EncShape
      /\ enc.i <= Len(spec.xform) => spec.xform[enc.i].id = None
  BY DEF TransformsDone, EncPath
<1>2. /\ ~ LeftOut(spec, src) /\ ModelStatus(spec.model, src) = "ok"
      /\ enc.i \in 1..(n + 1) /\ enc.bufs[enc.cur] = StageAt(spec, src, enc.i)
      /\ enc.tlv = Quantized(spec, enc.i - 1) /\ TypesFit(spec, src, enc.i - 1)
      /\ Sticky(spec.entropy) /\ enc.side_section = NoSection /\ enc.payload = NoSection
      /\ enc.zero = LeftOut(spec, src) /\ enc.side = SideBytes(spec.model, src)
  BY <1>1 DEF EncPath
<1>3. n \in Nat /\ enc.i = n + 1 /\ enc.i - 1 = n
  BY <1>1, <1>2, UsedFacts
<1>4. enc.tlv = Params(spec, src) /\ TypesFit(spec, src, n)
  BY <1>2, <1>3 DEF Params
<1>5. UNCHANGED <<src, spec, out>> /\ enc' = next
  BY DEF TransformsDone, EncContinue
<1>6. /\ DOMAIN next = DOMAIN enc /\ next.pc = "entropy"
      /\ next.cur = enc.cur /\ next.bufs = enc.bufs /\ next.tlv = enc.tlv
      /\ next.side = enc.side /\ next.zero = enc.zero
      /\ next.payload = enc.payload /\ next.side_section = enc.side_section
  BY <1>1 DEF EncShape, EncFields
<1> HIDE DEF next
<1>7. EncShape'
  BY <1>1, <1>5, <1>6 DEF EncShape
<1> QED
  BY <1>1, <1>2, <1>3, <1>4, <1>5, <1>6, <1>7 DEF EncPath

\* The coders of the payload.
LEMMA EntropyEncodePath ==
    ASSUME CaseOK(spec, src), EncPath, EntropyEncode
    PROVE  EncPath'
<1> DEFINE payload == Section(Coders, enc.bufs[enc.cur])
           next == [enc EXCEPT !.pc = "side", !.payload = payload,
                               !.owned = enc.owned \cup {"payload"}]
<1>1. enc.pc = "entropy" /\ out = NoRecord /\ EncShape
  BY DEF EntropyEncode, EncPath
<1>2. /\ ~ LeftOut(spec, src) /\ ModelStatus(spec.model, src) = "ok"
      /\ enc.bufs[enc.cur] = StageAt(spec, src, Len(UsedBy(spec)) + 1)
      /\ enc.tlv = Params(spec, src) /\ TypesFit(spec, src, Len(UsedBy(spec)))
      /\ Sticky(spec.entropy) /\ enc.side_section = NoSection
      /\ enc.zero = LeftOut(spec, src) /\ enc.side = SideBytes(spec.model, src)
  BY <1>1 DEF EncPath
<1>3. CASE EncContinue(next)
  <2>1. payload = PayloadOf(spec, src)
    BY <1>2 DEF PayloadOf, Coders, CodersOf
  <2>2. UNCHANGED <<src, spec, out>> /\ enc' = next
    BY <1>3 DEF EncContinue
  <2>3. /\ DOMAIN next = DOMAIN enc /\ next.pc = "side" /\ next.payload = payload
        /\ next.cur = enc.cur /\ next.bufs = enc.bufs /\ next.tlv = enc.tlv
        /\ next.side = enc.side /\ next.zero = enc.zero
        /\ next.side_section = enc.side_section
    <3> HIDE DEF payload
    <3> QED
      BY <1>1 DEF EncShape, EncFields
  <2> HIDE DEF next, payload
  <2>4. EncShape'
    BY <1>1, <2>2, <2>3 DEF EncShape
  <2> QED
    BY <1>1, <1>2, <2>1, <2>2, <2>3, <2>4 DEF EncPath
<1>4. EncCleanup("nomem", {"payload"}, {}) \/ EncContinue(next)
  BY DEF EntropyEncode
<1> QED
  BY <1>1, <1>3, <1>4, EncCleanupEnds

\* What a step of the side metadata leaves as it was.
SideStands ==
    /\ EncShape' /\ UNCHANGED <<src, spec, out>>
    /\ enc'.cur = enc.cur /\ enc'.bufs = enc.bufs /\ enc'.tlv = enc.tlv
    /\ enc'.zero = enc.zero /\ enc'.payload = enc.payload /\ enc'.dtype = enc.dtype

\* The two stages of the side metadata.
LEMMA SidePath ==
    ASSUME CaseOK(spec, src), EncPath, PackSide \/ SideNeedsNoPacking \/ EncodeSide
    PROVE  EncPath'
<1> DEFINE side == SideBytes(spec.model, src)
           packed == Put(enc.side, "pack", PackedSize(enc.side.size))
           section == Section(Coders, enc.side)
           past == IF enc.side.size > 0 THEN "side_entropy" ELSE "assemble"
           pack == [enc EXCEPT !.pc = "side_entropy", !.side = packed]
           skip == [enc EXCEPT !.pc = past]
           code == [enc EXCEPT !.pc = "assemble", !.side_section = section]
<1>1. /\ enc.pc \in {"side", "side_entropy"} /\ out = NoRecord /\ EncShape
      /\ enc.pc = "side" => enc.side = side
      /\ enc.side_section = NoSection
      /\ enc.pc = "side_entropy" => /\ enc.side = PackedSide(spec, src)
                                    /\ PackedSide(spec, src).size > 0
  BY DEF PackSide, SideNeedsNoPacking, EncodeSide, EncPath
<1>2. /\ ModelStatus(spec.model, src) = "ok" /\ Sticky(spec.entropy)
      /\ enc.zero = LeftOut(spec, src)
      /\ ~ LeftOut(spec, src) =>
            /\ TypesFit(spec, src, Len(UsedBy(spec)))
            /\ enc.bufs[enc.cur] = StageAt(spec, src, Len(UsedBy(spec)) + 1)
      /\ LeftOut(spec, src) => enc.dtype = EncoderDtype(spec.model, src)
      /\ enc.tlv = Params(spec, src) /\ enc.payload = PayloadOf(spec, src)
  BY <1>1 DEF EncPath
<1>3. CASE enc.pc = "side" /\ enc.side.size > 0 /\ SidePacks(spec.model) /\ EncContinue(pack)
  <2>1. packed = PackedSide(spec, src) /\ PackedSide(spec, src).size > 0
    BY <1>1, <1>3, SideIs DEF PackedSide
  <2>2. SideStands /\ enc'.pc = "side_entropy" /\ enc'.side = packed
        /\ enc'.side_section = NoSection
    <3> HIDE DEF packed
    <3> QED
      BY <1>1, <1>3 DEF EncContinue, SideStands, EncShape, EncFields
  <2> HIDE DEF packed
  <2> QED
    BY <1>1, <1>2, <2>1, <2>2 DEF EncPath, SideStands
<1>4. CASE /\ enc.pc = "side" /\ (enc.side.size = 0 \/ ~ SidePacks(spec.model))
           /\ EncContinue(skip)
  <2>1. SideStands /\ enc'.pc = past /\ enc'.side = side /\ enc'.side_section = NoSection
    <3> HIDE DEF past
    <3> QED
      BY <1>1, <1>4 DEF EncContinue, SideStands, EncShape, EncFields, past
  <2>2. side = PackedSide(spec, src)
    BY <1>1, <1>4 DEF PackedSide
  <2>3. enc.side.size > 0 => past = "side_entropy" /\ PackedSide(spec, src).size > 0
    BY <1>1, <1>4, <2>2
  <2>4. ~ (enc.side.size > 0) => /\ past = "assemble" /\ SideSection(spec, src) = NoSection
    BY <1>1, <1>4, <2>2 DEF SideSection
  <2> HIDE DEF past, side
  <2> QED
    BY <1>1, <1>2, <2>1, <2>2, <2>3, <2>4 DEF EncPath, SideStands
<1>5. CASE enc.pc = "side_entropy" /\ EncContinue(code)
  <2>1. section = SideSection(spec, src)
    BY <1>1, <1>5 DEF SideSection, Coders, CodersOf
  <2>2. SideStands /\ enc'.pc = "assemble" /\ enc'.side = enc.side
        /\ enc'.side_section = section
    <3> HIDE DEF section
    <3> QED
      BY <1>1, <1>5 DEF EncContinue, SideStands, EncShape, EncFields
  <2> HIDE DEF section
  <2> QED
    BY <1>1, <1>2, <1>5, <2>1, <2>2 DEF EncPath, SideStands
<1>6. \/ enc.pc = "side" /\ enc.side.size > 0 /\ SidePacks(spec.model) /\ EncContinue(pack)
      \/ enc.pc = "side" /\ (enc.side.size = 0 \/ ~ SidePacks(spec.model)) /\ EncContinue(skip)
      \/ enc.pc = "side_entropy" /\ EncContinue(code)
      \/ EncCleanup("nomem", {}, {"packed"})
      \/ EncCleanup("nomem", {}, {"side_enc"})
  BY DEF PackSide, SideNeedsNoPacking, EncodeSide
<1>7. enc.pc # "done"
  BY <1>1
<1> QED
  BY <1>3, <1>4, <1>5, <1>6, <1>7, EncCleanupEnds

\* The record is Written.
LEMMA AssemblePath ==
    ASSUME CaseOK(spec, src), EncPath, Assemble
    PROVE  EncPath'
<1>1. enc.pc = "assemble" /\ out = NoRecord /\ EncShape
  BY DEF Assemble, EncPath
<1>2. /\ ModelStatus(spec.model, src) = "ok" /\ Sticky(spec.entropy)
      /\ enc.zero = LeftOut(spec, src)
      /\ ~ LeftOut(spec, src) =>
            /\ TypesFit(spec, src, Len(UsedBy(spec)))
            /\ enc.bufs[enc.cur] = StageAt(spec, src, Len(UsedBy(spec)) + 1)
      /\ LeftOut(spec, src) => enc.dtype = EncoderDtype(spec.model, src)
      /\ enc.tlv = Params(spec, src) /\ enc.payload = PayloadOf(spec, src)
      /\ enc.side = PackedSide(spec, src) /\ enc.side_section = SideSection(spec, src)
  BY <1>1 DEF EncPath
<1>3. CASE out' = Record /\ enc' = [enc EXCEPT !.pc = "done", !.owned = @ \ EncScratch]
           /\ UNCHANGED <<src, spec>>
  <2>1. Prepared(spec, src)
    BY <1>2 DEF Prepared
  <2>2. (IF enc.zero
         THEN (IF spec.model = "sparse_zero_1d" THEN Nonzero(src) ELSE src.n) * SizeOf[enc.dtype]
         ELSE enc.bufs[enc.cur].size) = Uncompressed(spec, src)
    BY <1>2 DEF Uncompressed, Elements
  <2>3. Record = Written(spec, src)
    BY <1>2, <2>2 DEF Record, Written
  <2>4. EncShape' /\ enc'.pc = "done"
    BY <1>1, <1>3 DEF EncShape, EncFields
  <2> QED
    BY <1>3, <2>1, <2>3, <2>4 DEF EncPath
<1>4. \/ EncCleanup("nomem", {}, {})
      \/ out' = Record /\ enc' = [enc EXCEPT !.pc = "done", !.owned = @ \ EncScratch]
         /\ UNCHANGED <<src, spec>>
  BY DEF Assemble
<1> QED
  BY <1>1, <1>3, <1>4, EncCleanupEnds

\* The encoder keeps to its path.
LEMMA EncoderPath ==
    ASSUME CaseOK(spec, src), EncPath, EncoderNext
    PROVE  EncPath'
  BY EncodePath, ModelEncodePath, TransformStepPath, TransformsDonePath,
     EntropyEncodePath, SidePath, AssemblePath DEF EncoderNext

----------------------------------------------------------------------------
(* The steps of the decoder.                                               *)

\* What the decoder reads in the record.
LEMMA RecordIs ==
    ASSUME WirePath, wire # NoWire
    PROVE  /\ rec.model_id = spec.model /\ rec.xform_ids = XformIds(spec.xform)
           /\ rec.entropy_ids = spec.entropy
           /\ rec.dtype = src.dtype /\ rec.layout = src.layout /\ rec.n = src.n
           /\ rec.has_validity = src.validity
           /\ rec.validity_size = IF src.validity THEN ValidityBytes(src.n) ELSE 0
           /\ rec.zero_residual = LeftOut(spec, src)
           /\ rec.uncompressed_size = Uncompressed(spec, src)
           /\ rec.xform_params = Params(spec, src) /\ rec.payload = PayloadOf(spec, src)
           /\ wire.legacy => /\ rec.side_raw = SideBytes(spec.model, src).size
                             /\ rec.side_meta = Section(<<>>, SideBytes(spec.model, src))
           /\ ~ wire.legacy => /\ rec.side_raw = PackedSide(spec, src).size
                               /\ rec.side_meta = SideSection(spec, src)
           /\ DecCoders = CodersOf(spec) /\ DecXforms = UsedBy(spec)
<1> DEFINE w == Written(spec, src)
           raw == SideBytes(spec.model, src).size
           meta == Section(<<>>, SideBytes(spec.model, src))
           q == [w EXCEPT !.side_raw = raw]
           o == [q EXCEPT !.side_meta = meta]
<1>1. /\ w.model_id = spec.model /\ w.xform_ids = XformIds(spec.xform)
      /\ w.entropy_ids = spec.entropy
      /\ w.dtype = src.dtype /\ w.layout = src.layout /\ w.n = src.n
      /\ w.has_validity = src.validity
      /\ w.validity_size = IF src.validity THEN ValidityBytes(src.n) ELSE 0
      /\ w.zero_residual = LeftOut(spec, src)
      /\ w.uncompressed_size = Uncompressed(spec, src)
      /\ w.xform_params = Params(spec, src) /\ w.payload = PayloadOf(spec, src)
      /\ w.side_raw = PackedSide(spec, src).size
      /\ w.side_meta = SideSection(spec, src)
  BY DEF Written
<1>2. DOMAIN w = {"model_id", "xform_ids", "entropy_ids", "dtype", "layout", "n",
                  "has_validity", "zero_residual", "lossy", "uncompressed_size",
                  "side_raw", "side_meta", "xform_params", "payload", "validity_size"}
  BY DEF Written
<1>3. AsOlder(w) = o
  BY DEF AsOlder
<1> HIDE DEF w, raw, meta
<1>4. /\ DOMAIN q = DOMAIN w /\ q.side_raw = raw
      /\ \A f \in DOMAIN w : f # "side_raw" => q[f] = w[f]
  BY <1>2
<1> HIDE DEF q
<1>5. /\ DOMAIN o = DOMAIN w /\ o.side_raw = raw /\ o.side_meta = meta
      /\ \A f \in DOMAIN w : f \notin {"side_raw", "side_meta"} => o[f] = w[f]
  BY <1>2, <1>4
<1> HIDE DEF o
<1>6. rec = IF wire.legacy THEN o ELSE w
  BY <1>3 DEF WirePath, rec, w
<1>7. rec.xform_ids = XformIds(spec.xform) /\ rec.entropy_ids = spec.entropy
  BY <1>1, <1>2, <1>5, <1>6
<1>8. DecCoders = CodersOf(spec) /\ DecXforms = UsedBy(spec)
  BY <1>7 DEF DecCoders, DecXforms, CodersOf, UsedBy
<1>9. wire.legacy => rec.side_raw = raw /\ rec.side_meta = meta
  BY <1>5, <1>6
<1>10. /\ rec.model_id = w.model_id /\ rec.dtype = w.dtype /\ rec.layout = w.layout
       /\ rec.n = w.n /\ rec.has_validity = w.has_validity
       /\ rec.validity_size = w.validity_size /\ rec.zero_residual = w.zero_residual
       /\ rec.uncompressed_size = w.uncompressed_size
       /\ rec.xform_params = w.xform_params /\ rec.payload = w.payload
  BY <1>2, <1>5, <1>6
<1>11. ~ wire.legacy => rec = w
  BY <1>6
<1> QED
  BY <1>1, <1>7, <1>8, <1>9, <1>10, <1>11 DEF raw, meta

\* The three ways a decode returns leave its frame in shape.
LEMMA EndsInShape ==
    ASSUME DecShape, dec.pc # "idle"
    PROVE  /\ \A st, held : DecCleanup(st, held) =>
                 DecShape' /\ dec'.pc = "returned" /\ dec'.status = st
           /\ \A st : DecReturn(st) => DecShape' /\ dec'.pc = "returned" /\ dec'.status = st
           /\ \A value, memory : DecSucceed(value, memory) =>
                 /\ DecShape' /\ dec'.pc = "returned" /\ dec'.status = dec.status
                 /\ dec'.value = value
<1>1. ASSUME NEW st, NEW held, DecCleanup(st, held)
      PROVE  DecShape' /\ dec'.pc = "returned" /\ dec'.status = st
  BY <1>1 DEF DecShape, DecFields, DecCleanup
<1>2. ASSUME NEW st, DecReturn(st)
      PROVE  DecShape' /\ dec'.pc = "returned" /\ dec'.status = st
  BY <1>2 DEF DecShape, DecFields, DecReturn
<1>3. ASSUME NEW value, NEW memory, DecSucceed(value, memory)
      PROVE  /\ DecShape' /\ dec'.pc = "returned" /\ dec'.status = dec.status
             /\ dec'.value = value
  BY <1>3 DEF DecShape, DecFields, DecSucceed
<1> QED
  BY <1>1, <1>2, <1>3


\* The locals of the decoder stay a frame of their kind.
LEMMA DecoderShape ==
    ASSUME DecShape, CaseOK(spec, src), WirePath, wire # NoWire, DecoderNext
    PROVE  DecShape'
<1>1. CASE DecodeSide
  <2>1. CASE \E st, held : DecCleanup(st, held)
    BY <1>1, <2>1, EndsInShape DEF DecodeSide
  <2>2. CASE \E side : DecContinue([dec EXCEPT !.pc = "params", !.side = side])
    BY <1>1, <2>2 DEF DecodeSide, DecContinue, DecShape, DecFields
  <2>3. CASE \E side, owned : DecContinue([dec EXCEPT !.pc = "params", !.side = side, !.owned = owned])
    BY <1>1, <2>3 DEF DecodeSide, DecContinue, DecShape, DecFields
  <2> QED
    BY <1>1, <2>1, <2>2, <2>3, Zenon DEF DecodeSide
<1>2. CASE ParseParams
  <2>1. dec.pc = "params"
    BY <1>2 DEF ParseParams
  <2>2. CASE DecReturn("corrupt")
    BY <2>1, <2>2, EndsInShape
  <2>3. CASE DecContinue([dec EXCEPT !.pc = "walk"])
    BY <2>1, <2>3 DEF DecContinue, DecShape, DecFields
  <2> QED
    BY <1>2, <2>2, <2>3 DEF ParseParams
<1>3. CASE Walk
  <2>1. CASE \E st, held : DecCleanup(st, held)
    BY <1>3, <2>1, EndsInShape DEF Walk
  <2>2. CASE \E type, len : DecContinue([dec EXCEPT !.pc = "entropy", !.rdtype = type, !.len = len])
    BY <1>3, <2>2 DEF Walk, DecContinue, DecShape, DecFields
  <2> QED
    BY <1>3, <2>1, <2>2, Zenon DEF Walk
<1>4. CASE EntropyDecode
  <2> DEFINE ready == [dec EXCEPT !.owned = dec.owned \cup {"b0", "b1"}]
             cur == Len(DecCoders) % 2
  <2>1. dec.pc = "entropy" /\ DecFields \subseteq DOMAIN ready /\ {0, 1} \subseteq DOMAIN ready.bufs
        /\ ready.cur = 0 /\ ready.status = "ok" /\ cur \in {0, 1}
    <3>1. Len(DecCoders) \in Nat
      BY RecordIs, CoderFacts
    <3> QED
      BY <1>4, <3>1 DEF EntropyDecode, DecShape, DecFields
  <2> HIDE DEF ready, cur
  <2>2. CASE \E st, held : DecCleanup(st, held)
    BY <1>4, <2>2, EndsInShape DEF EntropyDecode
  <2>3. CASE \E b : DecContinue([ready EXCEPT !.pc = "hook", !.bufs[0] = b])
    BY <2>1, <2>3 DEF DecContinue, DecShape, DecFields
  <2>4. CASE \E b, i : DecContinue([ready EXCEPT !.pc = "xform", !.cur = cur, !.i = i, !.bufs[cur] = b])
    BY <2>1, <2>4 DEF DecContinue, DecShape, DecFields
  <2> QED
    BY <1>4, <2>2, <2>3, <2>4, Zenon DEF EntropyDecode, ready, cur
<1>5. CASE ReverseStep
  <2>1. dec.pc = "xform" /\ 1 - dec.cur \in {0, 1} /\ {0, 1} \subseteq DOMAIN dec.bufs
    BY <1>5 DEF ReverseStep, DecShape
  <2>2. CASE \E st, held : DecCleanup(st, held)
    BY <1>5, <2>2, EndsInShape DEF ReverseStep
  <2>3. CASE \E b : DecContinue([dec EXCEPT !.i = @ - 1, !.cur = 1 - dec.cur, !.bufs[1 - dec.cur] = b])
    <3> DEFINE to == 1 - dec.cur
               i == dec.i - 1
    <3> HIDE DEF to, i
    <3>1. \E b : DecContinue([dec EXCEPT !.i = i, !.cur = to, !.bufs[to] = b])
      BY <2>3 DEF to, i
    <3> QED
      BY <2>1, <3>1 DEF DecContinue, DecShape, DecFields, to
  <2> QED
    BY <1>5, <2>2, <2>3, Zenon DEF ReverseStep
<1>6. CASE TransformsUndone \/ NoHook
  BY <1>6 DEF TransformsUndone, NoHook, DecContinue, DecShape, DecFields
<1>7. CASE VarlenHook
  <2>1. CASE \E st, held : DecCleanup(st, held)
    BY <1>7, <2>1, EndsInShape DEF VarlenHook
  <2>2. CASE \E parts : DecContinue([dec EXCEPT !.pc = "model", !.caller = parts])
    BY <1>7, <2>2 DEF VarlenHook, DecContinue, DecShape, DecFields
  <2> QED
    BY <1>7, <2>1, <2>2, Zenon DEF VarlenHook
<1>8. CASE DictHook
  <2>1. CASE (\E st, held : DecCleanup(st, held)) \/ (\E v, m : DecSucceed(v, m))
    BY <1>8, <2>1, EndsInShape DEF DictHook
  <2>2. CASE \E landed : dec' = [dec EXCEPT !.pc = "returned", !.status = "nomem",
                                          !.owned = @ \ DecScratch, !.caller = landed]
    BY <1>8, <2>2 DEF DictHook, DecShape, DecFields
  <2> QED
    BY <1>8, <2>1, <2>2, Zenon DEF DictHook
<1>9. CASE ModelDecode
  BY <1>9, EndsInShape DEF ModelDecode
<1>10. CASE EntryReturn
  BY <1>10 DEF EntryReturn, DecShape, DecFields
<1> QED
  BY <1>1, <1>2, <1>3, <1>4, <1>5, <1>6, <1>7, <1>8, <1>9, <1>10 DEF DecoderNext

\* A decoder at work on an unharmed record that was written for spec and src.
DecCtx ==
    /\ CaseOK(spec, src) /\ Prepared(spec, src)
    /\ WirePath /\ wire # NoWire /\ wire.harm = None
    /\ DecShape

\* What can be read is settled before the decode begins.
LEMMA SameReadable ==
    ASSUME UNCHANGED <<slots, src, spec>>, asked'.entry = asked.entry
    PROVE  Readable' = Readable /\ AllKnown' = AllKnown /\ EntryFits' = EntryFits
<1>1. AllKnown' = AllKnown
  BY DEF AllKnown, Known
<1>2. EntryFits' = EntryFits
  BY DEF EntryFits
<1> QED
  BY <1>1, <1>2 DEF Readable

\* A call that fails has a reason to.
LEMMA FailsWell ==
    ASSUME UNCHANGED <<slots, src, spec, asked>>, dec'.pc = "returned",
           dec'.status # "ok",
           dec'.status # "nomem" /\ asked.dst = Expected => ~ Readable
    PROVE  DecGood'
  BY SameReadable DEF DecGood, Expected

\* The checks a decode makes before any buffer exists.
DecodeChecks(entry, dst) ==
    <<<<entry = "varlen" /\ dst.dtype # "string", "dtype">>,
      <<wire.harm = "short", "corrupt">>,
      <<entry = "dict" /\ rec.model_id # "dict_1d", "unsupported">>,
      <<wire.harm = "header" \/ ~ HeaderValid(rec), "corrupt">>,
      <<entry # "dict" /\ dst.dtype # rec.dtype, "dtype">>,
      <<entry # "dict" /\ dst.layout # rec.layout, "layout">>,
      <<entry # "dict" /\ dst.n # rec.n, "shape">>,
      <<~ (entry # "fixed") /\ rec.n > 0 /\ ~ dst.data, "inval">>,
      <<~ Known("model", rec.model_id), "unsupported">>,
      <<\E k \in 1..Len(DecCoders) : ~ Known("entropy", DecCoders[k]), "unsupported">>>>

\* The first check that applies decides.
LEMMA DecodeIs ==
    ASSUME NEW entry, NEW dst, Decode(entry, dst)
    PROVE  /\ dec.pc = "idle"
           /\ IF FirstOf(DecodeChecks(entry, dst)) = "ok"
              THEN DecContinue([dec EXCEPT !.pc = "side", !.entry = entry])
              ELSE DecReturn(FirstOf(DecodeChecks(entry, dst)))
  BY DEF Decode, DecodeChecks

\* The checks of the entry points and of the header.
LEMMA DecodeGood ==
    ASSUME DecCtx, NEW entry, NEW dst, Decode(entry, dst),
           asked' = [entry |-> entry, dst |-> dst],
           UNCHANGED <<slots, src, spec>>
    PROVE  DecShape' /\ DecGood'
<1> DEFINE checks == DecodeChecks(entry, dst)
           st == FirstOf(checks)
<1>1. /\ Len(checks) = 10
      /\ checks[1][2] = "dtype" /\ checks[2][2] = "corrupt" /\ checks[3][2] = "unsupported"
      /\ checks[4][2] = "corrupt" /\ checks[5][2] = "dtype" /\ checks[6][2] = "layout"
      /\ checks[7][2] = "shape" /\ checks[8][2] = "inval" /\ checks[9][2] = "unsupported"
      /\ checks[10][2] = "unsupported"
  BY DEF DecodeChecks
<1>2. /\ checks[1][1] <=> entry = "varlen" /\ dst.dtype # "string"
      /\ checks[2][1] <=> wire.harm = "short"
      /\ checks[3][1] <=> entry = "dict" /\ rec.model_id # "dict_1d"
      /\ checks[4][1] <=> wire.harm = "header" \/ ~ HeaderValid(rec)
      /\ checks[5][1] <=> entry # "dict" /\ dst.dtype # rec.dtype
      /\ checks[6][1] <=> entry # "dict" /\ dst.layout # rec.layout
      /\ checks[7][1] <=> entry # "dict" /\ dst.n # rec.n
      /\ checks[8][1] <=> ~ (entry # "fixed") /\ rec.n > 0 /\ ~ dst.data
      /\ checks[9][1] <=> ~ Known("model", rec.model_id)
      /\ checks[10][1] <=> \E k \in 1..Len(DecCoders) : ~ Known("entropy", DecCoders[k])
  BY DEF DecodeChecks
<1>3. /\ dec.pc = "idle" /\ dec = DecFrame
      /\ IF st = "ok" THEN DecContinue([dec EXCEPT !.pc = "side", !.entry = entry])
         ELSE DecReturn(st)
  BY DecodeIs DEF DecCtx, DecShape
<1> HIDE DEF checks
<1>4. \A i \in 1..10 : i = 1 \/ i = 2 \/ i = 3 \/ i = 4 \/ i = 5 \/ i = 6 \/ i = 7
                          \/ i = 8 \/ i = 9 \/ i = 10
  OBVIOUS
<1>5. st = "ok" <=> \A i \in 1..10 : ~ checks[i][1]
  <2>1. \A i \in 1..Len(checks) : checks[i][2] # "ok"
    BY <1>1, <1>4
  <2>2. Len(checks) \in Nat
    BY <1>1
  <2>3. st = "ok" <=> \A i \in 1..Len(checks) : ~ checks[i][1]
    BY <2>1, <2>2, FirstOfIs, Zenon
  <2> QED
    BY <1>1, <2>3
<1>6. HeaderValid(rec) <=> (src.validity => src.n > 0) /\ Sticky(XformIds(spec.xform))
  <2>1. src.validity => (ValidityBytes(src.n) # 0 <=> src.n > 0)
    <3>1. src.n \in Nat
      BY DEF DecCtx, CaseOK
    <3> QED
      BY <3>1 DEF ValidityBytes, CeilDiv
  <2>2. src.validity \in BOOLEAN /\ Sticky(spec.entropy)
    BY DEF DecCtx, CaseOK, Prepared
  <2>3. /\ rec.has_validity = src.validity /\ rec.n = src.n
        /\ rec.validity_size = IF src.validity THEN ValidityBytes(src.n) ELSE 0
        /\ rec.xform_ids = XformIds(spec.xform) /\ rec.entropy_ids = spec.entropy
    BY RecordIs DEF DecCtx
  <2> QED
    BY <2>1, <2>2, <2>3 DEF HeaderValid
<1>7. /\ rec.model_id = spec.model /\ rec.dtype = src.dtype /\ rec.layout = src.layout
      /\ rec.n = src.n /\ DecCoders = CodersOf(spec)
      /\ wire.harm = None /\ src.n \in Nat
  BY RecordIs DEF DecCtx, CaseOK
<1>8. asked'.entry = entry /\ asked'.dst = dst /\ Expected' = Expected
  BY DEF Expected
<1>9. EntryFits' <=> /\ entry = "varlen" => src.dtype = "string"
                     /\ entry = "dict" => spec.model = "dict_1d"
  BY <1>8 DEF EntryFits
<1>10. AllKnown' <=> /\ Known("model", spec.model)
                     /\ \A k \in 1..Len(CodersOf(spec)) : Known("entropy", CodersOf(spec)[k])
  BY DEF AllKnown, Known
<1> HIDE DEF st
<1>11. CASE st = "ok"
  <2>1. \A i \in 1..10 : ~ checks[i][1]
    BY <1>5, <1>11
  <2>2. /\ ~ checks[1][1] /\ ~ checks[3][1] /\ ~ checks[4][1] /\ ~ checks[5][1]
        /\ ~ checks[9][1] /\ ~ checks[10][1]
    BY <2>1
  <2>3. EntryFits' /\ AllKnown'
    BY <1>2, <1>7, <1>9, <1>10, <2>2
  <2>4. (src.validity => src.n > 0) /\ Sticky(XformIds(spec.xform))
    BY <1>2, <1>6, <2>2
  <2>5. dec' = [DecFrame EXCEPT !.pc = "side", !.entry = entry]
    BY <1>3, <1>11 DEF DecContinue
  <2>6. DecShape' /\ dec'.pc = "side"
    BY <2>5 DEF DecShape, DecFrame, DecFields
  <2> QED
    BY <2>3, <2>4, <2>6 DEF DecGood
<1>12. CASE st # "ok"
  <2>1. dec' = [DecFrame EXCEPT !.pc = "returned", !.status = st]
    BY <1>3, <1>12 DEF DecReturn
  <2>2. DecShape' /\ dec'.pc = "returned" /\ dec'.status = st
    BY <2>1 DEF DecShape, DecFrame, DecFields
  <2>3. ASSUME dst = Expected
        PROVE  ~ Readable'
    <3>1. /\ dst.dtype = src.dtype /\ dst.layout = src.layout /\ dst.n = src.n
          /\ dst.data = TRUE
      BY <2>3 DEF Expected
    <3>2. Readable' => EntryFits' /\ AllKnown' /\ HeaderValid(rec)
      BY <1>6 DEF Readable, Decodable
    <3>3. Readable' => \A i \in 1..10 : ~ checks[i][1]
      <4> SUFFICES ASSUME Readable'
                   PROVE  \A i \in 1..10 : ~ checks[i][1]
        OBVIOUS
      <4>1. /\ ~ checks[1][1] /\ ~ checks[3][1]
        BY <1>2, <1>7, <1>9, <3>1, <3>2
      <4>2. /\ ~ checks[2][1] /\ ~ checks[4][1]
        BY <1>2, <1>7, <3>2 DEF None
      <4>3. /\ ~ checks[5][1] /\ ~ checks[6][1] /\ ~ checks[7][1] /\ ~ checks[8][1]
        BY <1>2, <1>7, <3>1
      <4>4. /\ ~ checks[9][1] /\ ~ checks[10][1]
        BY <1>2, <1>7, <1>10, <3>2
      <4> QED
        BY <1>4, <4>1, <4>2, <4>3, <4>4
    <3> QED
      BY <1>5, <1>12, <3>3
  <2> QED
    BY <1>8, <1>12, <2>2, <2>3 DEF DecGood
<1> QED
  BY <1>11, <1>12

\* Where the locals of the call stand after its checks.
LEMMA Reached ==
    ASSUME DecCtx, DecGood
    PROVE  /\ dec.pc \notin {"returned", "done"} =>
                 /\ dec.status = "ok"
                 /\ (src.validity => src.n > 0) /\ Sticky(XformIds(spec.xform))
                 /\ AllKnown /\ EntryFits
           /\ wire.harm = None /\ ModelStatus(spec.model, src) = "ok"
  BY DEF DecCtx, DecGood, DecShape, Prepared

\* The side metadata of either format is what the model made.
LEMMA DecodeSideGood ==
    ASSUME DecCtx, DecGood, DecodeSide, UNCHANGED <<slots, src, spec, asked>>
    PROVE  DecGood'
<1> DEFINE s == SideBytes(spec.model, src)
           p == PackedSide(spec, src)
           harmed == wire.harm = "side" /\ rec.side_raw > 0
           coded == IF harmed THEN Garbage(rec.side_raw) ELSE Unwound(DecCoders, rec.side_meta)
           plain == IF harmed THEN Garbage(rec.side_raw) ELSE rec.side_meta.bytes
           side == IF SidePacks(rec.model_id) THEN Take(coded, "pack", UnpackedSize(coded.size))
                   ELSE coded
           memory == {"side_0", "side_1"}
           owned == memory \cup (IF SidePacks(rec.model_id) THEN {"side_unpacked"} ELSE {})
<1>1. /\ dec.pc = "side" /\ ~ harmed
      /\ (src.validity => src.n > 0) /\ Sticky(XformIds(spec.xform))
      /\ AllKnown /\ EntryFits
  BY Reached DEF DecodeSide, None
<1>2. CaseOK(spec, src) /\ s \in ByteStrings /\ p \in ByteStrings /\ CodersOf(spec) \in Seq(Marks)
  BY SideIs, CoderFacts DEF DecCtx
<1>3. /\ DecCoders = CodersOf(spec) /\ rec.model_id = spec.model
      /\ wire.legacy => rec.side_raw = s.size /\ rec.side_meta = Section(<<>>, s)
      /\ ~ wire.legacy => rec.side_raw = p.size /\ rec.side_meta = SideSection(spec, src)
  BY RecordIs DEF DecCtx
<1>4. wire.legacy => rec.side_meta.bytes = s
  <2> DEFINE c == <<>>
  <2>1. c \in Seq(Marks) /\ Len(c) = 0
    OBVIOUS
  <2> HIDE DEF c, s
  <2>2. Section(c, s) = CodedBy(c, s, 0) /\ CodedBy(c, s, 0) = [table |-> <<>>, bytes |-> s]
    BY <1>2, <2>1, SectionIs, CodedFirst
  <2>3. Section(<<>>, s).bytes = s
    BY <2>2 DEF c
  <2> QED
    BY <1>3, <2>3 DEF s
<1>5. ~ wire.legacy /\ rec.side_raw = 0 => rec.side_meta.bytes = s
  <2> SUFFICES ASSUME ~ wire.legacy, rec.side_raw = 0
               PROVE  rec.side_meta.bytes = s
    OBVIOUS
  <2>1. ~ (p.size > 0) /\ s.size \in Nat
    BY <1>2, <1>3 DEF ByteStrings
  <2>2. s = NoBytes /\ SideSection(spec, src) = NoSection
    BY <1>2, <2>1, SideIs DEF SideSection
  <2> QED
    BY <1>3, <2>2 DEF NoSection
<1>6. ~ wire.legacy /\ rec.side_raw > 0 => side = s
  <2> SUFFICES ASSUME ~ wire.legacy, rec.side_raw > 0
               PROVE  side = s
    OBVIOUS
  <2>1. SideSection(spec, src) = Section(CodersOf(spec), p) /\ s.size > 0
    BY <1>2, <1>3, SideIs DEF SideSection
  <2>2. coded = p
    BY <1>1, <1>2, <1>3, <2>1, UnwoundIs
  <2> HIDE DEF coded
  <2> QED
    BY <1>2, <1>3, <2>1, <2>2, SideIs
<1>7. \/ (rec.side_raw = 0 \/ wire.legacy)
         /\ DecContinue([dec EXCEPT !.pc = "params", !.side = plain])
      \/ \E held : DecCleanup("nomem", held)
      \/ rec.side_raw > 0 /\ ~ wire.legacy
         /\ DecContinue([dec EXCEPT !.pc = "params", !.side = side, !.owned = owned])
  BY <1>1, Zenon DEF DecodeSide
<1>8. CASE \E held : DecCleanup("nomem", held)
  <2>1. dec'.pc = "returned" /\ dec'.status = "nomem"
    BY <1>1, <1>8, EndsInShape DEF DecCtx
  <2> QED
    BY <2>1, FailsWell
<1>9. CASE \E b, held : b = s /\ DecContinue([dec EXCEPT !.pc = "params", !.side = b, !.owned = held])
  <2>1. dec'.pc = "params" /\ dec'.side = s
    <3> HIDE DEF s
    <3> QED
      BY <1>9 DEF DecContinue, DecCtx, DecShape, DecFields
  <2> QED
    BY <1>1, <2>1, SameReadable DEF DecGood
<1>10. CASE \E b : b = s /\ DecContinue([dec EXCEPT !.pc = "params", !.side = b])
  <2>1. dec'.pc = "params" /\ dec'.side = s
    <3> HIDE DEF s
    <3> QED
      BY <1>10 DEF DecContinue, DecCtx, DecShape, DecFields
  <2> QED
    BY <1>1, <2>1, SameReadable DEF DecGood
<1>11. plain = rec.side_meta.bytes
  BY <1>1
<1> HIDE DEF plain, side, s, owned
<1>12. CASE /\ rec.side_raw = 0 \/ wire.legacy
            /\ DecContinue([dec EXCEPT !.pc = "params", !.side = plain])
  <2>1. plain = s
    BY <1>4, <1>5, <1>11, <1>12
  <2> QED
    BY <1>10, <1>12, <2>1
<1>13. CASE /\ rec.side_raw > 0 /\ ~ wire.legacy
            /\ DecContinue([dec EXCEPT !.pc = "params", !.side = side, !.owned = owned])
  BY <1>6, <1>9, <1>13
<1> QED
  BY <1>7, <1>8, <1>12, <1>13

\* The parameters of an unharmed record are parsed.
LEMMA ParseParamsGood ==
    ASSUME DecCtx, DecGood, ParseParams, UNCHANGED <<slots, src, spec, asked>>
    PROVE  DecGood'
<1>1. /\ dec.pc = "params" /\ dec' = [dec EXCEPT !.pc = "walk"]
  BY Reached DEF ParseParams, DecContinue, None
<1>2. dec.side = SideBytes(spec.model, src)
  BY <1>1 DEF DecGood
<1>3. dec'.pc = "walk" /\ dec'.side = dec.side
  BY <1>1 DEF DecCtx, DecShape, DecFields
<1> QED
  BY <1>1, <1>2, <1>3, Reached, SameReadable DEF DecGood

\* The types a chain walks through.
WalkOver(ids, first, params) ==
    LET t[k \in 1..Len(ids) + 1] ==
            IF k = 1 THEN first ELSE WalkDtype(ids[k - 1], t[k - 1], k - 1 \in params)
    IN  t

\* The walk of the decoder takes the types of WalkedTypes.
LEMMA WalkTypesAre ==
    ASSUME DecCtx
    PROVE  WalkTypes(WalkedTypes(spec, src)[1]) = WalkedTypes(spec, src)
<1> DEFINE first == ResidualDtype(spec.model, src.dtype, SideBytes(spec.model, src))
<1>1. WalkedTypes(spec, src) = WalkOver(UsedBy(spec), first, Params(spec, src))
  BY DEF WalkedTypes, WalkOver
<1>2. WalkedTypes(spec, src)[1] = first
  BY WalkedAre DEF DecCtx
<1>3. \A f : WalkTypes(f) = WalkOver(DecXforms, f, rec.xform_params)
  BY DEF WalkTypes, WalkOver
<1>4. DecXforms = UsedBy(spec) /\ rec.xform_params = Params(spec, src)
  BY RecordIs DEF DecCtx
<1> HIDE DEF first
<1>5. WalkTypes(first) = WalkOver(UsedBy(spec), first, Params(spec, src))
  BY <1>3, <1>4
<1> QED
  BY <1>1, <1>2, <1>5

\* The walk passes for the records whose types and sizes fit.
LEMMA WalkGood ==
    ASSUME DecCtx, DecGood, Walk, UNCHANGED <<slots, src, spec, asked>>
    PROVE  DecGood'
<1> DEFINE w == WalkedTypes(spec, src)
           n == Len(UsedBy(spec))
           e == Elements(spec, src)
           first == ResidualDtype(rec.model_id, rec.dtype, dec.side)
           t == WalkTypes(first)
           last == t[Len(DecXforms) + 1]
           empty == SectionSize(rec.payload) = 0 /\ rec.xform_params = {}
           checks(len) == <<
                     <<SizeOf[first] = 0, "unsupported">>,
                     <<len > rec.n, "corrupt">>,
                     <<\E k \in 1..Len(DecXforms) :
                          ~ Known("xform", DecXforms[k]) \/ SizeOf[t[k + 1]] = 0,
                       "unsupported">>,
                     <<rec.zero_residual /\ ~ empty, "corrupt">>,
                     <<rec.uncompressed_size #
                           len * SizeOf[IF rec.zero_residual THEN first ELSE last],
                       "corrupt">>>>
           c == checks(e)
           st == FirstOf(c)
<1>1. /\ dec.pc = "walk" /\ dec.side = SideBytes(spec.model, src)
      /\ (src.validity => src.n > 0) /\ Sticky(XformIds(spec.xform))
      /\ AllKnown /\ EntryFits /\ CaseOK(spec, src)
      /\ ModelStatus(spec.model, src) = "ok"
  BY Reached DEF Walk, DecGood, DecCtx
<1>2. /\ rec.model_id = spec.model /\ rec.dtype = src.dtype /\ rec.n = src.n
      /\ rec.zero_residual = LeftOut(spec, src)
      /\ rec.uncompressed_size = Uncompressed(spec, src)
      /\ rec.xform_params = Params(spec, src) /\ rec.payload = PayloadOf(spec, src)
      /\ DecXforms = UsedBy(spec)
  BY RecordIs DEF DecCtx
<1>3. first = w[1]
  BY <1>1, <1>2, WalkedAre
<1>4. t = w
  BY <1>3, WalkTypesAre
<1>5. last = w[n + 1]
  BY <1>2, <1>4
<1>6. ResidualLens(rec.model_id, rec.dtype, rec.n, dec.side) = {e}
  BY <1>1, <1>2, LengthIs
<1>7. IF st = "ok"
      THEN DecContinue([dec EXCEPT !.pc = "entropy", !.rdtype = first, !.len = e])
      ELSE DecCleanup(st, {})
  BY <1>6 DEF Walk
<1>8. /\ Len(c) = 5
      /\ c[1][2] = "unsupported" /\ c[2][2] = "corrupt" /\ c[3][2] = "unsupported"
      /\ c[4][2] = "corrupt" /\ c[5][2] = "corrupt"
  OBVIOUS
<1>9. /\ c[1][1] <=> SizeOf[first] = 0
      /\ c[2][1] <=> e > rec.n
      /\ c[3][1] <=> \E k \in 1..Len(DecXforms) :
                        ~ Known("xform", DecXforms[k]) \/ SizeOf[t[k + 1]] = 0
      /\ c[4][1] <=> rec.zero_residual /\ ~ empty
      /\ c[5][1] <=> rec.uncompressed_size #
                        e * SizeOf[IF rec.zero_residual THEN first ELSE last]
  OBVIOUS
<1> HIDE DEF c
<1>10. \A i \in 1..5 : i = 1 \/ i = 2 \/ i = 3 \/ i = 4 \/ i = 5
  OBVIOUS
<1>11. st = "ok" <=> \A i \in 1..5 : ~ c[i][1]
  <2>1. \A i \in 1..Len(c) : c[i][2] # "ok"
    BY <1>8, <1>10
  <2>2. Len(c) \in Nat
    BY <1>8
  <2>3. st = "ok" <=> \A i \in 1..Len(c) : ~ c[i][1]
    BY <2>1, <2>2, FirstOfIs, Zenon
  <2> QED
    BY <1>8, <2>3
<1> HIDE DEF st, w, n, t, last, first
<1>12. ~ c[1][1]
  <2>1. w[1] \in Numeric
    BY <1>1, WalkedAre, ModelTypes DEF w, Numeric
  <2>2. SizeOf[w[1]] # 0
    BY <2>1, NumericSize
  <2> QED
    BY <1>3, <1>9, <2>2
<1>13. ~ c[2][1]
  BY <1>1, <1>2, <1>9, ElementsAre
<1>14. ~ c[4][1]
  <2>1. LeftOut(spec, src) => rec.payload = NoSection /\ rec.xform_params = {}
    BY <1>2 DEF PayloadOf, Params
  <2>2. SectionSize(NoSection) = 0
    BY DEF SectionSize, NoSection, NoBytes, Bytes
  <2> QED
    BY <1>2, <1>9, <2>1, <2>2
<1>15. c[3][1] <=> ~ \A k \in 1..n : SizeOf[w[k + 1]] # 0
  <2>1. ASSUME NEW k \in 1..n, SizeOf[w[k + 1]] # 0
        PROVE  Known("xform", UsedBy(spec)[k])
    BY <1>1, <2>1, WalkGoesOn DEF n, w, Known, Core
  <2> QED
    BY <1>2, <1>4, <1>9, <2>1 DEF n
<1>16. c[5][1] <=> Uncompressed(spec, src) #
                      e * SizeOf[IF LeftOut(spec, src) THEN w[1] ELSE w[n + 1]]
  BY <1>2, <1>3, <1>5, <1>9
<1>17. st = "ok" <=> WalkPasses(spec, src)
  <2>1. WalkPasses(spec, src) <=> ~ c[3][1] /\ ~ c[5][1]
    BY <1>15, <1>16 DEF WalkPasses, n, w
  <2> QED
    BY <1>10, <1>11, <1>12, <1>13, <1>14, <2>1
<1>18. CASE st = "ok"
  <2>1. /\ dec'.pc = "entropy" /\ dec'.rdtype = first /\ dec'.len = e /\ dec'.side = dec.side
    <3> HIDE DEF e
    <3> QED
      BY <1>7, <1>18 DEF DecContinue, DecCtx, DecShape, DecFields
  <2> QED
    BY <1>1, <1>3, <1>17, <1>18, <2>1, SameReadable DEF DecGood, w
<1>19. CASE st # "ok"
  <2>1. dec'.pc = "returned" /\ dec'.status = st
    BY <1>1, <1>7, <1>19, EndsInShape DEF DecCtx
  <2>2. ~ Readable
    BY <1>17, <1>19 DEF Readable, Decodable
  <2> QED
    BY <1>19, <2>1, <2>2, FailsWell
<1> QED
  BY <1>18, <1>19

\* What the chain of transforms leaves is a byte string.
LEMMA StageIsBytes ==
    ASSUME NEW spc, NEW blk, CaseOK(spc, blk), ModelStatus(spc.model, blk) = "ok",
           NEW k \in 1..(Len(UsedBy(spc)) + 1)
    PROVE  StageAt(spc, blk, k) \in ByteStrings
<1>1. SubSeq(UsedBy(spc), 1, k - 1) \in Seq(Marks)
  BY UsedFacts
<1>2. CountAt(spc, blk, k) \in Nat /\ SizeOf[TypesOf(spc, blk)[k]] \in {2, 4, 8}
  <2>1. k \in Nat
    BY UsedFacts
  <2> QED
    BY <2>1, CountIs, TypesNumeric, NumericSize
<1> DEFINE c == CountAt(spc, blk, k)
           w == SizeOf[TypesOf(spc, blk)[k]]
<1> HIDE DEF c, w
<1>3. c * w \in Nat
  BY <1>2, WholeElements DEF c, w
<1> QED
  BY <1>1, <1>3 DEF StageAt, ByteStrings, Contents, c, w

\* A section says the size of what it holds.
LEMMA HeldIs ==
    ASSUME NEW coders \in Seq(Marks), NEW b \in ByteStrings
    PROVE  HeldSize(Section(coders, b)) = b.size
<1> DEFINE n == Len(coders)
           s == Section(coders, b)
<1>1. /\ n \in Nat /\ b.size \in Nat
      /\ s.table = [j \in 1..n |-> b.size + j - 1]
      /\ s.bytes.size = b.size + n
  <2>1. n \in Nat /\ b.size \in Nat
    BY DEF ByteStrings
  <2>2. s = CodedBy(coders, b, n)
    BY SectionIs
  <2> HIDE DEF s, n
  <2> QED
    BY <2>1, <2>2 DEF CodedBy
<1> HIDE DEF n, s
<1>2. CASE n = 0
  BY <1>1, <1>2 DEF HeldSize, s
<1>3. CASE n # 0
  <2>1. Len(s.table) = n /\ s.table[1] = b.size
    BY <1>1, <1>3
  <2>2. s.table # <<>>
    BY <1>3, <2>1
  <2> QED
    BY <2>1, <2>2 DEF HeldSize, s
<1> QED
  BY <1>2, <1>3

\* The payload is decoded to the last stage of the encoder, or a buffer is sized
\* for the residual that was left out.
LEMMA EntropyDecodeGood ==
    ASSUME DecCtx, DecGood, EntropyDecode, UNCHANGED <<slots, src, spec, asked>>
    PROVE  DecGood'
<1> DEFINE w == WalkedTypes(spec, src)
           n == Len(UsedBy(spec))
           e == Elements(spec, src)
           size == rec.uncompressed_size
           harmed == wire.harm = "payload" /\ SectionSize(rec.payload) > 0
           ready == [dec EXCEPT !.owned = @ \cup {"b0", "b1"}]
           cur == Len(DecCoders) % 2
           back == IF harmed THEN Garbage(size) ELSE Unwound(DecCoders, rec.payload)
           empty == Bytes("uninitialised", size)
           last == StageAt(spec, src, n + 1)
<1>1. /\ dec.pc = "entropy" /\ dec.cur = 0 /\ ~ harmed
      /\ (src.validity => src.n > 0) /\ Sticky(XformIds(spec.xform))
      /\ AllKnown /\ EntryFits /\ CaseOK(spec, src)
      /\ ModelStatus(spec.model, src) = "ok"
  BY Reached DEF EntropyDecode, DecCtx, DecShape, None
<1>2. /\ dec.side = SideBytes(spec.model, src) /\ WalkPasses(spec, src)
      /\ dec.rdtype = w[1] /\ dec.len = e
  BY <1>1 DEF DecGood
<1>3. /\ rec.zero_residual = LeftOut(spec, src)
      /\ size = Uncompressed(spec, src)
      /\ rec.payload = PayloadOf(spec, src)
      /\ DecXforms = UsedBy(spec) /\ DecCoders = CodersOf(spec)
  BY RecordIs DEF DecCtx
<1>4. size = e * SizeOf[IF LeftOut(spec, src) THEN w[1] ELSE w[n + 1]]
  BY <1>2, <1>3 DEF WalkPasses
<1>5. /\ n \in Nat /\ n + 1 \in 1..(n + 1) /\ CodersOf(spec) \in Seq(Marks)
      /\ cur \in {0, 1}
  <2>1. n \in Nat /\ CodersOf(spec) \in Seq(Marks)
    BY <1>1, UsedFacts, CoderFacts
  <2>2. Len(CodersOf(spec)) \in Nat
    BY <2>1
  <2> QED
    BY <1>3, <2>1, <2>2
<1>6. last \in ByteStrings
  BY <1>1, <1>5, StageIsBytes
<1>7. ~ LeftOut(spec, src) => rec.payload = Section(CodersOf(spec), last)
  BY <1>3 DEF PayloadOf
<1>8. ~ LeftOut(spec, src) => size = last.size
  BY <1>3 DEF Uncompressed
<1> HIDE DEF last
<1>9. ~ LeftOut(spec, src) => /\ HeldSize(rec.payload) = size
                              /\ Unwound(CodersOf(spec), rec.payload) = last
  BY <1>5, <1>6, <1>7, <1>8, HeldIs, UnwoundIs
<1>10. \/ DecCleanup("nomem", {"b0", "b1"})
       \/ LeftOut(spec, src) /\ DecContinue([ready EXCEPT !.pc = "hook", !.bufs[0] = empty])
       \/ ~ LeftOut(spec, src)
          /\ DecContinue([ready EXCEPT !.pc = "xform", !.cur = cur, !.i = Len(DecXforms),
                                       !.bufs[cur] = back])
  <2>1. \/ DecCleanup("nomem", {"b0", "b1"})
        \/ rec.zero_residual /\ DecContinue([ready EXCEPT !.pc = "hook", !.bufs[0] = empty])
        \/ ~ rec.zero_residual /\ (harmed \/ HeldSize(rec.payload) # size)
        \/ ~ rec.zero_residual
           /\ DecContinue([ready EXCEPT !.pc = "xform", !.cur = cur, !.i = Len(DecXforms),
                                        !.bufs[cur] = back])
    BY Zenon DEF EntropyDecode
  <2> HIDE DEF ready, cur, back, empty, harmed, size
  <2> QED
    BY <1>1, <1>3, <1>9, <2>1
<1>11. CASE DecCleanup("nomem", {"b0", "b1"})
  <2>1. dec'.pc = "returned" /\ dec'.status = "nomem"
    BY <1>1, <1>11, EndsInShape DEF DecCtx
  <2> QED
    BY <2>1, FailsWell
<1>12. /\ DOMAIN ready = DOMAIN dec /\ ready.cur = 0 /\ ready.bufs = dec.bufs
       /\ ready.side = dec.side /\ ready.rdtype = dec.rdtype /\ ready.len = dec.len
  BY <1>1 DEF DecCtx, DecShape, DecFields
<1>13. DecFields \subseteq DOMAIN ready /\ {0, 1} \subseteq DOMAIN ready.bufs
  BY <1>12 DEF DecCtx, DecShape
<1>14. back = Unwound(CodersOf(spec), rec.payload)
  BY <1>1, <1>3
<1> HIDE DEF ready, cur, back, empty
<1>15. CASE /\ LeftOut(spec, src)
            /\ DecContinue([ready EXCEPT !.pc = "hook", !.bufs[0] = empty])
  <2>1. /\ dec'.pc = "hook" /\ dec'.cur = 0 /\ dec'.bufs[0] = empty
        /\ dec'.side = dec.side /\ dec'.rdtype = dec.rdtype /\ dec'.len = dec.len
    BY <1>12, <1>13, <1>15 DEF DecContinue, DecFields
  <2>2. empty = ResidualOf(spec, src)
    BY <1>4, <1>15 DEF ResidualOf, empty
  <2>3. dec'.bufs[dec'.cur] = ResidualOf(spec, src)
    BY <2>1, <2>2
  <2> QED
    BY <1>1, <1>2, <1>15, <2>1, <2>3, SameReadable DEF DecGood
<1>16. CASE /\ ~ LeftOut(spec, src)
            /\ DecContinue([ready EXCEPT !.pc = "xform", !.cur = cur, !.i = Len(DecXforms),
                                         !.bufs[cur] = back])
  <2>1. /\ dec'.pc = "xform" /\ dec'.cur = cur /\ dec'.bufs[cur] = back /\ dec'.i = n
        /\ dec'.side = dec.side /\ dec'.rdtype = dec.rdtype /\ dec'.len = dec.len
    BY <1>3, <1>5, <1>12, <1>13, <1>16 DEF DecContinue, DecFields
  <2>2. BackAt(spec, src, n) = last
    <3>1. /\ (n + 1) - 1 = n /\ ~ \E j \in n + 1..n : UsedBy(spec)[j] = "quantize"
      BY <1>5
    <3>2. last = [of |-> "residual", by |-> SubSeq(UsedBy(spec), 1, n), size |-> last.size]
      BY <3>1 DEF last, StageAt
    <3>3. last.size = e * SizeOf[w[n + 1]]
      BY <1>4, <1>8, <1>16
    <3> QED
      BY <3>1, <3>2, <3>3 DEF BackAt
  <2>3. dec'.bufs[dec'.cur] = BackAt(spec, src, n)
    BY <1>9, <1>14, <1>16, <2>1, <2>2
  <2>4. InvertsDownTo(spec, src, n) /\ n \in 0..n
    BY <1>5 DEF InvertsDownTo
  <2> QED
    BY <1>1, <1>2, <1>16, <2>1, <2>3, <2>4, SameReadable DEF DecGood
<1> QED
  BY <1>10, <1>11, <1>15, <1>16

\* One inverse takes the bytes one stage back.
LEMMA BackNext ==
    ASSUME NEW spc, NEW blk, CaseOK(spc, blk), NEW i \in 1..Len(UsedBy(spc))
    PROVE  Undo(BackAt(spc, blk, i), UsedBy(spc)[i],
                Elements(spc, blk) * SizeOf[WalkedTypes(spc, blk)[i]])
              = BackAt(spc, blk, i - 1)
<1> DEFINE u == UsedBy(spc)
           id == u[i]
           n == Len(u)
           b == BackAt(spc, blk, i)
           later == \E j \in i + 1..n : u[j] = "quantize"
           of == IF later THEN "approximate" ELSE "residual"
           size == Elements(spc, blk) * SizeOf[WalkedTypes(spc, blk)[i]]
           was == Elements(spc, blk) * SizeOf[WalkedTypes(spc, blk)[i + 1]]
           s == SubSeq(u, 1, i)
           f == SubSeq(u, 1, i - 1)
           before == [of |-> of, by |-> f, size |-> size]
           of1 == IF \E j \in i..n : u[j] = "quantize" THEN "approximate" ELSE "residual"
<1>1. u \in Seq(Marks) /\ n \in Nat /\ i \in Nat /\ i <= n /\ i > 0
  BY UsedFacts
<1>2. b = [of |-> of, by |-> s, size |-> was]
  BY DEF BackAt
<1>3. s # <<>> /\ Last(s) = id /\ Front(s) = f
  <2> HIDE DEF u
  <2>1. Len(s) = i /\ s[i] = u[i] /\ SubSeq(s, 1, i - 1) = f
    BY <1>1
  <2> QED
    BY <1>1, <2>1 DEF Last, Front
<1>4. Take(b, id, size) = before
  <2> HIDE DEF b, id, size, was, s, f, of
  <2>1. Take(b, id, size) = [b EXCEPT !.by = f, !.size = size]
    BY <1>2, <1>3 DEF Take
  <2> DEFINE q == [b EXCEPT !.by = f]
  <2>2. q = [of |-> of, by |-> f, size |-> was]
    BY <1>2
  <2> HIDE DEF q
  <2>3. [q EXCEPT !.size = size] = before
    BY <2>2
  <2> QED
    BY <2>1, <2>3 DEF q
<1>5. of1 = IF id = "quantize" THEN "approximate" ELSE of
  <2>1. (\E j \in i..n : u[j] = "quantize") <=> u[i] = "quantize" \/ later
    <3> HIDE DEF u
    <3>1. \A j \in i..n : j = i \/ j \in i + 1..n
      BY <1>1
    <3>2. \A j \in i + 1..n : j \in i..n
      BY <1>1
    <3>3. i \in i..n
      BY <1>1
    <3> QED
      BY <3>1, <3>2, <3>3
  <2> HIDE DEF later
  <2> QED
    BY <2>1
<1>6. BackAt(spc, blk, i - 1) = [of |-> of1, by |-> f, size |-> size]
  <2>1. (i - 1) + 1 = i
    BY <1>1
  <2> QED
    BY <2>1 DEF BackAt
<1>7. Undo(b, id, size) = [of |-> of1, by |-> f, size |-> size]
  <2>1. of \in {"residual", "approximate"} /\ before.of = of
    OBVIOUS
  <2>2. Undo(b, id, size) = IF id = "quantize" /\ before.of = "residual"
                            THEN [before EXCEPT !.of = "approximate"] ELSE before
    BY <1>4 DEF Undo
  <2> HIDE DEF b, of, f, size, id, of1
  <2>3. [before EXCEPT !.of = "approximate"] = [of |-> "approximate", by |-> f, size |-> size]
    OBVIOUS
  <2> HIDE DEF before
  <2> QED
    BY <1>5, <2>1, <2>2, <2>3 DEF before
<1> QED
  BY <1>6, <1>7

\* One transform is undone, or its inverse refuses the sizes.
LEMMA ReverseStepGood ==
    ASSUME DecCtx, DecGood, ReverseStep, UNCHANGED <<slots, src, spec, asked>>
    PROVE  DecGood'
<1> DEFINE w == WalkedTypes(spec, src)
           n == Len(UsedBy(spec))
           e == Elements(spec, src)
           i == dec.i
           id == DecXforms[i]
           type == WalkTypes(dec.rdtype)[i]
           from == dec.bufs[dec.cur]
           to == 1 - dec.cur
           size == dec.len * SizeOf[type]
           made == Undo(from, id, size)
           fits == InverseFits(id, type, i \in rec.xform_params, from.size, size)
           next == [dec EXCEPT !.i = i - 1, !.cur = to, !.bufs[to] = made]
<1>1. /\ dec.pc = "xform" /\ i > 0
      /\ (src.validity => src.n > 0) /\ Sticky(XformIds(spec.xform))
      /\ AllKnown /\ EntryFits /\ CaseOK(spec, src)
  BY Reached DEF ReverseStep, DecCtx
<1>2. /\ dec.side = SideBytes(spec.model, src) /\ WalkPasses(spec, src)
      /\ dec.rdtype = w[1] /\ dec.len = e
      /\ ~ LeftOut(spec, src) /\ i \in 0..n /\ from = BackAt(spec, src, i)
      /\ InvertsDownTo(spec, src, i)
  BY <1>1 DEF DecGood
<1>3. DecXforms = UsedBy(spec) /\ rec.xform_params = Params(spec, src)
  BY RecordIs DEF DecCtx
<1>4. i \in 1..n /\ n \in Nat /\ to \in {0, 1}
  BY <1>1, <1>2, UsedFacts DEF DecCtx, DecShape
<1>5. type = w[i] /\ size = e * SizeOf[w[i]] /\ id = UsedBy(spec)[i]
  BY <1>2, <1>3, WalkTypesAre
<1>6. from.size = e * SizeOf[w[i + 1]]
  BY <1>2 DEF BackAt
<1>7. fits <=> InverseAt(spec, src, i)
  BY <1>3, <1>5, <1>6 DEF InverseAt
<1>8. made = BackAt(spec, src, i - 1)
  BY <1>1, <1>2, <1>4, <1>5, BackNext
<1>9. \/ DecCleanup("nomem", {})
      \/ fits /\ DecContinue(next)
      \/ ~ fits /\ DecCleanup("corrupt", {})
  BY DEF ReverseStep
<1> HIDE DEF made, fits, type, size, id, from
<1>10. CASE DecCleanup("nomem", {})
  <2>1. dec'.pc = "returned" /\ dec'.status = "nomem"
    BY <1>1, <1>10, EndsInShape DEF DecCtx
  <2> QED
    BY <2>1, FailsWell
<1>11. CASE ~ fits /\ DecCleanup("corrupt", {})
  <2>1. dec'.pc = "returned" /\ dec'.status = "corrupt"
    BY <1>1, <1>11, EndsInShape DEF DecCtx
  <2>2. ~ Readable
    <3>1. i \in 0 + 1..Len(UsedBy(spec))
      BY <1>4
    <3> QED
      BY <1>2, <1>7, <1>11, <3>1 DEF Readable, Decodable, InvertsDownTo
  <2> QED
    BY <2>1, <2>2, FailsWell
<1>12. CASE fits /\ DecContinue(next)
  <2> DEFINE k == i - 1
  <2>1. DecFields \subseteq DOMAIN dec /\ {0, 1} \subseteq DOMAIN dec.bufs
    BY DEF DecCtx, DecShape
  <2>2. /\ next.pc = "xform" /\ next.cur = to /\ next.bufs[to] = made /\ next.i = k
        /\ next.side = dec.side /\ next.rdtype = dec.rdtype /\ next.len = dec.len
    <3> HIDE DEF to, k
    <3>1. next = [dec EXCEPT !.i = k, !.cur = to, !.bufs[to] = made]
      BY DEF k
    <3> QED
      BY <1>1, <1>4, <2>1, <3>1 DEF DecFields, to
  <2>3. dec' = next
    BY <1>12 DEF DecContinue
  <2> HIDE DEF next
  <2>4. dec'.pc = "xform" /\ dec'.bufs[dec'.cur] = BackAt(spec, src, k) /\ dec'.i = k
    BY <1>8, <2>2, <2>3
  <2>5. InvertsDownTo(spec, src, k) /\ k \in 0..n
    <3> SUFFICES ASSUME NEW j \in k + 1..Len(UsedBy(spec))
                 PROVE  InverseAt(spec, src, j)
      BY <1>4 DEF InvertsDownTo
    <3>1. j = i \/ j \in i + 1..Len(UsedBy(spec))
      BY <1>4
    <3> QED
      BY <1>2, <1>7, <1>12, <3>1 DEF InvertsDownTo
  <2> HIDE DEF k
  <2> QED
    BY <1>1, <1>2, <2>2, <2>3, <2>4, <2>5, SameReadable DEF DecGood
<1> QED
  BY <1>9, <1>10, <1>11, <1>12

\* With every transform undone the residual is what the model left.
LEMMA TransformsUndoneGood ==
    ASSUME DecCtx, DecGood, TransformsUndone, UNCHANGED <<slots, src, spec, asked>>
    PROVE  DecGood'
<1>1. /\ dec.pc = "xform" /\ dec.i = 0 /\ dec' = [dec EXCEPT !.pc = "hook"]
      /\ (src.validity => src.n > 0) /\ Sticky(XformIds(spec.xform))
      /\ AllKnown /\ EntryFits
  BY Reached DEF TransformsUndone, DecContinue
<1>2. /\ dec.side = SideBytes(spec.model, src) /\ WalkPasses(spec, src)
      /\ dec.rdtype = WalkedTypes(spec, src)[1] /\ dec.len = Elements(spec, src)
      /\ ~ LeftOut(spec, src) /\ dec.bufs[dec.cur] = BackAt(spec, src, 0)
      /\ InvertsDownTo(spec, src, 0)
  BY <1>1 DEF DecGood
<1>3. /\ dec'.pc = "hook" /\ dec'.cur = dec.cur /\ dec'.bufs = dec.bufs
      /\ dec'.side = dec.side /\ dec'.rdtype = dec.rdtype /\ dec'.len = dec.len
  BY <1>1 DEF DecCtx, DecShape, DecFields
<1>4. BackAt(spec, src, 0) = ResidualOf(spec, src)
  BY <1>2 DEF ResidualOf
<1> QED
  BY <1>1, <1>2, <1>3, <1>4, SameReadable DEF DecGood

\* What the model's decoder is given: the residual and the side metadata the
\* encoder made, or a residual that was left out.
LEMMA OutcomesFit ==
    ASSUME DecCtx, DecGood, dec.pc \in {"hook", "model"}
    PROVE  /\ ~ Suspect /\ Readable
           /\ \A v \in Outcomes :
                 \/ v = "exact"
                 \/ v = "approx" /\ (Lossy(spec.xform) \/ spec.model = "quantize_pred_2d")
                 \/ LeftOut(spec, src) /\ spec.model = "custom"
<1> DEFINE s == SideBytes(spec.model, src)
           r == ResidualOf(spec, src)
           e == Elements(spec, src)
           w == WalkedTypes(spec, src)
<1>1. /\ (src.validity => src.n > 0) /\ Sticky(XformIds(spec.xform))
      /\ AllKnown /\ EntryFits /\ CaseOK(spec, src)
      /\ ModelStatus(spec.model, src) = "ok"
      /\ dec.side = s /\ WalkPasses(spec, src) /\ residual = r
      /\ ~ LeftOut(spec, src) => InvertsDownTo(spec, src, 0)
  BY Reached DEF DecGood, DecCtx, residual
<1>2. Readable
  BY <1>1 DEF Readable, Decodable
<1>3. /\ s.by = <<>> /\ s.size \in Nat
      /\ s.size = 0 => s = NoBytes
      /\ s.size > 0 => s.of = "side"
  BY <1>1, SideIs DEF ByteStrings
<1>4. (s.size = 0 \/ Intact(s, "side")) /\ s.of # "garbage"
  BY <1>3 DEF Intact, NoBytes, Bytes
<1>5. rec.model_id = spec.model /\ rec.zero_residual = LeftOut(spec, src)
  BY RecordIs DEF DecCtx
<1>6. CASE LeftOut(spec, src)
  <2>1. r.of = "uninitialised" /\ r.size = e * SizeOf[w[1]]
    BY <1>6 DEF ResidualOf, Bytes
  <2>2. r.size = 0 \/ spec.model \in {"plane_2d", "custom"}
    <3>1. e = 0 \/ spec.model \in {"plane_2d", "custom"}
      BY <1>1, <1>6, ResidualIs
    <3>2. SizeOf[w[1]] \in Nat
      <4>1. w[1] \in Numeric
        BY <1>1, WalkedAre, ModelTypes DEF Numeric
      <4> QED
        BY <4>1, NumericSize
    <3> HIDE DEF e, w
    <3>3. e = 0 => e * SizeOf[w[1]] = 0
      BY <3>2
    <3> QED
      BY <2>1, <3>1, <3>3
  <2>3. Outcomes \subseteq {"exact", "approx", "wrong"}
    BY DEF Outcomes
  <2>4. r.size = 0 \/ spec.model = "plane_2d" =>
           Outcomes = {IF spec.model = "quantize_pred_2d" THEN "approx" ELSE "exact"}
    <3> HIDE DEF r, s
    <3> QED
      BY <1>1, <1>4, <1>5, <1>6, <2>1 DEF Outcomes
  <2>5. ~ Suspect
    BY <1>1, <1>4, <2>1 DEF Suspect
  <2> QED
    BY <1>2, <1>6, <2>2, <2>4, <2>5
<1>7. CASE ~ LeftOut(spec, src)
  <2> DEFINE lost == \E j \in 0 + 1..Len(UsedBy(spec)) : UsedBy(spec)[j] = "quantize"
  <2>1. r.of = (IF lost THEN "approximate" ELSE "residual") /\ r.by = <<>>
    <3>1. SubSeq(UsedBy(spec), 1, 0) = <<>>
      BY <1>1, UsedFacts
    <3> QED
      BY <1>7, <3>1 DEF ResidualOf, BackAt
  <2>2. lost => Lossy(spec.xform)
    <3>1. UsedBy(spec) \in Seq(Marks)
      BY <1>1, UsedFacts
    <3>2. Lossy(spec.xform) <=> "quantize" \in ToSet(UsedBy(spec))
      BY DEF Lossy, UsedBy
    <3>3. \A j \in 1..Len(UsedBy(spec)) : UsedBy(spec)[j] \in ToSet(UsedBy(spec))
      BY <3>1 DEF ToSet
    <3> QED
      BY <3>2, <3>3
  <2> HIDE DEF lost
  <2>3. Outcomes = {IF lost \/ spec.model = "quantize_pred_2d" THEN "approx" ELSE "exact"}
    <3> HIDE DEF r, s
    <3>1. dec.side.size = 0 \/ Intact(dec.side, "side")
      BY <1>1, <1>4
    <3>2. residual.by = <<>> /\ residual.of \in {"residual", "approximate"}
      BY <1>1, <2>1
    <3>3. residual.of = "approximate" <=> lost
      BY <1>1, <2>1
    <3> QED
      BY <1>5, <3>1, <3>2, <3>3 DEF Outcomes
  <2>4. ~ Suspect
    BY <1>1, <1>4, <2>1 DEF Suspect
  <2> QED
    BY <1>2, <2>2, <2>3, <2>4
<1> QED
  BY <1>6, <1>7

\* A decode that succeeds gives a value that fits.
LEMMA SucceedsWell ==
    ASSUME DecCtx, DecGood, dec.pc \in {"hook", "model"},
           UNCHANGED <<slots, src, spec, asked>>,
           NEW value \in Outcomes, NEW memory, DecSucceed(value, memory)
    PROVE  DecGood'
<1>1. dec'.pc = "returned" /\ dec'.status = "ok" /\ dec'.value = value
  <2>1. dec.status = "ok" /\ DecShape /\ dec.pc # "idle"
    BY DEF DecCtx, DecShape
  <2> QED
    BY <2>1, EndsInShape
<1>2. ValueFits'
  BY <1>1, OutcomesFit DEF ValueFits
<1>3. Readable'
  BY OutcomesFit, SameReadable
<1> QED
  BY <1>1, <1>2, <1>3 DEF DecGood

\* The hooks, the model and the return to the caller.
LEMMA LastStepsGood ==
    ASSUME DecCtx, DecGood, NoHook \/ VarlenHook \/ DictHook \/ ModelDecode,
           UNCHANGED <<slots, src, spec, asked>>
    PROVE  DecGood'
<1>1. dec.pc \in {"hook", "model"} /\ dec.pc # "idle" /\ ~ Suspect /\ DecShape
  BY OutcomesFit DEF NoHook, VarlenHook, DictHook, ModelDecode, DecCtx
<1>2. CASE \E held : DecCleanup("nomem", held)
  <2>1. dec'.pc = "returned" /\ dec'.status = "nomem"
    BY <1>1, <1>2, EndsInShape
  <2> QED
    BY <2>1, FailsWell
<1>3. CASE \E v \in Outcomes : \E memory : DecSucceed(v, memory)
  BY <1>1, <1>3, SucceedsWell
<1>4. CASE \E landed : dec' = [dec EXCEPT !.pc = "returned", !.status = "nomem",
                                       !.owned = dec.owned \ DecScratch, !.caller = landed]
  <2>1. dec'.pc = "returned" /\ dec'.status = "nomem"
    BY <1>1, <1>4 DEF DecShape, DecFields
  <2> QED
    BY <2>1, FailsWell
<1>5. CASE /\ dec.pc = "hook"
           /\ \E parts : \/ dec' = [dec EXCEPT !.pc = "model"]
                         \/ dec' = [dec EXCEPT !.pc = "model", !.caller = parts]
  <2>1. /\ dec'.pc = "model" /\ dec'.cur = dec.cur /\ dec'.bufs = dec.bufs
        /\ dec'.side = dec.side /\ dec'.rdtype = dec.rdtype /\ dec'.len = dec.len
    BY <1>1, <1>5 DEF DecShape, DecFields
  <2>2. /\ dec.side = SideBytes(spec.model, src) /\ WalkPasses(spec, src)
        /\ dec.rdtype = WalkedTypes(spec, src)[1] /\ dec.len = Elements(spec, src)
        /\ dec.bufs[dec.cur] = ResidualOf(spec, src)
        /\ ~ LeftOut(spec, src) => InvertsDownTo(spec, src, 0)
    BY <1>5 DEF DecGood
  <2>3. /\ (src.validity => src.n > 0) /\ Sticky(XformIds(spec.xform))
        /\ AllKnown /\ EntryFits
    BY <1>1, Reached
  <2> QED
    BY <2>1, <2>2, <2>3, SameReadable DEF DecGood
<1>6. CASE NoHook
  BY <1>5, <1>6 DEF NoHook, DecContinue
<1>7. CASE VarlenHook
  <2>1. \/ \E held : DecCleanup("nomem", held)
        \/ \E parts : dec' = [dec EXCEPT !.pc = "model", !.caller = parts]
    BY <1>1, <1>7, Zenon DEF VarlenHook, DecContinue
  <2>2. dec.pc = "hook"
    BY <1>7 DEF VarlenHook
  <2> QED
    BY <1>2, <1>5, <2>1, <2>2
<1>8. CASE DictHook
  <2>1. \/ \E landed : dec' = [dec EXCEPT !.pc = "returned", !.status = "nomem",
                                          !.owned = dec.owned \ DecScratch, !.caller = landed]
        \/ \E v \in Outcomes : \E memory : DecSucceed(v, memory)
    BY <1>1, <1>8, Zenon DEF DictHook
  <2> QED
    BY <1>3, <1>4, <2>1
<1>9. CASE ModelDecode
  <2>1. \/ \E held : DecCleanup("nomem", held)
        \/ \E v \in Outcomes : \E memory : DecSucceed(v, memory)
    BY <1>1, <1>9, Zenon DEF ModelDecode
  <2> QED
    BY <1>2, <1>3, <2>1
<1> QED
  BY <1>6, <1>7, <1>8, <1>9

\* The entry point hands on what the driver returned.
LEMMA EntryReturnGood ==
    ASSUME DecCtx, DecGood, EntryReturn, UNCHANGED <<slots, src, spec, asked>>
    PROVE  DecGood'
<1>1. /\ dec.pc = "returned"
      /\ dec'.pc = "done" /\ dec'.status = dec.status /\ dec'.value = dec.value
  BY DEF EntryReturn, DecCtx, DecShape, DecFields
<1>2. /\ dec.status = "ok" => Readable /\ ValueFits
      /\ dec.status \notin {"ok", "nomem"} /\ asked.dst = Expected => ~ Readable
  BY <1>1 DEF DecGood
<1>3. Readable' = Readable /\ Expected' = Expected
  BY SameReadable DEF Expected
<1>4. ValueFits' = ValueFits
  BY <1>1 DEF ValueFits
<1> QED
  BY <1>1, <1>2, <1>3, <1>4 DEF DecGood

\* The decoder keeps to its path.
LEMMA DecoderGood ==
    ASSUME DecCtx, DecGood, DecoderNext, UNCHANGED <<slots, src, spec, asked>>
    PROVE  DecGood'
  BY DecodeSideGood, ParseParamsGood, WalkGood, EntropyDecodeGood, ReverseStepGood,
     TransformsUndoneGood, LastStepsGood, EntryReturnGood DEF DecoderNext

----------------------------------------------------------------------------
(* The whole pipeline.                                                     *)

\* The two drivers are on their paths, and a record is delivered before a decode.
PipeInv ==
    /\ CaseOK(spec, src)
    /\ EncPath /\ WirePath /\ DecShape /\ DecPath
    /\ dec.pc # "idle" => wire # NoWire

\* Before any call nothing is written, delivered or decoded.
LEMMA PipeInit ==
    Init => PipeInv
<1> SUFFICES ASSUME Init
             PROVE  PipeInv
  OBVIOUS
<1>1. CaseOK(spec, src)
  <2>1. PICK c \in Cases : src = c.src /\ spec = c.spec
    BY DEF Init
  <2> QED
    BY <2>1, PipelineAssumption DEF CaseOK
<1>2. enc = EncFrame /\ out = NoRecord /\ wire = NoWire /\ dec = DecFrame
  BY DEF Init, EncoderInit
<1>3. EncPath
  BY <1>2 DEF EncPath, EncShape, EncFields, EncFrame
<1>4. DecShape /\ dec.pc = "idle"
  BY <1>2 DEF DecShape, DecFields, DecFrame
<1> QED
  BY <1>1, <1>2, <1>3, <1>4 DEF PipeInv, WirePath, DecPath

\* A step of the encoder is a step of a call that has not returned.
LEMMA EncoderRuns ==
    ASSUME EncoderNext
    PROVE  enc.pc # "done" /\ UNCHANGED <<src, spec>>
  BY DEF EncoderNext, Encode, ModelEncode, TransformStep, TransformsDone, EntropyEncode,
         PackSide, SideNeedsNoPacking, EncodeSide, Assemble,
         EncReturn, EncCleanup, EncContinue

\* A step of the decoder is a step of a call that has begun.
LEMMA DecoderRuns ==
    ASSUME DecoderNext
    PROVE  dec.pc \notin {"idle", "done"} /\ wire' = wire
  BY DEF DecoderNext, DecodeSide, ParseParams, Walk, EntropyDecode, ReverseStep,
         TransformsUndone, NoHook, VarlenHook, DictHook, ModelDecode, EntryReturn,
         DecCleanup, DecReturn, DecSucceed, DecContinue

\* Every step of the program and of the two drivers keeps the invariant.
LEMMA PipeStep ==
    ASSUME PipeInv, [Next]_vars
    PROVE  PipeInv'
<1>1. CaseOK(spec, src) /\ EncPath /\ WirePath /\ DecShape /\ DecPath
      /\ (dec.pc # "idle" => wire # NoWire)
  BY DEF PipeInv
<1>2. wire # NoWire => /\ out # NoRecord /\ enc.pc = "done"
                       /\ Prepared(spec, src)
  BY <1>1 DEF EncPath, WirePath
<1>3. CASE RegisterBackend
  <2>1. /\ UNCHANGED <<src, spec, enc, out, wire, dec, asked>> /\ enc.pc = "idle"
    BY <1>3 DEF RegisterBackend
  <2>2. dec.pc = "idle" /\ wire = NoWire
    BY <1>1, <1>2, <2>1
  <2> QED
    BY <1>1, <2>1, <2>2 DEF PipeInv, EncPath, EncShape, WirePath, DecShape, DecPath
<1>4. CASE ClearBackends
  <2>1. UNCHANGED <<src, spec, enc, out, wire, dec, asked>> /\ dec.pc = "idle"
    BY <1>4 DEF ClearBackends
  <2> QED
    BY <1>1, <2>1 DEF PipeInv, EncPath, EncShape, WirePath, AsOlder, DecShape, DecPath
<1>5. CASE Encoding
  <2>1. EncoderNext /\ UNCHANGED <<slots, wire, dec, asked>>
    BY <1>5 DEF Encoding
  <2>2. enc.pc # "done" /\ UNCHANGED <<src, spec>>
    BY <2>1, EncoderRuns
  <2>3. wire = NoWire /\ dec.pc = "idle"
    BY <1>1, <1>2, <2>2
  <2>4. EncPath'
    BY <1>1, <2>1, EncoderPath
  <2>5. DecShape'
    BY <1>1, <2>1 DEF DecShape
  <2> QED
    BY <1>1, <2>1, <2>2, <2>3, <2>4, <2>5 DEF PipeInv, WirePath, DecPath
<1>6. CASE Deliver
  <2>1. /\ UNCHANGED <<slots, src, spec, enc, out, dec, asked>>
        /\ out # NoRecord /\ wire = NoWire
        /\ \/ \E harm : wire' = [record |-> out, legacy |-> FALSE, harm |-> harm]
           \/ wire' = [record |-> AsOlder(out), legacy |-> TRUE, harm |-> None]
    BY <1>6 DEF Deliver
  <2>2. out = Written(spec, src) /\ dec.pc = "idle"
    BY <1>1, <2>1 DEF EncPath
  <2>3. /\ wire'.legacy \in BOOLEAN
        /\ wire'.record = IF wire'.legacy THEN AsOlder(out) ELSE out
    <3> DEFINE older == AsOlder(out)
    <3> HIDE DEF older
    <3>1. CASE \E harm : wire' = [record |-> out, legacy |-> FALSE, harm |-> harm]
      BY <3>1
    <3>2. CASE wire' = [record |-> older, legacy |-> TRUE, harm |-> None]
      BY <3>2 DEF older
    <3> QED
      BY <2>1, <3>1, <3>2 DEF older
  <2>4. AsOlder(Written(spec, src))' = AsOlder(Written(spec, src))
    BY <2>1 DEF AsOlder
  <2>5. WirePath'
    BY <2>1, <2>2, <2>3, <2>4 DEF WirePath
  <2> QED
    BY <1>1, <2>1, <2>2, <2>5 DEF PipeInv, EncPath, EncShape, DecShape, DecPath
<1>7. CASE ReadBack
  <2>1. PICK entry, dst : Decode(entry, dst) /\ asked' = [entry |-> entry, dst |-> dst]
    BY <1>7 DEF ReadBack
  <2>2. UNCHANGED <<slots, src, spec, enc, out>> /\ wire # NoWire
    BY <1>7 DEF ReadBack
  <2>3. wire' = wire
    BY <2>1 DEF Decode, DecReturn, DecContinue
  <2>4. CaseOK(spec, src)' /\ EncPath' /\ WirePath'
    BY <1>1, <2>2, <2>3 DEF EncPath, EncShape, WirePath, AsOlder
  <2>5. DecShape'
    <3>1. dec = DecFrame
      BY <1>1, <2>1 DEF Decode, DecShape
    <3>2. \/ dec' = [DecFrame EXCEPT !.pc = "side", !.entry = entry]
          \/ \E st : dec' = [DecFrame EXCEPT !.pc = "returned", !.status = st]
      <4>1. \E st : DecContinue([dec EXCEPT !.pc = "side", !.entry = entry]) \/ DecReturn(st)
        BY <2>1, DecodeIs
      <4> QED
        BY <3>1, <4>1, Zenon DEF DecReturn, DecContinue
    <3> QED
      BY <3>2 DEF DecShape, DecFields, DecFrame
  <2>6. DecPath'
    <3> SUFFICES ASSUME wire.harm = None
                 PROVE  DecGood'
      BY <2>3 DEF DecPath
    <3>1. DecCtx
      BY <1>1, <1>2, <2>2 DEF DecCtx
    <3> QED
      BY <2>1, <2>2, <3>1, DecodeGood
  <2> QED
    BY <2>2, <2>3, <2>4, <2>5, <2>6 DEF PipeInv
<1>8. CASE Decoding
  <2>1. DecoderNext /\ UNCHANGED <<slots, src, spec, enc, out, asked>>
    BY <1>8 DEF Decoding
  <2>2. dec.pc \notin {"idle", "done"} /\ wire' = wire /\ wire # NoWire
    BY <1>1, <2>1, DecoderRuns
  <2>3. CaseOK(spec, src)' /\ EncPath' /\ WirePath'
    BY <1>1, <2>1, <2>2 DEF EncPath, EncShape, WirePath, AsOlder
  <2>4. DecShape'
    BY <1>1, <2>1, <2>2, DecoderShape
  <2>5. DecPath'
    <3> SUFFICES ASSUME wire.harm = None
                 PROVE  DecGood'
      BY <2>2 DEF DecPath
    <3>1. DecCtx
      BY <1>1, <1>2, <2>2 DEF DecCtx
    <3>2. DecGood
      BY <1>1, <2>2 DEF DecPath
    <3> QED
      BY <2>1, <3>1, <3>2, DecoderGood
  <2> QED
    BY <2>2, <2>3, <2>4, <2>5 DEF PipeInv
<1>9. CASE UNCHANGED vars
  <2>1. UNCHANGED <<slots, src, spec, enc, out, wire, dec, asked>>
    BY <1>9 DEF vars
  <2>2. DecGood => DecGood'
    <3>1. Readable' = Readable /\ AllKnown' = AllKnown /\ EntryFits' = EntryFits
      BY <2>1, SameReadable
    <3> QED
      BY <2>1, <3>1 DEF DecGood, ValueFits, Expected
  <2>3. EncPath' /\ WirePath' /\ DecShape'
    BY <1>1, <2>1 DEF EncPath, EncShape, WirePath, AsOlder, DecShape
  <2> QED
    BY <1>1, <2>1, <2>2, <2>3 DEF PipeInv, DecPath
<1> QED
  BY <1>3, <1>4, <1>5, <1>6, <1>7, <1>8, <1>9 DEF Next, Finished

\* What one block goes through from the encoder to the decoder.
THEOREM PipelineInvariant == Spec => []PipeInv
<1>1. PipeInv /\ [Next]_vars => PipeInv'
  BY PipeStep
<1> QED
  BY PipeInit, <1>1, PTL DEF Spec

\* What the properties call the stages is what the lemmas call them.
LEMMA RegularIs ==
    ASSUME CaseOK(spec, src), Prepared(spec, src), out = Written(spec, src)
    PROVE  Regular <=> /\ src.validity => src.n > 0
                       /\ Sticky(XformIds(spec.xform))
                       /\ Invertible(spec, src)
                       /\ AllKnown
<1> DEFINE u == UsedBy(spec)
           n == Len(u)
<1>1. Used = u /\ Coders = CodersOf(spec)
  BY DEF Used, UsedBy, Coders, CodersOf
<1>2. u \in Seq(Marks) /\ n \in Nat
  BY UsedFacts
<1>3. \A id : id \in ToSet(Used) <=> \E k \in 1..n : u[k] = id
  <2>1. DOMAIN u = 1..n
    BY <1>2
  <2> HIDE DEF u
  <2> QED
    BY <1>1, <2>1 DEF ToSet
<1>4. ToSet(Used) \subseteq CoreXforms <=> OnlyCore(spec)
  <2> HIDE DEF u, n
  <2>1. OnlyCore(spec) <=> \A k \in 1..n : u[k] \in CoreXforms
    BY DEF OnlyCore, u, n
  <2> QED
    BY <1>3, <2>1
<1>5. "zigzag" \in ToSet(Used) <=> ~ \A k \in 1..n : u[k] # "zigzag"
  BY <1>3
<1>6. "bit_shuffle" \in ToSet(Used) <=> Shuffled(spec)
  BY <1>3 DEF Shuffled
<1>7. EncodedTypes = TypesOf(spec, src)
  BY DEF EncodedTypes, TypesOf, Used, UsedBy
<1>8. WalksWithoutResidual <=> Walkable(spec, src)
  BY <1>1, <1>7 DEF WalksWithoutResidual, Walkable
<1>9. out.zero_residual = LeftOut(spec, src)
  BY DEF Written
<1>10. (IF spec.model = "sparse_zero_1d" THEN Nonzero(src) ELSE src.n) = Elements(spec, src)
  BY DEF Elements
<1>11. AllKnown <=> /\ Known("model", spec.model)
                    /\ \A k \in 1..Len(Coders) : Known("entropy", Coders[k])
  BY <1>1 DEF AllKnown
<1> HIDE DEF u, n
<1>12. spec.model = "narrowing" =>
          ("zigzag" \notin ToSet(Used) <=> \A k \in 1..Len(UsedBy(spec)) : UsedBy(spec)[k] # "zigzag")
  BY <1>5 DEF u, n
<1> QED
  BY <1>4, <1>6, <1>8, <1>9, <1>10, <1>11, <1>12 DEF Regular, Invertible

\* In the decoder's own terms.
LEMMA FairIs ==
    ASSUME PipeInv, Fair
    PROVE  /\ CaseOK(spec, src) /\ Prepared(spec, src) /\ out = Written(spec, src)
           /\ dec.status = "ok" => ValueFits
           /\ dec.status = "ok" <=> Readable
<1>1. dec.pc = "done" /\ wire # NoWire /\ wire.harm = None
      /\ asked.dst = Expected /\ dec.status # "nomem"
  BY DEF Fair, PipeInv
<1>2. CaseOK(spec, src) /\ Prepared(spec, src) /\ out = Written(spec, src)
  BY <1>1 DEF PipeInv, WirePath, EncPath
<1>3. DecGood
  BY <1>1 DEF PipeInv, DecPath
<1> QED
  BY <1>1, <1>2, <1>3 DEF DecGood

\* Among the calls tdc_encode_block accepts, a decode of the unharmed record
\* by a caller that expects the block it holds succeeds for the Regular ones
\* and for no others, for every chain of transforms and coders, every block,
\* every number of registry slots and every order of registrations.
THEOREM ReadableIffRegular == Spec => []ReadableExactly
<1>1. PipeInv => ReadableExactly
  <2> SUFFICES ASSUME PipeInv, Fair
               PROVE  dec.status = "ok" <=>
                         /\ Regular
                         /\ asked.entry = "varlen" => src.dtype = "string"
                         /\ asked.entry = "dict" => spec.model = "dict_1d"
    BY DEF ReadableExactly
  <2>1. /\ CaseOK(spec, src) /\ Prepared(spec, src) /\ out = Written(spec, src)
        /\ dec.status = "ok" <=> Readable
    BY FairIs
  <2>2. Regular <=> /\ src.validity => src.n > 0
                    /\ Sticky(XformIds(spec.xform))
                    /\ Inverts(spec, src)
                    /\ AllKnown
    BY <2>1, RegularIs, InvertibleInverts
  <2>3. Decodable(spec, src) <=> /\ src.validity => src.n > 0
                                 /\ Sticky(XformIds(spec.xform))
                                 /\ Inverts(spec, src)
    BY DEF Decodable, Inverts
  <2> QED
    BY <2>1, <2>2, <2>3 DEF Readable, EntryFits
<1> QED
  BY <1>1, PipelineInvariant, PTL

\* A decode that succeeds gives back the block that was encoded, to the bit
\* unless the record or its model says otherwise, from records of either
\* format; a plugin model that reads the residual it left out is the exception.
THEOREM DecodesEncoded == Spec => []DecodesWhatItEncoded
<1>1. PipeInv => DecodesWhatItEncoded
  <2> SUFFICES ASSUME PipeInv, Fair, dec.status = "ok"
               PROVE  \/ dec.value = "exact"
                      \/ dec.value = "approx" /\ (out.lossy \/ spec.model = "quantize_pred_2d")
                      \/ out.zero_residual /\ spec.model = "custom"
    BY DEF DecodesWhatItEncoded
  <2>1. ValueFits /\ out = Written(spec, src)
    BY FairIs
  <2>2. out.lossy = Lossy(spec.xform) /\ out.zero_residual = LeftOut(spec, src)
    BY <2>1 DEF Written
  <2> QED
    BY <2>1, <2>2 DEF ValueFits
<1> QED
  BY <1>1, PipelineInvariant, PTL

----------------------------------------------------------------------------
(* Type correctness.                                                       *)

\* What TypeOK says, in parts that a step keeps.
EncTypes ==
    /\ enc.status \in Statuses
    /\ enc.dtype \in Dtypes \cup {None}
    /\ enc.owned \subseteq EncScratch \cup {"packed", "side_enc"}
DecTypes ==
    /\ dec.status \in Statuses
    /\ dec.owned \subseteq DecScratch
    /\ dec.value \in Values
SlotsInv == slots \in [Stages -> Seq(PluginModels \cup PluginXforms \cup PluginCoders)]
TypesInv == EncTypes /\ DecTypes /\ SlotsInv /\ RegistryTypeOK

\* A list of checks that ends in statuses gives one.
LEMMA FirstOfStatus ==
    ASSUME NEW checks, Len(checks) \in Nat,
           \A i \in 1..Len(checks) : checks[i][2] \in Statuses \ {"ok"}
    PROVE  FirstOf(checks) \in Statuses
<1>1. "ok" \in Statuses
  BY DEF Statuses
<1> QED
  BY <1>1, FirstOfIs

\* Every check of the two drivers ends in a status of the API.
LEMMA StatusIs ==
    /\ \A model, blk : ModelStatus(model, blk) \in Statuses
    /\ \A x, d, size : XformStatus(x, d, size) \in Statuses
    /\ \A entry, dst : FirstOf(DecodeChecks(entry, dst)) \in Statuses
<1>1. ASSUME NEW model, NEW blk
      PROVE  ModelStatus(model, blk) \in Statuses
  <2> DEFINE checks == <<<<model = "dict_1d" /\ blk.dtype # "string", "dtype">>,
                         <<blk.layout \notin ModelLayouts(model), "layout">>,
                         <<blk.dtype \notin ModelDtypes(model), "dtype">>>>
  <2>1. /\ Len(checks) = 3
        /\ checks[1][2] = "dtype" /\ checks[2][2] = "layout" /\ checks[3][2] = "dtype"
    OBVIOUS
  <2>2. ModelStatus(model, blk) = FirstOf(checks)
    BY DEF ModelStatus
  <2> HIDE DEF checks
  <2>3. \A i \in 1..Len(checks) : i = 1 \/ i = 2 \/ i = 3
    BY <2>1
  <2>4. \A i \in 1..Len(checks) : checks[i][2] \in Statuses \ {"ok"}
    BY <2>1, <2>3 DEF Statuses
  <2>5. Len(checks) \in Nat
    BY <2>1
  <2> QED
    BY <2>2, <2>4, <2>5, FirstOfStatus, Zenon
<1>2. ASSUME NEW x, NEW d, NEW size
      PROVE  XformStatus(x, d, size) \in Statuses
  <2> DEFINE checks == <<<<x.id = "quantize" /\ ~ x.params, "inval">>,
                         <<d \notin XformDtypes(x.id), "dtype">>,
                         <<x.id \in CoreXforms /\ size % SizeOf[d] # 0, "inval">>>>
  <2>1. /\ Len(checks) = 3
        /\ checks[1][2] = "inval" /\ checks[2][2] = "dtype" /\ checks[3][2] = "inval"
    OBVIOUS
  <2>2. XformStatus(x, d, size) = FirstOf(checks)
    BY DEF XformStatus
  <2> HIDE DEF checks
  <2>3. \A i \in 1..Len(checks) : i = 1 \/ i = 2 \/ i = 3
    BY <2>1
  <2>4. \A i \in 1..Len(checks) : checks[i][2] \in Statuses \ {"ok"}
    BY <2>1, <2>3 DEF Statuses
  <2>5. Len(checks) \in Nat
    BY <2>1
  <2> QED
    BY <2>2, <2>4, <2>5, FirstOfStatus, Zenon
<1>3. ASSUME NEW entry, NEW dst
      PROVE  FirstOf(DecodeChecks(entry, dst)) \in Statuses
  <2> DEFINE checks == DecodeChecks(entry, dst)
  <2>1. /\ Len(checks) = 10
        /\ checks[1][2] = "dtype" /\ checks[2][2] = "corrupt" /\ checks[3][2] = "unsupported"
        /\ checks[4][2] = "corrupt" /\ checks[5][2] = "dtype" /\ checks[6][2] = "layout"
        /\ checks[7][2] = "shape" /\ checks[8][2] = "inval" /\ checks[9][2] = "unsupported"
        /\ checks[10][2] = "unsupported"
    BY DEF DecodeChecks
  <2> HIDE DEF checks
  <2>2. \A i \in 1..10 : i = 1 \/ i = 2 \/ i = 3 \/ i = 4 \/ i = 5 \/ i = 6 \/ i = 7
                            \/ i = 8 \/ i = 9 \/ i = 10
    OBVIOUS
  <2>3. \A i \in 1..Len(checks) : checks[i][2] \in Statuses \ {"ok"}
    BY <2>1, <2>2 DEF Statuses
  <2>4. Len(checks) \in Nat
    BY <2>1
  <2>5. FirstOf(checks) \in Statuses
    BY <2>3, <2>4, FirstOfStatus, Zenon
  <2> QED
    BY <2>5 DEF checks
<1> QED
  BY <1>1, <1>2, <1>3

\* So does the cleanup label of the encoder.
LEMMA EncCleanupTyped ==
    ASSUME EncShape, EncTypes, NEW st \in Statuses, NEW held \in SUBSET EncScratch, NEW local,
           EncCleanup(st, held, local)
    PROVE  EncTypes'
  BY DEF EncCleanup, EncShape, EncFields, EncTypes

\* The steps of the encoder keep its types.
LEMMA EncoderTyped ==
    ASSUME CaseOK(spec, src), EncShape, EncTypes, EncoderNext
    PROVE  EncTypes'
<1>1. {"ok", "nomem", "unsupported"} \subseteq Statuses
  BY DEF Statuses
<1>2. /\ EncScratch = {"b0", "b1", "side_meta", "xform_params", "payload"}
      /\ {} \in SUBSET EncScratch /\ \A k : Buf(k) \in EncScratch
  BY DEF EncScratch, Buf
<1>3. CASE \E st \in Statuses, held \in SUBSET EncScratch : \E local : EncCleanup(st, held, local)
  BY <1>3, EncCleanupTyped
<1>4. CASE Encode
  <2> DEFINE checks == <<
               <<src.dtype = "string" /\ src.layout # "vector", "layout">>,
               <<~ Known("model", spec.model), "unsupported">>,
               <<\E k \in 1..Len(Coders) : ~ Known("entropy", Coders[k]), "unsupported">>,
               <<~ Sticky(spec.entropy), "inval">>>>
  <2>1. /\ Len(checks) = 4
        /\ checks[1][2] = "layout" /\ checks[2][2] = "unsupported"
        /\ checks[3][2] = "unsupported" /\ checks[4][2] = "inval"
    OBVIOUS
  <2>2. EncContinue([enc EXCEPT !.pc = "model"]) \/ EncReturn(FirstOf(checks))
    BY <1>4 DEF Encode
  <2> HIDE DEF checks
  <2>3. \A i \in 1..Len(checks) : i = 1 \/ i = 2 \/ i = 3 \/ i = 4
    BY <2>1
  <2>4. \A i \in 1..Len(checks) : checks[i][2] \in Statuses \ {"ok"}
    BY <2>1, <2>3 DEF Statuses
  <2>5. Len(checks) \in Nat
    BY <2>1
  <2>6. FirstOf(checks) \in Statuses
    BY <2>4, <2>5, FirstOfStatus, Zenon
  <2> QED
    BY <2>2, <2>6 DEF EncContinue, EncReturn, EncTypes, EncShape, EncFields
<1>5. CASE ModelEncode
  <2> DEFINE st == ModelStatus(spec.model, src)
             left == ResidualBytes(spec.model, src)
             zero == src.n > 0 /\ left.size = 0
             dtype == EncoderDtype(spec.model, src)
             side == SideBytes(spec.model, src)
             next == [enc EXCEPT !.pc = IF zero THEN "side" ELSE "xform",
                                 !.bufs[0] = left, !.dtype = dtype, !.side = side,
                                 !.zero = zero, !.owned = {"b0", "side_meta"}]
  <2>1. \/ EncCleanup(st, {}, {})
        \/ \E held \in SUBSET {"b0", "side_meta"} : EncCleanup("nomem", held, {})
        \/ EncContinue(next)
    BY <1>5 DEF ModelEncode
  <2>2. st \in Statuses
    BY StatusIs
  <2>3. dtype \in Dtypes \cup {None}
    BY DEF CaseOK, EncoderDtype, Dtypes, Numeric
  <2>4. CASE EncContinue(next)
    <3>1. next.dtype = dtype /\ next.status = enc.status /\ next.owned = {"b0", "side_meta"}
      <4> HIDE DEF left, zero, dtype, side
      <4> QED
        BY DEF EncShape, EncFields
    <3>2. enc' = next
      BY <2>4 DEF EncContinue
    <3> HIDE DEF next, dtype
    <3> QED
      BY <1>2, <2>3, <3>1, <3>2 DEF EncTypes
  <2> HIDE DEF st, next
  <2>5. SUBSET {"b0", "side_meta"} \subseteq SUBSET EncScratch
    BY <1>2
  <2> QED
    BY <1>1, <1>2, <1>3, <2>1, <2>2, <2>4, <2>5
<1>6. CASE TransformStep
  <2> DEFINE x == spec.xform[enc.i]
             from == enc.bufs[enc.cur]
             to == 1 - enc.cur
             i == enc.i + 1
             st == IF Known("xform", x.id) THEN XformStatus(x, enc.dtype, from.size)
                   ELSE "unsupported"
             made == Put(from, x.id, XformSize(x, enc.dtype, from.size))
             type == XformDtype(x, enc.dtype)
             tlv == IF x.id = "quantize" THEN enc.tlv \cup {enc.i} ELSE enc.tlv
             owned == enc.owned \cup {Buf(to)}
                      \cup (IF x.id = "quantize" THEN {"xform_params"} ELSE {})
             next == [enc EXCEPT !.i = i, !.cur = to, !.bufs[to] = made, !.dtype = type,
                                 !.tlv = tlv, !.owned = owned]
  <2>1. \/ EncCleanup(st, {}, {})
        \/ \E held \in {{}, {Buf(to)}} : EncCleanup("nomem", held, {})
        \/ EncContinue(next)
    BY <1>6 DEF TransformStep
  <2>2. st \in Statuses
    BY <1>1, StatusIs
  <2>3. type \in Dtypes \cup {None}
    BY DEF EncTypes, XformDtype, Dtypes, Numeric
  <2>4. owned \subseteq EncScratch \cup {"packed", "side_enc"}
    BY <1>2 DEF EncTypes
  <2>5. CASE EncContinue(next)
    <3>1. next.dtype = type /\ next.status = enc.status /\ next.owned = owned
      <4> HIDE DEF made, type, tlv, owned, to, i
      <4> QED
        BY DEF EncShape, EncFields
    <3>2. enc' = next
      BY <2>5 DEF EncContinue
    <3> HIDE DEF next, type, owned
    <3> QED
      BY <2>3, <2>4, <3>1, <3>2 DEF EncTypes
  <2>6. {{}, {Buf(to)}} \subseteq SUBSET EncScratch
    BY <1>2
  <2> HIDE DEF st, next, to
  <2> QED
    BY <1>1, <1>2, <1>3, <2>1, <2>2, <2>5, <2>6
<1>7. CASE TransformsDone \/ SideNeedsNoPacking
  BY <1>7 DEF TransformsDone, SideNeedsNoPacking, EncContinue, EncTypes, EncShape, EncFields
<1>8. CASE EntropyEncode
  <2>1. CASE EncCleanup("nomem", {"payload"}, {})
    BY <1>1, <1>2, <1>3, <2>1
  <2>2. CASE \E p : EncContinue([enc EXCEPT !.pc = "side", !.payload = p,
                                            !.owned = enc.owned \cup {"payload"}])
    BY <1>2, <2>2 DEF EncContinue, EncTypes, EncShape, EncFields
  <2> QED
    BY <1>8, <2>1, <2>2, Zenon DEF EntropyEncode
<1>9. CASE PackSide \/ EncodeSide
  <2>1. CASE \E local : EncCleanup("nomem", {}, local)
    BY <1>1, <1>2, <1>3, <2>1
  <2>2. CASE \E p : \/ EncContinue([enc EXCEPT !.pc = "side_entropy", !.side = p])
                    \/ EncContinue([enc EXCEPT !.pc = "assemble", !.side_section = p])
    BY <2>2 DEF EncContinue, EncTypes, EncShape, EncFields
  <2> QED
    BY <1>9, <2>1, <2>2, Zenon DEF PackSide, EncodeSide
<1>10. CASE Assemble
  <2>1. CASE EncCleanup("nomem", {}, {})
    BY <1>1, <1>2, <1>3, <2>1
  <2>2. CASE enc' = [enc EXCEPT !.pc = "done", !.owned = enc.owned \ EncScratch]
    BY <2>2 DEF EncTypes, EncShape, EncFields
  <2> QED
    BY <1>10, <2>1, <2>2 DEF Assemble
<1> QED
  BY <1>4, <1>5, <1>6, <1>7, <1>8, <1>9, <1>10 DEF EncoderNext

\* The three ways a decode returns keep its types.
LEMMA DecEndsTyped ==
    ASSUME DecShape, DecTypes
    PROVE  /\ \A st \in Statuses, held \in SUBSET DecScratch : DecCleanup(st, held) => DecTypes'
           /\ \A st \in Statuses : DecReturn(st) => DecTypes'
           /\ \A value \in Values : \A memory : DecSucceed(value, memory) => DecTypes'
<1>1. ASSUME NEW st \in Statuses, NEW held \in SUBSET DecScratch, DecCleanup(st, held)
      PROVE  DecTypes'
  BY <1>1 DEF DecShape, DecFields, DecTypes, DecCleanup
<1>2. ASSUME NEW st \in Statuses, DecReturn(st)
      PROVE  DecTypes'
  BY <1>2 DEF DecShape, DecFields, DecTypes, DecReturn
<1>3. ASSUME NEW value \in Values, NEW memory, DecSucceed(value, memory)
      PROVE  DecTypes'
  BY <1>3 DEF DecShape, DecFields, DecTypes, DecSucceed
<1> QED
  BY <1>1, <1>2, <1>3

\* What a step of the decoder leaves as it was, and what it may own.
DecStands ==
    /\ dec'.status = dec.status /\ dec'.value = dec.value
    /\ dec'.owned \subseteq DecScratch

\* The steps of the decoder keep its types.
LEMMA DecoderTyped ==
    ASSUME DecShape, DecTypes, DecoderNext
    PROVE  DecTypes'
<1>1. {"ok", "nomem", "corrupt"} \subseteq Statuses /\ Outcomes \subseteq Values
  BY DEF Statuses, Outcomes, Values
<1>2. /\ DecScratch = {"side_0", "side_1", "side_unpacked", "b0", "b1"}
      /\ {} \in SUBSET DecScratch
  BY DEF DecScratch
<1>3. CASE \E st \in Statuses, held \in SUBSET DecScratch : DecCleanup(st, held)
  BY <1>3, DecEndsTyped
<1>4. CASE DecStands
  BY <1>4 DEF DecStands, DecTypes
<1>5. CASE \E value \in Outcomes : \E memory : DecSucceed(value, memory)
  BY <1>1, <1>5, DecEndsTyped
<1>6. CASE DecodeSide
  <2> DEFINE memory == {"side_0", "side_1"}
             owned == memory \cup (IF SidePacks(rec.model_id) THEN {"side_unpacked"} ELSE {})
  <2>1. CASE \E side : DecContinue([dec EXCEPT !.pc = "params", !.side = side])
    BY <1>4, <2>1 DEF DecContinue, DecShape, DecFields, DecTypes, DecStands
  <2>2. CASE \E side : DecContinue([dec EXCEPT !.pc = "params", !.side = side, !.owned = owned])
    <3>1. owned \subseteq DecScratch
      BY <1>2
    <3> HIDE DEF owned
    <3> QED
      BY <1>4, <2>2, <3>1 DEF DecContinue, DecShape, DecFields, DecTypes, DecStands
  <2>3. CASE \E held \in {memory, memory \cup {"side_unpacked"}} :
                DecCleanup("nomem", held) \/ DecCleanup("corrupt", held)
    <3>1. {memory, memory \cup {"side_unpacked"}} \subseteq SUBSET DecScratch
      BY <1>2
    <3> HIDE DEF memory
    <3> QED
      BY <1>1, <1>3, <2>3, <3>1
  <2> QED
    BY <1>6, <2>1, <2>2, <2>3, Zenon DEF DecodeSide
<1>7. CASE ParseParams
  <2>1. CASE DecReturn("corrupt")
    BY <1>1, <2>1, DecEndsTyped
  <2>2. CASE DecContinue([dec EXCEPT !.pc = "walk"])
    BY <1>4, <2>2 DEF DecContinue, DecShape, DecFields, DecTypes, DecStands
  <2> QED
    BY <1>7, <2>1, <2>2 DEF ParseParams
<1>8. CASE Walk
  <2> DEFINE first == ResidualDtype(rec.model_id, rec.dtype, dec.side)
             t == WalkTypes(first)
             last == t[Len(DecXforms) + 1]
             empty == SectionSize(rec.payload) = 0 /\ rec.xform_params = {}
             checks(len) == <<
                     <<SizeOf[first] = 0, "unsupported">>,
                     <<len > rec.n, "corrupt">>,
                     <<\E k \in 1..Len(DecXforms) :
                          ~ Known("xform", DecXforms[k]) \/ SizeOf[t[k + 1]] = 0,
                       "unsupported">>,
                     <<rec.zero_residual /\ ~ empty, "corrupt">>,
                     <<rec.uncompressed_size #
                           len * SizeOf[IF rec.zero_residual THEN first ELSE last],
                       "corrupt">>>>
  <2>1. \E len \in ResidualLens(rec.model_id, rec.dtype, rec.n, dec.side) :
           \/ DecContinue([dec EXCEPT !.pc = "entropy", !.rdtype = first, !.len = len])
           \/ DecCleanup(FirstOf(checks(len)), {})
    BY <1>8 DEF Walk
  <2>2. ASSUME NEW len
        PROVE  FirstOf(checks(len)) \in Statuses
    <3> DEFINE c == checks(len)
    <3>1. /\ Len(c) = 5
          /\ c[1][2] = "unsupported" /\ c[2][2] = "corrupt" /\ c[3][2] = "unsupported"
          /\ c[4][2] = "corrupt" /\ c[5][2] = "corrupt"
      OBVIOUS
    <3> HIDE DEF c
    <3>2. \A i \in 1..5 : i = 1 \/ i = 2 \/ i = 3 \/ i = 4 \/ i = 5
      OBVIOUS
    <3>3. \A i \in 1..Len(c) : c[i][2] \in Statuses \ {"ok"}
      BY <3>1, <3>2 DEF Statuses
    <3>4. Len(c) \in Nat
      BY <3>1
    <3>5. FirstOf(c) \in Statuses
      BY <3>3, <3>4, FirstOfStatus, Zenon
    <3> QED
      BY <3>5 DEF c
  <2> HIDE DEF checks, first
  <2>3. PICK len : \/ DecContinue([dec EXCEPT !.pc = "entropy", !.rdtype = first, !.len = len])
                   \/ DecCleanup(FirstOf(checks(len)), {})
    BY <2>1
  <2>4. CASE DecContinue([dec EXCEPT !.pc = "entropy", !.rdtype = first, !.len = len])
    BY <1>4, <2>4 DEF DecContinue, DecShape, DecFields, DecTypes, DecStands
  <2>5. CASE DecCleanup(FirstOf(checks(len)), {})
    BY <1>2, <1>3, <2>2, <2>5
  <2> QED
    BY <2>3, <2>4, <2>5
<1>9. CASE EntropyDecode
  <2> DEFINE ready == [dec EXCEPT !.owned = dec.owned \cup {"b0", "b1"}]
             cur == Len(DecCoders) % 2
             i == Len(DecXforms)
  <2>1. /\ DecFields \subseteq DOMAIN ready /\ ready.status = dec.status
        /\ ready.value = dec.value /\ ready.owned \subseteq DecScratch
    BY <1>2 DEF DecShape, DecFields, DecTypes
  <2>2. {"b0", "b1"} \in SUBSET DecScratch
    BY <1>2
  <2> HIDE DEF ready, cur, i
  <2>3. CASE \E st \in {"nomem", "corrupt"} : DecCleanup(st, {"b0", "b1"})
    BY <1>1, <1>3, <2>2, <2>3
  <2>4. CASE \E b : DecContinue([ready EXCEPT !.pc = "hook", !.bufs[0] = b])
    BY <1>4, <2>1, <2>4 DEF DecContinue, DecFields, DecStands
  <2>5. CASE \E b : DecContinue([ready EXCEPT !.pc = "xform", !.cur = cur, !.i = i, !.bufs[cur] = b])
    BY <1>4, <2>1, <2>5 DEF DecContinue, DecFields, DecStands
  <2>6. \/ DecCleanup("nomem", {"b0", "b1"}) \/ DecCleanup("corrupt", {"b0", "b1"})
        \/ \E b : DecContinue([ready EXCEPT !.pc = "hook", !.bufs[0] = b])
        \/ \E b : DecContinue([ready EXCEPT !.pc = "xform", !.cur = cur, !.i = i, !.bufs[cur] = b])
    BY <1>9, Zenon DEF EntropyDecode, ready, cur, i
  <2> QED
    BY <2>3, <2>4, <2>5, <2>6
<1>10. CASE ReverseStep
  <2> DEFINE to == 1 - dec.cur
             i == dec.i - 1
  <2> HIDE DEF to, i
  <2>1. CASE DecCleanup("nomem", {}) \/ DecCleanup("corrupt", {})
    BY <1>1, <1>2, <1>3, <2>1
  <2>2. CASE \E b : DecContinue([dec EXCEPT !.i = i, !.cur = to, !.bufs[to] = b])
    BY <1>4, <2>2 DEF DecContinue, DecShape, DecFields, DecTypes, DecStands
  <2> QED
    BY <1>10, <2>1, <2>2, Zenon DEF ReverseStep, to, i
<1>11. CASE TransformsUndone \/ NoHook
  BY <1>4, <1>11 DEF TransformsUndone, NoHook, DecContinue, DecShape, DecFields, DecTypes, DecStands
<1>12. CASE VarlenHook
  <2>1. CASE DecCleanup("nomem", {}) \/ DecCleanup("corrupt", {})
    BY <1>1, <1>2, <1>3, <2>1
  <2>2. CASE \E parts : DecContinue([dec EXCEPT !.pc = "model", !.caller = parts])
    BY <1>4, <2>2 DEF DecContinue, DecShape, DecFields, DecTypes, DecStands
  <2> QED
    BY <1>12, <2>1, <2>2, Zenon DEF VarlenHook
<1>13. CASE DictHook
  <2>1. CASE DecCleanup("corrupt", {})
    BY <1>1, <1>2, <1>3, <2>1
  <2>2. CASE \E landed : dec' = [dec EXCEPT !.pc = "returned", !.status = "nomem",
                                         !.owned = dec.owned \ DecScratch, !.caller = landed]
    BY <1>1, <2>2 DEF DecShape, DecFields, DecTypes
  <2> QED
    BY <1>5, <1>13, <2>1, <2>2, Zenon DEF DictHook
<1>14. CASE ModelDecode
  <2>1. CASE DecCleanup("nomem", {}) \/ DecCleanup("corrupt", {})
    BY <1>1, <1>2, <1>3, <2>1
  <2> QED
    BY <1>5, <1>14, <2>1, Zenon DEF ModelDecode
<1>15. CASE EntryReturn
  BY <1>15 DEF EntryReturn, DecShape, DecFields, DecTypes
<1> QED
  BY <1>6, <1>7, <1>8, <1>9, <1>10, <1>11, <1>12, <1>13, <1>14, <1>15 DEF DecoderNext

\* There are finitely many plugin ids.
LEMMA PluginIdsAre ==
    ASSUME NEW s \in Stages
    PROVE  /\ PluginIds[s] \subseteq PluginModels \cup PluginXforms \cup PluginCoders
           /\ IsFiniteSet(PluginIds[s])
<1>1. PluginIds[s] \in {PluginModels, PluginXforms, PluginCoders}
  BY DEF PluginIds, Stages
<1>2. IsFiniteSet({"custom"}) /\ IsFiniteSet({"custom_xform"}) /\ IsFiniteSet({"custom_coder"})
  BY FS_Singleton
<1>3. IsFiniteSet({"custom"} \cup {"narrowing"})
  BY <1>2, FS_AddElement
<1>4. PluginModels = {"custom"} \cup {"narrowing"}
  BY DEF PluginModels
<1> QED
  BY <1>1, <1>2, <1>3, <1>4 DEF PluginXforms, PluginCoders

\* What a registration adds was not there, so every slot holds its own id.
LEMMA RegisterTyped ==
    ASSUME SlotsInv, RegistryTypeOK, NEW stage \in Stages, NEW id, Register(stage, id)
    PROVE  SlotsInv' /\ RegistryTypeOK'
<1> DEFINE All == PluginModels \cup PluginXforms \cup PluginCoders
           q == slots[stage]
           p == Append(q, id)
<1>1. id \in All /\ id \in PluginIds[stage] /\ id \notin ToSet(q) /\ Len(q) < MaxSlots
      /\ slots' = [slots EXCEPT ![stage] = p]
  BY PluginIdsAre DEF Register
<1>2. q \in Seq(All) /\ MaxSlots \in Nat
  BY RegistryAssumption DEF SlotsInv
<1>3. ToSet(q) \subseteq PluginIds[stage] /\ Len(q) = Cardinality(ToSet(q))
  BY DEF RegistryTypeOK
<1> HIDE DEF All, q
<1>4. /\ p \in Seq(All) /\ Len(p) = Len(q) + 1 /\ DOMAIN p = 1..(Len(q) + 1)
      /\ p[Len(q) + 1] = id /\ \A i \in 1..Len(q) : p[i] = q[i]
      /\ DOMAIN q = 1..Len(q) /\ Len(q) \in Nat
  BY <1>1, <1>2
<1> HIDE DEF p
<1>5. ToSet(p) = ToSet(q) \cup {id}
  <2>1. \A i \in 1..(Len(q) + 1) : i \in 1..Len(q) \/ i = Len(q) + 1
    BY <1>4
  <2>2. Len(q) + 1 \in 1..(Len(q) + 1) /\ \A i \in 1..Len(q) : i \in 1..(Len(q) + 1)
    BY <1>4
  <2>3. ToSet(p) = {p[i] : i \in 1..(Len(q) + 1)} /\ ToSet(q) = {q[i] : i \in 1..Len(q)}
    BY <1>4 DEF ToSet
  <2> QED
    BY <1>4, <2>1, <2>2, <2>3
<1>6. Cardinality(ToSet(p)) = Cardinality(ToSet(q)) + 1
  <2>1. IsFiniteSet(ToSet(q))
    BY <1>3, PluginIdsAre, FS_Subset
  <2> QED
    BY <1>1, <1>5, <2>1, FS_AddElement
<1>7. /\ ToSet(p) \subseteq PluginIds[stage] /\ Len(p) = Cardinality(ToSet(p))
      /\ Len(p) <= MaxSlots
  BY <1>1, <1>2, <1>3, <1>4, <1>5, <1>6
<1>8. \A s \in Stages : slots'[s] = IF s = stage THEN p ELSE slots[s]
  BY <1>1 DEF SlotsInv
<1>9. SlotsInv'
  BY <1>1, <1>4 DEF SlotsInv, All
<1> QED
  BY <1>7, <1>8, <1>9 DEF RegistryTypeOK

\* With every slot free the registry is in its type.
LEMMA EmptySlotsTyped ==
    ASSUME slots' = [s \in Stages |-> <<>>]
    PROVE  SlotsInv' /\ RegistryTypeOK'
<1>1. ToSet(<<>>) = {} /\ Len(<<>>) = 0
  BY DEF ToSet
<1>2. Cardinality({}) = 0 /\ MaxSlots \in Nat
  BY FS_EmptySet, RegistryAssumption
<1>3. <<>> \in Seq(PluginModels \cup PluginXforms \cup PluginCoders)
  OBVIOUS
<1>4. \A s \in Stages : slots'[s] = <<>>
  OBVIOUS
<1> QED
  <2> DEFINE e == <<>>
  <2>1. e \in Seq(PluginModels \cup PluginXforms \cup PluginCoders) /\ ToSet(e) = {} /\ Len(e) = 0
    BY <1>1, <1>3
  <2>2. slots' = [s \in Stages |-> e] /\ \A s \in Stages : slots'[s] = e
    BY <1>4
  <2> HIDE DEF e
  <2>3. SlotsInv'
    BY <2>1, <2>2 DEF SlotsInv
  <2>4. RegistryTypeOK'
    <3> SUFFICES ASSUME NEW s \in Stages
                 PROVE  /\ ToSet(slots'[s]) \subseteq PluginIds[s]
                        /\ Len(slots'[s]) = Cardinality(ToSet(slots'[s]))
                        /\ Len(slots'[s]) <= MaxSlots
      BY Zenon DEF RegistryTypeOK
    <3>1. slots'[s] = e
      BY <2>2
    <3>2. ToSet(slots'[s]) = {} /\ Len(slots'[s]) = 0
      BY <2>1, <3>1, Zenon
    <3>3. Cardinality(ToSet(slots'[s])) = 0
      BY <1>2, <3>2, Zenon
    <3>4. 0 <= MaxSlots
      BY <1>2
    <3> QED
      BY <3>2, <3>3, <3>4, Zenon
  <2> QED
    BY <2>3, <2>4

\* Before any call every local and every slot is in its type.
LEMMA TypesInit ==
    Init => TypesInv
<1> SUFFICES ASSUME Init
             PROVE  TypesInv
  OBVIOUS
<1>1. enc = EncFrame /\ dec = DecFrame /\ slots = [s \in Stages |-> <<>>]
  BY DEF Init, EncoderInit, RegistryInit
<1>2. EncTypes /\ DecTypes
  BY <1>1 DEF EncTypes, DecTypes, EncFrame, DecFrame, Statuses, Values
<1>3. ToSet(<<>>) = {} /\ Len(<<>>) = 0
  BY DEF ToSet
<1>4. Cardinality({}) = 0 /\ MaxSlots \in Nat
  BY FS_EmptySet, RegistryAssumption
<1>5. <<>> \in Seq(PluginModels \cup PluginXforms \cup PluginCoders)
  OBVIOUS
<1>6. \A s \in Stages : slots[s] = <<>>
  BY <1>1
<1> QED
  <2> DEFINE e == <<>>
  <2>1. e \in Seq(PluginModels \cup PluginXforms \cup PluginCoders) /\ ToSet(e) = {} /\ Len(e) = 0
    BY <1>3, <1>5
  <2>2. slots = [s \in Stages |-> e] /\ \A s \in Stages : slots[s] = e
    BY <1>1
  <2> HIDE DEF e
  <2>3. SlotsInv
    BY <2>1, <2>2 DEF SlotsInv
  <2>4. RegistryTypeOK
    <3> SUFFICES ASSUME NEW s \in Stages
                 PROVE  /\ ToSet(slots[s]) \subseteq PluginIds[s]
                        /\ Len(slots[s]) = Cardinality(ToSet(slots[s]))
                        /\ Len(slots[s]) <= MaxSlots
      BY Zenon DEF RegistryTypeOK
    <3>1. slots[s] = e
      BY <2>2
    <3>2. ToSet(slots[s]) = {} /\ Len(slots[s]) = 0
      BY <2>1, <3>1, Zenon
    <3>3. Cardinality(ToSet(slots[s])) = 0
      BY <1>4, <3>2, Zenon
    <3>4. 0 <= MaxSlots
      BY <1>4
    <3> QED
      BY <3>2, <3>3, <3>4, Zenon
  <2> QED
    BY <1>2, <2>3, <2>4 DEF TypesInv

\* Every step of the program and of the two drivers keeps the types.
LEMMA TypesStep ==
    ASSUME PipeInv, TypesInv, [Next]_vars
    PROVE  TypesInv'
<1>1. CaseOK(spec, src) /\ EncShape /\ DecShape
  BY DEF PipeInv, EncPath
<1>2. CASE RegisterBackend
  <2>1. PICK stage \in Stages : \E id : Register(stage, id)
    BY <1>2 DEF RegisterBackend
  <2>2. UNCHANGED <<enc, dec>>
    BY <1>2 DEF RegisterBackend
  <2> QED
    BY <2>1, <2>2, RegisterTyped DEF TypesInv, EncTypes, DecTypes
<1>3. CASE ClearBackends
  BY <1>3, EmptySlotsTyped DEF ClearBackends, Clear, TypesInv, EncTypes, DecTypes
<1>4. CASE Encoding
  BY <1>1, <1>4, EncoderTyped DEF Encoding, TypesInv, DecTypes, SlotsInv, RegistryTypeOK
<1>5. CASE Deliver
  BY <1>5 DEF Deliver, TypesInv, EncTypes, DecTypes, SlotsInv, RegistryTypeOK
<1>6. CASE ReadBack
  <2>1. PICK entry, dst : Decode(entry, dst)
    BY <1>6 DEF ReadBack
  <2>2. FirstOf(DecodeChecks(entry, dst)) \in Statuses
    BY StatusIs
  <2>3. \/ DecContinue([dec EXCEPT !.pc = "side", !.entry = entry])
        \/ \E st \in Statuses : DecReturn(st)
    BY <2>1, <2>2, DecodeIs
  <2>4. DecTypes'
    <3>1. CASE DecContinue([dec EXCEPT !.pc = "side", !.entry = entry])
      BY <1>1, <3>1 DEF DecContinue, TypesInv, DecTypes, DecShape, DecFields
    <3>2. CASE \E st \in Statuses : DecReturn(st)
      BY <1>1, <3>2, DecEndsTyped DEF TypesInv
    <3> QED
      BY <2>3, <3>1, <3>2
  <2> QED
    BY <1>6, <2>4 DEF ReadBack, TypesInv, EncTypes, SlotsInv, RegistryTypeOK
<1>7. CASE Decoding
  BY <1>1, <1>7, DecoderTyped DEF Decoding, TypesInv, EncTypes, SlotsInv, RegistryTypeOK
<1>8. CASE UNCHANGED vars
  BY <1>8 DEF vars, TypesInv, EncTypes, DecTypes, SlotsInv, RegistryTypeOK
<1> QED
  BY <1>2, <1>3, <1>4, <1>5, <1>6, <1>7, <1>8 DEF Next, Finished

\* Every local of the two calls and every registry slot stays in its type: a
\* call returns one of the statuses the API names, and no stage has more ids
\* registered than slots, nor one of them twice.
THEOREM TypeCorrect == Spec => []TypeOK
<1>1. PipeInv /\ TypesInv /\ [Next]_vars => TypesInv'
  BY TypesStep
<1>2. PipeInv /\ TypesInv => TypeOK
  BY DEF PipeInv, EncPath, EncShape, DecShape, TypesInv, EncTypes, DecTypes, TypeOK
<1> QED
  BY TypesInit, PipelineInvariant, <1>1, <1>2, PTL DEF Spec
=============================================================================
