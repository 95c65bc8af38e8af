--------------------------- MODULE PushPullProofs ---------------------------
(***************************************************************************)
(* What the push/pull pair promises, for every target, every set of record *)
(* lengths, pushes, pulls and chunks: the elements handed out are the      *)
(* first ones absorbed, up to a checkpoint that both sides agree on, also  *)
(* when memory runs out, bytes are damaged or the input is cut short; and  *)
(* without damage, and fed to its end, the pair is the pipe of ElementPipe.*)
(*                                                                         *)
(* The argument: the queue, the bytes on the way and the decoder's input   *)
(* are three pieces of one stream, which the history (absorbed, marks,     *)
(* ends) determines; a step moves the cuts between them, or appends a      *)
(* record to the end.                                                      *)
(***************************************************************************)
EXTENDS PushPull, SequenceTheorems, TLAPS

\* Where block b ends in the encoded stream, and in the elements absorbed.
EndAt(b) == IF b = 0 THEN 0 ELSE ends[b]
CutAt(b) == IF b = 0 THEN 0 ELSE marks[b].bytes

\* The elements of block b, and the byte its record has at a position of the
\* encoded stream.
BlockElems(b)     == SubSeq(absorbed, CutAt(b - 1) + 1, CutAt(b))
RecordByte(b, at) == [elems |-> BlockElems(b),
                      size |-> EndAt(b) - EndAt(b - 1),
                      pos |-> at - EndAt(b - 1)]

\* The bytes of s are those of the encoded stream behind its first `from`.
Continues(s, from) ==
    \A i \in 1..Len(s), b \in 1..e_blocks :
        EndAt(b - 1) < from + i /\ from + i <= EndAt(b)
            => s[i] = RecordByte(b, from + i)

\* The history lists the blocks emitted, each of them with room for a header
\* and with elements of its own.
Listed ==
    /\ Len(marks) = e_blocks /\ Len(ends) = e_blocks
    /\ \A b \in 1..e_blocks : marks[b].blocks = b
    /\ \A a, b \in 0..e_blocks : a < b => /\ EndAt(a) + HeaderBytes <= EndAt(b)
                                          /\ CutAt(a) < CutAt(b)

\* What is pending in the encoder is what was absorbed since the last block.
Pending ==
    /\ e_consumed = Len(absorbed)
    /\ CutAt(e_blocks) + Len(e_in) = Len(absorbed)
    /\ e_in = SubSeq(absorbed, CutAt(e_blocks) + 1, Len(absorbed))

\* The decoder is at a block boundary, with the elements before it handed out.
AtBoundary ==
    /\ d_blocks <= e_blocks
    /\ d_produced = CutAt(d_blocks)
    /\ d_delivered = SubSeq(absorbed, 1, CutAt(d_blocks))

\* Decoder's input, bytes on the way and queue follow each other.
Pieces ==
    /\ EndAt(d_blocks) + Len(d_in) = fed
    /\ fed + Len(wire) = e_pulled
    /\ e_head <= Len(e_out)
    /\ e_pulled + Len(e_out) = EndAt(e_blocks) + e_head
    /\ e_moved + e_head <= e_pulled

\* And they hold the bytes of the stream.
Bytes ==
    /\ Continues(d_in, EndAt(d_blocks))
    /\ Continues(wire, fed)
    /\ Continues(e_out, e_pulled - e_head)

\* What the decoder knows of the record in progress.
InProgress ==
    /\ d_phase \in {"parsed", "ready"} =>
          /\ Len(d_in) >= HeaderBytes
          /\ d_total = EndAt(d_blocks + 1) - EndAt(d_blocks)
    /\ d_phase = "ready" => Len(d_in) >= d_total
    /\ d_reported = "done" => d_finished /\ d_in = <<>> /\ d_phase = "header"

StreamInv ==
    /\ TypeOK
    /\ Listed /\ Pending /\ AtBoundary /\ Pieces /\ Bytes /\ InProgress

\* A caller that ends the input only when all is carried, and a transport
\* that damages nothing.
Drained  == ~ more => e_head = Len(e_out)
Closed   == e_finished => e_in = <<>> /\ e_at = "idle"
EndedAll == d_finished => AllCarried

CarriedInv == Drained /\ Closed /\ EndedAll

-----------------------------------------------------------------------------
(* Sequences.                                                              *)

\* What a sequence says at and before n does not depend on what follows.
LEMMA SubSeqKept ==
    ASSUME NEW S, NEW s \in Seq(S), NEW t \in Seq(S), NEW m \in Nat \ {0},
           NEW n \in Nat, n <= Len(s), n <= Len(t), \A i \in 1..n : t[i] = s[i]
    PROVE  SubSeq(t, m, n) = SubSeq(s, m, n)
  OBVIOUS

\* Nothing is a sequence of anything.
LEMMA NothingIsASeq ==
    /\ Len(<<>>) = 0
    /\ <<>> \in Seq(Nat) /\ <<>> \in Seq(Byte)
    /\ <<>> \in Seq([blocks : Nat, bytes : Nat])
    /\ 0 <= Target /\ 0 \in Nat /\ 1 \in Nat
  BY PushPullAssumption, EmptySeq

\* A piece of a sequence is a sequence of the same elements.
LEMMA SubSeqType ==
    ASSUME NEW S, NEW s \in Seq(S), NEW m \in Nat \ {0}, NEW n \in Nat,
           n <= Len(s)
    PROVE  /\ SubSeq(s, m, n) \in Seq(S)
           /\ Len(SubSeq(s, m, n)) = IF m <= n THEN n - m + 1 ELSE 0
           /\ \A i \in 1..(n - m + 1) : SubSeq(s, m, n)[i] = s[m + i - 1]
  BY SubSeqProperties

\* The end of a sequence grows with it.
LEMMA SuffixGrows ==
    ASSUME NEW S, NEW s \in Seq(S), NEW t \in Seq(S), NEW m \in Nat, m <= Len(s)
    PROVE  SubSeq(s, m + 1, Len(s)) \o t = SubSeq(s \o t, m + 1, Len(s \o t))
<1> DEFINE u == SubSeq(s, m + 1, Len(s))
           v == SubSeq(s \o t, m + 1, Len(s \o t))
<1>1. /\ Len(s) \in Nat /\ Len(t) \in Nat
      /\ s \o t \in Seq(S) /\ Len(s \o t) = Len(s) + Len(t)
      /\ \A i \in 1..(Len(s) + Len(t)) :
            (s \o t)[i] = IF i <= Len(s) THEN s[i] ELSE t[i - Len(s)]
  BY LenProperties, ConcatProperties
<1>2. /\ u \in Seq(S) /\ Len(u) = Len(s) - m
      /\ \A i \in 1..(Len(s) - m) : u[i] = s[m + i]
  BY <1>1, SubSeqType
<1>3. /\ v \in Seq(S) /\ Len(v) = Len(s) + Len(t) - m
      /\ \A i \in 1..(Len(s) + Len(t) - m) : v[i] = (s \o t)[m + i]
  BY <1>1, SubSeqType
<1>4. /\ u \o t \in Seq(S) /\ Len(u \o t) = Len(u) + Len(t)
      /\ \A i \in 1..(Len(u) + Len(t)) :
            (u \o t)[i] = IF i <= Len(u) THEN u[i] ELSE t[i - Len(u)]
  BY <1>2, ConcatProperties
<1> HIDE DEF u, v
<1>5. \A i \in 1..Len(u \o t) : (u \o t)[i] = v[i]
  BY <1>1, <1>2, <1>3, <1>4
<1>6. Len(u \o t) = Len(v)
  BY <1>1, <1>2, <1>3, <1>4
<1>7. u \o t = v
  BY <1>3, <1>4, <1>5, <1>6, SeqEqual
<1> QED
  BY <1>7 DEF u, v

\* The bytes of a record.
LEMMA RecordBytesType ==
    ASSUME NEW elems \in Seq(Nat), NEW size \in Nat
    PROVE  /\ E!RecordBytes(elems, size) \in Seq(Byte)
           /\ Len(E!RecordBytes(elems, size)) = size
           /\ \A k \in 1..size : E!RecordBytes(elems, size)[k]
                                    = [elems |-> elems, size |-> size, pos |-> k]
  BY DEF E!RecordBytes, Byte

-----------------------------------------------------------------------------
(* The history.                                                            *)

\* Blocks lie where they are listed.
LEMMA ListedBounds ==
    ASSUME TypeOK, Listed, Pending
    PROVE  \A b \in 0..e_blocks :
              /\ EndAt(b) \in Nat /\ EndAt(b) <= EndAt(e_blocks)
              /\ CutAt(b) \in Nat /\ CutAt(b) <= CutAt(e_blocks)
              /\ CutAt(b) <= Len(absorbed)
<1> SUFFICES ASSUME NEW b \in 0..e_blocks
             PROVE  /\ EndAt(b) \in Nat /\ EndAt(b) <= EndAt(e_blocks)
                    /\ CutAt(b) \in Nat /\ CutAt(b) <= CutAt(e_blocks)
                    /\ CutAt(b) <= Len(absorbed)
  OBVIOUS
<1>1. /\ e_blocks \in Nat /\ HeaderBytes \in Nat /\ absorbed \in Seq(Nat)
      /\ ends \in Seq(Nat) /\ marks \in Seq([blocks : Nat, bytes : Nat])
      /\ e_in \in Seq(Nat)
  BY PushPullAssumption DEF TypeOK
<1>2. ASSUME NEW a \in 0..e_blocks
      PROVE  EndAt(a) \in Nat /\ CutAt(a) \in Nat
  <2>1. CASE a = 0
    BY <2>1 DEF EndAt, CutAt
  <2>2. CASE a # 0
    <3>1. a \in 1..Len(ends) /\ a \in 1..Len(marks)
      BY <1>1, <2>2 DEF Listed
    <3>2. ends[a] \in Nat /\ marks[a] \in [blocks : Nat, bytes : Nat]
      BY <1>1, <3>1, ElementOfSeq
    <3> QED
      BY <2>2, <3>2 DEF EndAt, CutAt
  <2> QED
    BY <2>1, <2>2
<1>3. /\ EndAt(b) \in Nat /\ EndAt(e_blocks) \in Nat
      /\ CutAt(b) \in Nat /\ CutAt(e_blocks) \in Nat
  BY <1>1, <1>2
<1>4. CutAt(e_blocks) <= Len(absorbed) /\ Len(absorbed) \in Nat
  BY <1>1, <1>3, LenProperties DEF Pending
<1>5. b < e_blocks => /\ EndAt(b) + HeaderBytes <= EndAt(e_blocks)
                      /\ CutAt(b) < CutAt(e_blocks)
  BY <1>1 DEF Listed
<1>6. b < e_blocks \/ b = e_blocks
  BY <1>1
<1> QED
  BY <1>1, <1>3, <1>4, <1>5, <1>6

\* Absorbing more, or emitting another block, changes no block listed before.
LEMMA HistoryKept ==
    ASSUME TypeOK, Listed, Pending,
           absorbed' \in Seq(Nat), Len(absorbed) <= Len(absorbed'),
           \A i \in 1..Len(absorbed) : absorbed'[i] = absorbed[i],
           \A b \in 1..e_blocks : marks'[b] = marks[b] /\ ends'[b] = ends[b]
    PROVE  /\ \A b \in 0..e_blocks : EndAt(b)' = EndAt(b) /\ CutAt(b)' = CutAt(b)
           /\ \A b \in 1..e_blocks : BlockElems(b)' = BlockElems(b)
           /\ \A b \in 1..e_blocks : \A at : RecordByte(b, at)' = RecordByte(b, at)
<1>1. \A b \in 0..e_blocks : EndAt(b)' = EndAt(b) /\ CutAt(b)' = CutAt(b)
  <2>1. \A b \in 0..e_blocks : b = 0 \/ b \in 1..e_blocks
    BY DEF TypeOK
  <2> QED
    BY <2>1 DEF EndAt, CutAt
<1>2. ASSUME NEW b \in 1..e_blocks
      PROVE  BlockElems(b)' = BlockElems(b)
  <2>1. b - 1 \in 0..e_blocks /\ b \in 0..e_blocks
    BY DEF TypeOK
  <2>2. /\ CutAt(b - 1) \in Nat
        /\ CutAt(b) \in Nat /\ CutAt(b) <= Len(absorbed)
    BY <2>1, ListedBounds
  <2>3. absorbed \in Seq(Nat) /\ Len(absorbed) \in Nat /\ Len(absorbed') \in Nat
    BY LenProperties DEF TypeOK
  <2> DEFINE m == CutAt(b - 1) + 1
             n == CutAt(b)
  <2>4. SubSeq(absorbed', m, n) = SubSeq(absorbed, m, n)
    <3>1. /\ m \in Nat \ {0} /\ n \in Nat
          /\ n <= Len(absorbed) /\ n <= Len(absorbed')
          /\ \A i \in 1..n : absorbed'[i] = absorbed[i]
      BY <2>2, <2>3
    <3> HIDE DEF m, n
    <3> QED
      BY <2>3, <3>1, SubSeqKept
  <2> QED
    BY <1>1, <2>1, <2>4 DEF BlockElems
<1>3. \A b \in 1..e_blocks : b - 1 \in 0..e_blocks /\ b \in 0..e_blocks
  BY DEF TypeOK
<1> QED
  BY <1>1, <1>2, <1>3 DEF RecordByte

\* Nothing of the history changes.
Quiet == UNCHANGED <<absorbed, marks, ends, e_blocks, e_in, e_consumed>>

\* A step that leaves the history alone leaves what follows from it alone.
LEMMA QuietKeeps ==
    ASSUME Listed, Pending, Quiet
    PROVE  /\ Listed' /\ Pending'
           /\ \A b : EndAt(b)' = EndAt(b) /\ CutAt(b)' = CutAt(b)
           /\ \A b, at : RecordByte(b, at)' = RecordByte(b, at)
<1>1. \A b : EndAt(b)' = EndAt(b) /\ CutAt(b)' = CutAt(b)
  BY DEF Quiet, EndAt, CutAt
<1>2. \A b, at : RecordByte(b, at)' = RecordByte(b, at)
  BY <1>1 DEF Quiet, RecordByte, BlockElems
<1>3. Listed'
  BY <1>1 DEF Quiet, Listed
<1>4. Pending'
  BY <1>1 DEF Quiet, Pending
<1> QED
  BY <1>1, <1>2, <1>3, <1>4

-----------------------------------------------------------------------------
(* The initial state, and a reset.                                         *)

\* An empty stream.
LEMMA StreamInit ==
    Init => StreamInv
<1> SUFFICES ASSUME Init
             PROVE  StreamInv
  OBVIOUS
<1> USE DEF Init, E!Init, D!Init
<1>1. TypeOK
  BY NothingIsASeq DEF TypeOK
<1>2. Listed /\ Pending /\ AtBoundary /\ Pieces
  BY DEF Listed, Pending, AtBoundary, Pieces, EndAt, CutAt
<1>3. Bytes /\ InProgress
  BY DEF Bytes, InProgress, Continues
<1> QED
  BY <1>1, <1>2, <1>3 DEF StreamInv

\* Another one, whatever the last came to.
LEMMA ResetKeeps ==
    ASSUME StreamInv, ResetBoth
    PROVE  StreamInv'
<1> USE DEF ResetBoth, E!Reset, D!Reset
<1>1. TypeOK'
  <2>1. streams + 1 \in Nat /\ e_rest \in Seq(Nat) /\ e_at \in {"idle", "absorb", "emit"}
    BY DEF StreamInv, TypeOK
  <2> QED
    BY <2>1, NothingIsASeq DEF TypeOK
<1>2. Listed' /\ Pending' /\ AtBoundary' /\ Pieces'
  BY DEF Listed, Pending, AtBoundary, Pieces, EndAt, CutAt
<1>3. Bytes' /\ InProgress'
  BY DEF Bytes, InProgress, Continues
<1> QED
  BY <1>1, <1>2, <1>3 DEF StreamInv

-----------------------------------------------------------------------------
(* The encoder.                                                            *)

\* A push that begins, and one that fails, absorb nothing.
LEMMA PushKeeps ==
    ASSUME StreamInv, (\E n \in PushSizes : CallPush(n)) \/ PushFails
    PROVE  StreamInv'
<1>1. /\ Quiet
      /\ UNCHANGED <<e_out, e_head, e_finished, e_moved, e_pulled, decoder,
                     wire, streams, fed>>
      /\ more' = TRUE
  BY DEF CallPush, PushFails, E!Push, E!PushFails, EncoderStep, Quiet, decoder
<1>2. e_rest' \in Seq(Nat) /\ e_offered' \in Nat /\ e_at' \in {"idle", "absorb", "emit"}
  <2>1. ASSUME NEW n \in PushSizes, CallPush(n)
        PROVE  e_rest' \in Seq(Nat) /\ e_offered' \in Nat /\ e_at' = "absorb"
    <3>1. n \in Nat /\ e_offered \in Nat
      BY PushPullAssumption DEF StreamInv, TypeOK
    <3> QED
      BY <2>1, <3>1 DEF CallPush, E!Push
  <2>2. PushFails => e_rest' = <<>> /\ e_offered' = e_offered /\ e_at' = "idle"
    BY DEF PushFails, E!PushFails
  <2>3. e_offered \in Nat
    BY DEF StreamInv, TypeOK
  <2> QED
    BY <2>1, <2>2, <2>3, NothingIsASeq
<1>3. TypeOK'
  BY <1>1, <1>2 DEF StreamInv, TypeOK, Quiet, decoder
<1>4. /\ Listed' /\ Pending'
      /\ \A b : EndAt(b)' = EndAt(b) /\ CutAt(b)' = CutAt(b)
      /\ \A b, at : RecordByte(b, at)' = RecordByte(b, at)
  BY <1>1, QuietKeeps DEF StreamInv
<1>5. AtBoundary' /\ Pieces' /\ InProgress'
  BY <1>1, <1>4 DEF StreamInv, AtBoundary, Pieces, InProgress, Quiet, decoder
<1>6. Bytes'
  BY <1>1, <1>4 DEF StreamInv, Bytes, Continues, Quiet, decoder
<1> QED
  BY <1>3, <1>4, <1>5, <1>6 DEF StreamInv

\* Absorbing what fits adds to what is pending, and to nothing else.
LEMMA AbsorbKeeps ==
    ASSUME StreamInv, Absorb
    PROVE  StreamInv'
<1> DEFINE taken == SubSeq(e_rest, 1, E!Take)
<1>1. /\ e_in \in Seq(Nat) /\ e_rest \in Seq(Nat) /\ absorbed \in Seq(Nat)
      /\ Len(e_in) \in Nat /\ Len(e_rest) \in Nat /\ Len(absorbed) \in Nat
      /\ Target \in Nat /\ Len(e_in) <= Target /\ e_blocks \in Nat
  BY PushPullAssumption, LenProperties DEF StreamInv, TypeOK
<1>2. E!Take \in Nat /\ E!Take <= Len(e_rest) /\ Len(e_in) + E!Take <= Target
  BY <1>1 DEF E!Take
<1>3. taken \in Seq(Nat) /\ Len(taken) = E!Take
  BY <1>1, <1>2, SubSeqType
<1>4. /\ e_in' = e_in \o taken /\ absorbed' = absorbed \o taken
      /\ e_consumed' = e_consumed + E!Take
      /\ e_rest' = SubSeq(e_rest, E!Take + 1, Len(e_rest))
      /\ e_at' \in {"idle", "absorb", "emit"}
      /\ UNCHANGED <<e_out, e_head, e_blocks, e_finished, e_offered, e_moved,
                     e_pulled, decoder, wire, streams, fed, marks, ends>>
      /\ more' = TRUE
  BY DEF Absorb, E!Absorb, E!Drop, EncoderStep, decoder
<1> HIDE DEF taken
<1>5. /\ e_in' \in Seq(Nat) /\ Len(e_in') = Len(e_in) + E!Take
      /\ absorbed' \in Seq(Nat) /\ Len(absorbed') = Len(absorbed) + E!Take
      /\ \A i \in 1..Len(absorbed) : absorbed'[i] = absorbed[i]
      /\ e_rest' \in Seq(Nat)
  <2>1. e_rest' \in Seq(Nat)
    <3>1. E!Take + 1 \in Nat \ {0} /\ Len(e_rest) <= Len(e_rest)
      BY <1>1, <1>2
    <3> QED
      BY <1>1, <1>4, <3>1, SubSeqType
  <2>2. /\ e_in' \in Seq(Nat) /\ Len(e_in') = Len(e_in) + Len(taken)
        /\ absorbed' \in Seq(Nat) /\ Len(absorbed') = Len(absorbed) + Len(taken)
        /\ \A i \in 1..(Len(absorbed) + Len(taken)) :
              absorbed'[i] = IF i <= Len(absorbed) THEN absorbed[i]
                             ELSE taken[i - Len(absorbed)]
    BY <1>1, <1>3, <1>4, ConcatProperties
  <2> QED
    BY <1>1, <1>2, <1>3, <2>1, <2>2
<1>6. TypeOK'
  <2>1. e_consumed + E!Take \in Nat /\ Len(e_in') <= Target
    BY <1>1, <1>2, <1>5 DEF StreamInv, TypeOK
  <2> QED
    BY <1>4, <1>5, <2>1 DEF StreamInv, TypeOK, decoder
<1>7. /\ \A b \in 0..e_blocks : EndAt(b)' = EndAt(b) /\ CutAt(b)' = CutAt(b)
      /\ \A b \in 1..e_blocks : \A at : RecordByte(b, at)' = RecordByte(b, at)
  <2>1. Len(absorbed) <= Len(absorbed')
    BY <1>1, <1>2, <1>5
  <2> QED
    BY <1>4, <1>5, <2>1, HistoryKept DEF StreamInv
<1>8. Listed'
  BY <1>4, <1>7 DEF StreamInv, Listed
<1>9. Pending'
  <2> DEFINE cut == CutAt(e_blocks)
  <2>1. cut \in Nat /\ cut <= Len(absorbed)
    <3>1. e_blocks \in 0..e_blocks
      BY <1>1
    <3> QED
      BY <3>1, ListedBounds DEF StreamInv
  <2>2. e_consumed' = Len(absorbed') /\ cut + Len(e_in') = Len(absorbed')
    <3>1. e_consumed = Len(absorbed) /\ cut + Len(e_in) = Len(absorbed)
      BY DEF StreamInv, Pending
    <3>2. e_consumed' = e_consumed + E!Take
      BY <1>4
    <3>3. Len(e_in') = Len(e_in) + E!Take /\ Len(absorbed') = Len(absorbed) + E!Take
      BY <1>5
    <3> HIDE DEF cut
    <3> QED
      BY <1>1, <1>2, <2>1, <3>1, <3>2, <3>3
  <2>3. e_in' = SubSeq(absorbed', CutAt(e_blocks) + 1, Len(absorbed'))
    BY <1>1, <1>3, <1>4, <2>1, SuffixGrows DEF StreamInv, Pending
  <2> QED
    BY <1>4, <2>1, <2>2, <2>3 DEF Pending, CutAt
<1>10. AtBoundary'
  <2>1. d_blocks \in 0..e_blocks
    BY DEF StreamInv, TypeOK, AtBoundary
  <2>2. CutAt(d_blocks) \in Nat /\ CutAt(d_blocks) <= Len(absorbed)
    BY <2>1, ListedBounds DEF StreamInv
  <2>3. SubSeq(absorbed', 1, CutAt(d_blocks)) = SubSeq(absorbed, 1, CutAt(d_blocks))
    <3>1. CutAt(d_blocks) <= Len(absorbed') /\ Len(absorbed') \in Nat
      BY <1>1, <1>2, <1>5, <2>2
    <3>2. \A i \in 1..CutAt(d_blocks) : absorbed'[i] = absorbed[i]
      BY <1>1, <1>5, <2>2
    <3> QED
      BY <1>1, <1>5, <2>2, <3>1, <3>2, SubSeqKept
  <2>4. CutAt(d_blocks)' = CutAt(d_blocks)
    BY <1>4 DEF CutAt, decoder
  <2> QED
    BY <1>4, <2>3, <2>4 DEF StreamInv, AtBoundary, decoder
<1>11. Pieces' /\ InProgress'
  BY <1>4 DEF StreamInv, Pieces, InProgress, EndAt, decoder
<1>12. Bytes'
  <2>1. \A b \in 1..e_blocks : b - 1 \in 0..e_blocks /\ b \in 0..e_blocks
    BY <1>1
  <2>2. EndAt(d_blocks)' = EndAt(d_blocks)
    BY <1>4 DEF EndAt, decoder
  <2> QED
    BY <1>4, <1>7, <2>1, <2>2 DEF StreamInv, Bytes, Continues, decoder
<1> QED
  BY <1>6, <1>8, <1>9, <1>10, <1>11, <1>12 DEF StreamInv

\* A block, when one is emitted, is all that is pending.
EmitsAll ==
    /\ e_in # <<>>
    /\ E!EmitBlock(Len(e_in))
    /\ EncoderStep
    /\ UNCHANGED <<absorbed, e_head, e_consumed, e_rest, e_offered, e_moved,
                   e_pulled>>
    /\ e_at' \in {"idle", "absorb", "emit"} /\ e_finished' \in BOOLEAN

\* Every step that emits does so: a full block is what the buffer holds,
\* since the buffer never outgrows one.
LEMMA EmitSteps ==
    ASSUME StreamInv
    PROVE  /\ EmitFull => EmitsAll
           /\ CallFlush => EmitsAll
           /\ CallFinish /\ e_in # <<>> => EmitsAll
<1>1. /\ Len(e_in) \in Nat /\ Len(e_in) <= Target /\ Target \in Nat \ {0}
      /\ e_in \in Seq(Nat) /\ e_finished \in BOOLEAN
      /\ e_at \in {"idle", "absorb", "emit"}
  BY PushPullAssumption, LenProperties DEF StreamInv, TypeOK
<1>2. EmitFull => EmitsAll
  <2> SUFFICES ASSUME EmitFull
               PROVE  EmitsAll
    OBVIOUS
  <2>1. Target <= Len(e_in)
    BY DEF EmitFull, E!EmitFull, E!EmitBlock
  <2>2. Target = Len(e_in) /\ e_in # <<>>
    BY <1>1, <2>1, EmptySeq
  <2> QED
    BY <1>1, <2>2 DEF EmitFull, E!EmitFull, EmitsAll
<1>3. CallFlush => EmitsAll
  BY <1>1 DEF CallFlush, E!Flush, EmitsAll
<1>4. CallFinish /\ e_in # <<>> => EmitsAll
  BY <1>1 DEF CallFinish, E!Finish, EmitsAll
<1> QED
  BY <1>2, <1>3, <1>4

\* What emitting a block adds to the queue and to the history.
LEMMA EmitAdds ==
    ASSUME StreamInv, EmitsAll
    PROVE  \E size \in Nat \ {0} :
              /\ size >= HeaderBytes
              /\ e_out' \in Seq(Byte)
              /\ Len(e_out') = Len(e_out) + size
              /\ \A i \in 1..Len(e_out) : e_out'[i] = e_out[i]
              /\ \A k \in 1..size : e_out'[Len(e_out) + k]
                                       = [elems |-> e_in, size |-> size, pos |-> k]
              /\ e_in' = <<>> /\ e_blocks' = e_blocks + 1
              /\ marks' = Append(marks, [blocks |-> e_blocks + 1, bytes |-> Len(absorbed)])
              /\ ends' = Append(ends, EndAt(e_blocks) + size)
<1>1. /\ e_in \in Seq(Nat) /\ Len(e_in) \in Nat /\ e_out \in Seq(Byte)
      /\ Len(e_out) \in Nat /\ e_blocks \in Nat /\ e_pulled \in Nat
      /\ e_head \in Nat /\ e_consumed \in Nat
  BY LenProperties DEF StreamInv, TypeOK
<1>2. PICK size \in RecordSizes :
         e_out' = e_out \o E!RecordBytes(SubSeq(e_in, 1, Len(e_in)), size)
  BY DEF EmitsAll, E!EmitBlock
<1>3. size \in Nat \ {0} /\ size >= HeaderBytes
  BY PushPullAssumption
<1>4. SubSeq(e_in, 1, Len(e_in)) = e_in
  BY <1>1, SubSeqFull
<1> DEFINE bytes == E!RecordBytes(e_in, size)
<1>5. /\ bytes \in Seq(Byte) /\ Len(bytes) = size
      /\ \A k \in 1..size : bytes[k] = [elems |-> e_in, size |-> size, pos |-> k]
  BY <1>1, <1>3, RecordBytesType
<1>6. e_out' = e_out \o bytes
  BY <1>2, <1>4
<1> HIDE DEF bytes
<1>7. /\ e_out' \in Seq(Byte) /\ Len(e_out') = Len(e_out) + size
      /\ \A i \in 1..(Len(e_out) + size) :
            e_out'[i] = IF i <= Len(e_out) THEN e_out[i] ELSE bytes[i - Len(e_out)]
  BY <1>1, <1>5, <1>6, ConcatProperties
<1>8. /\ \A i \in 1..Len(e_out) : e_out'[i] = e_out[i]
      /\ \A k \in 1..size : e_out'[Len(e_out) + k]
                               = [elems |-> e_in, size |-> size, pos |-> k]
  <2>1. \A k \in 1..size : /\ Len(e_out) + k \in 1..(Len(e_out) + size)
                            /\ ~ (Len(e_out) + k <= Len(e_out))
                            /\ Len(e_out) + k - Len(e_out) = k
    BY <1>1, <1>3
  <2>2. \A i \in 1..Len(e_out) : i \in 1..(Len(e_out) + size) /\ i <= Len(e_out)
    BY <1>1, <1>3
  <2> QED
    BY <1>5, <1>7, <2>1, <2>2
<1>9. e_in' = <<>> /\ e_blocks' = e_blocks + 1 /\ e_blocks' # e_blocks
  <2>1. SubSeq(e_in, Len(e_in) + 1, Len(e_in)) = <<>>
    BY <1>1, SubSeqEmpty
  <2>2. e_in' = <<>> /\ e_blocks' = e_blocks + 1
    BY <2>1 DEF EmitsAll, E!EmitBlock, E!Drop
  <2> QED
    BY <1>1, <2>2
<1>10. marks' = Append(marks, [blocks |-> e_blocks + 1, bytes |-> Len(absorbed)])
  <2>1. e_consumed' - Len(e_in') = Len(absorbed)
    <3>1. e_consumed' = Len(absorbed) /\ Len(absorbed) \in Nat /\ Len(e_in') = 0
      BY <1>1, <1>9, EmptySeq DEF EmitsAll, StreamInv, Pending
    <3> QED
      BY <3>1
  <2>2. marks' = Append(marks, [blocks |-> e_blocks', bytes |-> e_consumed' - Len(e_in')])
    BY <1>9 DEF EmitsAll, EncoderStep, E!Checkpoint
  <2> QED
    BY <1>9, <2>1, <2>2
<1>11. ends' = Append(ends, EndAt(e_blocks) + size)
  <2>1. EndAt(e_blocks) \in Nat
    <3>1. e_blocks \in 0..e_blocks
      BY <1>1
    <3> QED
      BY <3>1, ListedBounds DEF StreamInv
  <2>2. e_pulled + Len(e_out') - e_head = EndAt(e_blocks) + size
    <3>1. e_pulled + Len(e_out) = EndAt(e_blocks) + e_head
      BY DEF StreamInv, Pieces
    <3>2. Len(e_out') = Len(e_out) + size
      BY <1>7
    <3> DEFINE here == EndAt(e_blocks)
               len  == Len(e_out)
               next == Len(e_out')
    <3>3. /\ e_pulled + len = here + e_head /\ next = len + size
          /\ len \in Nat /\ here \in Nat /\ size \in Nat
      BY <1>1, <1>3, <2>1, <3>1, <3>2
    <3> HIDE DEF here, len, next
    <3>4. e_pulled + next - e_head = here + size
      BY <1>1, <3>3
    <3> QED
      BY <3>4 DEF here, len, next
  <2> QED
    BY <1>9, <2>2 DEF EmitsAll, EncoderStep
<1> QED
  BY <1>3, <1>7, <1>8, <1>9, <1>10, <1>11

\* The listing and the stream after a block was emitted.
LEMMA EmitExtends ==
    ASSUME StreamInv, NEW old \in Nat, e_blocks = old, NEW size \in Nat \ {0}, size >= HeaderBytes,
           e_in' = <<>>, e_blocks' = old + 1,
           marks' = Append(marks, [blocks |-> old + 1, bytes |-> Len(absorbed)]),
           ends' = Append(ends, EndAt(old) + size),
           UNCHANGED <<absorbed, e_consumed>>, e_in # <<>>
    PROVE  /\ \A b \in 0..old : EndAt(b)' = EndAt(b) /\ CutAt(b)' = CutAt(b)
           /\ \A b \in 1..old : \A at : RecordByte(b, at)' = RecordByte(b, at)
           /\ EndAt(old + 1)' = EndAt(old) + size
           /\ \A at : RecordByte(old + 1, at)'
                        = [elems |-> e_in, size |-> size, pos |-> at - EndAt(old)]
           /\ marks' \in Seq([blocks : Nat, bytes : Nat]) /\ ends' \in Seq(Nat)
           /\ Listed' /\ Pending'
<1> DEFINE new  == old + 1
           mark == [blocks |-> new, bytes |-> Len(absorbed)]
           end  == EndAt(old) + size
<1>1. /\ marks \in Seq([blocks : Nat, bytes : Nat]) /\ ends \in Seq(Nat)
      /\ absorbed \in Seq(Nat) /\ Len(absorbed) \in Nat
      /\ Len(marks) = old /\ Len(ends) = old /\ HeaderBytes \in Nat
      /\ e_in \in Seq(Nat) /\ Len(e_in) \in Nat \ {0}
  BY PushPullAssumption, LenProperties, EmptySeq DEF StreamInv, TypeOK, Listed
<1>2. old \in 0..old /\ new \in Nat \ {0} /\ new - 1 = old
  BY <1>1
<1>3. \A b \in 0..old :
         /\ EndAt(b) \in Nat /\ EndAt(b) <= EndAt(old)
         /\ CutAt(b) \in Nat /\ CutAt(b) <= CutAt(old)
  BY ListedBounds DEF StreamInv
<1>4. mark \in [blocks : Nat, bytes : Nat] /\ end \in Nat
  BY <1>1, <1>2, <1>3
<1>5. /\ marks' \in Seq([blocks : Nat, bytes : Nat]) /\ Len(marks') = new
      /\ \A b \in 1..old : marks'[b] = marks[b]
      /\ marks'[new] = mark
  BY <1>1, <1>4, AppendProperties
<1>6. /\ ends' \in Seq(Nat) /\ Len(ends') = new
      /\ \A b \in 1..old : ends'[b] = ends[b]
      /\ ends'[new] = end
  <2>1. ends' = Append(ends, end)
    OBVIOUS
  <2>2. ends \in Seq(Nat) /\ Len(ends) = old /\ new = Len(ends) + 1 /\ end \in Nat
    BY <1>1, <1>4
  <2> HIDE DEF end, new
  <2>3. /\ Append(ends, end) \in Seq(Nat) /\ Len(Append(ends, end)) = Len(ends) + 1
        /\ \A b \in 1..Len(ends) : Append(ends, end)[b] = ends[b]
        /\ Append(ends, end)[Len(ends) + 1] = end
    BY <2>2, AppendProperties
  <2> QED
    BY <2>1, <2>2, <2>3
<1>7. /\ \A b \in 0..old : EndAt(b)' = EndAt(b) /\ CutAt(b)' = CutAt(b)
      /\ \A b \in 1..old : \A at : RecordByte(b, at)' = RecordByte(b, at)
  <2>1. /\ absorbed' = absorbed /\ absorbed' \in Seq(Nat)
        /\ Len(absorbed) <= Len(absorbed')
        /\ \A i \in 1..Len(absorbed) : absorbed'[i] = absorbed[i]
    BY <1>1
  <2> QED
    BY <1>5, <1>6, <2>1, HistoryKept DEF StreamInv
<1>8. EndAt(new)' = end /\ CutAt(new)' = Len(absorbed)
  <2>1. new # 0 /\ mark.bytes = Len(absorbed)
    BY <1>2
  <2> HIDE DEF new, end
  <2> QED
    BY <1>5, <1>6, <2>1 DEF EndAt, CutAt
<1>9. /\ CutAt(old) + Len(e_in) = Len(absorbed)
      /\ e_in = SubSeq(absorbed, CutAt(old) + 1, Len(absorbed))
      /\ e_consumed = Len(absorbed)
  BY DEF StreamInv, Pending
<1>10. \A at : RecordByte(new, at)'
                 = [elems |-> e_in, size |-> size, pos |-> at - EndAt(old)]
  <2>1. BlockElems(new)' = e_in
    BY <1>2, <1>7, <1>8, <1>9 DEF BlockElems
  <2>2. EndAt(new - 1)' = EndAt(old)
    BY <1>2, <1>7
  <2>3. EndAt(new)' - EndAt(new - 1)' = size
    BY <1>2, <1>3, <1>8, <2>2
  <2> QED
    BY <2>1, <2>2, <2>3 DEF RecordByte
<1>11. Listed'
  <2>1. \A b \in 1..new : marks'[b].blocks = b
    <3>1. \A b \in 1..new : b \in 1..old \/ b = new
      BY <1>1
    <3>2. \A b \in 1..old : marks[b].blocks = b
      BY DEF StreamInv, Listed
    <3> QED
      BY <1>5, <3>1, <3>2
  <2>2. ASSUME NEW a \in 0..new, NEW b \in 0..new, a < b
        PROVE  EndAt(a)' + HeaderBytes <= EndAt(b)' /\ CutAt(a)' < CutAt(b)'
    <3>1. a \in 0..old
      BY <1>1, <2>2
    <3>2. CASE b \in 0..old
      <4>1. EndAt(a) + HeaderBytes <= EndAt(b) /\ CutAt(a) < CutAt(b)
        BY <2>2, <3>1, <3>2 DEF StreamInv, Listed
      <4> QED
        BY <1>7, <3>1, <3>2, <4>1
    <3>3. CASE b = new
      <4>1. /\ EndAt(a) \in Nat /\ EndAt(a) <= EndAt(old)
            /\ CutAt(a) \in Nat /\ CutAt(a) <= CutAt(old)
            /\ EndAt(old) \in Nat /\ CutAt(old) \in Nat
        BY <1>2, <1>3, <3>1
      <4>2. EndAt(a) + HeaderBytes <= end
        BY <1>1, <4>1
      <4>3. CutAt(a) < Len(absorbed)
        <5>1. CutAt(old) + Len(e_in) = Len(absorbed) /\ CutAt(a) <= CutAt(old)
          BY <1>9, <4>1
        <5> QED
          BY <1>1, <4>1, <5>1
      <4> QED
        BY <1>7, <1>8, <3>1, <3>3, <4>2, <4>3
    <3> QED
      BY <1>1, <3>2, <3>3
  <2> QED
    BY <1>5, <1>6, <2>1, <2>2 DEF Listed
<1>12. Pending'
  <2>1. SubSeq(absorbed, Len(absorbed) + 1, Len(absorbed)) = <<>>
    BY <1>1, SubSeqEmpty
  <2>2. Len(<<>>) = 0 /\ Len(absorbed) + 0 = Len(absorbed)
    BY <1>1, EmptySeq
  <2>3. CutAt(e_blocks)' = Len(absorbed)
    BY <1>8 DEF CutAt
  <2> QED
    BY <1>9, <2>1, <2>2, <2>3 DEF Pending
<1> QED
  BY <1>5, <1>6, <1>7, <1>8, <1>10, <1>11, <1>12

\* Where the pieces begin and end in the stream.
LEMMA PieceBounds ==
    ASSUME StreamInv
    PROVE  /\ d_blocks \in 0..e_blocks /\ EndAt(d_blocks) \in Nat
           /\ CutAt(d_blocks) \in Nat /\ CutAt(d_blocks) <= Len(absorbed)
           /\ e_blocks \in 0..e_blocks /\ EndAt(e_blocks) \in Nat
           /\ e_pulled - e_head \in Nat
           /\ EndAt(d_blocks) + Len(d_in) = fed /\ fed + Len(wire) = e_pulled
           /\ e_pulled <= EndAt(e_blocks)
           /\ (e_pulled - e_head) + Len(e_out) = EndAt(e_blocks)
           /\ Len(d_in) \in Nat /\ Len(wire) \in Nat /\ Len(e_out) \in Nat
<1>1. /\ d_blocks \in Nat /\ e_blocks \in Nat /\ e_pulled \in Nat /\ e_head \in Nat
      /\ e_moved \in Nat /\ fed \in Nat
      /\ Len(d_in) \in Nat /\ Len(wire) \in Nat /\ Len(e_out) \in Nat
  BY LenProperties DEF StreamInv, TypeOK
<1>2. d_blocks \in 0..e_blocks /\ e_blocks \in 0..e_blocks
  BY <1>1 DEF StreamInv, AtBoundary
<1>3. /\ EndAt(d_blocks) \in Nat /\ EndAt(e_blocks) \in Nat
      /\ CutAt(d_blocks) \in Nat /\ CutAt(d_blocks) <= Len(absorbed)
  BY <1>2, ListedBounds DEF StreamInv
<1> DEFINE here == EndAt(e_blocks)
           len  == Len(e_out)
<1>4. /\ EndAt(d_blocks) + Len(d_in) = fed /\ fed + Len(wire) = e_pulled
      /\ e_head <= len /\ e_pulled + len = here + e_head
      /\ e_moved + e_head <= e_pulled
  BY DEF StreamInv, Pieces
<1>5. here \in Nat /\ len \in Nat
  BY <1>1, <1>3
<1> HIDE DEF here, len
<1>6. /\ e_pulled - e_head \in Nat /\ e_pulled <= here
      /\ (e_pulled - e_head) + len = here
  BY <1>1, <1>4, <1>5
<1> QED
  BY <1>1, <1>2, <1>3, <1>4, <1>6 DEF here, len

\* A block goes to the end of the queue, and to the end of the history.
LEMMA EmitKeeps ==
    ASSUME StreamInv, EmitsAll
    PROVE  StreamInv'
<1>1. PICK size \in Nat \ {0} :
         /\ size >= HeaderBytes
         /\ e_out' \in Seq(Byte)
         /\ Len(e_out') = Len(e_out) + size
         /\ \A i \in 1..Len(e_out) : e_out'[i] = e_out[i]
         /\ \A k \in 1..size : e_out'[Len(e_out) + k]
                                  = [elems |-> e_in, size |-> size, pos |-> k]
         /\ e_in' = <<>> /\ e_blocks' = e_blocks + 1
         /\ marks' = Append(marks, [blocks |-> e_blocks + 1, bytes |-> Len(absorbed)])
         /\ ends' = Append(ends, EndAt(e_blocks) + size)
  BY EmitAdds
<1>2. PICK old \in Nat : e_blocks = old
  BY DEF StreamInv, TypeOK
<1>3. /\ UNCHANGED <<absorbed, e_head, e_consumed, e_rest, e_offered, e_moved, e_pulled,
                     decoder, wire, streams, fed>>
      /\ more' = TRUE /\ e_in # <<>>
      /\ e_at' \in {"idle", "absorb", "emit"} /\ e_finished' \in BOOLEAN
  BY DEF EmitsAll, EncoderStep, decoder
<1>4. /\ \A b \in 0..old : EndAt(b)' = EndAt(b) /\ CutAt(b)' = CutAt(b)
      /\ \A b \in 1..old : \A at : RecordByte(b, at)' = RecordByte(b, at)
      /\ EndAt(old + 1)' = EndAt(old) + size
      /\ \A at : RecordByte(old + 1, at)'
                   = [elems |-> e_in, size |-> size, pos |-> at - EndAt(old)]
      /\ marks' \in Seq([blocks : Nat, bytes : Nat]) /\ ends' \in Seq(Nat)
      /\ Listed' /\ Pending'
  BY <1>1, <1>2, <1>3, EmitExtends
<1>5. TypeOK'
  BY <1>1, <1>2, <1>3, <1>4, NothingIsASeq DEF StreamInv, TypeOK, decoder
<1>6. /\ d_blocks \in 0..old /\ EndAt(d_blocks) \in Nat
      /\ old \in 0..old /\ EndAt(old) \in Nat /\ e_blocks' = old + 1
      /\ e_pulled - e_head \in Nat
      /\ EndAt(d_blocks) + Len(d_in) = fed /\ fed + Len(wire) = e_pulled
      /\ e_pulled <= EndAt(old) /\ (e_pulled - e_head) + Len(e_out) = EndAt(old)
      /\ Len(d_in) \in Nat /\ Len(wire) \in Nat /\ Len(e_out) \in Nat
      /\ e_pulled \in Nat /\ e_head \in Nat /\ fed \in Nat
  BY <1>1, <1>2, PieceBounds DEF StreamInv, TypeOK
<1>7. AtBoundary'
  <2>1. CutAt(d_blocks)' = CutAt(d_blocks) /\ d_blocks <= old + 1
    <3>1. d_blocks' = d_blocks
      BY <1>3 DEF decoder
    <3> QED
      BY <1>4, <1>6, <3>1 DEF CutAt
  <2> QED
    BY <1>1, <1>2, <1>3, <2>1 DEF StreamInv, AtBoundary, decoder
<1>8. EndAt(d_blocks)' = EndAt(d_blocks) /\ EndAt(e_blocks)' = EndAt(old) + size
  BY <1>3, <1>4, <1>6 DEF EndAt, decoder
<1>9. Pieces'
  <2> DEFINE here == EndAt(old)
             len  == Len(e_out)
             next == Len(e_out')
  <2>1. /\ here \in Nat /\ len \in Nat /\ next = len + size
        /\ (e_pulled - e_head) + len = here /\ e_head <= len
    BY <1>1, <1>6 DEF StreamInv, Pieces
  <2> HIDE DEF here, len, next
  <2>2. e_head <= next /\ e_pulled + next = (here + size) + e_head
    BY <1>6, <2>1
  <2>3. e_head' <= Len(e_out') /\ e_pulled' + Len(e_out') = EndAt(e_blocks)' + e_head'
    BY <1>3, <1>8, <2>2 DEF here, next
  <2>4. EndAt(d_blocks)' + Len(d_in') = fed' /\ fed' + Len(wire') = e_pulled'
    BY <1>3, <1>6, <1>8 DEF decoder
  <2>5. e_moved' + e_head' <= e_pulled'
    BY <1>3 DEF StreamInv, Pieces
  <2> QED
    BY <2>3, <2>4, <2>5 DEF Pieces
<1>10. InProgress'
  <2>1. d_phase \in {"parsed", "ready"} => EndAt(d_blocks + 1)' = EndAt(d_blocks + 1)
    <3> SUFFICES ASSUME d_phase \in {"parsed", "ready"}
                 PROVE  EndAt(d_blocks + 1)' = EndAt(d_blocks + 1)
      OBVIOUS
    <3>1. Len(d_in) >= HeaderBytes /\ HeaderBytes \in Nat \ {0}
      BY PushPullAssumption DEF StreamInv, InProgress
    <3>2. EndAt(d_blocks) < EndAt(old)
      BY <1>6, <3>1
    <3>3. d_blocks # old
      BY <1>6, <3>2
    <3>4. d_blocks + 1 \in 0..old
      BY <1>6, <3>3
    <3> QED
      BY <1>3, <1>4, <3>4 DEF EndAt, decoder
  <2> QED
    BY <1>3, <1>8, <2>1 DEF StreamInv, InProgress, decoder
<1>11. Bytes'
  <2>1. \A b \in 1..(old + 1) : b \in 1..old \/ b = old + 1
    OBVIOUS
  <2>2. \A b \in 1..old : b \in 0..old /\ b - 1 \in 0..old
    OBVIOUS
  <2>3. EndAt((old + 1) - 1)' = EndAt(old)
    BY <1>4, <1>6
  <2>4. Continues(d_in, EndAt(d_blocks))'
    <3>1. \A i \in 1..Len(d_in) : ~ (EndAt(old) < EndAt(d_blocks) + i)
      BY <1>6
    <3> QED
      BY <1>1, <1>2, <1>3, <1>4, <1>8, <2>1, <2>2, <2>3, <3>1
         DEF StreamInv, Bytes, Continues, decoder
  <2>5. Continues(wire, fed)'
    <3>1. \A i \in 1..Len(wire) : ~ (EndAt(old) < fed + i)
      BY <1>6
    <3>2. Continues(wire, fed) /\ wire' = wire /\ fed' = fed /\ e_blocks' = old + 1
      BY <1>1, <1>2, <1>3 DEF StreamInv, Bytes
    <3> QED
      BY <1>2, <1>4, <2>1, <2>2, <2>3, <3>1, <3>2 DEF Continues
  <2>6. Continues(e_out, e_pulled - e_head)'
    <3> DEFINE from == e_pulled - e_head
               len  == Len(e_out)
               here == EndAt(old)
    <3>1. from \in Nat /\ len \in Nat /\ here \in Nat /\ from + len = here
      BY <1>6
    <3>2. Continues(e_out, from)
      BY DEF StreamInv, Bytes
    <3> HIDE DEF from, len, here
    <3>3. ASSUME NEW i \in 1..(len + size), NEW b \in 1..(old + 1), NEW at \in Nat,
                 at = from + i, EndAt(b - 1)' < at, at <= EndAt(b)'
          PROVE  e_out'[i] = RecordByte(b, at)'
      <4>1. CASE b \in 1..old
        <5>1. /\ EndAt(b - 1)' = EndAt(b - 1) /\ EndAt(b)' = EndAt(b)
              /\ RecordByte(b, at)' = RecordByte(b, at)
          BY <1>4, <2>2, <4>1
        <5>2. EndAt(b) <= here /\ EndAt(b) \in Nat
          BY <1>2, <2>2, <4>1, ListedBounds DEF StreamInv, here
        <5>3. i \in 1..len
          BY <3>1, <3>3, <5>1, <5>2
        <5>4. e_out[i] = RecordByte(b, at)
          BY <1>2, <3>2, <3>3, <4>1, <5>1, <5>3 DEF Continues, len
        <5> QED
          BY <1>1, <5>1, <5>3, <5>4 DEF len
      <4>2. CASE b = old + 1
        <5>1. here < at
          BY <2>3, <3>3, <4>2 DEF here
        <5> DEFINE k == i - len
        <5>2. k \in 1..size /\ len + k = i /\ at - here = k
          BY <3>1, <3>3, <5>1
        <5> HIDE DEF k
        <5>3. e_out'[i] = [elems |-> e_in, size |-> size, pos |-> k]
          BY <1>1, <5>2 DEF len
        <5> QED
          BY <1>4, <4>2, <5>2, <5>3 DEF here
      <4> QED
        BY <2>1, <4>1, <4>2
    <3>4. /\ e_pulled' = e_pulled /\ e_head' = e_head /\ e_blocks' = old + 1
          /\ Len(e_out') = len + size
      BY <1>1, <1>2, <1>3 DEF len
    <3>5. \A i \in 1..(len + size) : from + i \in Nat
      BY <3>1
    <3>6. \A i \in 1..Len(e_out'), b \in 1..e_blocks' :
             EndAt(b - 1)' < from + i /\ from + i <= EndAt(b)'
                => \A at : at = from + i => e_out'[i] = RecordByte(b, at)'
      BY <3>3, <3>4, <3>5
    <3>7. from' = from
      BY <3>4 DEF from
    <3> QED
      BY <3>6, <3>7 DEF Continues, from
  <2> QED
    BY <2>4, <2>5, <2>6 DEF Bytes
<1> QED
  BY <1>4, <1>5, <1>7, <1>9, <1>10, <1>11 DEF StreamInv

-----------------------------------------------------------------------------
(* The bytes on their way.                                                 *)

\* A piece of a piece of the stream.
LEMMA ContinuesPart ==
    ASSUME NEW S, NEW s \in Seq(S), NEW from \in Nat, NEW m \in Nat, NEW n \in Nat,
           m <= n, n <= Len(s), Continues(s, from)
    PROVE  Continues(SubSeq(s, m + 1, n), from + m)
<1> DEFINE t == SubSeq(s, m + 1, n)
<1>1. /\ Len(t) = n - m
      /\ \A i \in 1..(n - m) : t[i] = s[m + i]
  <2>1. m + 1 \in Nat \ {0} /\ Len(s) \in Nat
    BY LenProperties
  <2> QED
    BY <2>1, SubSeqType
<1>2. \A i \in 1..(n - m) : m + i \in 1..Len(s) /\ from + (m + i) = (from + m) + i
  BY LenProperties
<1> HIDE DEF t
<1>3. Continues(t, from + m)
  BY <1>1, <1>2 DEF Continues
<1> QED
  BY <1>3 DEF t

\* Two pieces that follow each other.
LEMMA ContinuesJoin ==
    ASSUME NEW S, NEW s \in Seq(S), NEW t \in Seq(S), NEW from \in Nat, NEW next \in Nat,
           next = from + Len(s), Continues(s, from), Continues(t, next)
    PROVE  Continues(s \o t, from)
<1>1. /\ Len(s) \in Nat /\ Len(t) \in Nat /\ Len(s \o t) = Len(s) + Len(t)
      /\ \A i \in 1..(Len(s) + Len(t)) :
            (s \o t)[i] = IF i <= Len(s) THEN s[i] ELSE t[i - Len(s)]
  BY LenProperties, ConcatProperties
<1>2. ASSUME NEW i \in 1..(Len(s) + Len(t)), NEW b \in 1..e_blocks,
             EndAt(b - 1) < from + i, from + i <= EndAt(b)
      PROVE  (s \o t)[i] = RecordByte(b, from + i)
  <2>1. CASE i <= Len(s)
    <3>1. i \in 1..Len(s) /\ (s \o t)[i] = s[i]
      BY <1>1, <2>1
    <3> QED
      BY <1>2, <3>1 DEF Continues
  <2>2. CASE ~ (i <= Len(s))
    <3>1. /\ i - Len(s) \in 1..Len(t) /\ (s \o t)[i] = t[i - Len(s)]
          /\ next + (i - Len(s)) = from + i
      BY <1>1, <2>2
    <3> QED
      BY <1>2, <3>1 DEF Continues
  <2> QED
    BY <2>1, <2>2
<1> QED
  BY <1>1, <1>2 DEF Continues

\* Pulling hands bytes of the queue to the wire; compaction moves the rest
\* down, and only behind a head that has passed half of it.
LEMMA PullKeeps ==
    ASSUME StreamInv, NEW cap \in Caps, CallPull(cap)
    PROVE  StreamInv'
<1> DEFINE take == E!PullTake(cap)
           head == e_head + take
           part == SubSeq(e_out, e_head + 1, head)
<1>1. /\ e_out \in Seq(Byte) /\ wire \in Seq(Byte) /\ Len(e_out) \in Nat
      /\ Len(wire) \in Nat /\ e_head \in Nat /\ e_pulled \in Nat /\ e_moved \in Nat
      /\ fed \in Nat /\ cap \in Nat /\ e_head <= Len(e_out)
      /\ e_moved + e_head <= e_pulled
  BY PushPullAssumption, LenProperties DEF StreamInv, TypeOK, Pieces
<1>2. take \in Nat /\ head \in Nat /\ head <= Len(e_out) /\ e_head <= head
  BY <1>1 DEF E!PullTake, E!Queued
<1>3. part \in Seq(Byte) /\ Len(part) = take
  <2>1. e_head + 1 \in Nat \ {0}
    BY <1>1
  <2> QED
    BY <1>1, <1>2, <2>1, SubSeqType
<1>4. /\ wire' = wire \o part /\ e_pulled' = e_pulled + take
      /\ more' = E!MoreAvailable(cap)
      /\ Quiet
      /\ UNCHANGED <<e_finished, e_rest, e_at, e_offered, decoder, streams, fed>>
  BY DEF CallPull, E!Pull, E!PullBytes, Quiet, decoder, history
<1>5. \/ e_out' = e_out /\ e_head' = head /\ e_moved' = e_moved
      \/ /\ 2 * head >= Len(e_out) /\ e_out' = SubSeq(e_out, head + 1, Len(e_out))
         /\ e_head' = 0 /\ e_moved' = e_moved + (Len(e_out) - head)
  BY DEF CallPull, E!Pull, E!Compact, E!Drop
<1>6. /\ e_pulled - e_head \in Nat /\ (e_pulled - e_head) + head = e_pulled + take
      /\ (e_pulled - e_head) + e_head = e_pulled
      /\ fed + Len(wire) = e_pulled
      /\ e_pulled + Len(e_out) = EndAt(e_blocks) + e_head /\ EndAt(e_blocks) \in Nat
  <2>1. e_pulled - e_head \in Nat /\ fed + Len(wire) = e_pulled /\ EndAt(e_blocks) \in Nat
    BY PieceBounds
  <2>2. e_pulled + Len(e_out) = EndAt(e_blocks) + e_head
    BY DEF StreamInv, Pieces
  <2> HIDE DEF take
  <2> QED
    BY <1>1, <1>2, <2>1, <2>2
<1>7. /\ Listed' /\ Pending'
      /\ \A b : EndAt(b)' = EndAt(b) /\ CutAt(b)' = CutAt(b)
      /\ \A b, at : RecordByte(b, at)' = RecordByte(b, at)
  BY <1>4, QuietKeeps DEF StreamInv
<1>8. Continues(wire \o part, fed)
  <2>1. Continues(part, (e_pulled - e_head) + e_head)
    BY <1>1, <1>2, <1>6, ContinuesPart DEF StreamInv, Bytes
  <2>2. Continues(part, e_pulled)
    BY <1>6, <2>1
  <2>3. Continues(wire, fed)
    BY DEF StreamInv, Bytes
  <2> HIDE DEF part
  <2> QED
    BY <1>1, <1>3, <1>6, <2>2, <2>3, ContinuesJoin
<1>9. /\ e_out' \in Seq(Byte) /\ e_head' \in Nat /\ e_head' <= Len(e_out')
      /\ e_moved' \in Nat /\ e_moved' + e_head' <= e_pulled'
      /\ e_pulled' + Len(e_out') = EndAt(e_blocks) + e_head'
      /\ Continues(e_out', e_pulled' - e_head')
  <2> DEFINE here == EndAt(e_blocks)
             len  == Len(e_out)
  <2>1. here \in Nat /\ len \in Nat /\ e_pulled + len = here + e_head /\ head <= len
    BY <1>1, <1>2, <1>6
  <2> HIDE DEF here, len, head, take
  <2>2. CASE e_out' = e_out /\ e_head' = head /\ e_moved' = e_moved
    <3>1. Continues(e_out, e_pulled - e_head)
      BY DEF StreamInv, Bytes
    <3>2. e_pulled' - e_head' = e_pulled - e_head
      BY <1>1, <1>2, <1>4, <2>2 DEF head
    <3>3. e_moved' + e_head' <= e_pulled' /\ e_pulled' + len = here + e_head'
      BY <1>1, <1>2, <1>4, <2>1, <2>2 DEF head
    <3> QED
      BY <1>1, <1>2, <2>1, <2>2, <3>1, <3>2, <3>3 DEF here, len
  <2>3. CASE /\ 2 * head >= Len(e_out) /\ e_out' = SubSeq(e_out, head + 1, Len(e_out))
             /\ e_head' = 0 /\ e_moved' = e_moved + (Len(e_out) - head)
    <3>1. Continues(e_out', (e_pulled - e_head) + head)
      BY <1>1, <1>2, <1>6, <2>3, ContinuesPart DEF StreamInv, Bytes
    <3>2. e_out' \in Seq(Byte) /\ Len(e_out') = len - head
      <4>1. head + 1 \in Nat \ {0}
        BY <1>2
      <4> QED
        BY <1>1, <1>2, <2>3, <4>1, SubSeqType DEF len
    <3>3. e_pulled' - e_head' = e_pulled + take
      BY <1>1, <1>2, <1>4, <2>3
    <3>4. e_moved' \in Nat /\ e_moved' + 0 <= e_pulled + take
      <4>1. e_moved' = e_moved + (len - head) /\ 2 * head >= len
        BY <2>3 DEF len
      <4> QED
        BY <1>1, <1>2, <2>1, <4>1 DEF head
    <3>5. (e_pulled + take) + (len - head) = here + 0
      BY <1>1, <1>2, <2>1 DEF head
    <3>6. e_pulled' + Len(e_out') = here + e_head'
      BY <1>4, <2>3, <3>2, <3>5
    <3>7. Continues(e_out', e_pulled' - e_head')
      BY <1>6, <3>1, <3>3
    <3>8. e_head' \in Nat /\ e_head' <= Len(e_out') /\ e_moved' + e_head' <= e_pulled'
      BY <1>2, <1>4, <2>1, <2>3, <3>2, <3>4
    <3> QED
      BY <3>2, <3>4, <3>6, <3>7, <3>8 DEF here
  <2> QED
    BY <1>5, <2>2, <2>3 DEF head, take
<1>10. /\ wire' \in Seq(Byte) /\ Len(wire') = Len(wire) + take
  BY <1>1, <1>3, <1>4, ConcatProperties
<1>11. TypeOK'
  <2>1. e_pulled' \in Nat
    <3> HIDE DEF take
    <3> QED
      BY <1>1, <1>2, <1>4
  <2>2. more' \in BOOLEAN
    BY <1>4 DEF E!MoreAvailable
  <2> QED
    BY <1>4, <1>9, <1>10, <2>1, <2>2 DEF StreamInv, TypeOK, Quiet, decoder
<1>12. AtBoundary' /\ InProgress'
  BY <1>4, <1>7 DEF StreamInv, AtBoundary, InProgress, Quiet, decoder
<1>13. EndAt(d_blocks)' = EndAt(d_blocks) /\ EndAt(e_blocks)' = EndAt(e_blocks)
  BY <1>4, <1>7 DEF Quiet, EndAt, decoder
<1>14. Pieces'
  <2>1. EndAt(d_blocks) + Len(d_in) = fed
    BY DEF StreamInv, Pieces
  <2>2. fed + Len(wire') = e_pulled'
    <3> DEFINE held == Len(wire)
    <3>1. Len(wire') = held + take /\ fed + held = e_pulled /\ held \in Nat
      BY <1>1, <1>6, <1>10
    <3>2. take \in Nat /\ fed \in Nat /\ e_pulled' = e_pulled + take
      BY <1>1, <1>2, <1>4
    <3> HIDE DEF take, held
    <3> QED
      BY <3>1, <3>2
  <2> QED
    BY <1>4, <1>9, <1>13, <2>1, <2>2 DEF Pieces, decoder
<1>15. Bytes'
  <2>1. Continues(d_in, EndAt(d_blocks))'
    BY <1>4, <1>7, <1>13 DEF StreamInv, Bytes, Continues, Quiet, decoder
  <2>2. Continues(wire, fed)'
    BY <1>4, <1>7, <1>8 DEF Continues, Quiet
  <2>3. Continues(e_out, e_pulled - e_head)'
    BY <1>4, <1>7, <1>9 DEF Continues, Quiet
  <2> QED
    BY <2>1, <2>2, <2>3 DEF Bytes
<1> QED
  BY <1>7, <1>11, <1>12, <1>14, <1>15 DEF StreamInv

\* Feeding hands bytes of the wire to the decoder.
LEMMA FeedKeeps ==
    ASSUME StreamInv, NEW n \in Chunks, Feed(n)
    PROVE  StreamInv'
<1> DEFINE part == SubSeq(wire, 0 + 1, n)
           left == SubSeq(wire, n + 1, Len(wire))
           size == Len(wire)
<1>1. /\ n \in Nat /\ n <= size /\ size \in Nat /\ wire \in Seq(Byte)
      /\ d_in \in Seq(Byte) /\ fed \in Nat /\ Len(d_in) \in Nat /\ e_pulled \in Nat
  BY PushPullAssumption, LenProperties DEF StreamInv, TypeOK, Feed
<1>2. /\ part \in Seq(Byte) /\ Len(part) = n
      /\ left \in Seq(Byte) /\ Len(left) = size - n
  <2>1. n + 1 \in Nat \ {0} /\ 0 + 1 \in Nat \ {0}
    BY <1>1
  <2> QED
    BY <1>1, <2>1, SubSeqType
<1>3. /\ d_in' = d_in \o part /\ wire' = left /\ fed' = fed + n
      /\ Quiet /\ d_phase # "corrupt" /\ ~ d_finished
      /\ UNCHANGED <<e_out, e_head, e_finished, e_rest, e_at, e_offered, e_moved, e_pulled,
                     d_phase, d_total, d_finished, d_blocks, d_produced, d_reported,
                     d_delivered, more, streams>>
  BY DEF Feed, D!Push, DecoderStep, encoder, Quiet
<1>4. /\ Listed' /\ Pending'
      /\ \A b : EndAt(b)' = EndAt(b) /\ CutAt(b)' = CutAt(b)
      /\ \A b, at : RecordByte(b, at)' = RecordByte(b, at)
  BY <1>3, QuietKeeps DEF StreamInv
<1>5. /\ EndAt(d_blocks) \in Nat /\ EndAt(d_blocks) + Len(d_in) = fed /\ fed + size = e_pulled
      /\ Continues(d_in, EndAt(d_blocks)) /\ Continues(wire, fed)
  BY PieceBounds DEF StreamInv, Bytes
<1>6. Continues(d_in \o part, EndAt(d_blocks)) /\ Continues(left, fed + n)
  <2>1. Continues(part, fed + 0)
    <3>1. 0 \in Nat /\ 0 <= n /\ n <= Len(wire)
      BY <1>1
    <3> QED
      BY <1>1, <1>5, <3>1, ContinuesPart
  <2>2. fed + 0 = fed
    BY <1>1
  <2>3. Continues(left, fed + n)
    <3>1. size <= Len(wire)
      BY <1>1
    <3> QED
      BY <1>1, <1>5, <3>1, ContinuesPart
  <2> HIDE DEF part
  <2> QED
    BY <1>1, <1>2, <1>5, <2>1, <2>2, <2>3, ContinuesJoin
<1>7. d_in' \in Seq(Byte) /\ Len(d_in') = Len(d_in) + n /\ fed' \in Nat
  BY <1>1, <1>2, <1>3, ConcatProperties
<1> HIDE DEF part, left, size
<1>8. TypeOK'
  BY <1>2, <1>3, <1>7 DEF StreamInv, TypeOK, Quiet
<1>9. AtBoundary'
  BY <1>3, <1>4 DEF StreamInv, AtBoundary, Quiet
<1>10. InProgress'
  <2>1. d_reported # "done"
    BY <1>3 DEF StreamInv, InProgress
  <2>2. /\ Len(d_in) >= HeaderBytes => Len(d_in') >= HeaderBytes
        /\ Len(d_in) >= d_total => Len(d_in') >= d_total
    <3> DEFINE held == Len(d_in)
    <3>1. held \in Nat /\ d_total \in Nat /\ HeaderBytes \in Nat /\ Len(d_in') = held + n
      BY <1>1, <1>7, PushPullAssumption DEF StreamInv, TypeOK
    <3> HIDE DEF held
    <3>2. /\ held >= HeaderBytes => Len(d_in') >= HeaderBytes
          /\ held >= d_total => Len(d_in') >= d_total
      BY <1>1, <3>1
    <3> QED
      BY <3>2 DEF held
  <2> QED
    BY <1>3, <1>4, <2>1, <2>2 DEF StreamInv, InProgress
<1>11. Pieces'
  <2> DEFINE held == Len(d_in)
             here == EndAt(d_blocks)
  <2>1. /\ held \in Nat /\ here \in Nat /\ here + held = fed /\ fed + size = e_pulled
        /\ Len(d_in') = held + n /\ Len(wire') = size - n /\ EndAt(d_blocks)' = here
    BY <1>1, <1>2, <1>3, <1>4, <1>5, <1>7 DEF EndAt
  <2> HIDE DEF held, here
  <2>2. EndAt(d_blocks)' + Len(d_in') = fed' /\ fed' + Len(wire') = e_pulled'
    BY <1>1, <1>3, <2>1
  <2> QED
    BY <1>3, <1>4, <2>2 DEF StreamInv, Pieces, EndAt, Quiet
<1>12. Bytes'
  <2>1. Continues(d_in, EndAt(d_blocks))'
    <3>1. EndAt(d_blocks)' = EndAt(d_blocks)
      BY <1>3, <1>4 DEF EndAt
    <3> QED
      BY <1>3, <1>4, <1>6, <3>1 DEF Continues, Quiet
  <2>2. Continues(wire, fed)'
    BY <1>3, <1>4, <1>6 DEF Continues, Quiet
  <2>3. Continues(e_out, e_pulled - e_head)'
    BY <1>3, <1>4 DEF StreamInv, Bytes, Continues, Quiet
  <2> QED
    BY <2>1, <2>2, <2>3 DEF Bytes
<1> QED
  BY <1>4, <1>8, <1>9, <1>10, <1>11, <1>12 DEF StreamInv

-----------------------------------------------------------------------------
(* The decoder.                                                            *)

\* The length of the record the decoder is at.
ThisSize == EndAt(d_blocks + 1) - EndAt(d_blocks)

\* What the decoder's input begins with.
LEMMA RecordAtHand ==
    ASSUME StreamInv, d_in # <<>>
    PROVE  /\ d_blocks + 1 \in 1..e_blocks
           /\ ThisSize \in Nat /\ ThisSize >= HeaderBytes /\ HeaderBytes \in Nat \ {0}
           /\ EndAt(d_blocks + 1) = EndAt(d_blocks) + ThisSize
           /\ \A k \in 1..Len(d_in) :
                 k <= ThisSize => d_in[k] = [elems |-> BlockElems(d_blocks + 1),
                                             size |-> ThisSize, pos |-> k]
           /\ d_in[1].elems = BlockElems(d_blocks + 1) /\ d_in[1].size = ThisSize
<1> DEFINE here == EndAt(d_blocks)
           next == EndAt(d_blocks + 1)
           held == Len(d_in)
<1>1. /\ d_in \in Seq(Byte) /\ held \in Nat \ {0} /\ HeaderBytes \in Nat \ {0}
      /\ e_blocks \in Nat /\ d_blocks \in Nat /\ fed \in Nat /\ e_pulled \in Nat
  BY PushPullAssumption, LenProperties, EmptySeq DEF StreamInv, TypeOK
<1>2. d_blocks \in 0..e_blocks /\ d_blocks # e_blocks
  <2> DEFINE last == EndAt(e_blocks)
  <2>1. /\ here \in Nat /\ last \in Nat /\ here + held = fed
        /\ fed + Len(wire) = e_pulled /\ e_pulled <= last /\ Len(wire) \in Nat
        /\ d_blocks \in 0..e_blocks
    BY PieceBounds
  <2> HIDE DEF last, here, held
  <2>2. here < last
    BY <1>1, <2>1
  <2> QED
    BY <2>1, <2>2 DEF here, last
<1>3. d_blocks + 1 \in 1..e_blocks /\ d_blocks + 1 \in 0..e_blocks /\ (d_blocks + 1) - 1 = d_blocks
  BY <1>1, <1>2
<1>4. here \in Nat /\ next \in Nat
  BY <1>2, <1>3, ListedBounds DEF StreamInv
<1>5. here + HeaderBytes <= next
  <2>1. d_blocks < d_blocks + 1
    BY <1>1
  <2> QED
    BY <1>2, <1>3, <2>1 DEF StreamInv, Listed
<1> HIDE DEF here, next, held
<1>6. next - here \in Nat /\ next - here >= HeaderBytes /\ next = here + (next - here)
  BY <1>1, <1>4, <1>5
<1>7. ASSUME NEW k \in 1..held, k <= next - here
      PROVE  d_in[k] = [elems |-> BlockElems(d_blocks + 1), size |-> next - here, pos |-> k]
  <2>1. here < here + k /\ here + k <= next /\ (here + k) - here = k
    BY <1>1, <1>4, <1>7
  <2>2. d_in[k] = RecordByte(d_blocks + 1, here + k)
    BY <1>3, <2>1 DEF StreamInv, Bytes, Continues, here, next, held
  <2> QED
    BY <1>3, <2>1, <2>2 DEF RecordByte, here, next
<1>8. 1 \in 1..held /\ 1 <= next - here
  BY <1>1, <1>6
<1>9. d_in[1] = [elems |-> BlockElems(d_blocks + 1), size |-> next - here, pos |-> 1]
  BY <1>7, <1>8
<1> QED
  BY <1>1, <1>3, <1>6, <1>7, <1>9 DEF ThisSize, here, next, held

\* What pp_try_parse makes of it.
LEMMA ParsedRight ==
    ASSUME StreamInv, d_phase # "corrupt"
    PROVE  /\ D!ParsedPhase \in {"header", "parsed", "ready"}
           /\ D!ParsedTotal \in Nat
           /\ D!ParsedPhase \in {"parsed", "ready"} =>
                 /\ d_in # <<>> /\ Len(d_in) >= HeaderBytes
                 /\ D!ParsedTotal = ThisSize
           /\ D!ParsedPhase = "ready" => Len(d_in) >= D!ParsedTotal
           /\ D!ParsedPhase = "header" => d_phase = "header" /\ ~ D!HeaderArrived
<1>1. /\ d_in \in Seq(Byte) /\ Len(d_in) \in Nat /\ HeaderBytes \in Nat \ {0}
      /\ d_total \in Nat /\ d_phase \in {"header", "parsed", "ready"}
      /\ (d_in = <<>> => Len(d_in) = 0)
  BY PushPullAssumption, LenProperties, EmptySeq DEF StreamInv, TypeOK
<1>2. D!HeaderArrived \/ d_phase \in {"parsed", "ready"}
         => /\ d_in # <<>> /\ Len(d_in) >= HeaderBytes
            /\ D!ParsedTotal = ThisSize
  <2>1. ASSUME D!HeaderArrived \/ d_phase \in {"parsed", "ready"}
        PROVE  /\ d_in # <<>> /\ Len(d_in) >= HeaderBytes
               /\ D!ParsedTotal = ThisSize
    <3>1. Len(d_in) >= HeaderBytes
      BY <2>1 DEF D!HeaderArrived, StreamInv, InProgress
    <3>2. d_in # <<>>
      BY <1>1, <3>1
    <3>3. d_in[1].size = ThisSize
      BY <3>2, RecordAtHand
    <3>4. ~ D!HeaderArrived => d_total = ThisSize
      BY <2>1 DEF StreamInv, InProgress, ThisSize
    <3> QED
      BY <3>1, <3>2, <3>3, <3>4 DEF D!ParsedTotal
  <2> QED
    BY <2>1
<1>3. D!HeaderArrived => d_phase = "header"
  BY DEF D!HeaderArrived
<1>4. D!ParsedPhase \in {"header", "parsed", "ready"}
  BY <1>1 DEF D!ParsedPhase
<1>5. D!ParsedPhase \in {"parsed", "ready"}
         => D!HeaderArrived \/ d_phase \in {"parsed", "ready"}
  BY <1>1 DEF D!ParsedPhase
<1>6. D!ParsedPhase = "header" => d_phase = "header" /\ ~ D!HeaderArrived
  BY <1>1 DEF D!ParsedPhase
<1>7. D!ParsedPhase = "ready" => Len(d_in) >= D!ParsedTotal
  <2>1. CASE d_phase = "ready"
    <3>1. Len(d_in) >= d_total /\ D!ParsedTotal = d_total
      BY <1>3, <2>1 DEF StreamInv, InProgress, D!ParsedTotal
    <3> QED
      BY <3>1
  <2>2. CASE d_phase # "ready"
    BY <2>2 DEF D!ParsedPhase
  <2> QED
    BY <2>1, <2>2
<1>8. D!ParsedTotal \in Nat
  <2>1. CASE D!HeaderArrived
    BY <1>2, <2>1, RecordAtHand
  <2>2. CASE ~ D!HeaderArrived
    BY <1>1, <2>2 DEF D!ParsedTotal
  <2> QED
    BY <2>1, <2>2
<1> QED
  BY <1>2, <1>4, <1>5, <1>6, <1>7, <1>8

\* A call that takes nothing from the input keeps the invariant, if what it
\* notes about the record in progress is right.
LEMMA StillKeeps ==
    ASSUME StreamInv,
           UNCHANGED <<encoder, wire, more, streams, history, d_in, d_blocks, d_produced,
                       d_delivered>>,
           d_finished' \in BOOLEAN, d_finished => d_finished', d_total' \in Nat,
           d_phase' \in {"header", "parsed", "ready", "corrupt"},
           d_reported' \in {"none", "block", "starved", "done", "corrupt", "nomem"},
           d_phase' \in {"parsed", "ready"} =>
              Len(d_in) >= HeaderBytes /\ d_total' = ThisSize,
           d_phase' = "ready" => Len(d_in) >= d_total',
           d_reported' = "done" => d_finished' /\ d_in = <<>> /\ d_phase' = "header"
    PROVE  StreamInv'
<1> USE DEF encoder, history
<1>1. TypeOK'
  BY DEF StreamInv, TypeOK
<1>2. /\ Listed' /\ Pending'
      /\ \A b : EndAt(b)' = EndAt(b) /\ CutAt(b)' = CutAt(b)
      /\ \A b, at : RecordByte(b, at)' = RecordByte(b, at)
  BY QuietKeeps DEF StreamInv, Quiet
<1>3. AtBoundary' /\ Pieces'
  BY <1>2 DEF StreamInv, AtBoundary, Pieces, EndAt, CutAt
<1>4. InProgress'
  BY <1>2 DEF InProgress, ThisSize, EndAt
<1>5. Bytes'
  BY <1>2 DEF StreamInv, Bytes, Continues, EndAt
<1> QED
  BY <1>1, <1>2, <1>3, <1>4, <1>5 DEF StreamInv

\* Ending the input.
LEMMA FinishKeeps ==
    ASSUME StreamInv, CallDecoderFinish
    PROVE  StreamInv'
<1>1. /\ UNCHANGED <<encoder, wire, more, streams, history, d_in, d_blocks, d_produced,
                     d_delivered, d_phase, d_total, d_reported>>
      /\ d_finished' = TRUE
  BY DEF CallDecoderFinish, D!Finish, DecoderStep, history
<1> QED
  BY <1>1, StillKeeps DEF StreamInv, TypeOK, InProgress, ThisSize

\* A failure is latched, or the record waits for memory.
LEMMA FailureKeeps ==
    ASSUME StreamInv,
           \/ CallNext /\ (D!NextBadHeader \/ D!NextUndecodable \/ D!NextTruncated \/ D!NextLatched)
           \/ NextNoMemory
    PROVE  StreamInv'
<1>1. UNCHANGED <<encoder, wire, more, streams, history, d_in, d_blocks, d_produced,
                  d_delivered, d_finished>>
  BY DEF CallNext, NextNoMemory, D!NextBadHeader, D!NextUndecodable, D!NextTruncated,
         D!NextLatched, D!NextNoMemory, D!NextDecodeNoMemory, D!Latch, DecoderStep, history
<1>2. d_finished \in BOOLEAN /\ d_total \in Nat
  BY DEF StreamInv, TypeOK
<1>3. CASE d_phase = "corrupt"
  <2>1. d_phase' = "corrupt" /\ d_reported' = "corrupt" /\ d_total' = d_total
    BY <1>3 DEF CallNext, NextNoMemory, D!NextBadHeader, D!NextUndecodable, D!NextTruncated,
           D!Starved, D!NextLatched, D!NextNoMemory, D!NextDecodeNoMemory
  <2> QED
    BY <1>1, <1>2, <2>1, StillKeeps
<1>4. CASE d_phase # "corrupt"
  <2>1. /\ D!ParsedTotal \in Nat
        /\ D!ParsedPhase = "ready" =>
              /\ Len(d_in) >= HeaderBytes
              /\ D!ParsedTotal = ThisSize /\ Len(d_in) >= D!ParsedTotal
    BY <1>4, ParsedRight
  <2>2. /\ d_reported' \in {"corrupt", "nomem"}
        /\ \/ d_phase' = "corrupt" /\ d_total' \in {d_total, D!ParsedTotal}
           \/ /\ D!ParsedPhase = "ready"
              /\ d_phase' = "ready" /\ d_total' = D!ParsedTotal
    BY <1>4 DEF CallNext, NextNoMemory, D!NextBadHeader, D!NextUndecodable, D!NextTruncated,
           D!Starved, D!NextLatched, D!NextNoMemory, D!NextDecodeNoMemory, D!Latch
  <2>3. CASE d_phase' = "corrupt" /\ d_total' \in {d_total, D!ParsedTotal}
    BY <1>1, <1>2, <2>1, <2>2, <2>3, StillKeeps
  <2>4. CASE D!ParsedPhase = "ready" /\ d_phase' = "ready" /\ d_total' = D!ParsedTotal
    BY <1>1, <1>2, <2>1, <2>2, <2>4, StillKeeps
  <2> QED
    BY <2>2, <2>3, <2>4
<1> QED
  BY <1>3, <1>4

\* No whole record is here: the decoder waits for more, or is done.
LEMMA WaitKeeps ==
    ASSUME StreamInv, CallNext, D!NextStarved \/ D!NextDone
    PROVE  StreamInv'
<1>1. UNCHANGED <<encoder, wire, more, streams, history, d_in, d_blocks, d_produced,
                  d_delivered, d_finished>>
  BY DEF CallNext, D!NextStarved, D!NextDone, DecoderStep, history
<1>2. /\ d_finished \in BOOLEAN /\ d_total \in Nat /\ d_phase # "corrupt"
      /\ D!ParsedPhase # "ready" /\ d_phase' = D!ParsedPhase
  BY DEF StreamInv, TypeOK, D!NextStarved, D!NextDone, D!Starved
<1>3. /\ D!ParsedPhase \in {"header", "parsed"} /\ D!ParsedTotal \in Nat
      /\ D!ParsedPhase = "parsed" => /\ d_in # <<>> /\ Len(d_in) >= HeaderBytes
                                     /\ D!ParsedTotal = ThisSize
  BY <1>2, ParsedRight
<1>4. CASE D!NextStarved
  <2>1. /\ d_total' = IF D!ParsedPhase = "parsed" THEN D!ParsedTotal ELSE d_total
        /\ d_reported' = "starved"
    BY <1>4 DEF D!NextStarved
  <2>2. d_total' \in Nat /\ (d_phase' = "parsed" => d_total' = ThisSize)
    BY <1>2, <1>3, <2>1
  <2> QED
    BY <1>1, <1>2, <1>3, <2>1, <2>2, StillKeeps
<1>5. CASE D!NextDone
  <2>1. d_finished /\ d_in = <<>> /\ d_reported' = "done" /\ d_total' = d_total
    BY <1>5 DEF D!NextDone
  <2>2. d_phase' = "header"
    BY <1>2, <1>3, <2>1
  <2> QED
    BY <1>1, <1>2, <2>1, <2>2, StillKeeps
<1> QED
  BY <1>4, <1>5

\* The block after the one the decoder is at.
LEMMA NextElems ==
    ASSUME StreamInv, d_blocks + 1 \in 1..e_blocks
    PROVE  /\ CutAt(d_blocks) \in Nat /\ CutAt(d_blocks + 1) \in Nat
           /\ CutAt(d_blocks) < CutAt(d_blocks + 1)
           /\ CutAt(d_blocks + 1) <= Len(absorbed)
           /\ BlockElems(d_blocks + 1)
                  = SubSeq(absorbed, CutAt(d_blocks) + 1, CutAt(d_blocks + 1))
           /\ BlockElems(d_blocks + 1) \in Seq(Nat)
           /\ CutAt(d_blocks) + Len(BlockElems(d_blocks + 1)) = CutAt(d_blocks + 1)
           /\ d_delivered \o BlockElems(d_blocks + 1)
                  = SubSeq(absorbed, 1, CutAt(d_blocks + 1))
<1> DEFINE from == CutAt(d_blocks)
           to   == CutAt(d_blocks + 1)
           last == Len(absorbed)
<1>1. /\ absorbed \in Seq(Nat) /\ last \in Nat /\ d_blocks \in Nat /\ e_blocks \in Nat
      /\ d_delivered = SubSeq(absorbed, 1, from)
  BY LenProperties DEF StreamInv, TypeOK, AtBoundary
<1>2. /\ d_blocks \in 0..e_blocks /\ d_blocks + 1 \in 0..e_blocks
      /\ d_blocks < d_blocks + 1 /\ (d_blocks + 1) - 1 = d_blocks
  BY <1>1
<1>3. from \in Nat /\ to \in Nat /\ to <= last
  BY <1>2, ListedBounds DEF StreamInv
<1>4. from < to
  BY <1>2 DEF StreamInv, Listed
<1>5. BlockElems(d_blocks + 1) = SubSeq(absorbed, from + 1, to)
  BY <1>2 DEF BlockElems
<1> HIDE DEF from, to
<1>6. from + 1 \in Nat \ {0} /\ to <= Len(absorbed) /\ to - (from + 1) + 1 = to - from
      /\ from + (to - from) = to /\ from + 1 <= to
  BY <1>3, <1>4
<1>7. /\ SubSeq(absorbed, from + 1, to) \in Seq(Nat)
      /\ Len(SubSeq(absorbed, from + 1, to)) = to - from
  BY <1>1, <1>3, <1>6, SubSeqType
<1>8. SubSeq(absorbed, 1, from) \o SubSeq(absorbed, from + 1, to) = SubSeq(absorbed, 1, to)
  <2>1. 1 \in 1..(Len(absorbed) + 1) /\ from \in (1 - 1)..Len(absorbed) /\ to \in from..Len(absorbed)
    BY <1>1, <1>3, <1>4
  <2> QED
    BY <1>1, <2>1, ConcatAdjacentSubSeq
<1> QED
  BY <1>1, <1>3, <1>4, <1>5, <1>6, <1>7, <1>8 DEF from, to

\* A block handed out is the next one of the stream, whole.
LEMMA BlockKeeps ==
    ASSUME StreamInv, CallNext, D!NextBlock
    PROVE  /\ StreamInv'
           /\ d_blocks + 1 \in 1..e_blocks /\ d_blocks' = d_blocks + 1
           /\ d_delivered' = d_delivered \o BlockElems(d_blocks + 1)
<1> DEFINE size == ThisSize
           held == Len(d_in)
<1>1. /\ d_phase # "corrupt" /\ D!ParsedPhase = "ready"
      /\ d_in' = SubSeq(d_in, D!ParsedTotal + 1, Len(d_in))
      /\ d_phase' = "header" /\ d_total' = 0 /\ d_reported' = "block"
      /\ d_blocks' = d_blocks + 1
      /\ d_produced' = d_produced + Len(d_in[1].elems)
      /\ d_delivered' = d_delivered \o d_in[1].elems
      /\ Quiet
      /\ UNCHANGED <<e_out, e_head, e_finished, e_rest, e_at, e_offered, e_moved, e_pulled,
                     d_finished, wire, more, streams, fed>>
  BY DEF CallNext, D!NextBlock, D!Drop, DecoderStep, encoder, Quiet
<1>2. d_in # <<>> /\ D!ParsedTotal = size /\ held >= size
  BY <1>1, ParsedRight
<1>3. /\ d_blocks + 1 \in 1..e_blocks /\ size \in Nat
      /\ EndAt(d_blocks + 1) = EndAt(d_blocks) + size
      /\ d_in[1].elems = BlockElems(d_blocks + 1)
  BY <1>2, RecordAtHand
<1>4. d_in \in Seq(Byte) /\ held \in Nat /\ d_blocks \in Nat /\ d_produced = CutAt(d_blocks)
  BY LenProperties DEF StreamInv, TypeOK, AtBoundary
<1>5. /\ d_delivered' = SubSeq(absorbed, 1, CutAt(d_blocks + 1))
      /\ d_produced' = CutAt(d_blocks + 1) /\ CutAt(d_blocks + 1) \in Nat
      /\ CutAt(d_blocks + 1) <= Len(absorbed)
  BY <1>1, <1>3, <1>4, NextElems
<1> HIDE DEF size
<1>6. d_in' \in Seq(Byte) /\ Len(d_in') = held - size
  <2>1. size + 1 \in Nat \ {0} /\ held <= Len(d_in)
    BY <1>3, <1>4
  <2> QED
    BY <1>1, <1>2, <1>3, <1>4, <2>1, SubSeqType
<1>7. Continues(d_in', EndAt(d_blocks) + size)
  <2>1. EndAt(d_blocks) \in Nat /\ Continues(d_in, EndAt(d_blocks)) /\ held <= Len(d_in)
    BY <1>4, PieceBounds DEF StreamInv, Bytes
  <2> QED
    BY <1>1, <1>2, <1>3, <1>4, <2>1, ContinuesPart
<1>8. /\ Listed' /\ Pending'
      /\ \A b : EndAt(b)' = EndAt(b) /\ CutAt(b)' = CutAt(b)
      /\ \A b, at : RecordByte(b, at)' = RecordByte(b, at)
  BY <1>1, QuietKeeps DEF StreamInv
<1>9. TypeOK'
  <2>1. d_delivered' \in Seq(Nat)
    <3>1. absorbed \in Seq(Nat) /\ 1 \in Nat \ {0}
      BY DEF StreamInv, TypeOK
    <3> QED
      BY <1>5, <3>1, SubSeqType
  <2>2. d_produced' \in Nat /\ d_blocks' \in Nat
    BY <1>1, <1>4, <1>5
  <2> QED
    BY <1>1, <1>6, <2>1, <2>2 DEF StreamInv, TypeOK, Quiet
<1>10. EndAt(d_blocks)' = EndAt(d_blocks + 1) /\ CutAt(d_blocks)' = CutAt(d_blocks + 1)
  BY <1>1 DEF EndAt, CutAt, Quiet
<1>11. AtBoundary'
  <2>1. d_blocks' <= e_blocks'
    BY <1>1, <1>3 DEF Quiet
  <2> QED
    BY <1>1, <1>5, <1>10, <2>1 DEF AtBoundary, Quiet
<1>12. Pieces'
  <2> DEFINE here == EndAt(d_blocks)
  <2>1. here \in Nat /\ here + held = fed /\ fed \in Nat
    BY PieceBounds DEF StreamInv, TypeOK
  <2>2. EndAt(d_blocks)' = here + size
    BY <1>3, <1>10
  <2> HIDE DEF here, held
  <2>3. EndAt(d_blocks)' + Len(d_in') = fed
    BY <1>2, <1>3, <1>4, <1>6, <2>1, <2>2
  <2> QED
    BY <1>1, <1>8, <2>3 DEF StreamInv, Pieces, EndAt, Quiet
<1>13. InProgress'
  BY <1>1 DEF InProgress
<1>14. Bytes'
  <2>1. Continues(d_in, EndAt(d_blocks))'
    BY <1>1, <1>3, <1>7, <1>8, <1>10 DEF Continues, Quiet
  <2>2. Continues(wire, fed)' /\ Continues(e_out, e_pulled - e_head)'
    BY <1>1, <1>8 DEF StreamInv, Bytes, Continues, Quiet
  <2> QED
    BY <2>1, <2>2 DEF Bytes
<1>15. StreamInv'
  BY <1>8, <1>9, <1>11, <1>12, <1>13, <1>14 DEF StreamInv
<1> QED
  BY <1>1, <1>3, <1>15

-----------------------------------------------------------------------------
(* The theorems that hold whatever fails on the way.                       *)

\* A finish with nothing pending emits nothing.
LEMMA FinishEmptyKeeps ==
    ASSUME StreamInv, CallFinish, e_in = <<>>
    PROVE  /\ StreamInv'
           /\ Quiet /\ UNCHANGED <<e_out, e_head, e_rest, e_at, e_pulled, decoder, wire>>
<1>1. /\ Quiet
      /\ UNCHANGED <<e_out, e_head, e_rest, e_at, e_offered, e_moved, e_pulled, decoder,
                     wire, streams, fed>>
      /\ more' = TRUE /\ e_finished' = TRUE
  BY DEF CallFinish, E!Finish, EncoderStep, Quiet, decoder
<1>2. TypeOK'
  BY <1>1 DEF StreamInv, TypeOK, Quiet, decoder
<1>3. /\ Listed' /\ Pending'
      /\ \A b : EndAt(b)' = EndAt(b) /\ CutAt(b)' = CutAt(b)
      /\ \A b, at : RecordByte(b, at)' = RecordByte(b, at)
  BY <1>1, QuietKeeps DEF StreamInv
<1>4. AtBoundary' /\ Pieces' /\ InProgress'
  BY <1>1, <1>3 DEF StreamInv, AtBoundary, Pieces, InProgress, Quiet, decoder
<1>5. Bytes'
  BY <1>1, <1>3 DEF StreamInv, Bytes, Continues, Quiet, decoder
<1> QED
  BY <1>1, <1>2, <1>3, <1>4, <1>5 DEF StreamInv

\* The invariant is inductive.
LEMMA StreamStep ==
    ASSUME StreamInv, [Next]_vars
    PROVE  StreamInv'
<1>1. CASE \E n \in PushSizes : CallPush(n)
  BY <1>1, PushKeeps
<1>2. CASE Absorb
  BY <1>2, AbsorbKeeps
<1>3. CASE EmitFull
  BY <1>3, EmitSteps, EmitKeeps
<1>4. CASE PushFails
  BY <1>4, PushKeeps
<1>5. CASE CallFlush
  BY <1>5, EmitSteps, EmitKeeps
<1>6. CASE CallFinish
  BY <1>6, EmitSteps, EmitKeeps, FinishEmptyKeeps
<1>7. CASE \E cap \in Caps : CallPull(cap)
  BY <1>7, PullKeeps
<1>8. CASE \E n \in Chunks : Feed(n)
  BY <1>8, FeedKeeps
<1>9. CASE CallNext
  BY <1>9, BlockKeeps, FailureKeeps, WaitKeeps DEF CallNext, D!Next
<1>10. CASE NextNoMemory
  BY <1>10, FailureKeeps
<1>11. CASE CallDecoderFinish
  BY <1>11, FinishKeeps
<1>12. CASE ResetBoth
  BY <1>12, ResetKeeps
<1>13. CASE UNCHANGED vars
  <2>1. /\ UNCHANGED <<encoder, wire, more, streams, history, d_in, d_blocks, d_produced,
                       d_delivered, d_phase, d_total, d_reported, d_finished>>
    BY <1>13 DEF vars, decoder
  <2> QED
    BY <2>1, StillKeeps DEF StreamInv, TypeOK, InProgress, ThisSize
<1> QED
  BY <1>1, <1>2, <1>3, <1>4, <1>5, <1>6, <1>7, <1>8, <1>9, <1>10, <1>11, <1>12, <1>13
     DEF Next

\* It holds in every state of every behaviour.
LEMMA StreamInvariant == Spec => []StreamInv
<1>1. StreamInv /\ [Next]_vars => StreamInv'
  BY StreamStep
<1> QED
  BY StreamInit, <1>1, PTL DEF Spec

\* Every variable keeps its type, and the encoder's buffer never outgrows one
\* block: pushpull_encode.c grows it to the target and no further.
THEOREM TypesKept == Spec => []TypeOK
<1>1. StreamInv => TypeOK
  BY DEF StreamInv
<1> QED
  BY StreamInvariant, <1>1, PTL

\* Whatever runs out of memory, is damaged or is cut short, next hands out
\* what was absorbed first, up to a block boundary, and nothing else.
THEOREM HandsOutAPrefix == Spec => []DeliversPrefix
<1>1. StreamInv => DeliversPrefix
  BY DEF StreamInv, AtBoundary, DeliversPrefix, CutAt
<1> QED
  BY StreamInvariant, <1>1, PTL

\* The checkpoint of the decoder after a block is the encoder's after the same
\* block, as pushpull.h says.
THEOREM CheckpointsAgree == Spec => []CheckpointsMatch
<1>1. ASSUME StreamInv
      PROVE  CheckpointsMatch
  <2>1. /\ d_blocks \in Nat /\ e_blocks \in Nat /\ d_blocks <= e_blocks
        /\ Len(marks) = e_blocks /\ d_produced = CutAt(d_blocks)
        /\ marks \in Seq([blocks : Nat, bytes : Nat])
    BY <1>1 DEF StreamInv, TypeOK, AtBoundary, Listed
  <2>2. ASSUME d_blocks > 0
        PROVE  D!Checkpoint = marks[d_blocks]
    <3>1. d_blocks \in 1..Len(marks)
      BY <2>1, <2>2
    <3>2. marks[d_blocks].blocks = d_blocks /\ marks[d_blocks].bytes = d_produced
      BY <1>1, <2>1, <3>1 DEF StreamInv, Listed, CutAt
    <3>3. marks[d_blocks] \in [blocks : Nat, bytes : Nat]
      BY <2>1, <3>1, ElementOfSeq
    <3> QED
      BY <3>2, <3>3 DEF D!Checkpoint
  <2>3. ASSUME d_blocks = e_blocks
        PROVE  D!Checkpoint = E!Checkpoint
    <3> DEFINE cut  == CutAt(e_blocks)
               size == Len(e_in)
    <3>1. cut + size = e_consumed /\ d_produced = cut
      BY <1>1, <2>1, <2>3 DEF StreamInv, Pending
    <3>2. cut \in Nat /\ size \in Nat
      <4>1. e_in \in Seq(Nat) /\ d_produced \in Nat
        BY <1>1 DEF StreamInv, TypeOK
      <4> QED
        BY <3>1, <4>1, LenProperties
    <3> HIDE DEF cut, size
    <3>3. e_consumed - size = cut
      BY <3>1, <3>2
    <3> QED
      BY <2>3, <3>1, <3>3 DEF D!Checkpoint, E!Checkpoint, size
  <2> QED
    BY <2>1, <2>2, <2>3 DEF CheckpointsMatch
<1>2. StreamInv => CheckpointsMatch
  BY <1>1
<1> QED
  BY StreamInvariant, <1>2, PTL

\* pp_out_compact never moves more bytes than pull has handed out: "cheap
\* amortized linear work", for every sequence of pulls.
THEOREM CompactionIsCheap == Spec => []PullMovesLittle
<1>1. StreamInv => PullMovesLittle
  BY DEF StreamInv, TypeOK, Pieces, PullMovesLittle, E!PullMovesLittle
<1> QED
  BY StreamInvariant, <1>1, PTL

\* next reports done only where the bytes fed end with the block last handed
\* out, also for an input that was ended early.
THEOREM DoneIsTheEnd == Spec => []DoneMeansDrained
<1>1. ASSUME StreamInv
      PROVE  DoneMeansDrained
  <2>1. EndAt(d_blocks) + Len(d_in) = fed /\ EndAt(d_blocks) \in Nat
    BY <1>1, PieceBounds
  <2>2. d_reported = "done" => Len(d_in) = 0
    BY <1>1, EmptySeq DEF StreamInv, InProgress
  <2> QED
    BY <2>1, <2>2 DEF DoneMeansDrained, EndAt
<1>2. StreamInv => DoneMeansDrained
  BY <1>1
<1> QED
  BY StreamInvariant, <1>2, PTL

-----------------------------------------------------------------------------
(* A caller that ends the input only when all is carried.                  *)

\* The queue is empty when nothing more is reported, a finished encoder has
\* nothing pending, and an input that was ended stays complete.
LEMMA CarriedStep ==
    ASSUME EndsEarly = FALSE, StreamInv, CarriedInv, [Next]_vars
    PROVE  CarriedInv'
<1> USE DEF CarriedInv, Drained, Closed, EndedAll, AllCarried
<1>1. CASE \E n \in PushSizes : CallPush(n)
  BY <1>1 DEF CallPush, E!Push, EncoderStep, decoder
<1>2. CASE Absorb
  BY <1>2 DEF Absorb, E!Absorb, EncoderStep, decoder
<1>3. CASE EmitFull
  BY <1>3 DEF EmitFull, E!EmitFull, EncoderStep, decoder
<1>4. CASE PushFails
  BY <1>4 DEF PushFails, E!PushFails, EncoderStep, decoder
<1>5. CASE CallFlush
  BY <1>5 DEF CallFlush, E!Flush, EncoderStep, decoder
<1>6. CASE CallFinish
  <2>1. e_in' = <<>>
    <3>1. CASE e_in = <<>>
      BY <1>6, <3>1 DEF CallFinish, E!Finish
    <3>2. CASE e_in # <<>>
      BY <1>6, <3>2, EmitSteps, EmitAdds
    <3> QED
      BY <3>1, <3>2
  <2> QED
    BY <1>6, <2>1 DEF CallFinish, E!Finish, EncoderStep, decoder
<1>7. CASE \E cap \in Caps : CallPull(cap)
  <2> SUFFICES ASSUME NEW cap \in Caps, CallPull(cap)
               PROVE  CarriedInv'
    BY <1>7
  <2>1. more /\ UNCHANGED <<e_finished, e_in, e_at, decoder>>
    BY DEF CallPull, E!Pull
  <2>2. Drained'
    <3> SUFFICES ASSUME ~ more'
                 PROVE  e_head' = Len(e_out')
      OBVIOUS
    <3> DEFINE take == E!PullTake(cap)
               len  == Len(e_out)
    <3>1. /\ len \in Nat /\ e_head \in Nat /\ e_head <= len /\ cap \in Nat
          /\ e_out \in Seq(Byte)
      BY PushPullAssumption, LenProperties DEF StreamInv, TypeOK, Pieces
    <3>2. ~ (take < len - e_head)
      BY DEF CallPull, E!MoreAvailable, E!Queued
    <3>3. take = IF len - e_head < cap THEN len - e_head ELSE cap
      BY DEF E!PullTake, E!Queued
    <3> HIDE DEF take, len
    <3>4. e_head + take = len
      BY <3>1, <3>2, <3>3
    <3>5. \/ e_out' = e_out /\ e_head' = e_head + take
          \/ e_out' = SubSeq(e_out, e_head + take + 1, len) /\ e_head' = 0
      BY DEF CallPull, E!Pull, E!Compact, E!Drop, take, len
    <3>6. SubSeq(e_out, len + 1, len) = <<>>
      BY <3>1, SubSeqEmpty
    <3> QED
      BY <3>4, <3>5, <3>6, EmptySeq DEF len
  <2> QED
    BY <2>1, <2>2 DEF decoder
<1>8. CASE \E n \in Chunks : Feed(n)
  BY <1>8 DEF Feed, D!Push, DecoderStep, encoder
<1>9. CASE CallNext
  BY <1>9 DEF CallNext, D!Next, D!NextBadHeader, D!NextBlock, D!NextUndecodable, D!NextStarved,
             D!NextTruncated, D!NextDone, D!NextLatched, D!Latch, DecoderStep, encoder
<1>10. CASE NextNoMemory
  BY <1>10 DEF NextNoMemory, D!NextNoMemory, D!NextDecodeNoMemory, D!Latch, DecoderStep, encoder
<1>11. CASE CallDecoderFinish
  BY <1>11 DEF CallDecoderFinish, D!Finish, DecoderStep, encoder
<1>12. CASE ResetBoth
  BY <1>12, EmptySeq DEF ResetBoth, E!Reset, D!Reset
<1>13. CASE UNCHANGED vars
  BY <1>13 DEF vars, encoder, decoder
<1> QED
  BY <1>1, <1>2, <1>3, <1>4, <1>5, <1>6, <1>7, <1>8, <1>9, <1>10, <1>11, <1>12, <1>13
     DEF Next

\* So it is for every behaviour of such a caller.
LEMMA CarriedInvariant ==
    ASSUME EndsEarly = FALSE
    PROVE  Spec => []CarriedInv
<1>1. Init => CarriedInv
  BY EmptySeq DEF Init, E!Init, D!Init, CarriedInv, Drained, Closed, EndedAll
<1>2. StreamInv /\ CarriedInv /\ [Next]_vars => CarriedInv'
  BY CarriedStep
<1> QED
  BY StreamInvariant, <1>1, <1>2, PTL DEF Spec

\* An input that was ended holds all that was absorbed: its last byte is the
\* last byte of the last block.
LEMMA EndedHoldsAll ==
    ASSUME StreamInv, CarriedInv, d_finished
    PROVE  /\ CutAt(e_blocks) = Len(absorbed)
           /\ d_in = <<>> => d_blocks = e_blocks
           /\ d_in # <<>> => Len(d_in) >= ThisSize
<1> DEFINE here == EndAt(d_blocks)
           last == EndAt(e_blocks)
           held == Len(d_in)
           len  == Len(e_out)
<1>1. /\ here \in Nat /\ last \in Nat /\ held \in Nat /\ len \in Nat
      /\ here + held = fed /\ fed + Len(wire) = e_pulled
      /\ (e_pulled - e_head) + len = last /\ d_blocks \in 0..e_blocks /\ e_blocks \in 0..e_blocks
  BY PieceBounds
<1>2. /\ e_head = len /\ Len(wire) = 0 /\ e_in = <<>>
      /\ e_head \in Nat /\ e_pulled \in Nat /\ fed \in Nat
      /\ d_blocks \in Nat /\ e_blocks \in Nat
  BY EmptySeq DEF CarriedInv, Drained, Closed, EndedAll, AllCarried, StreamInv, TypeOK
<1> HIDE DEF here, last, held, len
<1>3. here + held = last
  BY <1>1, <1>2
<1>4. CutAt(e_blocks) = Len(absorbed)
  <2>1. CutAt(e_blocks) + Len(e_in) = Len(absorbed) /\ Len(e_in) = 0
    BY <1>2, EmptySeq DEF StreamInv, Pending
  <2>2. CutAt(e_blocks) \in Nat
    BY <1>1, ListedBounds DEF StreamInv
  <2> QED
    BY <2>1, <2>2
<1>5. d_in = <<>> => d_blocks = e_blocks
  <2> SUFFICES ASSUME d_in = <<>>, d_blocks # e_blocks
               PROVE  FALSE
    OBVIOUS
  <2>1. held = 0
    BY EmptySeq DEF held
  <2>2. d_blocks < e_blocks
    BY <1>1, <1>2
  <2>3. here + HeaderBytes <= last
    BY <1>1, <2>2 DEF StreamInv, Listed, here, last
  <2> QED
    BY <1>1, <1>3, <2>1, <2>3, PushPullAssumption
<1>6. ASSUME d_in # <<>>
      PROVE  Len(d_in) >= ThisSize
  <2>1. /\ d_blocks + 1 \in 1..e_blocks /\ ThisSize \in Nat
        /\ EndAt(d_blocks + 1) = here + ThisSize
    BY <1>6, RecordAtHand DEF here
  <2>2. EndAt(d_blocks + 1) <= last
    <3>1. d_blocks + 1 \in 0..e_blocks
      BY <2>1
    <3> QED
      BY <3>1, ListedBounds DEF StreamInv, last
  <2> QED
    BY <1>1, <1>3, <2>1, <2>2 DEF held
<1> QED
  BY <1>4, <1>5, <1>6

-----------------------------------------------------------------------------
(* The decoder of an intact stream.                                        *)

\* What it has is the record it takes it for.
LEMMA IntactStarts ==
    ASSUME StreamInv, d_in # <<>>, NEW n \in Nat, n <= Len(d_in), n <= ThisSize
    PROVE  D!StartsRecord(n)
<1>1. /\ \A k \in 1..Len(d_in) :
            k <= ThisSize => d_in[k] = [elems |-> BlockElems(d_blocks + 1),
                                        size |-> ThisSize, pos |-> k]
      /\ ThisSize \in Nat \ {0}
  BY RecordAtHand
<1>2. d_in \in Seq(Byte) /\ Len(d_in) \in Nat \ {0}
  BY LenProperties, EmptySeq DEF StreamInv, TypeOK
<1>3. d_in[1] = [elems |-> BlockElems(d_blocks + 1), size |-> ThisSize, pos |-> 1]
  BY <1>1, <1>2
<1>4. \A k \in 1..n : k \in 1..Len(d_in) /\ k <= ThisSize
  BY <1>1, <1>2
<1>5. \A k \in 1..n : d_in[k] = [d_in[1] EXCEPT !.pos = k]
  BY <1>1, <1>3, <1>4
<1> QED
  BY <1>5 DEF D!StartsRecord

\* So it finds nothing to latch, on the way or at the end.
LEMMA IntactStep ==
    ASSUME {"damage", "scratch"} \cap Faults = {},
           StreamInv, CarriedInv, IntactIsNeverCorrupt, [Next]_vars
    PROVE  IntactIsNeverCorrupt'
<1> USE DEF IntactIsNeverCorrupt
<1>1. /\ D!ParsedPhase \in {"header", "parsed", "ready"}
      /\ D!ParsedPhase \in {"parsed", "ready"} =>
            /\ d_in # <<>> /\ Len(d_in) >= HeaderBytes
            /\ D!ParsedTotal = ThisSize
      /\ D!ParsedPhase = "ready" => Len(d_in) >= D!ParsedTotal
      /\ D!ParsedPhase = "header" => d_phase = "header" /\ ~ D!HeaderArrived
  BY ParsedRight
<1>2. /\ d_in # <<>> => ThisSize \in Nat /\ ThisSize >= HeaderBytes
      /\ HeaderBytes \in Nat \ {0}
      /\ Len(d_in) \in Nat /\ (d_in = <<>> => Len(d_in) = 0)
  BY PushPullAssumption, RecordAtHand, LenProperties, EmptySeq DEF StreamInv, TypeOK
<1>3. ~ D!HeaderBad
  <2> SUFFICES ASSUME D!HeaderArrived
               PROVE  D!StartsRecord(HeaderBytes)
    BY DEF D!HeaderBad
  <2>1. Len(d_in) >= HeaderBytes /\ d_in # <<>>
    BY <1>2 DEF D!HeaderArrived
  <2> QED
    BY <1>2, <2>1, IntactStarts
<1>4. ~ D!NextUndecodable
  <2> SUFFICES ASSUME D!ParsedPhase = "ready"
               PROVE  D!StartsRecord(D!ParsedTotal)
    BY DEF D!NextUndecodable
  <2> QED
    BY <1>1, <1>2, IntactStarts
<1>5. ~ D!NextTruncated
  <2> SUFFICES ASSUME D!ParsedPhase # "ready", d_finished, d_in # <<>>
               PROVE  FALSE
    BY DEF D!NextTruncated, D!Starved
  <2>1. Len(d_in) >= ThisSize /\ Len(d_in) >= HeaderBytes
    BY <1>2, EndedHoldsAll
  <2>2. CASE D!ParsedPhase = "header"
    BY <1>1, <2>1, <2>2 DEF D!HeaderArrived
  <2>3. CASE D!ParsedPhase = "parsed"
    BY <1>1, <2>1, <2>3 DEF D!ParsedPhase
  <2> QED
    BY <1>1, <2>2, <2>3
<1>6. CASE CallNext
  BY <1>1, <1>3, <1>4, <1>5, <1>6
     DEF CallNext, D!Next, D!NextBadHeader, D!NextBlock, D!NextStarved, D!NextDone, D!NextLatched
<1>7. CASE NextNoMemory
  BY <1>7 DEF NextNoMemory, D!NextNoMemory
<1>8. CASE CallDecoderFinish
  BY <1>8 DEF CallDecoderFinish, D!Finish
<1>9. CASE ResetBoth
  BY <1>9 DEF ResetBoth, D!Reset
<1>10. CASE \E n \in Chunks : Feed(n)
  BY <1>10 DEF Feed, D!Push
<1>11. CASE UNCHANGED decoder
  BY <1>11 DEF decoder
<1>12. CASE \/ \E n \in PushSizes : CallPush(n)
            \/ Absorb \/ EmitFull \/ PushFails \/ CallFlush \/ CallFinish
            \/ \E cap \in Caps : CallPull(cap)
            \/ UNCHANGED vars
  BY <1>11, <1>12 DEF CallPush, Absorb, EmitFull, PushFails, CallFlush, CallFinish, CallPull,
                      EncoderStep, vars
<1> QED
  BY <1>6, <1>7, <1>8, <1>9, <1>10, <1>12 DEF Next

\* Without damage, and short of memory only where a retry is possible, the
\* decoder latches no failure: not at a header, not in a record, not at the
\* end of the input.
THEOREM IntactNeverCorrupt ==
    ASSUME {"damage", "scratch"} \cap Faults = {}, EndsEarly = FALSE
    PROVE  Spec => []IntactIsNeverCorrupt
<1>1. Init => IntactIsNeverCorrupt
  BY DEF Init, D!Init, IntactIsNeverCorrupt
<1>2. StreamInv /\ CarriedInv /\ IntactIsNeverCorrupt /\ [Next]_vars => IntactIsNeverCorrupt'
  BY IntactStep
<1> QED
  BY StreamInvariant, CarriedInvariant, <1>1, <1>2, PTL DEF Spec

-----------------------------------------------------------------------------
(* The pair implements the pipe.                                           *)

\* The boundaries the pipe sees.
Cuts == [b \in DOMAIN marks |-> marks[b].bytes]

\* The pipe's view of a state.
View == <<absorbed, Cuts, d_blocks, d_delivered, d_reported = "done">>

\* The boundaries are a sequence, and those of the history.
LEMMA CutsRight ==
    ASSUME StreamInv
    PROVE  /\ Cuts \in Seq(Nat) /\ Len(Cuts) = e_blocks
           /\ \A b \in 0..e_blocks : Pipe!CutAt(b) = CutAt(b)
<1>1. /\ marks \in Seq([blocks : Nat, bytes : Nat]) /\ Len(marks) = e_blocks
      /\ e_blocks \in Nat /\ DOMAIN marks = 1..e_blocks
  BY LenProperties DEF StreamInv, TypeOK, Listed
<1>2. \A b \in 1..e_blocks : marks[b].bytes \in Nat
  <2>1. \A b \in 1..e_blocks : marks[b] \in [blocks : Nat, bytes : Nat]
    BY <1>1, ElementOfSeq
  <2> QED
    BY <2>1
<1>3. Cuts = [b \in 1..e_blocks |-> marks[b].bytes]
  BY <1>1 DEF Cuts
<1>4. Cuts \in Seq(Nat) /\ Len(Cuts) = e_blocks
  BY <1>1, <1>2, <1>3
<1>5. \A b \in 0..e_blocks : b = 0 \/ b \in 1..e_blocks
  BY <1>1
<1> QED
  BY <1>1, <1>3, <1>4, <1>5 DEF Pipe!CutAt, CutAt, Cuts

\* Once done is reported the stream is over for both sides.
LEMMA OverIsOver ==
    ASSUME StreamInv, CarriedInv, d_reported = "done"
    PROVE  /\ d_finished /\ d_in = <<>> /\ d_phase = "header"
           /\ e_finished /\ e_at = "idle" /\ e_in = <<>>
  BY DEF StreamInv, InProgress, CarriedInv, EndedAll, AllCarried, Closed

\* What the encoder absorbs, the pipe accepts.
LEMMA AbsorbAccepts ==
    ASSUME StreamInv, CarriedInv, Absorb
    PROVE  Pipe!Accept \/ UNCHANGED View
<1> DEFINE taken == SubSeq(e_rest, 1, E!Take)
<1>1. /\ absorbed' = absorbed \o taken /\ e_at = "absorb"
      /\ UNCHANGED <<marks, decoder>>
  BY DEF Absorb, E!Absorb, EncoderStep
<1>2. /\ absorbed \in Seq(Nat) /\ e_rest \in Seq(Nat) /\ Len(absorbed) \in Nat
      /\ Len(e_in) \in Nat /\ Len(e_in) <= Target /\ Target \in Nat /\ Len(e_rest) \in Nat
  BY PushPullAssumption, LenProperties DEF StreamInv, TypeOK
<1>3. E!Take \in Nat /\ E!Take <= Len(e_rest)
  BY <1>2 DEF E!Take
<1>4. taken \in Seq(Nat) /\ Len(taken) = E!Take
  BY <1>2, <1>3, SubSeqType
<1>5. d_reported # "done"
  BY <1>1, OverIsOver
<1> HIDE DEF taken
<1>6. /\ absorbed' \in Seq(Nat) /\ Len(absorbed') = Len(absorbed) + Len(taken)
      /\ \A i \in 1..(Len(absorbed) + Len(taken)) :
            absorbed'[i] = IF i <= Len(absorbed) THEN absorbed[i]
                           ELSE taken[i - Len(absorbed)]
  BY <1>1, <1>2, <1>4, ConcatProperties
<1>7. CASE E!Take = 0
  <2>1. taken = <<>>
    BY <1>4, <1>7, EmptySeq
  <2>2. absorbed' = absorbed
    BY <1>1, <1>2, <2>1, ConcatEmptySeq
  <2> QED
    BY <1>1, <2>2 DEF View, Cuts, decoder
<1>8. CASE E!Take # 0
  <2>1. Len(absorbed') > Len(absorbed)
    BY <1>2, <1>3, <1>4, <1>6, <1>8
  <2>2. SubSeq(absorbed', 1, Len(absorbed)) = absorbed
    <3>1. \A i \in 1..Len(absorbed) : absorbed'[i] = absorbed[i]
      BY <1>2, <1>3, <1>4, <1>6
    <3>2. SubSeq(absorbed', 1, Len(absorbed)) = SubSeq(absorbed, 1, Len(absorbed))
      BY <1>2, <1>6, <2>1, <3>1, SubSeqKept
    <3> QED
      BY <1>2, <3>2, SubSeqFull
  <2> QED
    BY <1>1, <1>5, <2>1, <2>2 DEF Pipe!Accept, decoder
<1> QED
  BY <1>7, <1>8

\* A block emitted is a boundary behind everything accepted.
LEMMA EmitCuts ==
    ASSUME StreamInv, CarriedInv, EmitsAll
    PROVE  Pipe!Cut
<1>1. /\ marks' = Append(marks, [blocks |-> e_blocks + 1, bytes |-> Len(absorbed)])
      /\ UNCHANGED <<absorbed, decoder>> /\ e_in # <<>>
  BY EmitAdds DEF EmitsAll, EncoderStep
<1>2. /\ marks \in Seq([blocks : Nat, bytes : Nat]) /\ Len(marks) = e_blocks
      /\ e_blocks \in Nat /\ Len(absorbed) \in Nat /\ Len(e_in) \in Nat \ {0}
  BY <1>1, LenProperties, EmptySeq DEF StreamInv, TypeOK, Listed
<1>3. d_reported # "done"
  BY <1>1, OverIsOver
<1>4. /\ Cuts \in Seq(Nat) /\ Len(Cuts) = e_blocks
      /\ Pipe!CutAt(e_blocks) = CutAt(e_blocks) /\ CutAt(e_blocks) \in Nat
  <2>1. e_blocks \in 0..e_blocks
    BY <1>2
  <2> QED
    BY <2>1, CutsRight, ListedBounds DEF StreamInv
<1>5. Len(absorbed) > CutAt(e_blocks)
  <2>1. CutAt(e_blocks) + Len(e_in) = Len(absorbed)
    BY DEF StreamInv, Pending
  <2> QED
    BY <1>2, <1>4, <2>1
<1>6. Cuts' = Append(Cuts, Len(absorbed))
  <2> DEFINE mark == [blocks |-> e_blocks + 1, bytes |-> Len(absorbed)]
             grown == Append(Cuts, Len(absorbed))
  <2>1. mark \in [blocks : Nat, bytes : Nat] /\ mark.bytes = Len(absorbed)
    BY <1>2
  <2> HIDE DEF mark
  <2>2. /\ marks' \in Seq([blocks : Nat, bytes : Nat]) /\ Len(marks') = e_blocks + 1
        /\ \A b \in 1..e_blocks : marks'[b] = marks[b]
        /\ marks'[e_blocks + 1] = mark
    BY <1>1, <1>2, <2>1, AppendProperties DEF mark
  <2>3. Cuts' = [b \in 1..(e_blocks + 1) |-> marks'[b].bytes]
    BY <2>2, LenProperties DEF Cuts
  <2>4. /\ grown \in Seq(Nat) /\ Len(grown) = e_blocks + 1
        /\ \A b \in 1..e_blocks : grown[b] = Cuts[b]
        /\ grown[e_blocks + 1] = Len(absorbed)
    BY <1>2, <1>4, AppendProperties
  <2>5. grown = [b \in 1..(e_blocks + 1) |-> grown[b]]
    <3> HIDE DEF grown
    <3> QED
      BY <1>2, <2>4, LenProperties
  <2>6. \A b \in 1..e_blocks : Cuts[b] = marks[b].bytes
    BY <1>2, LenProperties DEF Cuts
  <2> HIDE DEF grown
  <2>7. \A b \in 1..(e_blocks + 1) : marks'[b].bytes = grown[b]
    <3>1. \A b \in 1..(e_blocks + 1) : b \in 1..e_blocks \/ b = e_blocks + 1
      BY <1>2
    <3> QED
      BY <2>1, <2>2, <2>4, <2>6, <3>1
  <2>8. Cuts' = grown
    BY <2>3, <2>5, <2>7
  <2> QED
    BY <2>8 DEF grown
<1> QED
  BY <1>1, <1>3, <1>4, <1>5, <1>6 DEF Pipe!Cut, Cuts, decoder

\* A block handed out is the pipe's next delivery.
LEMMA BlockDelivers ==
    ASSUME StreamInv, CallNext, D!NextBlock
    PROVE  Pipe!Deliver
<1>1. /\ d_blocks + 1 \in 1..e_blocks /\ d_blocks' = d_blocks + 1
      /\ d_delivered' = d_delivered \o BlockElems(d_blocks + 1)
  BY BlockKeeps
<1>2. /\ UNCHANGED <<absorbed, marks>> /\ d_reported' = "block"
      /\ D!ParsedPhase = "ready" /\ d_phase # "corrupt"
  BY DEF CallNext, D!NextBlock, DecoderStep
<1>3. d_reported # "done"
  <2>1. d_in # <<>>
    BY <1>2, ParsedRight
  <2> QED
    BY <2>1 DEF StreamInv, InProgress
<1>4. d_blocks \in 0..e_blocks /\ d_blocks + 1 \in 0..e_blocks /\ d_blocks < e_blocks
  BY <1>1 DEF StreamInv, TypeOK
<1>5. /\ Len(Cuts) = e_blocks
      /\ Pipe!CutAt(d_blocks) = CutAt(d_blocks)
      /\ Pipe!CutAt(d_blocks + 1) = CutAt(d_blocks + 1)
  BY <1>4, CutsRight
<1>6. BlockElems(d_blocks + 1) = SubSeq(absorbed, CutAt(d_blocks) + 1, CutAt(d_blocks + 1))
  BY <1>1, NextElems
<1> QED
  BY <1>1, <1>2, <1>3, <1>4, <1>5, <1>6 DEF Pipe!Deliver, Cuts

\* The first done announces the end; a repeated one says nothing new.
LEMMA DoneAnnounces ==
    ASSUME StreamInv, CarriedInv, CallNext, D!NextDone
    PROVE  Pipe!Announce \/ UNCHANGED View
<1>1. /\ UNCHANGED <<absorbed, marks, d_blocks, d_delivered>> /\ d_reported' = "done"
      /\ d_finished /\ d_in = <<>>
  BY DEF CallNext, D!NextDone, DecoderStep
<1>2. d_delivered = absorbed
  <2>1. d_blocks = e_blocks /\ CutAt(e_blocks) = Len(absorbed)
    BY <1>1, EndedHoldsAll
  <2>2. d_delivered = SubSeq(absorbed, 1, Len(absorbed)) /\ absorbed \in Seq(Nat)
    BY <2>1 DEF StreamInv, AtBoundary, TypeOK
  <2> QED
    BY <2>2, SubSeqFull
<1> QED
  BY <1>1, <1>2 DEF Pipe!Announce, View, Cuts

\* Every other call to next, failed or in vain, shows the pipe nothing.
LEMMA OthersStutter ==
    ASSUME StreamInv,
           \/ CallNext /\ (\/ D!NextBadHeader \/ D!NextUndecodable \/ D!NextStarved
                           \/ D!NextTruncated \/ D!NextLatched)
           \/ NextNoMemory
    PROVE  UNCHANGED View
<1>1. UNCHANGED <<absorbed, marks, d_blocks, d_delivered>> /\ d_reported' # "done"
  BY DEF CallNext, NextNoMemory, D!NextBadHeader, D!NextUndecodable, D!NextTruncated,
         D!NextStarved, D!NextLatched, D!NextNoMemory, D!NextDecodeNoMemory, D!Latch, DecoderStep
<1>2. d_reported # "done"
  <2> SUFFICES ASSUME d_reported = "done"
               PROVE  FALSE
    OBVIOUS
  <2>1. /\ d_finished /\ d_in = <<>> /\ d_phase = "header"
        /\ Len(d_in) = 0 /\ HeaderBytes \in Nat \ {0}
    BY PushPullAssumption, EmptySeq DEF StreamInv, InProgress
  <2>2. D!ParsedPhase # "ready" /\ ~ D!HeaderArrived
    BY <2>1, ParsedRight DEF D!HeaderArrived
  <2> QED
    BY <2>1, <2>2
       DEF CallNext, NextNoMemory, D!NextBadHeader, D!HeaderBad, D!NextUndecodable,
           D!NextTruncated, D!NextStarved, D!NextLatched, D!NextNoMemory, D!NextDecodeNoMemory
<1> QED
  BY <1>1, <1>2 DEF View, Cuts

\* Every step of the pair is a step of the pipe, or one it does not see.
LEMMA StepRefines ==
    ASSUME StreamInv, CarriedInv, [Next]_vars
    PROVE  Pipe!Next \/ UNCHANGED View
<1> USE DEF Pipe!Next
<1>1. ASSUME UNCHANGED <<absorbed, marks, d_blocks, d_delivered, d_reported>>
      PROVE  UNCHANGED View
  BY <1>1 DEF View, Cuts
<1>2. CASE (\E n \in PushSizes : CallPush(n)) \/ PushFails
  BY <1>1, <1>2 DEF CallPush, PushFails, E!Push, E!PushFails, EncoderStep, decoder
<1>3. CASE Absorb
  BY <1>3, AbsorbAccepts
<1>4. CASE EmitFull \/ CallFlush
  BY <1>4, EmitSteps, EmitCuts
<1>5. CASE CallFinish
  <2>1. CASE e_in = <<>>
    BY <1>1, <1>5, <2>1, FinishEmptyKeeps DEF Quiet, decoder
  <2>2. CASE e_in # <<>>
    BY <1>5, <2>2, EmitSteps, EmitCuts
  <2> QED
    BY <2>1, <2>2
<1>6. CASE \E cap \in Caps : CallPull(cap)
  BY <1>1, <1>6 DEF CallPull, decoder, history
<1>7. CASE \E n \in Chunks : Feed(n)
  BY <1>1, <1>7 DEF Feed, D!Push, DecoderStep
<1>8. CASE CallNext
  BY <1>8, BlockDelivers, DoneAnnounces, OthersStutter DEF CallNext, D!Next
<1>9. CASE NextNoMemory
  BY <1>9, OthersStutter
<1>10. CASE CallDecoderFinish
  BY <1>1, <1>10 DEF CallDecoderFinish, D!Finish, DecoderStep
<1>11. CASE ResetBoth
  <2>1. /\ absorbed' = <<>> /\ marks' = <<>> /\ d_blocks' = 0 /\ d_delivered' = <<>>
        /\ d_reported' = "none"
    BY <1>11 DEF ResetBoth, D!Reset
  <2>2. Cuts' = <<>>
    BY <2>1 DEF Cuts
  <2> QED
    BY <2>1, <2>2 DEF Pipe!Restart, Cuts
<1>12. CASE UNCHANGED vars
  BY <1>1, <1>12 DEF vars, decoder, history
<1> QED
  BY <1>2, <1>3, <1>4, <1>5, <1>6, <1>7, <1>8, <1>9, <1>10, <1>11, <1>12 DEF Next

\* The pair implements the pipe: whatever the sizes of the pushes, pulls and
\* chunks, elements come out in the order they were absorbed, block by block,
\* none lost and none twice, and the end is announced only after the last.
THEOREM PairIsAPipe ==
    ASSUME EndsEarly = FALSE
    PROVE  Spec => DeliversInOrder
<1>1. Init => Pipe!Init
  <2> SUFFICES ASSUME Init
               PROVE  Pipe!Init
    OBVIOUS
  <2>1. Cuts = <<>>
    BY DEF Init, Cuts
  <2> QED
    BY <2>1 DEF Init, D!Init, Pipe!Init, Cuts
<1>2. StreamInv /\ CarriedInv /\ [Next]_vars => [Pipe!Next]_(Pipe!vars)
  BY StepRefines DEF Pipe!vars, View, Cuts
<1> QED
  BY StreamInvariant, CarriedInvariant, <1>1, <1>2, PTL DEF Spec, DeliversInOrder, Pipe!Spec

=============================================================================
