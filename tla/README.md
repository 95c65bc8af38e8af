# TDC: specifications, model checking and proofs

TDC is a C library that stores typed arrays. A block (a vector, a raster, a stack or a volume
of one dtype) is encoded by a model, a chain of transforms and a chain of entropy coders into a
self-describing *block record*; a *container* is a header, a schema, block records and a trailing
row-group index. These modules model the parts of the library that keep state across calls and the
codecs behind them, check both with TLC and prove what matters most with TLAPS.

Names follow the code. Every definition that models code is listed, with its lines, in
`PROJECT.json` under `map`.

## Inventory

| Component | Source | State | Operations | Hard behaviour | What makes it correct |
|---|---|---|---|---|---|
| Stream encoder | `src/api/stream_encode.c` | io position, `write_pos`, `live_index_off`, open row group, finished groups, the container as found | open, open_widen, open_extend, write_block, write_record, widen_block, set_rowgroup_stats, end_rowgroup, close, abort | crash and torn write at any point, index moved under the write cursor, failed hook, failed allocation | a header never names missing bytes; a pass is all or nothing; moves are logarithmic; abort restores |
| Stream decoder | `src/api/stream_decode.c` | position, peeked header, counters, parsed schema and index | open, peek, read, skip, seek_rowgroup, close | failed reads between peek and read, mixing seeks with the forward walk | blocks come back in order, each once; the block read is the block peeked |
| Push/pull encoder | `src/api/pushpull_encode.c` | input buffer, output queue with a head, counters, finished | push, pull, flush, finish, checkpoint, reset | splitting at any boundary, compaction, failure inside push | the queue holds exactly the records of the pushed elements, in order |
| Push/pull decoder | `src/api/pushpull_decode.c` | input buffer with a head, phase, counters, finished | push, next, finish, checkpoint, reset | chunks that split headers, latching | elements out are a prefix of elements in; checkpoints agree |
| Block encode driver | `src/api/encode.c`, `driver_internal.h` | scratch buffers | encode_block | zero residual, chains with gaps | every accepted spec makes a record that validates and decodes |
| Block decode driver | `src/api/decode_impl.c`, `decode*.c` | scratch buffers, hook | decode_block, decode_ex, into, varlen, dict | error exits, dtype walk against the encoder's | inverse of encode; nothing leaks |
| Entropy chain | `src/api/entropy_chain.c` | two buffers | encode, decode | stage sizes, empty chain | inverse |
| Side packing | `src/api/side_pack.c` | none | pack, unpack | deltas that wrap | inverse |
| Registry | `src/core/registry.c` | slots and counts | register, get, clear | the 16th slot, two threads | lookup returns what was registered |
| Header, record, index, schema, statistics codecs | `src/format/*.c` | none | serialize, parse, validate | counts from disk, failed allocation half-way | parse inverts serialize; every written header validates |
| Buffers | `src/core/buffer.h` | capacity | reserve | doubling near the limit | capacity covers the need |
| Transforms | `src/transform/*.c` | none | encode, decode | wrap-around, partial groups | inverse |
| 1D, 2D, 3D models | `src/model/*.c` | none | encode, decode | wrap-around, borders, predictor selection | inverse |
| LZ, Huffman, FSE, lanes | `src/entropy/*.c` | tables | encode, decode | overlapping copies, length limits | inverse |
| deflate, timers, log, SIMD dispatch, tools, benches | | | | | not modelled: no state of the library depends on them; deflate is zlib |

Interaction: the two streaming APIs call the block drivers; the drivers look backends up in the
registry and call models, transforms and entropy coders through vtables; the stream encoder and
decoder share the format codecs, and meet only through the file. The library starts no thread. The
environment acts through callbacks: `tdc_io` (read, write, seek), `realloc_fn` and the relocation
hook, each of which may fail; and the process may die between or inside writes.

## Plan

1. `Container`, `StreamEncoder`: the growable container and its crash safety; inductive invariant
   and proof. **Done**: every property proved.
2. `PushPull` over an abstract pipe of elements: encoder, decoder and the chunks between them.
   **Done**: every safety property and the refinement proved.
3. `StreamDecoder`, `Readback`: the walk, the seeks and failed reads over the files `StreamEncoder`
   leaves. **Done**: every property proved.
4. `BlockPipeline`: spec validation, chains, zero residual, sections; encode then decode, with the
   `Registry`. **Done**: every property proved.
5. `Formats`: schema, row-group index, statistics and buffers, byte by byte. **Modelled and
   checked**; of the container header the homogeneous branch is left.
6. The codecs as functions on bounded inputs: transforms, symbols and side packing; 1D, 2D and 3D
   models; the LZ family; Huffman, FSE and lanes. **Modelled and checked**; the search of the optimal
   LZ parser is left.
7. Refinement proofs: `StreamEncoder` implements `Container`; `PushPull` implements its pipe.
   **Done.**
8. Proofs about the codecs: words, powers of two and loops over a block as lemmas (`DataLemmas`,
   `CodecLemmas`), then one property after the other. **Done** for types, transforms, sizes,
   dictionaries and vectors. Left: rasters and volumes, Huffman and FSE, the LZ formats.

Abstract specifications: the atomic container, the pipe of elements, and a codec as an invertible
function (all stated). The codecs' modules hold no `RECURSIVE` operator and can be proved about.

## The container and its encoder

### Modules

* `Container` is the promise, with no disk: a container is a schema and a sequence of row groups, a
  pass stages one change and commits it in one step or is discarded.
* `ContainerFile` is the file both streaming halves share: the sizes, what lies on disk and how a
  reader finds it through the header.
* `StreamEncoder` is the code. The disk is a header and a set of *extents* (records, schemas, indexes
  whose bytes are all in place). A write removes every extent it overlaps; a torn write removes what
  its prefix overlaps and adds nothing. Reading goes through the header, by offset and size, as the
  decoder does: `Readable` says what the header names is there, `Contents` what a reader finds.
* `MCStreamEncoder` gives record sizes for TLC.
* `StreamEncoderInv` holds the inductive invariants; `StreamEncoderProofs` the proof of crash safety,
  `StreamEncoderRefinement` that of the refinement, of how seldom the index moves and of the container
  without gaps.

| Code | Model |
|---|---|
| the file | `hdr`, `body` |
| `mode`, `seekable`, schema, `orig_hdr`, `orig_index`, `reuse_start` | `mode`, `seekable`, `schema_cols`, `orig_hdr`, `orig_groups`, `reuse_start` |
| the io position, `write_pos`, `live_index_off`, `index_moved` | `io`, `write_pos`, `live_index_off`, `moves` (`index_moved` is `moves > 0`) |
| `cur_cols`, `cur_group_offset`, `cur_stats` | the same names |
| `groups`, `any_stats`, `n_blocks` | the same names |
| the point inside a call | `pc` and `req` |
| `v2_make_room` | `CopyIndex`, `Repoint`, `HookReturns` |
| `write_block`, `write_record`, `widen_block` | `WriteBlock`, `WidenBlock`, then `AppendToGroup`, `AppendToColumn` |
| `close` | `Close`, `WriteTailSchema`, `WriteIndex`, `PatchHeader` |
| `abort` | `Abort`, or `AbortMoved`, `RestoreIndex`, `RestoreHeader` |
| failures | `Crash`, `WriteFails`, `LastWriteFails`, `HookFails`, `NoMemory` |

`want` is a history variable: what successful calls have told the caller is staged. `passes` counts
encoders opened. `failed` records that a call has failed.

A call is split at each I/O call, because the process may die there; the bookkeeping between two I/O
calls is one step. The encoder is not thread-safe by contract (`stream.h`, `write_record`), so one
caller drives it.

### Abstractions

* A record is its size and an identity. Whether it decodes is the block pipeline's concern.
* A header write is atomic: 64 bytes at offset 0, in one `write_fn` call. The code's crash safety rests
  on it too. When a header write *fails*, either header may be on disk.
* Writes reach the disk in program order: the library has no flush to call.
* Row counts, names and dtypes are not modelled; a statistics entry is whether the column has one.
* The legacy generation differs in magic and version only and is not modelled.
* `tdc_stream_encoder_open` runs over a file no pass has completed.
* `CarryOn` is the set of failures after which the caller goes on calling, at most `{"hook", "mem"}`.
  After a failed write, where a caller's io leaves its position is the caller's business; the model
  explores every outcome up to the failure and an abort after it.

### Runs

All runs use `MCStreamEncoder`. Sizes are 1 for every fixed part, so offsets stay small and every
relation between two sizes that matters (record shorter than, equal to and longer than the index)
occurs; `ColWrap` is 2^16 in the code, 8 where wrapping is not the point.

| Run | Shows | Bounds |
|---|---|---|
| `encoder_growth` | `AlwaysReadable`, `ExtendLeavesNoGap`, `CommitsOrDiscards`, `MovesAreRare`, `AbortRestores` under crashes, torn and failed writes, failed hooks and failed allocations, the caller going on after the last | 3 passes, 2 groups, 2 columns |
| `hook_retry` | violated: `AlwaysReadable` when the caller goes on after a failed hook (`CarryOn = {"hook"}`) | 2 passes |
| `late_stats` | violated: `StatsCoverColumns` when a block follows the statistics | 2 passes |
| `header_valid` | violated: `ClosedHeaderIsValid` after an extend | 2 passes |

`TypeOK` and `PassInv` are checked in `readback` below, under the same failures and with two record
lengths. Three passes are enough for every pair of reopening passes to follow a creation: a pass over a
container that an interrupted pass left (index copied, header relocated) and the pass after it are the
last two. Two groups of two columns let the index outgrow and undergrow the free space. Deadlock is
not checked: an encoder that has used its passes stops.

The properties in words:

* `AlwaysReadable` — whatever the header names is on disk in one piece, in every state.
* `CommitsOrDiscards` — the encoder implements `Container`: what a reader finds changes only at the
  header patch, to exactly what was staged.
* `ExtendLeavesNoGap` — while the schema is in its first slot, nothing lies between schema, blocks and
  index, also after passes that crashed.
* `MovesAreRare` — the k-th move after the first needs the pass to reach past 2^k index sizes.
* `AbortRestores` — abort puts the original header and index back. One case is excepted: a header write
  that was reported failed and reached the disk all the same leaves the moved header behind, and the
  container readable through it.

### What is proved

In `StreamEncoderProofs`, for every value of the sizes, payloads, schemas, groups and passes:

* `InductiveInvariant`: `Spec => []IInv`;
* `TypeCorrect`: `Spec => []TypeOK`;
* `CrashSafe`: `Spec => []AlwaysReadable`,

from `CarryOn \subseteq {"mem"}` (the caller may go on after a failed allocation and stops at any other
failed call; `hook_retry` shows that a failed hook must be among them) and
`MaxCols < ColWrap` (a group stays below 2^16 columns: `end_rowgroup` truncates the count to a
`uint16_t`, so a group of 65536 columns is stored with none and its index no longer parses), with every fault
of the model allowed.

`AlwaysReadable` is not inductive: that the header names intact bytes now says nothing of the write
about to happen. `IInv` adds what the code relies on: extents do not overlap (`BodyOK`); what a pass
found is intact below `reuse_start` and its index is at the header's offset, original or copy
(`FoundOK`); the cursor stays between the two, with room for every write the call in progress still
makes (`CursorOK`); what was staged is on disk before `write_pos` (`StagedOK`); the schema the final
header will name (`SchemaOK`). The central lemmas are `CopyRoom` (the copy of the index clears the
write, the index it copies and the original slot), `WriteRegion` (a write between `reuse_start` and the
live index spares everything the header names) and `NewHeader` (the patched header is readable).

In `StreamEncoderRefinement`, from those two hypotheses and `~ LateBlocks` (a group whose statistics are
set gets no further block; `late_stats` shows what becomes of one that does):

* `PassInvariant`: `Spec => []PassInv`;
* `ImplementsContainer`: `Spec => CommitsOrDiscards`;
* `AbortPutsBack`: `Spec => AbortRestores`;
* `MovingIsAmortised` and `MovesRarely`: `Spec => MovesAreRare`;
* `FilledInvariant` and `NoGapLeft`: `Spec => []ExtendLeavesNoGap`.

`IInv` says that what the header names is there, and nothing of *what it is*. `PassInv` adds that:
what the caller was told is staged is what a reader would find of the staged columns (`WantOK`),
statistics cover the columns of their group (`StatsOK`), a committed index lists a group
(`NonemptyOK`), the schema the final header will name is the pass's own (`SchemaIdOK`), a header that
names the index at its own offset is the one the pass found (`MovedOK`, which is what abort rests on),
the index moves only when the next write does not fit (`RoomOK`), and a closed encoder has promised
nothing (`IdleOK`). The refinement is then one step per action: only `PatchHeader` changes what a reader
finds, to `want`; every other step, each fault among them, begins a pass, stages a change, discards the
pass or is a stutter of `Container`.

`MovesAreRare` follows from `RoomGrown`: after the k-th move there is room for 2^k times the index
found. A move happens only when the next write does not fit (`RoomOK`), so the pass has then reached past
that room. The power is counted as the subsets of `1..k`, the one form in which the library's theorems
know it.

`ExtendLeavesNoGap` says what covers every byte, of which crash safety says nothing: a torn write, an
orphaned block or a moved index leaves holes that are harmless to a reader. `GapInv` adds to `PassInv` a
count: an index never lists more blocks than its header counts, and when it lists all of them their
records fill the file (`Counted`), up to the write cursor in an open pass (`PassFilled`), up to whichever
section ends last in a container at rest, which is where the next pass starts writing (`RestFilled`,
`FoundFilled`), and up to the index after a close. The count is needed because a pass closed on an open row
group leaves records no index lists, which the header counts: the equality then fails for good, as
`NoOrphans` says. `PastHeader` keeps a widened schema, which goes to the tail, from being taken for one in
the first slot. TLC checked `GapInv` as an invariant on the bounds of `encoder_growth` before it was proved.

### What is only model-checked

Every property of the passing encoder run is proved. There is no liveness property: an encoder moves only
when its caller calls it.

## The push/pull pair

### Modules

* `ElementPipe` is the promise: elements accepted, block cuts, whole blocks handed out in order, an
  end announced after the last.
* `PushPullEncoder` and `PushPullDecoder` are the two handles, one action per call; a push is one
  action per turn of its loop, because either half of a turn may fail and leave the turns before it
  done. `next` is one action per outcome.
* `PushPull` composes them with the bytes their caller carries, and holds the properties.

| Code | Model |
|---|---|
| `e->in`, `out`, `out_head`, `blocks_emitted`, `bytes_consumed`, `finished` | the same names (`e_in` ... in `PushPull`) |
| the loop of `push` | `Push`, then `Absorb` and `EmitFull` in turn, or `PushFails` |
| `pull`, `flush`, `finish`, `reset`, `checkpoint` | `Pull`, `Flush`, `Finish`, `Reset`, `Checkpoint` |
| `d->in`, `phase`, `cur_total`, `finished`, `blocks_pulled`, `bytes_produced` | the same names (`d_in` ...) |
| `pp_try_parse` | `ParsedPhase`, `ParsedTotal`, `HeaderValid` |
| `pp_decode_ready` | `NextBlock`, `NextNoMemory`, `NextUndecodable`, `NextDecodeNoMemory` |

`in_head` is absent: the one step that advances it compacts the input before `next` returns, so it is
zero between calls.

### Abstractions

* Elements are numbered in the order they are offered. A record is the elements it encodes and a
  length; a byte of the queue is a position in a record. What a codec makes of the elements is the
  block pipeline's concern.
* Buffer capacities are left out, so any growth may fail; nothing depends on when.
* A damaged byte always fails validation or decoding. A codec that decodes damaged bytes to other
  elements is outside the pair's reach: records carry no checksum.

### Runs

Blocks of 2 elements, records of 2 or 3 bytes of which 2 are the header: a chunk of 1 splits every
header, a chunk of 3 spans records; pushes of 1 and 3 fill a block partly, exactly and past it.

| Run | Shows | Bounds |
|---|---|---|
| `pushpull_damage` | `TypeOK`, `CheckpointsMatch`, `PullMovesLittle`, `DoneMeansDrained`, `DeliversPrefix` in every order of calls, when allocations fail, bytes are damaged, decoding runs out of memory or the input ends at any byte | 4 elements |
| `pushpull_live` | `FinishReachesDone` for a driver that keeps its loops going; `DeliversInOrder` and `IntactIsNeverCorrupt` with failed allocations, when both ends are reset at any point and used again | 3 elements, 2 streams |

Four elements make three blocks with a flush between: one handed out, one in the decoder's input, one
in the encoder's queue. Deadlock is not checked: a driver whose stream is done stops.

`FairSpec` is weak fairness on the loops of the driver in `tests/test_pushpull_roundtrip.c`: a push runs
to its end, the queue is pulled *while `more_available` says so*, what was pulled is fed, `next` is
called after every block and every chunk, and the decoder is finished when all is carried. Nothing is
assumed of the caller's pushes, flushes and finish.

### What is proved

In `PushPullProofs`, for every block target, header and record size, chunk, push and stream length:

* `TypesKept`, `HandsOutAPrefix`, `CheckpointsAgree`, `CompactionIsCheap` and `DoneIsTheEnd`, with every
  fault of the model allowed;
* `PairIsAPipe`, the refinement of `ElementPipe`, for an input that is not ended early: a decoder that is
  told too soon that its input is over announces an end that is none;
* `IntactNeverCorrupt` for such an input whose bytes arrive undamaged and a decoder that finds its scratch
  memory: one that does not latches, as `pushpull_decode.c:186` has it.

The invariant `StreamInv` puts the decoder's input, the bytes on the way and the encoder's queue behind
one another (`Pieces`, arithmetic of the four counters) and says that together they are the bytes of the
stream (`Bytes`, undamaged ones); that the history lists the blocks in increasing order, each with room
for a header (`Listed`); that what is pending in the encoder is what was absorbed since the last block
(`Pending`); that the decoder stands at a block boundary (`AtBoundary`) and knows the length of the record it
is in (`InProgress`). `CarriedInv` adds what a caller that ends the input only at its end gives.

### What is only model-checked

`FinishReachesDone`: liveness is outside what the prover can do here.

## The stream decoder

### Modules

* `StreamDecoder` is the handle, one action per call, over the file of `ContainerFile`.
* `Readback` puts an encoder and a decoder on one file and holds the properties. `MCReadback` is its
  instance for TLC.

| Code | Model |
|---|---|
| `d->header`, `rg`, `blocks_read`, the io position | the same names (`r_header` ... in `Readback`) |
| `peeked`, `peeked_record`, `remaining` | `peeked` (`NoRecord` when there is none), `Remaining` |
| `tdc_stream_decoder_open`, `close` | `Open`, `CloseDecoder` |
| `peek_block_here` | `PeekHere`, one disjunct per outcome |
| `peek_block`, `seek_rowgroup` | `PeekBlock`, `SeekRowgroup` |
| `read_block` | `ReadBlock`, `ReadNoMemory`, `ReadFails` |
| `skip_block` | `SkipBlock` |

### Abstractions

* `open` is atomic between two encoder calls: it is one call of the reader's.
* Bytes that are no intact record may be anything: the end of the file, an unknown magic, a header that
  does not validate, or a header whose record is cut off (a `Wreck`). At the offset of an index no
  record header begins.
* After a failed call, or when the blocks are over, the caller seeks or closes. Where a failed read
  leaves the position is the io's business.

### Run

`readback`: one schema column, two passes, three blocks, records of a header alone and one longer; every failure of
the encoder at any point of any pass; reads and seeks that fail. It checks `TypeOK` and `PassInv` of the
encoder and `ReaderTypeOK`. The reader opens once, after any pass that ended in any
way, and may stay open while the next pass runs. Two passes are enough for a creation and a widening or
extending pass over it, during which the index moves, is restored, or is left behind by a crash. A walk
goes on to the block after the last and no further.

* `HandsOutWhatIsDue` — forward walks and jumps hand out the blocks that are due, each once, and never
  dead bytes.
* `EndsAfterTheLast` — no walk ends early.
* `CommittedIsIntact` — a committed container never reads as corrupt.

They leave out what the code does not promise. A container closed on an open row group counts
blocks that no group lists; a later pass writes over them without stamping the container as widened, so
a forward walk ends in other bytes (`Settled`). A reader that stays open while a pass runs sees, past its
last block, whatever that pass has staged (`overtaken`).

### What is proved

In `ReadbackProofs`, under the hypotheses of `StreamEncoderRefinement`, for every size, schema, payload and
number of passes, groups, blocks and readers, with every failure of the encoder and of the reader's io:
`ReaderTypeCorrect`, `HandsOut`, `EndsLast` and `StaysIntact`, from `ReadbackInvariant`.

The invariant of crash safety is about what lies on disk; a reader that walks forward needs to know that
blocks lie *one after another*. `ReadInv` adds to `PassInv`: a creation writes its blocks from the first
block slot up to `write_pos` (`LaidAs`, `LaysAll`) and leaves them so if it dies (`RestLaid`); the index of a
container that was never widened lists them in that order, and ends where it begins if it lists all that
were counted (`IndexLaid`, `FoundLaid`); the blocks a reader is owed are on disk and in the index it
follows, and every later pass keeps them there (`Owed`, `Listed`); the reader's position is the place of
the block that is due (`Walked`). That no pass disturbs what an open reader is owed rests on `Listed`: the
columns a reader follows are among those the pass found, which `IInv` keeps below `reuse_start`.

## The block pipeline

### Modules

* `BlockRecord` is what both drivers go by: types, sizes, chains, the header check, and byte strings as
  *what they encode, which stages were applied, how long they are*. Undoing the last stage applied
  gives the string before it; undoing any other gives garbage. So a wrong order, a stale buffer or a
  size that does not fit shows.
* `Registry` holds the backends a program registered.
* `BlockEncoder` is `tdc_encode_block`, `BlockDecoder` is `driver_decode_block_impl` and its entry
  points, one action per stage, each with the exits the stage has.
* `BlockPipeline` puts them in a row with a program that registers and drops backends and a record that
  may be harmed on the way, and holds the properties. `MCBlockPipeline` gives TLC its cases;
  `BlockPipelineProofs` holds the proof.

| Code | Model |
|---|---|
| `src`, `spec`, `out` of the call | the same names; `spec` is a model and two chains |
| `bufs`, `cur`, `cur_dtype`, `side_meta`, `xform_params`, `payload` | fields of `enc` (`tlv` for `xform_params`) |
| `goto cleanup` | `EncCleanup`, `DecCleanup`; `owned` is the scratch that may hold memory |
| the four stages of encoding | `Encode`, `ModelEncode`, `TransformStep`, `EntropyEncode`, `PackSide`, `EncodeSide`, `Assemble` |
| the five stages of decoding | `Decode`, `DecodeSide`, `ParseParams`, `Walk`, `EntropyDecode`, `ReverseStep`, `ModelDecode` |
| `varlen_alloc_hook`, `dict_capture_hook` | `VarlenHook`, `DictHook`; `caller` is what they allocated |
| the wrappers' clean-up | `EntryReturn` |

### Abstractions

* A block is a type, a layout, a length, whether its model fits it exactly and whether it carries a
  validity bitmap. The models are those that differ in what the drivers see: their residual has the
  block's type and length (`raw`, `pred_2d`), another type (`dict_1d`, `quantize_pred_2d`), another
  length (`sparse_zero_1d`), or is left out (`plane_2d`). `custom` and `narrowing` are plugin models;
  `narrowing` changes the residual's type.
* QUANTIZE takes doubles to 16 bits: of the integer targets, one.
* A coder makes its input one byte longer; only that sizes differ between stages matters.
* A dictionary holds one value of one byte.
* Garbage that reaches a model is noticed or not. Records carry no checksum.
* NONE as a coder of its own and the 64-bit guards on section sizes are left out.
* A caller registers before it encodes, on one thread, as `plugin.h` asks.

### Runs

All runs use `MCBlockPipeline`: 3,540 cases for `blocks`. Lengths 0, 1 and 16 are an empty block, one
that fills no bit plane and one that does; two transforms and two coders are enough for every pair of
neighbours, a gap in a chain, and both ends of the alternating buffers. One registry slot makes the
second plugin of a stage one too many; the code has 16. Deadlock is checked.

| Run | Shows | Bounds |
|---|---|---|
| `blocks` | `TypeOK`, `NothingLeaks`, `ReadableExactly`, `DecodesWhatItEncoded` with failed allocations, harmed and older records, plugins missing at decoding, callers that expect another block | 2 transforms, 2 coders, 1 slot |
| `scratch_leak` | violated: `ScratchFreed` when the transform parameters are harmed | 1 case |
| `plugin_xform` | violated: `RegisteredReadsBack` for a plugin transform | 4 cases |

* `ReadableExactly` — a record of the encoder is decoded if *and only if* it is `Regular`. Each clause
  of `Regular` is something `tdc_encode_block` accepts and no decoder reads: an empty block with a
  validity bitmap, a gap in the transform chain, a plugin transform, a model that changes the residual's
  type without the decoder's table knowing, a left-out residual with a chain its type does not pass, and
  bit planes of a length that is no multiple of 8.
* `DecodesWhatItEncoded` — what is decoded is what was encoded, exactly unless the record or the model
  says otherwise. `QUANTIZE_PRED_2D` loses bits and its records are not flagged lossy.
* `NothingLeaks` — every exit returns its scratch and, on failure, the caller's memory.

### What is proved

In `BlockPipelineProofs`, for every set of cases (every length, chain of transforms and coders), every slot
limit and every order of registrations:

* `Leakless`: `Spec => []NothingLeaks`, for every fault but `tlv`, for which `scratch_leak` shows it false;
* `ReadableIffRegular`: `Spec => []ReadableExactly`;
* `DecodesEncoded`: `Spec => []DecodesWhatItEncoded`;
* `TypeCorrect`: `Spec => []TypeOK`.

The invariant `Ownership` of the first says that at each point a call owns no scratch but what its cleanup
label frees, nothing before it starts and after it returns; and that a decoder past its first step works
on a record that was delivered, whose harm is thus one of `Faults`.

The others follow from `PipeInv`, which says where the two drivers are in closed form. `TypesOf` and `StageAt`
are the type and the bytes before the k-th transform as functions of the block and the specification alone;
`Written` is the one record the encoder can write; `EncPath` says that at each label the encoder's locals are
those, `WirePath` that the reader is given that record or the older form of it. `WalkedTypes`, `BackAt` and
`ResidualOf` are what the decoder derives, from the side metadata and the ids alone; `DecGood` says that it
is there as long as nothing has failed, that a failure means the record is not `Readable`, and a success
that it is. What remains is about functions, not steps: `UnwoundIs` (a section's coders undone in reverse
give back its bytes), `BackNext` (each inverse transform undoes the last one applied) and `InvertibleInverts`
(what the decoder can walk and invert is exactly what the clauses of `Regular` say).

These are inductions over the chains (`DataLemmas`). The library's induction theorems take an operator as a parameter and
cannot be used, but the least-element principle can be derived from well-foundedness of `<` (`Least`,
`Induct`), and from it that a function defined by a step from the value before exists (`Recursion`) and
what it equals. `Section`, `Unwound` and the walks are recursive functions for that reason.

### What is only model-checked

There is no liveness property: a call is a loop over chains of fixed length.

## The codecs

### Modules

`Codecs` takes one block, encodes it with one codec *in any build of the library* and decodes the result
*in any build*: `scalar`, `sse2`, `neon`, and `avx2` where a codec has such kernels. Nothing in a record
says which kernels wrote it, so each has to read what each of the others writes. Every encoder and every
decoder is an action; a codec itself is a set of operators in the module of its source file.

| Module | Source |
|---|---|
| `Elements` | C's words and bytes, the vector instructions used, the working types of the predictors |
| `Raw`, `Delta`, `Fpc` | `model/raw.c`, `delta1d.c` with its kernels (one loop over registers, `ForwardDelta` and `InverseDelta`, by build and lanes), `delta2_1d.c`, `fpc1d.c` |
| `Dictionary` | `model/dict.c`, `dict_numeric.c`, `sparse_zero_1d.c`, `api/side_pack.c` |
| `Pred2d`, `Plane2d` | `model/pred2d.c` with its wavefronts, `plane2d.c` with its row kernels |
| `Stack2d`, `Pred3d` | `model/stack2d.c`, `quantize_pred2d.c`, `pred3d.c`, `pred3d_float.c` |
| `Transforms`, `Shuffles` | `transform/zigzag.c`, `complement.c`, `quantize.c`, `shuffle.c`, `bitshuffle.c` |
| `Symbols` | `symbols/runs.c` and the varints of `symbols_internal.h` |
| `Huffman`, `Fse` | `entropy/huffman.c`, `huffman4.c`, `fse.c`, `lane.c` |
| `HashChain`, `Lz`, `LzStreams` | `entropy/mf_hashchain.c`, `lz.c` and the formats of `lz_opt.c`, `lz_streams.c` |
| `Formats` | `format/schema.c` and the parser of `stream_decode.c`, `rowgroup.c`, `stats.c`, `core/buffer.h` |

`MCCodecs` holds the blocks, called jobs.

### Abstractions

* A byte has two bits, so that an element of 2 bytes has 4 and one of 8 bytes 16. Widths, tables, code
  lengths, offsets and registers are constants, each named for the macro or type it stands for.
* The least-squares fit of a plane is done in doubles: the model lets the encoder have any
  coefficients, those of the exact fit and arbitrary ones, since no property may rest on their value.
* A number being quantised is an integer, NaN or an infinity; scale and offset are fractions.
* What the sub-coder of a lane and of a separated stream makes of its bytes is the business of
  `Huffman` and `Fse`: whether it pays is an input.
* The optimal parser of `lz_opt.c` and its binary tree choose a parse. The coders are given parses that
  cover the block and say what is in it, among them ones a search would not take.
* Failed allocations are the subject of the block modules, and left out here, as are null pointers.

### Runs

| Run | Shows | Bounds |
|---|---|---|
| `codecs` | all the properties below | 13,789 jobs |
| `plane_bits` | violated: `PlanesAreBitExact` | the jobs of `plane2d` |

The blocks are as long as it takes for every path: a delta block goes up to 19 elements, past a head that
is not aligned, whole registers and a tail; a raster goes up to 10 columns and rows, where the wavefronts
of four and of eight rows give way to single rows; a shuffled block up to 33 elements, which is two
registers and one; an input of Huffman's four-way coder goes from just under `FourFrom` to where its
quarters differ in length. Tables are small enough to be doubled
several times (`FirstCap` 2), codes long enough to be limited (`MaxLen` 4 for six symbols), offsets far enough to leave
the window (`MaxOffset` 18 of 60), copies closer than, as wide as and wider than a register (`CopyUnit` 4).
Schemas and indexes are tried as written, cut at every length, with every byte replaced, and with a byte
behind them. A run ends when its block is decoded or refused, so deadlock is not checked.

* `VectorsComeBack`, `RastersComeBack`, `VolumesComeBack`, `TransformsComeBack`, `SymbolsComeBack` — what
  was encoded in one build is decoded in any.
* `PlanesComeBack` — so it is for fitted planes, but for two kinds of block: one whose sums come within
  half a unit of 2^31, where the guard leaves no room for the rounding (`Roomy`), and one without a
  residual whose pixels the AVX2 rows saturate (`Saturates`), the subject of `plane_bits`.
* `MatchesComeBack` — every parse, greedy or given, is read back by the fast loop and by the exact one.
* `StreamsComeBack` — so it is with separated streams, except that a run or a match of 2^25 bytes or more
  has a symbol the decoder does not know: such a block is written, and refused as corrupt, never misread.
* `StoresStayInside` — the copies that overshoot never write past the end of the block.
* `QuantisedIsNearest` — a quantised number is the nearest the target has.
* `ValuesEnterOnce` — a dictionary that was rebuilt while it grew holds no value twice.
* `CodesFit` — a limited code is complete and fits the decoder's tables.
* `SizesNeverWrap` — `raw` never takes a wrapped product for a number of elements and refuses nothing
  else; a buffer that grew covers the need, and growth ends unless the need is above half of `size_t`.
* `SchemasAgree` — the stream decoder's parser reads back every schema written, the one `open_extend` uses
  accepts nothing but what a schema is written as, and where only the latter refuses, a column has no name
  or no known type or bytes are left over.
* `IndexesSayWhatTheyHold` — an index is read back as written; a harmed one is refused, or its bytes are
  those of the index read.
* `StatsBoundTheBlock` — minimum and maximum bound the block in the order of its type and, of numbers,
  are values of it; of strings they bound the prefixes.

### What is proved

In `CodecsProofs`, for every set of jobs, every width of a byte, of an index and of a size, every hash and
every first capacity of a table:

* `CodecsTypeCorrect`: `Spec => []TypeOK`;
* `EveryTransformComesBack`: `Spec => []TransformsComeBack`;
* `SizesStayInRange`: `Spec => []SizesNeverWrap`;
* `DictionariesHoldEachOnce`: `Spec => []ValuesEnterOnce`;
* `EveryVectorComesBack`: `Spec => []VectorsComeBack`, for `delta`, `delta2`, `dict`, `dict_numeric`,
  `fpc` and `sparse_zero`, encoded in any build and decoded in any.

What is assumed of a job is `Admitted`, in `Codecs`: elements are words of their type, a block is a whole
number of elements, a shape has the rank of its layout, strings have offsets. Each is what the drivers, the
registry or C's types see to before a codec is called, and TLC evaluates `JobsAssumption` on every job of
the run. A hash is odd, as the code makes it, so that it is never the mark of an empty slot, and the bytes a
variable-length number may have hold the length of any heap, as five of seven bits hold a `uint32_t`
(`DictionaryAssumption`).

`TypeOK` alone says nothing of what was coded. The inductive invariant `Inv` adds that the job is an admitted
one (`JobTaken`), that what was coded is what the job's encoder makes of it in *some* build and what was
decoded is what its decoder makes of that in *some* build (`Coded`). A property is then a statement about
two functions, and its proof is in `CodecLemmas`:

* A word is given by its bits (`FromBitsIs` and what follows): of a word built bit by bit each bit can be read
  back, and two words with the same bits are one. Exclusive or, the zigzag, bytes of an element, and the
  rounds of interleaving by which the register kernels of the shuffles move elements follow from that. That a
  kernel's last rounds and its plain loop agree is what makes the builds interchangeable.
* A table of the dictionary is `Sound`: every value in it lies on the probe path of its hash with no free slot
  before it, and the dictionary's entries are the values in it (`Tables`, `Slots`). Inserting and doubling keep
  that (`InsertKeeps`, `RehashKeeps`); so the search finds each value that was entered (`BuildIs`), none is
  entered twice, and the index stored for a row is that of its value.
* The register kernels of `Delta` add differences up by shifting a register onto itself: each pass doubles
  the number of lanes a lane holds the sum of (`PassDoubles`), and the carry register holds the last sum in
  every lane. So after each register the output is the sum of the differences so far, modulo 2^w, the
  differences telescope (`Telescopes`), and the kernels, whatever their width, the unaligned head and the
  tail end with what the plain loop computes. Forward kernels subtract neighbours, whichever register
  holds them (`ForwardIs`).
* The two predictors of `fpc` are tables that encoder and decoder fill from the same values in the same
  order: as long as what was decoded so far is what was encoded, both predict alike (`FpcEncodes`,
  `FpcBack`), and an exclusive or undoes itself.
* An index, an offset and a length of a dictionary go through bytes or variable-length numbers and come
  back (`VarintBack`); the offsets rebuilt from the lengths tell each string from its neighbours (`HeapRow`),
  which with the table gives `DictBack`. The residual of `sparse_zero` lists the places of what is not zero.
* The product of a shape is followed through `Raw`'s overflow checks, dimension by dimension.

`DataLemmas` has what the prover's library lacks: powers of two, quotients and remainders, concatenations of
equal parts, and induction, by the least element of a set of numbers. A recursive function is shown to exist
as a set of pairs closed under the step (`StepFunction`) and then read off (`StepsRead`).

### What is only model-checked

The other properties. Those of rasters, volumes and planes, of Huffman, FSE and the LZ family are about
functions over several nested loops, tables and bit streams, each a proof of the size of the dictionary's.
There is no liveness property: an encoder and a decoder are loops over
a block of fixed length. The one loop of this code that need not end, the growth of a buffer, is in
`SizesNeverWrap`.

## Findings

Six runs end in a counterexample; each is a disagreement between the code and a sentence of its own
documentation, quoted in `PROJECT.json`: a retry after a failed hook (`hook_retry`), statistics set too
early (`late_stats`), the validator against extended containers (`header_valid`), scratch memory kept
after a failed parse (`scratch_leak`), plugin transforms that encode and never decode (`plugin_xform`)
and planes that the AVX2 rows saturate (`plane_bits`).

Seen while modelling, and no run's subject.

Containers:

* a group of 2^16 columns is stored with none (`stream_encode.c:475`);
* each widening leaves the schema of the one before in the file (`stream_encode.c:776`), though
  `stream.h` promises one schema;
* after a header write that failed and reached the disk, abort leaves the moved header;
* the encoder checks neither names nor types of columns: a container it wrote may be readable and not
  extendable (`schema.c:108`); an annotation of some length and no bytes is announced and not written
  (`schema.c:70`);
* the header validator knows no `F16` (`header.c:30`), block records do;
* the index parser accepts trailing bytes; `docs/format/on-disk.md:102` describes the index as flat 16-byte
  entries and `:113` an overflow check, neither of which the code has;
* the growth of a buffer does not end for a need above half of `size_t` (`buffer.h:46`).

Drivers and streams:

* a push/pull decoder whose `tdc_decode_block` ran out of memory once reports an intact stream as
  corrupt for good (`pushpull_decode.c:186`);
* what `Regular` lists, of which the bit planes (`transform/bitshuffle.c:284`) concern core backends
  alone;
* a left-out residual reaches the model uninitialised (`decode_impl.c:238`), which matters to a plugin
  model only.

Codecs:

* the `INT32_MAX` guard of `plane2d.c` (979, 1014) leaves no room for the half unit that
  `round_div256_i32` adds;
* `quantize_pred2d.c` and `stack2d.c` store the caller's kind unchecked for a block without elements;
* `lz.c:764` returns without freeing its sequences when there are none; its lazy loop inserts a position
  twice (628, 653), which links it to itself in the hash chain;
* `lz_streams.c` writes symbols above 25 for runs of 2^25 bytes and more; `docs/backends/entropy.md:211`
  has an out-of-range `min_match` refused, and none is;
* the byte shuffle computes indices in 32 bits and wraps at 4 GiB (`shuffle.c:68`);
* `dict_numeric` and `sparse_zero` accept `F16`, which their masks exclude;
* a truncated bit stream decodes to symbols of zero bits with success (`huffman.c`).

## Not modelled

* The price search of `lz_opt.c` and the binary-tree match finder `mf_btree.c`: they decide which parse is
  taken, never what it means, and the models accept any parse.
* deflate: zlib is outside the repository.
* `layout/tiling.c` and `core/arena.c`: nothing in the library calls them.
* `core/block.c`: the shape checks are those of `Raw`; the rest is null pointers and ids in range.
* The homogeneous branch of the header, which no reopening pass accepts, and the legacy generation.
* Registration from two threads, which `plugin.h` excludes.
* The sticky reader and the growing writer of `metadata_internal.h`: a section is parsed in one step.
* Timers, logging, SIMD dispatch, version and error strings, tools, benchmarks and examples: no state.
