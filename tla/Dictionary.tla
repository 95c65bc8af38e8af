---------------------------- MODULE Dictionary ----------------------------
(***************************************************************************)
(* TDC_MODEL_DICT_1D and TDC_MODEL_DICT_NUMERIC_1D (src/model/dict.c,      *)
(* dict_numeric.c): every distinct value once, in order of appearance, in  *)
(* the side metadata, and one index per row as the residual.  Values are   *)
(* found through an open-addressing table that doubles at 70 % load.       *)
(* How the driver packs the side metadata of strings                       *)
(* (src/api/side_pack.c).  Allocation failures are BlockPipeline's subject *)
(* and left out.  At the end TDC_MODEL_SPARSE_ZERO_1D                      *)
(* (src/model/sparse_zero_1d.c), whose dictionary has one value.           *)
(***************************************************************************)
EXTENDS Symbols

CONSTANTS
    FirstCap,      \* slots of a new table: a power of two
    FirstEntries,  \* entries of a new dictionary array
    Fnv,           \* the hash of every value; odd, so never the empty mark
    HeapMax        \* the largest heap length a u32 holds

ASSUME DictionaryAssumption ==
    /\ \E k \in 1..16 : FirstCap = 2^k
    /\ FirstEntries \in Nat \ {0}
    /\ \A v \in DOMAIN Fnv : Fnv[v] \in Nat /\ Fnv[v] % 2 = 1
    /\ HeapMax \in Nat
    \* a length has a variable-length number
    /\ HeapMax < 2^(PayloadBits * VarintMax)

Empty == [hash |-> 0, idx |-> 0, value |-> <<>>]

NewTable(cap) == [cap |-> cap, used |-> 0, slots |-> [s \in 0..cap - 1 |-> Empty]]

\* Slots are looked at from the hash on, past slots of other values.
ProbeEnd(table, value) ==
    LET at(k) == (Fnv[value] + k) % table.cap
        stops(k) == \/ table.slots[at(k)].hash = 0
                    \/ /\ table.slots[at(k)].hash = Fnv[value]
                       /\ table.slots[at(k)].value = value
        first == CHOOSE k \in 0..table.cap - 1 :
                    stops(k) /\ \A j \in 0..k - 1 : ~ stops(j)
    IN  at(first)

\* Where a slot goes in a table no equal value is in.
FreeSlot(slots, cap, hash) ==
    LET at(k) == (hash + k) % cap
    IN  at(CHOOSE k \in 0..cap - 1 :
              /\ slots[at(k)].hash = 0
              /\ \A j \in 0..k - 1 : slots[at(j)].hash # 0)

\* Mutant: slots keep the place they had under the old mask.
RehashInPlace(table) ==
    [table EXCEPT !.cap = 2 * @,
                  !.slots = [s \in 0..2 * table.cap - 1 |->
                                IF s < table.cap THEN table.slots[s] ELSE Empty]]
\* The table of twice the slots: every used slot, in slot order, at the
\* place its hash has under the new mask.
Rehash(table) ==
    LET cap == 2 * table.cap
        moved[j \in 0..table.cap] ==
            IF j = 0 THEN NewTable(cap).slots
            ELSE LET slot == table.slots[j - 1]
                 IN  IF slot.hash = 0 THEN moved[j - 1]
                     ELSE [moved[j - 1] EXCEPT ![FreeSlot(moved[j - 1], cap, slot.hash)] = slot]
    IN  [table EXCEPT !.cap = cap, !.slots = moved[table.cap]]

\* One row: the index of its value, which may be new.
Insert(st, value) ==
    LET slot == ProbeEnd(st.table, value)
        new  == st.table.slots[slot].hash = 0
        idx  == Len(st.dict)
        put  == [st.table EXCEPT
                    !.used = @ + 1,
                    !.slots[slot] = [hash |-> Fnv[value], idx |-> idx, value |-> value]]
    IN  IF new
        THEN [table    |-> IF put.used >= (put.cap * 7) \div 10 THEN Rehash(put) ELSE put,
              dict     |-> Append(st.dict, value),
              dict_cap |-> IF idx = st.dict_cap THEN 2 * st.dict_cap ELSE st.dict_cap,
              indices  |-> Append(st.indices, idx)]
        ELSE [st EXCEPT !.indices = Append(@, st.table.slots[slot].idx)]

Build(rows) ==
    LET built[i \in 0..Len(rows)] ==
            IF i = 0 THEN [table |-> NewTable(FirstCap), dict |-> <<>>,
                           dict_cap |-> FirstEntries, indices |-> <<>>]
            ELSE Insert(built[i - 1], rows[i])
    IN  built[Len(rows)]

----------------------------------------------------------------------------
(* Strings: a heap of symbols and n + 1 offsets into it.                   *)

Row(block, i) == SubSeq(block.heap, block.offsets[i] + 1, block.offsets[i + 1])
RowsOf(block)   == [i \in 1..Len(block.offsets) - 1 |-> Row(block, i)]

\* The offsets at which strings of these lengths start, and the end.
Offsets(strs) ==
    LET off[i \in 1..Len(strs) + 1] ==
            IF i = 1 THEN 0 ELSE off[i - 1] + Len(strs[i - 1])
    IN  [i \in 1..Len(strs) + 1 |-> off[i]]

DictEncode(block) ==
    LET ascending == \A i \in 1..Len(block.offsets) - 1 :
                        block.offsets[i] <= block.offsets[i + 1]
        b         == Build(RowsOf(block))
        heap      == FlattenSeq(b.dict)
    IN  CASE ~ ascending -> [status |-> "corrupt"]
          [] ascending /\ Len(heap) > HeapMax -> [status |-> "inval"]
          [] OTHER ->
              [status   |-> "ok",
               side     |-> [count |-> Len(b.dict), total |-> Len(heap),
                             offsets |-> Offsets(b.dict), heap |-> heap],
               residual |-> b.indices]

\* dict1d_validate_side_header: the table's length, its order, its end.
SideIsSound(side) ==
    /\ Len(side.offsets) = side.count + 1
    /\ Len(side.heap) = side.total
    /\ \A d \in 1..side.count : side.offsets[d] <= side.offsets[d + 1]
    /\ \A d \in 1..side.count + 1 : side.offsets[d] <= side.total
    /\ side.offsets[side.count + 1] = side.total

EntryLen(side, idx) == side.offsets[idx + 2] - side.offsets[idx + 1]

\* dict1d_compute_output_size: the heap a decode will fill, before it runs.
OutputSize(n, residual, side) ==
    LET total[i \in 0..n] ==
            IF i = 0 THEN 0 ELSE total[i - 1] + EntryLen(side, residual[i])
    IN  CASE ~ SideIsSound(side) -> [status |-> "corrupt"]
          [] SideIsSound(side) /\ n = 0 -> [status |-> "ok", bytes |-> 0]
          [] SideIsSound(side) /\ n # 0 /\ Len(residual) # n -> [status |-> "corrupt"]
          [] OTHER ->
              IF \E i \in 1..n : residual[i] >= side.count THEN [status |-> "corrupt"]
              ELSE IF \E i \in 1..n : total[i] > HeapMax THEN [status |-> "inval"]
              ELSE [status |-> "ok", bytes |-> total[n]]

\* dict1d_decode writes offsets from zero and each row's string after the
\* one before.
DictDecode(n, residual, side) ==
    LET entry(idx) == SubSeq(side.heap, side.offsets[idx + 1] + 1, side.offsets[idx + 2])
        strs       == [i \in 1..n |-> entry(residual[i])]
    IN  CASE ~ SideIsSound(side) -> [status |-> "corrupt"]
          [] SideIsSound(side) /\ n = 0 ->
              [status |-> "ok", block |-> [heap |-> <<>>, offsets |-> <<0>>]]
          [] SideIsSound(side) /\ n # 0 /\ Len(residual) # n -> [status |-> "corrupt"]
          [] OTHER ->
              IF \E i \in 1..n : residual[i] >= side.count THEN [status |-> "corrupt"]
              ELSE [status |-> "ok",
                    block  |-> [heap |-> FlattenSeq(strs), offsets |-> Offsets(strs)]]

----------------------------------------------------------------------------
(* The side metadata of strings on disk: lengths for offsets, the heap     *)
(* without its size.                                                       *)

\* Mutant: a length is what an offset is.
SidePackOffsets(side) ==
    LET length(d) == side.offsets[d + 1]
    IN  [status |-> "ok", count |-> side.count,
         bytes  |-> FlattenSeq([d \in 1..side.count |-> VarintEncode(length(d))]) \o side.heap]
SidePack(side) ==
    LET length(d) == side.offsets[d + 1] - side.offsets[d]
    IN  IF SideIsSound(side) /\ side.offsets[1] = 0
        THEN [status |-> "ok", count |-> side.count,
              bytes  |-> FlattenSeq([d \in 1..side.count |-> VarintEncode(length(d))]) \o side.heap]
        ELSE [status |-> "corrupt"]

\* A count beyond the bytes there are is refused before anything is read;
\* what is left behind the lengths must be the heap they add up to.
SideUnpack(count, bytes) ==
    LET lengths[d \in 0..count] ==
            IF d = 0 THEN [ok |-> TRUE, at |-> 0, offsets |-> <<0>>]
            ELSE LET st  == lengths[d - 1]
                     len == VarintDecode(SubSeq(bytes, st.at + 1, Len(bytes)))
                     end == Last(st.offsets) + len.value
                 IN  IF ~st.ok \/ len.used = 0 \/ end > HeapMax THEN [st EXCEPT !.ok = FALSE]
                     ELSE [ok |-> TRUE, at |-> st.at + len.used, offsets |-> Append(st.offsets, end)]
        read == lengths[count]
        heap == SubSeq(bytes, read.at + 1, Len(bytes))
    IN  IF count > Len(bytes) THEN [status |-> "corrupt"]
        ELSE IF ~read.ok \/ Len(heap) # Last(read.offsets) THEN [status |-> "corrupt"]
        ELSE [status |-> "ok", count |-> count, total |-> Len(heap),
              offsets |-> read.offsets, heap |-> heap]

----------------------------------------------------------------------------
(* Numbers, compared by their bytes.                                       *)

\* dnum_encode looks at the element's size and not at its type.
NumericSizes == 2..8

NumericEncode(dtype, rows) ==
    LET b == Build(rows)
    IN  IF dtype.size \notin NumericSizes THEN [status |-> "dtype"]
        ELSE [status   |-> "ok",
              side     |-> [dtype |-> dtype, count |-> Len(b.dict), values |-> b.dict],
              residual |-> b.indices]

NumericDecode(dtype, n, residual, side) ==
    CASE dtype.size \notin NumericSizes \/ side.dtype # dtype -> [status |-> "dtype"]
      [] dtype.size \in NumericSizes /\ side.dtype = dtype ->
          IF \/ Len(side.values) # side.count
             \/ n # 0 /\ Len(residual) # n
             \/ \E i \in 1..n : residual[i] >= side.count
          THEN [status |-> "corrupt"]
          ELSE [status |-> "ok", rows |-> [i \in 1..n |-> side.values[residual[i] + 1]]]

----------------------------------------------------------------------------
(* TDC_MODEL_SPARSE_ZERO_1D (src/model/sparse_zero_1d.c): the positions of *)
(* the elements that are not all zero bytes as the residual, their values  *)
(* as side metadata.                                                       *)

CONSTANTS
    Zero,        \* the value of all zero bytes
    CountMax     \* the largest number a u32 holds

ASSUME SparseZeroAssumption == CountMax \in Nat

SparseSizes == 2..8

SparseEncode(dtype, rows) ==
    LET at[i \in 0..Len(rows)] ==
            IF i = 0 THEN <<>>
            ELSE IF rows[i] = Zero THEN at[i - 1] ELSE Append(at[i - 1], i - 1)
        positions == at[Len(rows)]
    IN  CASE dtype.size \notin SparseSizes -> [status |-> "dtype"]
          [] dtype.size \in SparseSizes /\ Len(rows) > CountMax -> [status |-> "inval"]
          [] OTHER ->
              [status   |-> "ok",
               side     |-> [dtype |-> dtype, count |-> Len(positions),
                             values |-> [k \in 1..Len(positions) |-> rows[positions[k] + 1]]],
               residual |-> positions]

\* Positions lie in the block and ascend; every other element is zero.
SparseDecode(dtype, n, residual, side) ==
    LET ascends == \A k \in 1..Len(residual) :
                      residual[k] < n /\ (k > 1 => residual[k - 1] < residual[k])
        value(i) == IF \E k \in 1..Len(residual) : residual[k] = i
                    THEN side.values[CHOOSE k \in 1..Len(residual) : residual[k] = i]
                    ELSE Zero
    IN  CASE dtype.size \notin SparseSizes \/ side.dtype # dtype -> [status |-> "dtype"]
          [] dtype.size \in SparseSizes /\ side.dtype = dtype ->
              IF n > CountMax THEN [status |-> "inval"]
              ELSE IF \/ side.count > n
                      \/ Len(side.values) # side.count
                      \/ Len(residual) # side.count
                      \/ ~ ascends
              THEN [status |-> "corrupt"]
              ELSE [status |-> "ok", rows |-> [i \in 1..n |-> value(i - 1)]]
=============================================================================
