------------------------------ MODULE Symbols ------------------------------
(***************************************************************************)
(* The symbol-stream helpers (src/symbols/symbols_internal.h, runs.c):     *)
(* variable-length numbers of PayloadBits bits a byte (seven in the code), *)
(* at most VarintMax bytes long, and runs of equal values as pairs of      *)
(* them.  A length of zero is how they report failure.                     *)
(***************************************************************************)
EXTENDS Integers, Sequences, SequencesExt

CONSTANTS PayloadBits, VarintMax

ASSUME SymbolsAssumption == PayloadBits \in Nat \ {0} /\ VarintMax \in Nat \ {0}

Radix == 2^PayloadBits

\* What a byte behind k others counts: the shift by k payloads.
Weight(k) == 2^(PayloadBits * k)

\* A byte is its payload and whether another one follows.
VarintSize(v) == CHOOSE n \in 1..VarintMax + 1 :
                    v < Weight(n) /\ (n = 1 \/ v >= Weight(n - 1))

VarintEncode(v) ==
    [k \in 1..VarintSize(v) |->
        [payload |-> (v \div Weight(k - 1)) % Radix, more |-> k < VarintSize(v)]]

\* [used, value]: nothing is used of a run of bytes that does not end.
VarintDecode(bytes) ==
    LET ends == {k \in 1..Len(bytes) : /\ k <= VarintMax
                                       /\ \A j \in 1..k - 1 : bytes[j].more
                                       /\ ~ bytes[k].more}
        n    == CHOOSE k \in ends : TRUE
        value[k \in 0..n] ==
            IF k = 0 THEN 0 ELSE value[k - 1] + bytes[k].payload * Weight(k - 1)
    IN  IF ends = {} THEN [used |-> 0, value |-> 0] ELSE [used |-> n, value |-> value[n]]

\* The maximal runs of a stream, as [value, count].
Runs(in) ==
    LET run[i \in 0..Len(in)] ==
            IF i = 0 THEN <<>>
            ELSE LET before == run[i - 1]
                 IN  IF before # <<>> /\ Last(before).value = in[i]
                     THEN [before EXCEPT ![Len(before)].count = @ + 1]
                     ELSE Append(before, [value |-> in[i], count |-> 1])
    IN  run[Len(in)]

RleEncodedSize(in) ==
    LET runs == Runs(in)
        total[r \in 0..Len(runs)] ==
            IF r = 0 THEN 0
            ELSE total[r - 1] + VarintSize(runs[r].value) + VarintSize(runs[r].count - 1)
    IN  total[Len(runs)]

\* The bytes written, none when they do not fit.
RleEncode(in, cap) ==
    LET bytes == FlattenSeq([r \in 1..Len(Runs(in)) |->
                    VarintEncode(Runs(in)[r].value) \o VarintEncode(Runs(in)[r].count - 1)])
    IN  IF Len(bytes) > cap THEN <<>> ELSE bytes

\* [used, out]: reads pairs until the bytes or the output's n places end.
RleDecode(bytes, n) ==
    LET rest(pos) == SubSeq(bytes, pos + 1, Len(bytes))
        after(st) ==
            LET v == VarintDecode(rest(st.used))
                c == VarintDecode(rest(st.used + v.used))
            IN  IF \/ v.used = 0 \/ c.used = 0
                   \/ Len(st.out) + c.value + 1 > n
                THEN [st EXCEPT !.bad = TRUE]
                ELSE [bad  |-> FALSE, used |-> st.used + v.used + c.used,
                      out  |-> st.out \o [j \in 1..c.value + 1 |-> v.value]]
        st[k \in 0..Len(bytes)] ==
            IF k = 0 THEN [bad |-> FALSE, used |-> 0, out |-> <<>>]
            ELSE LET s == st[k - 1]
                 IN  IF s.bad \/ s.used >= Len(bytes) \/ Len(s.out) >= n THEN s ELSE after(s)
        end == st[Len(bytes)]
    IN  IF end.bad THEN [used |-> 0, out |-> end.out] ELSE [used |-> end.used, out |-> end.out]
=============================================================================
