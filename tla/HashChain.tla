----------------------------- MODULE HashChain -----------------------------
(***************************************************************************)
(* The hash-chain match finder (src/entropy/mf_hashchain.c) and what it    *)
(* shares with the other parsers of the LZ family: a bucket holds the last *)
(* position entered under a hash, a link per position leads to the one     *)
(* before.  Positions count from zero; src[pos + 1] is the byte at pos.    *)
(***************************************************************************)
EXTENDS Elements, SequencesExt, FiniteSetsExt

CONSTANTS
    MinMatch,         \* LZ_MIN_MATCH (3)
    MaxOffset,        \* LZ_MAX_OFFSET (2^22)
    HashBits,         \* LZ_HASH_BITS: buckets are 0..2^HashBits - 1
    HashMultiplier    \* 2654435761

ASSUME HashChainAssumption ==
    /\ MinMatch = 3
    /\ MaxOffset \in Nat \ {0}
    /\ HashBits \in 1..4 * ByteBits
    /\ HashMultiplier \in Nat

Nil   == -1        \* MF_NULL
Unset == "unset"   \* an entry of chain_prev that was never written

\* The bucket of the four bytes at pos.
Hash4(src, pos) ==
    LET word == ElemsOf(4, SubSeq(src, pos + 1, pos + 4))[1]
    IN  Shr((word * HashMultiplier) % 2^(4 * ByteBits), 4 * ByteBits - HashBits)

\* How many bytes from pos on, at most max, are the ones from cand on.
Extend(src, pos, cand, max) ==
    CHOOSE n \in 0..max :
        /\ \A k \in 1..n : src[pos + k] = src[cand + k]
        /\ n = max \/ src[pos + n + 1] # src[cand + n + 1]

\* Whether pos is followed by enough bytes to be hashed.
Hashable(src, pos) == pos + MinMatch + 1 <= Len(src)

ChainCreate(src, depth) ==
    [depth |-> depth, head |-> Tabulated([h \in 0..2^HashBits - 1 |-> Nil]),
     prev  |-> Tabulated([p \in 0..Len(src) - 1 |-> Unset])]

ChainInsert(mf, src, pos) ==
    LET h == Hash4(src, pos)
    IN  IF ~Hashable(src, pos) THEN mf
        ELSE [mf EXCEPT !.prev[pos] = IF mf.depth > 0 THEN mf.head[h] ELSE @,
                        !.head[h] = pos]

Link(mf, cand) == IF mf.depth > 0 THEN mf.prev[cand] ELSE Nil

\* The true length of a candidate whose extension stopped at the cap.
CappedExtend(src, pos, cand, cap, remain, worth) ==
    LET short == Extend(src, pos, cand, cap)
    IN  IF short = cap /\ cap < remain /\ short >= worth
        THEN short + Extend(src, pos + cap, cand + cap, remain - cap)
        ELSE short

MatchOf(m) == IF m.len >= MinMatch THEN [len |-> m.len, off |-> m.off] ELSE [len |-> 0, off |-> 0]

\* The longest match among the first depth + 1 candidates, the nearest of
\* those: [len, off], length zero when there is none of MinMatch bytes.
ChainFindBest(mf, src, pos, extendCap) ==
    LET remain == Len(src) - pos
        cap    == IF extendCap > 0 /\ extendCap < remain THEN extendCap ELSE remain
        oldest == MaxOf(0, pos - MaxOffset)
        tried(st) ==
            LET len == CappedExtend(src, pos, st.cand, cap, remain, st.len)
            IN  IF /\ st.len >= MinMatch => src[st.cand + st.len + 1] = src[pos + st.len + 1]
                   /\ src[st.cand + 1] = src[pos + 1]
                   /\ len > st.len
                THEN [st EXCEPT !.len = len, !.off = pos - st.cand, !.stop = len = remain]
                ELSE st
        walk[k \in 0..mf.depth + 1] ==
            IF k = 0
            THEN [cand |-> mf.head[Hash4(src, pos)], len |-> MinMatch - 1, off |-> 0, stop |-> FALSE]
            ELSE LET st == walk[k - 1]
                 IN  CASE st.stop \/ st.cand = Nil -> st
                       [] ~st.stop /\ st.cand # Nil /\ st.cand >= pos ->
                            [st EXCEPT !.cand = Link(mf, @)]
                       [] ~st.stop /\ st.cand # Nil /\ st.cand < oldest ->
                            [st EXCEPT !.stop = TRUE]
                       [] OTHER -> LET t == tried(st)
                                   IN  [t EXCEPT !.cand = Link(mf, @)]
    IN  IF Hashable(src, pos) THEN MatchOf(walk[mf.depth + 1]) ELSE [len |-> 0, off |-> 0]

\* Matches of growing length, at most max of them: one that is longer and
\* no farther away takes the last one's place.
ChainFindMulti(mf, src, pos, extendCap, max) ==
    LET remain == Len(src) - pos
        cap    == IF extendCap > 0 /\ extendCap < remain THEN extendCap ELSE remain
        oldest == MaxOf(0, pos - MaxOffset)
        noted(found, m) ==
            CASE found # <<>> /\ Last(found).off >= m.off -> [found EXCEPT ![Len(found)] = m]
              [] (found = <<>> \/ Last(found).off < m.off) /\ Len(found) < max -> Append(found, m)
              [] OTHER -> found
        tried(st) ==
            LET len == CappedExtend(src, pos, st.cand, cap, remain, st.len + 1)
            IN  IF src[st.cand + 1] = src[pos + 1] /\ len >= MinMatch /\ len > st.len
                THEN [st EXCEPT !.len = len,
                                !.found = noted(@, [len |-> len, off |-> pos - st.cand])]
                ELSE st
        walk[k \in 0..mf.depth + 1] ==
            IF k = 0
            THEN [cand |-> mf.head[Hash4(src, pos)], len |-> MinMatch - 1, found |-> <<>>, stop |-> FALSE]
            ELSE LET st == walk[k - 1]
                 IN  CASE st.stop \/ st.cand = Nil -> st
                       [] ~st.stop /\ st.cand # Nil /\ st.cand >= pos ->
                            [st EXCEPT !.cand = Link(mf, @)]
                       [] ~st.stop /\ st.cand # Nil /\ st.cand < oldest ->
                            [st EXCEPT !.stop = TRUE]
                       [] OTHER -> LET t == tried(st)
                                   IN  [t EXCEPT !.cand = Link(mf, @)]
    IN  IF max = 0 \/ ~Hashable(src, pos) THEN <<>> ELSE walk[mf.depth + 1].found
=============================================================================
