-------------------------------- MODULE Fpc --------------------------------
(***************************************************************************)
(* TDC_MODEL_FPC_1D (src/model/fpc1d.c): two table predictors, of the next *)
(* value and of the next difference; the residual is the exclusive or with *)
(* the better prediction and a selector bit says which one it was.  The    *)
(* decoder rebuilds both tables from the values it restores.               *)
(***************************************************************************)
EXTENDS Elements

CONSTANTS
    WideBytes,    \* bytes of the integer the kernels compute in
    TableBits,    \* log2 of the entries of a predictor's table
    Multiplier    \* of the hash; odd

ASSUME FpcAssumption ==
    /\ WideBytes \in Nat \ {0}
    /\ TableBits \in 0..ByteBits * WideBytes
    /\ Multiplier \in Nat /\ Multiplier % 2 = 1

WideBits == Bits(WideBytes)

\* fpc_hash: the top bits of a wrapped product.
FpcHash(bits) == Shr((bits * Multiplier) % 2^WideBits, WideBits - TableBits) % 2^TableBits

\* count_lzb: the leading zeros of the wide integer, less those the narrow
\* element does not have, in whole bytes.
LeadingZeroBytes(v, size) ==
    IF v = 0 THEN size
    ELSE (LeadingZeros(WideBits, v) - (WideBytes - size) * ByteBits) \div ByteBits

NewPredictors ==
    [prev |-> 0, fcm_idx |-> 0, dfcm_idx |-> 0,
     fcm |-> [k \in 0..2^TableBits - 1 |-> 0], dfcm |-> [k \in 0..2^TableBits - 1 |-> 0]]

FcmGuess(p)        == p.fcm[p.fcm_idx]
DfcmGuess(size, p) == Add(Bits(size), p.prev, p.dfcm[p.dfcm_idx])

\* What both directions do to the tables once the value is known.
Learn(size, p, cur) ==
    LET delta == Sub(Bits(size), cur, p.prev)
    IN  [prev     |-> cur,
         fcm      |-> [p.fcm EXCEPT ![p.fcm_idx] = cur],
         dfcm     |-> [p.dfcm EXCEPT ![p.dfcm_idx] = delta],
         fcm_idx  |-> FpcHash(cur),
         dfcm_idx |-> FpcHash(delta)]

\* DEFINE_FPC_ENCODE: the predictor with more leading zero bytes; a tie goes
\* to the difference predictor.
FpcEncodeStep(size, st, cur) ==
    LET w    == Bits(size)
        fcm  == Xor(w, cur, FcmGuess(st.p))
        dfcm == Xor(w, cur, DfcmGuess(size, st.p))
        use  == LeadingZeroBytes(dfcm, size) >= LeadingZeroBytes(fcm, size)
    IN  [p         |-> Learn(size, st.p, cur),
         residual  |-> Append(st.residual, IF use THEN dfcm ELSE fcm),
         selectors |-> Append(st.selectors, IF use THEN 1 ELSE 0)]

FpcDecodeStep(size, st, xored, selector) ==
    LET guess == IF selector = 1 THEN DfcmGuess(size, st.p) ELSE FcmGuess(st.p)
        cur   == Xor(Bits(size), guess, xored)
    IN  [p |-> Learn(size, st.p, cur), rows |-> Append(st.rows, cur)]

\* Selector bits are stored eight to a byte, the last byte filled with zeros.
SelectorBytes(n) == (n + 7) \div 8

FpcEncode(dtype, rows) ==
    LET st[i \in 0..Len(rows)] ==
            IF i = 0 THEN [p |-> NewPredictors, residual |-> <<>>, selectors |-> <<>>]
            ELSE FpcEncodeStep(dtype.size, st[i - 1], rows[i])
        end == st[Len(rows)]
    IN  IF dtype.kind # "float" THEN [status |-> "dtype"]
        ELSE [status   |-> "ok",
              residual |-> end.residual,
              side     |-> IF rows = <<>> THEN <<>>
                           ELSE <<TableBits>> \o end.selectors
                                \o Fill(8 * SelectorBytes(Len(rows)) - Len(rows), 0)]

FpcDecode(dtype, n, residual, side) ==
    LET st[i \in 0..n] ==
            IF i = 0 THEN [p |-> NewPredictors, rows |-> <<>>]
            ELSE FpcDecodeStep(dtype.size, st[i - 1], residual[i], side[i + 1])
        want == IF n = 0 THEN 0 ELSE 1 + 8 * SelectorBytes(n)
    IN  IF dtype.kind # "float" THEN [status |-> "dtype"]
        ELSE IF Len(residual) # n \/ Len(side) # want THEN [status |-> "corrupt"]
        ELSE [status |-> "ok", rows |-> st[n].rows]
=============================================================================
