----------------------------- MODULE MCReadback -----------------------------
(* Instances of Readback for TLC. *)
EXTENDS Readback, StreamEncoderInv

\* Record p is p bytes longer than a record header of one byte; record 0 is
\* a header alone.
MCRecordSize == [p \in Payload |-> 1 + p]
=============================================================================
