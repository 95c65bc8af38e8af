-------------------------- MODULE MCStreamEncoder --------------------------
(* Instances of StreamEncoder for TLC. *)
EXTENDS StreamEncoderInv

\* Record p takes 2p - 1 bytes: the first is shorter than any index, the
\* second as long as the smallest ones.
MCRecordSize == [p \in Payload |-> 2 * p - 1]
=============================================================================
