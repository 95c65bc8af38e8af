---------------------------- MODULE ElementPipe ----------------------------
(***************************************************************************)
(* What a push/pull encoder, a byte transport and a push/pull decoder      *)
(* promise together (include/tdc/pushpull.h): elements come out in the     *)
(* order they were accepted, in the blocks the encoder cut, none lost,     *)
(* none twice, and the end is announced only after the last of them.       *)
(***************************************************************************)
EXTENDS Naturals, Sequences

VARIABLES
    accepted,    \* the elements the encoder has absorbed
    cuts,        \* how many elements each block boundary closes
    taken,       \* blocks handed out
    delivered,   \* the elements handed out
    over         \* the end of the stream has been announced

vars == <<accepted, cuts, taken, delivered, over>>

CutAt(n) == IF n = 0 THEN 0 ELSE cuts[n]

Init ==
    /\ accepted = <<>> /\ cuts = <<>>
    /\ taken = 0 /\ delivered = <<>> /\ over = FALSE

Accept ==
    /\ ~ over
    /\ Len(accepted') > Len(accepted)
    /\ SubSeq(accepted', 1, Len(accepted)) = accepted
    /\ UNCHANGED <<cuts, taken, delivered, over>>

\* A block boundary: everything accepted so far can be handed out.
Cut ==
    /\ ~ over
    /\ Len(accepted) > CutAt(Len(cuts))
    /\ cuts' = Append(cuts, Len(accepted))
    /\ UNCHANGED <<accepted, taken, delivered, over>>

\* The next block is handed out, whole.
Deliver ==
    /\ ~ over
    /\ taken < Len(cuts)
    /\ taken' = taken + 1
    /\ delivered' = delivered
                    \o SubSeq(accepted, CutAt(taken) + 1, CutAt(taken + 1))
    /\ UNCHANGED <<accepted, cuts, over>>

\* The end is announced once nothing is left to hand out.
Announce ==
    /\ ~ over
    /\ delivered = accepted
    /\ over' = TRUE
    /\ UNCHANGED <<accepted, cuts, taken, delivered>>

\* Both ends are reset for an independent stream.
Restart ==
    /\ accepted' = <<>> /\ cuts' = <<>>
    /\ taken' = 0 /\ delivered' = <<>> /\ over' = FALSE

Next == Accept \/ Cut \/ Deliver \/ Announce \/ Restart

Spec == Init /\ [][Next]_vars
=============================================================================
