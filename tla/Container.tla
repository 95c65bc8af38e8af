----------------------------- MODULE Container -----------------------------
(***************************************************************************)
(* What the growable TDC container promises, with no disk in sight: a      *)
(* container is a schema and a sequence of row groups; a pass stages one   *)
(* change to it and either commits the whole change in one step or is      *)
(* discarded.  A crash, an abort and a failed close are all Discard.       *)
(*                                                                         *)
(* The promise is the "Crash safety" paragraph of include/tdc/stream.h:    *)
(* a process that dies at any point leaves the container before the pass   *)
(* or the container after it.  StreamEncoder implements this module.       *)
(***************************************************************************)
EXTENDS Naturals, Sequences

CONSTANTS
    Payload,    \* what a block holds: the identity of an encoded record
    Columns     \* the column counts a schema may declare

VARIABLES
    store,      \* the container a reader finds
    pass        \* the pass in progress: what a commit would store

vars == <<store, pass>>

\* A container whose header names no index yet.
Nothing == [schema |-> 0, groups |-> <<>>]

NoPass == [kind |-> "closed", schema |-> 0, groups |-> <<>>,
           open |-> <<>>, stats |-> <<>>]

Init == store = Nothing /\ pass = NoPass

BeginCreate(n) ==
    /\ pass = NoPass
    /\ store = Nothing
    /\ pass' = [NoPass EXCEPT !.kind = "create", !.schema = n]
    /\ UNCHANGED store

BeginWiden(n) ==
    /\ pass = NoPass
    /\ store.groups # <<>>
    /\ n > 0
    /\ pass' = [NoPass EXCEPT !.kind = "widen", !.schema = n,
                              !.groups = store.groups]
    /\ UNCHANGED store

BeginExtend ==
    /\ pass = NoPass
    /\ store.groups # <<>>
    /\ store.schema > 0
    /\ pass' = [NoPass EXCEPT !.kind = "extend", !.schema = store.schema,
                              !.groups = store.groups]
    /\ UNCHANGED store

AddBlock(p) ==
    /\ pass.kind \in {"create", "extend"}
    /\ pass' = [pass EXCEPT !.open = Append(@, p)]
    /\ UNCHANGED store

AttachStats ==
    /\ pass.open # <<>>
    /\ pass.stats = <<>>
    /\ pass' = [pass EXCEPT !.stats = [c \in DOMAIN pass.open |-> TRUE]]
    /\ UNCHANGED store

\* An extended container stays rectangular: the group carries exactly the
\* columns the schema declares.
EndGroup ==
    /\ pass.open # <<>>
    /\ pass.kind = "extend" => Len(pass.open) = pass.schema
    /\ pass' = [pass EXCEPT !.groups = Append(@, [cols  |-> pass.open,
                                                  stats |-> pass.stats]),
                            !.open = <<>>,
                            !.stats = <<>>]
    /\ UNCHANGED store

\* A widened group keeps its columns in place and gains one at the end; the
\* columns already there gain no statistics.
WidenGroup(g, p, withStats) ==
    /\ pass.kind = "widen"
    /\ LET old == pass.groups[g].stats
           n   == Len(pass.groups[g].cols)
           \* the statistics row the group had, or one that claims nothing
           base == IF old = <<>> THEN [c \in 1..n |-> FALSE] ELSE old
       IN  pass' = [pass EXCEPT
              !.groups[g].cols  = Append(@, p),
              !.groups[g].stats = IF withStats \/ old # <<>>
                                  THEN Append(base, withStats)
                                  ELSE <<>>]
    /\ UNCHANGED store

Commit ==
    /\ pass # NoPass
    /\ store' = IF pass.groups = <<>>
                THEN store
                ELSE [schema |-> pass.schema, groups |-> pass.groups]
    /\ pass' = NoPass

Discard ==
    /\ pass # NoPass
    /\ pass' = NoPass
    /\ UNCHANGED store

Next ==
    \/ \E n \in Columns : BeginCreate(n) \/ BeginWiden(n)
    \/ BeginExtend
    \/ \E p \in Payload : AddBlock(p)
    \/ AttachStats
    \/ EndGroup
    \/ \E g \in DOMAIN pass.groups, p \in Payload, s \in BOOLEAN :
          WidenGroup(g, p, s)
    \/ Commit
    \/ Discard

Spec == Init /\ [][Next]_vars
=============================================================================
