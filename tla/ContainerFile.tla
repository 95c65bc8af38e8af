--------------------------- MODULE ContainerFile ---------------------------
(***************************************************************************)
(* A container on disk, as src/src/format lays it out: a header (one       *)
(* 64-byte write, taken to be atomic) and a body of extents, the records,  *)
(* schemas and indexes whose bytes are all still in place.  A write drops  *)
(* every extent it overlaps.  Row counts, names and the bytes of a record  *)
(* are abstracted to its size and its identity.                            *)
(***************************************************************************)
EXTENDS Naturals, Sequences, FiniteSets

CONSTANTS
    HeaderSize,    \* TDC_CONTAINER_HEADER_SIZE
    IndexBase,     \* bytes of an index before its row groups
    GroupHeader,   \* TDC_RG_HEADER_SIZE
    ColEntry,      \* TDC_RG_COL_SIZE
    StatsEntry,    \* TDC_STATS_ENTRY_SIZE
    SchemaBase,    \* bytes of a schema before its columns
    SchemaCol,     \* bytes of one column descriptor
    Payload,       \* identities of encoded block records
    RecordSize,    \* [Payload -> bytes]
    ColWrap        \* 2^16: the column count of a row group is a uint16_t

ASSUME SizesAssumption ==
    /\ HeaderSize \in Nat \ {0}
    /\ IndexBase \in Nat \ {0}
    /\ GroupHeader \in Nat
    /\ ColEntry \in Nat
    /\ StatsEntry \in Nat
    /\ SchemaBase \in Nat \ {0}
    /\ SchemaCol \in Nat
    /\ RecordSize \in [Payload -> Nat \ {0}]
    /\ Payload \subseteq Nat
    /\ ColWrap \in Nat \ {0}

-----------------------------------------------------------------------------
(* The file.                                                               *)

Col    == [off : Nat, total : Nat]
Group  == [off : Nat, cols : Seq(Col), stats : Seq(BOOLEAN)]
Extent == [at : Nat, size : Nat, kind : {"block", "schema", "index"},
           id : Nat, groups : Seq(Group)]
Header == [magic : BOOLEAN, widened : BOOLEAN, has_stats : BOOLEAN,
           n_blocks : Nat, schema_size : Nat, schema_off : Nat,
           blocks_start : Nat, idx_off : Nat, idx_size : Nat]

NoHeader == [magic |-> FALSE, widened |-> FALSE, has_stats |-> FALSE,
             n_blocks |-> 0, schema_size |-> 0, schema_off |-> 0,
             blocks_start |-> 0, idx_off |-> 0, idx_size |-> 0]

BlockExtent(at, p) == [at |-> at, size |-> RecordSize[p], kind |-> "block",
                       id |-> p, groups |-> <<>>]

\* tdc_schema_serialized_size: zero columns serialize to nothing
SizeOfSchema(n) == IF n = 0 THEN 0 ELSE SchemaBase + n * SchemaCol

SchemaExtent(at, n) == [at |-> at, size |-> SizeOfSchema(n),
                        kind |-> "schema", id |-> n, groups |-> <<>>]

\* The column entries and the statistics entries an index holds.  A group
\* with statistics has one entry per column, however long its array is.
ColEntries(gs) ==
    {e \in (1..Len(gs)) \X (1..ColWrap) : e[2] <= Len(gs[e[1]].cols)}
StatsEntries(gs) == {e \in ColEntries(gs) : gs[e[1]].stats # <<>>}

\* tdc_rowgroup_index_serialized_size
SizeOfIndex(gs) == IndexBase + GroupHeader * Len(gs)
                 + ColEntry * Cardinality(ColEntries(gs))
                 + StatsEntry * Cardinality(StatsEntries(gs))

IndexExtent(at, gs) == [at |-> at, size |-> SizeOfIndex(gs),
                        kind |-> "index", id |-> 0, groups |-> gs]

\* The extents a write of n bytes at offset at leaves alone.
Spared(b, at, n) ==
    {e \in b : e.at + e.size <= at \/ at + n <= e.at}

Put(b, e) == Spared(b, e.at, e.size) \cup {e}

-----------------------------------------------------------------------------
(* What a reader makes of the file.                                        *)

SchemaOffset(h) == IF h.widened THEN h.schema_off ELSE HeaderSize
BlocksStart(h)  == IF h.widened THEN h.blocks_start
                                ELSE HeaderSize + h.schema_size

Committed(h) == h.idx_off # 0

IndexesAt(h, b) == {e \in b : /\ e.kind = "index"
                              /\ e.at = h.idx_off
                              /\ e.size = h.idx_size}
SchemasAt(h, b) == {e \in b : /\ e.kind = "schema"
                              /\ e.at = SchemaOffset(h)
                              /\ e.size = h.schema_size}
BlocksAt(c, b)  == {e \in b : /\ e.kind = "block"
                              /\ e.at = c.off
                              /\ e.size = c.total}

\* tdc_rowgroup_index_parse: what it accepts of an index under a header
\* whose HAS_STATS flag is hasStats.
IndexParses(gs, hasStats) ==
    \A g \in DOMAIN gs :
        /\ gs[g].cols # <<>>
        /\ gs[g].stats # <<>> => hasStats

\* The index the header names, its schema and every block it lists are on
\* disk in one piece, and the index parses.
Readable(h, b) ==
    /\ h.schema_size # 0 => SchemasAt(h, b) # {}
    /\ \E x \in IndexesAt(h, b) :
          /\ IndexParses(x.groups, h.has_stats)
          /\ \A g \in DOMAIN x.groups :
                \A c \in DOMAIN x.groups[g].cols :
                    BlocksAt(x.groups[g].cols[c], b) # {}

TheId(S) == (CHOOSE e \in S : TRUE).id

Contents(h, b) ==
    IF ~ (Committed(h) /\ Readable(h, b))
    THEN [schema |-> 0, groups |-> <<>>]
    ELSE LET gs == (CHOOSE x \in IndexesAt(h, b) : TRUE).groups
         IN  [schema |-> IF h.schema_size = 0 THEN 0
                         ELSE TheId(SchemasAt(h, b)),
              groups |-> [g \in DOMAIN gs |->
                  [cols  |-> [c \in DOMAIN gs[g].cols |->
                                 TheId(BlocksAt(gs[g].cols[c], b))],
                   stats |-> gs[g].stats]]]
=============================================================================
