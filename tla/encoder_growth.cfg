SPECIFICATION Spec
CONSTANTS
    HeaderSize = 1
    IndexBase = 1
    GroupHeader = 1
    ColEntry = 1
    StatsEntry = 1
    SchemaBase = 1
    SchemaCol = 1
    Payload = {2}
    RecordSize <- MCRecordSize
    ColWrap = 8
    Columns = {2}
    MaxCols = 2
    MaxGroups = 2
    MaxPasses = 3
    Faults = {"crash", "io", "hook", "mem"}
    CarryOn = {"mem"}
    LateBlocks = FALSE
INVARIANTS AlwaysReadable ExtendLeavesNoGap
PROPERTIES CommitsOrDiscards MovesAreRare AbortRestores
CHECK_DEADLOCK FALSE
