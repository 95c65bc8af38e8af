SPECIFICATION Spec
CONSTANTS
    HeaderSize = 1
    IndexBase = 1
    GroupHeader = 1
    ColEntry = 1
    StatsEntry = 1
    SchemaBase = 1
    SchemaCol = 1
    Payload = {1}
    RecordSize <- MCRecordSize
    ColWrap = 8
    Columns = {1, 2}
    MaxCols = 2
    MaxGroups = 2
    MaxPasses = 2
    Faults = {}
    CarryOn = {}
    LateBlocks = FALSE
INVARIANTS ClosedHeaderIsValid
CHECK_DEADLOCK FALSE
