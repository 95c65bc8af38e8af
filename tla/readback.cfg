SPECIFICATION SpecAll
CONSTANTS
    HeaderSize = 1
    IndexBase = 1
    GroupHeader = 1
    ColEntry = 1
    StatsEntry = 1
    SchemaBase = 1
    SchemaCol = 1
    Payload = {0, 1}
    RecordSize <- MCRecordSize
    ColWrap = 8
    BlockHeader = 1
    IoFails = TRUE
    Columns = {1}
    MaxCols = 2
    MaxGroups = 2
    MaxPasses = 2
    MaxReaders = 1
    MaxBlocks = 3
    Faults = {"crash", "io", "hook", "mem"}
    CarryOn = {"mem"}
    LateBlocks = FALSE
INVARIANTS TypeOK PassInv ReaderTypeOK HandsOutWhatIsDue EndsAfterTheLast CommittedIsIntact
CHECK_DEADLOCK FALSE
