CONSTANTS
    Jobs <- MCJobs
    ByteBits = 2
    IndexBits = 9
    AutoSample = 12
    VoxelSample = 12
    PayloadBits = 2
    VarintMax = 5
    FractionBits = 2
    DefaultTile = 9
    FirstCap = 2
    FirstEntries = 2
    Fnv <- Hashes
    HeapMax = 20
    Zero = 0
    CountMax = 9
    WideBytes = 8
    TableBits = 2
    Multiplier = 5
    DimMax = 10
    NSyms = 6
    MaxLen = 4
    FastBits = 3
    FourFrom = 26
    HistFrom = 9
    Halvings = 5
    TableLogMin = 2
    TableLogMax = 5
    StateLog = 6
    MaxLanes = 2
    MinMatch = 3
    MaxOffset = 18
    HashBits = 4
    HashMultiplier = 157
    TagMax = 3
    CopyUnit = 4
    FastStepMax = 3
    SkipStrength = 2
    SkipMaxStep = 3
    MaxSymbol = 5
    ShiftMax = 2
    DeltaFrom = 4
    ContextFrom = 8
    ContextBits = 1
    RegisterBytes = 8
    LastDtype = 2
    ValueSize = 8
    PrefixSize = 2
    SizeBits = 6
    FirstBytes = 4
SPECIFICATION Spec
INVARIANTS TypeOK VectorsComeBack ValuesEnterOnce SizesNeverWrap RastersComeBack
INVARIANTS VolumesComeBack PlanesComeBack QuantisedIsNearest TransformsComeBack
INVARIANTS SymbolsComeBack CodesFit MatchesComeBack StreamsComeBack
INVARIANTS StoresStayInside SchemasAgree IndexesSayWhatTheyHold StatsBoundTheBlock
CHECK_DEADLOCK FALSE
