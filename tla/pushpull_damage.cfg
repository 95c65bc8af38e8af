SPECIFICATION Spec
CONSTANTS
    Target = 2
    RecordSizes = {2, 3}
    HeaderBytes = 2
    MaxElems = 4
    PushSizes = {1, 3}
    Caps = {1, 9}
    Chunks = {1, 3}
    MaxStreams = 1
    Faults = {"memory", "scratch", "damage"}
    EndsEarly = TRUE
INVARIANTS TypeOK CheckpointsMatch PullMovesLittle DoneMeansDrained DeliversPrefix
CHECK_DEADLOCK FALSE
