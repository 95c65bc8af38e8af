SPECIFICATION FairSpec
CONSTANTS
    Target = 2
    RecordSizes = {2, 3}
    HeaderBytes = 2
    MaxElems = 3
    PushSizes = {1, 3}
    Caps = {1, 9}
    Chunks = {1, 3}
    MaxStreams = 2
    Faults = {"memory"}
    EndsEarly = FALSE
INVARIANTS IntactIsNeverCorrupt
PROPERTIES FinishReachesDone DeliversInOrder
CHECK_DEADLOCK FALSE
