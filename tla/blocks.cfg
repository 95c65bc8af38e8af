SPECIFICATION Spec
CONSTANTS
    NoMemory = TRUE
    MaxSlots = 1
    NoRecord = NoRecord
    NoWire = NoWire
    Cases <- MCCases
    Faults = {"header", "short", "side", "payload"}
INVARIANTS TypeOK NothingLeaks ReadableExactly DecodesWhatItEncoded
