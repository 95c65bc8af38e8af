SPECIFICATION Spec
CONSTANTS
    NoMemory = FALSE
    MaxSlots = 1
    NoRecord = NoRecord
    NoWire = NoWire
    Cases <- QuantizedCases
    Faults = {"tlv"}
INVARIANT ScratchFreed
