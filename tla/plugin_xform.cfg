SPECIFICATION Spec
CONSTANTS
    NoMemory = FALSE
    MaxSlots = 1
    NoRecord = NoRecord
    NoWire = NoWire
    Cases <- PluginCases
    Faults = {}
INVARIANT RegisteredReadsBack
