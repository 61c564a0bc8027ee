SPECIFICATION Spec
CONSTANTS
    a = a
    b = b
    Insts = {a, b}
    Slots = {s}
    Null = Null
    Setups <- AllSetups
    MaxSeq = 2
    MaxBufs = 2
    Serial = TRUE
CHECK_DEADLOCK FALSE
INVARIANTS KrefExact DriverFencesExact SignalsTellDecoding NothingLeft
PROPERTIES WaitersWake
