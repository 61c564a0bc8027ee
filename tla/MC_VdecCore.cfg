SPECIFICATION Spec
CONSTANTS
    a = a
    b = b
    Vdecs = {a, b}
    Null = Null
    Setups <- AllSetups
    MaxFrames = 1
    SemMax = 1
    TimeoutWhenHung = TRUE
CHECK_DEADLOCK FALSE
INVARIANTS TypeOK CoresOwned RunHasInput NoDangling WokenUnlessForced IrqThreadFirst
