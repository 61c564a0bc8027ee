SPECIFICATION FairSpec
CONSTANTS
    Bufs = {b1, b2}
    Ctx <- CtxSink
    DiPost = TRUE
    MaxDecRef = 1
INVARIANTS
    FreeQueExact
    RefExact
    CoreRefExact
PROPERTIES
    ImplementsPool
    Recycles
CHECK_DEADLOCK FALSE
