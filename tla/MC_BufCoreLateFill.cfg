SPECIFICATION Spec
CONSTANTS
    Bufs = {b1, b2}
    Ctx <- CtxVppI
    DiPost = FALSE
    MaxDecRef = 1
INVARIANTS
    FreeIsIdle
CHECK_DEADLOCK FALSE
