SPECIFICATION Spec
CONSTANTS
    Bufs = {b1, b2}
    Ctx <- CtxVppI
    DiPost = FALSE
    MaxDecRef = 1
INVARIANTS
    BitsTellHolders
    Inv
CHECK_DEADLOCK FALSE
