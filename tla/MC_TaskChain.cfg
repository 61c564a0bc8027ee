SPECIFICATION Spec
CONSTANTS
    Ctxs <- AllCtxs
INVARIANTS
    LinksFollowPipeline
    RefCountsItems
CHECK_DEADLOCK FALSE
