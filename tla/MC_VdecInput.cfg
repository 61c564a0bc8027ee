SPECIFICATION Spec
CONSTANTS
    Blocks = {b1, b2, b3}
    Chunks = {c1, c2, c3}
    Handles = {h1, h2, h3}
    Null = Null
    Modes = {"copy", "dma", "secure"}
    Releasers = {dec}
    FrameSizes = {1, 6}
    Pad = 1
    Extra = 1
    BlockSize = 7
    BlockSizeMax = 14
    Prepared = 2
    MinLevel = 2
    MaxLevel = 6
    ManyFrames = 1
    MaxTotal = 28
    MaxFails = 1
    FirstMayFail = FALSE
    ReuseHeld = TRUE
SYMMETRY Sym
INVARIANTS
    TypeOK
    ChunksDisjoint
    CountsExact
    HandleExact
CHECK_DEADLOCK FALSE
