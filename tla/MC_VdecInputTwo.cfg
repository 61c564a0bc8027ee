SPECIFICATION FairSpec
CONSTANTS
    Blocks = {b1, b2}
    Chunks = {c1, c2}
    Handles = {}
    Null = Null
    Modes = {"copy"}
    Releasers = {dec, core}
    FrameSizes = {1, 3}
    Pad = 1
    Extra = 1
    BlockSize = 7
    BlockSizeMax = 14
    Prepared = 1
    MinLevel = 2
    MaxLevel = 6
    ManyFrames = 1
    MaxTotal = 14
    MaxFails = 0
    FirstMayFail = FALSE
    ReuseHeld = FALSE

    
PROPERTIES
    Accepted
CHECK_DEADLOCK FALSE
