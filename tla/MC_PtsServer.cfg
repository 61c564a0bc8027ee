SPECIFICATION Spec
CONSTANTS
    W = 16
    P = 64
    P32 = 32
    MaxCount = 3
    Threshold = 2
    Expired = 1
    Retry = 1
    Tries = 1
    FirstDiff = 4
    OffsetNear = 5
    OutOfBuffer = 6
    Near = 1
    Far = 6
    Rewind = 6
    RewindIndex = 4
    MaxDuration = 4
    DoubleCheck = 0
    None = None
    c1 = c1
    c2 = c2
    c3 = c3
    Clients = {c1, c2, c3}
    Setups <- AllSetups
    DynamicNum = 3
    InstanceNum = 5
    Frames <- MCFrames
    Pieces = {1}
    Starts <- MCStarts
    WildIn <- MCWildIn
    WildOut = {1, 6, 15}
    Serial = TRUE
INVARIANTS
    TypeOK
    RefsExact
    
    PositionsExact
    NewestKept
    OwnPts
    NearestApts
CHECK_DEADLOCK FALSE
