SPECIFICATION Spec
CONSTANTS
    b1 = b1
    b2 = b2
    b3 = b3
    Bufs = {b1, b2, b3}
    FirstBufs = {b1, b2}
    BufSize = 3
    Size = 5
    Reserve = 1
    MinWrite = 2
    Modes = {"ring", "parser"}
    WriteSizes = {1, 4}
    CopyFails = {FALSE}
    StampKinds <- ExactKinds
    UserPtr = UserPtr
    MaxUnits = 8
    MaxFails = 2
    MaxOpens = 1
CHECK_DEADLOCK FALSE
INVARIANTS TypeOK InOrder AccountsExact TstampExact
PROPERTIES Drains
