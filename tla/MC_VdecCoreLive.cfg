SPECIFICATION Spec
CONSTANTS
    a = a
    b = b
    Vdecs = {a, b}
    Null = Null
    Setups <- LiveSetups
    MaxFrames = 1
    SemMax = 1
    TimeoutWhenHung = TRUE
CHECK_DEADLOCK FALSE
PROPERTIES Served DisconnectReturns
