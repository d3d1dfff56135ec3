CONSTANTS
    None = None
    f1 = f1
    f2 = f2
    MaxAge = 0
    Frames <- MCFaultFrames
    Requests = {}
    LoadLevels = {}
    SeqModulus = 1
    RxCap = 1
    TxCap = 0
    NoSocket = NoSocket
    s1 = s1
    s2 = s2
    Sockets = {s1, s2}
    MaxPublished = 5
SPECIFICATION WorkingSpec
PROPERTIES
    FaultReachesStatus
CHECK_DEADLOCK FALSE
