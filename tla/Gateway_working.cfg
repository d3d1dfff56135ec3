CONSTANTS
    None = None
    f1 = f1
    f2 = f2
    MaxAge = 0
    Frames <- MCFrames
    Requests = {}
    LoadLevels = {}
    SeqModulus = 1
    RxCap = 1
    TxCap = 0
    NoSocket = NoSocket
    s1 = s1
    s2 = s2
    Sockets = {s1, s2}
    MaxPublished = 4
SPECIFICATION Spec
INVARIANTS
    CallBelongsToTask
PROPERTIES
    BehindCatchesUp
    ShutdownCompletes
    SilenceNoticed
CHECK_DEADLOCK FALSE
