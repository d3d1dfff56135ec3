CONSTANTS
    None = None
    f1 = f1
    MaxAge = 1
    Frames <- MCFaultFrames
    Requests <- MCRequests
    LoadLevels = {1}
    SeqModulus = 2
    RxCap = 2
    TxCap = 1
SPECIFICATION Spec
INVARIANTS
    TypeOK
    BusOutlivesTasks
PROPERTIES
    FlagFollowsSend
    StoppedStatusStays
    StopCompletes
CHECK_DEADLOCK FALSE
