CONSTANTS
    None = None
    MaxAge = 0
    Frames = {}
    Requests <- MCRequests
    LoadLevels = {1}
    SeqModulus = 1
    RxCap = 2
    TxCap = 2
    MaxRuns = 2
    MaxRestarts = 1
SPECIFICATION RunSpec
INVARIANTS
    TestIsShown
PROPERTIES
    NewestTestWins
    StoppedMeansStopping
CHECK_DEADLOCK FALSE
