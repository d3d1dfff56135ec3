CONSTANTS
    None = None
    MaxAge = 0
    Frames <- SimulatedFrames
    Requests <- MCStartStop
    LoadLevels = {1}
    SeqModulus = 1
    RxCap = 1
    TxCap = 1
    Cells = 4
    Counters = {1, 2}
    Currents <- MCCurrents
    Acks <- MCAcks
SPECIFICATION BusSpec
INVARIANTS
    SummaryMatchesCells
    ReadingsOfTheirCells
    ShownAsMeasured
CHECK_DEADLOCK FALSE
