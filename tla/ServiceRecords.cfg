CONSTANTS
    None = None
    MaxAge = 0
    Frames <- MCFrames
    Requests <- MCRequests
SPECIFICATION Spec
INVARIANTS
    ResistanceWithinResolution
    CellsOfThePack
    RecordAgreesWithReport
    ModulesInOrder
    BalancedToHighest
PROPERTIES
    FaultStaysInReports
