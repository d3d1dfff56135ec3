CONSTANTS
    None = None
    Foreign = Foreign
    Calls = {1, 2, 3}
    Requests <- MCRequests
    MaxNow = 1
SPECIFICATION Spec
INVARIANTS
    TypeOK
    WholeRecords
    NothingLost
PROPERTIES
    RegistrySpec
CHECK_DEADLOCK FALSE
