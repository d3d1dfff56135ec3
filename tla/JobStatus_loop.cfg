CONSTANTS
    None = None
    Clients = {c1, c2}
    Operator = operator
    Period = 1
    MaxRequests = 2
    Watchdog = 2
SPECIFICATION Spec
INVARIANTS
    GapBounded
    StopBounded
    FlagsAsMeant
PROPERTIES
    StopIsAnswered
