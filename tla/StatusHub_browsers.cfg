CONSTANTS
    s1 = s1
    s2 = s2
    s3 = s3
    Sockets = {s1, s2, s3}
    Broadcasters = {"rx", "timeout"}
    NoSocket = NoSocket
    MaxPublished = 3
SPECIFICATION Spec
SYMMETRY Symmetry
INVARIANTS
    TypeOK
    LiveRegistered
    Fresh
    UnreachableDropped
PROPERTY
    SentInOrder
CHECK_DEADLOCK FALSE
