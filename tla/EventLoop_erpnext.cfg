CONSTANTS
    Clients = {browser}
    Operator = operator
    Period = 2
    MaxRequests = 2
    Watchdog = 4
SPECIFICATION LoopSpec
INVARIANT HeartbeatInTime
