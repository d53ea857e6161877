SPECIFICATION Spec
CONSTANTS
    a = a
    b = b
    c = c
    Daemons = {a, b}
    Workers = {a}
    Watched = {a}
    Peers <- MCPeers
    Period = 45
    TTL = 120
    MaxPeriods = 2
    MaxLost = 1
    MaxCrashes = 1
INVARIANTS OneLossIsTolerated
CHECK_DEADLOCK FALSE
