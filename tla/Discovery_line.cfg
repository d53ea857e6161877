SPECIFICATION Spec
CONSTANTS
    a = a
    b = b
    c = c
    Daemons = {a, b, c}
    Workers = {a}
    Watched = {a}
    Peers <- MCPeers
    Period = 45
    TTL = 120
    MaxPeriods = 2
    MaxLost = 0
    MaxCrashes = 0
INVARIANTS TypeOK WorkersStayVisible
CHECK_DEADLOCK FALSE
