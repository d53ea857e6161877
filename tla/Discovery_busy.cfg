SPECIFICATION Spec
CONSTANTS
    a = a
    b = b
    c = c
    Daemons = {a, b}
    Workers = {a, b}
    Watched = {a}
    Peers <- MCPeers
    Period = 45
    TTL = 120
    MaxPeriods = 4
    MaxLost = 0
    MaxCrashes = 0
INVARIANTS LiveNodesAreShown
CHECK_DEADLOCK FALSE
