SPECIFICATION Spec
CONSTANTS
    Nodes = {n1, n2, n3, n4}
    Messages = {m1, m2}
    D = 2
    DLow = 1
    DHigh = 2
    DGossip = 1
    MaxWanted = 1
    MaxInFlight = 1
    MaxBeats = 2
    MaxLosses = 1
INVARIANTS TypeOK MeshBounded SupplierHasIt StuckOnlyAfterLoss
SYMMETRY NodeSymmetry
CHECK_DEADLOCK FALSE
