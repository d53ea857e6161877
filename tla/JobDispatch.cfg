SPECIFICATION Spec
CONSTANTS
    alice = alice
    bob = bob
    a = a
    b = b
    Daemons = {alice, bob}
    Jobs = {a, b}
    Requester <- MCRequester
    Workers <- MCWorkers
    MaxFaults = 1
    MaxCrashes = 1
    NoMsg = NoMsg
    NoDaemon = NoDaemon
INVARIANTS TypeOK ReceiptIsShared CountedOncePerIssuer NobodyWaitsInVain
PROPERTIES BoardSpec EveryJobDone EventuallyAttested
CHECK_DEADLOCK FALSE
