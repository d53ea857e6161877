SPECIFICATION Spec
CONSTANTS
    customer = customer
    operator = operator
    Daemons = {customer, operator}
    Receipts = {r1, r2}
    Hashes = {h1, h2}
    Requester <- MCRequester
    Worker <- MCWorker
    Wallet <- MCWallet
    Payable = {r1, r2}
    Configured = {customer}
    Faults = {"lost", "evicted"}
    MaxCrashes = 1
    NoTx = NoTx
    NoReceipt = NoReceipt
INVARIANTS TypeOK SnapshotIsCurrent RecordAgreesWithChain
PROPERTIES NeverSentTwiceKnowingly SettlementWalk LedgerSpec
SYMMETRY Symmetry
CHECK_DEADLOCK FALSE
