SPECIFICATION FairSpec
CONSTANTS
    customer = customer
    operator = operator
    Daemons = {customer, operator}
    Receipts = {r1}
    Hashes = {h1, h2, h3}
    Requester <- MCRequester
    Worker <- MCWorker
    Wallet <- MCWallet
    Payable = {r1}
    Configured = {customer}
    Faults = {}
    MaxCrashes = 1
    NoTx = NoTx
    NoReceipt = NoReceipt
INVARIANTS CrashCostsOneTransfer
PROPERTIES EventuallySettled
CHECK_DEADLOCK FALSE
