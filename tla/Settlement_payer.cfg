SPECIFICATION Spec
CONSTANTS
    customer = customer
    operator = operator
    Daemons = {customer, operator}
    Receipts = {r1}
    Hashes = {h1, h2}
    Requester <- MCRequester
    Worker <- MCWorker
    Wallet <- MCWallet
    Payable = {r1}
    Configured = {customer, operator}
    Faults = {}
    MaxCrashes = 0
    NoTx = NoTx
    NoReceipt = NoReceipt
INVARIANTS RequesterPays
CHECK_DEADLOCK FALSE
