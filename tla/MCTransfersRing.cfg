\* Scans in two opposite orders: a ring of waiting transactions.
SPECIFICATION Spec
CONSTANTS
    ann = ann
    bob = bob
    eve = eve
    sys = sys
    k1 = k1
    k2 = k2
    Wallets = {ann, bob, eve}
    System = sys
    WalletType <- MCWalletType
    InitBalance <- MCInitBalance
    MaxBalance <- MCMaxBalance
    RequestSet <- MCRequestSet
    OperationSet <- MCOperationSet
    NoProc = NoProc
    TrxIds = {x1, x2}
    Requests = {r1, r2}
    Operations = {o1}
    ScanOrders <- TwoOrders
INVARIANT NoDeadlock
