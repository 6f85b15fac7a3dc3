\* A trxId drawn twice: a conflict about a key nobody used.
SPECIFICATION Spec
CONSTANTS
    ann = ann
    bob = bob
    eve = eve
    sys = sys
    k1 = k1
    k2 = k2
    Wallets = {ann, bob, eve}
    System = sys
    WalletType <- MCWalletType
    InitBalance <- MCInitBalance
    MaxBalance <- MCMaxBalance
    RequestSet <- MCRequestSet
    OperationSet <- MCOperationSet
    NoProc = NoProc
    TrxIds = {x1}
    Requests = {r1, r2}
    Operations = {o1}
    ScanOrders <- OneOrder
INVARIANT ConflictMeansProcessed
