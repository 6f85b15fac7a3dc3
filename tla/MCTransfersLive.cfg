\* Liveness; scans may visit the rows in two opposite orders.
SPECIFICATION FairSpec
CONSTANTS
    ann = ann
    bob = bob
    eve = eve
    sys = sys
    k1 = k1
    k2 = k2
    Wallets = {ann, bob, eve}
    System = sys
    WalletType <- MCWalletType
    InitBalance <- MCInitBalance
    MaxBalance <- MCMaxBalance
    RequestSet <- MCRequestSet
    OperationSet <- MCOperationSet
    NoProc = NoProc
    TrxIds = {x1, x2}
    Requests = {r1, r2}
    Operations = {o1}
    ScanOrders <- TwoOrders
PROPERTY EveryRequestAnswered
