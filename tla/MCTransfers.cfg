\* Two requests race with two administrator calls, or one request with four;
\* rows are scanned by id.
SPECIFICATION CastSpec
CONSTANTS
    ann = ann
    bob = bob
    eve = eve
    sys = sys
    k1 = k1
    k2 = k2
    Wallets = {ann, bob, eve}
    System = sys
    WalletType <- MCWalletType
    InitBalance <- MCInitBalance
    MaxBalance <- MCMaxBalance
    RequestSet <- MCRequestSet
    OperationSet <- MCOperationSet
    NoProc = NoProc
    TrxIds = {x1, x2}
    Requests = {r1, r2}
    Operations = {o1, o2, o3, o4}
    ScanOrders <- OneOrder
INVARIANTS
    TypeOK BalancesInRange Conservation BalancesReconcile LedgerChain DoubleEntry
    KeyMovesMoneyOnce AnswersMatchBooks NoDeadlock RestrictedIsFrozen
PROPERTIES ImplementsAtomic ImplementsHandler NoTransferPastFreeze
SYMMETRY Symmetry
