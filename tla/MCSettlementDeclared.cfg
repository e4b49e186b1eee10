SPECIFICATION FairSpec
CONSTANTS
    Settlers <- TwoSettlers
    Receipts <- TwoReceipts
    Amount <- Amounts
    Deposits <- SomeDeposits
    MaxInt = 3
    MaxSent = 2
    Declared <- AsDeclared
    Node = Node
    Op = Op
    NoBatch = NoBatch
    Nobody = Nobody
    None = None
    c1 = c1
    c2 = c2
    r1 = r1
    r2 = r2
CHECK_DEADLOCK FALSE
PROPERTY SettledReachesChain
