SPECIFICATION Spec
CONSTANTS
    Nodes <- FourNodes
    Host <- Hosts
    Key <- Keys
    Country <- Keys
    Price <- Zero
    Latency <- Zero
    Blank = Blank
    Handlers <- TwoHandlers
    Usable <- FourNodes
    EntryRegion <- Near
    MaxRequests = 4
    None = None
    Payers <- TwoHandlers
    MaxDials = 2
    MaxCalls = 5
    MaxApprovals = 1
    Savers <- TwoHandlers
    Clients <- TwoClients
    WalletModes <- Modes
    Rest = {0}
    DefaultConfig <- Fresh
    Missing = Missing
    Torn = Torn
    MaxSaves = 2
    MaxStarts = 3
    Openers <- TwoClients
    migrations <- StatementCounts
    MaxOpens = 3
    Daemons <- TwoHandlers
    Dialers <- TwoClients
    Absent = Absent
    Bad = Bad
    MaxRuns = 3
    MaxDialled = 2
    Exits <- TwoExits
    Fee <- Fees
    Ping <- Pings
    Area <- Areas
    Offered <- TwoExits
    Rank <- ByName
    HostConfigs <- HostAsks
    Nil = Nil
    MaxHostCalls = 6
    Shapings <- ShapingsAsked
    NoShaper = NoShaper
    DefaultBuckets <- Buckets
    Lengths = {0, 2, 5}
    MaxSends = 4
    MaxTicks = 4
    n1 = n1
    n2 = n2
    n3 = n3
    n4 = n4
    h1 = h1
    h2 = h2
    c1 = c1
    c2 = c2
SYMMETRY Interchangeable
CHECK_DEADLOCK FALSE
INVARIANTS NeverBare SessionIntact CircuitShown WalletAccounted
           FilesTellTheTruth SchemaBeforeUse TokenAgreed ConnectionCarried MeasuredExactly
