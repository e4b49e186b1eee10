SPECIFICATION Spec
CONSTANTS
    NodeIds <- TwoNodes
    Operators <- TwoOperators
    Fees = {0, 1}
    Writers <- TwoWriters
    None = None
    Torn = Torn
    MaxOps = 2
    MaxLoads = 1
    Rated <- TwoNodes
    Slashable = {"double-settlement"}
    Observed = {"uptime"}
    Unit = 12
    Amounts = {6, 24}
    MaxChanges = 2
    Wishes <- SomeWishes
    Stats <- Measurements
    NoStats = NoStats
    Region <- TwoRegions
    Before <- ByName
    Listed <- TwoNodes
    Facts <- SixFacts
    Wanted <- FivePolicies
    Whole = 4
    Trusts = {2, 3}
    Limit = 2
    Times = {0, 1, 4}
    MaxProbes = 3
    a = a
    b = b
    o1 = o1
    o2 = o2
    w1 = w1
    w2 = w2
SYMMETRY Interchangeable
CHECK_DEADLOCK FALSE
INVARIANTS RegistryAgrees ChoiceUndominated
PROPERTY SlashFinal
