SPECIFICATION Spec
CONSTANTS
    Nodes <- SixNodes
    Host <- Hosts
    Key <- Keys
    Country <- Countries
    Price <- Prices
    Latency <- Latencies
    Blank = Blank
    Callers <- TwoCallers
    MaxRotations = 2
    Pool <- PoolOrder
    Penalty <- Penalties
    Samples <- RTTs
    MaxSamples = 2
    MaxRoutes = 3
    None = None
    n1 = n1
    n2 = n2
    n3 = n3
    n4 = n4
    n5 = n5
    n6 = n6
    c1 = c1
    c2 = c2
CHECK_DEADLOCK FALSE
INVARIANTS CircuitSound SelectionMaximal RouteAccounted
PROPERTY PinnedEntryKept
