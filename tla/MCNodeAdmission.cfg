SPECIFICATION Spec
CONSTANTS
    Handlers <- TwoHandlers
    Requests <- SameKey
    Size = 8
    MaxClients = 1
    Capped = FALSE
    Rollbacks = FALSE
    Persist = FALSE
    Faults = FALSE
    Restarts = 0
    None = None
    h1 = h1
    h2 = h2
    t1 = t1
    t2 = t2
    k1 = k1
SYMMETRY Symmetry
INVARIANTS LeasesOwned CapacityBound
PROPERTY ImplementsTable
