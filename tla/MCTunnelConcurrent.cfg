\* Two callers whose calls overlap in every way, and the watchdogs.
CONSTANTS
    c1 = c1  c2 = c2  d1 = d1  d2 = d2  ep1 = ep1  ep2 = ep2
    NoDevice = NoDevice
    Closed = Closed
    Callers <- TwoCallers
    Devices <- TwoDevices
    Endpoints <- OneEndpoint
    MaxRetries = 0
    Ops <- AllOps
    Outcomes <- AllOutcomes
SPECIFICATION Spec
\* A panic of sync.WaitGroup ends the process.
CHECK_DEADLOCK FALSE
SYMMETRY Symmetry
INVARIANT EngineInv
