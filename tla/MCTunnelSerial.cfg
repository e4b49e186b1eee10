\* One caller at a time, racing only the engine's own watchdog.
CONSTANTS
    c1 = c1  c2 = c2  d1 = d1  d2 = d2  ep1 = ep1  ep2 = ep2
    NoDevice = NoDevice
    Closed = Closed
    Callers <- OneCaller
    Devices <- TwoDevices
    Endpoints <- TwoEndpoints
    MaxRetries = 2
    Ops <- AllOps
    Outcomes <- AllOutcomes
SPECIFICATION FairSpec
INVARIANT EngineSettled
PROPERTIES UpHasDevice StopReturns DeadPeerFails
