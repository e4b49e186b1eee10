\* One client, and everything that can fail: AddPeer, RemovePeer, the
\* database, the process; sessions may end before their tokens.
SPECIFICATION FairSpec
CONSTANTS
    Handlers <- OneHandler
    Requests <- OneRequest
    Size = 8
    MaxClients = 1
    Capped = TRUE
    Rollbacks = TRUE
    Persist = TRUE
    Faults = TRUE
    Restarts = 1
    None = None
    h1 = h1
    h2 = h2
    t1 = t1
    t2 = t2
    k1 = k1
INVARIANTS SessionsAccounted RestoredKept
PROPERTY LeasesDrain
