SPECIFICATION Spec
CONSTANTS
    Callers <- TwoCallers
    Sessions <- TwoSessions
    Unit = 3
    Deposits = {1, 4}
    Prices = {0, 2, 5}
    FreeTTL = 1
    DefaultTTL = 1
    Grace = 1
    Balance = 2
    MaxTokens = 2
    MaxTime = 3
    Settlers <- TwoCallers
    Route <- TwoHops
    HourPrice <- OneEach
    Deposit = {1, 2}
    MaxReceipts = 2
    Addrs <- Forms
    normalizeIP <- OneKey
    Classes <- BothClasses
    Burst <- SmallBurst
    Window <- SmallWindow
    Pubkeys = {p1}
    Reporters <- TwoCallers
    Tools <- TwoTools
    Threshold = 2
    Nothing = Nothing
    Torn = Torn
    MaxAttempts = 3
    MaxClock = 3
    MaxComplaints = 3
    MaxTools = 2
    c1 = c1
    c2 = c2
    s1 = s1
    s2 = s2
    t1 = t1
    t2 = t2
SYMMETRY Interchangeable
CHECK_DEADLOCK FALSE
INVARIANTS TimeIsPaidFor SettledUpToVerdict RateBound OperatorEditsHold TriggerFires
PROPERTY VerdictsFinal
