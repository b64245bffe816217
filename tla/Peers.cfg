SPECIFICATION FairSpec
CONSTANTS
    p1 = p1
    me = me
    Ids = {me, p1}
    Self = me
    Interval = 5
    Drift = 1
    Delay = 3
    MaxLoss = 1
    Expiry = 15
    RefreshPeriod = 3
    Duplicated = TRUE
    ClockSteps <- SuspendedMachine
    MaxJumps = 1
INVARIANTS
    AlivePeerNotOffline
    GonePeerNotOnline
PROPERTIES
    ContractSpec
    AlivePeerStaysOnline
    GonePeerStaysOffline
