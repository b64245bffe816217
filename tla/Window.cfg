SPECIFICATION FairSpec
CONSTANTS
    MaxTransfers = 2
    MaxReports = 1
CHECK_DEADLOCK FALSE
INVARIANTS
    OneTransferAtATime
    SlotIsOwn
    CancelReachesAsked
    ButtonsTellTruth
    PanelTellsTruth
PROPERTIES
    EveryWorkerIsCleanedUp
    CrashesExplained
