SPECIFICATION Spec
CONSTANTS
    MaxTransfers = 2
    MaxReports = 1
CHECK_DEADLOCK FALSE
INVARIANTS
    SendNeedsSession
