SPECIFICATION Spec
CONSTANTS
    NumFiles = 1
    Size <- OneFile
    TotalBytes = 2
    Buffer = 12
    CancelAfter = 0
    MaxRequests = 0
    Faults = {"disk"}
INVARIANTS
    ReceiverIsInformed
