SPECIFICATION Spec
CONSTANTS
    NumFiles = 1
    Size <- OneFile
    TotalBytes = 2
    Buffer = 12
    CancelAfter = 0
    MaxRequests = 1
    Faults <- NoFaults
PROPERTIES
    CancelledNeverCompletes
