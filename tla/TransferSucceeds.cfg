SPECIFICATION FairSpec
CONSTANTS
    NumFiles = 2
    Size <- LongThenEmpty
    TotalBytes = 2
    Buffer = 2
    CancelAfter = 0
    MaxRequests = 1
    Faults = {"net", "cleanup", "auth"}
INVARIANTS
    SucceedsUnlessDisturbed
PROPERTIES
    TransferSucceeds
