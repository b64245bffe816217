SPECIFICATION FairSpec
CONSTANTS
    NumFiles = 2
    Size <- LongThenEmpty
    TotalBytes = 2
    Buffer = 2
    CancelAfter = 3
    MaxRequests = 2
    Faults = {"cleanup", "net", "source", "timeout"}
PROPERTIES
    CancelStopsTheStream
    TransferEnds
    ClientEnds
    ContractHonoured
