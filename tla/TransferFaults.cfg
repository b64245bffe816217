SPECIFICATION Spec
CONSTANTS
    NumFiles = 2
    Size <- OneChunkEach
    TotalBytes = 2
    Buffer = 12
    CancelAfter = 0
    MaxRequests = 1
    Faults <- AllFaults
INVARIANTS
    CompletedMeansDelivered
    ReceiverCompletesWholeJobs
    OneOutcomeReported
    ResultMatchesReport
    NothingLeftBehind
    StreamWellFormed
PROPERTIES
    ContractKept
    IncomingOutcomeFinal
    OutgoingFinalUnlessRaced
    VerifiedFilesKept
