SPECIFICATION FairSpec
CONSTANTS
    MaxStarts = 2
    ServiceFaults = {"spawn", "bind"}
    MayBeLate <- LateServer
CHECK_DEADLOCK FALSE
INVARIANTS
    FlagsAgree
    OneGeneration
    SocketsReachable
PROPERTIES
    CallsReturn
    AllThreadsEnd
