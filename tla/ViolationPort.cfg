SPECIFICATION FairSpec
CONSTANTS
    MaxStarts = 1
    ServiceFaults = {"bind"}
    MayBeLate <- NoneLate
CHECK_DEADLOCK FALSE
PROPERTIES
    FailureIsTold
