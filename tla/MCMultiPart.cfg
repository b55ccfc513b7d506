CONSTANTS
    Cases <- MCCases
    PartSize = 2
    MinPartSize = 2
    MaxParts = 3
    Ahead = 1
    MaxQueueSize = 1
    MaxRetries = 1
    FileMayShrink = TRUE
SPECIFICATION FairUploadSpec
CHECK_DEADLOCK FALSE
INVARIANTS
    ObjectIntact
    OneUploadPerPart
    UploadClosed
PROPERTIES
    UploadReturns
