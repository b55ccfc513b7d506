CONSTANTS
    caller = caller
    sendEvent = sendEvent
    Caller = caller
    SendEvent = sendEvent
    Producers = {caller}
    Readers = {sendEvent}
    Items <- Entries
    MaxQueueSize = 1
    MaxAborts = 5
    FileSizes = {0, 1, 5}
    BufSize = 2
    ChunkSize = 3
    MaxWriteRequest = 1
    MaxChanges = 1
SPECIFICATION FairWriteSpec
CHECK_DEADLOCK FALSE
INVARIANTS
    SuccessMeansStored
PROPERTIES
    UploadsInOrder
    S3WriteReturns
