CONSTANTS
    readThread = readThread
    msgEvent = msgEvent
    ReadThread = readThread
    MsgEvent = msgEvent
    Producers = {readThread}
    Readers = {msgEvent}
    Items <- MCItems
    MaxQueueSize = 1
    MaxAborts = 2
    NumChunks = 4
    CreateMayFail = TRUE
SPECIFICATION FairStreamSpec
CHECK_DEADLOCK FALSE
INVARIANTS
    QueueBound
    NoLostWakeup
    SuccessIsReal
PROPERTIES
    DownloadsInOrder
    S3ReadReturns
