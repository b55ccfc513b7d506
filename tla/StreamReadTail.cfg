CONSTANTS
    readThread = readThread
    msgEvent = msgEvent
    ReadThread = readThread
    MsgEvent = msgEvent
    Producers = {readThread}
    Readers = {msgEvent}
    Items <- MCItems
    MaxQueueSize = 1
    MaxAborts = 2
    NumChunks = 2
    CreateMayFail = FALSE
SPECIFICATION StreamSpec
CHECK_DEADLOCK FALSE
INVARIANTS
    SuccessMeansWritten
