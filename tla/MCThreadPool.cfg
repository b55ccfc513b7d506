CONSTANTS
    plain = plain
    extra = extra
    alone = alone
    later = later
    client = client
    owner = owner
    Threads = {1, 2, 3}
    Clients = {client}
    Owner = owner
    NoMsg = NoMsg
    Messages = {plain, extra, alone, later}
    Priority <- MCPriority
    Grouping <- MCGrouping
    Delay <- MCDelay
    MinThreads = 0
    MaxThreads = 2
    RangeMax = 2
    QueueRangeMin = 0
    QueueRangeMax = 0
    MaxQueueSize = 1
    Scenarios <- MCScenarios
SPECIFICATION FairPoolSpec
CHECK_DEADLOCK FALSE
INVARIANTS
    GroupExclusion
    NothingLost
    ServiceThread
    NoWorkAfterTerminate
PROPERTIES
    MessageServiced
    TerminateReturns
