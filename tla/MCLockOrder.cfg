CONSTANTS
    t1 = t1
    t2 = t2
    t3 = t3
    Pool = Pool
    MsgQueue = MsgQueue
    Threads = {t1, t2, t3}
    Locks = {Pool, MsgQueue}
    MaxDepth = 3
    Rank <- MCRank
    MaxRank = 2
SYMMETRY Symmetry
SPECIFICATION OrderedSpec
INVARIANTS
    NoDeadlock
    MutualExclusion
