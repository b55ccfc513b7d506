CONSTANTS
    owner = owner
    other = other
    Callers = {owner, other}
    Owner = owner
    MaxStarts = 2
SPECIFICATION FairThreadSpec
CHECK_DEADLOCK FALSE
INVARIANTS
    AfterWaitNoWork
    NoLostTermination
    NotUsedWhenFreed
PROPERTIES
    KilledThreadEnds
    KillWaitReturns
