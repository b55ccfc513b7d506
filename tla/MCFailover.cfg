CONSTANTS
    r1 = r1
    r2 = r2
    a = a
    b = b
    c = c
    Scopes <- MCScopes
SPECIFICATION FairSpec
CHECK_DEADLOCK FALSE
INVARIANTS
    NeverResent
    AloneFindsAddress
    SomeIPUsable
PROPERTIES
    RequestEnds
