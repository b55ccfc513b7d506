CONSTANTS
    r1 = r1
    r2 = r2
    Scopes <- MCScopes
SPECIFICATION FairSpec
CHECK_DEADLOCK FALSE
INVARIANTS
    
    AnswerIsWhole
    SettingsTakeHold
    ThrottleHolds
PROPERTIES
    RequestReturns
