SPECIFICATION Spec
CONSTANTS
    Arguments <- Lists
    Abilities <- All
    Partners <- Ends
    U32 = 65536
    NegoRetries = 2
    MaxCalls = 3
    MaxFlaps = 1
    MaxDoubts = 1
INVARIANT
    TypeOK
    LastCallWins
    StackAgrees
PROPERTY
    StopAnswered
    StartHonoured
CHECK_DEADLOCK FALSE
