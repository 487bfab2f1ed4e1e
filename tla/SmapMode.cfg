SPECIFICATION Spec
CONSTANTS
    Arguments <- Default
    Abilities <- All
    Partners <- Mixed
    U32 = 65536
    NegoRetries = 2
    MaxCalls = 3
    MaxFlaps = 1
    MaxDoubts = 1
INVARIANT
    ModeNegotiated
CHECK_DEADLOCK FALSE
