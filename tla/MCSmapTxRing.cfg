SPECIFICATION Spec
CONSTANTS
    SMAP_BD_MAX_ENTRY = 4
    SMAP_TX_BUFSIZE = 20
    U8 = 8
    Lengths <- MCLengths
    MaxFrames = 10
INVARIANTS
    TypeOK
    IndicesAgree
    ReadyExact
    StreamOrder
    FramesIntact
    SpaceConserved
CHECK_DEADLOCK FALSE
