SPECIFICATION Spec
CONSTANTS
    SMAP_BD_MAX_ENTRY = 2
    SMAP_TX_BUFSIZE = 16
    U8 = 4
    PacketLength <- Three
    DmaBlock = 8
    MaxRx = 0
    MaxFlaps = 1
    MaxErrors = 1
    TcpipFirst = TRUE
    PhyKinds = {FALSE}
INVARIANTS
    TypeOK
    InFlightArmed
    PacketHeld
PROPERTY
    KeepsOrder
