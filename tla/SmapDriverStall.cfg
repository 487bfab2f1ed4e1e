SPECIFICATION Spec
CONSTANTS
    SMAP_BD_MAX_ENTRY = 2
    SMAP_TX_BUFSIZE = 16
    U8 = 4
    PacketLength <- Three
    DmaBlock = 8
    MaxRx = 1
    MaxFlaps = 0
    MaxErrors = 0
    TcpipFirst = TRUE
    PhyKinds = {FALSE}
INVARIANT
    FramesToSendArmed
