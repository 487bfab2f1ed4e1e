SPECIFICATION Spec
CONSTANTS
    SMAP_BD_MAX_ENTRY = 2
    SMAP_TX_BUFSIZE = 16
    U8 = 4
    PacketLength <- Two
    DmaBlock = 8
    MaxRx = 0
    MaxFlaps = 1
    MaxErrors = 0
    TcpipFirst = TRUE
    PhyKinds = {FALSE}
PROPERTY
    NoLinkEmptiesQueue
