SPECIFICATION FairSpec
CONSTANTS
    SMAP_BD_MAX_ENTRY = 2
    SMAP_TX_BUFSIZE = 16
    U8 = 4
    PacketLength <- One
    DmaBlock = 8
    MaxRx = 1
    MaxFlaps = 2
    MaxErrors = 0
    TcpipFirst = TRUE
    PhyKinds = {TRUE, FALSE}
INVARIANT
    StackToldOfLink
PROPERTIES
    RxServed
    TxReaped
    InterruptsComeBack
    LinkLossNoticed
    LinkReturnNoticed
CHECK_DEADLOCK FALSE
