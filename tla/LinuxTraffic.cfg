SPECIFICATION FairSpec
CONSTANTS
    t1 = t1
    t2 = t2
    Threads <- TwoThreads
    SMAP_TXMAXSIZE = 8
    TIMEOUT = 2
    PacketLength <- Four
    SMAP_TXBUFSIZE = 12
    SMAP_BD_MAX_ENTRY = 3
    MAX_REQ_CNT = 1
    MaxEvents = 1
INVARIANTS
    TypeOK
    RingAccounts
    RefsBalanced
    SleeperRegistered
    TimerNotSilenced
    CompletionsFlagged
PROPERTIES
    KeepsOrder
    SenderServed
    QueueDrains
CHECK_DEADLOCK FALSE
