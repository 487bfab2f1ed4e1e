SPECIFICATION Spec
CONSTANTS
    h1 = h1
    h2 = h2
    h3 = h3
    Hosts = {h1, h2, h3}
    Gateway = h1
    ARP_TABLE_SIZE = 2
    outranks = "none"
    WireFrames <- Some
    Nothing = Nothing
    Nobody = Nobody
INVARIANTS
    TypeOK
    FrameToOwner
    BufferHeld
    UniqueEntries
PROPERTIES
    PendingKept
    SenderReturns
CHECK_DEADLOCK FALSE
