SPECIFICATION Spec
CONSTANTS
    AddrBits = 3
    DataBits = 3
    Contents <- Eeproms
    SMAP_AUTONEGO_RETRY = 2
    MaxFlaps = 2
INVARIANTS
    TypeOK
    NodeAddressRead
    StartsSound
PROPERTY
    Finishes
CHECK_DEADLOCK FALSE
