\* Three requests of one client for two slots, with one rotation of two keys.
CONSTANTS
    MaxRequests = 3
    Clients = {c1}
    Keys = {k1, k2}
    Limit = 1
    Window = 1
    Slots = 2
    RequestTimeout = 2
    CacheTTL = 1
    LastArrival = 1
    MaxRotations = 1
SPECIFICATION FairSpec
\* All requests are answered at the end.
CHECK_DEADLOCK FALSE
INVARIANTS
    GatewayTypeOK
    SlotsAccounted
    RateExact
    PublishedKeyAccepted
    WithdrawnKeyExpires
PROPERTIES
    RequestsEnd
