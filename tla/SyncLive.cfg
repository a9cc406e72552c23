SPECIFICATION FairSpec
CONSTANTS
    d1 = d1
    d2 = d2
    e1 = e1
    e2 = e2
    e3 = e3
    Device = {d1}
    Server = server
    Slot = {s1, s2}
    Event = {e1, e2}
    Home <- AdminWrites
    Flags = {}
    Settles <- NoneSettles
    NoEvent = noEvent
    NoSlot = noSlot
    ChunkSize = 1
    PageSize = 1
    MaxAttempts = 2
    FaultKinds = {"net", "auth", "device", "server", "crash"}
    MaxFaults = 2
    MaxClock = 2
INVARIANTS
    TypeOK
    AppliedOnce
    MarkedIsStored
PROPERTIES
    SyncEnds
    UploadsArrive
    DownloadsArrive
