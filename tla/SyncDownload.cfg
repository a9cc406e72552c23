SPECIFICATION Spec
CONSTANTS
    d1 = d1
    d2 = d2
    e1 = e1
    e2 = e2
    e3 = e3
    Device = {d1, d2}
    Server = server
    Slot = {s1}
    Event = {e1, e2}
    Home <- OneWriter
    Flags = {e1}
    Settles <- LastSettles
    NoEvent = noEvent
    NoSlot = noSlot
    ChunkSize = 1
    PageSize = 1
    MaxAttempts = 1
    FaultKinds = {"net", "auth", "device", "server", "crash"}
    MaxFaults = 1
    MaxClock = 2
INVARIANTS
    UploadGapsKnown
    DownloadGapsKnown
    AppliedGapsKnown
PROPERTY
    ReplicatesLog
