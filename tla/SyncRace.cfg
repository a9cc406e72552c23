SPECIFICATION Spec
CONSTANTS
    d1 = d1
    d2 = d2
    e1 = e1
    e2 = e2
    e3 = e3
    Device = {d1}
    Server = server
    Slot = {s1}
    Event = {e1, e2}
    Home <- OneWriter
    Flags = {}
    Settles <- NoneSettles
    NoEvent = noEvent
    NoSlot = noSlot
    ChunkSize = 1
    PageSize = 1
    MaxAttempts = 1
    FaultKinds = {}
    MaxFaults = 0
    MaxClock = 2
INVARIANTS
    UploadsAllUnsynced
