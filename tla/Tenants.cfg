SPECIFICATION Spec
CONSTANTS
    Tenant = {t1}
    Req = {r1, r2}
    Nobody = nobody
    NoConfig = noConfig
    NoInstance = noInstance
    Error = error
    MaxUploads = 3
    MaxPushes = 1
    MaxFaults = 1
CONSTRAINT Sparse
SYMMETRY Renaming
INVARIANTS
    TypeOK
    InstanceIsOfConfig
    FilesKnown
    PushesKept
    EditsKept
CHECK_DEADLOCK FALSE
