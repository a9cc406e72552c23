SPECIFICATION Spec
CONSTANTS
    root = root
    ann = ann
    Email = {root, ann}
    AdminEmail = root
    None = none
    MaxId = 3
    MaxEvents = 1
VIEW Seen
INVARIANTS
    TypeOK
    AdminsKnown
    PageKnown
PROPERTY
    OthersKept
CHECK_DEADLOCK FALSE
