SPECIFICATION Spec
CONSTANTS
    Call = {c1, c2}
    Event = {e1, e2, e3}
    MaxFaults = 2
    MaxClears = 1
SYMMETRY Renaming
INVARIANTS
    TypeOK
    RootCurrent
    VerifiedIsLogged
    LoneEventVerifies
CHECK_DEADLOCK FALSE
