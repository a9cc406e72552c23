SPECIFICATION Spec
CONSTANTS
    App = {a1, a2}
    Slot = {t1, t2}
    None = none
    OidcFirst = TRUE
    MaxSyncs = 2
    MaxFaults = 1
SYMMETRY Renaming
INVARIANTS
    TypeOK
    FormsKnown
    SyncsKnown
    TokenKnown
