\* A device that pulls one page, nothing failing, and submits nothing itself.
SPECIFICATION Spec
CONSTANTS
    user = user
    sync = sync
    family = family
    branch = branch
    ann = ann
    bob = bob
    f1 = f1
    f2 = f2
    f3 = f3
    f4 = f4
    f5 = f5
    f6 = f6
    f7 = f7
    f8 = f8
    f9 = f9
    g1 = g1
    g2 = g2
    g3 = g3
    g4 = g4
    g5 = g5
    g6 = g6
    g7 = g7
    Absent = Absent
    NoForm = NoForm
    Caller = {sync}
    Entity = {ann}
    Groups = {}
    Form <- PageForms
    By <- PageBy
    Type <- PageType
    Target <- PageTarget
    Others <- PageOthers
    Stamp <- PageStamp
    Remote <- PageForms
    Sent <- WholePage
    Alike <- PageAlike
    OneOfEach = TRUE
    MaxDepth = 4
    MaxFaults = 0
    MaxClock = 3
INVARIANT LatestWins
CHECK_DEADLOCK FALSE
