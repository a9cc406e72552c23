\* A server whose forms come one after the other, or the user and the download loop
\* of a device, with one failing call.
SPECIFICATION FairSpec
CONSTANTS
    user = user
    sync = sync
    family = family
    branch = branch
    ann = ann
    bob = bob
    f1 = f1
    f2 = f2
    f3 = f3
    f4 = f4
    f5 = f5
    f6 = f6
    f7 = f7
    f8 = f8
    f9 = f9
    g1 = g1
    g2 = g2
    g3 = g3
    g4 = g4
    g5 = g5
    g6 = g6
    g7 = g7
    Absent = Absent
    NoForm = NoForm
    Caller = {user, sync}
    Entity = {family, branch, ann, bob}
    Groups = {family, branch}
    Form <- AllForms
    By <- AllBy
    Type <- AllType
    Target <- AllTarget
    Others <- AllOthers
    Stamp <- AllStamp
    Remote = {f9, g4, g5, g6, g7}
    Sent <- ServerOrDevice
    Alike <- AllAlike
    OneOfEach = TRUE
    MaxDepth = 4
    MaxFaults = 1
    MaxClock = 1
INVARIANTS TypeOK InitialBehind NeverSettled MergedIsLogged
PROPERTIES MembersGoFirst MembersKept CallsEnd
CHECK_DEADLOCK FALSE
