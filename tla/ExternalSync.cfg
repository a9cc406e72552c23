SPECIFICATION Spec
CONSTANTS
    apg = apg
    house = house
    child = child
    group = group
    person = person
    Kinds = {"openfn", "openspp"}
    Request = {q1, q2}
    Root = {apg}
    Household = {house}
    Individual = {child}
    Parent <- Family
    Groups = {group}
    Persons = {person}
    NoEvent = noEvent
    Before = {apg, house}
    BatchSize = 1
    DayLength = 1
    MaxFaults = 1
    MaxClock = 2
INVARIANTS
    TypeOK
    PushGapsKnown
    PullGapsKnown
    SentOnce
    OneEntityEach
    CursorKept
