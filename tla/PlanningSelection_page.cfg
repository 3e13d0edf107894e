\* Two records, two versions and one place: every order of clicks, answers, renders and effects.
SPECIFICATION Spec
\* What the user does is counted up to its bound.
CHECK_DEADLOCK FALSE
CONSTANTS
    a = a
    b = b
    a1 = a1
    a2 = a2
    Record = {a, b}
    Version = {a1, a2}
    VersionsOf <- MCVersionsOf
    Published = {a2}
    Place = {here}
    None = None
    MaxActs = 4
    MaxCompares = 1
INVARIANTS
    TypeOK
    ShowsOneSelection
    LastPlaceWins
PROPERTIES
    EveryPickIsAnswered
