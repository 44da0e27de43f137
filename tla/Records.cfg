SPECIFICATION Spec
CONSTANTS
    Callers = {c1, c2}
    Requests = {c1, c2, c3}
    Readers = {c3}
    NonAdmins = {c3}
    Users = {u1, u2}
    Teams = {crew}
    Instances = {n1, n2}
    Spelled = {n2}
    Services = {gh, cf}
    Ids = {i1, i2}
    ModelIds = {m1}
    Difficulties = {d1, d2}
    Scopes = {"ann", "bob"}
    BatchOrder <- MCOrder
    MaxNow = 1
    MaxStamp = 4
    MaxIds = 3
    MaxChanges = 3
    MaxMoves = 3
    MaxAdded = 4
    MaxRecords = 2
SYMMETRY Symmetry
INVARIANTS
    TypesOK
    SummariesAreAsTold
    OnePrimaryUnlessRaced
    ServedUnlessMoved
    ListsHoldWhatWasThere
PROPERTY NothingTakenUnasked
CHECK_DEADLOCK FALSE
