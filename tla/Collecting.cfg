\* Requests and backfills of one person over three weeks.
SPECIFICATION Spec
CONSTANTS
    Calls = {c1, c2}
    Coords <- MCCoords
    Activity <- MCActivity
    Backoffs <- MCBackoffs
    PlanWeeks = 2
    MaxClock = 3
    MaxOthers = 1
SYMMETRY Symmetry
INVARIANTS
    TypeOK
    NothingLost
    DoneMeansDone
CHECK_DEADLOCK FALSE
