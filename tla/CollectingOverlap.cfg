\* One backfill of three weeks: the third goes back over the first.
SPECIFICATION Spec
CONSTANTS
    Calls = {c1}
    Coords <- MCCoords
    Activity <- MCActivity
    Backoffs <- MCBackoffs
    PlanWeeks = 3
    MaxClock = 3
    MaxOthers = 0
INVARIANT OverlapIsAbsorbed
CHECK_DEADLOCK FALSE
