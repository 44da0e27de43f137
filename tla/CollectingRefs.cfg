\* One collection of two pull requests with one number.
SPECIFICATION Spec
CONSTANTS
    Calls = {c1, c2}
    Coords <- MCCoords
    Activity <- MCActivity
    Backoffs <- MCBackoffs
    PlanWeeks = 2
    MaxClock = 3
    MaxOthers = 0
INVARIANT DistinctActivitiesAreStored
CHECK_DEADLOCK FALSE
