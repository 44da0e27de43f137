\* Two calls at a time, of every kind, on two coordinates.
SPECIFICATION FairSpec
CONSTANTS
    Calls = {c1, c2}
    Keys = {1, 2}
    Requests <- MCRequests
    Groups <- MCGroups
    Nobody = Nobody
    MaxTickets = 3
INVARIANTS
    TypeOK
    ReadBackFailsOnlyAfterRace
PROPERTIES
    ImplementsMap
    RowsSurviveEvaluation
    EveryCallAnswers
CHECK_DEADLOCK FALSE
