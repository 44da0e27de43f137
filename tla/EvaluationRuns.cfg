SPECIFICATION FairSpec
CONSTANTS
    Execs = {e1, e2}
    None = None
    Persons = {p1}
    Windows = 2
    SlotsOf <- MCSlotsOfWindows
    MaxClock = 1
    MaxOpen = 0
    MAX_REPORTED_INCOMPLETE = 1
VIEW WithoutReports
INVARIANTS
    TypeOK
    CountsLiveRuns
    OneRunPerRunner
    NoStaleRefreshResult
    StartedAtNeverLate
PROPERTIES
    RefreshBeginsAlone
    StoppedRunsEnterNothing
    ReportsAccountForPlan
    RunsAndShutdownEnd
