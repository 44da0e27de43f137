\* The web page, the downloads and the functions, one scene at a time.
SPECIFICATION PagesAndFunctions
CONSTANTS
    Rows = {n1, n2}
    Users = {n1, n2}
    Files = {n1, n2}
    Persons = {n1, n2}
    Scopes <- MCScopes
    REFRESH_POLL_MAX_FAILURES = 2
    MaxClicks <- MCClicks
    MaxLists <- MCLists
    MaxEvents = 3
    MaxLoads = 2
    MaxWrites = 3
    MaxNow = 3
    MaxJobs = 1
    MaxIds = 2
    MaxReads = 2
    MaxAsked = 4
    MaxRuns = 3
    MaxChanges = 3
SYMMETRY Symmetry
INVARIANTS
    TypesOK
    ShownIsOfSelection
    InFlightIsAsShown
    ShellIsOfSession
    DumpsAreOfTheirTime
    PeriodsTileTime
    RunsOnlyWhatIsOwed
    ResendingCompletesDump
    CompleteIsComplete
    ScoresAreOfTheWork
    TransfersAreAsAnnounced
    PageAndServerAgree
PROPERTY NothingHappensUnasked
CHECK_DEADLOCK FALSE
