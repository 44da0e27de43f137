\* An export without a scope.
SPECIFICATION Spec
CONSTANTS
    Rows = {n1, n2}
    Users = {n1, n2}
    Files = {n1, n2}
    Persons = {n1, n2}
    Scopes <- MCScopes
    REFRESH_POLL_MAX_FAILURES = 2
    MaxClicks <- MCClicks
    MaxLists <- MCLists
    MaxEvents = 3
    MaxLoads = 2
    MaxWrites = 3
    MaxNow = 3
    MaxJobs = 1
    MaxIds = 2
    MaxReads = 2
    MaxAsked = 3
    MaxRuns = 3
    MaxChanges = 3
INVARIANT NoScopeIsServersDefault
CHECK_DEADLOCK FALSE
