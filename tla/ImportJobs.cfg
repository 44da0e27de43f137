SPECIFICATION FairSpec
CONSTANTS
    None = None
    Row <- ConfigRows
    Imports = {i1, i2}
    MaxFaults = 1
INVARIANTS
    TypeOK
    RecordTellsOutcome
PROPERTIES
    ReplaceLeavesOnlyLateRows
    EveryImportEnds
