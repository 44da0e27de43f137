SPECIFICATION Spec
CONSTANTS
    None = None
    Row <- ConfigRows
    Imports = {i1}
    MaxFaults = 0
INVARIANT ExportCanBeRestored
