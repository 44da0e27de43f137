SPECIFICATION Spec
CONSTANTS
    None = None
    Row <- MovedRows
    Imports = {i1}
    MaxFaults = 0
PROPERTY MergeKeepsRows
