SPECIFICATION Spec
CONSTANTS
    NumSectors = 2
    MaxOps = 1
INVARIANTS
    LoadedIsWhole
