CONSTANTS
    NPROC = 3
    PSIZE = 1
    SSIZE = 2
    CoreSize = 1
    SwapSize = 6
    TimeMax = 3
SPECIFICATION Spec
INVARIANTS CoreOwned ParentStays
