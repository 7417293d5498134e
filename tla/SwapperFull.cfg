CONSTANTS
    NPROC = 4
    PSIZE = 1
    SSIZE = 2
    CoreSize = 2
    SwapSize = 4
    TimeMax = 3
    DSIZE = 1
SPECIFICATION SpecFull
INVARIANT CoreOwned
