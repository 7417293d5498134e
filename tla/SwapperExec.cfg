CONSTANTS
    NPROC = 3
    PSIZE = 2
    SSIZE = 2
    CoreSize = 4
    SwapSize = 4
    TimeMax = 3
    DSIZE = 1
SPECIFICATION SpecExec
INVARIANT CoreOwnedAfterExec
