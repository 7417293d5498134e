CONSTANTS
    Procs = {p1, p2}
    Proto <- MCProto
    Transfers <- MCTransfers
    FSize = 12
    ISize = 1
    BSIZE = 3
    NADDR = 2
    NICFREE = 2
    f_n = 3
    f_m = 2
    MaxBn = 3
    MaxCalls = 3
SPECIFICATION Spec
INVARIANTS TypeOK OwnedOnce ContentsKept SuperBlockHonest
PROPERTY CallsReturn
CHECK_DEADLOCK FALSE
