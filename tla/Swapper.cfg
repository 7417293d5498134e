CONSTANTS
    NPROC = 3
    PSIZE = 1
    SSIZE = 2
    CoreSize = 2
    SwapSize = 4
    TimeMax = 3
SPECIFICATION Spec
INVARIANTS TypeOK CoreOwned SwapOwned ReadyIsNoticed
