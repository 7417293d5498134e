CONSTANTS
    Proc <- MCProc
    NBUF = 2
    Blk = {b1, b2, b3}
    BadBlk = {b3}
    Indirect = {}
    Val = {v1, v2}
    NoBlk = NoBlk
    Unread = Unread
    SwapSectors = 2
    Calls <- DataCalls
SPECIFICATION Spec
INVARIANTS OneBufferPerBlock CleanMatchesDisk
PROPERTY ImplementsStore
