CONSTANTS
    Proc <- MCProc
    NBUF = 2
    Blk = {b1, b2, b3}
    BadBlk = {b3}
    Indirect = {b2}
    Val = {v1}
    NoBlk = NoBlk
    Unread = Unread
    SwapSectors = 2
    Calls <- WaitCalls
SPECIFICATION Spec
INVARIANTS TypeOK AvailIffNotBusy QueueSound Exclusive
PROPERTY SleepersWake
CHECK_DEADLOCK FALSE
