CONSTANTS
    Readers = {r1}
    Writers = {w1, w2}
    PIPSIZ = 2
    MaxCount = 3
    MaxBytes = 4
SPECIFICATION Spec
INVARIANTS TypeOK InOrder EofIsTrue SleepIsJustified
PROPERTY HangupUnblocks
\* The pipe ends when every process has closed it.
CHECK_DEADLOCK FALSE
