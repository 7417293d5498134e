CONSTANTS
    Readers = {r1, r2}
    Writers = {w1}
    PIPSIZ = 2
    MaxCount = 2
    MaxBytes = 2
SPECIFICATION Spec
INVARIANT LockExcludes
CHECK_DEADLOCK FALSE
