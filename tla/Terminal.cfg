SPECIFICATION Spec
CONSTANTS
    Procs = {p1, p2}
    NoProc = NoProc
    Backends = {"kbd", "uart"}
    NCLIST = 4
    CBSIZE = 2
    CANBSIZ = 2
    TTYHOG = 4
    TTHIWAT = 2
    TTLOWAT = 1
    Keys <- MCKeys
    Modes <- MCModes
    Texts <- MCTexts
    Counts = {1}
    Actions = {"catch"}
    Ticks = 2
    Signals = {9}
    MaxTyped <- MCTyped
    MaxCalls <- MCCalls
INVARIANTS TypeOK BlocksConserved DelimitersCounted InOrder
PROPERTY CallsReturn
CHECK_DEADLOCK FALSE
