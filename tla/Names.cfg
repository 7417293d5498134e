SPECIFICATION Spec
CONSTANTS
    Procs = {p1, p2}
    NoProc = NoProc
    NINODE = 3
    NFILE = 2
    NOFILE = 2
    NI = 4
    NICINOD = 1
    DirInos = {1, 3}
    Tree <- MCTree
    Calls <- MCCalls
    MaxLinks = 2
    NEXEC = 1
    MaxCalls = 3
INVARIANTS TypeOK UniqueInode CountIsReferences NamedInodesLive DescriptorsCounted
PROPERTY CallsReturn
CHECK_DEADLOCK FALSE
