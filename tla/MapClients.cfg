CONSTANTS
    Base = 1
    Extent = 7
    Sizes = {1, 2, 3}
SPECIFICATION Spec
INVARIANTS TypeOK Conserved Sorted FailsOnlyWhenFull EntriesBounded
