SPECIFICATION Spec
CONSTANTS
    p1 = p1
    p2 = p2
    Proc = {p1, p2}
    Nobody = Nobody
    KeyCount = 4
    Blank = {2}
    Versions = 2
    BatchSize = 2
SYMMETRY Symmetry
INVARIANTS TypeOK BothRowsOrNone IndexedIsStored
CHECK_DEADLOCK FALSE
