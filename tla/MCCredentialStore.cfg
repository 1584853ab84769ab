SPECIFICATION Spec
CONSTANTS
    Proc = {p1, p2}
    Server = {s1, s2}
    MaxKeys = 3
SYMMETRY Symmetry
INVARIANTS TypeOK KeysStayWithTheirServer
PROPERTY AcceptedKeysAreKept
CHECK_DEADLOCK FALSE
