SPECIFICATION SessionSpec
CONSTANTS
    Invocation = {p1, p2, p3}
    Field = {"library", "item"}
    Uses <- MCUses
    Value = {"a"}
    Null = Null
    Limit = 1
SYMMETRY Symmetry
INVARIANTS SessionTypeOK
PROPERTY ImplementsAtomicSession
CHECK_DEADLOCK FALSE
