SPECIFICATION Spec
CONSTANTS
    Proc = {p1, p2}
    Needs = {"script", "connector", "api", "apiwrite", "bridge", "write"}
    MaxChanges = 2
SYMMETRY Symmetry
INVARIANTS TypeOK ReadyMeansUsable
PROPERTY NeverBesideAnAnswering
CHECK_DEADLOCK FALSE
