SPECIFICATION Spec
CONSTANTS
    Proc = {p1, p2}
    Attempts = 2
    MaxVersion = 1
    MaxChanges = 2
    MaxCommits = 1
    MaxConn = 1
SYMMETRY Symmetry
INVARIANTS TypeOK NeverStale KeyNamesContent
PROPERTY ImplementsLiveRead
CHECK_DEADLOCK FALSE
