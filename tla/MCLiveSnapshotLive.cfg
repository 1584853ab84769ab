SPECIFICATION FairSpec
CONSTANTS
    Proc = {p1, p2}
    Attempts = 2
    MaxVersion = 1
    MaxChanges = 2
    MaxCommits = 1
    MaxConn = 0
PROPERTY EventuallyAnswered
CHECK_DEADLOCK FALSE
