SPECIFICATION Spec
CONSTANTS
    Proc = {p1, p2}
    User = User
    Commands <- Pairs
    Entries = 2
    MaxGone = 1
SYMMETRY Symmetry
INVARIANTS TypeOK NoSecondCopy CopiesAccountedFor SuccessMeansDone
CHECK_DEADLOCK FALSE
