SPECIFICATION FairSpec
CONSTANTS
    p1 = p1
    p2 = p2
    Proc = {p1, p2}
    ItemCount = 2
    Commands <- MCCommands
    Touched <- MCTouched
    Unread = Unread
INVARIANTS TypeOK CompletedHadPdf NothingIsTriedTwice NeverASecondPdf
PROPERTY RunsEnd
CHECK_DEADLOCK FALSE
