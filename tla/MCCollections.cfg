SPECIFICATION Spec
CONSTANTS
    p1 = p1
    p2 = p2
    a = a
    b = b
    n1 = n1
    n2 = n2
    x = x
    y = y
    i1 = i1
    Proc = {p1, p2}
    Coll = {a, b, n1, n2}
    Name = {x, y}
    Item = {i1}
    Top = Top
    Keep = Keep
    Nobody = Nobody
    Commands <- MCCommands
    Trees <- MCTrees
    MaxEdits = 1
SYMMETRY Symmetry
INVARIANTS TypeOK NoSecondSibling AppliedMeansDone
PROPERTY ImplementsAtomicCollections
CHECK_DEADLOCK FALSE
