SPECIFICATION Spec
CONSTANTS
    p1 = p1
    c1 = c1
    c2 = c2
    t1 = t1
    Proc = {p1}
    Collection = {c1, c2}
    Tag = {t1}
    Field = {"title", "date"}
    Value = {"a", "b"}
    Commands <- MCCommands
    Items <- MCItems
    MaxEdits = 1
PROPERTY RestoredMeansThere
CHECK_DEADLOCK FALSE
