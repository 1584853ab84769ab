SPECIFICATION Spec
CONSTANTS
    p1 = p1
    p2 = p2
    c1 = c1
    c2 = c2
    t1 = t1
    Proc = {p1, p2}
    Collection = {c1, c2}
    Tag = {t1}
    Field = {"title", "date"}
    Value = {"a", "b"}
    Commands <- MCCommands
    Items <- MCItems
    MaxEdits = 1
SYMMETRY Symmetry
INVARIANTS TypeOK ErasedMeansGone
PROPERTIES ImplementsAtomicWrites OnlyNamedCollectionsAreLeft DropsAreNoticed
CHECK_DEADLOCK FALSE
