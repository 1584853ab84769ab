--------------------------- MODULE MCCollections ---------------------------
(* Two invocations and a user on a collection `a` with a subcollection `b`. *)
EXTENDS Collections, TLC

CONSTANTS p1, p2, a, b, n1, n2, x, y, i1

MCTrees ==
    LET node(s, n, u) == [state |-> s, name |-> n, up |-> u] IN
    {[c \in {a, b, n1, n2} |->
        CASE c = a -> node("live", x, Top)
          [] c = b -> node(s, y, a)
          [] OTHER -> node("unused", x, Top)] : s \in {"live", "trashed"}}

MCCmd ==
    {[op |-> "create", name |-> y, parent |-> a],
     [op |-> "create", name |-> x, parent |-> Top],
     [op |-> "create", name |-> x, parent |-> b],
     [op |-> "rename", col |-> b, name |-> x, parent |-> Keep],
     [op |-> "rename", col |-> a, name |-> Keep, parent |-> b],
     [op |-> "restore", col |-> a, items |-> FALSE]}
    \cup [op: {"trash", "erase"}, col: {a}, items: BOOLEAN]
    \cup {[op |-> "trash", col |-> b, items |-> FALSE]}

MCCommands == [{p1, p2} -> MCCmd]

Symmetry == Permutations({p1, p2})
=============================================================================
