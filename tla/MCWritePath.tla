---------------------------- MODULE MCWritePath ----------------------------
(* WritePath for TLC: a handful of commands on an item that can be in two  *)
(* collections and carry one tag.                                          *)
EXTENDS WritePath, TLC

CONSTANTS c1, c2, t1

Symmetry == Permutations(Proc)

\* One command of each kind, and the ones the backends treat differently.
MCCommands ==
    {[op |-> "update", fields |-> [f \in Field |-> "b"]],
     [op |-> "tag", add |-> {t1}, remove |-> {t1}],
     [op |-> "trash"], [op |-> "restore"], [op |-> "erase"],
     [op |-> "add", col |-> c1], [op |-> "remove", col |-> c2],
     [op |-> "move", col |-> c1, from |-> {}, all |-> FALSE],
     [op |-> "move", col |-> c1, from |-> {c2}, all |-> FALSE],
     [op |-> "move", col |-> c1, from |-> {}, all |-> TRUE]}

\* A tagged item in one collection and in the trash.
MCItems == [there: {TRUE}, trashed: {TRUE}, cols: {{c2}}, tags: {{t1}}, fields: [Field -> {"a"}]]
=============================================================================
