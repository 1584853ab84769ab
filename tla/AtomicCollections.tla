------------------------- MODULE AtomicCollections -------------------------
(***************************************************************************)
(* What the collection commands promise, whichever backend carries them: a *)
(* command takes effect at most once, in one step, on the collections as   *)
(* they are at that moment; only an erasure with its items takes two, and  *)
(* may end between them.  It is answered once.  "applied", or that it was  *)
(* and looks different, is answered only if it took effect; "refused",     *)
(* only if it did not and never will; "existed", if what was to be created *)
(* is there and nothing will be; an error, if no effect is still to come.  *)
(* After "unknown", or no answer, it may still take effect.                *)
(***************************************************************************)
EXTENDS Naturals

CONSTANTS Proc, Coll, Name, Item, Top, Keep, Commands

VARIABLES
    tree,        \* the collections
    items,       \* whether each item is live, in the trash or erased
    filed,       \* the collections an item is in
    cmd,         \* the command each process carries out
    status,      \* "idle", "open", "half", "landed", "broken" after the first
                 \* half, or "closed": it will never take effect
    hit,         \* the collections and items it took effect on
    answer

vars == <<tree, items, filed, cmd, status, hit, answer>>

Node == [state: {"unused", "live", "trashed", "erased"}, name: Name, up: Coll \cup {Top}]

There(c) == tree[c].state \in {"live", "trashed"}

\* A collection that is there, and all those below it.
Below(c) ==
    {d \in Coll : \A S \in SUBSET (Coll \ {d}) :
        c \in S => \E e \in Coll \ S : There(e) /\ tree[e].up \in S}

\* The items in any of them.
Within(S) == {i \in Item : items[i] # "erased" /\ filed[i] \cap S # {}}

Set(S, s) == tree' = [c \in Coll |-> IF c \in S THEN [tree[c] EXCEPT !.state = s] ELSE tree[c]]
Mark(S, s) == items' = [i \in Item |-> IF i \in S THEN s ELSE items[i]]

Init ==
    /\ tree \in [Coll -> Node]
    /\ items \in [Item -> {"live", "trashed", "erased"}]
    /\ filed \in [Item -> SUBSET Coll]
    /\ cmd \in Commands
    /\ status = [p \in Proc |-> "idle"]
    /\ hit = [p \in Proc |-> {}]
    /\ answer = [p \in Proc |-> "none"]

\* Somebody else trashes, restores, erases or files; what is erased never
\* comes back, and no collection is renamed or moved.
Edit ==
    /\ UNCHANGED <<cmd, status, hit, answer>>
    /\ \/ UNCHANGED tree
       \/ /\ tree' \in [Coll -> Node]
          /\ \A c \in Coll :
                IF There(c) THEN /\ tree'[c].state # "unused"
                                 /\ tree'[c].name = tree[c].name /\ tree'[c].up = tree[c].up
                ELSE tree'[c] = tree[c]
    /\ \/ UNCHANGED <<items, filed>>
       \/ /\ items' \in [Item -> {"live", "trashed", "erased"}]
          /\ \A i \in Item : items[i] = "erased" => items'[i] = "erased"
          /\ filed' \in [Item -> SUBSET Coll]

Issue(p) ==
    /\ status[p] = "idle"
    /\ status' = [status EXCEPT ![p] = "open"]
    /\ UNCHANGED <<tree, items, filed, cmd, hit, answer>>

-----------------------------------------------------------------------------
(* The effects of a command.                                               *)

Touches(p, S) ==
    /\ hit' = [hit EXCEPT ![p] = S]
    /\ status' = [status EXCEPT ![p] =
                     IF cmd[p].op = "erase" /\ S \cap Item # {} THEN "half" ELSE "landed"]

\* In the parent named, or at the top if there is none or it is gone.
Create(p) ==
    /\ cmd[p].op = "create"
    /\ \E c \in Coll :
          /\ tree[c].state = "unused"
          /\ Touches(p, {c})
          /\ tree' = [tree EXCEPT ![c] =
                [state |-> "live", name |-> cmd[p].name,
                 up |-> IF cmd[p].parent # Top /\ There(cmd[p].parent) THEN cmd[p].parent
                        ELSE Top]]
    /\ UNCHANGED items

\* Never below itself; a parent that is gone moves nothing.
Rename(p) ==
    LET c == cmd[p].col
        moves == cmd[p].parent # Keep /\ There(cmd[p].parent)
    IN  /\ cmd[p].op = "rename" /\ There(c)
        /\ Touches(p, {c})
        /\ moves => cmd[p].parent \notin Below(c)
        /\ tree' = [tree EXCEPT ![c] =
              [state |-> tree[c].state,
               name |-> IF cmd[p].name = Keep THEN tree[c].name ELSE cmd[p].name,
               up |-> IF moves THEN cmd[p].parent ELSE tree[c].up]]
        /\ UNCHANGED items

\* The collection with all below it, and their items if the command says so.
Turn(p, state) ==
    LET cols == Below(cmd[p].col)
        its == IF cmd[p].items THEN Within(cols) ELSE {}
    IN  /\ There(cmd[p].col)
        /\ Touches(p, cols \cup its)
        /\ Set(cols, state)
        /\ Mark(its, "trashed")

Land(p) ==
    /\ status[p] = "open"
    /\ UNCHANGED <<filed, cmd, answer>>
    /\ \/ Create(p) \/ Rename(p)
       \/ cmd[p].op = "trash" /\ Turn(p, "trashed")
       \/ cmd[p].op = "restore" /\ Turn(p, "live")
       \/ cmd[p].op = "erase" /\ Turn(p, "erased")

\* The items that were below the collection, wherever they are by now.
Finish(p) ==
    /\ status[p] = "half"
    /\ Mark(hit[p] \cap Item, "erased")
    /\ status' = [status EXCEPT ![p] = "landed"]
    /\ UNCHANGED <<tree, filed, cmd, hit, answer>>

Break(p) ==
    /\ status[p] = "half"
    /\ status' = [status EXCEPT ![p] = "broken"]
    /\ UNCHANGED <<tree, items, filed, cmd, hit, answer>>

Close(p) ==
    /\ status[p] = "open"
    /\ status' = [status EXCEPT ![p] = "closed"]
    /\ UNCHANGED <<tree, items, filed, cmd, hit, answer>>

-----------------------------------------------------------------------------
(* The answer.                                                             *)

Answer(p, a) ==
    /\ answer[p] = "none"
    /\ answer' = [answer EXCEPT ![p] = a]
    /\ UNCHANGED <<tree, items, filed, cmd, hit>>

\* It took effect whole, or it never will.
Settle(p) ==
    \/ status[p] \in {"landed", "closed"} /\ UNCHANGED status
    \/ status[p] = "open" /\ status' = [status EXCEPT ![p] = "closed"]

Confirm(p) ==
    /\ status[p] = "landed" /\ UNCHANGED status
    /\ \E a \in {"applied", "mismatch", "conflict"} : Answer(p, a)

Refuse(p) == status[p] = "closed" /\ UNCHANGED status /\ Answer(p, "refused")

Existed(p) ==
    /\ cmd[p].op = "create"
    /\ \E c \in Coll : /\ tree[c].state = "live" /\ tree[c].name = cmd[p].name
                       /\ tree[c].up = cmd[p].parent
    /\ status[p] = "open" /\ status' = [status EXCEPT ![p] = "closed"]
    /\ Answer(p, "existed")

Fail(p) == Settle(p) /\ Answer(p, "error")

GiveUp(p) == status[p] # "idle" /\ UNCHANGED status /\ Answer(p, "unknown")

Next ==
    \/ Edit
    \/ \E p \in Proc :
         \/ Issue(p) \/ Land(p) \/ Finish(p) \/ Break(p) \/ Close(p)
         \/ Confirm(p) \/ Refuse(p) \/ Existed(p) \/ Fail(p) \/ GiveUp(p)

Spec == Init /\ [][Next]_vars
=============================================================================
