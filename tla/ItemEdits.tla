----------------------------- MODULE ItemEdits -----------------------------
(***************************************************************************)
(* The item write commands as functions of an item: what a PATCH built     *)
(* from an earlier read makes of it (lib.rs, write_router.rs), and what    *)
(* the Bridge scripts do to it inside Zotero (bridge/js/item_*.js).        *)
(* Arrays of the Web API are sets here: the order of memberships and tags, *)
(* and whether a tag is automatic, are left out.                           *)
(***************************************************************************)
CONSTANTS Collection, Tag, Field, Value

\* One item of the library.  An erased item is no longer there.
Content == [there: BOOLEAN, trashed: BOOLEAN,
            cols: SUBSET Collection, tags: SUBSET Tag, fields: [Field -> Value]]

\* The commands, with the arguments their parsers and early returns let through.
Command ==
    [op: {"update"}, fields: UNION {[F -> Value] : F \in (SUBSET Field) \ {{}}}]
    \cup {c \in [op: {"tag"}, add: SUBSET Tag, remove: SUBSET Tag] :
            c.add \cup c.remove # {}}
    \cup [op: {"trash", "restore", "erase"}]
    \cup [op: {"add", "remove"}, col: Collection]
    \cup [op: {"move"}, col: Collection, from: SUBSET Collection, all: BOOLEAN]

\* An update cut down to some of its fields.
Parts(c) ==
    IF c.op # "update" THEN {}
    ELSE {[c EXCEPT !.fields = [f \in F |-> c.fields[f]]] :
             F \in (SUBSET DOMAIN c.fields) \ {{}, DOMAIN c.fields}}

\* The fields named get their new values.
Overwritten(old, new) ==
    [f \in Field |-> IF f \in DOMAIN new THEN new[f] ELSE old[f]]

\* compute_tag_array: removals first, then additions.
NewTags(c, tags) == (tags \ c.remove) \cup c.add

\* compute_move_to_collection_set: the target, without the named sources or
\* without every other membership; with no flag an addition.
MoveSet(c, cols) == IF c.all THEN {c.col} ELSE (cols \ c.from) \cup {c.col}

\* Mutant: the new membership alone in place of the union.
PatchedNoUnion(c, read, now) ==
    CASE c.op = "update"  -> [now EXCEPT !.fields = Overwritten(@, c.fields)]
      [] c.op = "tag"     -> [now EXCEPT !.tags = NewTags(c, read.tags)]
      [] c.op = "trash"   -> [now EXCEPT !.trashed = TRUE]
      [] c.op = "restore" -> [now EXCEPT !.trashed = FALSE]
      [] c.op = "erase"   -> [now EXCEPT !.there = FALSE]
      [] c.op = "add"     -> [now EXCEPT !.cols = {c.col}]
      [] c.op = "remove"  -> [now EXCEPT !.cols = read.cols \ {c.col}]
      [] c.op = "move"    -> [now EXCEPT !.cols = MoveSet(c, read.cols)]

\* The item after the command's PATCH or DELETE: the array it replaces was
\* computed from what the command read before (union_replace,
\* difference_replace), everything else stays.
Patched(c, read, now) ==
    CASE c.op = "update"  -> [now EXCEPT !.fields = Overwritten(@, c.fields)]
      [] c.op = "tag"     -> [now EXCEPT !.tags = NewTags(c, read.tags)]
      [] c.op = "trash"   -> [now EXCEPT !.trashed = TRUE]
      [] c.op = "restore" -> [now EXCEPT !.trashed = FALSE]
      [] c.op = "erase"   -> [now EXCEPT !.there = FALSE]
      [] c.op = "add"     -> [now EXCEPT !.cols = read.cols \cup {c.col}]
      [] c.op = "remove"  -> [now EXCEPT !.cols = read.cols \ {c.col}]
      [] c.op = "move"    -> [now EXCEPT !.cols = MoveSet(c, read.cols)]

\* Mutant: one field that agrees taken for all of them.
MatchesSome(c, read, seen) ==
    \E part \in Parts(c) \cup {c} : Patched(part, read, seen) = seen

\* The fields read back have the values requested.  diff_requested_fields
\* compares JSON, which may differ more than the values do.
Matches(c, read, seen) == Patched(c, read, seen) = seen

\* The item after the command's script, which changes it as it is: tags are
\* added, then removed, and a move with no source leaves every collection.
Scripted(c, now) ==
    CASE c.op = "tag"  -> [now EXCEPT !.tags = (now.tags \cup c.add) \ c.remove]
      [] c.op = "move" ->
           [now EXCEPT !.cols = IF c.from = {} THEN {c.col}
                                ELSE (now.cols \ c.from) \cup {c.col}]
      [] OTHER         -> Patched(c, now, now)

\* What a command means for the item it meets, on either backend.
Effect(backend, c, now) ==
    IF backend = "api" THEN Patched(c, now, now) ELSE Scripted(c, now)

\* The two backends give the command different meanings: a tag both added
\* and removed, and a move that names no source.
BackendsDiffer(c) ==
    \/ c.op = "tag" /\ c.add \cap c.remove # {}
    \/ c.op = "move" /\ c.from = {} /\ ~c.all
=============================================================================
