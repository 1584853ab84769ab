---------------------------- MODULE MCFetchPdfs ----------------------------
EXTENDS FetchPdfs

CONSTANTS p1, p2

Batch == [job |-> "fetch", resume |-> TRUE, reset |-> FALSE, force |-> FALSE,
          limit |-> ItemCount, zotero |-> FALSE, oa |-> TRUE]

\* One of each kind, and the pairs that meet at the file or at an item.
Limited == [Batch EXCEPT !.limit = 1, !.zotero = TRUE, !.oa = FALSE]
Reset == [Batch EXCEPT !.reset = TRUE]
Plain == [Batch EXCEPT !.resume = FALSE, !.zotero = TRUE]
Finder == [Batch EXCEPT !.job = "find", !.resume = FALSE]
Forced == [Batch EXCEPT !.job = "item", !.resume = FALSE, !.force = TRUE]

MCTouched == {[item |-> 1, via |-> "user"]}

MCCommands ==
    {[p \in Proc |-> IF p = p1 THEN Batch ELSE o] : o \in {Reset, Finder}}
      \cup {[p \in Proc |-> IF p = p1 THEN Limited ELSE o] : o \in {Plain, Forced}}

============================================================================
