--------------------------- MODULE SemanticIndex ---------------------------
(***************************************************************************)
(* `item build-index` (build_index, semantic/mod.rs): every item of the    *)
(* library that is not in the vector database yet gets a row in the table  *)
(* embeddings and one in the table vectors_f32, in transactions of         *)
(* BatchSize items.                                                        *)
(*                                                                         *)
(* Builds run side by side on one SQLite file and are killed anywhere,     *)
(* also between the pages of a commit; then the journal is left, and       *)
(* whoever opens or locks the file next rolls it back.  SQLite's locks and *)
(* journal are modelled from how the connections are opened.               *)
(***************************************************************************)
EXTENDS Naturals, FiniteSets

CONSTANTS
    Proc,            \* concurrent builds
    Nobody,          \* holds no lock
    KeyCount,        \* the library's items are 1..KeyCount, in order of their keys
    Blank,           \* those with neither title nor abstract
    Versions,        \* how often a text is edited
    BatchSize

ASSUME NobodyAssump == Nobody \notin Proc
ASSUME KeyCountAssump == KeyCount \in Nat \ {0}
ASSUME VersionsAssump == Versions \in Nat \ {0}
ASSUME BatchSizeAssump == BatchSize \in Nat \ {0}

Key == 1..KeyCount

ASSUME BlankAssump == Blank \subseteq Key

Absent == 0
Row == [Key -> Absent..Versions]     \* which version of an item's text a table holds
Tables == [text: Row, vec: Row]

VARIABLES
    source,          \* the texts in Zotero
    text, vec,       \* the tables embeddings and vectors_f32, as in the file
    journal,         \* {} or the tables it restores
    lock,            \* whose transaction may write
    pc,
    rows,            \* the texts as a build read them
    existing,        \* the keys it found in embeddings
    todo, at,
    newText, newVec, \* keys inserted in its open transaction
    indexed, errors,
    report,
    torn             \* keys whose vector could not be inserted beside the text

file == <<text, vec, journal>>
build == <<rows, existing, todo, at, newText, newVec, indexed, errors, report>>
vars == <<source, file, lock, pc, build, torn>>

PC == {"idle", "connect", "next", "embed", "text", "vec", "commit", "pages", "done"}

TypeOK ==
    /\ source \in [Key -> 1..Versions]
    /\ text \in Row /\ vec \in Row
    /\ journal \subseteq Tables /\ \A t, u \in journal : t = u
    /\ lock \in Proc \cup {Nobody}
    /\ pc \in [Proc -> PC]
    /\ rows \in [Proc -> [Key -> 1..Versions]]
    /\ existing \in [Proc -> SUBSET Key] /\ todo \in [Proc -> SUBSET Key]
    /\ at \in [Proc -> Key]
    /\ newText \in [Proc -> SUBSET Key] /\ newVec \in [Proc -> SUBSET Key]
    /\ indexed \in [Proc -> SUBSET Key] /\ errors \in [Proc -> SUBSET Key]
    /\ report \in [Proc -> {"none", "ok", "failure", "killed"}]
    /\ torn \subseteq Key
    /\ \A p \in Proc : newText[p] # {} => lock = p

Init ==
    /\ source = [k \in Key |-> 1]
    /\ text = [k \in Key |-> Absent] /\ vec = text
    /\ journal = {}
    /\ lock = Nobody
    /\ pc = [p \in Proc |-> "idle"]
    /\ rows = [p \in Proc |-> source]
    /\ existing = [p \in Proc |-> {}] /\ todo = existing
    /\ at = [p \in Proc |-> 1]
    /\ newText = existing /\ newVec = existing
    /\ indexed = existing /\ errors = existing
    /\ report = [p \in Proc |-> "none"]
    /\ torn = {}

-----------------------------------------------------------------------------
(* The SQLite file.                                                        *)

\* What a reader that honours the journal finds.
Committed == IF journal = {} THEN [text |-> text, vec |-> vec]
             ELSE CHOOSE t \in journal : TRUE

\* A journal nobody is writing under is rolled back by whoever comes next.
RollBack ==
    /\ lock = Nobody \/ journal = {}
    /\ text' = Committed.text /\ vec' = Committed.vec
    /\ journal' = {}

\* A table with the open transaction's rows of one build in it.
With(table, new, p) == [k \in Key |-> IF k \in new[p] THEN rows[p][k] ELSE table[k]]

Unlocked(p) == lock' = IF lock = p THEN Nobody ELSE lock

-----------------------------------------------------------------------------
(* A build.                                                                *)

Goto(p, stage) == pc' = [pc EXCEPT ![p] = stage]

\* It returns, and drops what it has not committed.
End(p, what) ==
    /\ Goto(p, "done")
    /\ report' = [report EXCEPT ![p] = what]
    /\ newText' = [newText EXCEPT ![p] = {}] /\ newVec' = [newVec EXCEPT ![p] = {}]
    /\ todo' = [todo EXCEPT ![p] = {}]
    /\ Unlocked(p)
    /\ UNCHANGED <<rows, existing, at, indexed, errors>>

\* The item is counted as an error; the transaction stays open.
ItemFails(p) ==
    /\ errors' = [errors EXCEPT ![p] = @ \cup {at[p]}]
    /\ Goto(p, "next")
    /\ UNCHANGED <<rows, existing, todo, at, newVec, indexed, report>>

\* All titles and abstracts are read first, and Zotero's database is closed.
Read(p) ==
    /\ pc[p] = "idle"
    /\ \/ rows' = [rows EXCEPT ![p] = source] /\ Goto(p, "connect")
          /\ UNCHANGED <<lock, existing, todo, at, newText, newVec, indexed, errors, report>>
       \/ End(p, "failure")
    /\ UNCHANGED <<source, file, torn>>

\* connect_vector_db_rw and SELECT DISTINCT item_key; while another build
\* writes the pages of a commit the file is locked, which may outlast the
\* busy timeout.  A query that fails only once it runs leaves no keys.
Connect(p) ==
    /\ pc[p] = "connect"
    /\ \/ /\ RollBack
          /\ \E keys \in {{k \in Key : text'[k] # Absent}, {}} :
                existing' = [existing EXCEPT ![p] = keys]
          /\ todo' = [todo EXCEPT ![p] = Key]
          /\ Goto(p, "next")
          /\ UNCHANGED <<lock, rows, at, newText, newVec, indexed, errors, report>>
       \/ End(p, "failure") /\ UNCHANGED file
    /\ UNCHANGED <<source, torn>>

\* Known keys and items without text are skipped.
Take(p) ==
    /\ pc[p] = "next"
    /\ \E k \in todo[p] :
          /\ \A j \in todo[p] : k <= j
          /\ todo' = [todo EXCEPT ![p] = @ \ {k}]
          /\ at' = [at EXCEPT ![p] = k]
          /\ Goto(p, IF k \in existing[p] \cup Blank THEN "next" ELSE "embed")
    /\ UNCHANGED <<source, file, lock, rows, existing, newText, newVec, indexed, errors,
                   report, torn>>

\* get_embedding, with the transaction open and perhaps the lock held
Embed(p) ==
    /\ pc[p] = "embed"
    /\ \/ Goto(p, "text") /\ UNCHANGED build
       \/ ItemFails(p) /\ UNCHANGED newText
    /\ UNCHANGED <<source, file, lock, torn>>

\* Mutant: the text is inserted outside the transaction.
InsertTextAlone(p) ==
    /\ pc[p] = "text" /\ lock = Nobody
    /\ text' = [Committed.text EXCEPT ![at[p]] = rows[p][at[p]]]
    /\ vec' = Committed.vec /\ journal' = {}
    /\ Goto(p, "vec")
    /\ UNCHANGED <<source, lock, build, torn>>

\* The first insert of a transaction takes the lock, or gives up waiting.
InsertText(p) ==
    /\ pc[p] = "text"
    /\ \/ /\ lock \in {p, Nobody}
          /\ RollBack
          /\ lock' = p
          /\ newText' = [newText EXCEPT ![p] = @ \cup {at[p]}]
          /\ Goto(p, "vec")
          /\ UNCHANGED <<rows, existing, todo, at, newVec, indexed, errors, report>>
       \/ ItemFails(p) /\ UNCHANGED <<newText, lock, file>>
    /\ UNCHANGED <<source, torn>>

\* A vector that cannot be inserted leaves the text in the transaction.
InsertVec(p) ==
    /\ pc[p] = "vec"
    /\ \/ /\ newVec' = [newVec EXCEPT ![p] = @ \cup {at[p]}]
          /\ indexed' = [indexed EXCEPT ![p] = @ \cup {at[p]}]
          /\ Goto(p, IF Cardinality(indexed'[p]) % BatchSize = 0 THEN "commit" ELSE "next")
          /\ UNCHANGED <<rows, existing, todo, at, newText, errors, report, torn>>
       \/ ItemFails(p) /\ torn' = torn \cup {at[p]} /\ UNCHANGED newText
    /\ UNCHANGED <<source, file, lock>>

\* Mutant: the last transaction is dropped.
LastDropped(p) ==
    /\ pc[p] = "next" /\ todo[p] = {}
    /\ End(p, "ok")
    /\ UNCHANGED <<source, file, torn>>

Last(p) ==
    /\ pc[p] = "next" /\ todo[p] = {}
    /\ Goto(p, "commit")
    /\ UNCHANGED <<source, file, lock, build, torn>>

\* Mutant: the next transaction starts with the rows of the last.
ContinueKeeps(p) ==
    IF todo[p] = {} THEN End(p, "ok")
    ELSE Goto(p, "next") /\ Unlocked(p) /\ UNCHANGED build

\* Committed: the next transaction, or the end.
Continue(p) ==
    IF todo[p] = {} THEN End(p, "ok")
    ELSE /\ Goto(p, "next")
         /\ newText' = [newText EXCEPT ![p] = {}] /\ newVec' = [newVec EXCEPT ![p] = {}]
         /\ Unlocked(p)
         /\ UNCHANGED <<rows, existing, todo, at, indexed, errors, report>>

\* The journal stands, and the pages of one of the tables are written first.
CommitBegins(p) ==
    /\ pc[p] = "commit"
    /\ IF lock = p
       THEN \/ /\ journal' = {[text |-> text, vec |-> vec]}
               /\ \/ text' = With(text, newText, p) /\ UNCHANGED vec
                  \/ vec' = With(vec, newVec, p) /\ UNCHANGED text
               /\ Goto(p, "pages")
               /\ UNCHANGED <<lock, build>>
            \/ End(p, "failure") /\ UNCHANGED file
       ELSE Continue(p) /\ UNCHANGED file
    /\ UNCHANGED <<source, torn>>

\* The rest of the pages; removing the journal is what commits them.
CommitEnds(p) ==
    /\ pc[p] = "pages"
    /\ text' = With(text, newText, p) /\ vec' = With(vec, newVec, p)
    /\ journal' = {}
    /\ Continue(p)
    /\ UNCHANGED <<source, torn>>

Kill(p) ==
    /\ pc[p] \notin {"idle", "done"}
    /\ End(p, "killed")
    /\ UNCHANGED <<source, file, torn>>

Edit(k) ==
    /\ source[k] < Versions
    /\ source' = [source EXCEPT ![k] = @ + 1]
    /\ UNCHANGED <<file, lock, pc, build, torn>>

Step(p) ==
    \/ Connect(p) \/ Take(p) \/ Embed(p) \/ InsertText(p) \/ InsertVec(p)
    \/ Last(p) \/ CommitBegins(p) \/ CommitEnds(p)

Next ==
    \/ \E p \in Proc : Read(p) \/ Step(p) \/ Kill(p)
    \/ \E k \in Key \ Blank : Edit(k)

Spec == Init /\ [][Next]_vars

-----------------------------------------------------------------------------
(* Properties.                                                             *)

\* A key has both rows or none, of the same version of its text, unless its
\* vector could not be inserted: no kill, failing commit or other build
\* leaves an item that later builds skip and no search finds.
BothRowsOrNone ==
    \A k \in Key \ torn : Committed.text[k] = Committed.vec[k]

\* What a build that ends well says it indexed is in both tables, whatever
\* other builds did or were killed in.
IndexedIsStored ==
    \A p \in Proc : report[p] = "ok" =>
        \A k \in indexed[p] : Committed.text[k] # Absent /\ Committed.vec[k] # Absent
=============================================================================
