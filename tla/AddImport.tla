----------------------------- MODULE AddImport -----------------------------
(***************************************************************************)
(* `add` and `import` (add_import.rs, import_core.rs): look the DOI up,    *)
(* let Zotero's translator import it, fall back to the BibTeX of Crossref  *)
(* or arXiv through the Connector, file and tag what was imported, attach  *)
(* a PDF.                                                                  *)
(*                                                                         *)
(* Every request may be refused, or be given up by the CLI and yet be      *)
(* served by Zotero later, beside what the CLI tried next.  A killed       *)
(* invocation is one that never goes on.  An item is known by the attempt  *)
(* that imports it; the publication is one and the same throughout.  An    *)
(* item may leave the library of the command, or never have been in it:    *)
(* its user erases it, and the Connector saves to the library selected in  *)
(* Zotero.                                                                 *)
(***************************************************************************)
EXTENDS Naturals, FiniteSets

CONSTANTS
    Proc,            \* concurrent CLI invocations
    User,            \* whoever added the copy that was there before
    Commands,        \* which command lines run together: [Proc -> Option]
    Entries,         \* the entries of a BibTeX file to be split
    MaxGone          \* bound: items that are not in the library of the commands

\* "pdf" is `add file` of a PDF whose name gives no DOI, "pdfdoi" of one
\* whose name does; "single" is a web page, a JSON file or a file not split.
Job == {"doi", "arxiv", "pmid", "pdf", "pdfdoi", "single", "split"}
DoiJob == {"doi", "arxiv", "pdfdoi"}
Label == {"coll", "tags", "pdf"}
Option == [job: Job, policy: {"file", "skip", "duplicate"}, translator: BOOLEAN,
           wanted: SUBSET Label]

ASSUME UserAssump == User \notin Proc
ASSUME CommandsAssump ==
    /\ Commands \subseteq [Proc -> Option]
    /\ \A c \in Commands, p \in Proc :
          /\ c[p].job = "pdfdoi" => "pdf" \in c[p].wanted
          /\ "pdf" \in c[p].wanted => c[p].job \in {"pdfdoi", "single"}
ASSUME EntriesAssump == Entries \in Nat \ {0}
ASSUME MaxGoneAssump == MaxGone \in Nat

Via == {"user", "translator", "standalone", "crossref", "arxiv", "single", "split"}
Item == [by: Proc \cup {User}, via: Via, n: 1..Entries]
Kind == {"save", "mark", "coll", "tags", "update", "attach"}
Request == [by: Proc, kind: Kind, item: Item]

VARIABLES
    \* Zotero
    items, labels,   \* its items, and what was done to each
    gone,            \* those erased, or in another library
    collection,      \* does the collection named exist
    late,            \* requests the CLI gave up and Zotero did not
    \* each invocation
    args, pc,
    at,              \* the item it is busy with
    good,            \* the entries of a split file that went well
    report,
    \* and what happened meanwhile
    present,         \* copies a lookup would have found when it began
    blind,           \* its lookup failed
    lost             \* attempts it took for failed that may have left an item

zotero == <<items, labels, gone, late>>
cli == <<pc, at, good, report>>
vars == <<items, labels, gone, collection, late, args, pc, at, good, report, present, blind, lost>>

\* At a stage of Kind the request is with Zotero.
PC == {"idle", "lookup", "target", "done"} \cup Kind

TypeOK ==
    /\ items \subseteq Item
    /\ labels \in [Item -> SUBSET Label]
    /\ gone \subseteq Item
    /\ collection \in BOOLEAN
    /\ late \subseteq Request
    /\ args \in Commands
    /\ pc \in [Proc -> PC]
    /\ at \in [Proc -> Item]
    /\ good \in [Proc -> SUBSET (1..Entries)]
    /\ report \in [Proc -> {"none", "exists", "success", "partial", "failed"}]
    /\ present \in [Proc -> SUBSET Item]
    /\ blind \in [Proc -> BOOLEAN]
    /\ lost \in [Proc -> SUBSET Item]

Old == [by |-> User, via |-> "user", n |-> 1]

Init ==
    /\ items \in {{}, {Old}}
    /\ labels = [i \in Item |-> {}]
    /\ gone = {}
    /\ collection \in BOOLEAN
    /\ late = {}
    /\ args \in Commands
    /\ pc = [p \in Proc |-> "idle"]
    /\ at = [p \in Proc |-> Old]
    /\ good = [p \in Proc |-> {}]
    /\ report = [p \in Proc |-> "none"]
    /\ present = [p \in Proc |-> {}]
    /\ blind = [p \in Proc |-> FALSE]
    /\ lost = [p \in Proc |-> {}]

-----------------------------------------------------------------------------
(* Where a command goes on.                                                *)

\* find_items_by_doi finds copies that carry the DOI; arXiv's BibTeX has none.
Findable(i) == i.via \in {"user", "translator", "crossref"}

\* import_from_*.js and standalone_pdf_import.js file and tag by themselves.
Scripted(i) == i.via \in {"translator", "standalone"}

Goto(p, stage, i) ==
    /\ pc' = [pc EXCEPT ![p] = stage]
    /\ at' = [at EXCEPT ![p] = i]
    /\ UNCHANGED <<good, report>>

End(p, what) ==
    /\ pc' = [pc EXCEPT ![p] = "done"]
    /\ report' = [report EXCEPT ![p] = what]
    /\ UNCHANGED <<at, good>>

Import(p, via, n) == Goto(p, "save", [by |-> p, via |-> via, n |-> n])

\* import_doi_with_clients, add_url_with_clients, add_file_existing
FirstVia(o) ==
    CASE o.job = "pdf"                 -> "standalone"
      [] o.job \in {"single", "split"} -> o.job
      [] o.job \in {"pmid", "arxiv"}   -> "translator"
      [] o.job \in {"doi", "pdfdoi"}   -> IF o.translator THEN "translator" ELSE "crossref"

\* What is tried after an attempt failed; "none" if nothing is.
Fallback(o, via) ==
    CASE via = "translator" /\ o.job # "pmid"     -> "crossref"
      [] via = "crossref" /\ o.job = "arxiv"      -> "arxiv"
      [] via = "crossref" /\ o.job = "pdfdoi"     -> "standalone"
      [] OTHER                                    -> "none"

\* The existing copy: add_to_collection, manage_tags, attach_pdf, in this order.
MarkExisting(p, i, left) ==
    LET marked == left \cap {"coll", "tags"} = {}
        pdf == "pdf" \in args[p].wanted
    IN \/ "coll" \in left /\ Goto(p, "coll", i)
       \/ "coll" \notin left /\ "tags" \in left /\ Goto(p, "tags", i)
       \/ marked /\ pdf /\ Goto(p, "attach", i)
       \/ marked /\ ~pdf /\ End(p, "exists")

\* Mutant: one entry too many.
NextEntryPast(p, ok) ==
    /\ good' = [good EXCEPT ![p] = @ \cup (IF ok THEN {at[p].n} ELSE {})]
    /\ pc' = [pc EXCEPT ![p] = "save"]
    /\ at' = [at EXCEPT ![p].n = @ + 1]
    /\ UNCHANGED report

\* Mutant: the outcome is that of the last entry.
NextEntryLast(p, ok) ==
    LET n == at[p].n
        done == good[p] \cup (IF ok THEN {n} ELSE {})
    IN /\ good' = [good EXCEPT ![p] = done]
       /\ IF n < Entries
          THEN /\ pc' = [pc EXCEPT ![p] = "save"]
               /\ at' = [at EXCEPT ![p].n = n + 1]
               /\ UNCHANGED report
          ELSE /\ pc' = [pc EXCEPT ![p] = "done"]
               /\ report' = [report EXCEPT ![p] = IF ok THEN "success" ELSE "partial"]
               /\ UNCHANGED at

\* import_split_bibtex goes on after a failure and sums up at the end.
NextEntry(p, ok) ==
    LET n == at[p].n
        done == good[p] \cup (IF ok THEN {n} ELSE {})
    IN /\ good' = [good EXCEPT ![p] = done]
       /\ IF n < Entries
          THEN /\ pc' = [pc EXCEPT ![p] = "save"]
               /\ at' = [at EXCEPT ![p].n = n + 1]
               /\ UNCHANGED report
          ELSE /\ pc' = [pc EXCEPT ![p] = "done"]
               /\ report' = [report EXCEPT ![p] = IF done = 1..Entries THEN "success"
                                                  ELSE IF done = {} THEN "failed" ELSE "partial"]
               /\ UNCHANGED at

\* `add file` has a PDF for the item, and an import may have some.
WantsPdf(p) == "pdf" \in args[p].wanted /\ at[p].via # "standalone"

\* Mutant: Crossref is asked although the translator succeeded.
ImportedGoesOn(p) ==
    LET next == Fallback(args[p], at[p].via)
        split == args[p].job = "split"
    IN \/ split /\ NextEntry(p, TRUE)
       \/ ~split /\ next # "none" /\ Import(p, next, 1)
       \/ ~split /\ next = "none" /\ End(p, "success")

\* The attempt's item is imported, filed and tagged.
Imported(p) ==
    LET split == args[p].job = "split"
    IN \/ split /\ NextEntry(p, TRUE)
       \/ ~split /\ WantsPdf(p) /\ Goto(p, "attach", at[p])
       \/ ~split /\ ~WantsPdf(p) /\ End(p, "success")

\* The attempt failed.
NotImported(p) ==
    LET next == Fallback(args[p], at[p].via)
        split == args[p].job = "split"
    IN \/ split /\ NextEntry(p, FALSE)
       \/ ~split /\ next # "none" /\ Import(p, next, 1)
       \/ ~split /\ next = "none" /\ End(p, "failed")

\* What is left to do after filing or tagging the existing copy, or trying to.
AfterMark(p) ==
    MarkExisting(p, at[p], IF pc[p] = "coll" THEN args[p].wanted \ {"coll"} ELSE {})

Failed(p) ==
    CASE pc[p] \in {"coll", "tags"} -> AfterMark(p)
      [] pc[p] = "attach"           -> End(p, "partial")
      [] OTHER                      -> NotImported(p)

\* The item of a failed attempt may be there, or arrive yet.
MayRemain(p) ==
    lost' = IF pc[p] \in {"save", "mark", "target", "update"}
            THEN [lost EXCEPT ![p] = @ \cup {at[p]}] ELSE lost

-----------------------------------------------------------------------------
(* The invocation.                                                         *)

Begin(p) ==
    /\ pc[p] = "idle"
    /\ present' = [present EXCEPT ![p] = {i \in items \ gone : Findable(i)}]
    /\ CASE args[p].job \in DoiJob /\ args[p].policy # "duplicate" -> Goto(p, "lookup", at[p])
         [] args[p].job = "split" -> Goto(p, "target", [by |-> p, via |-> "split", n |-> 1])
         [] OTHER -> Import(p, FirstVia(args[p]), 1)
    /\ UNCHANGED <<zotero, collection, args, blind, lost>>

\* The policy "file" has the existing copy filed and tagged.
LookupFinds(p) ==
    /\ pc[p] = "lookup"
    /\ \E i \in items \ gone :
          /\ Findable(i)
          /\ MarkExisting(p, i, IF args[p].policy = "file" THEN args[p].wanted ELSE {})
    /\ UNCHANGED <<zotero, collection, args, present, blind, lost>>

\* Mutant: found or not, the import goes on.
LookupFindsNoneEver(p) ==
    /\ pc[p] = "lookup"
    /\ Import(p, FirstVia(args[p]), 1)
    /\ UNCHANGED <<zotero, collection, args, present, blind, lost>>

LookupFindsNone(p) ==
    /\ pc[p] = "lookup"
    /\ \A i \in items \ gone : ~Findable(i)
    /\ Import(p, FirstVia(args[p]), 1)
    /\ UNCHANGED <<zotero, collection, args, present, blind, lost>>

\* A lookup that fails counts as one that finds nothing.
LookupFails(p) ==
    /\ pc[p] = "lookup"
    /\ Import(p, FirstVia(args[p]), 1)
    /\ blind' = [blind EXCEPT ![p] = TRUE]
    /\ UNCHANGED <<zotero, collection, args, present, lost>>

\* resolve_target, after the import, or before all of a split file's.
ResolveTarget(p) ==
    /\ pc[p] = "target"
    /\ "coll" \in args[p].wanted => collection
    /\ Goto(p, IF args[p].job = "split" THEN "save" ELSE "update", at[p])
    /\ UNCHANGED <<zotero, collection, args, present, blind, lost>>

TargetFails(p) ==
    /\ pc[p] = "target"
    /\ IF args[p].job = "split" THEN End(p, "failed") /\ UNCHANGED lost
       ELSE NotImported(p) /\ MayRemain(p)
    /\ UNCHANGED <<zotero, collection, args, present, blind>>

Current(p) == [by |-> p, kind |-> pc[p], item |-> at[p]]

\* The CLI stops waiting; the request stays with Zotero.
TimeOut(p) ==
    /\ pc[p] \in Kind
    /\ late' = late \cup {Current(p)}
    /\ Failed(p) /\ MayRemain(p)
    /\ UNCHANGED <<items, labels, gone, collection, args, present, blind>>

-----------------------------------------------------------------------------
(* Zotero and its user.                                                    *)

\* The user erases an item, or moves it to another library.
Erase(i) ==
    /\ i \in items \ gone /\ Cardinality(gone) < MaxGone
    /\ gone' = gone \cup {i}
    /\ UNCHANGED <<items, labels, collection, late, args, cli, present, blind, lost>>

Awaited(r) == r = Current(r.by)

Requests == late \cup {Current(p) : p \in {q \in Proc : pc[q] \in Kind}}

\* Served after the CLI gave it up.
Unheard == UNCHANGED <<cli, lost>>

AfterSave(r) ==
    IF Scripted(r.item) THEN "mark" ELSE IF args[r.by].job = "split" THEN "update" ELSE "target"

\* The item is imported, into another library if the Connector has one
\* selected.  A script then goes on to mark it, while the CLI waits; the
\* Connector answers.
Save(r) ==
    /\ r.kind = "save"
    /\ items' = items \cup {r.item}
    /\ \/ UNCHANGED gone
       \/ ~Scripted(r.item) /\ Cardinality(gone) < MaxGone /\ gone' = gone \cup {r.item}
    /\ LET next == [r EXCEPT !.kind = "mark"]
       IN CASE ~Awaited(r) /\ ~Scripted(r.item) -> late' = late \ {r} /\ Unheard
            [] ~Awaited(r) /\ Scripted(r.item)  -> late' = (late \ {r}) \cup {next} /\ Unheard
            [] Awaited(r) -> Goto(r.by, AfterSave(r), r.item) /\ UNCHANGED <<late, lost>>
    /\ UNCHANGED <<labels, collection, args, present, blind>>

\* These scripts look the item up by library and key.  item_attach.js answers
\* "ERROR: item not found" as it answers a success, and only the transport
\* is read: the command reports the PDF as attached.
Misses(r) ==
    /\ r.item \in gone
    /\ r.kind \in {"coll", "tags"} \/ (r.kind = "attach" /\ args[r.by].job = "pdfdoi")

\* A missing collection is passed over by the scripts that import.
Marks(r) ==
    LET o == args[r.by]
        reachable == IF collection THEN {"coll", "tags"} ELSE {"tags"}
    IN CASE Misses(r)                 -> {}
         [] r.kind = "mark"           -> o.wanted \cap reachable
         [] r.kind = "update"         -> o.wanted \ {"pdf"}
         [] r.kind = "attach"         -> {"pdf"}
         [] OTHER                     -> {r.kind} \cap reachable

Answered(r) ==
    CASE r.kind \in {"mark", "update"} -> Imported(r.by)
      [] r.kind \in {"coll", "tags"}   -> AfterMark(r.by)
      [] r.kind = "attach"             -> End(r.by, "success")

Perform(r) ==
    /\ r.kind # "save"
    /\ labels' = [labels EXCEPT ![r.item] = @ \cup Marks(r)]
    /\ late' = late \ {r}
    /\ IF Awaited(r) THEN Answered(r) /\ UNCHANGED lost ELSE Unheard
    /\ UNCHANGED <<items, gone, collection, args, present, blind>>

\* `add file` needs the key of the item, which the Connector may not tell.
NoKey(r) ==
    /\ r.kind = "update" /\ Awaited(r) /\ args[r.by].job = "pdfdoi"
    /\ labels' = [labels EXCEPT ![r.item] = @ \cup Marks(r)]
    /\ NotImported(r.by) /\ MayRemain(r.by)
    /\ UNCHANGED <<items, gone, collection, late, args, present, blind>>

\* Never sent, refused, or ended by an exception, which may come after the
\* import.  A request that failed unheard is one that stays late.
Refuse(r) ==
    /\ Awaited(r)
    /\ Failed(r.by)
    /\ IF r.kind = "save" THEN UNCHANGED lost ELSE MayRemain(r.by)
    /\ UNCHANGED <<zotero, collection, args, present, blind>>

Cli(p) ==
    \/ Begin(p) \/ LookupFinds(p) \/ LookupFindsNone(p) \/ LookupFails(p)
    \/ ResolveTarget(p) \/ TargetFails(p) \/ TimeOut(p)

Zotero ==
    \/ \E r \in Requests : Save(r) \/ Perform(r) \/ NoKey(r) \/ Refuse(r)
    \/ \E i \in items : Erase(i)

Next == Zotero \/ \E p \in Proc : Cli(p)

Spec == Init /\ [][Next]_vars

-----------------------------------------------------------------------------
(* What is checked.                                                        *)

Of(p) == {i \in items : i.by = p}

\* "Item already present": an invocation told to reuse or to skip adds
\* nothing to a library that had a copy when it began and has it still,
\* neither itself nor by a request served later, unless its lookup went wrong.
NoSecondCopy ==
    \A p \in Proc :
        /\ args[p].job \in DoiJob /\ args[p].policy # "duplicate"
        /\ present[p] \ gone # {} /\ ~blind[p]
        => Of(p) = {}

\* A copy the invocation did not report stems from an attempt it took for
\* failed: what it imported beside the item it names, or before it failed
\* or found a copy, was left by a lost answer, by a script that threw after
\* the import, or by a target or session update that failed.
CopiesAccountedFor ==
    \A p \in Proc : \A i \in Of(p) :
        \/ i.via = "split" /\ i.n \in good[p]
        \/ i = at[p] /\ report[p] \in {"none", "success", "partial"}
        \/ i \in lost[p]

\* The PDF of `add file` is attached by a script to an item of its library.
AttachFinds(p, i) == args[p].job = "pdfdoi" => i \notin gone

\* What is left of the wish when the collection does not exist, or the item
\* is not in the library.
Reachable(p, i) ==
    {l \in args[p].wanted : /\ l = "coll" => collection
                            /\ l = "pdf" => i.via # "standalone" /\ AttachFinds(p, i)}

\* A success is one in Zotero too: the item reported is there, filed and
\* tagged and with its PDF, though the answers came one by one; all entries
\* of a split file are, and some entry is if the success is partial.  Only
\* of an item erased meanwhile, or saved to another library, may the PDF be
\* reported and missing.
SuccessMeansDone ==
    \A p \in Proc :
        LET entry(n) == [by |-> p, via |-> "split", n |-> n]
            done(i) == i \in items /\ Reachable(p, i) \subseteq labels[i]
            split == args[p].job = "split"
        IN /\ split /\ report[p] = "success" => \A n \in 1..Entries : done(entry(n))
           /\ split /\ report[p] = "partial" => \E n \in 1..Entries : done(entry(n))
           /\ ~split /\ report[p] = "success" =>
                  IF at[p].by = p THEN done(at[p])
                  ELSE at[p] \in items /\ (at[p] \in gone \/ "pdf" \in labels[at[p]])
=============================================================================
