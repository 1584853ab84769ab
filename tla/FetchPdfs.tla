----------------------------- MODULE FetchPdfs -----------------------------
(***************************************************************************)
(* PDFs for what has none: `collection fetch-pdfs` with its resume file    *)
(* and `collection find-pdfs` (pdf_cascade.rs), `item fetch-pdf`           *)
(* (pdf_fetch.rs).  An item is tried with the library's own attachments,   *)
(* with Zotero's finder, then with what PdfSources downloads.              *)
(*                                                                         *)
(* A script the CLI stops waiting for goes on in Zotero.  The resume file  *)
(* is read, truncated and written without a lock; a file that is missing   *)
(* or cannot be parsed counts as empty.  Zotero runs throughout, and the  *)
(* items of the collection stay the same; their attachments come and go.   *)
(***************************************************************************)
EXTENDS Naturals, FiniteSets

CONSTANTS
    Proc,            \* concurrent CLI invocations
    ItemCount,       \* the collection is 1..ItemCount, in Zotero's order
    Commands,        \* which command lines run together: [Proc -> Option]
    Touched,         \* PDFs of the user's, there or not, added or trashed any time
    Unread           \* no copy of the library yet

ASSUME ItemCountAssump == ItemCount \in Nat \ {0}

Items == 1..ItemCount

ASSUME UnreadAssump == \A S \in SUBSET Items : Unread # S

\* "item" is `item fetch-pdf` of the first item; a limit of ItemCount is none.
Option == [job: {"fetch", "find", "item"}, resume: BOOLEAN, reset: BOOLEAN,
           force: BOOLEAN, limit: 0..ItemCount, zotero: BOOLEAN, oa: BOOLEAN]

ASSUME CommandsAssump == Commands \subseteq [Proc -> Option]

\* A PDF is known by what attached it: the user, an invocation's call of
\* Zotero's finder, or its own attachment of a download.
Pdf == [item: Items, by: Proc, via: {"zotero", "oa"}]
         \cup [item: Items, via: {"user"}]
ASSUME TouchedAssump == Touched \subseteq [item: Items, via: {"user"}]

Request == [item: Items, by: Proc, via: {"zotero", "oa"}]

VARIABLES
    pdfs, trash,     \* the library's PDF attachments, and those in its trash
    late,            \* scripts the CLI gave up and Zotero did not
    file,            \* the keys the resume file names, {} if it cannot be read
    open,            \* invocations whose open file is still that file
    args, pc,
    todo, batch,     \* what is left of what was to be tried
    seen,            \* items with a PDF in the copy of the library it reads
    found,           \* items that went well
    mine,            \* the keys it is about to write
    report,
    saved,           \* keys written since the file was last cleared
    intact           \* no two runs with the file overlapped, none died writing

zotero == <<pdfs, trash, late>>
resumeFile == <<file, open, saved, intact>>
cli == <<pc, todo, batch, seen, found, mine, report>>
vars == <<zotero, resumeFile, args, cli>>

PC == {"idle", "list", "plan", "next", "find", "verify", "cascade", "attach",
       "load", "truncate", "write", "done"}

TypeOK ==
    /\ pdfs \subseteq Pdf /\ trash \subseteq pdfs /\ late \subseteq Request
    /\ file \subseteq Items
    /\ open \subseteq Proc
    /\ args \in Commands
    /\ pc \in [Proc -> PC]
    /\ todo \in [Proc -> SUBSET Items] /\ batch \in [Proc -> SUBSET Items]
    /\ seen \in [Proc -> {Unread} \cup SUBSET Items]
    /\ found \in [Proc -> SUBSET Items] /\ mine \in [Proc -> SUBSET Items]
    /\ \A p \in Proc : todo[p] \subseteq batch[p] /\ found[p] \subseteq batch[p]
    /\ report \in [Proc -> {"none", "success", "partial", "not_found", "error", "killed"}]
    /\ saved \subseteq Items /\ intact \in BOOLEAN

Init ==
    /\ pdfs \in SUBSET Touched /\ trash \in SUBSET pdfs
    /\ late = {}
    /\ file = {} /\ open = {} /\ saved = {} /\ intact = TRUE
    /\ args \in Commands
    /\ pc = [p \in Proc |-> "idle"]
    /\ todo = [p \in Proc |-> {}] /\ batch = [p \in Proc |-> {}]
    /\ seen = [p \in Proc |-> Unread]
    /\ found = [p \in Proc |-> {}] /\ mine = [p \in Proc |-> {}]
    /\ report = [p \in Proc |-> "none"]

-----------------------------------------------------------------------------
(* What is read.                                                           *)

\* list_items_missing_pdf.js and find_pdf_verify.js pass the trash over,
\* hasPdf of base_item_select does not.
Live(i) == \E a \in pdfs \ trash : a.item = i
HasPdf == {a.item : a \in pdfs}

Current(p) == CHOOSE i \in todo[p] : \A j \in todo[p] : i <= j
FirstOf(S, n) == {i \in S : Cardinality({j \in S : j < i}) < n}

UsesFile(o) == o.job = "fetch" /\ (o.resume \/ o.reset)
Running(p) == pc[p] \notin {"idle", "done"}

-----------------------------------------------------------------------------
(* Where an invocation goes on.                                            *)

Goto(p, stage) ==
    /\ pc' = [pc EXCEPT ![p] = stage]
    /\ UNCHANGED <<todo, batch, found, mine, report>>

End(p, what) ==
    /\ pc' = [pc EXCEPT ![p] = "done"]
    /\ report' = [report EXCEPT ![p] = what]
    /\ mine' = [mine EXCEPT ![p] = {}]
    /\ UNCHANGED <<todo, batch, found>>

\* Mutant: an item that went wrong stays in the queue.
FailedAgain(p) ==
    /\ pc' = [pc EXCEPT ![p] = "next"]
    /\ mine' = [mine EXCEPT ![p] = {}]
    /\ UNCHANGED <<todo, batch, found, report>>

\* The row of one item that went wrong.
Failed(p) ==
    /\ todo' = [todo EXCEPT ![p] = @ \ {Current(p)}]
    /\ pc' = [pc EXCEPT ![p] = "next"]
    /\ mine' = [mine EXCEPT ![p] = {}]
    /\ UNCHANGED <<batch, found, report>>

\* FOUND, ATTACHED or ALREADY_HAS_PDF: with --resume the key is saved next.
Succeeded(p) ==
    LET saves == args[p].job = "fetch" /\ args[p].resume IN
    /\ found' = [found EXCEPT ![p] = @ \cup {Current(p)}]
    /\ pc' = [pc EXCEPT ![p] = IF saves THEN "load" ELSE "next"]
    /\ todo' = [todo EXCEPT ![p] = IF saves THEN @ ELSE @ \ {Current(p)}]
    /\ UNCHANGED <<batch, mine, report>>

-----------------------------------------------------------------------------
(* The resume file.                                                        *)

\* clear_resume_state: who has the file open goes on with a file nobody sees
Clear == file' = {} /\ open' = {} /\ saved' = {} /\ UNCHANGED intact

\* Mutant: the key is written without those that were there.
LoadNothing(p) ==
    /\ pc[p] = "load"
    /\ mine' = [mine EXCEPT ![p] = {Current(p)}]
    /\ pc' = [pc EXCEPT ![p] = "truncate"]
    /\ UNCHANGED <<zotero, resumeFile, args, todo, batch, seen, found, report>>

\* save_resume_key, in three steps: read the keys,
Load(p) ==
    /\ pc[p] = "load"
    /\ mine' = [mine EXCEPT ![p] = file \cup {Current(p)}]
    /\ pc' = [pc EXCEPT ![p] = "truncate"]
    /\ UNCHANGED <<zotero, resumeFile, args, todo, batch, seen, found, report>>

\* open and truncate the file, or fail, which nobody is told,
Truncate(p) ==
    /\ pc[p] = "truncate"
    /\ \/ file' = {} /\ open' = open \cup {p} /\ Goto(p, "write")
       \/ Failed(p) /\ UNCHANGED <<file, open>>
    /\ UNCHANGED <<zotero, saved, intact, args, seen>>

\* and write: what another wrote since, if longer, sticks out at the end.
Write(p) ==
    /\ pc[p] = "write"
    /\ file' = IF p \notin open THEN file
               ELSE IF Cardinality(file) > Cardinality(mine[p]) THEN {}
               ELSE mine[p]
    /\ open' = open \ {p}
    /\ saved' = saved \cup {Current(p)}
    /\ Failed(p)
    /\ UNCHANGED <<zotero, intact, args, seen>>

-----------------------------------------------------------------------------
(* An invocation.                                                          *)

\* --reset-resume; then the list, or the one item of `item fetch-pdf`
Start(p) ==
    LET o == args[p] IN
    /\ pc[p] = "idle"
    /\ pc' = [pc EXCEPT ![p] = IF o.job = "item" THEN "next" ELSE "list"]
    /\ batch' = [batch EXCEPT ![p] = IF o.job = "item" THEN {1} ELSE {}]
    /\ todo' = [todo EXCEPT ![p] = batch'[p]]
    /\ IF o.job = "fetch" /\ o.reset
       THEN file' = {} /\ open' = {} /\ saved' = {}
       ELSE UNCHANGED <<file, open, saved>>
    /\ intact' = (intact /\ \A q \in Proc : Running(q) =>
                               ~(UsesFile(o) /\ UsesFile(args[q])))
    /\ UNCHANGED <<zotero, args, seen, found, mine, report>>

\* list_items_missing_pdf, or LIST_FAILED
List(p) ==
    /\ pc[p] = "list"
    /\ \/ /\ batch' = [batch EXCEPT ![p] = {i \in Items : ~Live(i)}]
          /\ todo' = [todo EXCEPT ![p] = batch'[p]]
          /\ pc' = [pc EXCEPT ![p] = "plan"]
          /\ UNCHANGED <<found, mine, report>>
       \/ End(p, "error")
    /\ UNCHANGED <<zotero, resumeFile, args, seen>>

\* Mutant: the batch is not cut again when the file is applied.
PlanForgets(p) ==
    /\ pc[p] = "plan"
    /\ batch' = [batch EXCEPT ![p] = FirstOf(batch[p], args[p].limit)]
    /\ todo' = [todo EXCEPT ![p] = batch[p]]
    /\ pc' = [pc EXCEPT ![p] = "next"]
    /\ UNCHANGED <<zotero, resumeFile, args, seen, found, mine, report>>

\* What the file says is done is dropped, then the list is cut at --limit.
Plan(p) ==
    LET o == args[p]
        left == IF o.job = "fetch" /\ o.resume THEN batch[p] \ file ELSE batch[p]
    IN  /\ pc[p] = "plan"
        /\ batch' = [batch EXCEPT ![p] = FirstOf(left, o.limit)]
        /\ todo' = [todo EXCEPT ![p] = batch'[p]]
        /\ pc' = [pc EXCEPT ![p] = "next"]
        /\ UNCHANGED <<zotero, resumeFile, args, seen, found, mine, report>>

\* Mutant: the listing is taken for the check of the item's own attachments.
GateUnread(p) ==
    /\ pc[p] = "next" /\ todo[p] # {} /\ args[p].job # "find"
    /\ \/ /\ seen' = [seen EXCEPT ![p] = IF @ = Unread THEN HasPdf ELSE @]
          /\ Goto(p, IF args[p].zotero THEN "find" ELSE "cascade")
       \/ Failed(p) /\ UNCHANGED seen
    /\ UNCHANGED <<zotero, resumeFile, args>>

\* The library is copied when it is first read, and every later item is
\* looked up in that copy (live_snapshot::connect).
Gate(p) ==
    LET copy == IF seen[p] = Unread THEN HasPdf ELSE seen[p] IN
    /\ pc[p] = "next" /\ todo[p] # {} /\ args[p].job # "find"
    /\ \/ /\ seen' = [seen EXCEPT ![p] = copy]
          /\ IF Current(p) \in copy /\ ~args[p].force THEN Succeeded(p)
             ELSE Goto(p, IF args[p].zotero THEN "find" ELSE "cascade")
       \/ Failed(p) /\ UNCHANGED seen                       \* ITEM_NOT_FOUND
    /\ UNCHANGED <<zotero, resumeFile, args>>

FindOnly(p) ==
    /\ pc[p] = "next" /\ todo[p] # {} /\ args[p].job = "find"
    /\ Goto(p, "find")
    /\ UNCHANGED <<zotero, resumeFile, args, seen>>

\* `find-pdfs` counts the item, the others go on with the download.
NotFound(p) == IF args[p].job = "find" THEN Failed(p) ELSE Goto(p, "cascade")

\* find_pdf: found, not found or refused, or not answered in time
Find(p) ==
    LET r == [item |-> Current(p), by |-> p, via |-> "zotero"] IN
    /\ pc[p] = "find"
    /\ \/ pdfs' = pdfs \cup {r} /\ Succeeded(p) /\ UNCHANGED late
       \/ NotFound(p) /\ UNCHANGED <<pdfs, late>>
       \/ late' = late \cup {r} /\ Goto(p, "verify") /\ UNCHANGED pdfs
    /\ UNCHANGED <<trash, resumeFile, args, seen>>

\* find_pdf_verify.js looks once for what came meanwhile; it may fail too.
Verify(p) ==
    /\ pc[p] = "verify"
    /\ \/ Live(Current(p)) /\ Succeeded(p)
       \/ NotFound(p)
    /\ UNCHANGED <<zotero, resumeFile, args, seen>>

\* cascade_download_pdf and write_temp_pdf
Cascade(p) ==
    /\ pc[p] = "cascade"
    /\ \/ args[p].oa /\ Goto(p, "attach")
       \/ Failed(p)
    /\ UNCHANGED <<zotero, resumeFile, args, seen>>

\* Mutant: a timed-out attachment counts as attached.
AttachTrusted(p) ==
    LET r == [item |-> Current(p), by |-> p, via |-> "oa"] IN
    /\ pc[p] = "attach"
    /\ \/ pdfs' = pdfs \cup {r} /\ Succeeded(p) /\ UNCHANGED late
       \/ Failed(p) /\ UNCHANGED <<pdfs, late>>
       \/ late' = late \cup {r} /\ Succeeded(p) /\ UNCHANGED pdfs
    /\ UNCHANGED <<trash, resumeFile, args, seen>>

\* item_attach; the temporary file is removed whatever the answer
Attach(p) ==
    LET r == [item |-> Current(p), by |-> p, via |-> "oa"] IN
    /\ pc[p] = "attach"
    /\ \/ pdfs' = pdfs \cup {r} /\ Succeeded(p) /\ UNCHANGED late
       \/ Failed(p) /\ UNCHANGED <<pdfs, late>>
       \/ late' = late \cup {r} /\ Failed(p) /\ UNCHANGED pdfs
    /\ UNCHANGED <<trash, resumeFile, args, seen>>

Status(p) ==
    CASE args[p].job = "find" \/ batch[p] = {} -> "success"
      [] found[p] = {}                         -> "not_found"
      [] found[p] # batch[p]                   -> "partial"
      [] OTHER                                 -> "success"

\* All of this batch found: the file is cleared, whatever --limit cut off.
Finish(p) ==
    LET o == args[p] IN
    /\ pc[p] = "next" /\ todo[p] = {}
    /\ End(p, Status(p))
    /\ IF o.job = "fetch" /\ o.resume /\ batch[p] # {} /\ found[p] = batch[p]
       THEN Clear ELSE UNCHANGED resumeFile
    /\ UNCHANGED <<zotero, args, seen>>

-----------------------------------------------------------------------------
(* Around it.                                                              *)

Kill(p) ==
    /\ Running(p)
    /\ intact' = (intact /\ pc[p] # "write")
    /\ open' = open \ {p}
    /\ pc' = [pc EXCEPT ![p] = "done"]
    /\ report' = [report EXCEPT ![p] = "killed"]
    /\ todo' = [todo EXCEPT ![p] = {}] /\ batch' = [batch EXCEPT ![p] = {}]
    /\ found' = [found EXCEPT ![p] = {}] /\ mine' = [mine EXCEPT ![p] = {}]
    /\ UNCHANGED <<zotero, file, saved, args, seen>>

\* What Zotero finishes later; an attachment whose file is gone fails.
Land(r) ==
    /\ late' = late \ {r}
    /\ pdfs' = pdfs \cup {r} \/ pdfs' = pdfs
    /\ UNCHANGED <<trash, resumeFile, args, cli>>

UserAttaches(a) ==
    /\ pdfs' = pdfs \cup {a}
    /\ UNCHANGED <<trash, late, resumeFile, args, cli>>

UserTrashes(a) ==
    /\ trash' = trash \cup {a}
    /\ UNCHANGED <<pdfs, late, resumeFile, args, cli>>

Step(p) ==
    \/ List(p) \/ Plan(p) \/ Gate(p) \/ FindOnly(p) \/ Find(p) \/ Verify(p)
    \/ Cascade(p) \/ Attach(p) \/ Load(p) \/ Truncate(p) \/ Write(p) \/ Finish(p)

Next ==
    \/ \E p \in Proc : Start(p) \/ Step(p) \/ Kill(p)
    \/ \E r \in late : Land(r)
    \/ \E a \in Touched \ pdfs : UserAttaches(a)
    \/ \E a \in Touched \cap (pdfs \ trash) : UserTrashes(a)

Spec == Init /\ [][Next]_vars

\* Every request and download has a time limit, so an invocation goes on.
FairSpec == Spec /\ \A p \in Proc : WF_vars(Step(p))

-----------------------------------------------------------------------------
(* Properties.                                                             *)

\* Whatever the resume file calls completed, and every item of a batch that
\* is reported a success, has or had a PDF: a key saved for an attachment
\* that timed out and never landed would hide the item from every --resume.
CompletedHadPdf ==
    /\ file \subseteq HasPdf
    /\ \A p \in Proc : report[p] = "success" /\ args[p].job # "find" =>
                           batch[p] \subseteq HasPdf

\* A run with --resume has nothing in its queue whose key was written since
\* the file was last cleared, provided no other run was at the file at the
\* same time and none was killed while it rewrote it: runs killed anywhere
\* else, and runs cut short by --limit, are picked up where they stopped.
NothingIsTriedTwice ==
    \A p \in Proc :
        /\ intact /\ args[p].job = "fetch" /\ args[p].resume
        /\ pc[p] \in {"next", "find", "verify", "cascade", "attach"}
        => todo[p] \cap saved = {}

\* A run without --force never adds a PDF to an item that had one in the copy
\* of the library it reads, neither at once nor by an answer that comes late.
NeverASecondPdf ==
    \A p \in Proc : seen[p] # Unread /\ ~args[p].force =>
        \A a \in pdfs : a.via # "user" /\ a.item \in seen[p] => a.by # p

\* Every invocation ends, whatever Zotero and the sources answer.
RunsEnd == \A p \in Proc : pc[p] # "idle" ~> pc[p] = "done"

=============================================================================
