-------------------------- MODULE AddImportProofs --------------------------
(***************************************************************************)
(* What add and import report of their copies is true, for any number of   *)
(* invocations, any command lines and any number of entries, whatever is   *)
(* refused, given up or served late.                                       *)
(*                                                                         *)
(* The argument.  An attempt is left behind only in two ways: it failed    *)
(* before Zotero saved anything, or it is entered in lost.  So an item     *)
(* that is not lost is the one at hand, or an entry that went well; and    *)
(* as items and labels only grow, what was found at one answer is still    *)
(* there at the next.                                                      *)
(***************************************************************************)
EXTENDS AddImport, TLAPS

Report == {"none", "exists", "success", "partial", "failed"}

\* An invocation goes from one stage to another; the others stay.
Step(p) ==
    \E s \in PC, i \in Item, g \in SUBSET (1..Entries), w \in Report :
        /\ pc' = [pc EXCEPT ![p] = s]
        /\ at' = [at EXCEPT ![p] = i]
        /\ good' = [good EXCEPT ![p] = g]
        /\ report' = [report EXCEPT ![p] = w]

CliType ==
    /\ pc \in [Proc -> PC] /\ at \in [Proc -> Item]
    /\ good \in [Proc -> SUBSET (1..Entries)] /\ report \in [Proc -> Report]

\* An attempt is under way.
Importing == {"save", "mark", "target", "update"}

LEMMA StepTypes ==
    ASSUME TypeOK, NEW p \in Proc, Step(p)
    PROVE  CliType'
BY DEF TypeOK, Step, CliType, Report

\* What the others see of it.
LEMMA StepFrames ==
    ASSUME TypeOK, NEW p \in Proc, Step(p), NEW q \in Proc, q # p
    PROVE  pc'[q] = pc[q] /\ at'[q] = at[q] /\ good'[q] = good[q] /\ report'[q] = report[q]
BY DEF TypeOK, Step

LEMMA GotoSteps ==
    ASSUME TypeOK, NEW p \in Proc, NEW s \in PC, NEW i \in Item, Goto(p, s, i)
    PROVE  /\ Step(p)
           /\ pc'[p] = s /\ at'[p] = i /\ good'[p] = good[p] /\ report'[p] = report[p]
<1>1. good' = [good EXCEPT ![p] = good[p]] /\ report' = [report EXCEPT ![p] = report[p]]
  BY DEF Goto, TypeOK
<1>2. good[p] \in SUBSET (1..Entries) /\ report[p] \in Report
  BY DEF TypeOK, Report
<1> QED
  BY <1>1, <1>2 DEF Goto, Step, TypeOK

LEMMA EndSteps ==
    ASSUME TypeOK, NEW p \in Proc, NEW w \in Report, End(p, w)
    PROVE  /\ Step(p)
           /\ pc'[p] = "done" /\ at'[p] = at[p] /\ good'[p] = good[p] /\ report'[p] = w
<1>1. good' = [good EXCEPT ![p] = good[p]] /\ at' = [at EXCEPT ![p] = at[p]]
  BY DEF End, TypeOK
<1>2. good[p] \in SUBSET (1..Entries) /\ at[p] \in Item /\ "done" \in PC
  BY DEF TypeOK, PC
<1> QED
  BY <1>1, <1>2 DEF End, Step, TypeOK

LEMMA ImportSteps ==
    ASSUME TypeOK, NEW p \in Proc, NEW via \in Via, Import(p, via, 1)
    PROVE  /\ Step(p)
           /\ pc'[p] = "save" /\ at'[p].by = p /\ at'[p].via = via
           /\ good'[p] = good[p] /\ report'[p] = report[p]
<1>1. [by |-> p, via |-> via, n |-> 1] \in Item
  BY EntriesAssump DEF Item
<1>2. "save" \in PC
  BY DEF PC, Kind
<1> QED
  BY <1>1, <1>2, GotoSteps DEF Import

\* The existing copy is at hand, or reported.
LEMMA MarkExistingSteps ==
    ASSUME TypeOK, NEW p \in Proc, NEW i \in Item, NEW left, MarkExisting(p, i, left)
    PROVE  /\ Step(p) /\ good'[p] = good[p]
           /\ \/ /\ pc'[p] \in {"coll", "tags", "attach"}
                 /\ pc'[p] = "attach" => "pdf" \in args[p].wanted
                 /\ at'[p] = i /\ report'[p] = report[p]
              \/ pc'[p] = "done" /\ at'[p] = at[p] /\ report'[p] = "exists"
<1>1. CASE "coll" \in left
  <2>1. Goto(p, "coll", i) /\ "coll" \in PC
    BY <1>1 DEF MarkExisting, PC, Kind
  <2> QED
    BY <2>1, GotoSteps
<1>2. CASE "coll" \notin left /\ "tags" \in left
  <2>1. Goto(p, "tags", i) /\ "tags" \in PC
    BY <1>2 DEF MarkExisting, PC, Kind
  <2> QED
    BY <2>1, GotoSteps
<1>3. CASE "coll" \notin left /\ "tags" \notin left /\ "pdf" \in args[p].wanted
  BY <1>3, GotoSteps DEF MarkExisting, PC, Kind
<1>4. CASE "coll" \notin left /\ "tags" \notin left /\ "pdf" \notin args[p].wanted
  BY <1>4, EndSteps DEF MarkExisting, Report
<1> QED
  BY <1>1, <1>2, <1>3, <1>4

\* The next entry, or the sum of all.
LEMMA NextEntrySteps ==
    ASSUME TypeOK, NEW p \in Proc, NEW ok \in BOOLEAN, NextEntry(p, ok)
    PROVE  /\ Step(p)
           /\ good'[p] = good[p] \cup (IF ok THEN {at[p].n} ELSE {})
           /\ \/ /\ pc'[p] = "save" /\ report'[p] = report[p]
                 /\ at'[p].by = at[p].by /\ at'[p].via = at[p].via
              \/ /\ pc'[p] = "done" /\ at'[p] = at[p]
                 /\ report'[p] \in {"success", "partial", "failed"}
                 /\ report'[p] = "success" => good'[p] = 1..Entries
                 /\ report'[p] = "partial" => good'[p] # {}
<1> DEFINE done == good[p] \cup (IF ok THEN {at[p].n} ELSE {})
<1>1. at[p] \in Item /\ at[p].n \in 1..Entries /\ good[p] \in SUBSET (1..Entries)
  BY DEF TypeOK, Item
<1>2. done \in SUBSET (1..Entries) /\ report[p] \in Report /\ "save" \in PC /\ "done" \in PC
  BY <1>1 DEF TypeOK, Report, PC, Kind
<1>3. good' = [good EXCEPT ![p] = done] /\ good'[p] = done
  BY DEF NextEntry, TypeOK
<1>4. CASE at[p].n < Entries
  <2>1. [at[p] EXCEPT !.n = at[p].n + 1] \in Item
    BY <1>1, <1>4, EntriesAssump DEF Item
  <2>2. /\ pc' = [pc EXCEPT ![p] = "save"]
        /\ at' = [at EXCEPT ![p] = [at[p] EXCEPT !.n = at[p].n + 1]]
        /\ report' = [report EXCEPT ![p] = report[p]]
    BY <1>4 DEF NextEntry, TypeOK
  <2>3. Step(p)
    BY <1>2, <1>3, <2>1, <2>2 DEF Step
  <2> QED
    BY <1>1, <1>3, <2>1, <2>2, <2>3 DEF TypeOK, Item
<1>5. CASE ~(at[p].n < Entries)
  <2> DEFINE w == IF done = 1..Entries THEN "success"
                  ELSE IF done = {} THEN "failed" ELSE "partial"
  <2>1. /\ pc' = [pc EXCEPT ![p] = "done"]
        /\ at' = [at EXCEPT ![p] = at[p]]
        /\ report' = [report EXCEPT ![p] = w]
    BY <1>5 DEF NextEntry, TypeOK
  <2>2. w \in Report
    BY DEF Report
  <2>3. Step(p)
    BY <1>1, <1>2, <1>3, <2>1, <2>2 DEF Step
  <2> QED
    BY <1>1, <1>3, <2>1, <2>3 DEF TypeOK
<1> QED
  BY <1>4, <1>5

\* After a success: the next entry, the PDF, or the end.
LEMMA ImportedSteps ==
    ASSUME TypeOK, NEW p \in Proc, Imported(p)
    PROVE  /\ Step(p)
           /\ \/ /\ args[p].job = "split" /\ NextEntry(p, TRUE)
              \/ /\ args[p].job # "split" /\ good'[p] = good[p] /\ at'[p] = at[p]
                 /\ \/ WantsPdf(p) /\ pc'[p] = "attach" /\ report'[p] = report[p]
                    \/ ~WantsPdf(p) /\ pc'[p] = "done" /\ report'[p] = "success"
<1>1. CASE args[p].job = "split"
  <2>1. NextEntry(p, TRUE)
    BY <1>1 DEF Imported
  <2> QED
    BY <1>1, <2>1, NextEntrySteps
<1>2. CASE args[p].job # "split" /\ WantsPdf(p)
  <2>1. Goto(p, "attach", at[p]) /\ "attach" \in PC /\ at[p] \in Item
    BY <1>2 DEF Imported, PC, Kind, TypeOK
  <2> QED
    BY <1>2, <2>1, GotoSteps
<1>3. CASE args[p].job # "split" /\ ~WantsPdf(p)
  <2>1. End(p, "success") /\ "success" \in Report
    BY <1>3 DEF Imported, Report
  <2> QED
    BY <1>3, <2>1, EndSteps
<1> QED
  BY <1>1, <1>2, <1>3

\* After a failure: the next entry, the next source, or the end.
LEMMA NotImportedSteps ==
    ASSUME TypeOK, NEW p \in Proc, NotImported(p)
    PROVE  /\ Step(p)
           /\ \/ /\ args[p].job = "split" /\ NextEntry(p, FALSE)
              \/ /\ args[p].job # "split" /\ good'[p] = good[p]
                 /\ pc'[p] = "save" /\ at'[p].by = p /\ report'[p] = report[p]
              \/ /\ args[p].job # "split" /\ good'[p] = good[p]
                 /\ pc'[p] = "done" /\ at'[p] = at[p] /\ report'[p] = "failed"
<1> DEFINE next == Fallback(args[p], at[p].via)
<1>1. CASE args[p].job = "split"
  <2>1. NextEntry(p, FALSE)
    BY <1>1 DEF NotImported
  <2> QED
    BY <1>1, <2>1, NextEntrySteps
<1>2. CASE args[p].job # "split" /\ next # "none"
  <2>1. Import(p, next, 1)
    BY <1>2 DEF NotImported
  <2>2. next \in Via
    BY <1>2 DEF Fallback, Via
  <2> HIDE DEF next
  <2> QED
    BY <1>2, <2>1, <2>2, ImportSteps
<1>3. CASE args[p].job # "split" /\ next = "none"
  <2>1. End(p, "failed") /\ "failed" \in Report
    BY <1>3 DEF NotImported, Report
  <2> QED
    BY <1>3, <2>1, EndSteps
<1> QED
  BY <1>1, <1>2, <1>3

LEMMA FailedSteps ==
    ASSUME TypeOK, NEW p \in Proc, Failed(p)
    PROVE  /\ Step(p)
           /\ \/ pc[p] \in {"coll", "tags"} /\ AfterMark(p)
              \/ /\ pc[p] = "attach" /\ good'[p] = good[p]
                 /\ pc'[p] = "done" /\ at'[p] = at[p] /\ report'[p] = "partial"
              \/ pc[p] \notin {"coll", "tags", "attach"} /\ NotImported(p)
<1>1. CASE pc[p] \in {"coll", "tags"}
  <2>1. AfterMark(p) /\ at[p] \in Item
    BY <1>1 DEF Failed, TypeOK
  <2> QED
    BY <1>1, <2>1, MarkExistingSteps DEF AfterMark
<1>2. CASE pc[p] = "attach"
  <2>1. End(p, "partial") /\ "partial" \in Report
    BY <1>2 DEF Failed, Report
  <2> QED
    BY <1>2, <2>1, EndSteps
<1>3. CASE pc[p] \notin {"coll", "tags", "attach"}
  <2>1. NotImported(p)
    BY <1>3 DEF Failed
  <2> QED
    BY <1>3, <2>1, NotImportedSteps
<1> QED
  BY <1>1, <1>2, <1>3

-----------------------------------------------------------------------------
(* Types, and what every step leaves standing.                             *)

\* Nothing comes back to its library, and nobody changes the command lines.
Grows ==
    /\ args' = args /\ collection' = collection
    /\ items \subseteq items' /\ gone \subseteq gone'
    /\ \A i \in Item : labels[i] \subseteq labels'[i]

\* The rest of the state, of the right types.
RestType ==
    /\ items \subseteq Item /\ gone \subseteq Item
    /\ labels \in [Item -> SUBSET Label] /\ late \subseteq Request
    /\ present \in [Proc -> SUBSET Item] /\ blind \in [Proc -> BOOLEAN]
    /\ lost \in [Proc -> SUBSET Item]

LEMMA TypeParts ==
    ASSUME TypeOK, Grows, CliType', RestType'
    PROVE  TypeOK'
BY DEF TypeOK, Grows, CliType, RestType, Report

LEMMA RequestTypes ==
    ASSUME TypeOK, NEW r \in Requests
    PROVE  /\ r \in Request /\ r.by \in Proc /\ r.item \in Item /\ r.kind \in Kind
           /\ r \in late \/ Awaited(r)
           /\ Awaited(r) => pc[r.by] = r.kind /\ at[r.by] = r.item
<1>1. CASE r \in late
  BY <1>1 DEF TypeOK, Request, Awaited, Current
<1>2. CASE r \notin late
  <2>1. PICK p \in Proc : pc[p] \in Kind /\ r = Current(p)
    BY <1>2 DEF Requests
  <2> QED
    BY <2>1 DEF TypeOK, Request, Awaited, Current
<1> QED
  BY <1>1, <1>2

\* A failure's bookkeeping.
LEMMA RemainSteps ==
    ASSUME TypeOK, NEW p \in Proc, MayRemain(p)
    PROVE  /\ lost' \in [Proc -> SUBSET Item]
           /\ lost'[p] = lost[p] \cup (IF pc[p] \in Importing THEN {at[p]} ELSE {})
           /\ \A q \in Proc : q # p => lost'[q] = lost[q]
BY DEF TypeOK, MayRemain, Importing

LEMMA MarkSteps ==
    ASSUME TypeOK, NEW r \in Request,
           labels' = [labels EXCEPT ![r.item] = @ \cup Marks(r)]
    PROVE  /\ labels' \in [Item -> SUBSET Label]
           /\ labels'[r.item] = labels[r.item] \cup Marks(r)
           /\ \A i \in Item : labels[i] \subseteq labels'[i]
<1>1. args[r.by] \in Option /\ r.item \in Item
  BY CommandsAssump DEF TypeOK, Request
<1>2. Marks(r) \subseteq Label
  BY <1>1 DEF Marks, Option, Label
<1> QED
  BY <1>1, <1>2 DEF TypeOK

LEMMA BeginSteps ==
    ASSUME TypeOK, NEW p \in Proc, Begin(p)
    PROVE  /\ Step(p) /\ Grows /\ RestType' /\ report'[p] = report[p] /\ good'[p] = good[p]
           /\ \/ pc'[p] = "lookup" /\ args[p].job \in DoiJob
              \/ /\ pc'[p] = (IF args[p].job = "split" THEN "target" ELSE "save")
                 /\ at'[p].by = p
                 /\ args[p].job = "split" => at'[p].via = "split"
                 /\ ~(args[p].job \in DoiJob /\ args[p].policy # "duplicate")
<1>1. present' \in [Proc -> SUBSET Item] /\ Grows /\ RestType'
  BY DEF Begin, TypeOK, RestType, Grows, zotero
<1>2. CASE args[p].job \in DoiJob /\ args[p].policy # "duplicate"
  <2>1. Goto(p, "lookup", at[p]) /\ "lookup" \in PC /\ at[p] \in Item
    BY <1>2 DEF Begin, PC, TypeOK, DoiJob
  <2> QED
    BY <1>1, <1>2, <2>1, GotoSteps
<1>3. CASE args[p].job = "split"
  <2> DEFINE first == [by |-> p, via |-> "split", n |-> 1]
  <2>1. Goto(p, "target", first)
    BY <1>3 DEF Begin, DoiJob
  <2>2. "target" \in PC /\ first \in Item
    BY EntriesAssump DEF PC, Item, Via
  <2>3. first.by = p /\ first.via = "split"
    OBVIOUS
  <2> HIDE DEF first
  <2> QED
    BY <1>1, <1>3, <2>1, <2>2, <2>3, GotoSteps DEF DoiJob
<1>4. CASE args[p].job # "split" /\ ~(args[p].job \in DoiJob /\ args[p].policy # "duplicate")
  <2>1. Import(p, FirstVia(args[p]), 1)
    BY <1>4 DEF Begin
  <2>2. args[p].job \in Job
    BY CommandsAssump DEF TypeOK, Option
  <2>3. FirstVia(args[p]) \in Via
    BY <1>4, <2>2 DEF FirstVia, Via, Job
  <2> QED
    BY <1>1, <1>4, <2>1, <2>3, ImportSteps
<1> QED
  BY <1>2, <1>3, <1>4

LEMMA StepTypesAll ==
    ASSUME TypeOK, NEW p \in Proc, Step(p), Grows, RestType'
    PROVE  TypeOK'
BY StepTypes, TypeParts

\* An attempt fails, or the CLI's own lookup or target: whatever Zotero did
\* of it stays, and it is lost if anything may come of it.
Failing(p) ==
    /\ pc[p] \in Kind \cup {"target"}
    /\ pc[p] = "target" => args[p].job # "split"
    /\ Failed(p)
    /\ items' = items /\ Grows
    /\ lost[p] \subseteq lost'[p]
    /\ pc[p] \in {"mark", "target", "update"} => at[p] \in lost'[p]
    /\ \A q \in Proc : q # p => lost'[q] = lost[q]
    /\ present' = present /\ blind' = blind
    /\ \A r \in late' : r.kind = "save" =>
          r \in late \/ (r.by = p /\ pc[p] = "save" /\ r.item = at[p] /\ at[p] \in lost'[p])

\* A request is answered.
Answering(p) ==
    /\ pc[p] \in Kind
    /\ args' = args /\ collection' = collection
    /\ present' = present /\ blind' = blind /\ lost' = lost /\ late' \subseteq late
    /\ gone \subseteq gone' /\ gone' \subseteq Item
    /\ \E r \in Request :
          /\ r.by = p /\ r.kind = pc[p] /\ r.item = at[p]
          /\ \/ /\ r.kind = "save"
                /\ items' = items \cup {r.item} /\ labels' = labels
                /\ Goto(p, AfterSave(r), r.item)
             \/ /\ r.kind # "save"
                /\ items' = items /\ gone' = gone
                /\ labels' = [labels EXCEPT ![r.item] = @ \cup Marks(r)]
                /\ Answered(r)

\* Zotero serves what nobody waits for.
Unattended ==
    /\ Grows /\ cli' = cli
    /\ present' = present /\ blind' = blind /\ lost' = lost
    /\ \A i \in items' : i \in items \/ (\E r \in late : r.kind = "save" /\ r.item = i)
    /\ \A r \in late' : r.kind = "save" => r \in late

LEMMA FailingTypes ==
    ASSUME TypeOK, NEW p \in Proc, Failing(p), RestType'
    PROVE  Step(p) /\ TypeOK'
<1>1. Step(p)
  BY FailedSteps DEF Failing
<1> QED
  BY <1>1, StepTypesAll DEF Failing

\* A record of a request, served in the process's place, has its fields.
LEMMA TimeOutFails ==
    ASSUME TypeOK, NEW p \in Proc, TimeOut(p)
    PROVE  Failing(p) /\ RestType'
<1>1. Current(p) \in Request /\ Current(p).by = p /\ Current(p).kind = pc[p]
      /\ Current(p).item = at[p]
  BY DEF TimeOut, Current, Request, TypeOK
<1>2. lost' \in [Proc -> SUBSET Item]
      /\ lost'[p] = lost[p] \cup (IF pc[p] \in Importing THEN {at[p]} ELSE {})
      /\ \A q \in Proc : q # p => lost'[q] = lost[q]
  BY RemainSteps DEF TimeOut
<1>3. RestType' /\ Grows
  BY <1>1, <1>2 DEF TimeOut, TypeOK, RestType, Grows
<1>4. pc[p] \in Kind \cup {"target"} /\ (pc[p] = "target" => args[p].job # "split")
  <2>1. pc[p] \in Kind
    BY DEF TimeOut
  <2> QED
    BY <2>1 DEF Kind
<1>5. \A r \in late' : r.kind = "save" =>
         r \in late \/ (r.by = p /\ pc[p] = "save" /\ r.item = at[p] /\ at[p] \in lost'[p])
  BY <1>1, <1>2 DEF TimeOut, Importing
<1> QED
  BY <1>2, <1>3, <1>4, <1>5 DEF TimeOut, Failing, Importing

LEMMA TargetFailsFails ==
    ASSUME TypeOK, NEW p \in Proc, TargetFails(p), args[p].job # "split"
    PROVE  Failing(p) /\ RestType'
<1>1. lost' \in [Proc -> SUBSET Item]
      /\ lost'[p] = lost[p] \cup (IF pc[p] \in Importing THEN {at[p]} ELSE {})
      /\ \A q \in Proc : q # p => lost'[q] = lost[q]
  BY RemainSteps DEF TargetFails
<1>2. RestType' /\ Grows
  BY <1>1 DEF TargetFails, TypeOK, RestType, Grows, zotero
<1>3. Failed(p)
  BY DEF TargetFails, Failed
<1> QED
  BY <1>1, <1>2, <1>3 DEF TargetFails, Failing, Importing, zotero

LEMMA NoKeyFails ==
    ASSUME TypeOK, NEW r \in Requests, NoKey(r)
    PROVE  Failing(r.by) /\ RestType'
<1> DEFINE p == r.by
<1>1. r \in Request /\ p \in Proc /\ pc[p] = "update"
  BY RequestTypes DEF NoKey
<1>2. lost' \in [Proc -> SUBSET Item]
      /\ lost'[p] = lost[p] \cup (IF pc[p] \in Importing THEN {at[p]} ELSE {})
      /\ \A q \in Proc : q # p => lost'[q] = lost[q]
  BY <1>1, RemainSteps DEF NoKey
<1>3. RestType' /\ Grows
  BY <1>1, <1>2, MarkSteps DEF NoKey, TypeOK, RestType, Grows
<1>4. Failed(p)
  BY <1>1 DEF NoKey, Failed
<1> QED
  BY <1>1, <1>2, <1>3, <1>4 DEF NoKey, Failing, Importing, Kind

LEMMA RefuseFails ==
    ASSUME TypeOK, NEW r \in Requests, Refuse(r)
    PROVE  Failing(r.by) /\ RestType'
<1> DEFINE p == r.by
<1>1. r \in Request /\ p \in Proc /\ pc[p] = r.kind /\ r.kind \in Kind
  BY RequestTypes DEF Refuse
<1>2. lost' \in [Proc -> SUBSET Item] /\ lost[p] \subseteq lost'[p]
      /\ (pc[p] \in {"mark", "target", "update"} => at[p] \in lost'[p])
      /\ \A q \in Proc : q # p => lost'[q] = lost[q]
  <2>1. CASE r.kind = "save"
    BY <1>1, <2>1 DEF Refuse, TypeOK
  <2>2. CASE r.kind # "save"
    BY <1>1, <2>2, RemainSteps DEF Refuse, Importing
  <2> QED
    BY <2>1, <2>2
<1>3. RestType' /\ Grows
  BY <1>2 DEF Refuse, TypeOK, RestType, Grows, zotero
<1> QED
  BY <1>1, <1>2, <1>3 DEF Refuse, Failing, Kind, zotero

LEMMA AnsweredSteps ==
    ASSUME TypeOK, NEW r \in Request, r.kind # "save", pc[r.by] = r.kind, Answered(r)
    PROVE  /\ Step(r.by)
           /\ \/ pc[r.by] \in {"mark", "update"} /\ Imported(r.by)
              \/ pc[r.by] \in {"coll", "tags"} /\ AfterMark(r.by)
              \/ /\ pc[r.by] = "attach" /\ good'[r.by] = good[r.by]
                 /\ pc'[r.by] = "done" /\ at'[r.by] = at[r.by] /\ report'[r.by] = "success"
<1> DEFINE p == r.by
<1>1. p \in Proc /\ r.kind \in Kind /\ at[p] \in Item
  BY DEF Request, TypeOK
<1>2. CASE r.kind \in {"mark", "update"}
  BY <1>1, <1>2, ImportedSteps DEF Answered
<1>3. CASE r.kind \in {"coll", "tags"}
  <2>1. AfterMark(p)
    BY <1>3 DEF Answered
  <2> QED
    BY <1>1, <1>3, <2>1, MarkExistingSteps DEF AfterMark
<1>4. CASE r.kind = "attach"
  <2>1. End(p, "success") /\ "success" \in Report
    BY <1>4 DEF Answered, Report
  <2> QED
    BY <1>1, <1>4, <2>1, EndSteps
<1> QED
  BY <1>1, <1>2, <1>3, <1>4 DEF Kind

LEMMA AfterSaveSteps ==
    ASSUME TypeOK, NEW r \in Request
    PROVE  /\ AfterSave(r) \in {"mark", "update", "target"} /\ AfterSave(r) \in PC
           /\ AfterSave(r) = "target" => args[r.by].job # "split"
BY DEF AfterSave, PC, Kind

LEMMA AnsweringTypes ==
    ASSUME TypeOK, NEW p \in Proc, Answering(p)
    PROVE  Step(p) /\ Grows /\ TypeOK'
<1>1. PICK r \in Request :
          /\ r.by = p /\ r.kind = pc[p] /\ r.item = at[p]
          /\ \/ /\ r.kind = "save"
                /\ items' = items \cup {r.item} /\ labels' = labels
                /\ Goto(p, AfterSave(r), r.item)
             \/ /\ r.kind # "save"
                /\ items' = items /\ gone' = gone
                /\ labels' = [labels EXCEPT ![r.item] = @ \cup Marks(r)]
                /\ Answered(r)
  BY DEF Answering
<1>2. r.item \in Item
  BY DEF Request
<1>3. CASE r.kind = "save"
  <2>1. Step(p)
    BY <1>1, <1>2, <1>3, AfterSaveSteps, GotoSteps
  <2>2. Grows /\ RestType'
    BY <1>1, <1>2, <1>3 DEF Answering, Grows, RestType, TypeOK
  <2> QED
    BY <2>1, <2>2, StepTypesAll
<1>4. CASE r.kind # "save"
  <2>1. Step(p)
    BY <1>1, <1>4, AnsweredSteps
  <2>2. Grows /\ RestType'
    BY <1>1, <1>4, MarkSteps DEF Answering, Grows, RestType, TypeOK
  <2> QED
    BY <2>1, <2>2, StepTypesAll
<1> QED
  BY <1>3, <1>4

LEMMA SaveServes ==
    ASSUME TypeOK, NEW r \in Requests, Save(r)
    PROVE  (Answering(r.by) \/ Unattended) /\ RestType'
<1>1. r \in Request /\ r.item \in Item /\ (r \in late \/ Awaited(r))
      /\ (Awaited(r) => pc[r.by] = r.kind /\ at[r.by] = r.item)
  BY RequestTypes
<1>2. CASE Awaited(r)
  <2>1. Goto(r.by, AfterSave(r), r.item) /\ UNCHANGED <<late, lost>>
    BY <1>2 DEF Save
  <2>2. Answering(r.by)
    <3>1. gone \subseteq gone' /\ gone' \subseteq Item
      BY <1>1 DEF Save, TypeOK
    <3>2. /\ r.kind = "save" /\ items' = items \cup {r.item} /\ labels' = labels
          /\ args' = args /\ collection' = collection
          /\ present' = present /\ blind' = blind
      BY DEF Save
    <3>3. pc[r.by] \in Kind
      BY <1>1, <1>2, <3>2 DEF Kind
    <3> QED
      BY <1>1, <1>2, <2>1, <3>1, <3>2, <3>3 DEF Answering
  <2> QED
    BY <1>1, <2>1, <2>2 DEF Save, RestType, TypeOK
<1>3. CASE ~Awaited(r)
  <2> DEFINE next == [r EXCEPT !.kind = "mark"]
  <2>1. next \in Request /\ next.kind = "mark"
    BY <1>1 DEF Request, Kind
  <2>2. Unheard /\ (late' = late \ {r} \/ late' = (late \ {r}) \cup {next})
    BY <1>3 DEF Save
  <2> HIDE DEF next
  <2>3. late' \subseteq Request /\ \A s \in late' : s.kind = "save" => s \in late
    BY <2>1, <2>2 DEF TypeOK
  <2>4. items' = items \cup {r.item} /\ r.kind = "save" /\ r \in late
    BY <1>1, <1>3 DEF Save
  <2>5. Grows /\ RestType'
    BY <1>1, <2>2, <2>3, <2>4 DEF Save, Grows, RestType, TypeOK, Unheard
  <2> QED
    BY <2>2, <2>3, <2>4, <2>5 DEF Save, Unattended, Unheard
<1> QED
  BY <1>2, <1>3

LEMMA PerformServes ==
    ASSUME TypeOK, NEW r \in Requests, Perform(r)
    PROVE  (Answering(r.by) \/ Unattended) /\ RestType'
<1>1. r \in Request /\ r.item \in Item /\ r.kind \in Kind
      /\ (Awaited(r) => pc[r.by] = r.kind /\ at[r.by] = r.item)
  BY RequestTypes
<1>2. RestType' /\ Grows
  <2>1. lost' = lost
    BY DEF Perform, Unheard
  <2> QED
    BY <1>1, <2>1, MarkSteps DEF Perform, RestType, Grows, TypeOK
<1>3. CASE Awaited(r)
  <2>1. Answering(r.by)
    BY <1>1, <1>3 DEF Perform, Answering, TypeOK
  <2> QED
    BY <1>2, <2>1
<1>4. CASE ~Awaited(r)
  <2>1. Unattended
    BY <1>2, <1>4 DEF Perform, Unattended, Unheard
  <2> QED
    BY <1>2, <2>1
<1> QED
  BY <1>3, <1>4

\* The invocations' steps, gathered by what they do.
Beside(p) ==
    \/ Begin(p) \/ LookupFinds(p) \/ LookupFindsNone(p) \/ LookupFails(p)
    \/ ResolveTarget(p)
    \/ TargetFails(p) /\ args[p].job = "split"
    \/ Failing(p)
    \/ Answering(p)

LEMMA NextSteps ==
    ASSUME TypeOK, Next
    PROVE  RestType' /\ (Unattended \/ \E p \in Proc : Beside(p))
<1>0. CASE \E i \in items : Erase(i)
  <2>1. PICK i \in items : Erase(i)
    BY <1>0
  <2>2. i \in Item /\ gone' = gone \cup {i}
    BY <2>1 DEF Erase, TypeOK
  <2>3. Grows /\ RestType'
    BY <2>1, <2>2 DEF Erase, Grows, RestType, TypeOK
  <2> QED
    BY <2>1, <2>3 DEF Erase, Unattended
<1>1. CASE \E r \in Requests : Save(r) \/ Perform(r) \/ NoKey(r) \/ Refuse(r)
  <2>1. PICK r \in Requests : Save(r) \/ Perform(r) \/ NoKey(r) \/ Refuse(r)
    BY <1>1
  <2>2. r.by \in Proc
    BY RequestTypes
  <2> QED
    BY <2>1, <2>2, SaveServes, PerformServes, NoKeyFails, RefuseFails DEF Beside
<1>2. CASE \E p \in Proc : Cli(p)
  <2>1. PICK p \in Proc : Cli(p)
    BY <1>2
  <2>2. CASE TimeOut(p) \/ (TargetFails(p) /\ args[p].job # "split")
    BY <2>2, TimeOutFails, TargetFailsFails DEF Beside
  <2>3. CASE \/ Begin(p) \/ LookupFinds(p) \/ LookupFindsNone(p) \/ LookupFails(p)
             \/ ResolveTarget(p)
             \/ TargetFails(p) /\ args[p].job = "split"
    <3>1. RestType'
      BY <2>3 DEF Begin, LookupFinds, LookupFindsNone, LookupFails, ResolveTarget, TargetFails,
                  zotero, RestType, TypeOK
    <3> QED
      BY <2>3, <3>1 DEF Beside
  <2> QED
    BY <2>1, <2>2, <2>3 DEF Cli
<1> QED
  BY <1>0, <1>1, <1>2 DEF Next, Zotero

\* The steps of the invocation alone.
LEMMA LookupFindsSteps ==
    ASSUME TypeOK, NEW p \in Proc, LookupFinds(p)
    PROVE  /\ Step(p) /\ Grows /\ RestType' /\ pc[p] = "lookup" /\ good'[p] = good[p]
           /\ \/ /\ pc'[p] \in {"coll", "tags", "attach"}
                 /\ pc'[p] = "attach" => "pdf" \in args[p].wanted
                 /\ at'[p] \in items /\ report'[p] = report[p]
              \/ pc'[p] = "done" /\ at'[p] = at[p] /\ report'[p] = "exists"
<1>1. PICK i \in items \ gone : MarkExisting(p, i, IF args[p].policy = "file" THEN args[p].wanted ELSE {})
  BY DEF LookupFinds
<1>2. i \in Item
  BY DEF TypeOK
<1>3. Grows /\ RestType'
  BY DEF LookupFinds, Grows, RestType, TypeOK, zotero
<1> QED
  BY <1>1, <1>2, <1>3, MarkExistingSteps DEF LookupFinds

LEMMA LookupLeavesSteps ==
    ASSUME TypeOK, NEW p \in Proc, LookupFindsNone(p) \/ LookupFails(p), args[p].job \in DoiJob
    PROVE  /\ Step(p) /\ Grows /\ RestType' /\ pc[p] = "lookup" /\ pc'[p] = "save"
           /\ at'[p].by = p /\ good'[p] = good[p] /\ report'[p] = report[p]
<1>1. FirstVia(args[p]) \in Via
  BY DEF FirstVia, Via, DoiJob
<1>2. Import(p, FirstVia(args[p]), 1)
  BY DEF LookupFindsNone, LookupFails
<1>3. Grows /\ RestType'
  BY DEF LookupFindsNone, LookupFails, Grows, RestType, TypeOK, zotero
<1> QED
  BY <1>1, <1>2, <1>3, ImportSteps DEF LookupFindsNone, LookupFails

LEMMA ResolveTargetSteps ==
    ASSUME TypeOK, NEW p \in Proc, ResolveTarget(p)
    PROVE  /\ Step(p) /\ Grows /\ RestType' /\ pc[p] = "target" /\ at'[p] = at[p]
           /\ good'[p] = good[p] /\ report'[p] = report[p]
           /\ pc'[p] = (IF args[p].job = "split" THEN "save" ELSE "update")
<1>1. Grows /\ RestType'
  BY DEF ResolveTarget, Grows, RestType, TypeOK, zotero
<1>2. at[p] \in Item /\ "save" \in PC /\ "update" \in PC
  BY DEF TypeOK, PC, Kind
<1> QED
  BY <1>1, <1>2, GotoSteps DEF ResolveTarget

LEMMA TargetEndsSteps ==
    ASSUME TypeOK, NEW p \in Proc, TargetFails(p), args[p].job = "split"
    PROVE  /\ Step(p) /\ Grows /\ RestType' /\ pc[p] = "target" /\ pc'[p] = "done"
           /\ at'[p] = at[p] /\ good'[p] = good[p] /\ report'[p] = "failed"
<1>1. Grows /\ RestType'
  BY DEF TargetFails, Grows, RestType, TypeOK, zotero
<1>2. End(p, "failed") /\ "failed" \in Report
  BY DEF TargetFails, Report
<1> QED
  BY <1>1, <1>2, EndSteps DEF TargetFails

-----------------------------------------------------------------------------
(* The invariant, one invocation at a time.                                *)

\* Imports given up by the invocation and yet to be served.
LateSaves(p) == {r \in late : r.by = p /\ r.kind = "save"}

\* Where it is in its plan.
Plan(p) ==
    /\ report[p] # "none" => pc[p] = "done"
    /\ pc[p] = "lookup" => args[p].job \in DoiJob
    /\ pc[p] \in Importing =>
          at[p].by = p /\ (args[p].job = "split" => at[p].via = "split")
    /\ \A r \in LateSaves(p) : r.item.by = p /\ r.item \in lost[p]

\* Before the lookup ended it has imported nothing.
Untouched(p) ==
    /\ pc[p] \in {"idle", "lookup"} => Of(p) = {} /\ LateSaves(p) = {}
    /\ pc[p] = "idle" => present[p] = {}

\* What it could have found is still there.
Known(p) == \A i \in present[p] : i \in items /\ Findable(i)

Reuses(p) ==
    /\ args[p].job \in DoiJob /\ args[p].policy # "duplicate"
    /\ present[p] \ gone # {} /\ ~blind[p]

\* A copy that has left its library does not come back.
LEMMA ReusesLess ==
    ASSUME NEW p \in Proc, Grows, present'[p] = present[p], blind[p] => blind'[p]
    PROVE  /\ Reuses(p)' => Reuses(p)
           /\ present[p] \subseteq gone => ~Reuses(p)'
<1>1. present'[p] \ gone' \subseteq present[p] \ gone
  BY DEF Grows
<1> QED
  BY <1>1 DEF Reuses, Grows

\* With a copy to find, it found one and left the imports alone.
Kept(p) == Reuses(p) => Of(p) = {} /\ LateSaves(p) = {} /\ pc[p] \notin Importing

\* What it imported is lost, went well, or is the item at hand.
Accounted(p) ==
    \A i \in Of(p) :
        \/ i \in lost[p]
        \/ i.via = "split" /\ i.n \in good[p]
        \/ /\ i = at[p]
           /\ \/ pc[p] \in {"mark", "update", "attach"}
              \/ pc[p] = "target" /\ args[p].job # "split"
              \/ pc[p] = "done" /\ report[p] \in {"success", "partial"}

Entry(p, n) == [by |-> p, via |-> "split", n |-> n]

Filed(p, i) == i \in items /\ Reachable(p, i) \subseteq labels[i]

\* What was answered so far is so in Zotero.
Served(p) ==
    /\ pc[p] \in {"mark", "update"} => at[p] \in items
    /\ pc[p] = "target" /\ args[p].job # "split" => at[p] \in items
    /\ pc[p] \in {"coll", "tags"} => at[p] \in items /\ at[p].by # p
    /\ pc[p] = "attach" =>
          /\ at[p] \in items /\ "pdf" \in args[p].wanted
          /\ at[p].by = p => Reachable(p, at[p]) \ {"pdf"} \subseteq labels[at[p]]
    /\ args[p].job = "split" => \A n \in good[p] : Filed(p, Entry(p, n))

\* And so is what was reported.
Told(p) ==
    /\ args[p].job = "split" /\ report[p] = "success" => good[p] = 1..Entries
    /\ args[p].job = "split" /\ report[p] = "partial" => good[p] # {}
    /\ args[p].job # "split" /\ report[p] = "success" =>
          /\ at[p].by = p => Filed(p, at[p])
          /\ at[p].by # p => at[p] \in items /\ (at[p] \in gone \/ "pdf" \in labels[at[p]])

Sound(p) ==
    /\ Plan(p) /\ Untouched(p) /\ Known(p) /\ Kept(p) /\ Accounted(p) /\ Served(p)
    /\ Told(p)

IInv == TypeOK /\ \A p \in Proc : Sound(p)

\* The invariant gives what is checked.
LEMMA NoSecondCopyFollows == IInv => NoSecondCopy
BY DEF IInv, Sound, Kept, Reuses, NoSecondCopy

LEMMA CopiesAccountedForFollows == IInv => CopiesAccountedFor
<1> SUFFICES ASSUME IInv, NEW p \in Proc, NEW i \in Of(p)
             PROVE  \/ i.via = "split" /\ i.n \in good[p]
                    \/ i = at[p] /\ report[p] \in {"none", "success", "partial"}
                    \/ i \in lost[p]
  BY DEF CopiesAccountedFor
<1> QED
  BY DEF IInv, Sound, Plan, Accounted

LEMMA SuccessMeansDoneFollows == IInv => SuccessMeansDone
<1> SUFFICES ASSUME IInv, NEW p \in Proc
             PROVE  /\ args[p].job = "split" /\ report[p] = "success" =>
                          \A n \in 1..Entries : Filed(p, Entry(p, n))
                    /\ args[p].job = "split" /\ report[p] = "partial" =>
                          \E n \in 1..Entries : Filed(p, Entry(p, n))
                    /\ args[p].job # "split" /\ report[p] = "success" =>
                          IF at[p].by = p THEN Filed(p, at[p])
                          ELSE at[p] \in items /\ (at[p] \in gone \/ "pdf" \in labels[at[p]])
  BY DEF SuccessMeansDone, Filed, Entry
<1>1. good[p] \subseteq 1..Entries
  BY DEF IInv, TypeOK
<1>2. Served(p) /\ Told(p)
  BY DEF IInv, Sound
<1>3. args[p].job = "split" => \A n \in good[p] : Filed(p, Entry(p, n))
  BY <1>2 DEF Served
<1>4. args[p].job = "split" /\ report[p] = "success" => \A n \in 1..Entries : Filed(p, Entry(p, n))
  BY <1>2, <1>3 DEF Told
<1>5. args[p].job = "split" /\ report[p] = "partial" => \E n \in 1..Entries : Filed(p, Entry(p, n))
  BY <1>1, <1>2, <1>3 DEF Told
<1> QED
  BY <1>2, <1>4, <1>5 DEF Told

LEMMA InitSound == Init => IInv
<1> SUFFICES ASSUME Init PROVE IInv
  OBVIOUS
<1>1. Old \in Item /\ Old.by = User
  BY EntriesAssump DEF Old, Item, Via
<1>2. TypeOK
  BY <1>1 DEF Init, TypeOK, PC
<1> SUFFICES ASSUME NEW p \in Proc PROVE Sound(p)
  BY <1>2 DEF IInv
<1>3. Of(p) = {} /\ LateSaves(p) = {}
  BY <1>1, UserAssump DEF Init, Of, LateSaves
<1> QED
  BY <1>3 DEF Init, Sound, Plan, Untouched, Known, Kept, Reuses, Accounted, Served, Told, Importing

-----------------------------------------------------------------------------
(* The others' steps.                                                      *)

Bystander(q) ==
    /\ Grows
    /\ pc'[q] = pc[q] /\ at'[q] = at[q] /\ good'[q] = good[q] /\ report'[q] = report[q]
    /\ present'[q] = present[q] /\ blind'[q] = blind[q] /\ lost'[q] = lost[q]
    /\ \A i \in items' : i.by = q => i \in items \/ (\E r \in LateSaves(q) : r.item = i)
    /\ LateSaves(q)' \subseteq LateSaves(q)

\* Where something is filed it stays.
LEMMA FiledStays ==
    ASSUME TypeOK, Grows, NEW p \in Proc, NEW i \in Item
    PROVE  /\ Reachable(p, i)' \subseteq Reachable(p, i)
           /\ Filed(p, i) => Filed(p, i)'
<1>1. Reachable(p, i)' \subseteq Reachable(p, i)
  BY DEF Reachable, AttachFinds, Grows
<1> QED
  BY <1>1 DEF Filed, Grows

LEMMA BystanderKeeps ==
    ASSUME TypeOK, NEW q \in Proc, Sound(q), Bystander(q)
    PROVE  Sound(q)'
<1> USE DEF Bystander
<1>1. Plan(q)'
  BY DEF Sound, Plan, Grows
<1>2. Untouched(q)'
  BY DEF Sound, Untouched, Of
<1>3. Known(q)'
  BY DEF Sound, Known, Grows
<1>4. Kept(q)'
  BY DEF Sound, Kept, Reuses, Of, Grows
<1>5. Accounted(q)'
  BY DEF Sound, Accounted, Plan, Of, Grows
<1>6. Served(q)'
  <2>1. at[q] \in Item /\ \A n \in good[q] : Entry(q, n) \in Item
    BY DEF TypeOK, Item, Entry, Via
  <2>2. Reachable(q, at[q])' \subseteq Reachable(q, at[q]) /\ labels[at[q]] \subseteq labels'[at[q]]
    BY <2>1, FiledStays DEF Grows
  <2>3. args[q].job = "split" => \A n \in good'[q] : Filed(q, Entry(q, n))'
    BY <2>1, FiledStays DEF Sound, Served, Entry
  <2> QED
    BY <2>2, <2>3 DEF Sound, Served, Grows
<1>7. Told(q)'
  <2>1. at[q] \in Item
    BY DEF TypeOK
  <2>2. Filed(q, at[q]) => Filed(q, at[q])'
    BY <2>1, FiledStays
  <2> QED
    BY <2>1, <2>2 DEF Sound, Told, Grows
<1> QED
  BY <1>1, <1>2, <1>3, <1>4, <1>5, <1>6, <1>7 DEF Sound

LEMMA UnattendedStands ==
    ASSUME TypeOK, NEW q \in Proc, \A p \in Proc : Sound(p), Unattended
    PROVE  Bystander(q)
<1>1. \A i \in items' : i.by = q => i \in items \/ (\E r \in LateSaves(q) : r.item = i)
  <2> SUFFICES ASSUME NEW i \in items', i.by = q, i \notin items
               PROVE  \E r \in LateSaves(q) : r.item = i
    OBVIOUS
  <2>1. PICK r \in late : r.kind = "save" /\ r.item = i
    BY DEF Unattended
  <2>2. r.by \in Proc /\ r \in LateSaves(r.by)
    BY <2>1 DEF TypeOK, Request, LateSaves
  <2>3. r.item.by = r.by
    BY <2>2 DEF Sound, Plan
  <2> QED
    BY <2>1, <2>2, <2>3
<1>2. LateSaves(q)' \subseteq LateSaves(q)
  BY DEF Unattended, LateSaves
<1> QED
  BY <1>1, <1>2 DEF Unattended, Bystander, cli

\* An invocation's own step, seen by another.
LEMMA BesideStands ==
    ASSUME TypeOK, NEW p \in Proc, NEW q \in Proc, q # p, Sound(p), Beside(p), Step(p), Grows
    PROVE  Bystander(q)
<1>1. pc'[q] = pc[q] /\ at'[q] = at[q] /\ good'[q] = good[q] /\ report'[q] = report[q]
  BY StepFrames
<1>2. present'[q] = present[q] /\ blind'[q] = blind[q] /\ lost'[q] = lost[q]
  BY DEF Beside, Begin, LookupFinds, LookupFindsNone, LookupFails, ResolveTarget, TargetFails,
         Failing, Answering, TypeOK, zotero
<1>3. LateSaves(q)' \subseteq LateSaves(q)
  BY DEF Beside, Begin, LookupFinds, LookupFindsNone, LookupFails, ResolveTarget, TargetFails,
         Failing, Answering, LateSaves, zotero
<1>4. \A i \in items' : i.by = q => i \in items
  <2>1. CASE Answering(p)
    <3>1. pc[p] = "save" => at[p].by = p
      BY DEF Sound, Plan, Importing
    <3> QED
      BY <2>1, <3>1 DEF Answering
  <2>2. CASE ~Answering(p)
    BY <2>2 DEF Beside, Begin, LookupFinds, LookupFindsNone, LookupFails, ResolveTarget,
                TargetFails, Failing, zotero
  <2> QED
    BY <2>1, <2>2
<1> QED
  BY <1>1, <1>2, <1>3, <1>4 DEF Bystander

-----------------------------------------------------------------------------
(* An invocation's own steps.                                              *)

\* Zotero, and what is remembered of it, as before.
Undisturbed(p) ==
    /\ Grows /\ items' = items
    /\ labels' = labels /\ lost'[p] = lost[p] /\ LateSaves(p)' = LateSaves(p)

\* Entries that went well stay filed.
LEMMA EntriesStayFiled ==
    ASSUME TypeOK, NEW p \in Proc, Served(p), Grows, args[p].job = "split"
    PROVE  \A n \in good[p] : Filed(p, Entry(p, n))'
<1>1. \A n \in good[p] : Entry(p, n) \in Item /\ Filed(p, Entry(p, n))
  BY DEF TypeOK, Item, Entry, Via, Served
<1> QED
  BY <1>1, FiledStays DEF Entry

LEMMA BeginKeeps ==
    ASSUME TypeOK, NEW p \in Proc, Sound(p), Begin(p)
    PROVE  Sound(p)'
<1>1. /\ good'[p] = good[p] /\ report'[p] = report[p] /\ pc[p] = "idle"
      /\ \/ pc'[p] = "lookup" /\ args[p].job \in DoiJob
         \/ /\ pc'[p] = (IF args[p].job = "split" THEN "target" ELSE "save")
            /\ at'[p].by = p
            /\ args[p].job = "split" => at'[p].via = "split"
            /\ ~(args[p].job \in DoiJob /\ args[p].policy # "duplicate")
  BY BeginSteps DEF Begin
<1>2. /\ Undisturbed(p) /\ blind' = blind
      /\ present'[p] = {i \in items \ gone : Findable(i)}
  BY DEF Begin, Undisturbed, Grows, LateSaves, zotero, TypeOK
<1>3. Of(p) = {} /\ LateSaves(p) = {} /\ report[p] = "none"
  BY <1>1 DEF Sound, Untouched, Plan
<1>4. Of(p)' = {} /\ LateSaves(p)' = {}
  BY <1>2, <1>3 DEF Undisturbed, Of
<1>5. Plan(p)'
  BY <1>1, <1>2, <1>3, <1>4 DEF Plan, Undisturbed, Grows, Importing
<1>6. Untouched(p)' /\ Known(p)' /\ Accounted(p)'
  BY <1>1, <1>2, <1>4 DEF Untouched, Known, Accounted, Undisturbed
<1>7. Kept(p)'
  BY <1>1, <1>2, <1>4 DEF Kept, Reuses, Importing, Undisturbed, Grows
<1>8. Served(p)' /\ Told(p)'
  <2>1. args[p].job = "split" => \A n \in good'[p] : Filed(p, Entry(p, n))'
    BY <1>1, <1>2, EntriesStayFiled DEF Undisturbed, Sound
  <2>2. pc'[p] = "target" => args[p].job = "split"
    BY <1>1
  <2> QED
    BY <1>1, <1>2, <1>3, <2>1, <2>2 DEF Served, Told, Undisturbed, Grows
<1> QED
  BY <1>5, <1>6, <1>7, <1>8 DEF Sound

LEMMA LookupFindsKeeps ==
    ASSUME TypeOK, NEW p \in Proc, Sound(p), LookupFinds(p)
    PROVE  Sound(p)'
<1>1. /\ good'[p] = good[p] /\ pc[p] = "lookup"
      /\ \/ /\ pc'[p] \in {"coll", "tags", "attach"}
            /\ pc'[p] = "attach" => "pdf" \in args[p].wanted
            /\ at'[p] \in items /\ report'[p] = report[p]
         \/ pc'[p] = "done" /\ at'[p] = at[p] /\ report'[p] = "exists"
  BY LookupFindsSteps
<1>2. Undisturbed(p) /\ blind' = blind /\ present' = present
  BY DEF LookupFinds, Undisturbed, Grows, LateSaves, zotero, TypeOK
<1>3. Of(p) = {} /\ LateSaves(p) = {} /\ args[p].job \in DoiJob /\ report[p] = "none"
  BY <1>1 DEF Sound, Untouched, Plan
<1>4. Of(p)' = {} /\ LateSaves(p)' = {}
  BY <1>2, <1>3 DEF Undisturbed, Of
<1>5. pc'[p] \in {"coll", "tags", "attach"} => at'[p].by # p
  BY <1>1, <1>3 DEF Of
<1>6. Plan(p)' /\ Untouched(p)' /\ Accounted(p)'
  BY <1>1, <1>2, <1>3, <1>4 DEF Plan, Untouched, Accounted, Undisturbed, Grows, Importing
<1>7. Known(p)' /\ Kept(p)'
  BY <1>1, <1>2, <1>4 DEF Sound, Known, Kept, Reuses, Undisturbed, Grows, Importing
<1>8. Served(p)' /\ Told(p)'
  BY <1>1, <1>2, <1>3, <1>5 DEF Served, Told, Undisturbed, Grows, DoiJob
<1> QED
  BY <1>6, <1>7, <1>8 DEF Sound

LEMMA LookupLeavesKeeps ==
    ASSUME TypeOK, NEW p \in Proc, Sound(p), LookupFindsNone(p) \/ LookupFails(p)
    PROVE  Sound(p)'
<1>1. pc[p] = "lookup" /\ args[p].job \in DoiJob
  BY DEF LookupFindsNone, LookupFails, Sound, Plan
<1>2. /\ pc'[p] = "save" /\ at'[p].by = p /\ good'[p] = good[p] /\ report'[p] = report[p]
  BY <1>1, LookupLeavesSteps
<1>3. Undisturbed(p) /\ present' = present
  BY DEF LookupFindsNone, LookupFails, Undisturbed, Grows, LateSaves, zotero, TypeOK
<1>4. Of(p) = {} /\ LateSaves(p) = {} /\ report[p] = "none"
  BY <1>1 DEF Sound, Untouched, Plan
<1>5. Of(p)' = {} /\ LateSaves(p)' = {}
  BY <1>3, <1>4 DEF Undisturbed, Of
<1>6. Plan(p)' /\ Untouched(p)' /\ Accounted(p)'
  BY <1>1, <1>2, <1>3, <1>4, <1>5
  DEF Plan, Untouched, Accounted, Undisturbed, Grows, DoiJob
<1>7. Known(p)'
  BY <1>3 DEF Sound, Known, Undisturbed
<1>8. ~Reuses(p)'
  <2>1. CASE LookupFindsNone(p)
    <3>1. present[p] \subseteq gone
      BY <2>1 DEF LookupFindsNone, Sound, Known
    <3> QED
      BY <1>3, <2>1, <3>1, ReusesLess DEF Undisturbed, LookupFindsNone
  <2>2. CASE LookupFails(p)
    BY <2>2 DEF LookupFails, Reuses, TypeOK
  <2> QED
    BY <2>1, <2>2
<1>9. Served(p)' /\ Told(p)'
  BY <1>1, <1>2, <1>3, <1>4 DEF Served, Told, Undisturbed, Grows, DoiJob
<1> QED
  BY <1>6, <1>7, <1>8, <1>9 DEF Sound, Kept

LEMMA ResolveTargetKeeps ==
    ASSUME TypeOK, NEW p \in Proc, Sound(p), ResolveTarget(p)
    PROVE  Sound(p)'
<1>1. /\ pc[p] = "target" /\ at'[p] = at[p] /\ good'[p] = good[p] /\ report'[p] = report[p]
      /\ pc'[p] = (IF args[p].job = "split" THEN "save" ELSE "update")
  BY ResolveTargetSteps
<1>2. Undisturbed(p) /\ blind' = blind /\ present' = present
  BY DEF ResolveTarget, Undisturbed, Grows, LateSaves, zotero, TypeOK
<1>3. Plan(p)' /\ Untouched(p)'
  BY <1>1, <1>2 DEF Sound, Plan, Untouched, Undisturbed, Grows, Importing
<1>4. Known(p)' /\ Kept(p)'
  BY <1>1, <1>2 DEF Sound, Known, Kept, Reuses, Of, Undisturbed, Grows, Importing
<1>5. Accounted(p)'
  BY <1>1, <1>2 DEF Sound, Accounted, Of, Undisturbed, Grows
<1>6. Served(p)'
  <2>1. args[p].job = "split" => \A n \in good'[p] : Filed(p, Entry(p, n))'
    BY <1>1, <1>2, EntriesStayFiled DEF Undisturbed, Sound
  <2> QED
    BY <1>1, <1>2, <2>1 DEF Sound, Served, Undisturbed, Grows
<1>7. Told(p)'
  BY <1>1, <1>2, <1>3 DEF Sound, Plan, Told, Undisturbed, Grows
<1> QED
  BY <1>3, <1>4, <1>5, <1>6, <1>7 DEF Sound

LEMMA TargetEndsKeeps ==
    ASSUME TypeOK, NEW p \in Proc, Sound(p), TargetFails(p), args[p].job = "split"
    PROVE  Sound(p)'
<1>1. /\ pc[p] = "target" /\ pc'[p] = "done" /\ at'[p] = at[p] /\ good'[p] = good[p]
      /\ report'[p] = "failed"
  BY TargetEndsSteps
<1>2. Undisturbed(p) /\ blind' = blind /\ present' = present
  BY DEF TargetFails, Undisturbed, Grows, LateSaves, zotero, TypeOK
<1>3. Plan(p)' /\ Untouched(p)'
  BY <1>1, <1>2 DEF Sound, Plan, Untouched, Undisturbed, Grows, Importing
<1>4. Known(p)' /\ Kept(p)'
  BY <1>1, <1>2 DEF Sound, Known, Kept, Reuses, Of, Undisturbed, Grows, Importing
<1>5. Accounted(p)'
  BY <1>1, <1>2 DEF Sound, Accounted, Of, Undisturbed, Grows
<1>6. Served(p)'
  <2>1. \A n \in good'[p] : Filed(p, Entry(p, n))'
    BY <1>1, <1>2, EntriesStayFiled DEF Undisturbed, Sound
  <2> QED
    BY <1>1, <1>2, <2>1 DEF Sound, Served, Undisturbed, Grows
<1>7. Told(p)'
  BY <1>1, <1>2 DEF Told, Undisturbed, Grows
<1> QED
  BY <1>3, <1>4, <1>5, <1>6, <1>7 DEF Sound

\* A step that imports nothing; a request given up is entered as lost.
Unimporting(p) ==
    /\ Grows /\ items' = items /\ lost[p] \subseteq lost'[p]
    /\ present' = present /\ blind' = blind
    /\ \A r \in LateSaves(p)' :
          r \in LateSaves(p) \/ (pc[p] = "save" /\ r.item = at[p] /\ at[p] \in lost'[p])

LEMMA UnimportingKeeps ==
    ASSUME TypeOK, NEW p \in Proc, Sound(p), Unimporting(p), pc[p] \notin {"idle", "lookup"}
    PROVE  /\ Of(p)' = Of(p) /\ Known(p)'
           /\ \A r \in LateSaves(p)' : r.item.by = p /\ r.item \in lost'[p]
           /\ pc[p] \in Importing => ~Reuses(p)'
           /\ Reuses(p)' => Of(p)' = {} /\ LateSaves(p)' = {}
<1>1. Of(p)' = Of(p) /\ Known(p)'
  BY DEF Of, Unimporting, Sound, Known
<1>2. \A r \in LateSaves(p)' : r.item.by = p /\ r.item \in lost'[p]
  BY DEF Unimporting, Sound, Plan, Importing
<1>3. Reuses(p)' => Reuses(p)
  BY ReusesLess DEF Unimporting
<1>4. pc[p] \in Importing => ~Reuses(p)'
  BY <1>3 DEF Sound, Kept
<1>5. Reuses(p) => LateSaves(p)' = {}
  <2>1. Reuses(p) => LateSaves(p) = {} /\ pc[p] # "save"
    BY DEF Sound, Kept, Importing
  <2> QED
    BY <2>1 DEF Unimporting
<1> QED
  BY <1>1, <1>2, <1>3, <1>4, <1>5 DEF Sound, Kept

LEMMA AfterMarkKeeps ==
    ASSUME TypeOK, NEW p \in Proc, Sound(p), Unimporting(p), pc[p] \in {"coll", "tags"},
           AfterMark(p)
    PROVE  Sound(p)'
<1>1. at[p] \in Item
  BY DEF TypeOK
<1>2. /\ good'[p] = good[p] /\ at'[p] = at[p]
      /\ \/ /\ pc'[p] \in {"coll", "tags", "attach"}
            /\ pc'[p] = "attach" => "pdf" \in args[p].wanted
            /\ report'[p] = report[p]
         \/ pc'[p] = "done" /\ report'[p] = "exists"
  BY <1>1, MarkExistingSteps DEF AfterMark
<1>3. /\ Of(p)' = Of(p) /\ Known(p)'
      /\ \A r \in LateSaves(p)' : r.item.by = p /\ r.item \in lost'[p]
      /\ Reuses(p)' => Of(p)' = {} /\ LateSaves(p)' = {}
  BY UnimportingKeeps
<1>4. Plan(p)'
  BY <1>2, <1>3 DEF Sound, Plan, Importing
<1>5. Untouched(p)' /\ Kept(p)'
  BY <1>2, <1>3 DEF Untouched, Kept, Importing
<1>6. Accounted(p)'
  BY <1>2, <1>3 DEF Sound, Accounted, Unimporting
<1>7. Served(p)'
  <2>1. args[p].job = "split" => \A n \in good'[p] : Filed(p, Entry(p, n))'
    BY <1>2, EntriesStayFiled DEF Unimporting, Sound
  <2> QED
    BY <1>2, <2>1 DEF Sound, Served, Unimporting, Grows
<1>8. Told(p)'
  BY <1>2 DEF Sound, Plan, Told, Unimporting, Grows
<1> QED
  BY <1>3, <1>4, <1>5, <1>6, <1>7, <1>8 DEF Sound

\* A split file goes on, or sums up.
LEMMA NextEntryKeeps ==
    ASSUME TypeOK, NEW p \in Proc, Sound(p), Unimporting(p), NEW ok \in BOOLEAN,
           args[p].job = "split", pc[p] \in {"save", "mark", "update"}, NextEntry(p, ok),
           \A i \in Item : ok /\ i = at[p] => Filed(p, i)',
           ~ok /\ pc[p] # "save" => at[p] \in lost'[p],
           ok => pc[p] # "save"
    PROVE  Sound(p)'
<1>1. /\ good'[p] = good[p] \cup (IF ok THEN {at[p].n} ELSE {})
      /\ \/ /\ pc'[p] = "save" /\ report'[p] = report[p]
            /\ at'[p].by = at[p].by /\ at'[p].via = at[p].via
         \/ /\ pc'[p] = "done" /\ at'[p] = at[p]
            /\ report'[p] \in {"success", "partial", "failed"}
            /\ report'[p] = "success" => good'[p] = 1..Entries
            /\ report'[p] = "partial" => good'[p] # {}
  BY NextEntrySteps
<1>2. /\ Of(p)' = Of(p) /\ Known(p)' /\ ~Reuses(p)'
      /\ \A r \in LateSaves(p)' : r.item.by = p /\ r.item \in lost'[p]
  BY UnimportingKeeps DEF Importing
<1>3. at[p].by = p /\ at[p].via = "split" /\ args'[p].job = "split" /\ report[p] = "none"
  BY DEF Sound, Plan, Importing, Unimporting, Grows
<1>4. at[p] = Entry(p, at[p].n)
  BY <1>3 DEF TypeOK, Item, Entry
<1>5. Plan(p)' /\ Untouched(p)' /\ Kept(p)'
  BY <1>1, <1>2, <1>3 DEF Plan, Untouched, Kept, Importing
<1>6. Accounted(p)'
  <2> SUFFICES ASSUME NEW i \in Of(p)
               PROVE  i \in lost'[p] \/ (i.via = "split" /\ i.n \in good'[p])
    BY <1>2 DEF Accounted
  <2>1. i \in lost[p] \/ (i.via = "split" /\ i.n \in good[p]) \/ (i = at[p] /\ pc[p] # "save")
    BY <1>3 DEF Sound, Accounted
  <2> QED
    BY <1>1, <1>3, <2>1 DEF Unimporting
<1>7. Served(p)'
  <2>1. \A n \in good[p] : Filed(p, Entry(p, n))'
    BY EntriesStayFiled DEF Unimporting, Sound
  <2>2. \A n \in 1..Entries : ok /\ n = at[p].n => Filed(p, Entry(p, n))'
    <3>1. \A n \in 1..Entries : Entry(p, n) \in Item /\ (n = at[p].n => Entry(p, n) = at[p])
      BY <1>4 DEF Entry, Item, Via
    <3> QED
      BY <3>1 DEF Entry
  <2>3. at[p].n \in 1..Entries
    BY DEF TypeOK, Item
  <2>4. \A n \in good'[p] : Filed(p, Entry(p, n))'
    BY <1>1, <2>1, <2>2, <2>3
  <2> QED
    BY <1>1, <1>3, <2>4 DEF Served
<1>8. Told(p)'
  BY <1>1, <1>3 DEF Told
<1> QED
  BY <1>2, <1>5, <1>6, <1>7, <1>8 DEF Sound

LEMMA FailingKeeps ==
    ASSUME TypeOK, NEW p \in Proc, Sound(p), Failing(p)
    PROVE  Sound(p)'
<1>1. Unimporting(p) /\ pc[p] \notin {"idle", "lookup", "done"}
  BY DEF Failing, Unimporting, LateSaves, Kind
<1>2. /\ Of(p)' = Of(p) /\ Known(p)'
      /\ \A r \in LateSaves(p)' : r.item.by = p /\ r.item \in lost'[p]
      /\ pc[p] \in Importing => ~Reuses(p)'
      /\ Reuses(p)' => Of(p)' = {} /\ LateSaves(p)' = {}
  BY <1>1, UnimportingKeeps
<1>3. report[p] = "none" /\ args' = args
  BY <1>1 DEF Sound, Plan, Unimporting, Grows
<1>4. CASE pc[p] \in {"coll", "tags"} /\ AfterMark(p)
  BY <1>1, <1>4, AfterMarkKeeps
<1>5. CASE /\ pc[p] = "attach" /\ good'[p] = good[p]
           /\ pc'[p] = "done" /\ at'[p] = at[p] /\ report'[p] = "partial"
  <2>1. "pdf" \in args[p].wanted /\ args[p].job # "split"
    BY <1>5, CommandsAssump DEF Sound, Served, TypeOK
  <2>2. Plan(p)' /\ Untouched(p)' /\ Kept(p)'
    BY <1>2, <1>5 DEF Plan, Untouched, Kept, Importing
  <2>3. Accounted(p)'
    BY <1>1, <1>2, <1>5 DEF Sound, Accounted, Unimporting
  <2>4. Served(p)' /\ Told(p)'
    BY <1>3, <1>5, <2>1 DEF Served, Told
  <2> QED
    BY <1>2, <2>2, <2>3, <2>4 DEF Sound
<1>6. CASE pc[p] \notin {"coll", "tags", "attach"} /\ NotImported(p)
  <2>1. pc[p] \in Importing /\ (pc[p] = "target" => args[p].job # "split")
    BY <1>6 DEF Failing, Kind, Importing
  <2>2. CASE args[p].job = "split"
    <3>1. NextEntry(p, FALSE)
      BY <1>6, <2>2 DEF NotImported
    <3>2. pc[p] \in {"save", "mark", "update"} /\ (pc[p] # "save" => at[p] \in lost'[p])
      BY <2>1, <2>2 DEF Failing, Importing
    <3> QED
      BY <1>1, <2>2, <3>1, <3>2, NextEntryKeeps
  <2>3. CASE args[p].job # "split"
    <3>1. /\ good'[p] = good[p]
          /\ \/ pc'[p] = "save" /\ at'[p].by = p /\ report'[p] = report[p]
             \/ pc'[p] = "done" /\ at'[p] = at[p] /\ report'[p] = "failed"
      BY <1>6, <2>3, NotImportedSteps
    <3>2. Plan(p)' /\ Untouched(p)' /\ Kept(p)'
      BY <1>2, <1>3, <2>1, <2>3, <3>1 DEF Plan, Untouched, Kept, Importing
    <3>3. Accounted(p)'
      <4>1. \A i \in Of(p) : i \in lost'[p] \/ (i.via = "split" /\ i.n \in good[p])
        BY <1>1, <2>1 DEF Sound, Accounted, Unimporting, Failing, Importing
      <4> QED
        BY <1>2, <3>1, <4>1 DEF Accounted
    <3>4. Served(p)' /\ Told(p)'
      BY <1>3, <2>3, <3>1 DEF Served, Told
    <3> QED
      BY <1>2, <3>2, <3>3, <3>4 DEF Sound
  <2> QED
    BY <2>2, <2>3
<1> QED
  BY <1>4, <1>5, <1>6, FailedSteps DEF Failing

\* What the import or the session update marks is all that is within reach.
LEMMA MarksReach ==
    ASSUME TypeOK, NEW r \in Request, r.kind \in {"mark", "update"}
    PROVE  Reachable(r.by, r.item) \ {"pdf"} \subseteq Marks(r)
<1>1. args[r.by] \in Option
  BY CommandsAssump DEF TypeOK, Request
<1>2. args[r.by].wanted \subseteq {"coll", "tags", "pdf"}
  BY <1>1 DEF Option, Label
<1> QED
  BY <1>2 DEF Reachable, Marks, Misses

LEMMA AnsweringKeeps ==
    ASSUME TypeOK, NEW p \in Proc, Sound(p), Answering(p)
    PROVE  Sound(p)'
<1>1. PICK r \in Request :
          /\ r.by = p /\ r.kind = pc[p] /\ r.item = at[p]
          /\ \/ /\ r.kind = "save"
                /\ items' = items \cup {r.item} /\ labels' = labels
                /\ Goto(p, AfterSave(r), r.item)
             \/ /\ r.kind # "save"
                /\ items' = items /\ gone' = gone
                /\ labels' = [labels EXCEPT ![r.item] = @ \cup Marks(r)]
                /\ Answered(r)
  BY DEF Answering
<1>2. Grows /\ at[p] \in Item /\ args' = args /\ lost' = lost /\ LateSaves(p)' \subseteq LateSaves(p)
      /\ present' = present /\ blind' = blind
  BY AnsweringTypes DEF Answering, LateSaves, TypeOK
<1>3. report[p] = "none" /\ pc[p] \notin {"idle", "lookup", "done"}
  BY DEF Answering, Kind, Sound, Plan
<1>4. CASE r.kind = "save"
  <2>1. /\ pc'[p] \in {"mark", "update", "target"} /\ at'[p] = at[p]
        /\ pc'[p] = "target" => args[p].job # "split"
        /\ good'[p] = good[p] /\ report'[p] = report[p]
    BY <1>1, <1>2, <1>4, AfterSaveSteps, GotoSteps
  <2>2. pc[p] = "save" /\ ~Reuses(p) /\ at[p].by = p /\ (args[p].job = "split" => at[p].via = "split")
    BY <1>1, <1>4 DEF Sound, Plan, Kept, Importing
  <2>3. items' = items \cup {at[p]}
    BY <1>1, <1>4
  <2>4. Plan(p)' /\ Untouched(p)'
    BY <1>2, <2>1, <2>2 DEF Sound, Plan, Untouched, Importing
  <2>5. Known(p)' /\ Kept(p)'
    BY <1>2, <2>2, <2>3, ReusesLess DEF Sound, Known, Kept
  <2>6. Accounted(p)'
    <3>1. \A i \in Of(p)' : i = at[p] \/ i \in lost[p] \/ (i.via = "split" /\ i.n \in good[p])
      BY <2>2, <2>3 DEF Sound, Accounted, Of
    <3> QED
      BY <1>2, <2>1, <3>1 DEF Accounted
  <2>7. Served(p)'
    <3>1. args[p].job = "split" => \A n \in good'[p] : Filed(p, Entry(p, n))'
      BY <1>2, <2>1, EntriesStayFiled DEF Sound
    <3> QED
      BY <1>2, <2>1, <2>3, <3>1 DEF Served
  <2>8. Told(p)'
    BY <1>3, <2>1 DEF Told
  <2> QED
    BY <2>4, <2>5, <2>6, <2>7, <2>8 DEF Sound
<1>5. CASE r.kind # "save"
  <2>1. Unimporting(p)
    BY <1>1, <1>2, <1>5 DEF Unimporting
  <2>2. labels'[at[p]] = labels[at[p]] \cup Marks(r)
    BY <1>1, <1>5, MarkSteps
  <2>3. /\ Of(p)' = Of(p) /\ Known(p)'
        /\ \A s \in LateSaves(p)' : s.item.by = p /\ s.item \in lost'[p]
        /\ pc[p] \in Importing => ~Reuses(p)'
        /\ Reuses(p)' => Of(p)' = {} /\ LateSaves(p)' = {}
    BY <1>3, <2>1, UnimportingKeeps
  <2>4. CASE pc[p] \in {"coll", "tags"} /\ AfterMark(p)
    BY <2>1, <2>4, AfterMarkKeeps
  <2>5. CASE /\ pc[p] = "attach" /\ good'[p] = good[p]
             /\ pc'[p] = "done" /\ at'[p] = at[p] /\ report'[p] = "success"
    <3>1. /\ "pdf" \in args[p].wanted /\ args[p].job # "split" /\ at[p] \in items
          /\ at[p].by = p => Reachable(p, at[p]) \ {"pdf"} \subseteq labels[at[p]]
      BY <2>5, CommandsAssump DEF Sound, Served, TypeOK
    <3>2. "pdf" \in Marks(r) \/ (at[p] \in gone' /\ "pdf" \notin Reachable(p, at[p])')
      BY <1>1, <1>2, <2>5 DEF Marks, Misses, Reachable, AttachFinds
    <3>3. Plan(p)' /\ Untouched(p)' /\ Kept(p)'
      BY <2>3, <2>5 DEF Plan, Untouched, Kept, Importing
    <3>4. Accounted(p)'
      BY <1>2, <2>3, <2>5 DEF Sound, Accounted
    <3>5. Served(p)'
      BY <1>2, <2>5, <3>1 DEF Served
    <3>6. at[p].by = p => Reachable(p, at[p])' \subseteq labels'[at[p]]
      BY <1>2, <2>2, <2>5, <3>1, <3>2, FiledStays
    <3>7. Told(p)'
      BY <1>2, <2>1, <2>2, <2>5, <3>1, <3>2, <3>6, FiledStays
      DEF Told, Filed, Unimporting
    <3> QED
      BY <2>3, <3>3, <3>4, <3>5, <3>7 DEF Sound
  <2>6. CASE pc[p] \in {"mark", "update"} /\ Imported(p)
    <3>1. at[p] \in items /\ at[p].by = p
      BY <2>6 DEF Sound, Served, Plan, Importing
    <3>2. Reachable(p, at[p]) \ {"pdf"} \subseteq labels'[at[p]]
      BY <1>1, <2>2, <2>6, MarksReach
    <3>3. CASE args[p].job = "split"
      <4>1. NextEntry(p, TRUE)
        BY <2>6, <3>3 DEF Imported
      <4>2. "pdf" \notin args[p].wanted
        BY <3>3, CommandsAssump DEF TypeOK
      <4>3. Reachable(p, at[p]) \subseteq labels'[at[p]]
        BY <3>2, <4>2 DEF Reachable
      <4>4. \A i \in Item : i = at[p] => Filed(p, i)'
        <5>1. \A i \in Item : Reachable(p, i)' \subseteq Reachable(p, i)
          BY <1>2, FiledStays
        <5> QED
          BY <2>1, <3>1, <4>3, <5>1 DEF Filed, Unimporting
      <4> QED
        BY <2>1, <2>6, <3>3, <4>1, <4>4, NextEntryKeeps
    <3>4. CASE args[p].job # "split"
      <4>1. /\ good'[p] = good[p] /\ at'[p] = at[p]
            /\ \/ WantsPdf(p) /\ pc'[p] = "attach" /\ report'[p] = report[p]
               \/ ~WantsPdf(p) /\ pc'[p] = "done" /\ report'[p] = "success"
        BY <2>6, <3>4, ImportedSteps
      <4>2. Plan(p)' /\ Untouched(p)' /\ Kept(p)'
        BY <1>3, <2>3, <2>6, <4>1 DEF Plan, Untouched, Kept, Importing
      <4>3. Accounted(p)'
        BY <1>2, <2>3, <2>6, <4>1 DEF Sound, Accounted
      <4>4. Reachable(p, at[p])' \subseteq Reachable(p, at[p])
        <5>1. \A i \in Item : Reachable(p, i)' \subseteq Reachable(p, i)
          BY <1>2, FiledStays
        <5> QED
          BY <1>2, <4>1, <5>1 DEF Reachable, Grows
      <4>5. Served(p)'
        BY <1>2, <2>1, <3>1, <3>2, <3>4, <4>1, <4>4 DEF Served, WantsPdf, Unimporting
      <4>6. Told(p)'
        <5>1. ~WantsPdf(p) => "pdf" \notin Reachable(p, at[p])
          BY DEF WantsPdf, Reachable
        <5> QED
          BY <1>2, <1>3, <2>1, <3>1, <3>2, <3>4, <4>1, <4>4, <5>1 DEF Told, Filed, Unimporting
      <4> QED
        BY <2>3, <4>2, <4>3, <4>5, <4>6 DEF Sound
    <3> QED
      BY <3>3, <3>4
  <2> QED
    BY <1>1, <1>5, <2>4, <2>5, <2>6, AnsweredSteps
<1> QED
  BY <1>4, <1>5

-----------------------------------------------------------------------------
(* The theorems.                                                           *)

LEMMA NextKeeps == IInv /\ Next => IInv'
<1> SUFFICES ASSUME IInv, Next PROVE IInv'
  OBVIOUS
<1>1. TypeOK /\ \A p \in Proc : Sound(p)
  BY DEF IInv
<1>2. CASE Unattended
  <2>1. TypeOK'
    BY <1>1, <1>2, NextSteps DEF Unattended, cli, TypeOK, RestType, Grows
  <2>2. \A q \in Proc : Sound(q)'
    BY <1>1, <1>2, UnattendedStands, BystanderKeeps
  <2> QED
    BY <2>1, <2>2 DEF IInv
<1>3. ASSUME NEW p \in Proc, Beside(p)
      PROVE  IInv'
  <2>1. Sound(p)'
    BY <1>1, <1>3, BeginKeeps, LookupFindsKeeps, LookupLeavesKeeps, ResolveTargetKeeps,
       TargetEndsKeeps, FailingKeeps, AnsweringKeeps DEF Beside
  <2>2. Step(p) /\ Grows /\ TypeOK'
    <3>1. CASE Failing(p)
      BY <1>1, <3>1, FailingTypes, NextSteps DEF Failing
    <3>2. CASE Answering(p)
      BY <1>1, <3>2, AnsweringTypes
    <3>3. CASE LookupFindsNone(p) \/ LookupFails(p)
      <4>1. args[p].job \in DoiJob
        BY <1>1, <3>3 DEF LookupFindsNone, LookupFails, Sound, Plan
      <4> QED
        BY <1>1, <3>3, <4>1, LookupLeavesSteps, StepTypesAll
    <3>4. CASE Begin(p) \/ LookupFinds(p) \/ ResolveTarget(p)
      BY <1>1, <3>4, BeginSteps, LookupFindsSteps, ResolveTargetSteps, StepTypesAll
    <3>5. CASE TargetFails(p) /\ args[p].job = "split"
      BY <1>1, <3>5, TargetEndsSteps, StepTypesAll
    <3> QED
      BY <1>3, <3>1, <3>2, <3>3, <3>4, <3>5 DEF Beside
  <2>3. \A q \in Proc : q # p => Sound(q)'
    BY <1>1, <1>3, <2>2, BesideStands, BystanderKeeps
  <2> QED
    BY <2>1, <2>2, <2>3 DEF IInv
<1> QED
  BY <1>1, <1>2, <1>3, NextSteps

LEMMA StutterKeeps == IInv /\ UNCHANGED vars => IInv'
BY DEF IInv, vars, TypeOK, Sound, Plan, Untouched, Known, Kept, Reuses, Accounted, Served, Told,
       Filed, Reachable, AttachFinds, Of, LateSaves

LEMMA Invariant == Spec => []IInv
BY InitSound, NextKeeps, StutterKeeps, PTL DEF Spec

\* Every state of the specification is of its type.
THEOREM TypeCorrect == Spec => []TypeOK
<1>1. IInv => TypeOK
  BY DEF IInv
<1> QED
  BY <1>1, Invariant, PTL

\* An invocation told to reuse or skip a copy its lookup could find adds
\* nothing while the copy is there, neither at once nor by a request served
\* after it gave it up.
THEOREM NoSecondCopyHolds == Spec => []NoSecondCopy
BY Invariant, NoSecondCopyFollows, PTL

\* A copy the invocation did not report stems from an attempt it took for
\* failed.
THEOREM CopiesAccountedForHolds == Spec => []CopiesAccountedFor
BY Invariant, CopiesAccountedForFollows, PTL

\* What is reported as imported is in Zotero, filed, tagged and with its
\* PDF; all entries of a split file are if it is a success, and one is if
\* it is a partial one.  The exception: of an item erased meanwhile, or
\* saved to another library, `add file` may report a PDF that is not there,
\* as attach_pdf's answer is not read.
THEOREM SuccessMeansDoneHolds == Spec => []SuccessMeansDone
BY Invariant, SuccessMeansDoneFollows, PTL
=============================================================================
