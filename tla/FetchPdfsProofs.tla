--------------------------- MODULE FetchPdfsProofs ---------------------------
(***************************************************************************)
(* What the resume file says, what a run tries again, and to which items   *)
(* it adds a PDF, for any number of invocations, items and command lines.  *)
(***************************************************************************)
EXTENDS FetchPdfs, FiniteSetTheorems, WellFoundedInduction, TLAPS

\* Where an item of the queue is at hand, and where its key is being saved.
Saving == {"load", "truncate", "write"}
Trying == {"find", "verify", "cascade", "attach"}

ByFile(p) == args[p].job = "fetch" /\ args[p].resume

Queued(p) ==
    /\ pc[p] \in Trying \cup Saving => todo[p] # {}
    /\ pc[p] \in Saving => ByFile(p)
    /\ report[p] # "none" => pc[p] = "done"
    /\ pc[p] \in {"idle", "list", "plan"} => found[p] = {}

TInv == TypeOK /\ \A p \in Proc : Queued(p)

-----------------------------------------------------------------------------
(* The item at hand.                                                       *)

LEMMA Least ==
    ASSUME NEW S \in SUBSET Items, S # {}
    PROVE  \E i \in S : \A j \in S : i <= j
<1>1. S \subseteq Nat
  BY ItemCountAssump DEF Items
<1>2. PICK i \in S : \A j \in S : ~(<<j, i>> \in OpToRel(<, Nat))
  BY <1>1, NatLessThanWellFounded, WFMin
<1>3. \A j \in S : ~(j < i)
  BY <1>1, <1>2 DEF OpToRel
<1> QED
  BY <1>1, <1>3

LEMMA CurrentIn ==
    ASSUME TypeOK, NEW p \in Proc, todo[p] # {}
    PROVE  Current(p) \in todo[p] /\ Current(p) \in batch[p] /\ Current(p) \in Items
<1>1. todo[p] \in SUBSET Items /\ todo[p] \subseteq batch[p]
  BY DEF TypeOK
<1>2. \E i \in todo[p] : \A j \in todo[p] : i <= j
  BY <1>1, Least
<1> QED
  BY <1>1, <1>2 DEF Current

-----------------------------------------------------------------------------
(* Types.                                                                  *)

\* The part of the invariant about the state of the invocations.
CliOK ==
    /\ pc \in [Proc -> PC]
    /\ todo \in [Proc -> SUBSET Items] /\ batch \in [Proc -> SUBSET Items]
    /\ found \in [Proc -> SUBSET Items] /\ mine \in [Proc -> SUBSET Items]
    /\ \A p \in Proc : todo[p] \subseteq batch[p] /\ found[p] \subseteq batch[p]
    /\ report \in [Proc -> {"none", "success", "partial", "not_found", "error", "killed"}]
    /\ \A p \in Proc : Queued(p)

\* ... and about everything else.
RestOK ==
    /\ pdfs \subseteq Pdf /\ trash \subseteq pdfs /\ late \subseteq Request
    /\ file \subseteq Items /\ open \subseteq Proc
    /\ args \in Commands
    /\ seen \in [Proc -> {Unread} \cup SUBSET Items]
    /\ saved \subseteq Items /\ intact \in BOOLEAN

LEMMA Parts == TInv <=> CliOK /\ RestOK
  BY DEF TInv, TypeOK, CliOK, RestOK

LEMMA HasPdfType == RestOK => HasPdf \subseteq Items
<1> SUFFICES ASSUME RestOK, NEW a \in pdfs PROVE a.item \in Items
  BY DEF HasPdf
<1> QED
  BY DEF RestOK, Pdf

\* The ways in which an invocation goes on.
LEMMA GotoOK ==
    ASSUME TInv, NEW p \in Proc, NEW s \in PC \ {"idle", "list", "plan"}, Goto(p, s), UNCHANGED args, pc[p] # "done",
           s \in Trying \cup Saving => todo[p] # {}, s \in Saving => ByFile(p)
    PROVE  CliOK'
  BY DEF TInv, TypeOK, CliOK, Goto, Queued, ByFile

LEMMA EndOK ==
    ASSUME TInv, NEW p \in Proc, NEW what \in {"success", "partial", "not_found", "error"},
           End(p, what), UNCHANGED args
    PROVE  CliOK'
  BY DEF TInv, TypeOK, CliOK, End, Queued, ByFile, PC, Trying, Saving

LEMMA FailedOK ==
    ASSUME TInv, NEW p \in Proc, Failed(p), UNCHANGED args, pc[p] # "done"
    PROVE  CliOK'
  BY DEF TInv, TypeOK, CliOK, Failed, Queued, ByFile, PC, Trying, Saving

LEMMA SucceededOK ==
    ASSUME TInv, NEW p \in Proc, Succeeded(p), UNCHANGED args, pc[p] # "done", todo[p] # {}
    PROVE  CliOK'
<1>1. Current(p) \in Items /\ Current(p) \in batch[p]
  BY CurrentIn DEF TInv
<1>2. found' \in [Proc -> SUBSET Items] /\ todo' \in [Proc -> SUBSET Items]
  BY <1>1 DEF Succeeded, TInv, TypeOK
<1>3. \A q \in Proc : todo'[q] \subseteq todo[q] /\ found'[q] \subseteq batch[q]
  BY <1>1 DEF Succeeded, TInv, TypeOK
<1>4. pc' \in [Proc -> PC] /\ UNCHANGED <<batch, mine, report>>
  BY DEF Succeeded, TInv, TypeOK, PC
<1>5. \A q \in Proc : Queued(q)'
  BY DEF Succeeded, TInv, TypeOK, Queued, ByFile, PC, Trying, Saving
<1> QED
  BY <1>2, <1>3, <1>4, <1>5 DEF TInv, TypeOK, CliOK

LEMMA RequestType ==
    ASSUME TInv, NEW p \in Proc, todo[p] # {}, NEW via \in {"zotero", "oa"}
    PROVE  [item |-> Current(p), by |-> p, via |-> via] \in Request \cap Pdf
  BY CurrentIn DEF TInv, Request, Pdf

LEMMA TInit == Init => TInv
<1> SUFFICES ASSUME Init PROVE TInv
  OBVIOUS
<1>1. RestOK
  BY TouchedAssump DEF Init, RestOK, Pdf
<1>2. \A p \in Proc : pc[p] = "idle" /\ report[p] = "none"
  BY DEF Init
<1>3. CliOK
  BY <1>2 DEF Init, CliOK, Queued, PC, Trying, Saving
<1> QED
  BY <1>1, <1>3, Parts

LEMMA RestStep ==
    ASSUME TInv, NEW p \in Proc, Start(p) \/ Step(p) \/ Kill(p)
    PROVE  RestOK'
<1>0. RestOK /\ HasPdf \subseteq Items /\ Queued(p)
  BY Parts, HasPdfType DEF TInv
<1> USE DEF zotero, resumeFile, RestOK
<1>1. CASE Start(p) \/ List(p) \/ Plan(p) \/ Kill(p)
  BY <1>0, <1>1 DEF Start, List, Plan, Kill
<1>2. CASE Gate(p)
  BY <1>0, <1>2 DEF Gate
<1>3. CASE FindOnly(p) \/ Verify(p) \/ Cascade(p) \/ Load(p)
  BY <1>0, <1>3 DEF FindOnly, Verify, Cascade, Load
<1>4. CASE Find(p) \/ Attach(p)
  <2>1. todo[p] # {}
    BY <1>0, <1>4 DEF Find, Attach, Queued, Trying
  <2>2. \A via \in {"zotero", "oa"} :
            [item |-> Current(p), by |-> p, via |-> via] \in Request \cap Pdf
    BY <2>1, RequestType
  <2> QED
    BY <1>0, <1>4, <2>2 DEF Find, Attach
<1>5. CASE Truncate(p)
  BY <1>0, <1>5 DEF Truncate
<1>6. CASE Write(p)
  <2>1. todo[p] # {} /\ mine[p] \subseteq Items
    BY <1>0, <1>6, Parts DEF Write, Queued, Saving, CliOK
  <2>2. Current(p) \in Items
    BY <2>1, CurrentIn DEF TInv
  <2> QED
    BY <1>0, <1>6, <2>1, <2>2 DEF Write
<1>7. CASE Finish(p)
  BY <1>0, <1>7 DEF Finish, Clear
<1> QED
  BY <1>1, <1>2, <1>3, <1>4, <1>5, <1>6, <1>7 DEF Step

LEMMA CliStep ==
    ASSUME TInv, NEW p \in Proc, Start(p) \/ Step(p) \/ Kill(p)
    PROVE  CliOK'
<1>0. TypeOK /\ CliOK /\ RestOK /\ Queued(p)
  BY Parts DEF TInv
<1> USE DEF PC, Trying, Saving
<1>f. /\ pc \in [Proc -> PC] /\ todo \in [Proc -> SUBSET Items]
      /\ batch \in [Proc -> SUBSET Items]
      /\ \A q \in Proc : todo[q] \subseteq batch[q] /\ found[q] \subseteq batch[q]
      /\ pc[p] \in {"idle", "list", "plan"} => found[p] = {}
  BY <1>0 DEF CliOK, Queued
<1>q. ASSUME /\ pc' \in [Proc -> PC] /\ todo' \in [Proc -> SUBSET Items]
             /\ batch' \in [Proc -> SUBSET Items] /\ todo'[p] \subseteq batch'[p]
             /\ pc[p] \in {"idle", "list", "plan"} /\ pc'[p] \in {"list", "plan", "next"}
             /\ \A q \in Proc \ {p} :
                    pc'[q] = pc[q] /\ todo'[q] = todo[q] /\ batch'[q] = batch[q]
             /\ UNCHANGED <<args, found, mine, report>>
      PROVE  CliOK'
  <2>1. \A q \in Proc : todo'[q] \subseteq batch'[q] /\ found'[q] \subseteq batch'[q]
    BY <1>f, <1>q
  <2>2. \A q \in Proc : Queued(q)'
    BY <1>0, <1>q DEF CliOK, Queued, ByFile
  <2> QED
    BY <1>0, <1>q, <2>1, <2>2 DEF CliOK
<1>1. CASE Start(p)
  <2>1. batch' \in [Proc -> SUBSET Items]
    BY <1>f, <1>1, ItemCountAssump DEF Start, Items
  <2>2. todo' = [todo EXCEPT ![p] = batch'[p]]
    BY <1>1 DEF Start
  <2>3. todo' \in [Proc -> SUBSET Items] /\ todo'[p] = batch'[p]
    BY <1>f, <2>1, <2>2
  <2>4. pc' \in [Proc -> PC] /\ pc[p] = "idle" /\ pc'[p] \in {"list", "plan", "next"}
    BY <1>f, <1>1 DEF Start
  <2>5. \A q \in Proc \ {p} : pc'[q] = pc[q] /\ todo'[q] = todo[q] /\ batch'[q] = batch[q]
    BY <1>f, <1>1, <2>2 DEF Start
  <2> QED
    BY <1>q, <1>1, <2>1, <2>3, <2>4, <2>5 DEF Start
<1>2. CASE List(p) /\ End(p, "error")
  BY <1>2, EndOK DEF List
<1>l. CASE List(p) /\ ~End(p, "error")
  BY <1>f, <1>l, <1>q DEF List
<1>3. CASE Plan(p)
  <2>1. pc' \in [Proc -> PC] /\ pc[p] = "plan" /\ pc'[p] = "next"
    BY <1>f, <1>3 DEF Plan
  <2>2. PICK left \in SUBSET batch[p] :
            /\ batch' = [batch EXCEPT ![p] = FirstOf(left, args[p].limit)]
            /\ todo' = [todo EXCEPT ![p] = batch'[p]]
    BY <1>3 DEF Plan
  <2>3. FirstOf(left, args[p].limit) \subseteq Items
    BY <1>f DEF FirstOf
  <2>4. batch' \in [Proc -> SUBSET Items] /\ todo' \in [Proc -> SUBSET Items]
        /\ todo'[p] = batch'[p]
    BY <1>f, <2>2, <2>3
  <2>5. \A q \in Proc \ {p} : pc'[q] = pc[q] /\ todo'[q] = todo[q] /\ batch'[q] = batch[q]
    BY <1>f, <1>3, <2>2 DEF Plan
  <2> QED
    BY <1>q, <1>3, <2>1, <2>4, <2>5 DEF Plan
<1>4. CASE Gate(p)
  BY <1>4, GotoOK, FailedOK, SucceededOK DEF Gate
<1>5. CASE FindOnly(p)
  BY <1>5, GotoOK DEF FindOnly
<1>6. CASE Find(p)
  BY <1>0, <1>6, GotoOK, FailedOK, SucceededOK DEF Find, NotFound, Queued
<1>7. CASE Verify(p)
  BY <1>0, <1>7, GotoOK, FailedOK, SucceededOK DEF Verify, NotFound, Queued
<1>8. CASE Cascade(p)
  BY <1>0, <1>8, GotoOK, FailedOK DEF Cascade, Queued
<1>9. CASE Attach(p)
  BY <1>0, <1>9, FailedOK, SucceededOK DEF Attach, Queued
<1>10. CASE Load(p)
  <2>1. Current(p) \in Items /\ todo[p] # {} /\ ByFile(p)
    BY <1>0, <1>10, CurrentIn DEF Load, Queued
  <2> QED
    BY <1>0, <1>10, <2>1 DEF Load, CliOK, RestOK, Queued, ByFile
<1>11. CASE Truncate(p)
  BY <1>0, <1>11, GotoOK, FailedOK DEF Truncate, Queued
<1>12. CASE Write(p)
  BY <1>12, FailedOK DEF Write
<1>13. CASE Finish(p)
  <2>1. Status(p) \in {"success", "partial", "not_found", "error"}
    BY DEF Status
  <2> QED
    BY <1>13, <2>1, EndOK DEF Finish
<1>14. CASE Kill(p)
  BY <1>0, <1>14 DEF Kill, CliOK, Queued, ByFile
<1> QED
  BY <1>1, <1>2, <1>l, <1>3, <1>4, <1>5, <1>6, <1>7, <1>8, <1>9, <1>10, <1>11, <1>12, <1>13, <1>14
  DEF Step

\* What Zotero and its user do: no invocation moves.
Outside ==
    \/ \E r \in late : Land(r)
    \/ \E a \in Touched \ pdfs : UserAttaches(a)
    \/ \E a \in Touched \cap (pdfs \ trash) : UserTrashes(a)

Act(p) == Start(p) \/ Step(p) \/ Kill(p)

LEMMA TNext == TInv /\ [Next]_vars => TInv'
<1> SUFFICES ASSUME TInv, [Next]_vars PROVE TInv'
  OBVIOUS
<1>0. CliOK /\ RestOK
  BY Parts
<1>1. CliOK' /\ RestOK' => TInv'
  BY DEF TInv, TypeOK, CliOK, RestOK
<1>2. ASSUME NEW p \in Proc, Act(p) PROVE TInv'
  BY <1>1, <1>2, RestStep, CliStep DEF Act
<1>3. CASE Outside
  <2>1. \A r \in Request : r \in Pdf
    BY DEF Request, Pdf
  <2>2. RestOK'
    BY <1>0, <1>3, <2>1, TouchedAssump
    DEF Outside, Land, UserAttaches, UserTrashes, RestOK, resumeFile, cli, Pdf
  <2>3. UNCHANGED <<pc, todo, batch, found, mine, report, args>>
    BY <1>3 DEF Outside, Land, UserAttaches, UserTrashes, cli
  <2>4. CliOK'
    BY <1>0, <2>3 DEF CliOK, Queued, ByFile
  <2> QED
    BY <1>1, <2>2, <2>4
<1>4. CASE UNCHANGED vars
  <2>1. UNCHANGED <<pc, todo, batch, found, mine, report, args>>
    BY <1>4 DEF vars, cli
  <2>2. CliOK'
    BY <1>0, <2>1 DEF CliOK, Queued, ByFile
  <2>3. RestOK'
    BY <1>0, <1>4 DEF RestOK, vars, zotero, resumeFile, cli
  <2> QED
    BY <1>1, <2>2, <2>3
<1> QED
  BY <1>2, <1>3, <1>4 DEF Next, Act, Outside

LEMMA TAlways == Spec => []TInv
  BY TInit, TNext, PTL DEF Spec

(* Every state of the PDF retrieval is of its type (pdf_cascade.rs,        *)
(* pdf_fetch.rs).                                                          *)
THEOREM TypeCorrect == Spec => []TypeOK
<1>1. TInv => TypeOK
  BY DEF TInv
<1> QED
  BY <1>1, TAlways, PTL

-----------------------------------------------------------------------------
(* Who moves what.                                                         *)

LeastOf(S) == CHOOSE i \in S : \A j \in S : i <= j

LEMMA SameItem ==
    ASSUME NEW p, todo'[p] = todo[p]
    PROVE  Current(p)' = Current(p)
<1>1. Current(p) = LeastOf(todo[p]) /\ Current(p)' = LeastOf(todo'[p])
  BY DEF Current, LeastOf
<1> QED
  BY <1>1

\* No invocation touches what another one has.
LEMMA Bystander ==
    ASSUME TInv, NEW p \in Proc, Act(p), NEW q \in Proc \ {p}
    PROVE  /\ UNCHANGED <<pc[q], todo[q], batch[q], seen[q], found[q], mine[q], report[q], args>>
           /\ Current(q)' = Current(q)
<1>0. CliOK /\ RestOK
  BY Parts
<1> USE DEF Goto, End, Failed, Succeeded, CliOK, RestOK
<1>1. UNCHANGED <<pc[q], todo[q], batch[q], seen[q], found[q], mine[q], report[q], args>>
  <2>1. CASE Start(p) \/ Kill(p)
    BY <1>0, <2>1 DEF Start, Kill
  <2>2. CASE List(p) \/ Plan(p)
    BY <1>0, <2>2 DEF List, Plan
  <2>3. CASE Gate(p) \/ FindOnly(p)
    BY <1>0, <2>3 DEF Gate, FindOnly
  <2>4. CASE Find(p)
    BY <1>0, <2>4 DEF Find, NotFound
  <2>5. CASE Verify(p) \/ Cascade(p)
    BY <1>0, <2>5 DEF Verify, Cascade, NotFound
  <2>6. CASE Attach(p)
    BY <1>0, <2>6 DEF Attach
  <2>7. CASE Load(p) \/ Truncate(p) \/ Write(p)
    BY <1>0, <2>7 DEF Load, Truncate, Write
  <2>8. CASE Finish(p)
    BY <1>0, <2>8 DEF Finish
  <2> QED
    BY <2>1, <2>2, <2>3, <2>4, <2>5, <2>6, <2>7, <2>8 DEF Act, Step
<1> QED
  BY <1>1, SameItem

\* PDFs stay, at least in the trash, and p adds to the item at hand only.
LEMMA Adds ==
    ASSUME NEW p \in Proc, Act(p)
    PROVE  /\ pdfs \subseteq pdfs'
           /\ \A a \in pdfs' \cup late' :
                  a \in pdfs \cup late
                  \/ (a.by = p /\ a.item = Current(p) /\ pc[p] \in Trying)
<1>1. CASE Find(p)
  BY <1>1 DEF Find, Trying
<1>2. CASE Attach(p)
  BY <1>2 DEF Attach, Trying
<1>3. CASE ~Find(p) /\ ~Attach(p)
  BY <1>3 DEF Act, Step, Start, List, Plan, Gate, FindOnly, Verify, Cascade, Load, Truncate,
              Write, Finish, Kill, zotero
<1> QED
  BY <1>1, <1>2, <1>3

LEMMA AddsOutside ==
    ASSUME RestOK, Outside
    PROVE  /\ pdfs \subseteq pdfs'
           /\ \A a \in pdfs' \cup late' : a \in pdfs \cup late \/ a.via = "user"
           /\ UNCHANGED <<resumeFile, args, cli>>
  BY TouchedAssump DEF Outside, Land, UserAttaches, UserTrashes, RestOK

-----------------------------------------------------------------------------
(* Completed means that there was a PDF.                                   *)

\* What p takes for done has a PDF, and the item whose key it saves is done.
Done(p) ==
    /\ found[p] \cup mine[p] \subseteq HasPdf
    /\ pc[p] \in Saving => Current(p) \in found[p]
    /\ report[p] = "success" /\ args[p].job # "find" => batch[p] \subseteq HasPdf

Copied(p) == seen[p] # Unread => seen[p] \subseteq HasPdf

PInv == TInv /\ file \subseteq HasPdf /\ \A p \in Proc : Done(p) /\ Copied(p)

LEMMA DoneStep ==
    ASSUME PInv, NEW p \in Proc, Act(p)
    PROVE  Done(p)' /\ Copied(p)' /\ (file \subseteq HasPdf)'
<1>0. /\ CliOK /\ RestOK /\ Queued(p) /\ Done(p) /\ Copied(p) /\ file \subseteq HasPdf
      /\ pc \in [Proc -> PC] /\ todo \in [Proc -> SUBSET Items]
      /\ found \in [Proc -> SUBSET Items] /\ mine \in [Proc -> SUBSET Items]
      /\ found[p] \subseteq batch[p]
      /\ report[p] # "none" => pc[p] = "done"
  BY Parts DEF PInv, CliOK, Queued
<1>h. HasPdf \subseteq HasPdf'
  BY Adds DEF HasPdf
<1>g. ASSUME NEW s, Goto(p, s), UNCHANGED args, s \in Saving => pc[p] \in Saving
      PROVE  Done(p)'
  <2>1. Current(p)' = Current(p)
    BY <1>g, SameItem DEF Goto
  <2> QED
    BY <1>0, <1>h, <1>g, <2>1 DEF Goto, Done
<1>e. ASSUME NEW what, End(p, what), UNCHANGED args,
             what = "success" /\ args[p].job # "find" => batch[p] \subseteq HasPdf
      PROVE  Done(p)'
  BY <1>0, <1>h, <1>e DEF End, Done, CliOK, Saving
<1>f. ASSUME Failed(p), UNCHANGED args, pc[p] # "done"
      PROVE  Done(p)'
  BY <1>0, <1>h, <1>f DEF Failed, Done, Saving
<1>s. ASSUME Succeeded(p), UNCHANGED args, pc[p] # "done", Current(p) \in HasPdf'
      PROVE  Done(p)'
  <2>1. found'[p] = found[p] \cup {Current(p)} /\ UNCHANGED <<batch, mine, report>>
    BY <1>0, <1>s DEF Succeeded
  <2>2. pc'[p] \in Saving => todo'[p] = todo[p]
    BY <1>0, <1>s DEF Succeeded, Saving
  <2>3. pc'[p] \in Saving => Current(p)' = Current(p)
    BY <2>2, SameItem
  <2> QED
    BY <1>0, <1>h, <1>s, <2>1, <2>3 DEF Done
<1>c. seen'[p] = seen[p] => Copied(p)'
  BY <1>0, <1>h DEF Copied
<1>1. CASE Start(p)
  <2>1. Done(p)'
    BY <1>0, <1>h, <1>1 DEF Start, Done, Saving
  <2> QED
    BY <1>0, <1>1, <1>h, <1>c, <2>1 DEF Start
<1>2. CASE List(p)
  <2>1. CASE End(p, "error")
    BY <1>0, <1>2, <1>h, <1>c, <1>e, <2>1 DEF List, resumeFile
  <2>2. CASE ~End(p, "error")
    <3>1. Done(p)'
      BY <1>0, <1>2, <1>h, <2>2 DEF List, Done, Saving
    <3> QED
      BY <1>0, <1>2, <1>h, <1>c, <3>1 DEF List, resumeFile
  <2> QED
    BY <2>1, <2>2
<1>3. CASE Plan(p)
  <2>1. Done(p)'
    BY <1>0, <1>h, <1>3 DEF Plan, Done, Saving
  <2> QED
    BY <1>0, <1>3, <1>h, <1>c, <2>1 DEF Plan, resumeFile
<1>4. CASE Gate(p)
  <2>1. Done(p)'
    BY <1>0, <1>4, <1>h, <1>g, <1>f, <1>s DEF Gate, Copied, Saving
  <2>2. Copied(p)'
    BY <1>0, <1>4, <1>h, <1>c DEF Gate, Copied, RestOK
  <2> QED
    BY <1>0, <1>4, <1>h, <2>1, <2>2 DEF Gate, resumeFile
<1>5. CASE FindOnly(p)
  BY <1>0, <1>5, <1>h, <1>c, <1>g DEF FindOnly, Saving, resumeFile
<1>6. CASE Find(p)
  <2>1. CASE pdfs' = pdfs \cup {[item |-> Current(p), by |-> p, via |-> "zotero"]} /\ Succeeded(p)
    <3>1. \E a \in pdfs' : a.item = Current(p)
      <4>1. [item |-> Current(p), by |-> p, via |-> "zotero"] \in pdfs'
        BY <2>1
      <4>2. [item |-> Current(p), by |-> p, via |-> "zotero"].item = Current(p)
        OBVIOUS
      <4> QED
        BY <4>1, <4>2
    <3>2. Current(p) \in HasPdf'
      BY <3>1 DEF HasPdf
    <3> QED
      BY <1>0, <1>6, <1>h, <1>c, <1>s, <2>1, <3>2 DEF Find, resumeFile
  <2>2. CASE NotFound(p) \/ Goto(p, "verify")
    BY <1>0, <1>6, <1>h, <1>c, <1>f, <1>g, <2>2 DEF Find, NotFound, Saving, resumeFile
  <2> QED
    BY <1>6, <2>1, <2>2 DEF Find
<1>7. CASE Verify(p)
  <2>1. Live(Current(p)) => Current(p) \in HasPdf'
    BY <1>h DEF Live, HasPdf
  <2> QED
    BY <1>0, <1>7, <1>h, <1>c, <1>f, <1>g, <1>s, <2>1
    DEF Verify, NotFound, Saving, resumeFile
<1>8. CASE Cascade(p)
  BY <1>0, <1>8, <1>h, <1>c, <1>f, <1>g DEF Cascade, Saving, resumeFile
<1>9. CASE Attach(p)
  <2>1. CASE pdfs' = pdfs \cup {[item |-> Current(p), by |-> p, via |-> "oa"]} /\ Succeeded(p)
    <3>1. \E a \in pdfs' : a.item = Current(p)
      <4>1. [item |-> Current(p), by |-> p, via |-> "oa"] \in pdfs'
        BY <2>1
      <4>2. [item |-> Current(p), by |-> p, via |-> "oa"].item = Current(p)
        OBVIOUS
      <4> QED
        BY <4>1, <4>2
    <3>2. Current(p) \in HasPdf'
      BY <3>1 DEF HasPdf
    <3> QED
      BY <1>0, <1>9, <1>h, <1>c, <1>s, <2>1, <3>2 DEF Attach, resumeFile
  <2>2. CASE Failed(p)
    BY <1>0, <1>9, <1>h, <1>c, <1>f, <2>2 DEF Attach, resumeFile
  <2> QED
    BY <1>9, <2>1, <2>2 DEF Attach
<1>10. CASE Load(p)
  <2>1. Current(p)' = Current(p)
    BY <1>10, SameItem DEF Load
  <2>2. Done(p)'
    BY <1>0, <1>10, <1>h, <2>1 DEF Load, Done, Saving
  <2> QED
    BY <1>0, <1>10, <1>h, <1>c, <2>2 DEF Load, resumeFile
<1>11. CASE Truncate(p)
  <2>1. Done(p)'
    BY <1>0, <1>11, <1>f, <1>g DEF Truncate, Saving
  <2> QED
    BY <1>0, <1>11, <1>h, <1>c, <2>1 DEF Truncate
<1>12. CASE Write(p)
  <2>1. Done(p)'
    BY <1>0, <1>12, <1>f DEF Write
  <2>2. file' \subseteq HasPdf'
    BY <1>0, <1>12, <1>h DEF Write, Done
  <2> QED
    BY <1>12, <1>c, <2>1, <2>2 DEF Write
<1>13. CASE Finish(p)
  <2>1. Status(p) = "success" /\ args[p].job # "find" => batch[p] \subseteq HasPdf
    BY <1>0 DEF Status, Done
  <2>2. file' = file \/ file' = {}
    BY <1>13 DEF Finish, Clear, resumeFile
  <2> QED
    BY <1>0, <1>13, <1>h, <1>c, <1>e, <2>1, <2>2 DEF Finish
<1>14. CASE Kill(p)
  <2>1. Done(p)'
    BY <1>0, <1>14 DEF Kill, Done, Saving, CliOK
  <2> QED
    BY <1>0, <1>14, <1>h, <1>c, <2>1 DEF Kill
<1> QED
  BY <1>1, <1>2, <1>3, <1>4, <1>5, <1>6, <1>7, <1>8, <1>9, <1>10, <1>11, <1>12, <1>13, <1>14
  DEF Act, Step

LEMMA PNext == PInv /\ [Next]_vars => PInv'
<1> SUFFICES ASSUME PInv, [Next]_vars PROVE PInv'
  OBVIOUS
<1>0. TInv /\ TInv' /\ RestOK
  BY TNext, Parts DEF PInv
<1>1. ASSUME NEW p \in Proc, Act(p) PROVE PInv'
  <2>1. HasPdf \subseteq HasPdf'
    BY <1>1, Adds DEF HasPdf
  <2>2. ASSUME NEW q \in Proc \ {p} PROVE Done(q)' /\ Copied(q)'
    BY <1>0, <1>1, <2>1, <2>2, Bystander DEF PInv, Done, Copied
  <2> QED
    BY <1>0, <1>1, <2>2, DoneStep DEF PInv
<1>2. ASSUME HasPdf \subseteq HasPdf', UNCHANGED <<file, args, cli>> PROVE PInv'
  <2>1. UNCHANGED <<pc, todo, batch, seen, found, mine, report>>
    BY <1>2 DEF cli
  <2>2. \A p \in Proc : Current(p)' = Current(p)
    BY <2>1, SameItem
  <2> QED
    BY <1>0, <1>2, <2>1, <2>2 DEF PInv, Done, Copied
<1>3. CASE Outside
  BY <1>0, <1>2, <1>3, AddsOutside DEF HasPdf, resumeFile
<1>4. CASE UNCHANGED vars
  BY <1>2, <1>4 DEF HasPdf, vars, zotero, resumeFile
<1> QED
  BY <1>1, <1>3, <1>4 DEF Next, Act, Outside

LEMMA PInit == Init => PInv
<1> SUFFICES ASSUME Init PROVE PInv
  OBVIOUS
<1>1. \A p \in Proc : /\ pc[p] = "idle" /\ seen[p] = Unread /\ found[p] = {} /\ mine[p] = {}
                      /\ report[p] = "none"
  BY DEF Init
<1>2. file = {}
  BY DEF Init
<1> QED
  BY <1>1, <1>2, TInit DEF PInv, Done, Copied, Saving

LEMMA PAlways == Spec => []PInv
  BY PInit, PNext, PTL DEF Spec

(* Whatever the resume file calls completed, and every item of a batch     *)
(* reported as a success, has or had a PDF: no attachment that timed out   *)
(* and never landed hides an item from --resume                            *)
(* (fetch_pdfs_for_collection).                                            *)
THEOREM CompletedHadPdfHolds == Spec => []CompletedHadPdf
<1>1. PInv => CompletedHadPdf
  BY DEF PInv, Done, CompletedHadPdf
<1> QED
  BY <1>1, PAlways, PTL

-----------------------------------------------------------------------------
(* Never a second PDF.                                                     *)

\* Neither attached nor under way: a PDF of p's for an item of S.
NoneOf(p, S) == \A a \in pdfs \cup late : a.via # "user" /\ a.item \in S => a.by # p

\* Before it has a copy of the library p adds nothing, and without --force
\* it tries no item that has a PDF in its copy.
Own(p) ==
    /\ args[p].job = "find" => seen[p] = Unread
    /\ args[p].job # "find" /\ seen[p] = Unread => pc[p] \notin Trying /\ NoneOf(p, Items)
    /\ ~args[p].force /\ seen[p] # Unread =>
          /\ pc[p] \in Trying => Current(p) \notin seen[p]
          /\ NoneOf(p, seen[p])

SInv == TInv /\ \A p \in Proc : Own(p)

\* The place of p in a step of its own: it begins to try an item in Gate and
\* FindOnly, and goes on with that item.
LEMMA Tries ==
    ASSUME TInv, NEW p \in Proc, Act(p), pc'[p] \in Trying
    PROVE  /\ Current(p)' = Current(p)
           /\ Gate(p) \/ (FindOnly(p) /\ seen' = seen) \/ (pc[p] \in Trying /\ seen' = seen)
<1>0. pc \in [Proc -> PC]
  BY DEF TInv, TypeOK
<1> USE DEF Goto, End, Failed, Succeeded, Trying
<1>1. todo'[p] = todo[p]
        /\ (Gate(p) \/ (FindOnly(p) /\ seen' = seen) \/ (pc[p] \in Trying /\ seen' = seen))
  <2>1. CASE Start(p) \/ List(p) \/ Plan(p) \/ Kill(p)
    BY <1>0, <2>1 DEF Start, List, Plan, Kill
  <2>2. CASE Gate(p) \/ FindOnly(p)
    BY <1>0, <2>2 DEF Gate, FindOnly
  <2>3. CASE Find(p)
    BY <1>0, <2>3 DEF Find, NotFound
  <2>4. CASE Verify(p)
    BY <1>0, <2>4 DEF Verify, NotFound
  <2>5. CASE Cascade(p)
    BY <1>0, <2>5 DEF Cascade
  <2>6. CASE Attach(p)
    BY <1>0, <2>6 DEF Attach
  <2>7. CASE Load(p) \/ Truncate(p) \/ Write(p) \/ Finish(p)
    BY <1>0, <2>7 DEF Load, Truncate, Write, Finish
  <2> QED
    BY <2>1, <2>2, <2>3, <2>4, <2>5, <2>6, <2>7 DEF Act, Step
<1> QED
  BY <1>1, SameItem

LEMMA OwnStep ==
    ASSUME SInv, NEW p \in Proc, Act(p)
    PROVE  Own(p)'
<1>0. TInv /\ Own(p) /\ RestOK /\ args' = args /\ seen[p] \in {Unread} \cup SUBSET Items
  BY Parts DEF SInv, RestOK, Act, Step, Start, List, Plan, Gate, FindOnly, Find, Verify, Cascade,
     Attach, Load, Truncate, Write, Finish, Kill
<1>1. CASE Gate(p)
  <2>1. HasPdf \in SUBSET Items
    BY <1>0, HasPdfType
  <2>2. pc[p] \notin Trying /\ args[p].job # "find" /\ UNCHANGED <<pdfs, late>>
    BY <1>1 DEF Gate, Trying, zotero
  <2>3. CASE Failed(p) /\ UNCHANGED seen
    <3>1. pc'[p] \notin Trying
      BY <1>0, <2>3 DEF Failed, Trying, TInv, TypeOK
    <3> QED
      BY <1>0, <2>2, <2>3, <3>1 DEF Own, NoneOf
  <2>4. CASE ~(Failed(p) /\ UNCHANGED seen)
    <3>1. seen'[p] = IF seen[p] = Unread THEN HasPdf ELSE seen[p]
      BY <1>0, <1>1, <2>4 DEF Gate, RestOK
    <3>2. seen'[p] \in SUBSET Items /\ seen'[p] # Unread
      BY <1>0, <2>1, <3>1, UnreadAssump
    <3>3. ~args[p].force /\ pc'[p] \in Trying => Current(p) \notin seen'[p]
      BY <1>0, <1>1, <2>4, <3>1 DEF Gate, Succeeded, Trying, TInv, TypeOK
    <3>4. ~args[p].force => NoneOf(p, seen'[p])
      BY <1>0, <2>2, <3>1, <3>2 DEF Own, NoneOf
    <3>5. pc'[p] \in Trying => Current(p)' = Current(p)
      BY <1>0, Tries
    <3> QED
      BY <1>0, <2>2, <3>2, <3>3, <3>4, <3>5 DEF Own, NoneOf
  <2> QED
    BY <2>3, <2>4
<1>2. CASE ~Gate(p)
  <2>1. seen' = seen
    BY <1>2 DEF Act, Step, Start, List, Plan, FindOnly, Find, Verify, Cascade, Attach, Load,
                Truncate, Write, Finish, Kill
  <2>2. pc'[p] \in Trying =>
            Current(p)' = Current(p) /\ (pc[p] \in Trying \/ args[p].job = "find")
    BY <1>0, <1>2, Tries DEF FindOnly
  <2>3. \A S : NoneOf(p, S) /\ (pc[p] \in Trying => Current(p) \notin S) =>
            \A a \in pdfs' \cup late' : a.via # "user" /\ a.item \in S => a.by # p
    BY Adds DEF NoneOf
  <2> QED
    BY <1>0, <2>1, <2>2, <2>3 DEF Own, NoneOf
<1> QED
  BY <1>1, <1>2

LEMMA SNext == SInv /\ [Next]_vars => SInv'
<1> SUFFICES ASSUME SInv, [Next]_vars PROVE SInv'
  OBVIOUS
<1>0. TInv /\ TInv' /\ RestOK
  BY TNext, Parts DEF SInv
<1>1. ASSUME NEW p \in Proc, Act(p) PROVE SInv'
  <2>1. ASSUME NEW q \in Proc \ {p} PROVE Own(q)'
    <3>1. /\ UNCHANGED <<pc[q], seen[q], args>> /\ Current(q)' = Current(q)
      BY <1>0, <1>1, <2>1, Bystander
    <3>2. \A a \in pdfs' \cup late' : a \in pdfs \cup late \/ a.by = p
      BY <1>1, Adds
    <3> QED
      BY <2>1, <3>1, <3>2 DEF SInv, Own, NoneOf
  <2> QED
    BY <1>0, <1>1, <2>1, OwnStep DEF SInv
<1>2. ASSUME UNCHANGED <<args, cli>>,
             \A a \in pdfs' \cup late' : a \in pdfs \cup late \/ a.via = "user"
      PROVE  SInv'
  <2>1. UNCHANGED <<pc, todo, seen>>
    BY <1>2 DEF cli
  <2>2. \A p \in Proc : Current(p)' = Current(p)
    BY <2>1, SameItem
  <2> QED
    BY <1>0, <1>2, <2>1, <2>2 DEF SInv, Own, NoneOf
<1>3. CASE Outside
  BY <1>0, <1>2, <1>3, AddsOutside
<1>4. CASE UNCHANGED vars
  BY <1>2, <1>4 DEF vars, zotero
<1> QED
  BY <1>1, <1>3, <1>4 DEF Next, Act, Outside

LEMMA SInit == Init => SInv
<1> SUFFICES ASSUME Init PROVE SInv
  OBVIOUS
<1>1. (\A p \in Proc : pc[p] = "idle" /\ seen[p] = Unread) /\ late = {} /\ pdfs \subseteq Touched
  BY DEF Init
<1>2. \A a \in pdfs \cup late : a.via = "user"
  BY <1>1, TouchedAssump
<1> QED
  BY <1>1, <1>2, TInit DEF SInv, Own, NoneOf, Trying

LEMMA SAlways == Spec => []SInv
  BY SInit, SNext, PTL DEF Spec

(* A run without --force never adds a PDF to an item that had one in the   *)
(* copy of the library it reads, not even by a script answered too late    *)
(* (fetch_pdf_for_item).                                                   *)
THEOREM NeverASecondPdfHolds == Spec => []NeverASecondPdf
<1>1. SInv => NeverASecondPdf
  BY DEF SInv, Own, NoneOf, NeverASecondPdf
<1> QED
  BY <1>1, SAlways, PTL

-----------------------------------------------------------------------------
(* Nothing is tried twice.                                                 *)

\* While the file is intact one run at most has to do with it.
Alone ==
    intact => \A p, q \in Proc :
        Running(p) /\ Running(q) /\ UsesFile(args[p]) /\ UsesFile(args[q]) => p = q

\* ... it names what was saved, unless that run is just writing it,
Named == intact => file = saved \/ \E p \in Proc : pc[p] = "write"

\* ... which then has all of it at hand, and nothing of it in its queue.
Kept(p) ==
    intact /\ ByFile(p) =>
        /\ pc[p] \in {"next"} \cup Trying \cup Saving => todo[p] \cap saved = {}
        /\ pc[p] \in {"truncate", "write"} => mine[p] = saved \cup {Current(p)}
        /\ pc[p] = "write" => file = {} /\ p \in open

KInv == TInv /\ Alone /\ Named /\ \A p \in Proc : Kept(p)

LEMMA ByFileUses == \A p : ByFile(p) => UsesFile(args[p])
  BY DEF ByFile, UsesFile

\* Only Start makes an invocation run, and no step mends the file.
LEMMA AloneStep ==
    ASSUME KInv, NEW p \in Proc, Act(p)
    PROVE  /\ Alone' /\ (intact' => intact) /\ args' = args
           /\ Start(p) \/ Running(p)
           /\ Start(p) /\ intact' /\ UsesFile(args[p]) =>
                  \A q \in Proc : Running(q) => ~UsesFile(args[q])
<1>0. pc \in [Proc -> PC] /\ intact \in BOOLEAN /\ Alone /\ TInv
  BY DEF KInv, TInv, TypeOK
<1>1. (intact' => intact) /\ args' = args /\ (Start(p) \/ Running(p))
  BY <1>0 DEF Act, Step, Start, List, Plan, Gate, FindOnly, Find, Verify, Cascade,
     Attach, Load, Truncate, Write, Finish, Kill, Clear, Running, resumeFile
<1>2. Start(p) /\ intact' /\ UsesFile(args[p]) =>
          \A q \in Proc : Running(q) => ~UsesFile(args[q])
  BY <1>0 DEF Start
<1>3. \A q \in Proc \ {p} : pc'[q] = pc[q]
  BY <1>0, Bystander
<1>4. Alone'
  BY <1>0, <1>1, <1>2, <1>3 DEF Alone, Running
<1> QED
  BY <1>1, <1>2, <1>4

\* Who does not use the file leaves it alone.
LEMMA OthersFile ==
    ASSUME TInv, NEW p \in Proc, Act(p), ~UsesFile(args[p])
    PROVE  UNCHANGED <<file, saved>> /\ open \ {p} \subseteq open' /\ pc'[p] # "write"
           /\ pc[p] # "write"
<1>0. pc[p] \notin Saving /\ pc \in [Proc -> PC]
  BY ByFileUses DEF TInv, Queued, TypeOK
<1> USE DEF Goto, End, Failed, Succeeded, Saving, resumeFile
<1>1. CASE Start(p) \/ Kill(p)
  BY <1>0, <1>1 DEF Start, Kill, UsesFile
<1>2. CASE List(p) \/ Plan(p) \/ Gate(p) \/ FindOnly(p)
  BY <1>0, <1>2 DEF List, Plan, Gate, FindOnly
<1>3. CASE Find(p) \/ Verify(p)
  BY <1>0, <1>3 DEF Find, Verify, NotFound
<1>4. CASE Cascade(p) \/ Attach(p)
  BY <1>0, <1>4 DEF Cascade, Attach
<1>5. CASE Load(p) \/ Truncate(p) \/ Write(p)
  BY <1>0, <1>5 DEF Load, Truncate, Write
<1>6. CASE Finish(p)
  BY <1>0, <1>6 DEF Finish, UsesFile
<1> QED
  BY <1>1, <1>2, <1>3, <1>4, <1>5, <1>6 DEF Act, Step

\* The run at the file, in a step of its own.
LEMMA KeptStep ==
    ASSUME KInv, NEW p \in Proc, Act(p), intact', UsesFile(args[p])
    PROVE  Kept(p)' /\ (file' = saved' \/ pc'[p] = "write")
<1>0. /\ TInv /\ TypeOK /\ Kept(p) /\ intact /\ args' = args /\ Queued(p)
      /\ pc \in [Proc -> PC] /\ todo \in [Proc -> SUBSET Items]
      /\ mine \in [Proc -> SUBSET Items]
  BY AloneStep DEF KInv, TInv, TypeOK
<1>w. pc[p] # "write" => file = saved
  <2>1. Running(p) \/ Start(p)
    BY AloneStep
  <2>2. ASSUME NEW q \in Proc, pc[q] = "write", pc[p] # "write" PROVE FALSE
    <3>1. Running(q) /\ UsesFile(args[q])
      BY <1>0, <2>2, ByFileUses DEF KInv, TInv, Queued, Saving, Running
    <3>2. ~Start(p)
      BY <3>1, AloneStep
    <3> QED
      BY <1>0, <2>1, <2>2, <3>1, <3>2 DEF KInv, Alone
  <2> QED
    BY <1>0, <2>2 DEF KInv, Named
<1> USE DEF Goto, End, Failed, Succeeded, Saving, Trying, resumeFile
\* A step that leaves the file alone and puts nothing into the queue.
<1>s. ASSUME /\ UNCHANGED <<file, saved>> /\ todo'[p] \subseteq todo[p]
             /\ pc[p] \in {"next"} \cup Trying \cup Saving /\ pc[p] # "write"
             /\ pc'[p] \notin {"truncate", "write"}
      PROVE  Kept(p)' /\ (file' = saved' \/ pc'[p] = "write")
  BY <1>0, <1>w, <1>s DEF Kept, ByFile
<1>1. CASE Start(p) \/ List(p) \/ Kill(p)
  BY <1>0, <1>w, <1>1 DEF Start, List, Kill, Kept, ByFile, UsesFile
<1>2. CASE Plan(p)
  <2>1. ByFile(p) => todo'[p] \cap file = {}
    BY <1>0, <1>2 DEF Plan, FirstOf, ByFile, TypeOK
  <2> QED
    BY <1>0, <1>w, <1>2, <2>1 DEF Plan, Kept, ByFile
<1>3. CASE Gate(p) \/ FindOnly(p)
  BY <1>0, <1>3, <1>s DEF Gate, FindOnly
<1>4. CASE Find(p) \/ Verify(p)
  BY <1>0, <1>4, <1>s DEF Find, Verify, NotFound
<1>5. CASE Cascade(p) \/ Attach(p)
  BY <1>0, <1>5, <1>s DEF Cascade, Attach
<1>6. CASE Load(p)
  <2>1. Current(p)' = Current(p)
    BY <1>6, SameItem DEF Load
  <2> QED
    BY <1>0, <1>w, <1>6, <2>1 DEF Load, Kept, ByFile
<1>7. CASE Truncate(p)
  <2>1. CASE Failed(p) /\ UNCHANGED <<file, open>>
    BY <1>0, <1>7, <1>s, <2>1 DEF Truncate
  <2>2. CASE file' = {} /\ open' = open \cup {p} /\ Goto(p, "write")
    <3>1. Current(p)' = Current(p)
      BY <2>2, SameItem
    <3> QED
      BY <1>0, <1>7, <2>2, <3>1 DEF Truncate, Kept, ByFile
  <2> QED
    BY <1>7, <2>1, <2>2 DEF Truncate
<1>8. CASE Write(p)
  <2>1. ByFile(p) /\ file = {} /\ p \in open /\ mine[p] = saved \cup {Current(p)}
    BY <1>0, <1>8 DEF Write, Queued, Kept
  <2>2. ~(Cardinality({}) > Cardinality(mine[p]))
    <3>1. mine[p] \in SUBSET (1..ItemCount) /\ IsFiniteSet(1..ItemCount)
      BY <1>0, ItemCountAssump, FS_Interval DEF Items
    <3>2. IsFiniteSet(mine[p])
      BY <3>1, FS_Subset
    <3> QED
      BY <3>2, FS_CardinalityType, FS_EmptySet
  <2>3. file' = mine[p] /\ saved' = saved \cup {Current(p)}
    BY <1>8, <2>1, <2>2 DEF Write
  <2>4. pc'[p] = "next" /\ todo'[p] = todo[p] \ {Current(p)}
    BY <1>0, <1>8 DEF Write
  <2> QED
    BY <1>0, <1>8, <2>1, <2>3, <2>4 DEF Kept, ByFile, Write
<1>9. CASE Finish(p)
  BY <1>0, <1>w, <1>9 DEF Finish, Clear, Kept
<1> QED
  BY <1>1, <1>2, <1>3, <1>4, <1>5, <1>6, <1>7, <1>8, <1>9 DEF Act, Step

\* Whoever else is about leaves what q has to do with the file as it was.
LEMMA OthersKept ==
    ASSUME KInv, NEW p \in Proc, Act(p), intact', NEW q \in Proc \ {p}
    PROVE  Kept(q)'
<1>0. /\ TInv /\ Kept(q) /\ intact /\ args' = args /\ Alone
      /\ UNCHANGED <<pc[q], todo[q], mine[q]>> /\ Current(q)' = Current(q)
  BY AloneStep, Bystander DEF KInv
<1>1. CASE UsesFile(args[p])
  <2>1. ByFile(q) => ~Running(q)
    BY <1>0, <1>1, AloneStep, ByFileUses DEF Alone
  <2> QED
    BY <1>0, <2>1 DEF Kept, ByFile, Running, Trying, Saving
<1>2. CASE ~UsesFile(args[p])
  BY <1>0, <1>2, OthersFile DEF Kept, ByFile
<1> QED
  BY <1>1, <1>2

LEMMA NamedStep ==
    ASSUME KInv, NEW p \in Proc, Act(p)
    PROVE  Named'
<1> SUFFICES ASSUME intact' PROVE file' = saved' \/ \E q \in Proc : pc'[q] = "write"
  BY DEF Named
<1>1. CASE UsesFile(args[p])
  BY <1>1, KeptStep
<1>2. CASE ~UsesFile(args[p])
  <2>1. UNCHANGED <<file, saved>> /\ pc[p] # "write" /\ intact
    BY <1>2, OthersFile, AloneStep DEF KInv
  <2>2. \A q \in Proc \ {p} : pc'[q] = pc[q]
    BY Bystander DEF KInv
  <2> QED
    BY <2>1, <2>2 DEF KInv, Named
<1> QED
  BY <1>1, <1>2

LEMMA KNext == KInv /\ [Next]_vars => KInv'
<1> SUFFICES ASSUME KInv, [Next]_vars PROVE KInv'
  OBVIOUS
<1>0. TInv /\ TInv' /\ RestOK
  BY TNext, Parts DEF KInv
<1>1. ASSUME NEW p \in Proc, Act(p) PROVE KInv'
  <2>1. ASSUME NEW q \in Proc, intact', ByFile(q)' PROVE Kept(q)'
    <3>1. CASE q = p
      BY <1>1, <2>1, <3>1, AloneStep, KeptStep, ByFileUses DEF ByFile
    <3>2. CASE q # p
      BY <1>1, <2>1, <3>2, OthersKept
    <3> QED
      BY <3>1, <3>2
  <2>2. \A q \in Proc : Kept(q)'
    BY <2>1 DEF Kept
  <2> QED
    BY <1>0, <1>1, <2>2, AloneStep, NamedStep DEF KInv
<1>2. ASSUME UNCHANGED <<resumeFile, args, cli>> PROVE KInv'
  <2>1. UNCHANGED <<file, open, saved, intact, args, pc, todo, mine>>
    BY <1>2 DEF resumeFile, cli
  <2>2. \A p \in Proc : Current(p)' = Current(p)
    BY <2>1, SameItem
  <2>3. \A p \in Proc : Kept(p)'
    BY <2>1, <2>2 DEF KInv, Kept, ByFile
  <2>4. Alone' /\ Named'
    BY <2>1 DEF KInv, Alone, Named, Running
  <2> QED
    BY <1>0, <2>3, <2>4 DEF KInv
<1>3. CASE Outside
  BY <1>0, <1>2, <1>3, AddsOutside
<1>4. CASE UNCHANGED vars
  BY <1>2, <1>4 DEF vars
<1> QED
  BY <1>1, <1>3, <1>4 DEF Next, Act, Outside

LEMMA KInit == Init => KInv
<1> SUFFICES ASSUME Init PROVE KInv
  OBVIOUS
<1>1. (\A p \in Proc : pc[p] = "idle") /\ file = {} /\ saved = {}
  BY DEF Init
<1> QED
  BY <1>1, TInit DEF KInv, Alone, Named, Kept, Running, Trying, Saving

LEMMA KAlways == Spec => []KInv
  BY KInit, KNext, PTL DEF Spec

(* A run with --resume has nothing in its queue whose key was written      *)
(* since the file was last cleared, as long as no two runs were at the     *)
(* file at once and none died rewriting it (save_resume_key).              *)
THEOREM NothingIsTriedTwiceHolds == Spec => []NothingIsTriedTwice
<1>1. KInv => NothingIsTriedTwice
  BY DEF KInv, Kept, ByFile, NothingIsTriedTwice, Trying
<1> QED
  BY <1>1, KAlways, PTL
=============================================================================
