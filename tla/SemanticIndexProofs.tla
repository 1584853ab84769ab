------------------------ MODULE SemanticIndexProofs ------------------------
(***************************************************************************)
(* The two tables of the index agree and hold what builds say they         *)
(* indexed, for any number of builds, items, versions and any batch size.  *)
(***************************************************************************)
EXTENDS SemanticIndex, TLAPS

\* A reader finds both rows of k.
Stored(k) == Committed.text[k] # Absent /\ Committed.vec[k] # Absent

\* A transaction holds both rows of an item, unless it is between the two
\* inserts or the second one failed; nothing is left of one that ended.
Paired(p) ==
    /\ newVec[p] \subseteq newText[p]
    /\ \A k \in newText[p] \ newVec[p] : k \in torn \/ (pc[p] = "vec" /\ k = at[p])
    /\ pc[p] = "vec" => lock = p /\ at[p] \in newText[p]
    /\ pc[p] = "done" => newText[p] = {}

\* While a build writes pages, the journal has what was there before, and
\* each table is still that or has all of the build's rows.
Writing(p) ==
    pc[p] = "pages" =>
        /\ lock = p /\ journal # {}
        /\ \A t \in journal : /\ text = t.text \/ text = With(t.text, newText, p)
                              /\ vec = t.vec \/ vec = With(t.vec, newVec, p)

\* A journal stands only while its pages are written, or nobody has the lock.
Journalled ==
    journal # {} => lock = Nobody \/ \E p \in Proc : lock = p /\ pc[p] = "pages"

\* What a build counts it has committed, or has in its open transaction.
Counted(p) ==
    /\ report[p] # "none" => pc[p] = "done"
    /\ report[p] \in {"none", "ok"} => \A k \in indexed[p] \ newVec[p] : Stored(k)

IInv ==
    /\ TypeOK
    /\ Journalled
    /\ BothRowsOrNone
    /\ \A p \in Proc : Paired(p) /\ Writing(p) /\ Counted(p)

-----------------------------------------------------------------------------

LEMMA TypeInit == Init => TypeOK
  BY KeyCountAssump, VersionsAssump, NobodyAssump DEF Init, TypeOK, Key, Row, Tables, Absent, PC

\* What a reader finds is a pair of tables.
LEMMA CommittedType == ASSUME TypeOK PROVE Committed \in Tables
<1>1. CASE journal = {}
  BY <1>1 DEF Committed, TypeOK, Tables
<1>2. CASE journal # {}
  <2>1. (CHOOSE t \in journal : TRUE) \in journal
    BY <1>2
  <2> QED
    BY <1>2, <2>1 DEF Committed, TypeOK
<1> QED
  BY <1>1, <1>2

\* The transaction of a build in a table is a table.
LEMMA WithType ==
    ASSUME TypeOK, NEW p \in Proc, NEW table \in Row, NEW new
    PROVE  With(table, new, p) \in Row
<1>1. \A k \in Key : rows[p][k] \in Absent..Versions /\ table[k] \in Absent..Versions
  BY VersionsAssump DEF Row, TypeOK, Absent
<1> QED
  BY <1>1 DEF With, Row

\* Rolling back changes what is in the file, and nothing a reader finds.
LEMMA RollBackType ==
    ASSUME TypeOK, RollBack
    PROVE  /\ text' \in Row /\ vec' \in Row /\ journal' = {}
           /\ Committed' = Committed
<1>1. Committed \in Tables
  BY CommittedType
<1>2. text' = Committed.text /\ vec' = Committed.vec /\ journal' = {}
  BY DEF RollBack
<1>3. Committed' = [text |-> text', vec |-> vec']
  BY <1>2 DEF Committed
<1>4. Committed = [text |-> Committed.text, vec |-> Committed.vec]
  BY <1>1 DEF Tables
<1> QED
  BY <1>1, <1>2, <1>3, <1>4 DEF Tables

LEMMA EndType ==
    ASSUME TypeOK, NEW p \in Proc, NEW r \in {"ok", "failure", "killed"}, End(p, r),
           UNCHANGED <<source, torn>>, text' \in Row, vec' \in Row,
           journal' \subseteq Tables, \A t, u \in journal' : t = u
    PROVE  TypeOK'
  BY NobodyAssump DEF TypeOK, End, Goto, Unlocked, PC

LEMMA ContinueType ==
    ASSUME TypeOK, NEW p \in Proc, Continue(p), pc[p] \in {"commit", "pages"},
           UNCHANGED <<source, torn>>, text' \in Row, vec' \in Row,
           journal' \subseteq Tables, \A t, u \in journal' : t = u
    PROVE  TypeOK'
<1>1. CASE todo[p] = {}
  BY <1>1, EndType DEF Continue
<1>2. CASE todo[p] # {}
  <2>0. /\ pc \in [Proc -> PC] /\ lock \in Proc \cup {Nobody}
        /\ newText \in [Proc -> SUBSET Key] /\ newVec \in [Proc -> SUBSET Key]
        /\ \A q \in Proc : newText[q] # {} => lock = q
    BY DEF TypeOK
  <2>1. pc' \in [Proc -> PC]
    BY <1>2, <2>0 DEF Continue, Goto, PC
  <2>2. newText' \in [Proc -> SUBSET Key] /\ newVec' \in [Proc -> SUBSET Key]
    BY <1>2, <2>0 DEF Continue
  <2>3. lock' \in Proc \cup {Nobody} /\ \A q \in Proc : newText'[q] # {} => lock' = q
    BY <1>2, <2>0 DEF Continue, Unlocked
  <2> QED
    BY <1>2, <2>1, <2>2, <2>3 DEF Continue, TypeOK
<1> QED
  BY <1>1, <1>2

LEMMA TypeStep == TypeOK /\ [Next]_vars => TypeOK'
<1> SUFFICES ASSUME TypeOK, [Next]_vars PROVE TypeOK'
  OBVIOUS
<1> USE DEF Goto, build, file
<1>1. ASSUME NEW p \in Proc, Read(p) PROVE TypeOK'
  <2>1. CASE End(p, "failure")
    BY <1>1, <2>1, EndType DEF Read, TypeOK
  <2>2. CASE ~End(p, "failure")
    <3>0. /\ pc \in [Proc -> PC] /\ rows \in [Proc -> [Key -> 1..Versions]]
          /\ source \in [Key -> 1..Versions]
      BY DEF TypeOK
    <3>1. pc' \in [Proc -> PC]
      BY <1>1, <2>2, <3>0 DEF Read, PC
    <3>2. rows' \in [Proc -> [Key -> 1..Versions]]
      BY <1>1, <2>2, <3>0 DEF Read
    <3> QED
      BY <1>1, <2>2, <3>1, <3>2 DEF Read, TypeOK
  <2> QED
    BY <2>1, <2>2
<1>2. ASSUME NEW p \in Proc, Connect(p) PROVE TypeOK'
  <2>1. CASE End(p, "failure") /\ UNCHANGED file
    BY <1>2, <2>1, EndType DEF Connect, TypeOK
  <2>2. CASE ~(End(p, "failure") /\ UNCHANGED file)
    <3>1. RollBack
      BY <1>2, <2>2 DEF Connect
    <3>2. text' \in Row /\ vec' \in Row /\ journal' = {}
      BY <3>1, RollBackType
    <3>3. PICK keys \in SUBSET Key : existing' = [existing EXCEPT ![p] = keys]
      BY <1>2, <2>2 DEF Connect
    <3> QED
      <4>0. pc \in [Proc -> PC] /\ existing \in [Proc -> SUBSET Key] /\ todo \in [Proc -> SUBSET Key]
        BY DEF TypeOK
      <4>1. pc' \in [Proc -> PC]
        BY <1>2, <2>2, <4>0 DEF Connect, PC
      <4>2. existing' \in [Proc -> SUBSET Key] /\ todo' \in [Proc -> SUBSET Key]
        BY <1>2, <2>2, <3>3, <4>0 DEF Connect
      <4>3. UNCHANGED <<source, lock, rows, at, newText, newVec, indexed, errors, report, torn>>
        BY <1>2, <2>2 DEF Connect
      <4> QED
        BY <3>2, <4>1, <4>2, <4>3 DEF TypeOK
  <2> QED
    BY <2>1, <2>2
<1>3. ASSUME NEW p \in Proc, Take(p) PROVE TypeOK'
  BY <1>3 DEF Take, TypeOK, PC
<1>4. ASSUME NEW p \in Proc, Embed(p) PROVE TypeOK'
  <2>0. pc \in [Proc -> PC] /\ errors \in [Proc -> SUBSET Key] /\ at[p] \in Key
    BY DEF TypeOK
  <2>1. pc' \in [Proc -> PC]
    BY <1>4, <2>0 DEF Embed, ItemFails, PC
  <2>2. errors' \in [Proc -> SUBSET Key]
    BY <1>4, <2>0 DEF Embed, ItemFails
  <2> QED
    BY <1>4, <2>1, <2>2 DEF Embed, ItemFails, TypeOK
<1>5. ASSUME NEW p \in Proc, InsertText(p) PROVE TypeOK'
  <2>1. CASE lock \in {p, Nobody} /\ RollBack /\ lock' = p
             /\ newText' = [newText EXCEPT ![p] = @ \cup {at[p]}]
             /\ Goto(p, "vec")
             /\ UNCHANGED <<rows, existing, todo, at, newVec, indexed, errors, report>>
    <3>1. text' \in Row /\ vec' \in Row /\ journal' = {}
      BY <2>1, RollBackType
    <3> QED
      BY <1>5, <2>1, <3>1, NobodyAssump DEF InsertText, TypeOK, PC
  <2>2. CASE ItemFails(p) /\ UNCHANGED <<newText, lock, file>>
    BY <1>5, <2>2 DEF InsertText, ItemFails, TypeOK, PC
  <2> QED
    BY <1>5, <2>1, <2>2 DEF InsertText
<1>6. ASSUME NEW p \in Proc, InsertVec(p) PROVE TypeOK'
  <2>0. /\ pc \in [Proc -> PC] /\ at[p] \in Key /\ torn \subseteq Key
        /\ newVec \in [Proc -> SUBSET Key] /\ indexed \in [Proc -> SUBSET Key]
        /\ errors \in [Proc -> SUBSET Key]
    BY DEF TypeOK
  <2>1. pc' \in [Proc -> PC]
    BY <1>6, <2>0 DEF InsertVec, ItemFails, PC
  <2>2. newVec' \in [Proc -> SUBSET Key] /\ indexed' \in [Proc -> SUBSET Key]
    BY <1>6, <2>0 DEF InsertVec, ItemFails
  <2>3. errors' \in [Proc -> SUBSET Key] /\ torn' \subseteq Key
    BY <1>6, <2>0 DEF InsertVec, ItemFails
  <2> QED
    BY <1>6, <2>1, <2>2, <2>3 DEF InsertVec, ItemFails, TypeOK
<1>7. ASSUME NEW p \in Proc, Last(p) PROVE TypeOK'
  BY <1>7 DEF Last, TypeOK, PC
<1>8. ASSUME NEW p \in Proc, CommitBegins(p) PROVE TypeOK'
  <2>1. CASE End(p, "failure") /\ UNCHANGED file
    BY <1>8, <2>1, EndType DEF CommitBegins, TypeOK
  <2>2. CASE Continue(p) /\ UNCHANGED file
    BY <1>8, <2>2, ContinueType DEF CommitBegins, TypeOK
  <2>3. CASE /\ journal' = {[text |-> text, vec |-> vec]}
             /\ \/ text' = With(text, newText, p) /\ UNCHANGED vec
                \/ vec' = With(vec, newVec, p) /\ UNCHANGED text
             /\ Goto(p, "pages")
             /\ UNCHANGED <<lock, build>>
    <3>1. text' \in Row /\ vec' \in Row
      BY <2>3, WithType DEF TypeOK
    <3>2. journal' \subseteq Tables /\ \A t, u \in journal' : t = u
      BY <2>3 DEF TypeOK, Tables
    <3> QED
      BY <1>8, <2>3, <3>1, <3>2 DEF CommitBegins, TypeOK, PC
  <2> QED
    BY <1>8, <2>1, <2>2, <2>3 DEF CommitBegins
<1>9. ASSUME NEW p \in Proc, CommitEnds(p) PROVE TypeOK'
  BY <1>9, WithType, ContinueType DEF CommitEnds, TypeOK
<1>10. ASSUME NEW p \in Proc, Kill(p) PROVE TypeOK'
  BY <1>10, EndType DEF Kill, TypeOK
<1>11. ASSUME NEW k \in Key \ Blank, Edit(k) PROVE TypeOK'
  BY <1>11, VersionsAssump DEF Edit, TypeOK
<1>12. CASE UNCHANGED vars
  BY <1>12 DEF vars, TypeOK
<1> QED
  BY <1>1, <1>2, <1>3, <1>4, <1>5, <1>6, <1>7, <1>8, <1>9, <1>10, <1>11, <1>12 DEF Next, Step

(* Every state of a build index is of its type (build_index).              *)
THEOREM TypeCorrect == Spec => []TypeOK
  BY TypeInit, TypeStep, PTL DEF Spec

-----------------------------------------------------------------------------
(* The file and the lock.                                                  *)

Act(p) == Read(p) \/ Step(p) \/ Kill(p)

\* A build begins to write the pages of its transaction.
WritesFirst(p) ==
    /\ pc[p] = "commit" /\ lock = p
    /\ journal' = {[text |-> text, vec |-> vec]}
    /\ \/ text' = With(text, newText, p) /\ vec' = vec
       \/ vec' = With(vec, newVec, p) /\ text' = text
    /\ pc' = [pc EXCEPT ![p] = "pages"]
    /\ UNCHANGED <<lock, build, torn>>

LEMMA FileMoves ==
    ASSUME TypeOK, NEW p \in Proc, Act(p)
    PROVE  \/ /\ UNCHANGED file /\ pc'[p] # "pages"
              /\ lock' = lock \/ (lock = p /\ lock' = Nobody)
           \/ /\ RollBack /\ pc'[p] # "pages"
              /\ lock' = lock \/ (lock = Nobody /\ lock' = p)
           \/ WritesFirst(p)
           \/ CommitEnds(p)
<1> USE DEF Goto, file, build
<1>0. pc \in [Proc -> PC]
  BY DEF TypeOK
<1>1. ASSUME NEW r, End(p, r)
      PROVE  pc'[p] # "pages" /\ (lock' = lock \/ (lock = p /\ lock' = Nobody))
  BY <1>1, <1>0 DEF End, Unlocked
<1>2. CASE Read(p)
  BY <1>2, <1>0, <1>1 DEF Read
<1>3. CASE Connect(p)
  BY <1>3, <1>0, <1>1 DEF Connect
<1>4. CASE Take(p)
  BY <1>4, <1>0 DEF Take
<1>5. CASE Embed(p)
  BY <1>5, <1>0 DEF Embed, ItemFails
<1>6. CASE InsertText(p)
  BY <1>6, <1>0 DEF InsertText, ItemFails
<1>7. CASE InsertVec(p)
  BY <1>7, <1>0 DEF InsertVec, ItemFails
<1>8. CASE Last(p)
  BY <1>8, <1>0 DEF Last
<1>9. CASE CommitBegins(p)
  <2>1. CASE Continue(p) /\ UNCHANGED file
    BY <2>1, <1>0, <1>1 DEF Continue, Unlocked
  <2>2. CASE End(p, "failure") /\ UNCHANGED file
    BY <2>2, <1>1
  <2>3. CASE WritesFirst(p)
    BY <2>3
  <2> QED
    BY <1>9, <2>1, <2>2, <2>3 DEF CommitBegins, WritesFirst
<1>10. CASE Kill(p)
  BY <1>10, <1>1 DEF Kill
<1> QED
  BY <1>2, <1>3, <1>4, <1>5, <1>6, <1>7, <1>8, <1>9, <1>10 DEF Act, Step

\* No build touches what another one has.
LEMMA Bystander ==
    ASSUME TypeOK, NEW p \in Proc, Act(p), NEW q \in Proc \ {p}
    PROVE  /\ UNCHANGED <<pc[q], rows[q], at[q], newText[q], newVec[q], indexed[q], report[q]>>
           /\ torn \subseteq torn'
           /\ lock = q => lock' = q
<1> USE DEF Goto, build, file
<1>0. p # Nobody /\ q # Nobody
  BY NobodyAssump
<1>1. CASE \E r : End(p, r) /\ UNCHANGED torn
  BY <1>1 DEF End, Unlocked, TypeOK
<1>2. CASE Continue(p) /\ UNCHANGED torn
  BY <1>1, <1>2 DEF Continue, Unlocked, TypeOK
<1>3. CASE ItemFails(p) /\ UNCHANGED <<newText, lock>> /\ torn \subseteq torn'
  BY <1>3 DEF ItemFails, TypeOK
<1>4. CASE Read(p)
  BY <1>1, <1>4 DEF Read, TypeOK
<1>5. CASE Connect(p)
  BY <1>1, <1>5 DEF Connect, TypeOK
<1>6. CASE Take(p) \/ Embed(p) \/ Last(p)
  BY <1>3, <1>6 DEF Take, Embed, Last, TypeOK
<1>7. CASE InsertText(p)
  BY <1>0, <1>3, <1>7 DEF InsertText, TypeOK
<1>8. CASE InsertVec(p)
  BY <1>3, <1>8 DEF InsertVec, TypeOK
<1>9. CASE CommitBegins(p)
  BY <1>1, <1>2, <1>9 DEF CommitBegins, TypeOK
<1>10. CASE CommitEnds(p)
  BY <1>2, <1>10 DEF CommitEnds
<1>11. CASE Kill(p)
  BY <1>1, <1>11 DEF Kill
<1> QED
  BY <1>4, <1>5, <1>6, <1>7, <1>8, <1>9, <1>10, <1>11 DEF Act, Step

-----------------------------------------------------------------------------
(* What a step of a build does to what readers find.                       *)

\* Writing the pages of a transaction twice is writing them once.
LEMMA WithTwice ==
    ASSUME NEW table, NEW new, NEW p
    PROVE  With(With(table, new, p), new, p) = With(table, new, p)
  BY DEF With

\* Readers find something else only when a commit ends, and then exactly the
\* rows of its transaction besides what they found.
LEMMA Advance ==
    ASSUME IInv, NEW p \in Proc, Act(p)
    PROVE  Committed' = IF CommitEnds(p)
                        THEN [text |-> With(Committed.text, newText, p),
                              vec |-> With(Committed.vec, newVec, p)]
                        ELSE Committed
<1>0. TypeOK /\ Journalled /\ Writing(p) /\ p # Nobody
  BY NobodyAssump DEF IInv
<1>1. CASE UNCHANGED file /\ ~CommitEnds(p)
  BY <1>1 DEF file, Committed
<1>2. CASE RollBack /\ ~CommitEnds(p)
  BY <1>0, <1>2, RollBackType
<1>3. CASE WritesFirst(p) /\ ~CommitEnds(p)
  <2>1. journal = {}
    BY <1>0, <1>3 DEF WritesFirst, Journalled
  <2>2. journal' = {Committed}
    BY <1>3, <2>1 DEF WritesFirst, Committed
  <2>3. (CHOOSE t \in {Committed} : TRUE) = Committed
    OBVIOUS
  <2> QED
    BY <1>3, <2>2, <2>3 DEF Committed
<1>4. CASE CommitEnds(p)
  <2>1. pc[p] = "pages" /\ journal # {}
    BY <1>0, <1>4 DEF CommitEnds, Writing
  <2>2. PICK t \in journal : Committed = t
    BY <2>1 DEF Committed
  <2>3. /\ text = t.text \/ text = With(t.text, newText, p)
        /\ vec = t.vec \/ vec = With(t.vec, newVec, p)
    BY <1>0, <2>1 DEF Writing
  <2>4. text' = With(t.text, newText, p) /\ vec' = With(t.vec, newVec, p)
    BY <1>4, <2>3, WithTwice DEF CommitEnds
  <2>5. Committed' = [text |-> text', vec |-> vec']
    BY <1>4 DEF CommitEnds, Committed
  <2> QED
    BY <1>4, <2>2, <2>4, <2>5
<1> QED
  BY <1>0, <1>1, <1>2, <1>3, <1>4, FileMoves

\* What is stored stays, and a commit that ends stores its pairs of rows.
LEMMA StoredStays ==
    ASSUME IInv, NEW p \in Proc, Act(p), NEW k \in Key,
           Stored(k) \/ (CommitEnds(p) /\ k \in newText[p] /\ k \in newVec[p])
    PROVE  Stored(k)'
<1>1. rows[p][k] # Absent
  BY DEF IInv, TypeOK, Absent
<1>2. CASE CommitEnds(p)
  BY <1>1, <1>2, Advance DEF Stored, With
<1>3. CASE ~CommitEnds(p)
  BY <1>3, Advance DEF Stored
<1> QED
  BY <1>2, <1>3

-----------------------------------------------------------------------------
(* The parts of the invariant.                                             *)

\* While a build writes pages it can only finish or be killed.
LEMMA PagesNext ==
    ASSUME NEW p \in Proc, Act(p), pc[p] = "pages"
    PROVE  CommitEnds(p) \/ Kill(p)
  BY DEF Act, Step, Read, Connect, Take, Embed, InsertText, InsertVec, Last, CommitBegins

LEMMA JournalledStep ==
    ASSUME IInv, NEW p \in Proc, Act(p)
    PROVE  Journalled'
<1>0. TypeOK /\ Journalled /\ Writing(p) /\ pc \in [Proc -> PC]
  BY DEF IInv, TypeOK
<1>1. CASE UNCHANGED file
  <2> SUFFICES ASSUME journal # {} PROVE Journalled'
    BY <1>1 DEF file, Journalled
  <2>1. CASE lock = Nobody
    <3>1. lock' = Nobody \/ (RollBack /\ lock' = p) \/ WritesFirst(p) \/ CommitEnds(p)
      BY <1>0, <2>1, FileMoves
    <3> QED
      BY <1>1, <2>1, <3>1, NobodyAssump DEF Journalled, WritesFirst, CommitEnds, RollBack, file,
         Writing, IInv
  <2>2. CASE lock = p /\ pc[p] = "pages"
    BY <1>1, <2>2, PagesNext DEF CommitEnds, Kill, End, Unlocked, Journalled, file
  <2>3. ASSUME NEW q \in Proc \ {p}, lock = q, pc[q] = "pages" PROVE Journalled'
    BY <1>0, <2>3, Bystander DEF Journalled
  <2> QED
    BY <1>0, <2>1, <2>2, <2>3 DEF Journalled
<1>2. CASE RollBack \/ CommitEnds(p)
  BY <1>2 DEF RollBack, CommitEnds, Journalled
<1>3. CASE WritesFirst(p)
  BY <1>0, <1>3 DEF WritesFirst, Journalled
<1> QED
  BY <1>0, <1>1, <1>2, <1>3, FileMoves

LEMMA WritingStep ==
    ASSUME IInv, NEW p \in Proc, Act(p), NEW q \in Proc
    PROVE  Writing(q)'
<1>0. TypeOK /\ Journalled /\ Writing(p) /\ Writing(q) /\ pc \in [Proc -> PC]
      /\ p # Nobody /\ q # Nobody
  BY NobodyAssump DEF IInv, TypeOK
<1>1. CASE q = p
  <2>1. CASE WritesFirst(p)
    <3>1. \A t \in journal' : t = [text |-> text, vec |-> vec]
      BY <2>1 DEF WritesFirst
    <3>2. UNCHANGED <<lock, rows, newText, newVec>> /\ lock = p /\ journal' # {}
      BY <2>1 DEF WritesFirst, build
    <3>3. text' = text \/ text' = With(text, newText, p)
      BY <2>1 DEF WritesFirst
    <3>4. vec' = vec \/ vec' = With(vec, newVec, p)
      BY <2>1 DEF WritesFirst
    <3> QED
      BY <1>1, <3>1, <3>2, <3>3, <3>4 DEF Writing, With
  <2>2. CASE CommitEnds(p)
    BY <1>0, <1>1, <2>2 DEF CommitEnds, Continue, End, Goto, Writing
  <2> QED
    BY <1>0, <1>1, <2>1, <2>2, FileMoves DEF Writing
<1>2. CASE q # p
  <2> SUFFICES ASSUME pc'[q] = "pages" PROVE Writing(q)'
    BY DEF Writing
  <2>1. /\ pc[q] = "pages" /\ lock' = lock /\ lock = q /\ journal # {}
        /\ UNCHANGED <<rows[q], newText[q], newVec[q]>>
    BY <1>0, <1>2, Bystander DEF Writing
  <2>2. UNCHANGED file
    BY <1>0, <1>2, <2>1, FileMoves DEF RollBack, WritesFirst, CommitEnds, Writing
  <2>3. \A t \in Tables : /\ With(t.text, newText, q)' = With(t.text, newText, q)
                          /\ With(t.vec, newVec, q)' = With(t.vec, newVec, q)
    BY <2>1 DEF With
  <2>4. journal \subseteq Tables
    BY <1>0 DEF TypeOK
  <2> QED
    BY <1>0, <2>1, <2>2, <2>3, <2>4 DEF Writing, file
<1> QED
  BY <1>1, <1>2

\* A step of p leaves p's transaction in order.
LEMMA PairedStep ==
    ASSUME IInv, NEW p \in Proc, Act(p)
    PROVE  Paired(p)'
<1> USE DEF Goto, build
<1>0. /\ TypeOK /\ Paired(p)
      /\ pc \in [Proc -> PC] /\ at[p] \in Key
      /\ newText \in [Proc -> SUBSET Key] /\ newVec \in [Proc -> SUBSET Key]
  BY DEF IInv, TypeOK
<1>1. ASSUME NEW r, End(p, r) PROVE Paired(p)'
  BY <1>0, <1>1 DEF End, Paired
<1>2. ASSUME Continue(p) PROVE Paired(p)'
  BY <1>0, <1>1, <1>2 DEF Continue, Paired
<1>3. CASE Read(p)
  BY <1>0, <1>1, <1>3 DEF Read, Paired
<1>4. CASE Connect(p)
  BY <1>0, <1>1, <1>4 DEF Connect, Paired
<1>5. CASE Take(p)
  BY <1>0, <1>5 DEF Take, Paired
<1>6. CASE Embed(p)
  BY <1>0, <1>6 DEF Embed, ItemFails, Paired
<1>7. CASE InsertText(p)
  <2>1. CASE ItemFails(p) /\ UNCHANGED <<newText, torn>>
    BY <1>0, <1>7, <2>1 DEF ItemFails, Paired, InsertText
  <2>2. CASE /\ lock' = p /\ newText' = [newText EXCEPT ![p] = @ \cup {at[p]}]
             /\ pc' = [pc EXCEPT ![p] = "vec"]
             /\ UNCHANGED <<at, newVec, torn>>
    BY <1>0, <1>7, <2>2 DEF InsertText, Paired
  <2> QED
    BY <1>7, <2>1, <2>2 DEF InsertText
<1>8. CASE InsertVec(p)
  BY <1>0, <1>8 DEF InsertVec, ItemFails, Paired
<1>9. CASE Last(p)
  BY <1>0, <1>9 DEF Last, Paired
<1>10. CASE CommitBegins(p)
  <2>1. CASE WritesFirst(p)
    BY <1>0, <2>1 DEF WritesFirst, Paired
  <2> QED
    BY <1>1, <1>2, <1>10, <2>1 DEF CommitBegins, WritesFirst
<1>11. CASE CommitEnds(p)
  BY <1>2, <1>11 DEF CommitEnds
<1>12. CASE Kill(p)
  BY <1>1, <1>12 DEF Kill
<1> QED
  BY <1>3, <1>4, <1>5, <1>6, <1>7, <1>8, <1>9, <1>10, <1>11, <1>12 DEF Act, Step

\* A commit that ends writes both rows of an item or none, unless it is torn.
LEMMA BothStep ==
    ASSUME IInv, NEW p \in Proc, Act(p)
    PROVE  BothRowsOrNone'
<1>1. torn \subseteq torn'
  BY DEF Act, Step, Read, Connect, Take, Embed, InsertText, InsertVec, Last, CommitBegins,
         CommitEnds, Kill
<1>2. CASE CommitEnds(p)
  <2>1. Paired(p) /\ pc[p] = "pages"
    BY <1>2 DEF IInv, CommitEnds
  <2>2. \A k \in Key \ torn : k \in newText[p] <=> k \in newVec[p]
    BY <2>1 DEF Paired
  <2> QED
    BY <1>1, <1>2, <2>2, Advance DEF IInv, BothRowsOrNone, With
<1>3. CASE ~CommitEnds(p)
  BY <1>1, <1>3, Advance DEF IInv, BothRowsOrNone
<1> QED
  BY <1>2, <1>3

\* What p counts has both rows, whichever way its step ends a transaction.
LEMMA CountedStep ==
    ASSUME IInv, NEW p \in Proc, Act(p)
    PROVE  Counted(p)'
<1> USE DEF Goto, build
<1>0. /\ Counted(p) /\ Paired(p) /\ p # Nobody
      /\ pc \in [Proc -> PC] /\ at[p] \in Key
      /\ newText \in [Proc -> SUBSET Key] /\ newVec \in [Proc -> SUBSET Key]
      /\ indexed \in [Proc -> SUBSET Key]
      /\ report \in [Proc -> {"none", "ok", "failure", "killed"}]
      /\ newText[p] # {} => lock = p
  BY NobodyAssump DEF IInv, TypeOK
<1>s. \A k \in Key : Stored(k) => Stored(k)'
  BY StoredStays
<1>1. ASSUME NEW r \in {"failure", "killed"}, End(p, r) PROVE Counted(p)'
  BY <1>0, <1>1 DEF End, Counted
<1>2. ASSUME /\ pc[p] # "done" /\ UNCHANGED <<newVec, indexed, report>>
      PROVE  Counted(p)'
  BY <1>0, <1>s, <1>2 DEF Counted
<1>3. ASSUME Continue(p), pc[p] # "done", \A k \in indexed[p] : Stored(k)'
      PROVE  Counted(p)'
  <2>1. CASE todo[p] = {}
    BY <1>0, <1>3, <2>1 DEF Continue, End, Counted
  <2>2. CASE todo[p] # {}
    BY <1>0, <1>3, <2>2 DEF Continue, Counted
  <2> QED
    BY <2>1, <2>2
<1>4. CASE Read(p)
  BY <1>1, <1>2, <1>4 DEF Read
<1>5. CASE Connect(p)
  BY <1>1, <1>2, <1>5 DEF Connect
<1>6. CASE Take(p) \/ Embed(p) \/ InsertText(p) \/ Last(p)
  BY <1>2, <1>6 DEF Take, Embed, InsertText, Last, ItemFails
<1>7. CASE InsertVec(p)
  <2>1. CASE ItemFails(p)
    BY <1>2, <1>7, <2>1 DEF InsertVec, ItemFails
  <2>2. CASE /\ newVec' = [newVec EXCEPT ![p] = @ \cup {at[p]}]
             /\ indexed' = [indexed EXCEPT ![p] = @ \cup {at[p]}]
             /\ UNCHANGED report
    <3>1. indexed'[p] \ newVec'[p] \subseteq indexed[p] \ newVec[p]
      BY <1>0, <2>2
    <3>2. pc[p] = "vec"
      BY <1>7 DEF InsertVec
    <3> QED
      BY <1>0, <1>s, <2>2, <3>1, <3>2 DEF Counted
  <2> QED
    BY <1>7, <2>1, <2>2 DEF InsertVec
<1>8. CASE CommitBegins(p)
  <2>1. CASE lock = p
    BY <1>1, <1>2, <1>8, <2>1 DEF CommitBegins
  <2>2. CASE lock # p
    <3>1. newVec[p] = {} /\ report[p] = "none"
      BY <1>0, <1>8, <2>2 DEF Paired, Counted, CommitBegins
    <3>2. \A k \in indexed[p] : Stored(k)'
      BY <1>0, <1>s, <3>1 DEF Counted
    <3> QED
      BY <1>3, <1>8, <2>2, <3>2 DEF CommitBegins
  <2> QED
    BY <2>1, <2>2
<1>9. CASE CommitEnds(p)
  <2>1. newVec[p] \subseteq newText[p] /\ report[p] = "none" /\ pc[p] = "pages"
    BY <1>0, <1>9 DEF Paired, Counted, CommitEnds
  <2>2. \A k \in Key : k \in newVec[p] \/ Stored(k) => Stored(k)'
    BY <1>9, <2>1, StoredStays
  <2>3. \A k \in indexed[p] : Stored(k)'
    BY <1>0, <2>1, <2>2 DEF Counted
  <2> QED
    BY <1>3, <1>9, <2>1, <2>3 DEF CommitEnds
<1>10. CASE Kill(p)
  BY <1>1, <1>10 DEF Kill
<1> QED
  BY <1>4, <1>5, <1>6, <1>7, <1>8, <1>9, <1>10 DEF Act, Step

-----------------------------------------------------------------------------

LEMMA IInit == Init => IInv
<1> SUFFICES ASSUME Init PROVE IInv
  OBVIOUS
<1>1. journal = {} /\ text = [k \in Key |-> Absent] /\ vec = [k \in Key |-> Absent]
  BY DEF Init
<1>2. ASSUME NEW p \in Proc
      PROVE  /\ pc[p] = "idle" /\ newText[p] = {} /\ newVec[p] = {} /\ indexed[p] = {}
             /\ report[p] = "none"
  BY DEF Init
<1>3. \A p \in Proc : Paired(p) /\ Writing(p) /\ Counted(p)
  BY <1>2 DEF Paired, Writing, Counted
<1>4. BothRowsOrNone /\ Journalled
  BY <1>1 DEF BothRowsOrNone, Committed, Journalled
<1> QED
  BY <1>3, <1>4, TypeInit DEF IInv

LEMMA IStep == IInv /\ [Next]_vars => IInv'
<1> SUFFICES ASSUME IInv, [Next]_vars PROVE IInv'
  OBVIOUS
<1>0. TypeOK'
  BY TypeStep DEF IInv
<1>1. ASSUME NEW p \in Proc, Act(p) PROVE IInv'
  <2>1. ASSUME NEW q \in Proc \ {p} PROVE Paired(q)' /\ Counted(q)'
    <3>1. TypeOK /\ Paired(q) /\ Counted(q) /\ indexed[q] \subseteq Key
      BY <2>1 DEF IInv, TypeOK
    <3>2. /\ UNCHANGED <<pc[q], at[q], newText[q], newVec[q], indexed[q], report[q]>>
          /\ torn \subseteq torn' /\ (lock = q => lock' = q)
      BY <1>1, <2>1, <3>1, Bystander
    <3>3. \A k \in Key : Stored(k) => Stored(k)'
      BY <1>1, StoredStays
    <3> QED
      BY <3>1, <3>2, <3>3 DEF Paired, Counted
  <2>2. \A q \in Proc : Paired(q)' /\ Counted(q)' /\ Writing(q)'
    BY <1>1, <2>1, PairedStep, CountedStep, WritingStep
  <2> QED
    BY <1>0, <1>1, <2>2, JournalledStep, BothStep DEF IInv
<1>2. CASE UNCHANGED <<file, lock, pc, build, torn>>
  <2>1. UNCHANGED <<text, vec, journal, lock, pc, rows, at, newText, newVec, indexed, report, torn>>
    BY <1>2 DEF file, build
  <2>2. UNCHANGED Committed
    BY <2>1 DEF Committed
  <2>3. Journalled' /\ BothRowsOrNone'
    BY <2>1, <2>2 DEF IInv, Journalled, BothRowsOrNone
  <2>4. \A p \in Proc : Paired(p)' /\ Counted(p)'
    BY <2>1, <2>2 DEF IInv, Paired, Counted, Stored
  <2>5. \A p \in Proc : Writing(p)'
    BY <2>1 DEF IInv, Writing, With
  <2> QED
    BY <1>0, <2>3, <2>4, <2>5 DEF IInv
<1> QED
  BY <1>1, <1>2 DEF Next, Act, Edit, vars

LEMMA IAlways == Spec => []IInv
  BY IInit, IStep, PTL DEF Spec

(* No kill, failing commit or other build leaves an item with one row of   *)
(* the two, or with rows of two versions of its text, unless its vector    *)
(* could not be inserted (build_index).                                    *)
THEOREM BothRowsOrNoneHolds == Spec => []BothRowsOrNone
<1>1. IInv => BothRowsOrNone
  BY DEF IInv
<1> QED
  BY <1>1, IAlways, PTL

(* What a build that ends well reports as indexed is found by every later  *)
(* search, whatever other builds did or were killed in (build_index).      *)
THEOREM IndexedIsStoredHolds == Spec => []IndexedIsStored
<1>1. IInv => IndexedIsStored
  <2> SUFFICES ASSUME IInv, NEW p \in Proc, report[p] = "ok", NEW k \in indexed[p]
               PROVE  Committed.text[k] # Absent /\ Committed.vec[k] # Absent
    BY DEF IndexedIsStored
  <2>1. Paired(p) /\ Counted(p)
    BY DEF IInv
  <2> QED
    BY <2>1 DEF Paired, Counted, Stored
<1> QED
  BY <1>1, IAlways, PTL
=============================================================================
