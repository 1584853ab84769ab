--------------------------- MODULE ReadPathProofs ---------------------------
(***************************************************************************)
(* What a command reads, and what it decides from that.  The shared copies *)
(* are never stale, for any number of invocations and any number of writes *)
(* and restarts of Zotero, and LiveSnapshot implements LiveRead; of        *)
(* whatever Zotero and its database file hold, a reference names one       *)
(* object, whichever sources answer; and every decision keeps its promise, *)
(* for inputs of any size.                                                 *)
(*                                                                         *)
(* The argument for the copies.  A key that is read and then used names    *)
(* some moment in Zotero; the two halves of it may belong to two moments.  *)
(* What makes it safe is that every copy, finished or still incoming, that *)
(* carries the key of an invocation is at least as new as the invocation's *)
(* floor.  The argument for the targets is with Agreement; those for the   *)
(* other decisions rest on Listing, for what is sorted, and on Recursion   *)
(* and KeptAlong, for what is gone through.                                *)
(***************************************************************************)
EXTENDS LiveSnapshot, Decisions, FiniteSetTheorems, SequenceTheorems, TLAPS

\* Every complete copy: in the cache, or written and not yet renamed.
Copies ==
    cache \cup {[key |-> key[p], ver |-> copy[p]] :
                    p \in {q \in Proc : pc[q] = "copied"}}

\* Invocations that have read total_changes() and not yet the rest ...
HalfKey == {"key1", "key2"}
\* ... and those whose key is complete.
FullKey == {"reused", "vacuum", "copied", "list", "prune", "open", "held"}

\* No copy is ahead of Zotero, in its content or in its name.
Past ==
    \A c \in Copies :
        /\ c.ver <= db /\ c.key.conn <= conn
        /\ c.key.conn = conn =>
             c.key.commits <= commits /\ c.key.changes <= changes

\* A copy named by the key of this moment holds the library of this moment.
Current == \A c \in Copies : c.key = KeyNow => c.ver = db

\* No key read is ahead of Zotero; a request that copies is of this connection.
KeyPast(p) ==
    /\ pc[p] \in HalfKey => key[p].changes <= changes
    /\ pc[p] = "vacuum" =>
         /\ key[p].conn = conn
         /\ key[p].commits <= commits /\ key[p].changes <= changes

\* A copy the half-read key may still turn out to name is new enough.
HalfFresh(p) ==
    pc[p] \in HalfKey =>
        \A c \in Copies :
            (/\ c.key.conn = conn /\ c.key.commits = commits
             /\ c.key.changes = key[p].changes) => floor[p] <= c.ver

\* Every copy of an invocation's key is new enough for it.
Fresh(p) ==
    pc[p] \in FullKey => \A c \in Copies : c.key = key[p] => floor[p] <= c.ver

ReadFresh(p) == pc[p] = "held" => seen[p] \in floor[p]..db

ProcInv(p) ==
    floor[p] <= db /\ KeyPast(p) /\ HalfFresh(p) /\ Fresh(p) /\ ReadFresh(p)

IInv == TypeOK /\ Past /\ Current /\ \A p \in Proc : ProcInv(p)

-----------------------------------------------------------------------------
(* Types.                                                                  *)

LEMMA KeyType ==
    ASSUME TypeOK, NEW p \in Proc
    PROVE  /\ NoKey \in Key
           /\ CurrentKey(p) \in Key
           /\ [key[p] EXCEPT !.changes = changes] \in Key
BY DEF TypeOK, Key, NoKey, CurrentKey

LEMMA TypeStep == TypeOK /\ [Next]_vars => TypeOK'
<1> SUFFICES ASSUME TypeOK, [Next]_vars PROVE TypeOK'
  OBVIOUS
<1> USE DEF TypeOK, PC, InZotero, InCli, zotero, local, Goto
<1>1. CASE Zotero
  <2>1. CASE WriteAutocommit \/ Begin \/ ChangeRow \/ Rollback
    BY <2>1 DEF WriteAutocommit, Begin, ChangeRow, Rollback
  <2>2. CASE Commit
    BY <2>2 DEF Commit
  <2>3. CASE Restart
    BY <2>3 DEF Restart
  <2> QED
    BY <1>1, <2>1, <2>2, <2>3 DEF Zotero
<1>2. ASSUME NEW p \in Proc, Ask(p) PROVE TypeOK'
  BY <1>2 DEF Ask
<1>3. ASSUME NEW p \in Proc, Template(p) PROVE TypeOK'
  <2>1. CASE ReadChanges(p)
    <3>1. key' = [key EXCEPT ![p] = [key[p] EXCEPT !.changes = changes]]
      BY <2>1 DEF ReadChanges
    <3>2. key' \in [Proc -> Key]
      BY <3>1, KeyType
    <3> QED
      BY <2>1, <3>2 DEF ReadChanges
  <2>2. CASE OfferedKeyIsCurrent(p) \/ NoOfferedKeyIsCurrent(p)
    <3>1. key' = [key EXCEPT ![p] = CurrentKey(p)] \/ key' = [key EXCEPT ![p] = NoKey]
      BY <2>2 DEF OfferedKeyIsCurrent, NoOfferedKeyIsCurrent
    <3>2. key' \in [Proc -> Key]
      BY <3>1, KeyType
    <3> QED
      BY <2>2, <3>2 DEF OfferedKeyIsCurrent, NoOfferedKeyIsCurrent
  <2>3. CASE AwaitTransaction(p) \/ ReadKeyForCopy(p)
    BY <2>3, KeyType DEF AwaitTransaction, ReadKeyForCopy
  <2>4. CASE Vacuum(p) \/ VacuumRetried(p)
    <3>1. key' \in [Proc -> Key]
      BY <2>4, KeyType DEF Vacuum, VacuumRetried
    <3> QED
      BY <2>4, <3>1 DEF Vacuum, VacuumRetried
  <2>5. CASE VacuumGivesUp(p)
    BY <2>5, KeyType DEF VacuumGivesUp, Refuse
  <2> QED
    BY <1>3, <2>1, <2>2, <2>3, <2>4, <2>5 DEF Template
<1>4. ASSUME NEW p \in Proc, RequestFails(p) PROVE TypeOK'
  BY <1>4, KeyType DEF RequestFails, Refuse
<1>5. ASSUME NEW p \in Proc, Cli(p) PROVE TypeOK'
  <2>1. CASE Request(p)
    BY <2>1 DEF Request, CachedKeys, Snapshot
  <2>2. CASE AcceptReused(p) \/ ReusedVanished(p)
    BY <2>2 DEF AcceptReused, ReusedVanished
  <2>3. CASE AcceptCopy(p)
    BY <2>3 DEF AcceptCopy, Snapshot
  <2>4. CASE ListForPrune(p)
    <3>1. CachedKeys \ {key[p]} \in SUBSET Key
      BY DEF CachedKeys, Snapshot
    <3> QED
      BY <2>4, <3>1 DEF ListForPrune
  <2>5. CASE PruneOne(p) \/ PruneDone(p)
    BY <2>5 DEF PruneOne, PruneDone
  <2>6. CASE Open(p)
    <3>1. seen' \in [Proc -> Nat]
      BY <2>6 DEF Open, Snapshot
    <3> QED
      BY <2>6, <3>1 DEF Open
  <2>7. CASE OpenFails(p)
    BY <2>7, KeyType DEF OpenFails, Refuse
  <2> QED
    BY <1>5, <2>1, <2>2, <2>3, <2>4, <2>5, <2>6, <2>7 DEF Cli
<1>6. ASSUME NEW p \in Proc, Exit(p) PROVE TypeOK'
  BY <1>6, KeyType DEF Exit
<1>7. CASE UNCHANGED vars
  BY <1>7 DEF vars
<1> QED
  BY <1>1, <1>2, <1>3, <1>4, <1>5, <1>6, <1>7 DEF Next

LEMMA TypeInit == Init => TypeOK
BY DEF Init, TypeOK, PC, Key, Snapshot, NoKey

\* Type correctness: every counter stays a number, every cached file a
\* complete copy under a well-formed key, every process in a known place.
THEOREM TypeCorrect == Spec => []TypeOK
BY TypeInit, TypeStep, PTL DEF Spec

-----------------------------------------------------------------------------
(* The inductive invariant.                                                *)

\* A step of one invocation leaves the others where they are.
Others(p) ==
    \A q \in Proc \ {p} :
        /\ pc'[q] = pc[q] /\ floor'[q] = floor[q] /\ key'[q] = key[q]
        /\ copy'[q] = copy[q] /\ seen'[q] = seen[q]

LEMMA CopiesShrink ==
    ASSUME TypeOK, NEW p \in Proc, Others(p), cache' \subseteq cache,
           pc'[p] # "copied"
    PROVE  Copies' \subseteq Copies
BY DEF Copies, Others

\* What is left to show of a step that makes no new copy.
LEMMA Frame ==
    ASSUME IInv, TypeOK', NEW p \in Proc, Others(p), UNCHANGED zotero,
           Copies' \subseteq Copies, ProcInv(p)'
    PROVE  IInv'
<1>1. Past' /\ Current'
  BY DEF IInv, Past, Current, KeyNow, zotero
<1>2. ASSUME NEW q \in Proc PROVE ProcInv(q)'
  <2>1. CASE q = p
    BY <2>1
  <2>2. CASE q # p
    BY <2>2 DEF IInv, ProcInv, KeyPast, HalfFresh, Fresh, ReadFresh, zotero, Others
  <2> QED
    BY <2>1, <2>2
<1> QED
  BY <1>1, <1>2 DEF IInv

LEMMA CopyTypes == ASSUME TypeOK PROVE Copies \subseteq Snapshot
BY DEF TypeOK, Copies, Snapshot

\* Zotero's writes: no copy has a name a write leads to, so no name that
\* was safe to use before it becomes unsafe.
LEMMA ZoteroStep ==
    ASSUME IInv, TypeOK', Zotero
    PROVE  IInv'
<1>1. UNCHANGED <<cache, key, copy, floor, seen>>
  BY DEF Zotero, WriteAutocommit, Begin, ChangeRow, Commit, Rollback, Restart, local
<1>2. Copies' \subseteq Copies
  BY <1>1 DEF IInv, TypeOK, InZotero, Copies, Zotero, WriteAutocommit, Begin,
              ChangeRow, Commit, Rollback, Restart, local
<1>3. /\ db <= db' /\ conn <= conn'
      /\ conn' = conn => commits <= commits' /\ changes <= changes'
      /\ conn' = conn /\ commits' = commits /\ changes' = changes => db' = db
  BY DEF IInv, TypeOK, Zotero, WriteAutocommit, Begin, ChangeRow, Commit,
         Rollback, Restart
<1>4. \A p \in Proc :
        \/ pc'[p] = pc[p] /\ (pc[p] \in InZotero => conn' = conn)
        \/ pc'[p] = "refused"
  BY DEF IInv, TypeOK, Zotero, WriteAutocommit, Begin, ChangeRow, Commit,
         Rollback, Restart
<1>5. Past'
  BY <1>2, <1>3, CopyTypes DEF IInv, Past, TypeOK, Snapshot, Key
<1>6. Current'
  <2> SUFFICES ASSUME NEW c \in Copies', c.key = KeyNow' PROVE c.ver = db'
    BY DEF Current
  <2>1. c.key.conn = conn' /\ c.key.commits = commits' /\ c.key.changes = changes'
    BY DEF KeyNow
  <2>2. conn' = conn /\ commits' = commits /\ changes' = changes
    BY <1>2, <1>3, <2>1, CopyTypes DEF IInv, Past, TypeOK, Snapshot, Key
  <2> QED
    BY <1>2, <1>3, <2>1, <2>2 DEF IInv, Current, KeyNow
<1>7. ASSUME NEW p \in Proc PROVE ProcInv(p)'
  <2>1. floor'[p] <= db'
    BY <1>1, <1>3 DEF IInv, ProcInv, TypeOK
  <2>2. KeyPast(p)'
    BY <1>1, <1>3, <1>4 DEF IInv, ProcInv, KeyPast, TypeOK, HalfKey, InZotero, Key
  <2>3. HalfFresh(p)'
    <3> SUFFICES ASSUME pc'[p] \in HalfKey, NEW c \in Copies',
                        c.key.conn = conn', c.key.commits = commits',
                        c.key.changes = key'[p].changes
                 PROVE  floor'[p] <= c.ver
      BY DEF HalfFresh
    <3>1. conn' = conn /\ pc[p] \in HalfKey
      BY <1>4 DEF HalfKey, InZotero
    <3>2. commits' = commits
      BY <1>2, <1>3, <3>1, CopyTypes DEF IInv, Past, TypeOK, Snapshot, Key
    <3> QED
      BY <1>1, <1>2, <3>1, <3>2 DEF IInv, ProcInv, HalfFresh
  <2>4. Fresh(p)'
    BY <1>1, <1>2, <1>4 DEF IInv, ProcInv, Fresh, FullKey
  <2>5. ReadFresh(p)'
    BY <1>1, <1>3, <1>4 DEF IInv, ProcInv, ReadFresh, TypeOK
  <2> QED
    BY <2>1, <2>2, <2>3, <2>4, <2>5 DEF ProcInv
<1> QED
  BY <1>5, <1>6, <1>7 DEF IInv

\* The template: reading the two halves of a key, and the copy.
LEMMA TemplateStep ==
    ASSUME IInv, TypeOK', NEW p \in Proc, Template(p)
    PROVE  IInv'
<1> USE DEF Goto
<1>0. Others(p) /\ UNCHANGED <<zotero, cache>> /\ floor'[p] = floor[p]
  BY DEF IInv, TypeOK, Others, Template, ReadChanges, OfferedKeyIsCurrent,
         NoOfferedKeyIsCurrent, AwaitTransaction, ReadKeyForCopy, Vacuum,
         VacuumRetried, VacuumGivesUp, Refuse, local
<1>1. CASE ReadChanges(p)
  <2>1. pc'[p] \in HalfKey /\ key'[p].changes = changes
    BY <1>1 DEF ReadChanges, IInv, TypeOK, HalfKey, Key
  <2>2. Copies' \subseteq Copies
    BY <1>0, <2>1, CopiesShrink DEF IInv, HalfKey
  <2>3. KeyPast(p)'
    BY <1>0, <2>1 DEF KeyPast, HalfKey, zotero, IInv, TypeOK
  <2>4. HalfFresh(p)'
    <3> SUFFICES ASSUME NEW c \in Copies', c.key.conn = conn, c.key.commits = commits,
                        c.key.changes = changes
                 PROVE  floor[p] <= c.ver
      BY <1>0, <2>1 DEF HalfFresh, zotero
    <3>1. c.key = KeyNow
      BY <2>2, CopyTypes DEF IInv, Snapshot, Key, KeyNow
    <3> QED
      BY <2>2, <3>1 DEF IInv, Current, ProcInv
  <2> QED
    BY <1>0, <2>1, <2>2, <2>3, <2>4, Frame
       DEF IInv, ProcInv, Fresh, ReadFresh, HalfKey, FullKey, zotero
<1>2. CASE OfferedKeyIsCurrent(p) \/ ReadKeyForCopy(p)
  <2>1. /\ pc[p] \in HalfKey /\ pc'[p] \in {"reused", "vacuum"}
        /\ key'[p] = CurrentKey(p)
    BY <1>2 DEF OfferedKeyIsCurrent, ReadKeyForCopy, IInv, TypeOK, HalfKey
  <2>2. Copies' \subseteq Copies
    BY <1>0, <2>1, CopiesShrink DEF IInv
  <2>3. KeyPast(p)'
    BY <1>0, <2>1 DEF KeyPast, HalfKey, zotero, IInv, ProcInv, TypeOK, CurrentKey
  <2>4. Fresh(p)'
    BY <1>0, <2>1, <2>2 DEF Fresh, IInv, ProcInv, HalfFresh, CurrentKey
  <2> QED
    BY <1>0, <2>1, <2>2, <2>3, <2>4, Frame
       DEF IInv, ProcInv, HalfFresh, ReadFresh, HalfKey, zotero
<1>3. CASE \/ NoOfferedKeyIsCurrent(p) \/ AwaitTransaction(p)
           \/ VacuumRetried(p) \/ VacuumGivesUp(p)
  <2>1. pc'[p] \in {"loop", "count2", "refused"}
    BY <1>3 DEF NoOfferedKeyIsCurrent, AwaitTransaction, VacuumRetried,
                VacuumGivesUp, Refuse, IInv, TypeOK
  <2>2. Copies' \subseteq Copies
    BY <1>0, <2>1, CopiesShrink DEF IInv
  <2> QED
    BY <1>0, <2>1, <2>2, Frame DEF IInv, ProcInv, KeyPast, HalfFresh, Fresh,
       ReadFresh, HalfKey, FullKey, zotero
<1>4. CASE Vacuum(p)
  <2>1. pc[p] = "vacuum" /\ pc'[p] = "copied" /\ key'[p] = key[p] /\ copy'[p] = db
    BY <1>4 DEF Vacuum, IInv, TypeOK
  <2>2. Copies' \subseteq Copies \cup {[key |-> key[p], ver |-> db]}
    BY <1>0, <2>1 DEF Copies, Others
  <2>3. ASSUME NEW c \in Copies', c \notin Copies
        PROVE  c.ver = db /\ c.key = key[p]
    BY <2>2, <2>3
  <2>4. Past'
    BY <1>0, <2>1, <2>3 DEF IInv, Past, ProcInv, KeyPast, zotero, TypeOK
  <2>5. Current'
    BY <1>0, <2>3 DEF IInv, Current, KeyNow, zotero
  <2>6. ASSUME NEW q \in Proc PROVE ProcInv(q)'
    <3>1. /\ floor'[q] = floor[q] /\ key'[q] = key[q] /\ seen'[q] = seen[q]
          /\ pc'[q] = pc[q] \/ (q = p /\ pc[q] \in FullKey /\ pc'[q] = "copied")
      BY <1>4, <2>1 DEF Vacuum, FullKey, IInv, TypeOK
    <3>2. KeyPast(q)' /\ ReadFresh(q)'
      BY <1>0, <3>1 DEF IInv, ProcInv, KeyPast, ReadFresh, HalfKey, zotero
    <3>3. HalfFresh(q)'
      BY <1>0, <2>3, <3>1 DEF IInv, ProcInv, HalfFresh, HalfKey, zotero
    <3>4. Fresh(q)'
      BY <1>0, <2>3, <3>1 DEF IInv, ProcInv, Fresh, FullKey, zotero
    <3> QED
      BY <1>0, <3>1, <3>2, <3>3, <3>4 DEF IInv, ProcInv, zotero
  <2> QED
    BY <2>4, <2>5, <2>6 DEF IInv
<1> QED
  BY <1>1, <1>2, <1>3, <1>4 DEF Template

\* The CLI's side: renames and prunes never bring a new copy.
LEMMA CliStep ==
    ASSUME IInv, TypeOK', NEW p \in Proc,
           Ask(p) \/ RequestFails(p) \/ Cli(p) \/ Exit(p)
    PROVE  IInv'
<1> USE DEF Goto
<1>1. CASE Ask(p) \/ Request(p) \/ ReusedVanished(p)
  <2>1. /\ Others(p) /\ UNCHANGED <<zotero, cache>>
        /\ pc'[p] \in {"scan", "count1"} /\ floor'[p] \in {floor[p], db}
    BY <1>1 DEF Ask, Request, ReusedVanished, Others, IInv, TypeOK
  <2>2. Copies' \subseteq Copies
    BY <2>1, CopiesShrink DEF IInv
  <2>3. floor'[p] <= db'
    BY <2>1 DEF IInv, ProcInv, zotero, TypeOK
  <2>4. ProcInv(p)'
    BY <2>1, <2>3 DEF ProcInv, KeyPast, HalfFresh, Fresh, ReadFresh, HalfKey, FullKey
  <2> QED
    BY <2>1, <2>2, <2>4, Frame
<1>2. CASE RequestFails(p) \/ OpenFails(p) \/ Exit(p)
  <2>1. /\ Others(p) /\ UNCHANGED <<zotero, cache>>
        /\ pc'[p] \in {"refused", "gone"} /\ floor'[p] \in {floor[p], 0}
    BY <1>2 DEF RequestFails, OpenFails, Exit, Refuse, Others, IInv, TypeOK
  <2>2. Copies' \subseteq Copies
    BY <2>1, CopiesShrink DEF IInv
  <2>3. floor'[p] <= db'
    BY <2>1 DEF IInv, ProcInv, zotero, TypeOK
  <2>4. ProcInv(p)'
    BY <2>1, <2>3 DEF ProcInv, KeyPast, HalfFresh, Fresh, ReadFresh, HalfKey, FullKey
  <2> QED
    BY <2>1, <2>2, <2>4, Frame
<1>3. CASE AcceptReused(p) \/ ListForPrune(p) \/ PruneOne(p) \/ PruneDone(p)
  <2>1. /\ Others(p) /\ UNCHANGED zotero /\ cache' \subseteq cache
        /\ pc[p] \in FullKey \ {"held"} /\ pc'[p] \in {"prune", "open"}
        /\ floor'[p] = floor[p] /\ key'[p] = key[p]
    BY <1>3 DEF AcceptReused, ListForPrune, PruneOne, PruneDone, Others, FullKey,
                local, IInv, TypeOK
  <2>2. Copies' \subseteq Copies
    BY <2>1, CopiesShrink DEF IInv
  <2> QED
    BY <2>1, <2>2, Frame DEF IInv, ProcInv, KeyPast, HalfFresh, Fresh,
       ReadFresh, HalfKey, FullKey, zotero
<1>4. CASE AcceptCopy(p)
  <2>1. /\ Others(p) /\ UNCHANGED zotero
        /\ pc[p] = "copied" /\ pc'[p] = "list"
        /\ floor'[p] = floor[p] /\ key'[p] = key[p]
    BY <1>4 DEF AcceptCopy, Others, IInv, TypeOK
  <2>2. Copies' \subseteq Copies
    <3>1. cache' \subseteq Copies
      BY <1>4, <2>1 DEF AcceptCopy, Copies
    <3> QED
      BY <2>1, <3>1 DEF Copies, Others
  <2> QED
    BY <2>1, <2>2, Frame DEF IInv, ProcInv, KeyPast, HalfFresh, Fresh,
       ReadFresh, HalfKey, FullKey, zotero
<1>5. CASE Open(p)
  <2>1. /\ Others(p) /\ UNCHANGED <<zotero, cache>>
        /\ pc[p] \in FullKey /\ pc'[p] = "held"
        /\ floor'[p] = floor[p] /\ key'[p] = key[p]
        /\ \E s \in cache : s.key = key[p] /\ seen'[p] = s.ver
    BY <1>5 DEF Open, Others, FullKey, IInv, TypeOK
  <2>2. Copies' \subseteq Copies
    BY <2>1, CopiesShrink DEF IInv
  <2>3. seen'[p] \in floor[p]..db
    BY <2>1, CopyTypes DEF Copies, IInv, ProcInv, Fresh, Past, TypeOK, Snapshot
  <2> QED
    BY <2>1, <2>2, <2>3, Frame DEF IInv, ProcInv, KeyPast, HalfFresh, Fresh,
       ReadFresh, HalfKey, FullKey, zotero
<1> QED
  BY <1>1, <1>2, <1>3, <1>4, <1>5 DEF Cli

LEMMA Invariance == Spec => []IInv
<1>1. Init => IInv
  <2> SUFFICES ASSUME Init PROVE IInv
    OBVIOUS
  <2>1. Copies \subseteq {[key |-> NoKey, ver |-> 0]}
    BY DEF Init, Copies
  <2> QED
    BY <2>1, TypeInit DEF NoKey, KeyNow, Init, IInv, Past, Current, ProcInv, KeyPast, HalfFresh,
       Fresh, ReadFresh, HalfKey, FullKey
<1>2. IInv /\ [Next]_vars => IInv'
  <2> SUFFICES ASSUME IInv, [Next]_vars PROVE IInv'
    OBVIOUS
  <2>1. TypeOK'
    BY TypeStep DEF IInv
  <2>2. CASE UNCHANGED vars
    BY <2>1, <2>2 DEF vars, IInv, Past, Current, ProcInv, KeyPast, HalfFresh, Fresh,
       ReadFresh, Copies, KeyNow
  <2> QED
    BY <2>1, <2>2, ZoteroStep, TemplateStep, CliStep DEF Next
<1> QED
  BY <1>1, <1>2, PTL DEF Spec

\* A read returns a library at least as new as when its invocation asked,
\* and never one that was not committed.
THEOREM NeverStaleHolds == Spec => []NeverStale
<1>1. IInv => NeverStale
  BY DEF IInv, ProcInv, ReadFresh, NeverStale
<1> QED
  BY <1>1, Invariance, PTL

\* The name of a cached copy says what is in it: under the key of this
\* moment lies the library of this moment.
THEOREM KeyNamesContentHolds == Spec => []KeyNamesContent
<1>1. IInv => KeyNamesContent
  BY DEF IInv, Current, Copies, KeyNamesContent
<1> QED
  BY <1>1, Invariance, PTL

-----------------------------------------------------------------------------
(* The refinement.                                                         *)

LEMMA AbstractStep ==
    ASSUME IInv, IInv', [Next]_vars
    PROVE  [Abstract!Next]_(Abstract!vars)
<1> USE DEF Goto, Abstract!Next, Abstract!vars
<1>0. TypeOK
  BY DEF IInv
<1>1. CASE Zotero
  <2>1. CASE WriteAutocommit \/ Begin \/ ChangeRow \/ Commit \/ Rollback
    <3>1. UNCHANGED <<Phase, floor, seen>> /\ db' \in {db, db + 1}
      BY <2>1 DEF WriteAutocommit, Begin, ChangeRow, Commit, Rollback, Phase, local
    <3> QED
      BY <3>1 DEF Abstract!Commit
  <2>2. CASE Restart
    <3> DEFINE S == {p \in Proc : pc[p] \in InZotero}
    <3>1. \A p \in S : Phase[p] = "asking"
      BY DEF Phase, InZotero, InCli
    <3>2. Phase' = [p \in Proc |-> IF p \in S THEN "refused" ELSE Phase[p]]
      BY <1>0, <2>2 DEF Restart, Phase, InZotero, InCli, TypeOK, PC
    <3>3. Abstract!Refuse(S)
      BY <2>2, <3>1, <3>2 DEF Restart, local, Abstract!Refuse
    <3> QED
      BY <3>3
  <2> QED
    BY <1>1, <2>1, <2>2 DEF Zotero
<1>2. ASSUME NEW p \in Proc, Ask(p) PROVE Abstract!Ask(p)
  BY <1>0, <1>2 DEF Ask, Abstract!Ask, Phase, InZotero, InCli, TypeOK, zotero
<1>3. ASSUME NEW p \in Proc, Refuse(p), pc[p] \in {"held"} \cup InZotero \cup InCli
      PROVE  Abstract!Refuse({p})
  BY <1>0, <1>3 DEF Refuse, Abstract!Refuse, Phase, InZotero, InCli, TypeOK, zotero
<1>4. ASSUME NEW p \in Proc, pc[p] \in InZotero \cup InCli,
             pc' = [pc EXCEPT ![p] = pc'[p]], pc'[p] \in InZotero \cup InCli,
             UNCHANGED <<db, floor, seen>>
      PROVE  UNCHANGED Abstract!vars
  BY <1>0, <1>4 DEF Phase, InZotero, InCli, TypeOK
<1>5. ASSUME NEW p \in Proc, Template(p) PROVE [Abstract!Next]_(Abstract!vars)
  <2>1. CASE VacuumGivesUp(p)
    BY <1>3, <2>1 DEF VacuumGivesUp, InZotero
  <2>2. CASE ~VacuumGivesUp(p)
    <3>1. /\ pc[p] \in InZotero \cup InCli /\ pc' = [pc EXCEPT ![p] = pc'[p]]
          /\ pc'[p] \in InZotero \cup InCli /\ UNCHANGED <<db, floor, seen>>
      BY <1>0, <1>5, <2>2 DEF Template, ReadChanges, OfferedKeyIsCurrent,
         NoOfferedKeyIsCurrent, AwaitTransaction, ReadKeyForCopy, Vacuum,
         VacuumRetried, InZotero, InCli, zotero, local, TypeOK
    <3> QED
      BY <1>4, <3>1
  <2> QED
    BY <2>1, <2>2
<1>6. ASSUME NEW p \in Proc, RequestFails(p) PROVE [Abstract!Next]_(Abstract!vars)
  BY <1>3, <1>6 DEF RequestFails
<1>7. ASSUME NEW p \in Proc, Cli(p) PROVE [Abstract!Next]_(Abstract!vars)
  <2>1. CASE OpenFails(p)
    BY <1>3, <2>1 DEF OpenFails, InCli
  <2>2. CASE Open(p)
    <3>1. Phase[p] \in {"asking", "read"} /\ Phase' = [Phase EXCEPT ![p] = "read"]
      BY <1>0, <2>2 DEF Open, Phase, InZotero, InCli, TypeOK
    <3>2. seen'[p] \in floor[p]..db
      BY <1>0, <2>2 DEF Open, IInv, ProcInv, ReadFresh, TypeOK, zotero
    <3>3. seen' = [seen EXCEPT ![p] = seen'[p]] /\ UNCHANGED <<db, floor>>
      BY <1>0, <2>2 DEF Open, TypeOK, zotero
    <3>4. Abstract!Read(p)
      BY <3>1, <3>2, <3>3 DEF Abstract!Read
    <3> QED
      BY <3>4
  <2>3. CASE ~OpenFails(p) /\ ~Open(p)
    <3>1. /\ pc[p] \in InZotero \cup InCli /\ pc' = [pc EXCEPT ![p] = pc'[p]]
          /\ pc'[p] \in InZotero \cup InCli /\ UNCHANGED <<db, floor, seen>>
      BY <1>0, <1>7, <2>3 DEF Cli, Request, AcceptReused, ReusedVanished, AcceptCopy,
         ListForPrune, PruneOne, PruneDone, InZotero, InCli, zotero, local, TypeOK
    <3> QED
      BY <1>4, <3>1
  <2> QED
    BY <2>1, <2>2, <2>3
<1>8. ASSUME NEW p \in Proc, Exit(p) PROVE Abstract!Exit(p)
  BY <1>0, <1>8 DEF Exit, Abstract!Exit, Phase, InZotero, InCli, TypeOK, PC, zotero
<1>9. CASE UNCHANGED vars
  BY <1>9 DEF vars, Phase
<1> QED
  BY <1>1, <1>2, <1>5, <1>6, <1>7, <1>8, <1>9 DEF Next

\* The shared, keyed, pruned copies implement the plain promise of LiveRead:
\* a committed version no older than the asking, or a refusal.
THEOREM Refinement == Spec => ImplementsLiveRead
<1>1. Init => Abstract!Init
  BY DEF Init, Abstract!Init, Phase, InZotero, InCli
<1>2. IInv /\ IInv' /\ [Next]_vars => [Abstract!Next]_(Abstract!vars)
  BY AbstractStep
<1> QED
  BY <1>1, <1>2, Invariance, PTL DEF Spec, ImplementsLiveRead, Abstract!Spec

-----------------------------------------------------------------------------
(* Targets.                                                                *)

\* Among numbers there is a least one: the sets 0..m, ordered by inclusion,
\* have a minimal one.
LEMMA Least ==
    ASSUME NEW S, S \subseteq Nat, S # {}
    PROVE  \E m \in S : \A k \in S : m <= k
<1> DEFINE I == {0 .. m : m \in S}
           R == StrictSubsetOrdering(Nat)
<1>1. \A m \in S : IsFiniteSet(0 .. m) /\ 0 .. m \subseteq Nat
  BY FS_Interval
<1>2. I \subseteq FiniteSubsetsOf(Nat) /\ I # {}
  BY <1>1 DEF FiniteSubsetsOf
<1> HIDE DEF I, R
<1>3. PICK x \in I : \A y \in I : ~ (<<y, x>> \in R)
  BY <1>2, FS_StrictSubsetOrderingWellFounded, WFMin DEF R
<1>4. PICK m \in S : x = 0 .. m
  BY <1>3 DEF I
<1>5. ASSUME NEW k \in S, k < m PROVE FALSE
  <2>1. 0 .. k \in I /\ 0 .. k \subseteq x /\ 0 .. k # x
    BY <1>4, <1>5 DEF I
  <2>2. 0 .. k \in SUBSET Nat /\ x \in SUBSET Nat
    BY <1>4
  <2> QED
    BY <1>3, <2>1, <2>2 DEF R, StrictSubsetOrdering
<1> QED
  BY <1>5

\* Of several libraries with a hit Zotero's order names the first, which is
\* the personal one if that has a hit.
LEMMA FirstListedFacts ==
    ASSUME NEW hits, \A o \in hits : o.library \in Listed, hits # {}
    PROVE  /\ FirstListed(hits) \in hits
           /\ (\E o \in hits : o.library = Personal) => FirstListed(hits).library = Personal
<1> DEFINE Hit(i) == \E o \in hits : o.library = Libraries[i]
           First(i) == Hit(i) /\ \A j \in 1 .. i - 1 : \A o \in hits : o.library # Libraries[j]
           first == CHOOSE i \in DOMAIN Libraries : First(i)
<1>1. DOMAIN Libraries = 1 .. Len(Libraries) /\ Len(Libraries) \in Nat \ {0}
  BY LibrariesAssump
<1>2. \E i \in DOMAIN Libraries : First(i)
  <2> DEFINE S == {i \in DOMAIN Libraries : Hit(i)}
  <2>1. S \subseteq Nat
    BY <1>1
  <2>2. S # {}
    BY DEF Object, Listed
  <2> HIDE DEF S
  <2>3. PICK i \in S : \A k \in S : i <= k
    BY <2>1, <2>2, Least
  <2>4. \A j \in 1 .. i - 1 : j \notin S /\ j \in DOMAIN Libraries
    BY <1>1, <2>3 DEF S
  <2> QED
    BY <2>3, <2>4 DEF S
<1>3. first \in DOMAIN Libraries /\ First(first)
  BY <1>2
<1>4. FirstListed(hits) = CHOOSE o \in hits : o.library = Libraries[first]
  BY DEF FirstListed
<1> HIDE DEF first
<1>5. FirstListed(hits) \in hits /\ FirstListed(hits).library = Libraries[first]
  BY <1>3, <1>4
<1>6. ASSUME NEW o \in hits, o.library = Personal PROVE first = 1
  BY <1>1, <1>3, <1>6, LibrariesAssump
<1> QED
  BY <1>5, <1>6, LibrariesAssump

\* The first answer that is not silence, of two sources or of three the last
\* of which always answers.
LEMMA FirstOfTwo ==
    ASSUME NEW a, NEW c, c # Silent
    PROVE  FirstAnswer(<<a>> \o <<c>>) = IF a # Silent THEN a ELSE c
<1>1. <<a>> \o <<c>> = <<a, c>>
  <2> DEFINE S == {a, c}
             Alike(s, t) == Len(s) = Len(t) /\ \A i \in 1 .. Len(s) : s[i] = t[i]
  <2>1. <<a>> \in Seq(S) /\ <<c>> \in Seq(S) /\ <<a, c>> \in Seq(S)
    OBVIOUS
  <2>2. <<a>> \o <<c>> \in Seq(S) /\ Alike(<<a>> \o <<c>>, <<a, c>>)
    BY <2>1, ConcatProperties
  <2> HIDE DEF S
  <2> QED
    BY <2>1, <2>2, SeqEqual
<1>2. FirstAnswer(<<a, c>>) = IF a # Silent THEN a ELSE c
  <2> DEFINE s == <<a, c>>
             First(i) == s[i] # Silent /\ \A j \in 1 .. i - 1 : s[j] = Silent
             first == CHOOSE i \in DOMAIN s : First(i)
  <2>1. DOMAIN s = {1, 2} /\ s[1] = a /\ s[2] = c
    OBVIOUS
  <2> HIDE DEF s
  <2>2. \E i \in {1, 2} : First(i)
    BY <2>1
  <2>3. first \in {1, 2} /\ First(first)
    BY <2>1, <2>2
  <2>4. FirstAnswer(s) = s[first]
    BY DEF FirstAnswer
  <2> HIDE DEF first
  <2> QED
    BY <2>1, <2>3, <2>4 DEF s
<1> QED
  BY <1>1, <1>2

LEMMA FirstOfThree ==
    ASSUME NEW a, NEW b, NEW c, c # Silent
    PROVE  FirstAnswer(<<a, b>> \o <<c>>) =
               IF a # Silent THEN a ELSE IF b # Silent THEN b ELSE c
<1>1. <<a, b>> \o <<c>> = <<a, b, c>>
  <2> DEFINE S == {a, b, c}
             Alike(s, t) == Len(s) = Len(t) /\ \A i \in 1 .. Len(s) : s[i] = t[i]
  <2>1. <<a, b>> \in Seq(S) /\ <<c>> \in Seq(S) /\ <<a, b, c>> \in Seq(S)
    OBVIOUS
  <2>2. <<a, b>> \o <<c>> \in Seq(S) /\ Alike(<<a, b>> \o <<c>>, <<a, b, c>>)
    BY <2>1, ConcatProperties
  <2> HIDE DEF S
  <2> QED
    BY <2>1, <2>2, SeqEqual
<1>2. FirstAnswer(<<a, b, c>>) = IF a # Silent THEN a ELSE IF b # Silent THEN b ELSE c
  <2> DEFINE s == <<a, b, c>>
             First(i) == s[i] # Silent /\ \A j \in 1 .. i - 1 : s[j] = Silent
             first == CHOOSE i \in DOMAIN s : First(i)
  <2>1. DOMAIN s = {1, 2, 3} /\ s[1] = a /\ s[2] = b /\ s[3] = c
    OBVIOUS
  <2> HIDE DEF s
  <2>2. \E i \in {1, 2, 3} : First(i)
    <3>1. CASE a # Silent
      BY <2>1, <3>1
    <3>2. CASE a = Silent /\ b # Silent
      BY <2>1, <3>2
    <3>3. CASE a = Silent /\ b = Silent
      BY <2>1, <3>3
    <3> QED
      BY <3>1, <3>2, <3>3
  <2>3. first \in {1, 2, 3} /\ First(first)
    BY <2>1, <2>2
  <2>4. FirstAnswer(s) = s[first]
    BY DEF FirstAnswer
  <2> HIDE DEF first
  <2> QED
    BY <2>1, <2>3, <2>4 DEF s
<1> QED
  BY <1>1, <1>2

LEMMA AnswerKinds ==
    /\ Silent.kind = "silent" /\ Missing.kind = "missing" /\ Silent # Missing
    /\ \A why : Refused(why).kind = "error" /\ Refused(why) # Silent /\ Refused(why) # Missing
    /\ \A o, n, by : LET a == Found(o, n, by)
                     IN  a.kind = "object" /\ a # Silent /\ a # Missing
  BY DEF Silent, Missing, Refused, Found

\* Objects of one holding that share an id, or a key and a library, are one.
LEMMA Unique ==
    ASSUME NEW H \in Holdings, NEW o \in H, NEW u \in H,
           o.id = u.id \/ (o.key = u.key /\ o.library = u.library)
    PROVE  o = u
  BY HoldingsAssump

\* What the database has of a reference: of a numeric id, in any library.
Matching(world, ref, selected) ==
    {o \in world.copy : Names(ref, o) /\ (ref.kind = "id" \/ InSelected(o, selected))}

LEMMA DatabaseAnswers ==
    ASSUME NEW world \in World, NEW ref \in Ref, NEW selected
    PROVE  /\ DatabaseAnswer(world, ref, selected) # Silent
           /\ DatabaseAnswer(world, ref, selected) # Missing
           /\ DatabaseAnswer(world, ref, selected).kind # "error" =>
                \E o \in world.copy :
                   /\ Matching(world, ref, selected) = {o}
                   /\ DatabaseAnswer(world, ref, selected) = Found(o, o.library, "database")
<1> DEFINE a == DatabaseAnswer(world, ref, selected)
           hits == Matching(world, ref, selected)
           it == CHOOSE o \in hits : TRUE
<1>1. \/ a \in {Refused("database is locked"), Refused("library not found"),
                Refused("not found"), Refused("ambiguous reference")}
      \/ /\ hits # {} /\ ~(Cardinality(hits) > 1)
         /\ a = Found(it, it.library, "database")
  <2>1. a = IF world.locked THEN Refused("database is locked")
            ELSE IF ~(selected \subseteq Listed) THEN Refused("library not found")
            ELSE IF hits = {} THEN Refused("not found")
            ELSE IF Cardinality(hits) > 1 THEN Refused("ambiguous reference")
            ELSE Found(it, it.library, "database")
    BY Zenon DEF DatabaseAnswer, Matching
  <2> HIDE DEF a, hits, it
  <2> QED
    BY <2>1
<1>2. ASSUME hits # {}, ~(Cardinality(hits) > 1) PROVE hits = {it} /\ it \in world.copy
  <2>1. IsFiniteSet(hits) /\ it \in hits /\ hits \subseteq world.copy
    <3>1. IsFiniteSet(world.copy) /\ hits \subseteq world.copy
      BY HoldingsAssump DEF World, Matching
    <3> QED
      BY <1>2, <3>1, FS_Subset
  <2>2. Cardinality(hits) = 1
    BY <1>2, <2>1, FS_CardinalityType, FS_EmptySet
  <2> HIDE DEF hits, it
  <2>3. PICK o : hits = {o}
    BY <2>1, <2>2, FS_Singleton
  <2> QED
    BY <2>1, <2>3
<1> HIDE DEF a, hits, it
<1>3. /\ a # Silent /\ a # Missing
      /\ a.kind # "error" => /\ hits # {} /\ ~(Cardinality(hits) > 1)
                             /\ a = Found(it, it.library, "database")
  BY <1>1, AnswerKinds
<1> QED
  BY <1>2, <1>3 DEF a, hits

\* Where an object comes from.
ViaBridge(world, ref, session, a) ==
    LET hits == {o \in world.live : Names(ref, o) /\ InSelected(o, session.library)}
        o == FirstListed(hits)
    IN  world.bridge /\ hits # {} /\ a = Found(o, o.library, "bridge")

ViaApi(world, ref, session, a) ==
    /\ session.library = {} /\ ref.kind = "key"
    /\ \E o \in world.live :
          o.key = ref.key /\ o.library = Personal /\ a = Found(o, 0, "api")

ViaDatabase(world, ref, session, a) ==
    /\ ~world.bridge
    /\ \E o \in world.copy :
          /\ a = Found(o, o.library, "database")
          /\ Matching(world, ref, session.library) = {o}

LEMMA Resolution ==
    ASSUME NEW world \in World, NEW ref \in Ref, NEW session \in Session,
           NEW a, a = Resolve(world, ref, session), a.kind # "error"
    PROVE  \/ ViaBridge(world, ref, session, a)
           \/ ViaApi(world, ref, session, a)
           \/ ViaDatabase(world, ref, session, a)
<1> DEFINE bridge == BridgeAnswer(world, ref, session.library)
           api == ApiAnswer(world, ref)
           database == DatabaseAnswer(world, ref, session.library)
           live == IF session.library # {} THEN <<bridge>>
                   ELSE IF world.writes THEN <<api, bridge>> ELSE <<bridge, api>>
           answer == FirstAnswer(live \o <<database>>)
<1>1. a = IF session.corrupt THEN Refused("invalid library")
          ELSE IF answer = Missing THEN Refused("not found") ELSE answer
  BY DEF Resolve
<1>2. /\ database # Silent
      /\ database.kind # "error" /\ ~world.bridge => ViaDatabase(world, ref, session, database)
  BY DatabaseAnswers DEF ViaDatabase
<1>3. /\ bridge = Silent => ~world.bridge
      /\ bridge # Silent /\ bridge # Missing => ViaBridge(world, ref, session, bridge)
  <2> DEFINE hits == {o \in world.live : Names(ref, o) /\ InSelected(o, session.library)}
             it == FirstListed(hits)
  <2>1. bridge = IF ~world.bridge THEN Silent
                 ELSE IF hits = {} THEN Missing
                 ELSE Found(it, it.library, "bridge")
    BY Zenon DEF BridgeAnswer
  <2>2. world.bridge /\ hits # {} /\ bridge = Found(it, it.library, "bridge")
          => ViaBridge(world, ref, session, bridge)
    BY Zenon DEF ViaBridge
  <2> HIDE DEF bridge, hits, it
  <2> QED
    BY <2>1, <2>2, AnswerKinds
<1>4. \/ api = Silent \/ api.kind = "error"
      \/ session.library = {} => ViaApi(world, ref, session, api)
  <2> DEFINE hits == {o \in world.live : Names(ref, o) /\ o.library = Personal}
             it == CHOOSE o \in hits : TRUE
  <2>1. api = IF world.api = "down" \/ ref.kind = "id" THEN Silent
              ELSE IF hits = {} THEN Silent
              ELSE IF world.api = "garbled" THEN Refused("malformed response")
              ELSE Found(it, 0, "api")
    BY Zenon DEF ApiAnswer
  <2>2. ASSUME hits # {}, ref.kind # "id"
        PROVE  ref.kind = "key" /\ it \in world.live /\ it.key = ref.key /\ it.library = Personal
    BY <2>2 DEF Names, Ref
  <2> HIDE DEF api, hits, it
  <2> SUFFICES ASSUME api # Silent, api.kind # "error", session.library = {}
               PROVE  ViaApi(world, ref, session, api)
    OBVIOUS
  <2>3. hits # {} /\ ref.kind # "id" /\ api = Found(it, 0, "api")
    BY <2>1, AnswerKinds
  <2> QED
    BY <2>2, <2>3 DEF ViaApi
<1> HIDE DEF bridge, api, database
<1>5. /\ session.library # {} => answer = IF bridge # Silent THEN bridge ELSE database
      /\ session.library = {} /\ world.writes =>
           answer = IF api # Silent THEN api ELSE IF bridge # Silent THEN bridge ELSE database
      /\ session.library = {} /\ ~world.writes =>
           answer = IF bridge # Silent THEN bridge ELSE IF api # Silent THEN api ELSE database
  <2>1. CASE session.library # {}
    <3>1. live = <<bridge>>
      BY <2>1
    <3> HIDE DEF live
    <3> QED
      BY <1>2, <2>1, <3>1, FirstOfTwo
  <2>2. CASE session.library = {} /\ world.writes
    <3>1. live = <<api, bridge>>
      BY <2>2
    <3>2. FirstAnswer(<<api, bridge>> \o <<database>>)
            = IF api # Silent THEN api ELSE IF bridge # Silent THEN bridge ELSE database
      BY <1>2, FirstOfThree
    <3> HIDE DEF live
    <3>3. answer
            = IF api # Silent THEN api ELSE IF bridge # Silent THEN bridge ELSE database
      BY <3>1, <3>2
    <3> HIDE DEF answer
    <3> QED
      BY <2>2, <3>3
  <2>3. CASE session.library = {} /\ ~world.writes
    <3>1. live = <<bridge, api>>
      BY <2>3
    <3>2. FirstAnswer(<<bridge, api>> \o <<database>>)
            = IF bridge # Silent THEN bridge ELSE IF api # Silent THEN api ELSE database
      BY <1>2, FirstOfThree
    <3> HIDE DEF live
    <3>3. answer
            = IF bridge # Silent THEN bridge ELSE IF api # Silent THEN api ELSE database
      BY <3>1, <3>2
    <3> HIDE DEF answer
    <3> QED
      BY <2>3, <3>3
  <2> HIDE DEF answer
  <2> QED
    BY <2>1, <2>2, <2>3
<1> HIDE DEF answer
<1>6. a = answer /\ answer # Missing
  BY <1>1, AnswerKinds
<1>7. \/ answer = bridge /\ bridge # Silent
      \/ answer = api /\ api # Silent /\ session.library = {}
      \/ answer = database /\ bridge = Silent
  BY <1>5
<1> QED
  BY <1>2, <1>3, <1>4, <1>6, <1>7

\* What a resolution finds is named, lies in a listed library, and is in the
\* session's unless the database answered a numeric id; over a Bridge that
\* answers it is there now.
LEMMA FoundFacts ==
    ASSUME NEW world \in World, NEW ref \in Ref, NEW session \in Session,
           NEW a, a = Resolve(world, ref, session), a.kind # "error"
    PROVE  /\ a.kind = "object" /\ a.object \in Object /\ Names(ref, a.object)
           /\ InSelected(a.object, session.library) \/ (a.by = "database" /\ ref.kind = "id")
           /\ a.by = "database" => ~world.bridge /\ a.object \in world.copy
           /\ a.by # "database" => a.object \in world.live
           /\ a.library = 0 => a.object.library = Personal
           /\ a.library # 0 => a.object.library = a.library
<1>1. world.live \subseteq Object /\ world.copy \subseteq Object
  BY HoldingsAssump DEF World
<1>2. \A o \in Object : o.library # 0
  BY LibrariesAssump DEF Object, Listed
<1>3. CASE ViaBridge(world, ref, session, a)
  <2> DEFINE hits == {o \in world.live : Names(ref, o) /\ InSelected(o, session.library)}
             it == FirstListed(hits)
  <2>1. it \in hits
    BY <1>1, <1>3, FirstListedFacts DEF ViaBridge, Object
  <2>2. a = Found(it, it.library, "bridge")
    BY <1>3 DEF ViaBridge
  <2> HIDE DEF it
  <2> QED
    BY <1>1, <1>2, <2>1, <2>2 DEF Found
<1>4. CASE ViaApi(world, ref, session, a)
  BY <1>1, <1>2, <1>4 DEF ViaApi, Found, Names, InSelected, Ref
<1>5. CASE ViaDatabase(world, ref, session, a)
  <2>1. PICK o \in world.copy : /\ a = Found(o, o.library, "database")
                               /\ o \in Matching(world, ref, session.library)
    BY <1>5 DEF ViaDatabase
  <2> QED
    BY <1>1, <1>2, <1>5, <2>1 DEF ViaDatabase, Found, Matching
<1> QED
  BY <1>3, <1>4, <1>5, Resolution

LEMMA IsMeant ==
    ASSUME NEW world \in World, NEW ref \in Ref, NEW session \in Session
    PROVE  TargetIsMeant(world, ref, session)
<1> DEFINE a == Resolve(world, ref, session)
<1>1. ASSUME a.kind = "object"
      PROVE  /\ Names(ref, a.object)
             /\ InSelected(a.object, session.library) \/ (a.by = "database" /\ ref.kind = "id")
             /\ a.by # "database" => a.object \in world.live
             /\ world.bridge => a.object \in world.live
  BY <1>1, FoundFacts
<1> HIDE DEF a
<1> QED
  BY <1>1, Zenon DEF TargetIsMeant, a

LEMMA BesideItsParent ==
    ASSUME NEW world \in World, NEW ref \in Ref, NEW session \in Session
    PROVE  CreatedBesideItsParent(world, ref, session)
<1> DEFINE library == DefaultLibrary(world, session)
           under == Resolve(world, ref, session)
           c == CreateTarget(world, ref, session)
<1>1. c = IF library.kind = "error" THEN library
          ELSE IF under.kind = "error" THEN under
          ELSE IF under.library # library.library THEN Refused("another library")
          ELSE [kind |-> "create", library |-> library.library, under |-> under.object]
  BY DEF CreateTarget
<1> HIDE DEF library, under, c
<1> SUFFICES ASSUME c.kind = "create"
             PROVE  c.under.library = IF c.library = 0 THEN Personal ELSE c.library
  BY DEF CreatedBesideItsParent, c
<1>2. /\ library.kind # "error" /\ under.kind # "error" /\ under.library = library.library
      /\ c.library = library.library /\ c.under = under.object
  BY <1>1, AnswerKinds
<1>3. /\ under.library = 0 => under.object.library = Personal
      /\ under.library # 0 => under.object.library = under.library
  BY <1>2, FoundFacts DEF under
<1> QED
  BY <1>2, <1>3

\* Two sources name one object: an id is of one object; in one library, so
\* is a key; and without a selected library the Local API knows the personal
\* one only, which Zotero lists first, and the database refuses a key of two.
LEMMA Agreement ==
    ASSUME NEW world \in World, NEW other \in World, NEW ref \in Ref, NEW session \in Session,
           world.live = world.copy, other.live = world.live, other.copy = world.live
    PROVE  SourcesAgree(world, other, ref, session)
<1> DEFINE a == Resolve(world, ref, session)
           b == Resolve(other, ref, session)
           H == world.live
           hits == {o \in H : Names(ref, o) /\ InSelected(o, session.library)}
           Hit(x) == x \in H /\ Names(ref, x)
           Scoped(x) == InSelected(x, session.library) \/ ref.kind = "id"
           Bridged(x) == hits # {} /\ x = FirstListed(hits)
           Own(x) == session.library = {} /\ ref.kind = "key" /\ x.library = Personal
           Only(x) == Matching(world, ref, session.library) = {x}
           Source(x) == Bridged(x) \/ Own(x) \/ Only(x)
<1>1. H \in Holdings /\ H \subseteq Object
  BY HoldingsAssump DEF World
<1>2. ASSUME NEW w \in World, w.live = H, w.copy = H,
             NEW x, x = Resolve(w, ref, session), x.kind = "object"
      PROVE  Hit(x.object) /\ Scoped(x.object) /\ Source(x.object)
  <2>1. x.kind # "error"
    BY <1>2
  <2>2. Hit(x.object) /\ Scoped(x.object)
    BY <1>2, <2>1, FoundFacts
  <2>3. CASE ViaBridge(w, ref, session, x)
    BY <1>2, <2>2, <2>3 DEF ViaBridge, Found
  <2>4. CASE ViaApi(w, ref, session, x)
    BY <1>2, <2>2, <2>4 DEF ViaApi, Found
  <2>5. CASE ViaDatabase(w, ref, session, x)
    BY <1>2, <2>2, <2>5 DEF ViaDatabase, Found, Matching
  <2> QED
    BY <1>2, <2>1, <2>2, <2>3, <2>4, <2>5, Resolution
<1>3. ASSUME NEW x, NEW y, Hit(x), Hit(y), Scoped(x), Scoped(y), Source(x), Source(y)
      PROVE  x = y
  <2>1. CASE ref.kind = "id"
    BY <1>1, <1>3, <2>1, Unique DEF Names
  <2>2. CASE ref.kind # "id" /\ session.library # {}
    <3>1. PICK l \in Selectable : session.library = {l}
      BY <2>2 DEF Session
    <3>2. x.library = l /\ y.library = l /\ x.key = y.key
      BY <1>3, <2>2, <3>1 DEF InSelected, Names
    <3> QED
      BY <1>1, <1>3, <3>2, Unique
  <2>3. CASE ref.kind # "id" /\ session.library = {}
    <3>1. x.key = y.key /\ x \in hits /\ y \in hits /\ hits \subseteq Object
      BY <1>1, <1>3, <2>3 DEF InSelected, Names
    <3>2. x \in Matching(world, ref, session.library) /\ y \in Matching(world, ref, session.library)
      BY <1>3, <2>3 DEF Matching, InSelected
    <3>3. CASE Only(x) \/ Only(y)
      BY <3>2, <3>3
    <3>4. CASE Own(x) /\ Own(y)
      BY <1>1, <1>3, <3>1, <3>4, Unique
    <3>5. CASE Bridged(x) /\ Bridged(y)
      BY <3>5
    <3>6. ASSUME (Own(x) /\ Bridged(y)) \/ (Own(y) /\ Bridged(x))
          PROVE  x.library = y.library
      <4> HIDE DEF hits
      <4>1. \E o \in hits : o.library = Personal
        BY <3>1, <3>6
      <4>2. FirstListed(hits).library = Personal
        BY <3>1, <4>1, FirstListedFacts DEF Object
      <4> QED
        BY <3>6, <4>2
    <3> QED
      BY <1>1, <1>3, <3>1, <3>3, <3>4, <3>5, <3>6, Unique
  <2> QED
    BY <2>1, <2>2, <2>3
<1>4. world.copy = H /\ other.live = H /\ other.copy = H
  OBVIOUS
<1> HIDE DEF H, Hit, Scoped, Source
<1>5. ASSUME a.kind = "object", b.kind = "object"
      PROVE  a.object = b.object
  <2>1. Hit(a.object) /\ Scoped(a.object) /\ Source(a.object)
    BY <1>2, <1>4, <1>5, Zenon DEF H
  <2>2. Hit(b.object) /\ Scoped(b.object) /\ Source(b.object)
    BY <1>2, <1>4, <1>5, Zenon
  <2> HIDE DEF a, b
  <2> QED
    BY <1>3, <2>1, <2>2
<1> HIDE DEF a, b
<1> QED
  BY <1>5, Zenon DEF SourcesAgree, a, b

\* Whatever Zotero holds, whatever an older database file shows, and
\* whichever of the Bridge, the Local API and the database answer: a
\* reference is resolved to what it names in the library the session selects,
\* to what is there now if Zotero said so, and to the same object whichever
\* sources answered; a collection is created in its parent's library
\* (target.rs:271-440, lib.rs:2571-2605).
THEOREM TargetIsTheOneMeantHolds == DecisionSpec => []TargetIsTheOneMeant
<1> DEFINE Q == question = NoQuestion \/ question \in [world: World, ref: Ref, session: Session]
<1>1. Free => Q
  BY DEF Free
<1>2. Q /\ [DecisionNext]_decisionVars => Q'
  <2> SUFFICES ASSUME Q, [DecisionNext]_decisionVars PROVE Q'
    OBVIOUS
  <2>1. CASE PutQuestion
    BY <2>1 DEF PutQuestion
  <2>2. CASE UNCHANGED question
    BY <2>2
  <2>3. PutQuestion \/ UNCHANGED question
    BY DEF DecisionNext, decisionVars, AskTarget, FetchPdf, Rank, UploadAll, Scan, MergeItems,
           Find, Decide
  <2> QED
    BY <2>1, <2>2, <2>3
<1>3. Q => TargetIsTheOneMeant
  <2> SUFFICES ASSUME question \in [world: World, ref: Ref, session: Session]
               PROVE  TargetIsTheOneMeant
    BY DEF TargetIsTheOneMeant
  <2> DEFINE w == question.world
             r == question.ref
             s == question.session
  <2>1. w \in World /\ r \in Ref /\ s \in Session
    OBVIOUS
  <2>2. /\ TargetIsMeant(w, r, s)
        /\ CreatedBesideItsParent(w, r, s)
        /\ \A other \in World :
              w.live = w.copy /\ other.live = w.live /\ other.copy = w.live
                  => SourcesAgree(w, other, r, s)
    <3> HIDE DEF w, r, s
    <3> QED
      BY <2>1, IsMeant, BesideItsParent, Agreement
  <2> QED
    BY <2>2, Zenon DEF TargetIsTheOneMeant
<1> QED
  BY <1>1, <1>2, <1>3, PTL DEF DecisionSpec
-----------------------------------------------------------------------------
(* Counting up, and lists made by sorting and picking.                     *)

\* What holds of 0 and of m + 1 whenever it holds of m holds up to n; the
\* property is the set of the numbers that have it.
LEMMA Induction ==
    ASSUME NEW n \in Nat, NEW T, 0 \in T, \A m \in 0 .. n - 1 : m \in T => m + 1 \in T
    PROVE  \A m \in 0 .. n : m \in T
<1> DEFINE D == (0 .. n) \ T
<1>1. ASSUME D # {} PROVE FALSE
  <2>1. D \subseteq Nat
    OBVIOUS
  <2> HIDE DEF D
  <2>2. PICK d \in D : \A k \in D : d <= k
    BY <1>1, <2>1, Least
  <2>3. d \in 1 .. n /\ d \notin T
    BY <2>2 DEF D
  <2>4. d - 1 \in 0 .. n - 1 /\ d - 1 \notin D /\ (d - 1) + 1 = d
    BY <2>2, <2>3
  <2>5. d - 1 \in T
    BY <2>4 DEF D
  <2> QED
    BY <2>3, <2>4, <2>5
<1> QED
  BY <1>1

\* A list that repeats nothing has as many elements as places.
LEMMA CountedOnce ==
    ASSUME NEW S, NEW n \in Nat, NEW f \in [1 .. n -> S],
           \A x \in S : \E i \in 1 .. n : f[i] = x,
           \A i, j \in 1 .. n : i # j => f[i] # f[j]
    PROVE  IsFiniteSet(S) /\ Cardinality(S) = n
<1>1. f \in Bijection(1 .. n, S)
  BY DEF Bijection, Injection, Surjection, IsInjective
<1>2. ExistsBijection(1 .. n, S)
  BY <1>1 DEF ExistsBijection
<1> QED
  BY <1>2, FS_CountingElements, FS_NatBijection

\* A state that is carried through 1 .. n, one step each, goes through a
\* sequence of states: the recursive definitions of the decisions have values.
Carried(n, St, base, step) ==
    {g \in [0 .. n -> St] : g[0] = base /\ \A i \in 1 .. n : g[i] = step[<<i, g[i - 1]>>]}

\* A step that is a function of the turn and the state has such a sequence.
LEMMA Recursion ==
    ASSUME NEW n \in Nat, NEW St, NEW base \in St, NEW step \in [(1 .. n) \X St -> St]
    PROVE  \E g : g \in Carried(n, St, base, step)
<1> DEFINE T == {m \in 0 .. n :
                    \E g \in [0 .. m -> St] :
                        /\ g[0] = base
                        /\ \A i \in 1 .. m : g[i] = step[<<i, g[i - 1]>>]}
<1>1. 0 \in T
  <2> DEFINE g == [i \in 0 .. 0 |-> base]
  <2>1. g \in [0 .. 0 -> St] /\ g[0] = base /\ 0 \in 0 .. n
    OBVIOUS
  <2>2. \A i \in 1 .. 0 : g[i] = step[<<i, g[i - 1]>>]
    OBVIOUS
  <2> HIDE DEF g
  <2> QED
    BY <2>1, <2>2
<1>2. ASSUME NEW m \in 0 .. n - 1, m \in T PROVE m + 1 \in T
  <2>1. PICK g \in [0 .. m -> St] :
            g[0] = base /\ \A i \in 1 .. m : g[i] = step[<<i, g[i - 1]>>]
    BY <1>2
  <2> HIDE DEF T
  <2> DEFINE new == step[<<m + 1, g[m]>>]
             h == [i \in 0 .. m + 1 |-> IF i = m + 1 THEN new ELSE g[i]]
  <2>2. m \in Nat /\ m + 1 \in 1 .. n /\ m + 1 \in 0 .. n
    OBVIOUS
  <2>3. g[m] \in St
    BY <2>2
  <2>4. new \in St
    BY <2>2, <2>3
  <2> HIDE DEF new
  <2>5. \A i \in 0 .. m : h[i] = g[i]
    BY <2>2
  <2>6. h[m + 1] = new
    BY <2>2
  <2>7. h \in [0 .. m + 1 -> St]
    BY <2>2, <2>4
  <2> HIDE DEF h
  <2>8. ASSUME NEW i \in 1 .. m + 1 PROVE h[i] = step[<<i, h[i - 1]>>]
    <3>1. h[i - 1] = g[i - 1]
      BY <2>2, <2>5
    <3>2. CASE i = m + 1
      BY <2>2, <2>6, <3>1, <3>2 DEF new
    <3>3. CASE i # m + 1
      <4>1. i \in 1 .. m /\ i \in 0 .. m
        BY <2>2, <3>3
      <4> QED
        BY <2>1, <2>5, <3>1, <4>1
    <3> QED
      BY <3>2, <3>3
  <2>9. h[0] = base
    BY <2>1, <2>2, <2>5
  <2> QED
    BY <2>2, <2>7, <2>8, <2>9 DEF T
<1>3. n \in T
  <2> HIDE DEF T
  <2> QED
    BY <1>1, <1>2, Induction
<1> QED
  BY <1>3 DEF Carried

\* less is a strict total order of S.
IsOrder(S, less) ==
    /\ \A x \in S : <<x, x>> \notin less
    /\ \A x, y, z \in S : <<x, y>> \in less /\ <<y, z>> \in less => <<x, z>> \in less
    /\ \A x, y \in S : x = y \/ <<x, y>> \in less \/ <<y, x>> \in less

\* Places in such an order are those of a list.
LEMMA Places ==
    ASSUME NEW S, IsFiniteSet(S), NEW less, IsOrder(S, less)
    PROVE  /\ Cardinality(S) \in Nat
           /\ \A x \in S : Place(S, less, x) \in 1 .. Cardinality(S)
           /\ \A x, y \in S : <<x, y>> \in less => Place(S, less, x) < Place(S, less, y)
           /\ \A n \in 1 .. Cardinality(S) : \E x \in S : Place(S, less, x) = n
<1> DEFINE Before(x) == {y \in S : <<y, x>> \in less}
<1>1. Cardinality(S) \in Nat
  BY FS_CardinalityType
<1>2. ASSUME NEW x \in S
      PROVE  /\ IsFiniteSet(Before(x)) /\ Cardinality(Before(x)) \in Nat
             /\ Cardinality(Before(x)) < Cardinality(S)
  <2>1. Before(x) \in SUBSET S /\ x \notin Before(x)
    BY DEF IsOrder
  <2>2. Before(x) # S
    BY <2>1
  <2> HIDE DEF Before
  <2>3. /\ IsFiniteSet(Before(x)) /\ Cardinality(Before(x)) <= Cardinality(S)
        /\ Cardinality(S) # Cardinality(Before(x))
    BY <2>1, <2>2, FS_Subset
  <2>4. Cardinality(Before(x)) \in Nat
    BY <2>3, FS_CardinalityType
  <2> QED
    BY <1>1, <2>3, <2>4
<1>3. ASSUME NEW x \in S, NEW y \in S, <<x, y>> \in less
      PROVE  Cardinality(Before(x)) < Cardinality(Before(y))
  <2>1. Before(x) \in SUBSET Before(y) /\ x \in Before(y) /\ x \notin Before(x)
    BY <1>3 DEF IsOrder
  <2>2. Before(x) # Before(y)
    BY <2>1
  <2> HIDE DEF Before
  <2>3. /\ Cardinality(Before(x)) <= Cardinality(Before(y))
        /\ Cardinality(Before(x)) # Cardinality(Before(y))
    BY <1>2, <2>1, <2>2, FS_Subset
  <2> QED
    BY <1>2, <2>3
<1>4. \A x \in S : Place(S, less, x) = Cardinality(Before(x)) + 1
  BY DEF Place
<1> HIDE DEF Before
<1>5. \A x \in S : Place(S, less, x) \in 1 .. Cardinality(S)
  BY <1>1, <1>2, <1>4
<1>6. \A x, y \in S : <<x, y>> \in less => Place(S, less, x) < Place(S, less, y)
  BY <1>2, <1>3, <1>4
<1> DEFINE f == [x \in S |-> Place(S, less, x)]
<1>7. f \in Injection(S, 1 .. Cardinality(S))
  <2>1. f \in [S -> 1 .. Cardinality(S)]
    BY <1>5
  <2>2. ASSUME NEW x \in S, NEW y \in S, f[x] = f[y] PROVE x = y
    <3>1. ~ (Place(S, less, x) < Place(S, less, y)) /\ ~ (Place(S, less, y) < Place(S, less, x))
      BY <1>1, <1>5, <2>2
    <3> QED
      BY <1>6, <3>1 DEF IsOrder
  <2> HIDE DEF f
  <2> QED
    BY <2>1, <2>2 DEF Injection, IsInjective
<1>8. IsFiniteSet(1 .. Cardinality(S)) /\ Cardinality(1 .. Cardinality(S)) = Cardinality(S)
  BY <1>1, FS_Interval
<1>9. f \in Surjection(S, 1 .. Cardinality(S))
  <2> HIDE DEF f
  <2> QED
    BY <1>7, <1>8, FS_Injection
<1>10. \A n \in 1 .. Cardinality(S) : \E x \in S : f[x] = n
  <2> HIDE DEF f
  <2> QED
    BY <1>9 DEF Surjection
<1> QED
  BY <1>1, <1>5, <1>6, <1>10

\* InOrder lists a finite set, each element once, in its order.
LEMMA Listing ==
    ASSUME NEW S, IsFiniteSet(S), NEW less, IsOrder(S, less)
    PROVE  /\ Cardinality(S) \in Nat
           /\ InOrder(S, less) \in [1 .. Cardinality(S) -> S]
           /\ \A m, n \in 1 .. Cardinality(S) :
                  m < n => <<InOrder(S, less)[m], InOrder(S, less)[n]>> \in less
           /\ \A x \in S : \E n \in 1 .. Cardinality(S) : InOrder(S, less)[n] = x
<1> DEFINE l == InOrder(S, less)
           c == Cardinality(S)
<1>1. c \in Nat
  BY Places
<1>2. ASSUME NEW n \in 1 .. c
      PROVE  l[n] \in S /\ Place(S, less, l[n]) = n
  <2>1. l[n] = CHOOSE x \in S : Place(S, less, x) = n
    BY DEF InOrder
  <2>2. \E x \in S : Place(S, less, x) = n
    BY Places
  <2> QED
    BY <2>1, <2>2
<1>3. l \in [1 .. c -> S]
  BY <1>2 DEF InOrder
<1> HIDE DEF l, c
<1>4. \A x \in S : Place(S, less, x) \in 1 .. c
  BY Places DEF c
<1>5. ASSUME NEW x \in S PROVE l[Place(S, less, x)] = x
  <2>1. l[Place(S, less, x)] \in S /\ Place(S, less, l[Place(S, less, x)]) = Place(S, less, x)
    BY <1>2, <1>4
  <2>2. \A y \in S : Place(S, less, y) = Place(S, less, x) => y = x
    <3>1. \A y \in S : <<x, y>> \in less => Place(S, less, x) < Place(S, less, y)
      BY Places
    <3>2. \A y \in S : <<y, x>> \in less => Place(S, less, y) < Place(S, less, x)
      BY Places
    <3>3. ASSUME NEW y \in S, y # x PROVE Place(S, less, y) # Place(S, less, x)
      <4>1. <<x, y>> \in less \/ <<y, x>> \in less
        BY <3>3 DEF IsOrder
      <4> QED
        BY <1>1, <1>4, <3>1, <3>2, <4>1
    <3> QED
      BY <3>3
  <2> QED
    BY <2>1, <2>2
<1>6. ASSUME NEW m \in 1 .. c, NEW n \in 1 .. c, m < n
      PROVE  <<l[m], l[n]>> \in less
  <2>1. l[m] # l[n] /\ l[m] \in S /\ l[n] \in S
    BY <1>1, <1>2, <1>6
  <2>2. <<l[n], l[m]>> \notin less
    <3>1. \A x, y \in S : <<x, y>> \in less => Place(S, less, x) < Place(S, less, y)
      BY Places
    <3>2. ~ (Place(S, less, l[n]) < Place(S, less, l[m]))
      BY <1>1, <1>2, <1>6
    <3> QED
      BY <2>1, <3>1, <3>2
  <2> QED
    BY <2>1, <2>2 DEF IsOrder
<1> QED
  BY <1>1, <1>3, <1>4, <1>5, <1>6 DEF l, c

\* Numbers by size.
LEMMA AscendingOrder ==
    ASSUME NEW P, P \subseteq Int
    PROVE  IsOrder(P, Ascending(P))
BY DEF IsOrder, Ascending

\* A stable sort by what tells elements apart consistently is an order.
IsWeakOrder(P, earlier) ==
    /\ \A x \in P : <<x, x>> \notin earlier
    /\ \A x, y, z \in P : <<x, y>> \in earlier /\ <<y, z>> \in earlier => <<x, z>> \in earlier
    /\ \A x, y, z \in P : <<x, z>> \in earlier => <<x, y>> \in earlier \/ <<y, z>> \in earlier

\* With positions to decide where it does not, it is an order.
LEMMA StableOrder ==
    ASSUME NEW P, P \subseteq Int, NEW earlier, IsWeakOrder(P, earlier)
    PROVE  IsOrder(P, Stable(P, earlier))
<1> DEFINE less == Stable(P, earlier)
<1>1. \A x, y \in P : <<x, y>> \in less <=>
          <<x, y>> \in earlier \/ (<<y, x>> \notin earlier /\ x < y)
  BY DEF Stable
<1> HIDE DEF less
<1>2. ASSUME NEW x \in P PROVE <<x, x>> \notin less
  <2>1. x \in Int /\ ~ (x < x)
    OBVIOUS
  <2> QED
    BY <1>1, <2>1 DEF IsWeakOrder
<1>3. ASSUME NEW x \in P, NEW y \in P, x # y
      PROVE  <<x, y>> \in less \/ <<y, x>> \in less
  <2>1. x < y \/ y < x
    BY <1>3
  <2> QED
    BY <1>1, <2>1
<1>4. ASSUME NEW x \in P, NEW y \in P, NEW z \in P, <<x, y>> \in less, <<y, z>> \in less
      PROVE  <<x, z>> \in less
  <2>1. CASE <<x, y>> \in earlier
    <3>1. <<z, y>> \notin earlier
      BY <1>1, <1>4 DEF IsWeakOrder
    <3> QED
      BY <1>1, <2>1, <3>1 DEF IsWeakOrder
  <2>2. CASE <<y, z>> \in earlier
    <3>1. <<y, x>> \notin earlier
      BY <1>1, <1>4 DEF IsWeakOrder
    <3> QED
      BY <1>1, <2>2, <3>1 DEF IsWeakOrder
  <2>3. CASE <<x, y>> \notin earlier /\ <<y, z>> \notin earlier
    <3>1. x < z /\ <<y, x>> \notin earlier /\ <<z, y>> \notin earlier
      BY <1>1, <1>4, <2>3
    <3>2. <<z, x>> \notin earlier
      BY <3>1 DEF IsWeakOrder
    <3> QED
      BY <1>1, <3>1, <3>2
  <2> QED
    BY <2>1, <2>2, <2>3
<1> QED
  BY <1>2, <1>3, <1>4 DEF IsOrder, less

\* What At picks: the elements at the positions, each position once, in order.
Picks(s, P, at) ==
    /\ at \in [1 .. Cardinality(P) -> P]
    /\ At(s, P) = [n \in 1 .. Cardinality(P) |-> s[at[n]]]
    /\ \A m, n \in 1 .. Cardinality(P) : m < n => at[m] < at[n]
    /\ \A i \in P : \E n \in 1 .. Cardinality(P) : at[n] = i

\* There is such a list of the positions.
LEMMA Picking ==
    ASSUME NEW s, NEW P, P \subseteq Nat, IsFiniteSet(P)
    PROVE  Cardinality(P) \in Nat /\ \E at : Picks(s, P, at)
<1> DEFINE at == InOrder(P, Ascending(P))
<1>1. IsOrder(P, Ascending(P))
  <2>1. P \subseteq Int
    OBVIOUS
  <2> QED
    BY <2>1, AscendingOrder
<1>2. /\ Cardinality(P) \in Nat
      /\ at \in [1 .. Cardinality(P) -> P]
      /\ \A m, n \in 1 .. Cardinality(P) : m < n => <<at[m], at[n]>> \in Ascending(P)
      /\ \A i \in P : \E n \in 1 .. Cardinality(P) : at[n] = i
  BY <1>1, Listing
<1>3. At(s, P) = [n \in 1 .. Cardinality(P) |-> s[at[n]]]
  BY DEF At
<1> HIDE DEF at
<1>4. \A i, j : <<i, j>> \in Ascending(P) => i < j
  BY DEF Ascending
<1>5. \A m, n \in 1 .. Cardinality(P) : m < n => at[m] < at[n]
  BY <1>2, <1>4
<1> QED
  BY <1>2, <1>3, <1>5 DEF Picks

-----------------------------------------------------------------------------
(* The PDF sources.                                                        *)

\* dedupe_preserve_order returns a list without repetitions.
LEMMA FirstOccurrencesOnce ==
    ASSUME NEW X, NEW urls \in Seq(X)
    PROVE  FirstOccurrences(urls) \in Seq(X) /\ IsInjective(FirstOccurrences(urls))
<1> DEFINE P == {i \in DOMAIN urls : \A j \in 1 .. i - 1 : urls[j] # urls[i]}
           c == Cardinality(P)
<1>1. P \in SUBSET DOMAIN urls /\ DOMAIN urls = 1 .. Len(urls) /\ Len(urls) \in Nat
  OBVIOUS
<1>2. IsFiniteSet(P) /\ P \subseteq Nat
  <2>1. IsFiniteSet(1 .. Len(urls))
    BY <1>1, FS_Interval
  <2> QED
    BY <1>1, <2>1, FS_Subset
<1>3. \A i, j \in P : j < i => urls[j] # urls[i]
  BY <1>1
<1>4. FirstOccurrences(urls) = At(urls, P)
  BY DEF FirstOccurrences
<1> HIDE DEF P
<1>5. PICK at : /\ at \in [1 .. c -> P]
                /\ At(urls, P) = [n \in 1 .. c |-> urls[at[n]]]
                /\ \A m, n \in 1 .. c : m < n => at[m] < at[n]
  BY <1>2, Picking DEF Picks
<1>6. c \in Nat
  BY <1>2, FS_CardinalityType
<1> HIDE DEF c
<1>7. \A n \in 1 .. c : at[n] \in P /\ urls[at[n]] \in X
  BY <1>1, <1>5, <1>6
<1>8. At(urls, P) \in Seq(X) /\ DOMAIN At(urls, P) = 1 .. c
  BY <1>5, <1>6, <1>7
<1>9. ASSUME NEW m \in 1 .. c, NEW n \in 1 .. c, m # n
      PROVE  At(urls, P)[m] # At(urls, P)[n]
  <2>1. m < n \/ n < m
    BY <1>6, <1>9
  <2> QED
    BY <1>3, <1>5, <1>7, <2>1
<1> QED
  BY <1>4, <1>8, <1>9 DEF IsInjective

\* A list of one.
LEMMA OneElement ==
    ASSUME NEW X, NEW x \in X
    PROVE  <<x>> \in Seq(X) /\ Len(<<x>>) = 1 /\ DOMAIN <<x>> = {1}
<1>1. <<x>> \in Seq(X) /\ Len(<<x>>) = 1
  OBVIOUS
<1>2. DOMAIN <<x>> = 1 .. 1
  BY <1>1
<1>3. 1 .. 1 = {1}
  OBVIOUS
<1> QED
  BY <1>1, <1>2, <1>3

Fetched(item) ==
    item \in PdfItem /\ IsInjective(item.preprint) /\ IsInjective(item.arxiv)

Sources == ToSet(DefaultSources)

\* The sources there are.
LEMMA SourceNames == Sources = {"zotero", "unpaywall", "epmc", "biorxiv", "arxiv"}
BY DEF Sources, DefaultSources, ToSet

\* No source but Europe PMC offers an address twice.
LEMMA UrlsFacts ==
    ASSUME NEW item, Fetched(item), NEW source \in Sources \ {"zotero"}
    PROVE  /\ Urls(item, source) \in Seq(Address)
           /\ source # "epmc" => IsInjective(Urls(item, source))
<1>1. Nothing \in Seq(Address) /\ IsInjective(Nothing)
  BY DEF Nothing, IsInjective
<1>2. CASE source = "unpaywall"
  <2>1. Urls(item, source) = UnpaywallUrls(item.unpaywall)
    BY <1>2 DEF Urls
  <2>2. item.unpaywall.best \o item.unpaywall.other \in Seq(Address)
    BY DEF Fetched, PdfItem, Addresses
  <2> DEFINE both == item.unpaywall.best \o item.unpaywall.other
  <2>3. FirstOccurrences(both) \in Seq(Address) /\ IsInjective(FirstOccurrences(both))
    <3> HIDE DEF both
    <3> QED
      BY <2>2, FirstOccurrencesOnce DEF both
  <2>4. UnpaywallUrls(item.unpaywall) \in {Nothing, FirstOccurrences(both)}
    BY DEF UnpaywallUrls
  <2> QED
    BY <1>1, <2>1, <2>3, <2>4
<1>3. CASE source = "epmc"
  <2>1. Urls(item, source) = EpmcUrls(item.epmc)
    BY <1>3 DEF Urls
  <2>2. item.epmc.pmc \o item.epmc.fullText \in Seq(Address)
    BY DEF Fetched, PdfItem, Addresses
  <2>3. EpmcUrls(item.epmc) \in {Nothing, item.epmc.pmc \o item.epmc.fullText}
    BY DEF EpmcUrls
  <2> QED
    BY <1>1, <1>3, <2>1, <2>2, <2>3
<1>4. CASE source = "biorxiv"
  BY <1>4 DEF Urls, Fetched, PdfItem, Addresses
<1>5. CASE source = "arxiv"
  BY <1>5 DEF Urls, Fetched, PdfItem, Addresses
<1> QED
  BY <1>2, <1>3, <1>4, <1>5, SourceNames

\* A source would give the PDF.
Offering(item, source) ==
    /\ source # "zotero"
    /\ \E url \in item.pdfs : url \in ToSet(Urls(item, source))

ReportLine == [source: Sources, url: Address \cup {"none"}, ok: BOOLEAN]

\* What one source adds to the report.
LEMMA TriedFacts ==
    ASSUME NEW item, Fetched(item), NEW source \in Sources \ {"zotero"}
    PROVE  LET t == Tried(item, source)
           IN  /\ t \in Seq(ReportLine) /\ Len(t) > 0
               /\ \A i \in DOMAIN t : t[i].source = source /\ (t[i].ok => i = Len(t))
               /\ Got(t) <=> Offering(item, source)
               /\ source # "epmc" => \A i, j \in DOMAIN t : i # j => t[i].url # t[j].url
<1> DEFINE urls == Urls(item, source)
           good == {i \in DOMAIN urls : urls[i] \in item.pdfs}
           last == IF good = {} THEN Len(urls) ELSE CHOOSE i \in good : \A j \in good : i <= j
           line == <<Attempt(source, "none", FALSE)>>
           lines == [i \in 1 .. last |-> Attempt(source, urls[i], urls[i] \in item.pdfs)]
           none == urls = Nothing
           t == Tried(item, source)
<1>1. t = IF none THEN line ELSE lines
  BY DEF Tried
<1>2. /\ urls \in Seq(Address)
      /\ source # "epmc" => IsInjective(urls)
      /\ DOMAIN urls = 1 .. Len(urls) /\ Len(urls) \in Nat
  BY UrlsFacts
<1>3. source \in Sources
  OBVIOUS
<1>4. Offering(item, source) <=> good # {}
  <2>1. \A url : url \in ToSet(urls) <=> \E i \in DOMAIN urls : urls[i] = url
    BY DEF ToSet
  <2>2. (\E url \in item.pdfs : url \in ToSet(urls)) <=> good # {}
    BY <2>1
  <2> QED
    BY <2>2 DEF Offering
<1>5. none => ~Offering(item, source)
  BY <1>4 DEF Nothing
<1>6. /\ good # {} => last \in good /\ \A j \in good : last <= j
      /\ good = {} => last = Len(urls)
  <2>1. good \subseteq Nat
    BY <1>2
  <2> HIDE DEF good
  <2> QED
    BY <2>1, Least
<1>7. last \in 0 .. Len(urls)
  BY <1>2, <1>6
<1>8. \A i \in 1 .. last : urls[i] \in item.pdfs => i = last /\ good # {}
  <2>1. \A i \in 1 .. last : i \in DOMAIN urls
    BY <1>2, <1>7
  <2>2. ASSUME NEW i \in 1 .. last, urls[i] \in item.pdfs PROVE i = last /\ good # {}
    <3>1. i \in good
      BY <2>1, <2>2
    <3>2. last <= i
      BY <1>6, <3>1
    <3> QED
      BY <1>7, <3>1, <3>2
  <2> QED
    BY <2>2
<1>9. urls # Nothing => last > 0
  <2>1. urls # Nothing => Len(urls) > 0
    BY <1>2 DEF Nothing
  <2> QED
    BY <1>2, <1>6, <2>1
<1>10. good # {} => urls[last] \in item.pdfs
  BY <1>6
<1> HIDE DEF urls, good, last, t
<1>11. CASE none
  <2>0. Attempt(source, "none", FALSE) \in ReportLine
    BY <1>3 DEF ReportLine, Attempt
  <2>1. t = line
    BY <1>1, <1>11
  <2>2. line \in Seq(ReportLine) /\ Len(line) = 1 /\ DOMAIN line = {1}
    BY <2>0, OneElement
  <2>3. line[1].source = source /\ ~line[1].ok
    BY DEF Attempt
  <2> HIDE DEF line, none
  <2> QED
    BY <1>5, <1>11, <2>1, <2>2, <2>3 DEF Got, t
<1>12. CASE ~none
  <2>1. t = lines /\ last \in Nat /\ last > 0
    BY <1>1, <1>2, <1>7, <1>9, <1>12
  <2>2. \A i \in 1 .. last : Attempt(source, urls[i], urls[i] \in item.pdfs) \in ReportLine
    <3>1. \A i \in 1 .. last : i \in DOMAIN urls /\ urls[i] \in Address
      BY <1>2, <1>7
    <3> QED
      BY <1>3, <3>1 DEF ReportLine, Attempt
  <2>3. t \in Seq(ReportLine) /\ Len(t) = last /\ DOMAIN t = 1 .. last
    BY <2>1, <2>2
  <2>4. \A i \in 1 .. last : /\ t[i].source = source /\ t[i].url = urls[i]
                             /\ t[i].ok = (urls[i] \in item.pdfs)
    BY <2>1 DEF Attempt
  <2> HIDE DEF lines, line
  <2>5. \A i \in DOMAIN t : t[i].source = source /\ (t[i].ok => i = Len(t))
    BY <1>8, <2>3, <2>4
  <2>6. Got(t) <=> good # {}
    <3>1. Got(t) => good # {}
      BY <1>8, <2>3, <2>4 DEF Got
    <3>2. last \in 1 .. last
      BY <2>1
    <3> QED
      BY <1>10, <2>3, <2>4, <3>1, <3>2 DEF Got
  <2>7. source # "epmc" => \A i, j \in DOMAIN t : i # j => t[i].url # t[j].url
    <3>1. \A i \in 1 .. last : i \in DOMAIN urls
      BY <1>2, <1>7
    <3>2. source # "epmc" => \A i, j \in 1 .. last : urls[i] = urls[j] => i = j
      BY <1>2, <3>1 DEF IsInjective
    <3> QED
      BY <2>3, <2>4, <3>2
  <2> QED
    BY <1>4, <1>12, <2>1, <2>3, <2>5, <2>6, <2>7 DEF t
<1> QED
  BY <1>11, <1>12

\* The report after each source: one more source is asked as long as none
\* has found the PDF.
LEMMA CascadeRuns ==
    ASSUME NEW item, Fetched(item), NEW sources \in Seq(Sources)
    PROVE  \E g \in [0 .. Len(sources) -> Seq(ReportLine)] :
               /\ Cascade(item, sources) = g[Len(sources)]
               /\ g[0] = <<>>
               /\ \A i \in 1 .. Len(sources) : g[i] = Asking(item, g[i - 1], sources[i])
<1> DEFINE n == Len(sources)
           St == Seq(ReportLine)
           step == [p \in (1 .. n) \X St |-> Asking(item, p[2], sources[p[1]])]
           Body(g) == [i \in 0 .. n |-> IF i = 0 THEN Nothing
                                        ELSE Asking(item, g[i - 1], sources[i])]
           run == CHOOSE g : g = Body(g)
<1>1. n \in Nat /\ Nothing \in St
  BY DEF Nothing
<1>2. ASSUME NEW t \in St, NEW i \in 1 .. n PROVE Asking(item, t, sources[i]) \in St
  <2>1. sources[i] \in Sources
    OBVIOUS
  <2>2. CASE sources[i] = "zotero"
    BY <2>2 DEF Asking
  <2>3. CASE sources[i] # "zotero"
    <3>1. Tried(item, sources[i]) \in St
      BY <2>1, <2>3, TriedFacts
    <3>2. t \o Tried(item, sources[i]) \in St
      BY <3>1
    <3> QED
      BY <3>2 DEF Asking
  <2> QED
    BY <2>2, <2>3
<1>3. step \in [(1 .. n) \X St -> St]
  BY <1>2
<1>4. \A i \in 1 .. n : \A t \in St : step[<<i, t>>] = Asking(item, t, sources[i])
  OBVIOUS
<1> HIDE DEF n, St, step
<1>5. PICK g : g \in Carried(n, St, Nothing, step)
  BY <1>1, <1>3, Recursion
<1>6. /\ g \in [0 .. n -> St]
      /\ g[0] = Nothing /\ \A i \in 1 .. n : g[i] = step[<<i, g[i - 1]>>]
      /\ \A i \in 1 .. n : i - 1 \in 0 .. n /\ g[i - 1] \in St
  BY <1>1, <1>5 DEF Carried
<1>7. g = Body(g)
  <2>1. \A i \in 0 .. n : g[i] = IF i = 0 THEN Nothing ELSE Asking(item, g[i - 1], sources[i])
    <3>1. \A i \in 0 .. n : i # 0 => i \in 1 .. n
      BY <1>1
    <3> QED
      BY <1>4, <1>6, <3>1
  <2> QED
    BY <1>6, <2>1
<1>8. run = Body(run)
  BY <1>7
<1>9. Cascade(item, sources) = run[n]
  BY DEF Cascade, n
<1> HIDE DEF run
<1>10. /\ run[0] = Nothing
       /\ \A i \in 1 .. n : run[i] = Asking(item, run[i - 1], sources[i])
  <2>1. \A i \in 0 .. n : run[i] = IF i = 0 THEN Nothing ELSE Asking(item, run[i - 1], sources[i])
    BY <1>8
  <2> QED
    BY <1>1, <2>1
<1>11. \A i \in 0 .. n : run[i] \in St
  <2> DEFINE T == {i \in 0 .. n : run[i] \in St}
  <2>1. 0 \in T
    BY <1>1, <1>10
  <2>2. ASSUME NEW m \in 0 .. n - 1, m \in T PROVE m + 1 \in T
    <3>1. m + 1 \in 1 .. n /\ (m + 1) - 1 = m /\ m + 1 \in 0 .. n
      BY <1>1
    <3>2. run[m + 1] = Asking(item, run[m], sources[m + 1])
      BY <1>10, <3>1
    <3> QED
      BY <1>2, <2>2, <3>1, <3>2 DEF n
  <2> HIDE DEF T
  <2>3. \A m \in 0 .. n : m \in T
    BY <1>1, <2>1, <2>2, Induction
  <2> QED
    BY <2>3 DEF T
<1>12. run \in [0 .. n -> St]
  BY <1>8, <1>11
<1> QED
  BY <1>9, <1>10, <1>12 DEF Nothing, n, St

\* What the report tells after the first m sources: it has a line of every
\* source that was asked before one offered, ends at the first PDF, and
\* repeats a line only for a source asked twice or for Europe PMC.
Unoffered(item, sources, k) == \A j \in 1 .. k - 1 : ~Offering(item, sources[j])

ReportInv(item, sources, t, m) ==
    /\ Got(t) <=> \E k \in 1 .. m : Offering(item, sources[k])
    /\ \A i \in DOMAIN t : t[i].ok => i = Len(t)
    /\ \A i \in DOMAIN t : \E k \in 1 .. m :
           /\ t[i].source = sources[k] /\ sources[k] # "zotero"
           /\ Unoffered(item, sources, k)
    /\ \A k \in 1 .. m : sources[k] # "zotero" /\ Unoffered(item, sources, k) =>
           \E i \in DOMAIN t : t[i].source = sources[k]
    /\ \A i, j \in DOMAIN t : i < j =>
           \/ t[i].source # t[j].source \/ t[i].url # t[j].url
           \/ ~IsInjective(sources) \/ t[i].source = "epmc"

\* One source's turn keeps the report right.
LEMMA ReportStep ==
    ASSUME NEW item, Fetched(item), NEW sources \in Seq(Sources),
           NEW m \in 1 .. Len(sources), NEW t \in Seq(ReportLine),
           ReportInv(item, sources, t, m - 1)
    PROVE  ReportInv(item, sources, Asking(item, t, sources[m]), m)
<1> DEFINE new == Asking(item, t, sources[m])
           off(k) == Offering(item, sources[k])
<1>1. m \in Nat /\ m - 1 \in Nat /\ Len(sources) \in Nat /\ DOMAIN sources = 1 .. Len(sources)
  OBVIOUS
<1>2. \A k \in 1 .. m : k = m \/ k \in 1 .. m - 1
  BY <1>1
<1>3. \A k \in 1 .. m - 1 : k \in 1 .. m
  BY <1>1
<1>4. CASE Got(t)
  <2>1. new = t
    BY <1>4 DEF Asking
  <2>2. \E k \in 1 .. m - 1 : Offering(item, sources[k])
    BY <1>4 DEF ReportInv
  <2>3. ~Unoffered(item, sources, m)
    BY <2>2 DEF Unoffered
  <2> QED
    BY <1>2, <1>3, <1>4, <2>1, <2>2, <2>3 DEF ReportInv
<1>5. CASE ~Got(t) /\ sources[m] = "zotero"
  <2>1. new = t /\ ~Offering(item, sources[m])
    BY <1>5 DEF Asking, Offering
  <2> QED
    BY <1>2, <1>3, <1>5, <2>1 DEF ReportInv
<1>6. CASE ~Got(t) /\ sources[m] # "zotero"
  <2> DEFINE more == Tried(item, sources[m])
  <2>0. sources[m] \in Sources \ {"zotero"}
    BY <1>1, <1>6
  <2>1. /\ more \in Seq(ReportLine) /\ Len(more) > 0
        /\ \A i \in DOMAIN more : more[i].source = sources[m] /\ (more[i].ok => i = Len(more))
        /\ Got(more) <=> Offering(item, sources[m])
        /\ sources[m] # "epmc" => \A i, j \in DOMAIN more : i # j => more[i].url # more[j].url
    BY <2>0, TriedFacts
  <2>2. new = t \o more
    BY <1>6 DEF Asking
  <2> HIDE DEF more, new
  <2> DEFINE a == Len(t)
             b == Len(more)
  <2>3. /\ a \in Nat /\ b \in Nat /\ DOMAIN t = 1 .. a /\ DOMAIN more = 1 .. b
        /\ Len(new) = a + b /\ DOMAIN new = 1 .. a + b
        /\ \A i \in 1 .. a : new[i] = t[i]
        /\ \A i \in a + 1 .. a + b : new[i] = more[i - a]
        /\ b > 0
    BY <2>1, <2>2
  <2> HIDE DEF a, b
  <2>4. \A i \in 1 .. a + b : i \in 1 .. a \/ (i \in a + 1 .. a + b /\ i - a \in 1 .. b)
    BY <2>3
  <2>5. ASSUME NEW i \in 1 .. b PROVE a + i \in 1 .. a + b /\ new[a + i] = more[i]
    <3>1. a + i \in a + 1 .. a + b /\ a + i \in 1 .. a + b /\ (a + i) - a = i
      BY <2>3
    <3> QED
      BY <2>3, <3>1
  <2>6. \A i \in 1 .. a : i \in 1 .. a + b
    BY <2>3
  <2>7. Got(new) <=> Got(more)
    <3>1. \A i \in 1 .. a : ~new[i].ok
      BY <1>6, <2>3 DEF Got
    <3> QED
      BY <2>3, <2>4, <2>5, <3>1 DEF Got
  <2>8. \A k \in 1 .. m - 1 : ~Offering(item, sources[k])
    BY <1>6 DEF ReportInv
  <2>9. Unoffered(item, sources, m)
    BY <2>8 DEF Unoffered
  <2>10. Got(new) <=> \E k \in 1 .. m : Offering(item, sources[k])
    BY <1>1, <1>2, <2>1, <2>7, <2>8
  <2>11. ASSUME NEW i \in DOMAIN new, new[i].ok PROVE i = Len(new)
    <3>1. i \notin 1 .. a
      BY <1>6, <2>3, <2>11 DEF Got
    <3>2. i - a \in 1 .. b /\ new[i] = more[i - a]
      BY <2>3, <2>4, <3>1
    <3>3. i - a = b
      BY <2>1, <2>3, <2>11, <3>2
    <3>4. a \in Nat /\ b \in Nat /\ i \in Int /\ Len(new) = a + b
      BY <2>3, <2>11
    <3>5. i = a + b
      BY <3>3, <3>4
    <3> QED
      BY <3>4, <3>5
  <2>12. ASSUME NEW i \in DOMAIN new
         PROVE  \E k \in 1 .. m : /\ new[i].source = sources[k] /\ sources[k] # "zotero"
                                  /\ Unoffered(item, sources, k)
    <3>1. CASE i \in 1 .. a
      BY <1>3, <2>3, <3>1 DEF ReportInv
    <3>2. CASE i \notin 1 .. a
      <4>1. new[i].source = sources[m]
        BY <2>1, <2>3, <2>4, <3>2
      <4> QED
        BY <1>1, <1>6, <2>9, <4>1
    <3> QED
      BY <3>1, <3>2
  <2>13. ASSUME NEW k \in 1 .. m, sources[k] # "zotero", Unoffered(item, sources, k)
         PROVE  \E i \in DOMAIN new : new[i].source = sources[k]
    <3>1. CASE k \in 1 .. m - 1
      <4>1. PICK i \in DOMAIN t : t[i].source = sources[k]
        BY <2>13, <3>1 DEF ReportInv
      <4> QED
        BY <2>3, <2>6, <4>1
    <3>2. CASE k = m
      <4>1. 1 \in 1 .. b
        BY <2>3
      <4> QED
        BY <2>1, <2>3, <2>5, <3>2, <4>1
    <3> QED
      BY <1>2, <3>1, <3>2
  <2>14. ASSUME NEW i \in DOMAIN new, NEW j \in DOMAIN new, i < j
         PROVE  \/ new[i].source # new[j].source \/ new[i].url # new[j].url
                \/ ~IsInjective(sources) \/ new[i].source = "epmc"
    <3>1. CASE j \in 1 .. a
      <4>1. i \in 1 .. a
        BY <2>3, <2>14, <3>1
      <4>2. i \in DOMAIN t /\ j \in DOMAIN t /\ new[i] = t[i] /\ new[j] = t[j]
        BY <2>3, <3>1, <4>1
      <4> QED
        BY <2>14, <4>2 DEF ReportInv
    <3>2. CASE i \in 1 .. a /\ j \notin 1 .. a
      <4>0. i \in DOMAIN t /\ new[i] = t[i] /\ j - a \in DOMAIN more /\ new[j] = more[j - a]
        <5>1. i \in DOMAIN t /\ new[i] = t[i]
          BY <2>3, <3>2
        <5>2. j \in a + 1 .. a + b /\ j - a \in 1 .. b
          BY <2>3, <2>4, <3>2
        <5> QED
          BY <2>3, <5>1, <5>2
      <4>1. new[j].source = sources[m]
        BY <2>1, <4>0
      <4>2. PICK k \in 1 .. m - 1 : t[i].source = sources[k]
        BY <4>0 DEF ReportInv
      <4>3. IsInjective(sources) => sources[k] # sources[m]
        <5>1. k \in DOMAIN sources /\ m \in DOMAIN sources /\ k # m
          BY <1>1, <4>2
        <5> QED
          BY <5>1 DEF IsInjective
      <4> QED
        BY <4>0, <4>1, <4>2, <4>3
    <3>3. CASE i \notin 1 .. a /\ j \notin 1 .. a
      <4>1. /\ i - a \in 1 .. b /\ j - a \in 1 .. b /\ i - a # j - a
            /\ new[i] = more[i - a] /\ new[j] = more[j - a]
        BY <2>3, <2>4, <2>14, <3>3
      <4> QED
        BY <2>1, <2>3, <4>1
    <3> QED
      BY <2>3, <2>14, <3>1, <3>2, <3>3
  <2> QED
    BY <2>10, <2>11, <2>12, <2>13, <2>14 DEF ReportInv, new
<1> QED
  BY <1>4, <1>5, <1>6

\* The report is right after the last turn.
LEMMA CascadeReports ==
    ASSUME NEW item, Fetched(item), NEW sources \in Seq(Sources)
    PROVE  ReportInv(item, sources, Cascade(item, sources), Len(sources))
<1> DEFINE n == Len(sources)
<1>1. PICK g \in [0 .. n -> Seq(ReportLine)] :
          /\ Cascade(item, sources) = g[n]
          /\ g[0] = <<>>
          /\ \A i \in 1 .. n : g[i] = Asking(item, g[i - 1], sources[i])
  BY CascadeRuns
<1>2. n \in Nat
  OBVIOUS
<1> DEFINE T == {i \in 0 .. n : ReportInv(item, sources, g[i], i)}
<1>3. 0 \in T
  <2>1. DOMAIN g[0] = {} /\ 0 \in 0 .. n /\ 1 .. 0 = {}
    BY <1>1, <1>2
  <2>2. ReportInv(item, sources, g[0], 0)
    BY <2>1 DEF ReportInv, Got
  <2> QED
    BY <2>1, <2>2
<1>4. ASSUME NEW m \in 0 .. n - 1, m \in T PROVE m + 1 \in T
  <2>1. m + 1 \in 1 .. n /\ (m + 1) - 1 = m /\ m + 1 \in 0 .. n /\ g[m] \in Seq(ReportLine)
    BY <1>2
  <2>2. g[m + 1] = Asking(item, g[m], sources[m + 1])
    BY <1>1, <2>1
  <2>3. ReportInv(item, sources, g[m], (m + 1) - 1)
    BY <1>4, <2>1
  <2>4. ReportInv(item, sources, g[m + 1], m + 1)
    BY <2>1, <2>2, <2>3, ReportStep
  <2> QED
    BY <2>1, <2>4
<1> HIDE DEF T
<1>5. \A m \in 0 .. n : m \in T
  BY <1>2, <1>3, <1>4, Induction
<1>6. ReportInv(item, sources, g[n], n)
  BY <1>2, <1>5 DEF T
<1> QED
  BY <1>1, <1>6

\* So the cascade takes the first PDF that is offered.
LEMMA CascadeTakesFirst ==
    ASSUME NEW item, Fetched(item), NEW sources \in Seq(Sources)
    PROVE  TakesFirstOffer(item, sources)
<1> DEFINE t == Cascade(item, sources)
           n == Len(sources)
           offers == Offers(item, sources)
           first == CHOOSE o \in offers : \A p \in offers : o.at <= p.at
           upTo == IF offers = {} THEN n ELSE first.at
<1>1. ReportInv(item, sources, t, n)
  BY CascadeReports
<1>2. n \in Nat /\ DOMAIN sources = 1 .. n
  OBVIOUS
<1>3. \A o \in offers : o.at \in 1 .. n /\ Offering(item, sources[o.at])
  BY DEF Offers, Offering
<1>4. ASSUME NEW k \in 1 .. n, Offering(item, sources[k]) PROVE \E o \in offers : o.at = k
  <2>1. PICK url \in item.pdfs : url \in ToSet(Urls(item, sources[k]))
    BY <1>4 DEF Offering
  <2>2. [at |-> k, url |-> url] \in offers
    BY <1>4, <2>1 DEF Offers, Offering
  <2> QED
    BY <2>2
<1> HIDE DEF offers, n, t
<1>5. offers # {} => first \in offers /\ \A p \in offers : first.at <= p.at
  <2>1. ASSUME offers # {} PROVE \E o \in offers : \A p \in offers : o.at <= p.at
    <3> DEFINE N == {o.at : o \in offers}
    <3>1. N \subseteq Nat /\ N # {}
      BY <1>2, <1>3, <2>1
    <3> HIDE DEF N
    <3>2. PICK k \in N : \A j \in N : k <= j
      BY <3>1, Least
    <3> QED
      BY <3>2 DEF N
  <2> QED
    BY <2>1
<1>6. offers # {} <=> \E k \in 1 .. n : Offering(item, sources[k])
  BY <1>3, <1>4
<1>7. upTo \in 0 .. n
  BY <1>2, <1>3, <1>5
<1>8. ASSUME NEW k \in 1 .. n PROVE Unoffered(item, sources, k) <=> k <= upTo
  <2>1. CASE offers = {}
    BY <1>2, <1>6, <2>1 DEF Unoffered
  <2>2. CASE offers # {}
    <3>1. ASSUME k <= upTo, NEW j \in 1 .. k - 1 PROVE ~Offering(item, sources[j])
      <4>1. j \in 1 .. n /\ ~ (upTo <= j)
        BY <1>2, <1>7, <3>1
      <4> QED
        BY <1>4, <1>5, <2>2, <4>1
    <3>2. ASSUME ~ (k <= upTo) PROVE ~Unoffered(item, sources, k)
      <4>1. first.at \in 1 .. k - 1 /\ Offering(item, sources[first.at])
        BY <1>2, <1>3, <1>5, <2>2, <3>2
      <4> QED
        BY <4>1 DEF Unoffered
    <3> QED
      BY <3>1, <3>2 DEF Unoffered
  <2> QED
    BY <2>1, <2>2
<1> HIDE DEF upTo
<1>9. Got(t) <=> offers # {}
  BY <1>1, <1>6 DEF ReportInv
<1>10. {t[i].source : i \in DOMAIN t} = {sources[i] : i \in 1 .. upTo} \ {"zotero"}
  <2>1. ASSUME NEW i \in DOMAIN t
        PROVE  t[i].source \in {sources[k] : k \in 1 .. upTo} \ {"zotero"}
    <3>1. PICK k \in 1 .. n : /\ t[i].source = sources[k] /\ sources[k] # "zotero"
                              /\ Unoffered(item, sources, k)
      BY <1>1 DEF ReportInv
    <3>2. k \in 1 .. upTo
      BY <1>2, <1>7, <1>8, <3>1
    <3> QED
      BY <3>1, <3>2
  <2>2. ASSUME NEW k \in 1 .. upTo, sources[k] # "zotero"
        PROVE  \E i \in DOMAIN t : t[i].source = sources[k]
    <3>1. k \in 1 .. n /\ k <= upTo
      BY <1>2, <1>7
    <3> QED
      BY <1>1, <1>8, <2>2, <3>1 DEF ReportInv
  <2> QED
    BY <2>1, <2>2
<1> QED
  BY <1>1, <1>9, <1>10 DEF TakesFirstOffer, ReportInv, t, n, offers, upTo

\* --sources names sources there are.
LEMMA SourcesAreParsed ==
    ASSUME NEW names \in Seq(STRING), ParseSources(names).ok
    PROVE  ParseSources(names).sources \in Seq(Sources)
<1>1. DefaultSources \in Seq(Sources)
  BY SourceNames DEF DefaultSources
<1>2. ASSUME ToSet(names) \subseteq Sources PROVE names \in Seq(Sources)
  <2>1. names \in [1 .. Len(names) -> STRING] /\ Len(names) \in Nat
    OBVIOUS
  <2>2. \A i \in 1 .. Len(names) : names[i] \in Sources
    BY <1>2, <2>1 DEF ToSet
  <2> QED
    BY <2>1, <2>2
<1> QED
  BY <1>1, <1>2 DEF ParseSources, Sources

\* The input of a decision is one of those it may be given.
Given ==
    /\ case.of = "pdf" => case.given \in PdfCases
    /\ case.of = "ranking" => case.given \in Rankings
    /\ case.of = "uploads" => case.given \in Uploads
    /\ case.of = "scan" => case.given \in Scans
    /\ case.of = "merge" => case.given \in Merges
    /\ case.of = "search" => case.given \in Searches

\* Nothing else is ever decided on.
LEMMA GivenAlways == DecisionSpec => []Given
<1>1. Free => Given
  BY DEF Free, Undecided, Given
<1>2. Given /\ [DecisionNext]_decisionVars => Given'
  <2> SUFFICES ASSUME Given, [DecisionNext]_decisionVars PROVE Given'
    OBVIOUS
  <2>1. ASSUME NEW what, NEW inputs, Decide(what, inputs),
               <<what, inputs>> \in {<<"pdf", PdfCases>>, <<"ranking", Rankings>>,
                                     <<"uploads", Uploads>>, <<"scan", Scans>>,
                                     <<"merge", Merges>>, <<"search", Searches>>}
        PROVE  Given'
    BY <2>1 DEF Decide, Given
  <2>2. CASE FetchPdf
    BY <2>1, <2>2 DEF FetchPdf
  <2>3. CASE Rank
    BY <2>1, <2>3 DEF Rank
  <2>4. CASE UploadAll
    BY <2>1, <2>4 DEF UploadAll
  <2>5. CASE Scan
    BY <2>1, <2>5 DEF Scan
  <2>6. CASE MergeItems
    BY <2>1, <2>6 DEF MergeItems
  <2>7. CASE Find
    BY <2>1, <2>7 DEF Find
  <2>8. CASE AskTarget \/ UNCHANGED decisionVars
    BY <2>8 DEF AskTarget, decisionVars, Given
  <2> QED
    BY <2>2, <2>3, <2>4, <2>5, <2>6, <2>7, <2>8 DEF DecisionNext
<1> QED
  BY <1>1, <1>2, PTL DEF DecisionSpec

\* Of every item and every list of sources, the cascade takes the first PDF a
\* source offers and reports every source it asked (pdf_fetch.rs:335-440).
THEOREM FirstPdfWinsHolds == DecisionSpec => []FirstPdfWins
<1>1. Given => FirstPdfWins
  <2> SUFFICES ASSUME Given, case.of = "pdf", ParseSources(case.given.names).ok
               PROVE  TakesFirstOffer(case.given.item, ParseSources(case.given.names).sources)
    BY DEF FirstPdfWins
  <2> DEFINE c == case.given
  <2>1. Fetched(c.item) /\ c.names \in Seq(STRING)
    BY PdfAssump DEF Given, Fetched
  <2> HIDE DEF c
  <2>2. ParseSources(c.names).sources \in Seq(Sources)
    BY <2>1, SourcesAreParsed DEF c
  <2> QED
    BY <2>1, <2>2, CascadeTakesFirst DEF c
<1> QED
  BY <1>1, GivenAlways, PTL
-----------------------------------------------------------------------------
(* The semantic ranking.                                                   *)

\* A printed score is a number.
LEMMA RoundType ==
    ASSUME NEW score \in Int
    PROVE  Round(score) \in Int
<1>1. Units \in Int /\ Units > 0
  BY RankingAssump
<1>2. Units \div 2 \in Int
  BY <1>1
<1> QED
  BY <1>1, <1>2 DEF Round

\* By printed score and then by key: rows that are not told apart are of one
\* item.
LEMMA RanksBeforeFacts ==
    /\ \A r \in Row : ~RanksBefore(r, r)
    /\ \A r, s, t \in Row : RanksBefore(r, s) /\ RanksBefore(s, t) => RanksBefore(r, t)
    /\ \A r, s, t \in Row : RanksBefore(r, t) => RanksBefore(r, s) \/ RanksBefore(s, t)
    /\ \A r, s \in Row : RanksBefore(r, s) \/ RanksBefore(s, r) \/ r.item = s.item
    /\ \A r, s \in Row : ~RanksBefore(s, r) => Round(s.score) <= Round(r.score)
    /\ \A r, s, t \in Row :
           /\ RanksBefore(r, s) /\ s.item = t.item /\ ~RanksBefore(t, s)
           => RanksBefore(r, t)
<1>1. \A r \in Row : Round(r.score) \in Int /\ r.item \in Int
  <2>1. \A r \in Row : r.score \in Int /\ r.item \in Int
    BY DEF Row
  <2> QED
    BY <2>1, RoundType
<1> QED
  BY <1>1 DEF RanksBefore

\* The list of the scored rows: sorted[n] is the position of the n-th.
LEMMA SortedFacts ==
    ASSUME NEW rows \in Seq(Row), NEW scored, scored \subseteq DOMAIN rows
    PROVE  LET sorted == Sorted(rows, scored)
               c == Cardinality(scored)
           IN  /\ c \in Nat /\ sorted \in [1 .. c -> scored]
               /\ \A n \in 1 .. c : rows[sorted[n]] \in Row
               /\ \A m, n \in 1 .. c : m < n => ~RanksBefore(rows[sorted[n]], rows[sorted[m]])
               /\ \A i \in scored : \E n \in 1 .. c : sorted[n] = i
<1> DEFINE earlier == {p \in scored \X scored : RanksBefore(rows[p[1]], rows[p[2]])}
           sorted == Sorted(rows, scored)
           c == Cardinality(scored)
<1>1. /\ scored \in SUBSET DOMAIN rows /\ DOMAIN rows = 1 .. Len(rows) /\ Len(rows) \in Nat
      /\ \A i \in scored : rows[i] \in Row
  OBVIOUS
<1>2. IsFiniteSet(scored) /\ scored \subseteq Int
  <2>1. IsFiniteSet(1 .. Len(rows))
    BY <1>1, FS_Interval
  <2> QED
    BY <1>1, <2>1, FS_Subset
<1>3. \A i, j \in scored : <<i, j>> \in earlier <=> RanksBefore(rows[i], rows[j])
  OBVIOUS
<1> HIDE DEF earlier
<1>4. IsWeakOrder(scored, earlier)
  BY <1>1, <1>3, RanksBeforeFacts DEF IsWeakOrder
<1>5. IsOrder(scored, Stable(scored, earlier))
  BY <1>2, <1>4, StableOrder
<1>6. sorted = InOrder(scored, Stable(scored, earlier))
  BY DEF Sorted, earlier
<1> HIDE DEF sorted
<1>7. /\ c \in Nat /\ sorted \in [1 .. c -> scored]
      /\ \A m, n \in 1 .. c : m < n => <<sorted[m], sorted[n]>> \in Stable(scored, earlier)
      /\ \A i \in scored : \E n \in 1 .. c : sorted[n] = i
  BY <1>2, <1>5, <1>6, Listing
<1> HIDE DEF c
<1>8. ASSUME NEW m \in 1 .. c, NEW n \in 1 .. c, m < n
      PROVE  ~RanksBefore(rows[sorted[n]], rows[sorted[m]])
  <2>1. sorted[m] \in scored /\ sorted[n] \in scored
    BY <1>7
  <2>2. <<sorted[m], sorted[n]>> \in Stable(scored, earlier)
    BY <1>7, <1>8
  <2>3. <<sorted[m], sorted[n]>> \in earlier \/ <<sorted[n], sorted[m]>> \notin earlier
    BY <2>2 DEF Stable
  <2>4. <<sorted[n], sorted[m]>> \notin earlier
    BY <1>4, <2>1, <2>3 DEF IsWeakOrder
  <2> QED
    BY <1>3, <2>1, <2>4
<1>9. \A n \in 1 .. c : rows[sorted[n]] \in Row
  BY <1>1, <1>7
<1> QED
  BY <1>7, <1>8, <1>9 DEF sorted, c

\* Of any rows and any threshold: what is sorted, taken once for each item and
\* cut is the best of each item.
LEMMA RankedIsBest ==
    ASSUME NEW rows \in Seq(Row), NEW loaded, loaded \subseteq DOMAIN rows,
           NEW minScore \in Int, NEW topK \in Int
    PROVE  BestPerItem(rows, loaded, Ranked(rows, loaded, minScore, topK), minScore, topK)
<1> DEFINE scored == Scored(rows, loaded, minScore)
           sorted == Sorted(rows, scored)
           c == Cardinality(scored)
           row(n) == rows[sorted[n]]
           firsts == {n \in DOMAIN sorted : \A m \in 1 .. n - 1 : row(m).item # row(n).item}
           d == Cardinality(firsts)
           best == At(sorted, firsts)
           answer == Ranked(rows, loaded, minScore, topK)
<1>1. /\ c \in Nat /\ sorted \in [1 .. c -> scored]
      /\ \A n \in 1 .. c : row(n) \in Row
      /\ \A m, n \in 1 .. c : m < n => ~RanksBefore(row(n), row(m))
      /\ \A i \in scored : \E n \in 1 .. c : sorted[n] = i
  <2>1. scored \subseteq DOMAIN rows
    BY DEF Scored
  <2> HIDE DEF scored
  <2> QED
    BY <2>1, SortedFacts
<1>2. answer = [n \in {i \in DOMAIN best : i = 1 \/ i <= topK} |-> rows[best[n]]]
  BY DEF Ranked, Best
<1> HIDE DEF scored, sorted, c, answer
<1>3. firsts \subseteq 1 .. c /\ IsFiniteSet(firsts) /\ firsts \subseteq Nat
  <2>1. firsts \in SUBSET (1 .. c)
    BY <1>1
  <2>2. IsFiniteSet(1 .. c)
    BY <1>1, FS_Interval
  <2> HIDE DEF firsts
  <2>3. IsFiniteSet(firsts)
    BY <2>1, <2>2, FS_Subset
  <2> QED
    BY <1>1, <2>1, <2>3
<1>4. \A m, n \in firsts : m < n => row(m).item # row(n).item
  BY <1>1
<1>5. ASSUME NEW n \in 1 .. c
      PROVE  \E f \in firsts : f <= n /\ row(f).item = row(n).item
  <2> DEFINE N == {m \in 1 .. n : row(m).item = row(n).item}
  <2>1. N \subseteq Nat /\ n \in N
    BY <1>1
  <2> HIDE DEF N
  <2>2. PICK f \in N : \A k \in N : f <= k
    BY <2>1, Least
  <2>3. f \in 1 .. n /\ row(f).item = row(n).item
    BY <2>2 DEF N
  <2>4. \A m \in 1 .. f - 1 : m \in 1 .. n /\ m \notin N
    BY <1>1, <2>2, <2>3
  <2>5. \A m \in 1 .. f - 1 : row(m).item # row(f).item
    BY <2>3, <2>4 DEF N
  <2>6. f \in DOMAIN sorted
    BY <1>1, <2>3
  <2> QED
    BY <2>3, <2>5, <2>6
<1> HIDE DEF firsts
<1>6. PICK at \in [1 .. d -> firsts] :
          /\ best = [n \in 1 .. d |-> sorted[at[n]]]
          /\ \A m, n \in 1 .. d : m < n => at[m] < at[n]
          /\ \A i \in firsts : \E n \in 1 .. d : at[n] = i
  <2>1. firsts \subseteq Nat /\ IsFiniteSet(firsts)
    BY <1>3
  <2>2. PICK at : Picks(sorted, firsts, at)
    BY <2>1, Picking
  <2> QED
    BY <2>2 DEF Picks
<1>7. d \in Nat
  BY <1>3, FS_CardinalityType
<1> HIDE DEF d, best
<1> DEFINE e == IF d = 0 \/ topK >= d THEN d ELSE IF topK > 1 THEN topK ELSE 1
<1>8. /\ e \in 0 .. d /\ {i \in DOMAIN best : i = 1 \/ i <= topK} = 1 .. e
      /\ e < topK => e = d
  <2>1. DOMAIN best = 1 .. d
    BY <1>6
  <2>2. e \in 0 .. d /\ (e < topK => e = d)
    BY <1>7
  <2>3. \A i \in 1 .. d : (i = 1 \/ i <= topK) <=> i <= e
    BY <1>7
  <2> HIDE DEF e, best
  <2>4. e \in 0 .. d /\ \A i \in 1 .. e : i \in 1 .. d
    BY <1>7, <2>2
  <2>5. \A i \in 1 .. d : i <= e => i \in 1 .. e
    BY <1>7, <2>4
  <2>6. \A i \in 1 .. e : i \in 1 .. d /\ i <= e
    BY <1>7, <2>4
  <2>7. {k \in 1 .. d : k = 1 \/ k <= topK} = 1 .. e
    BY <2>3, <2>5, <2>6
  <2> QED
    BY <2>1, <2>2, <2>7
<1> HIDE DEF e
<1> DEFINE own(n) == at[n]
<1>9. /\ \A n \in 1 .. d : own(n) \in 1 .. c /\ own(n) \in firsts
      /\ \A m, n \in 1 .. d : m < n => own(m) < own(n)
      /\ \A i \in firsts : \E n \in 1 .. d : own(n) = i
  BY <1>3, <1>6
<1>10. \A n \in 1 .. d : best[n] = sorted[own(n)]
  BY <1>6
<1> HIDE DEF own
<1>11. /\ answer \in Seq(Row) /\ Len(answer) = e /\ DOMAIN answer = 1 .. e
       /\ \A n \in 1 .. e : answer[n] = row(own(n))
  <2>1. answer = [n \in 1 .. e |-> rows[best[n]]]
    BY <1>2, <1>8
  <2>2. \A n \in 1 .. e : n \in 1 .. d
    BY <1>7, <1>8
  <2>3. \A n \in 1 .. e : answer[n] = row(own(n)) /\ row(own(n)) \in Row
    BY <1>1, <1>9, <1>10, <2>1, <2>2
  <2>4. e \in Nat
    BY <1>7, <1>8
  <2> HIDE DEF row
  <2>5. answer \in [1 .. e -> Row]
    BY <2>1, <2>3
  <2>6. answer \in Seq(Row)
    BY <2>4, <2>5
  <2> QED
    BY <2>1, <2>3, <2>4, <2>6
<1> HIDE DEF row
<1> DEFINE eligible == {rows[i] : i \in scored}
           named == {answer[i].item : i \in DOMAIN answer}
<1>12. \A r \in eligible : r \in Row /\ \E n \in 1 .. c : row(n) = r
  BY <1>1 DEF row
<1>13. \A n \in 1 .. c : row(n) \in eligible
  BY <1>1 DEF row
<1>14. \A n \in 1 .. e : n \in 1 .. d
  BY <1>7, <1>8
<1>15. \A m, n \in 1 .. d : m < n => row(own(m)).item # row(own(n)).item
  BY <1>4, <1>9
<1>16. \A n \in 1 .. c : \E k \in 1 .. d : own(k) <= n /\ row(own(k)).item = row(n).item
  BY <1>5, <1>9
<1>17. \A m, n \in 1 .. c : m <= n => ~RanksBefore(row(n), row(m))
  <2>1. \A n \in 1 .. c : ~RanksBefore(row(n), row(n))
    BY <1>1, RanksBeforeFacts
  <2>2. \A m, n \in 1 .. c : m <= n => m < n \/ m = n
    BY <1>1
  <2> QED
    BY <1>1, <2>1, <2>2
<1>18. \A m, n \in 1 .. d : m < n => RanksBefore(row(own(m)), row(own(n)))
  <2> SUFFICES ASSUME NEW m \in 1 .. d, NEW n \in 1 .. d, m < n
               PROVE  RanksBefore(row(own(m)), row(own(n)))
    OBVIOUS
  <2>1. own(m) \in 1 .. c /\ own(n) \in 1 .. c /\ own(m) < own(n)
    BY <1>9
  <2>2. ~RanksBefore(row(own(n)), row(own(m))) /\ row(own(m)).item # row(own(n)).item
    BY <1>1, <1>15, <2>1
  <2> QED
    BY <1>1, <2>1, <2>2, RanksBeforeFacts
<1> HIDE DEF eligible
<1>19. ToSet(answer) \subseteq eligible
  <2>1. \A n \in 1 .. e : answer[n] \in eligible
    BY <1>9, <1>11, <1>13, <1>14
  <2> QED
    BY <1>11, <2>1 DEF ToSet
<1>20. named = {row(own(n)).item : n \in 1 .. e}
  BY <1>11
<1> HIDE DEF named
<1>21. Cardinality(named) = Len(answer)
  <2> DEFINE f == [n \in 1 .. e |-> row(own(n)).item]
  <2>1. f \in [1 .. e -> named] /\ \A x \in named : \E n \in 1 .. e : f[n] = x
    BY <1>20
  <2>2. \A m, n \in 1 .. e : m # n => f[m] # f[n]
    <3> SUFFICES ASSUME NEW m \in 1 .. e, NEW n \in 1 .. e, m # n
                 PROVE  f[m] # f[n]
      OBVIOUS
    <3>1. m < n \/ n < m
      BY <1>7, <1>8
    <3> QED
      BY <1>14, <1>15, <3>1
  <2>3. e \in Nat
    BY <1>7, <1>8
  <2> HIDE DEF f
  <2>4. Cardinality(named) = e
    BY <2>1, <2>2, <2>3, CountedOnce
  <2> QED
    BY <1>11, <2>4
<1>22. \A i, j \in DOMAIN answer : i < j => RanksBefore(answer[i], answer[j])
  BY <1>11, <1>14, <1>18
<1>23. ASSUME NEW i \in DOMAIN answer, NEW r \in eligible, r.item = answer[i].item
       PROVE  Round(r.score) <= Round(answer[i].score)
  <2>1. i \in 1 .. d /\ answer[i] = row(own(i)) /\ own(i) \in 1 .. c
    BY <1>9, <1>11, <1>14
  <2>2. PICK n \in 1 .. c : row(n) = r
    BY <1>12
  <2>3. PICK k \in 1 .. d : own(k) <= n /\ row(own(k)).item = row(n).item
    BY <1>16
  <2>4. k = i
    <3>1. row(own(k)).item = row(own(i)).item
      BY <1>23, <2>1, <2>2, <2>3
    <3>2. ~ (k < i) /\ ~ (i < k)
      BY <1>15, <2>1, <2>3, <3>1
    <3> QED
      BY <1>7, <2>1, <2>3, <3>2
  <2>5. ~RanksBefore(r, answer[i])
    BY <1>17, <2>1, <2>2, <2>3, <2>4
  <2> QED
    BY <1>1, <1>12, <2>1, <2>5, RanksBeforeFacts
<1>24. ASSUME NEW r \in eligible
       PROVE  \E k \in 1 .. d : /\ row(own(k)).item = r.item
                                /\ ~RanksBefore(r, row(own(k)))
  BY <1>9, <1>12, <1>16, <1>17
<1>25. \A k \in 1 .. e : row(own(k)).item \in named
  BY <1>20
<1>26. ASSUME NEW i \in DOMAIN answer, NEW r \in eligible, r.item \notin named
       PROVE  RanksBefore(answer[i], r)
  <2>1. PICK k \in 1 .. d : row(own(k)).item = r.item /\ ~RanksBefore(r, row(own(k)))
    BY <1>24
  <2>2. k \notin 1 .. e
    BY <1>25, <1>26, <2>1
  <2>3. i \in 1 .. e /\ i \in 1 .. d /\ i < k
    BY <1>7, <1>8, <1>11, <1>14, <2>2
  <2>4. RanksBefore(row(own(i)), row(own(k)))
    BY <1>18, <2>1, <2>3
  <2>5. row(own(i)) \in Row /\ row(own(k)) \in Row /\ r \in Row /\ answer[i] = row(own(i))
    BY <1>1, <1>9, <1>11, <1>12, <2>1, <2>3 DEF row
  <2> QED
    BY <2>1, <2>4, <2>5, RanksBeforeFacts
<1>27. ASSUME Len(answer) < topK
       PROVE  named = {r.item : r \in eligible}
  <2>1. e = d
    BY <1>8, <1>11, <1>27
  <2>2. \A r \in eligible : r.item \in named
    BY <1>24, <1>25, <2>1
  <2>3. \A n \in 1 .. e : row(own(n)) \in eligible
    BY <1>9, <1>13, <1>14
  <2> QED
    BY <1>20, <2>2, <2>3
<1> QED
  <2> HIDE DEF named, answer
  <2>1. /\ ToSet(answer) \subseteq eligible
        /\ Cardinality(named) = Len(answer)
        /\ \A i, j \in DOMAIN answer : i < j => RanksBefore(answer[i], answer[j])
        /\ \A i \in DOMAIN answer : \A r \in eligible :
                r.item = answer[i].item => Round(r.score) <= Round(answer[i].score)
        /\ \A i \in DOMAIN answer : \A r \in eligible :
                r.item \notin named => RanksBefore(answer[i], r)
        /\ Len(answer) < topK => named = {r.item : r \in eligible}
    BY <1>19, <1>21, <1>22, <1>23, <1>26, <1>27
  <2> QED
    BY <2>1 DEF BestPerItem, answer, named, eligible, scored
-----------------------------------------------------------------------------
(* The searches by words.                                                  *)

\* A list cut at a limit is a part of it, all of it if it is not longer.
LEMMA CutFacts ==
    ASSUME NEW X, NEW s \in Seq(X), NEW limit \in Nat
    PROVE  /\ Cut(s, limit) \in Seq(X) /\ ToSet(Cut(s, limit)) \subseteq ToSet(s)
           /\ Len(Cut(s, limit)) <= limit
           /\ Len(s) <= limit => Cut(s, limit) = s
<1>1. CASE limit < Len(s)
  <2>1. Cut(s, limit) = SubSeq(s, 1, limit)
    BY <1>1 DEF Cut
  <2>2. /\ SubSeq(s, 1, limit) \in Seq(X) /\ Len(SubSeq(s, 1, limit)) = limit
        /\ \A i \in 1 .. limit : SubSeq(s, 1, limit)[i] = s[i] /\ i \in DOMAIN s
    BY <1>1
  <2> QED
    BY <1>1, <2>1, <2>2 DEF ToSet
<1>2. CASE ~ (limit < Len(s))
  BY <1>2 DEF Cut
<1> QED
  BY <1>1, <1>2

\* What is known of the items of a world that is searched.
Searchable(items) ==
    /\ IsFiniteSet(items)
    /\ \A i \in items : i.id \in Nat /\ i.rank \in Nat
    /\ \A i, j \in items : i.id = j.id => i = j

\* An ordered list of items has each of them once.
LEMMA ListedOnce ==
    ASSUME NEW items, IsFiniteSet(items), NEW less, IsOrder(items, less)
    PROVE  /\ InOrder(items, less) \in Seq(items)
           /\ ToSet(InOrder(items, less)) = items
           /\ Len(InOrder(items, less)) = Cardinality(items)
<1> DEFINE l == InOrder(items, less)
           c == Cardinality(items)
<1>1. /\ c \in Nat /\ l \in [1 .. c -> items]
      /\ \A x \in items : \E n \in 1 .. c : l[n] = x
  BY Listing
<1> HIDE DEF l, c
<1>2. l \in Seq(items) /\ Len(l) = c /\ DOMAIN l = 1 .. c
  BY <1>1
<1>3. ToSet(l) = items
  BY <1>1, <1>2 DEF ToSet
<1> QED
  BY <1>2, <1>3 DEF l, c

Fewer(m, n) == IF m < n THEN m ELSE n

\* T is a part of S: as many of its elements as there may be.
Part(T, S, n) ==
    /\ IsFiniteSet(S) /\ IsFiniteSet(T) /\ T \subseteq S
    /\ Cardinality(T) = Fewer(n, Cardinality(S))

\* What is left of an ordered list that is cut.
LEMMA CutCounts ==
    ASSUME NEW S, IsFiniteSet(S), NEW less, IsOrder(S, less), NEW n \in Nat
    PROVE  LET list == Cut(InOrder(S, less), n)
           IN  Part(ToSet(list), S, n) /\ Len(list) = Fewer(n, Cardinality(S))
<1> DEFINE l == InOrder(S, less)
           c == Cardinality(S)
           list == Cut(l, n)
           m == Fewer(n, c)
<1>1. /\ c \in Nat /\ l \in [1 .. c -> S]
      /\ \A i, j \in 1 .. c : i < j => <<l[i], l[j]>> \in less
  BY Listing
<1>2. l \in Seq(S) /\ Len(l) = c
  <2> HIDE DEF l, c
  <2> QED
    BY <1>1
<1> HIDE DEF l, c
<1>3. m \in Nat /\ m <= c /\ m <= n
  BY <1>1 DEF Fewer
<1>4. list \in Seq(S) /\ Len(list) = m /\ \A i \in 1 .. m : list[i] = l[i]
  <2>1. CASE n < Len(l)
    <3>1. list = SubSeq(l, 1, n) /\ m = n
      BY <1>2, <2>1 DEF Cut, Fewer
    <3> HIDE DEF list, m
    <3> QED
      BY <1>2, <2>1, <3>1
  <2>2. CASE ~ (n < Len(l))
    <3>1. list = l /\ m = c
      BY <1>1, <1>2, <2>2 DEF Cut, Fewer
    <3> HIDE DEF list, m
    <3> QED
      BY <1>2, <3>1
  <2> QED
    BY <2>1, <2>2
<1> HIDE DEF list, m
<1> DEFINE T == ToSet(list)
           f == [i \in 1 .. m |-> l[i]]
<1>5. T = {f[i] : i \in 1 .. m}
  BY <1>3, <1>4 DEF ToSet
<1>6. T \subseteq S
  BY <1>1, <1>3, <1>5
<1>7. \A i, j \in 1 .. m : f[i] = f[j] => i = j
  <2> SUFFICES ASSUME NEW i \in 1 .. m, NEW j \in 1 .. m, i < j
               PROVE  l[i] # l[j]
    BY <1>3
  <2>1. <<l[i], l[j]>> \in less /\ l[i] \in S
    BY <1>1, <1>3
  <2> QED
    BY <2>1 DEF IsOrder
<1> HIDE DEF T
<1>8. f \in Bijection(1 .. m, T)
  <2>1. f \in [1 .. m -> T] /\ \A t \in T : \E i \in 1 .. m : f[i] = t
    BY <1>5
  <2> HIDE DEF f
  <2> QED
    BY <1>7, <2>1 DEF Bijection, Injection, Surjection, IsInjective
<1>9. IsFiniteSet(1 .. m) /\ Cardinality(1 .. m) = m
  BY <1>3, FS_Interval
<1>10. IsFiniteSet(T) /\ Cardinality(T) = m
  <2>1. ExistsBijection(1 .. m, T)
    BY <1>8 DEF ExistsBijection
  <2> QED
    BY <1>9, <2>1, FS_Bijection
<1> QED
  BY <1>4, <1>6, <1>10 DEF Part, T, list, m, c, l

\* Relevance orders items.
LEMMA PrecedesOrders ==
    ASSUME NEW world, Searchable(world.items), NEW items, items \subseteq world.items
    PROVE  IsOrder(items, {p \in items \X items : Precedes(p[1], p[2])})
<1> DEFINE less == {p \in items \X items : Precedes(p[1], p[2])}
<1>2. \A i, j \in items : <<i, j>> \in less <=> Precedes(i, j)
  OBVIOUS
<1>3. \A i, j \in items : /\ i.id \in Nat /\ i.rank \in Nat
                          /\ i.id = j.id => i = j
  BY DEF Searchable
<1> HIDE DEF less
<1>4. IsOrder(items, less)
  <2>1. \A x \in items : <<x, x>> \notin less
    BY <1>2, <1>3 DEF Precedes
  <2>2. \A x, y, z \in items : <<x, y>> \in less /\ <<y, z>> \in less => <<x, z>> \in less
    BY <1>2, <1>3 DEF Precedes
  <2>3. ASSUME NEW x \in items, NEW y \in items, x # y
        PROVE  <<x, y>> \in less \/ <<y, x>> \in less
    <3>1. x.id \in Nat /\ y.id \in Nat /\ x.rank \in Nat /\ y.rank \in Nat /\ x.id # y.id
      BY <1>3, <2>3
    <3>2. Precedes(x, y) \/ Precedes(y, x)
      BY <3>1 DEF Precedes
    <3> QED
      BY <1>2, <3>2
  <2> QED
    BY <2>1, <2>2, <2>3 DEF IsOrder
<1> QED
  BY <1>4 DEF less

\* The items of a set, ordered, are a list of them, each once.
LEMMA OrderedFacts ==
    ASSUME NEW world, Searchable(world.items), NEW items, items \subseteq world.items
    PROVE  /\ IsFiniteSet(items) /\ Cardinality(items) \in Nat
           /\ Cardinality(items) <= Cardinality(world.items)
           /\ Ordered(items) \in Seq(items) /\ ToSet(Ordered(items)) = items
           /\ Len(Ordered(items)) = Cardinality(items)
<1>1. /\ IsFiniteSet(items) /\ Cardinality(items) \in Nat
      /\ Cardinality(items) <= Cardinality(world.items)
  <2>1. IsFiniteSet(world.items) /\ items \in SUBSET world.items
    BY DEF Searchable
  <2>2. IsFiniteSet(items) /\ Cardinality(items) <= Cardinality(world.items)
    BY <2>1, FS_Subset
  <2> QED
    BY <2>2, FS_CardinalityType
<1> DEFINE less == {p \in items \X items : Precedes(p[1], p[2])}
<1>4. IsOrder(items, less)
  BY PrecedesOrders
<1> HIDE DEF less
<1>5. Ordered(items) = InOrder(items, less)
  BY DEF Ordered, less
<1> QED
  BY <1>1, <1>4, <1>5, ListedOnce

LEMMA OrderedCounts ==
    ASSUME NEW world, Searchable(world.items), NEW items, items \subseteq world.items,
           NEW n \in Nat
    PROVE  LET list == Cut(Ordered(items), n)
           IN  Part(ToSet(list), items, n) /\ Len(list) = Fewer(n, Cardinality(items))
<1> DEFINE less == {p \in items \X items : Precedes(p[1], p[2])}
<1>1. IsOrder(items, less) /\ IsFiniteSet(items)
  BY PrecedesOrders, OrderedFacts
<1>2. Ordered(items) = InOrder(items, less)
  BY DEF Ordered
<1> HIDE DEF less
<1> QED
  BY <1>1, <1>2, CutCounts

TitleHits(world, libraries, collection, exact) ==
    {i \in Within(world, libraries, collection) : IF exact THEN i.rank = 0 ELSE i.rank # NoMatch}

\* A search by title lists items whose title matches, and no more than asked.
LEMMA ByTitleFacts ==
    ASSUME NEW world, Searchable(world.items), NEW libraries, NEW collection,
           NEW limit \in Int, NEW exact
    PROVE  LET list == ByTitle(world, libraries, collection, limit, exact)
               hits == TitleHits(world, libraries, collection, exact)
           IN  /\ list \in Seq(hits) /\ ToSet(list) \subseteq hits
               /\ \A i \in hits : i.rank # NoMatch
               /\ limit >= 0 =>
                      /\ Len(list) <= limit /\ Part(ToSet(list), hits, limit)
                      /\ Len(list) = Fewer(limit, Cardinality(hits))
<1> DEFINE hits == TitleHits(world, libraries, collection, exact)
           list == ByTitle(world, libraries, collection, limit, exact)
<1>1. hits \subseteq world.items /\ \A i \in hits : i.rank # NoMatch
  BY DEF Within, NoMatch, TitleHits
<1>2. list = IF limit < 0 THEN Ordered(hits) ELSE Cut(Ordered(hits), limit)
  BY DEF ByTitle, TitleHits
<1> HIDE DEF hits, list
<1>3. Ordered(hits) \in Seq(hits) /\ ToSet(Ordered(hits)) = hits
  BY <1>1, OrderedFacts
<1>4. list \in Seq(hits) /\ ToSet(list) \subseteq hits /\ (limit >= 0 => Len(list) <= limit)
  <2>1. CASE limit < 0
    BY <1>2, <1>3, <2>1
  <2>2. CASE limit >= 0
    <3>1. limit \in Nat /\ list = Cut(Ordered(hits), limit)
      BY <1>2, <2>2
    <3> QED
      BY <1>3, <3>1, CutFacts
  <2> QED
    BY <2>1, <2>2
<1>5. limit >= 0 => /\ Part(ToSet(list), hits, limit)
                    /\ Len(list) = Fewer(limit, Cardinality(hits))
  <2> SUFFICES ASSUME limit >= 0
               PROVE  /\ Part(ToSet(list), hits, limit)
                      /\ Len(list) = Fewer(limit, Cardinality(hits))
    OBVIOUS
  <2>1. limit \in Nat /\ list = Cut(Ordered(hits), limit)
    BY <1>2
  <2> QED
    BY <1>1, <2>1, OrderedCounts
<1> QED
  BY <1>1, <1>4, <1>5 DEF hits, list

\* The quick search's answer; all of it when the limit holds all.
LEMMA QuickFacts ==
    ASSUME NEW world, Searchable(world.items), NEW library, NEW collection, NEW limit \in Int
    PROVE  LET list == ByQuickSearch(world, library, collection, limit)
               hits == QuickHits(world, {library}, collection)
           IN  /\ list \in Seq(hits) /\ ToSet(list) \subseteq hits
               /\ limit >= 0 => Len(list) <= limit /\ Part(ToSet(list), hits, limit)
<1> DEFINE hits == QuickHits(world, {library}, collection)
           less == {p \in hits \X hits : p[1].id > p[2].id}
           list == ByQuickSearch(world, library, collection, limit)
           n == IF limit < 0 THEN AtLeastNone(Cardinality(hits) + limit) ELSE limit
<1>1. hits \subseteq world.items
  BY DEF QuickHits, Within
<1>2. list = Cut(InOrder(hits, less), n)
  BY DEF ByQuickSearch
<1> HIDE DEF hits
<1>3. IsFiniteSet(hits) /\ Cardinality(hits) \in Nat
  BY <1>1, OrderedFacts
<1>4. n \in Nat /\ (limit >= 0 => n = limit)
  BY <1>3 DEF AtLeastNone
<1> HIDE DEF n
<1>5. \A i, j \in hits : <<i, j>> \in less <=> i.id > j.id
  OBVIOUS
<1> HIDE DEF list, less
<1>6. \A i, j \in hits : i.id \in Nat /\ (i.id = j.id => i = j)
  BY <1>1 DEF Searchable
<1>7. IsOrder(hits, less)
  BY <1>5, <1>6 DEF IsOrder
<1>8. /\ InOrder(hits, less) \in Seq(hits) /\ ToSet(InOrder(hits, less)) = hits
  BY <1>3, <1>7, ListedOnce
<1>9. list \in Seq(hits) /\ ToSet(list) \subseteq hits /\ Len(list) <= n
  BY <1>2, <1>4, <1>8, CutFacts
<1>10. Part(ToSet(list), hits, n)
  BY <1>2, <1>3, <1>4, <1>7, CutCounts
<1> QED
  BY <1>4, <1>9, <1>10 DEF hits, list

\* So does a search of one library, by title or by the quick search.
LEMMA InOneFacts ==
    ASSUME NEW world, Searchable(world.items), NEW library, NEW collection, NEW request,
           request.limit \in Int
    PROVE  LET list == InOne(world, library, collection, request)
               hits == {i \in Within(world, {library}, collection) :
                            i.quick \/ i.rank # NoMatch}
           IN  /\ list \in Seq(hits) /\ ToSet(list) \subseteq hits
               /\ request.limit >= 0 => Len(list) <= request.limit
<1> DEFINE list == InOne(world, library, collection, request)
           hits == {i \in Within(world, {library}, collection) : i.quick \/ i.rank # NoMatch}
           quick == ByQuickSearch(world, library, collection, request.limit)
           quickHits == QuickHits(world, {library}, collection)
           title == ByTitle(world, {library}, collection, request.limit, request.exact)
           titleHits == TitleHits(world, {library}, collection, request.exact)
<1>1. list \in {quick, title}
  BY DEF InOne
<1>2. quickHits \subseteq hits
  BY DEF QuickHits
<1>3. /\ quick \in Seq(quickHits) /\ ToSet(quick) \subseteq quickHits
      /\ request.limit >= 0 => Len(quick) <= request.limit
  <2> HIDE DEF quick, quickHits
  <2> QED
    BY QuickFacts DEF quick, quickHits
<1>4. /\ title \in Seq(titleHits) /\ ToSet(title) \subseteq titleHits
      /\ \A i \in titleHits : i.rank # NoMatch
      /\ request.limit >= 0 => Len(title) <= request.limit
  <2> HIDE DEF title, titleHits
  <2> QED
    BY ByTitleFacts DEF title, titleHits
<1>5. titleHits \subseteq hits
  BY <1>4 DEF TitleHits
<1> HIDE DEF list, hits, quick, quickHits, title, titleHits
<1>6. quick \in Seq(hits) /\ title \in Seq(hits)
  BY <1>2, <1>3, <1>4, <1>5
<1> QED
  BY <1>1, <1>2, <1>3, <1>4, <1>5, <1>6 DEF list, hits

\* A world that is searched, with the request.
Searched(world, request) ==
    /\ world \in SearchWorld /\ request \in SearchRequest /\ request.limit \in Int
    /\ Searchable(world.items)
    /\ \A l, k \in world.libraries : l.id = k.id => l = k
    /\ \A i \in world.items :
           /\ i.collection \in request.collection => i.library = i.collection
           /\ i.rank # NoMatch => i.quick

\* The libraries it asks about.
AskedAbout(world, request) ==
    IF request.all THEN Eligible(world, request.feeds)
    ELSE IF request.collection # {} THEN request.collection
    ELSE IF request.library # {} THEN request.library ELSE {UserLibrary}

\* The items an answer may show.
InScope(world, request) ==
    {i \in world.items : i.library \in AskedAbout(world, request) /\ (i.quick \/ i.rank # NoMatch)}

Scoped(world, request, list) ==
    /\ list \in Seq(InScope(world, request))
    /\ ToSet(list) \subseteq InScope(world, request)
    /\ request.limit >= 0 => Len(list) <= request.limit

\* A list of hits in scope, no longer than asked, is an answer in scope.
LEMMA ScopedBy ==
    ASSUME NEW world, NEW request, NEW hits, hits \subseteq InScope(world, request),
           NEW list \in Seq(hits), ToSet(list) \subseteq hits,
           request.limit >= 0 => Len(list) <= request.limit
    PROVE  Scoped(world, request, list)
<1>1. list \in Seq(InScope(world, request))
  <2> DEFINE scope == InScope(world, request)
  <2>1. hits \subseteq scope
    OBVIOUS
  <2> HIDE DEF scope
  <2>2. list \in Seq(scope)
    BY <2>1
  <2> QED
    BY <2>2 DEF scope
<1> QED
  BY <1>1 DEF Scoped

\* The libraries' own answers, merged and cut, are in scope ...
LEMMA InAllFacts ==
    ASSUME NEW world, NEW request, Searched(world, request), request.all
    PROVE  Scoped(world, request, InAll(world, request))
<1> DEFINE eligible == Eligible(world, request.feeds)
           each == UNION {ToSet(InOne(world, l, {}, request)) : l \in eligible \ Feeds(world)}
           rest == ToSet(ByTitle(world, eligible \cap Feeds(world), {}, request.limit, FALSE))
           list == InAll(world, request)
           scope == InScope(world, request)
<1>1. AskedAbout(world, request) = eligible
  BY DEF AskedAbout
<1>2. \A i : i \in scope <=> /\ i \in world.items /\ i.library \in eligible
                             /\ i.quick \/ i.rank # NoMatch
  BY <1>1 DEF InScope
<1>3. Searchable(world.items) /\ request.limit \in Int
  BY DEF Searched
<1> HIDE DEF eligible, scope, list
<1> DEFINE titles == \/ request.exact \/ request.scope = "titleCreatorYear"
                     \/ ~world.api \/ (eligible \ Feeds(world)) \cap world.failing # {}
<1>4. CASE titles
  <2> DEFINE hits == TitleHits(world, eligible, {}, request.exact)
  <2>1. list = ByTitle(world, eligible, {}, request.limit, request.exact)
    BY <1>4 DEF InAll, list, eligible
  <2>2. /\ list \in Seq(hits) /\ ToSet(list) \subseteq hits
        /\ \A i \in hits : i.rank # NoMatch
        /\ request.limit >= 0 => Len(list) <= request.limit
    <3> HIDE DEF hits
    <3> QED
      BY <1>3, <2>1, ByTitleFacts DEF hits
  <2>3. hits \subseteq scope
    BY <1>2, <2>2 DEF Within, TitleHits
  <2> HIDE DEF hits
  <2> QED
    BY <2>2, <2>3, ScopedBy DEF scope, list
<1>5. CASE ~titles
  <2> DEFINE n == AtLeastNone(request.limit)
  <2>1. list = Cut(Ordered(each \cup rest), n)
    BY <1>5 DEF InAll, list, eligible
  <2>2. each \subseteq scope
    <3> SUFFICES ASSUME NEW l \in eligible \ Feeds(world)
                 PROVE  ToSet(InOne(world, l, {}, request)) \subseteq scope
      OBVIOUS
    <3> DEFINE hits == {i \in Within(world, {l}, {}) : i.quick \/ i.rank # NoMatch}
    <3>1. hits \subseteq scope
      BY <1>2 DEF Within
    <3>2. ToSet(InOne(world, l, {}, request)) \subseteq hits
      <4> HIDE DEF hits
      <4> QED
        BY <1>3, InOneFacts DEF hits
    <3> QED
      BY <3>1, <3>2
  <2>3. rest \subseteq scope
    <3> DEFINE feeds == eligible \cap Feeds(world)
               hits == TitleHits(world, feeds, {}, FALSE)
    <3>1. hits \subseteq scope
      BY <1>2 DEF Within, TitleHits
    <3>2. rest \subseteq hits
      <4> HIDE DEF hits, feeds
      <4>1. ToSet(ByTitle(world, feeds, {}, request.limit, FALSE)) \subseteq hits
        BY <1>3, ByTitleFacts DEF hits
      <4> QED
        BY <4>1 DEF feeds
    <3> QED
      BY <3>1, <3>2
  <2>4. n \in Nat /\ (request.limit >= 0 => n = request.limit)
    BY <1>3 DEF AtLeastNone
  <2> HIDE DEF n, each, rest
  <2> DEFINE found == each \cup rest
  <2>5. found \subseteq scope /\ found \subseteq world.items
    BY <1>2, <2>2, <2>3
  <2>6. list = Cut(Ordered(found), n)
    BY <2>1
  <2> HIDE DEF found
  <2>7. Ordered(found) \in Seq(found) /\ ToSet(Ordered(found)) = found
    BY <1>3, <2>5, OrderedFacts
  <2>8. /\ list \in Seq(found) /\ ToSet(list) \subseteq found /\ Len(list) <= n
    BY <2>4, <2>6, <2>7, CutFacts
  <2>9. request.limit >= 0 => Len(list) <= request.limit
    BY <2>4, <2>8
  <2> QED
    BY <2>5, <2>8, <2>9, ScopedBy DEF scope, list
<1> QED
  BY <1>4, <1>5 DEF list

\* ... and so is what the Bridge answers.
LEMMA BridgeFacts ==
    ASSUME NEW world, NEW request, Searched(world, request), NEW libraries, NEW collection,
           \A i \in Within(world, libraries, collection) : i.library \in AskedAbout(world, request)
    PROVE  LET answer == ByBridge(world, libraries, collection, request.limit)
           IN  answer.ok /\ Scoped(world, request, answer.items)
<1> DEFINE hits == QuickHits(world, libraries, collection)
           n == AtLeastNone(request.limit)
           list == Cut(Ordered(hits), n)
<1>1. /\ ByBridge(world, libraries, collection, request.limit).ok
      /\ ByBridge(world, libraries, collection, request.limit).items = list
  BY DEF ByBridge, Answer
<1>2. hits \subseteq world.items /\ hits \subseteq InScope(world, request)
  BY DEF QuickHits, Within, InScope
<1>3. n \in Nat /\ (request.limit >= 0 => n = request.limit)
  BY DEF AtLeastNone, Searched
<1> HIDE DEF hits, n
<1>4. Ordered(hits) \in Seq(hits) /\ ToSet(Ordered(hits)) = hits
  BY <1>2, OrderedFacts DEF Searched
<1>5. list \in Seq(hits) /\ ToSet(list) \subseteq hits /\ Len(list) <= n
  BY <1>3, <1>4, CutFacts
<1>6. request.limit >= 0 => Len(list) <= request.limit
  <2> HIDE DEF list
  <2> QED
    BY <1>3, <1>5
<1> HIDE DEF list
<1>7. Scoped(world, request, list)
  BY <1>2, <1>5, <1>6, ScopedBy
<1> QED
  BY <1>1, <1>7

\* Whichever source answers, the answer is in scope.
LEMMA ScopeIsKept ==
    ASSUME NEW world, NEW request, Searched(world, request)
    PROVE  AnswersStayInScope(world, request)
<1> DEFINE answer == FindItems(world, request)
           asked == AskedAbout(world, request)
<1>1. ASSUME answer.ok
      PROVE  Scoped(world, request, answer.items)
  <2>1. \A why : NoAnswer(why).ok = FALSE
    BY DEF NoAnswer
  <2>2. \A items, source : Answer(items, source).items = items
    BY DEF Answer
  <2>3. ~ (request.all /\ request.collection # {})
    BY <1>1, <2>1 DEF FindItems
  <2>4. CASE ~world.locked
    <3>1. answer = Offline(world, request)
      BY <2>3, <2>4 DEF FindItems
    <3>2. CASE request.all
      <4>1. answer.items = InAll(world, request)
        BY <2>2, <3>1, <3>2 DEF Offline
      <4> QED
        BY <3>2, <4>1, InAllFacts
    <3>3. CASE ~request.all
      <4> DEFINE library == IF request.collection # {} THEN request.collection
                            ELSE IF request.library # {} THEN request.library ELSE {UserLibrary}
                 l == CHOOSE x \in library : TRUE
                 list == InOne(world, l, request.collection, request)
                 hits == {i \in Within(world, {l}, request.collection) :
                              i.quick \/ i.rank # NoMatch}
      <4>1. answer.items = list
        BY <1>1, <2>1, <2>2, <3>1, <3>3 DEF Offline
      <4>2. library = asked /\ library # {}
        BY <3>3 DEF AskedAbout
      <4>3. l \in asked
        BY <4>2
      <4> HIDE DEF library, l, asked
      <4>4. hits \subseteq InScope(world, request)
        BY <4>3 DEF InScope, Within, asked
      <4>5. /\ list \in Seq(hits) /\ ToSet(list) \subseteq hits
            /\ request.limit >= 0 => Len(list) <= request.limit
        <5>1. Searchable(world.items) /\ request.limit \in Int
          BY DEF Searched
        <5> HIDE DEF list, hits
        <5> QED
          BY <5>1, InOneFacts DEF list, hits
      <4> HIDE DEF list, hits
      <4> QED
        BY <4>1, <4>4, <4>5, ScopedBy
    <3> QED
      BY <3>2, <3>3
  <2>5. CASE world.locked
    <3>1. answer = Live(world, request) /\ world.bridge
      BY <1>1, <2>1, <2>3, <2>5 DEF FindItems, Live
    <3>2. CASE request.all
      <4>1. answer = ByBridge(world, Eligible(world, request.feeds), {}, request.limit)
        BY <3>1, <3>2 DEF Live
      <4>2. \A i \in Within(world, Eligible(world, request.feeds), {}) : i.library \in asked
        BY <3>2 DEF Within, AskedAbout
      <4> QED
        BY <4>1, <4>2, BridgeFacts
    <3>3. CASE ~request.all
      <4> DEFINE library == IF request.library # {} THEN request.library ELSE {UserLibrary}
      <4>1. answer = ByBridge(world, library, request.collection, request.limit)
        BY <1>1, <2>1, <3>1, <3>3 DEF Live
      <4>2. \A i \in Within(world, library, request.collection) : i.library \in asked
        BY <3>3 DEF Within, AskedAbout, Searched
      <4> HIDE DEF library
      <4> QED
        BY <4>1, <4>2, BridgeFacts
    <3> QED
      BY <3>2, <3>3
  <2> QED
    BY <2>4, <2>5
<1>2. ASSUME answer.ok
      PROVE  /\ \A i \in ToSet(answer.items) :
                    i.library \in asked /\ (i.quick \/ i.rank # NoMatch)
             /\ request.limit >= 0 => Len(answer.items) <= request.limit
  <2> HIDE DEF answer
  <2> QED
    BY <1>1, <1>2 DEF Scoped, InScope
<1> QED
  BY <1>2 DEF AnswersStayInScope, AskedAbout

\* What a library that answers has to show, by its fields or by title.
OneHits(world, library) ==
    IF world.api /\ QuickHits(world, {library}, {}) # {} THEN QuickHits(world, {library}, {})
    ELSE TitleHits(world, {library}, {}, FALSE)

LEMMA InOneCounts ==
    ASSUME NEW world, Searchable(world.items), NEW library, NEW request,
           ~request.exact, request.limit \in Nat
    PROVE  Part(ToSet(InOne(world, library, {}, request)), OneHits(world, library),
                request.limit)
<1> DEFINE limit == request.limit
           quick == QuickHits(world, {library}, {})
           title == TitleHits(world, {library}, {}, request.exact)
<1>0. limit \in Int /\ limit >= 0
  OBVIOUS
<1>1. Part(ToSet(ByQuickSearch(world, library, {}, limit)), quick, limit)
  <2> HIDE DEF limit
  <2>1. Part(ToSet(ByQuickSearch(world, library, {}, limit)), quick, limit)
    BY <1>0, QuickFacts
  <2> QED
    BY <2>1
<1>2. Part(ToSet(ByTitle(world, {library}, {}, limit, request.exact)), title, limit)
  <2> HIDE DEF limit
  <2>1. Part(ToSet(ByTitle(world, {library}, {}, limit, request.exact)), title, limit)
    BY <1>0, ByTitleFacts
  <2> QED
    BY <2>1
<1>3. title = TitleHits(world, {library}, {}, FALSE)
  BY DEF TitleHits
<1>4. InOne(world, library, {}, request)
          = IF world.api /\ quick # {} THEN ByQuickSearch(world, library, {}, limit)
            ELSE ByTitle(world, {library}, {}, limit, request.exact)
  BY DEF InOne
<1> HIDE DEF quick, title, limit
<1>5. OneHits(world, library) = IF world.api /\ quick # {} THEN quick ELSE title
  BY <1>3 DEF OneHits, quick
<1> QED
  BY <1>1, <1>2, <1>4, <1>5 DEF limit

\* Where the limit holds all of it a part is the whole.
LEMMA PartIsWhole ==
    ASSUME NEW S, NEW T, NEW n \in Nat, Part(T, S, n), Cardinality(S) <= n
    PROVE  T = S
<1>1. IsFiniteSet(S) /\ T \in SUBSET S /\ Cardinality(S) \in Nat
  BY FS_CardinalityType DEF Part
<1>2. Cardinality(T) = Cardinality(S)
  BY <1>1 DEF Part, Fewer
<1> QED
  BY <1>1, <1>2, FS_Subset

\* A library that is not a feed, asked alone.
OfOne(request, l, limit) == [request EXCEPT !.all = FALSE, !.library = {l}, !.limit = limit]

LEMMA AskedAlone ==
    ASSUME NEW world, NEW request, Searched(world, request), Wide(request), ~world.locked,
           NEW l, l \notin Feeds(world), NEW limit
    PROVE  LET request1 == OfOne(request, l, limit)
               answer == FindItems(world, request1)
           IN  /\ request1.limit = limit /\ ~request1.exact
               /\ answer.ok <=> ~(world.api /\ l \in world.failing)
               /\ answer.ok => answer.items = InOne(world, l, {}, request1)
<1> DEFINE request1 == OfOne(request, l, limit)
           answer == FindItems(world, request1)
<1>1. /\ request1.all = FALSE /\ request1.library = {l} /\ request1.limit = limit
      /\ request1.exact = request.exact /\ request1.collection = {} /\ ~request1.exact
  BY DEF Searched, SearchRequest, Wide, OfOne
<1> HIDE DEF request1
<1>2. (CHOOSE x \in {l} : TRUE) = l
  OBVIOUS
<1>3. CollectionKnown(request1)
  BY <1>1 DEF CollectionKnown
<1>4. answer = Offline(world, request1)
  BY <1>1 DEF FindItems
<1>5. answer = IF world.api /\ l \in world.failing THEN NoAnswer("request failed")
               ELSE Answer(InOne(world, l, {}, request1), "sqlite")
  <2> DEFINE one == InOne(world, l, {}, request1)
  <2> HIDE DEF one
  <2>1. {l} \subseteq world.failing <=> l \in world.failing
    OBVIOUS
  <2>2. ~({l} \subseteq Feeds(world))
    OBVIOUS
  <2> DEFINE library == IF request1.collection # {} THEN request1.collection
                        ELSE IF request1.library # {} THEN request1.library ELSE {UserLibrary}
  <2>3. library = {l} /\ request1.collection = {}
    BY <1>1
  <2>4. Offline(world, request1)
            = IF request1.all THEN Answer(InAll(world, request1), "sqlite")
              ELSE IF ~CollectionKnown(request1) THEN NoAnswer("collection not found")
              ELSE IF ~request1.exact /\ world.api /\ library \subseteq Feeds(world)
              THEN NoAnswer("unsupported library type")
              ELSE IF ~request1.exact /\ world.api /\ library \subseteq world.failing
              THEN NoAnswer("request failed")
              ELSE Answer(InOne(world, CHOOSE x \in library : TRUE, request1.collection, request1),
                          "sqlite")
    BY Zenon DEF Offline
  <2> HIDE DEF library
  <2>5. CASE world.api /\ l \in world.failing
    BY Zenon, <1>1, <1>3, <1>4, <2>1, <2>2, <2>3, <2>4, <2>5
  <2>6. CASE ~(world.api /\ l \in world.failing)
    <3>1. InOne(world, CHOOSE x \in library : TRUE, request1.collection, request1) = one
      BY <1>2, <2>3 DEF one
    <3>2. answer = Answer(InOne(world, CHOOSE x \in library : TRUE,
                                request1.collection, request1), "sqlite")
      BY Zenon, <1>1, <1>3, <1>4, <2>1, <2>2, <2>3, <2>4, <2>6
    <3> QED
      BY Zenon, <2>6, <3>1, <3>2 DEF one
  <2> QED
    BY <2>5, <2>6
<1>6. NoAnswer("request failed").ok = FALSE
  BY DEF NoAnswer
<1>7. /\ Answer(InOne(world, l, {}, request1), "sqlite").ok
      /\ Answer(InOne(world, l, {}, request1), "sqlite").items = InOne(world, l, {}, request1)
  BY DEF Answer
<1> HIDE DEF answer
<1> QED
  BY <1>1, <1>5, <1>6, <1>7 DEF answer, request1

\* Over all libraries a search shows what each finds alone.
LEMMA EachTogether ==
    ASSUME NEW world, NEW request, Searched(world, request)
    PROVE  AllIsEachTogether(world, request)
<1> DEFINE eligible == Eligible(world, request.feeds)
           big == Cardinality(world.items)
           alone(l) == FindItems(world, OfOne(request, l, big))
           asked == eligible \ Feeds(world)
           titles(libraries) == {i \in Within(world, libraries, {}) : i.rank # NoMatch}
           found == IF \A l \in asked : alone(l).ok
                    THEN (UNION {ToSet(alone(l).items) : l \in asked}) \cup titles(eligible \ asked)
                    ELSE titles(eligible)
           answer == FindItems(world, request)
           limit == request.limit
<1> SUFFICES ASSUME Wide(request), limit >= 0, ~world.locked
             PROVE  /\ answer.ok /\ ToSet(answer.items) \subseteq found
                    /\ Len(answer.items) = Fewer(limit, Cardinality(found))
  BY DEF AllIsEachTogether, Fewer, OfOne
<1>1. /\ Searchable(world.items) /\ limit \in Nat /\ ~request.exact
      /\ big \in Nat
  BY FS_CardinalityType DEF Searched, Wide, Searchable
<1>2. answer.ok /\ answer.items = InAll(world, request)
  BY DEF FindItems, Offline, Answer, Wide
<1> DEFINE byTitle == ~world.api \/ asked \cap world.failing # {}
           each == UNION {ToSet(InOne(world, l, {}, request)) : l \in asked}
           rest == ToSet(ByTitle(world, eligible \cap Feeds(world), {}, limit, FALSE))
<1>3. InAll(world, request) = IF byTitle THEN ByTitle(world, eligible, {}, limit, request.exact)
                              ELSE Cut(Ordered(each \cup rest), AtLeastNone(limit))
  BY DEF InAll, Wide
<1>4. \A l \in asked :
          /\ OfOne(request, l, big).limit = big /\ ~OfOne(request, l, big).exact
          /\ alone(l).ok <=> ~(world.api /\ l \in world.failing)
          /\ alone(l).ok => alone(l).items = InOne(world, l, {}, OfOne(request, l, big))
  <2> SUFFICES ASSUME NEW l \in asked
               PROVE  /\ OfOne(request, l, big).limit = big /\ ~OfOne(request, l, big).exact
                      /\ alone(l).ok <=> ~(world.api /\ l \in world.failing)
                      /\ alone(l).ok => alone(l).items
                                            = InOne(world, l, {}, OfOne(request, l, big))
    OBVIOUS
  <2>1. l \notin Feeds(world)
    OBVIOUS
  <2> HIDE DEF big, asked
  <2> QED
    BY <2>1, AskedAlone
<1>5. \A l \in asked : alone(l).ok => ToSet(alone(l).items) = OneHits(world, l)
  <2> SUFFICES ASSUME NEW l \in asked, alone(l).ok
               PROVE  ToSet(alone(l).items) = OneHits(world, l)
    OBVIOUS
  <2> DEFINE request1 == OfOne(request, l, big)
             one == InOne(world, l, {}, request1)
  <2>1. request1.limit = big /\ ~request1.exact /\ alone(l).items = one
    BY <1>4
  <2> HIDE DEF request1, big
  <2>2. Part(ToSet(one), OneHits(world, l), big)
    BY <1>1, <2>1, InOneCounts
  <2>3. OneHits(world, l) \subseteq world.items
    BY DEF OneHits, QuickHits, TitleHits, Within
  <2>4. Cardinality(OneHits(world, l)) <= big
    BY <1>1, <2>3, OrderedFacts DEF big
  <2>5. ToSet(one) = OneHits(world, l)
    BY <1>1, <2>2, <2>4, PartIsWhole
  <2> QED
    BY <2>1, <2>5
<1>6. \A libraries : titles(libraries) = TitleHits(world, libraries, {}, FALSE)
  BY DEF TitleHits
<1>7. CASE byTitle
  <2>1. found = titles(eligible)
    <3>1. CASE \A l \in asked : alone(l).ok
      <4>1. ~world.api
        BY <1>4, <1>7, <3>1
      <4>2. \A l \in asked : ToSet(alone(l).items) = titles({l})
        BY <1>5, <1>6, <3>1, <4>1 DEF OneHits
      <4> DEFINE shown == UNION {ToSet(alone(l).items) : l \in asked}
                 named == UNION {titles({l}) : l \in asked}
      <4>3. shown = named
        <5> HIDE DEF titles, alone, asked
        <5> QED
          BY <4>2
      <4>4. found = shown \cup titles(eligible \ asked)
        BY <3>1
      <4>5. named \cup titles(eligible \ asked) = titles(eligible)
        <5>1. \A libraries, i : i \in titles(libraries) <=>
                  i \in world.items /\ i.library \in libraries /\ i.rank # NoMatch
          BY DEF Within
        <5>2. asked \subseteq eligible
          OBVIOUS
        <5> HIDE DEF titles, asked, eligible
        <5>3. \A i : i \in named <=> \E l \in asked : i \in titles({l})
          OBVIOUS
        <5> HIDE DEF named
        <5>4. \A i : i \in named <=>
                  i \in world.items /\ i.library \in asked /\ i.rank # NoMatch
          <6>1. \A i, l : i \in titles({l}) <=>
                    i \in world.items /\ i.library = l /\ i.rank # NoMatch
            BY <5>1
          <6>2. \A i : i \in named <=> \E l \in asked :
                    i \in world.items /\ i.library = l /\ i.rank # NoMatch
            BY <5>3, <6>1
          <6> QED
            BY <6>2
        <5>5. \A i : i \in titles(eligible \ asked) <=>
                  /\ i \in world.items /\ i.rank # NoMatch
                  /\ i.library \in eligible /\ i.library \notin asked
          BY <5>1
        <5>6. \A i : i \in titles(eligible) <=> i \in named \/ i \in titles(eligible \ asked)
          BY <5>1, <5>2, <5>4, <5>5
        <5> QED
          BY <5>6
      <4> HIDE DEF found, alone, shown, named, titles
      <4> QED
        BY <4>3, <4>4, <4>5
    <3>2. CASE ~(\A l \in asked : alone(l).ok)
      BY <3>2
    <3> QED
      BY <3>1, <3>2
  <2> HIDE DEF found, titles, eligible
  <2>2. answer.items = ByTitle(world, eligible, {}, limit, request.exact)
    BY <1>2, <1>3, <1>7
  <2>3. TitleHits(world, eligible, {}, request.exact) = titles(eligible)
    BY <1>1 DEF TitleHits, titles
  <2>4. /\ ToSet(answer.items) \subseteq titles(eligible)
        /\ Len(answer.items) = Fewer(limit, Cardinality(titles(eligible)))
    <3> HIDE DEF answer, limit
    <3>1. limit \in Int /\ limit >= 0
      BY <1>1
    <3> DEFINE list == ByTitle(world, eligible, {}, limit, request.exact)
               hits == TitleHits(world, eligible, {}, request.exact)
    <3>2. ToSet(list) \subseteq hits /\ Len(list) = Fewer(limit, Cardinality(hits))
      BY <1>1, <3>1, ByTitleFacts
    <3> QED
      BY <2>2, <2>3, <3>2
  <2> QED
    BY <1>2, <2>1, <2>4
<1>8. CASE ~byTitle
  <2> DEFINE feeds == eligible \cap Feeds(world)
             shown == each \cup rest
  <2>1. \A l \in asked : alone(l).ok
    BY <1>4, <1>8
  <2> DEFINE own == UNION {OneHits(world, l) : l \in asked}
  <2>2. found = own \cup titles(feeds)
    <3>1. eligible \ asked = feeds
      OBVIOUS
    <3> DEFINE theirs == UNION {ToSet(alone(l).items) : l \in asked}
    <3>2. found = theirs \cup titles(eligible \ asked)
      BY <2>1
    <3> HIDE DEF alone, asked
    <3>3. theirs = own
      BY <1>5, <2>1
    <3> HIDE DEF theirs, own, feeds, titles, found
    <3> QED
      BY <3>1, <3>2, <3>3
  <2>3. \A l \in asked : Part(ToSet(InOne(world, l, {}, request)), OneHits(world, l), limit)
    BY <1>1, InOneCounts
  <2>4. Part(rest, titles(feeds), limit)
    <3> HIDE DEF titles, feeds
    <3> HIDE DEF limit
    <3>0. limit \in Int /\ limit >= 0
      BY <1>1
    <3>1. Part(ToSet(ByTitle(world, feeds, {}, limit, FALSE)),
               TitleHits(world, feeds, {}, FALSE), limit)
      BY <1>1, <3>0, ByTitleFacts
    <3>2. titles(feeds) = TitleHits(world, feeds, {}, FALSE)
      BY <1>6
    <3>3. rest = ToSet(ByTitle(world, feeds, {}, limit, FALSE))
      BY DEF feeds
    <3> HIDE DEF rest
    <3> QED
      BY <3>1, <3>2, <3>3
  <2>5. found \subseteq world.items
    <3>1. \A l \in asked : OneHits(world, l) \subseteq world.items
      BY DEF OneHits, QuickHits, TitleHits, Within
    <3>2. titles(feeds) \subseteq world.items
      BY DEF Within
    <3> HIDE DEF found, titles, feeds, asked
    <3> QED
      BY <2>2, <3>1, <3>2
  <2> HIDE DEF found, titles, feeds, rest, asked, eligible
  <2>6. shown \subseteq found
    <3>1. \A l \in asked : ToSet(InOne(world, l, {}, request)) \subseteq OneHits(world, l)
      BY <2>3 DEF Part
    <3>2. each \subseteq own
      BY <3>1
    <3>3. rest \subseteq titles(feeds)
      BY <2>4 DEF Part
    <3> HIDE DEF each, own
    <3> QED
      BY <2>2, <3>2, <3>3
  <2>7. /\ answer.items = Cut(Ordered(shown), limit)
    <3>1. AtLeastNone(limit) = limit
      BY <1>1 DEF AtLeastNone
    <3> QED
      BY <1>2, <1>3, <1>8, <3>1
  <2> HIDE DEF shown
  <2>8. /\ ToSet(answer.items) \subseteq shown
        /\ Len(answer.items) = Fewer(limit, Cardinality(shown))
    BY <1>1, <2>5, <2>6, <2>7, OrderedCounts DEF Part
  <2>9. /\ IsFiniteSet(found) /\ Cardinality(found) \in Nat
        /\ IsFiniteSet(shown) /\ Cardinality(shown) \in Nat
        /\ Cardinality(shown) <= Cardinality(found)
    <3>1. IsFiniteSet(found) /\ shown \in SUBSET found
      BY <1>1, <2>5, <2>6, OrderedFacts
    <3> QED
      BY <3>1, FS_Subset, FS_CardinalityType
  <2>10. ASSUME NEW T, NEW S, Part(T, S, limit), T \subseteq shown, Cardinality(S) > limit
         PROVE  limit <= Cardinality(shown)
    <3>1. Cardinality(T) = limit
      BY <1>1, <2>10 DEF Part, Fewer
    <3>2. T \in SUBSET shown
      BY <2>10
    <3> QED
      BY <2>9, <3>1, <3>2, FS_Subset
  <2>11. Fewer(limit, Cardinality(shown)) = Fewer(limit, Cardinality(found))
    <3>1. CASE \E l \in asked : Cardinality(OneHits(world, l)) > limit
      <4>1. PICK l \in asked : Cardinality(OneHits(world, l)) > limit
        BY <3>1
      <4>2. ToSet(InOne(world, l, {}, request)) \subseteq shown
        BY DEF shown
      <4>3. limit <= Cardinality(shown)
        BY <2>3, <2>10, <4>1, <4>2
      <4> QED
        BY <1>1, <2>9, <4>3 DEF Fewer
    <3>2. CASE Cardinality(titles(feeds)) > limit
      <4>1. rest \subseteq shown
        BY DEF shown
      <4>2. limit <= Cardinality(shown)
        BY <2>4, <2>10, <3>2, <4>1
      <4> QED
        BY <1>1, <2>9, <4>2 DEF Fewer
    <3>3. CASE /\ \A l \in asked : ~(Cardinality(OneHits(world, l)) > limit)
               /\ ~(Cardinality(titles(feeds)) > limit)
      <4>1. \A l \in asked : ToSet(InOne(world, l, {}, request)) = OneHits(world, l)
        <5> SUFFICES ASSUME NEW l \in asked
                     PROVE  ToSet(InOne(world, l, {}, request)) = OneHits(world, l)
          OBVIOUS
        <5>1. Part(ToSet(InOne(world, l, {}, request)), OneHits(world, l), limit)
          BY <2>3
        <5>2. Cardinality(OneHits(world, l)) \in Nat
          BY <5>1, FS_CardinalityType DEF Part
        <5>3. Cardinality(OneHits(world, l)) <= limit
          BY <1>1, <3>3, <5>2
        <5> QED
          BY <1>1, <5>1, <5>3, PartIsWhole
      <4>2. rest = titles(feeds)
        <5>1. Cardinality(titles(feeds)) \in Nat
          BY <2>4, FS_CardinalityType DEF Part
        <5>2. Cardinality(titles(feeds)) <= limit
          BY <1>1, <3>3, <5>1
        <5> QED
          BY <1>1, <2>4, <5>2, PartIsWhole
      <4>3. each = own
        BY <4>1
      <4>4. shown = found
        <5> HIDE DEF each, own
        <5> QED
          BY <2>2, <4>2, <4>3 DEF shown
      <4> QED
        BY <4>4
    <3> QED
      BY <3>1, <3>2, <3>3
  <2> QED
    BY <1>2, <2>6, <2>8, <2>11
<1> QED
  BY <1>7, <1>8

\* What the libraries one by one find by their fields is all there is to find.
LEMMA EachFindsAll ==
    ASSUME NEW world, NEW request, Searched(world, request), world.api, world.failing = {},
           Wide(request), ~request.feeds,
           request.limit >= Cardinality(world.items)
    PROVE  InAll(world, request)
               = Cut(Ordered(QuickHits(world, Eligible(world, request.feeds), {})),
                     AtLeastNone(request.limit))
<1> DEFINE eligible == Eligible(world, request.feeds)
           each == UNION {ToSet(InOne(world, l, {}, request)) : l \in eligible \ Feeds(world)}
           rest == ToSet(ByTitle(world, eligible \cap Feeds(world), {}, request.limit, FALSE))
           hits == QuickHits(world, eligible, {})
<1>1. Searchable(world.items) /\ request.limit \in Nat /\ ~request.exact
  BY FS_CardinalityType DEF Searched, Searchable, Wide
<1>2. eligible \cap Feeds(world) = {}
  <2>1. \A l \in eligible : \E k \in world.libraries : k.id = l /\ k.type \in {"user", "group"}
    BY DEF Eligible
  <2>2. \A l \in Feeds(world) : \E k \in world.libraries : k.id = l /\ k.type = "feed"
    BY DEF Feeds
  <2>3. \A l, k \in world.libraries : l.id = k.id => l = k
    BY DEF Searched
  <2> HIDE DEF eligible
  <2> QED
    BY <2>1, <2>2, <2>3
<1>3. InAll(world, request) = Cut(Ordered(each \cup rest), AtLeastNone(request.limit))
  BY DEF InAll, Wide
<1> HIDE DEF eligible
<1>4. rest = {}
  <2>1. ToSet(ByTitle(world, {}, {}, request.limit, FALSE)) \subseteq TitleHits(world, {}, {}, FALSE)
    <3> DEFINE limit == request.limit
    <3>1. limit \in Int
      BY <1>1
    <3> HIDE DEF limit
    <3>2. ToSet(ByTitle(world, {}, {}, limit, FALSE)) \subseteq TitleHits(world, {}, {}, FALSE)
      BY <1>1, <3>1, ByTitleFacts
    <3> QED
      BY <3>2 DEF limit
  <2>2. TitleHits(world, {}, {}, FALSE) = {}
    BY DEF TitleHits, Within
  <2> QED
    BY <1>2, <2>1, <2>2
<1>5. ASSUME NEW l \in eligible
      PROVE  ToSet(InOne(world, l, {}, request)) = QuickHits(world, {l}, {})
  <2>1. OneHits(world, l) = QuickHits(world, {l}, {})
    <3>1. TitleHits(world, {l}, {}, FALSE) \subseteq QuickHits(world, {l}, {})
      BY DEF TitleHits, QuickHits, Within, Searched
    <3> QED
      BY <3>1 DEF OneHits
  <2>2. Part(ToSet(InOne(world, l, {}, request)), OneHits(world, l), request.limit)
    BY <1>1, InOneCounts
  <2>3. Cardinality(OneHits(world, l)) <= request.limit
    <3>1. OneHits(world, l) \subseteq world.items
      BY <2>1 DEF QuickHits, Within
    <3>2. /\ Cardinality(OneHits(world, l)) <= Cardinality(world.items)
          /\ Cardinality(OneHits(world, l)) \in Nat
      BY <1>1, <3>1, OrderedFacts
    <3>3. Cardinality(world.items) \in Nat
      BY <1>1, FS_CardinalityType DEF Searchable
    <3> QED
      BY <1>1, <3>2, <3>3
  <2> QED
    BY <1>1, <2>1, <2>2, <2>3, PartIsWhole
<1>6. each = hits
  <2>1. each = UNION {QuickHits(world, {l}, {}) : l \in eligible}
    BY <1>2, <1>5
  <2> HIDE DEF each
  <2> QED
    BY <2>1 DEF QuickHits, Within
<1>7. each \cup rest = hits
  BY <1>4, <1>6
<1> HIDE DEF each, rest, hits
<1> QED
  BY <1>3, <1>7 DEF hits, eligible

\* Over all libraries by fields, it makes no difference that Zotero happens
\* to hold its database locked.
LEMMA LockIsNothing ==
    ASSUME NEW world, NEW request, Searched(world, request)
    PROVE  LockMakesNoDifference(world, request)
<1> DEFINE held == [world EXCEPT !.locked = TRUE, !.bridge = TRUE]
           free == [world EXCEPT !.locked = FALSE, !.api = TRUE, !.failing = {}]
<1> SUFFICES ASSUME Wide(request), ~request.feeds, request.limit >= Cardinality(world.items)
             PROVE  FindItems(held, request).items = FindItems(free, request).items
  BY DEF LockMakesNoDifference
<1>1. world \in SearchWorld
  BY DEF Searched
<1>2. /\ held.libraries = world.libraries /\ held.items = world.items
      /\ held.locked /\ held.bridge
      /\ free.libraries = world.libraries /\ free.items = world.items
      /\ ~free.locked /\ free.api /\ free.failing = {} /\ free \in SearchWorld
  BY <1>1 DEF SearchWorld
<1> HIDE DEF held, free
<1>3. Searched(free, request)
  BY <1>2 DEF Searched
<1> DEFINE Hits(w) == QuickHits(w, Eligible(w, request.feeds), {})
           answer == Cut(Ordered(Hits(world)), AtLeastNone(request.limit))
<1>4. Hits(held) = Hits(world) /\ Hits(free) = Hits(world)
  BY <1>2 DEF QuickHits, Within, Eligible
<1>5. \A items, source : Answer(items, source).items = items
  BY DEF Answer
<1>6. FindItems(held, request).items = answer
  <2>1. FindItems(held, request) = ByBridge(held, Eligible(held, request.feeds), {}, request.limit)
    BY <1>2 DEF FindItems, Live, Wide
  <2>2. ByBridge(held, Eligible(held, request.feeds), {}, request.limit)
            = Answer(Cut(Ordered(Hits(held)), AtLeastNone(request.limit)), "bridge")
    BY DEF ByBridge
  <2> HIDE DEF Hits
  <2> QED
    BY <1>4, <1>5, <2>1, <2>2
<1>7. FindItems(free, request).items = answer
  <2>1. FindItems(free, request) = Answer(InAll(free, request), "sqlite")
    BY <1>2 DEF FindItems, Offline, Wide
  <2>2. InAll(free, request) = Cut(Ordered(Hits(free)), AtLeastNone(request.limit))
    <3>1. request.limit >= Cardinality(free.items)
      BY <1>2
    <3> QED
      BY <1>2, <1>3, <3>1, EachFindsAll
  <2> HIDE DEF Hits
  <2> QED
    BY <1>4, <1>5, <2>1, <2>2
<1> QED
  BY <1>6, <1>7

\* By words a search keeps to the libraries it was asked about and, over all
\* of them by fields, shows what each finds alone, whether or not Zotero
\* happens to hold its database locked (search.rs:386-605); by meaning it
\* lists each item once by its best chunk and passes none over
\* (semantic/mod.rs:432-613).
THEOREM SearchesAreWholeHolds == DecisionSpec => []SearchesAreWhole
<1>1. ASSUME Given, case.of = "search"
      PROVE  /\ AnswersStayInScope(case.given.world, case.given.request)
             /\ AllIsEachTogether(case.given.world, case.given.request)
             /\ LockMakesNoDifference(case.given.world, case.given.request)
  <2> DEFINE c == case.given
  <2>1. c \in Searches
    BY <1>1 DEF Given
  <2> HIDE DEF c
  <2>2. c.world \in SearchWorld
    BY <2>1, SearchAssump
  <2>3. Searchable(c.world.items)
    <3>1. \A i \in c.world.items : i.id \in Nat /\ i.rank \in Nat
      BY <2>2 DEF SearchWorld
    <3> QED
      BY <2>1, <3>1, SearchAssump DEF Searchable
  <2>4. Searched(c.world, c.request)
    BY <2>1, <2>2, <2>3, SearchAssump DEF Searched, SearchRequest
  <2> QED
    BY <2>4, ScopeIsKept, EachTogether, LockIsNothing DEF c
<1>2. ASSUME Given, case.of = "ranking"
      PROVE  LET c == case.given
             IN  /\ BestPerItem(c.rows, Loaded(c.rows, c.language, {}),
                                SemanticSearch(c.rows, c.minScore, c.topK, c.language),
                                c.minScore, c.topK)
                 /\ BestPerItem(c.rows, Loaded(c.rows, "all", {c.item}),
                                FindSimilar(c.rows, c.item, c.minScore, c.topK),
                                c.minScore, c.topK)
  <2> DEFINE c == case.given
  <2>1. c \in Rankings
    BY <1>2 DEF Given
  <2> HIDE DEF c
  <2>2. c.rows \in Seq(Row) /\ c.minScore \in Int /\ c.topK \in Int
    BY <2>1, RankingAssump
  <2>3. \A language, excluded : Loaded(c.rows, language, excluded) \subseteq DOMAIN c.rows
    BY DEF Loaded
  <2>4. \A loaded : loaded \subseteq DOMAIN c.rows =>
            BestPerItem(c.rows, loaded, Ranked(c.rows, loaded, c.minScore, c.topK),
                        c.minScore, c.topK)
    BY <2>2, RankedIsBest
  <2> QED
    BY <2>3, <2>4 DEF SemanticSearch, FindSimilar, c
<1>3. Given => SearchesAreWhole
  BY <1>1, <1>2 DEF SearchesAreWhole
<1> QED
  BY <1>3, GivenAlways, PTL
-----------------------------------------------------------------------------
(* The attachments of an import.                                           *)

\* What holds at the start of a run and is kept by each of its steps holds
\* after all of them; St is the set of the states of which it holds.
LEMMA KeptAlong ==
    ASSUME NEW n \in Nat, NEW St, NEW run, run[0] \in St,
           \A i \in 1 .. n : run[i - 1] \in St => run[i] \in St
    PROVE  \A i \in 0 .. n : run[i] \in St
<1> DEFINE T == {i \in 0 .. n : run[i] \in St}
<1>1. 0 \in T
  OBVIOUS
<1>2. ASSUME NEW m \in 0 .. n - 1, m \in T PROVE m + 1 \in T
  <2>1. m + 1 \in 1 .. n /\ (m + 1) - 1 = m /\ m + 1 \in 0 .. n
    OBVIOUS
  <2> QED
    BY <1>2, <2>1
<1> HIDE DEF T
<1>3. \A i \in 0 .. n : i \in T
  BY <1>1, <1>2, Induction
<1> QED
  BY <1>3 DEF T

Files(world) == DOMAIN world.key

Parents(items) == {items[i].id : i \in DOMAIN items} \cup {None}

Line(world, items, X) ==
    [index: X, parent: Parents(items), source: Files(world),
     status: {"created", "failed", "skipped_duplicate"}]

\* A parent and what it is known to have: a source, a content.
Keyed(world, items) == Parents(items) \X {world.key[s] : s \in Files(world)}
Held(world, items) == Parents(items) \X {world.content[s] : s \in Files(world)}

ByKey(world, line) == <<line.parent, world.key[line.source]>>
ByContent(world, line) == <<line.parent, world.content[line.source]>>

RunState(world, items, X) ==
    [results: Seq(Line(world, items, X)), sources: SUBSET Keyed(world, items),
     contents: SUBSET Held(world, items), stored: Seq(Held(world, items)), panicked: BOOLEAN]

\* What is remembered of a parent was reported as created, and the other way
\* around; what is skipped is there; and as long as no upload failed Zotero
\* stored what is remembered, once.
Remembered(world, r) ==
    /\ \A e \in r.sources : \E j \in DOMAIN r.results :
           r.results[j].status = "created" /\ e = ByKey(world, r.results[j])
    /\ \A e \in r.contents : \E j \in DOMAIN r.results :
           r.results[j].status = "created" /\ e = ByContent(world, r.results[j])
    /\ \A j \in DOMAIN r.results : r.results[j].status = "created" =>
           ByContent(world, r.results[j]) \in r.contents

SkipsAreThere(world, r) ==
    \A i \in DOMAIN r.results : r.results[i].status = "skipped_duplicate" =>
        \E j \in 1 .. i - 1 :
            /\ r.results[j].status = "created"
            /\ r.results[j].parent = r.results[i].parent
            /\ \/ world.key[r.results[j].source] = world.key[r.results[i].source]
               \/ world.content[r.results[j].source] = world.content[r.results[i].source]

CreatedOnce(world, r) ==
    \A i, j \in DOMAIN r.results :
        /\ i < j /\ r.results[i].status = "created" /\ r.results[j].status = "created"
        /\ r.results[i].parent = r.results[j].parent
        => world.content[r.results[i].source] # world.content[r.results[j].source]

Unfailed(r) == \A i \in DOMAIN r.results : r.results[i].status # "failed"

StoredOnce(r) ==
    Unfailed(r) => /\ ToSet(r.stored) = r.contents
                   /\ \A i, j \in DOMAIN r.stored : i # j => r.stored[i] # r.stored[j]

RunInv(world, r) ==
    Remembered(world, r) /\ SkipsAreThere(world, r) /\ CreatedOnce(world, r) /\ StoredOnce(r)

\* One more line of the report.
LEMMA LineAdded ==
    ASSUME NEW L, NEW lines \in Seq(L), NEW line \in L
    PROVE  /\ Append(lines, line) \in Seq(L) /\ Len(lines) \in Nat
           /\ DOMAIN lines = 1 .. Len(lines)
           /\ DOMAIN Append(lines, line) = 1 .. Len(lines) + 1
           /\ \A i \in 1 .. Len(lines) : Append(lines, line)[i] = lines[i]
           /\ Append(lines, line)[Len(lines) + 1] = line
OBVIOUS

\* An attachment that fails leaves a run in order,
LEMMA FailureKeeps ==
    ASSUME NEW world, NEW items, NEW X, NEW r \in RunState(world, items, X), RunInv(world, r),
           NEW line \in Line(world, items, X), line.status = "failed",
           NEW after \in RunState(world, items, X), after.results = Append(r.results, line),
           after.sources = r.sources, after.contents = r.contents
    PROVE  RunInv(world, after)
<1> DEFINE old == r.results
           new == after.results
           m == Len(old)
<1>1. /\ m \in Nat /\ DOMAIN old = 1 .. m /\ DOMAIN new = 1 .. m + 1
      /\ \A i \in 1 .. m : new[i] = old[i]
      /\ new[m + 1] = line
  <2>1. old \in Seq(Line(world, items, X))
    BY DEF RunState
  <2> HIDE DEF old
  <2> QED
    BY <2>1, LineAdded DEF old
<1> HIDE DEF old, new, m
<1>2. \A i \in DOMAIN new : i \in DOMAIN old \/ i = m + 1
  BY <1>1
<1>3. \A i \in DOMAIN old : i \in DOMAIN new /\ new[i] = old[i]
  BY <1>1
<1>4. \A i \in DOMAIN new : new[i].status # "failed" => i \in DOMAIN old /\ new[i] = old[i]
  BY <1>1, <1>2
<1>5. Remembered(world, after)
  BY <1>3, <1>4 DEF RunInv, Remembered, old, new
<1>6. SkipsAreThere(world, after)
  <2> SUFFICES ASSUME NEW i \in DOMAIN new, new[i].status = "skipped_duplicate"
               PROVE  \E j \in 1 .. i - 1 :
                          /\ new[j].status = "created"
                          /\ new[j].parent = new[i].parent
                          /\ \/ world.key[new[j].source] = world.key[new[i].source]
                             \/ world.content[new[j].source] = world.content[new[i].source]
    BY DEF SkipsAreThere, new
  <2>1. i \in DOMAIN old /\ new[i] = old[i] /\ old[i].status = "skipped_duplicate"
    BY <1>4
  <2>2. PICK j \in 1 .. i - 1 :
            /\ old[j].status = "created" /\ old[j].parent = old[i].parent
            /\ \/ world.key[old[j].source] = world.key[old[i].source]
               \/ world.content[old[j].source] = world.content[old[i].source]
    BY <2>1 DEF RunInv, SkipsAreThere, old
  <2>3. j \in 1 .. m /\ new[j] = old[j]
    BY <1>1, <2>1
  <2> QED
    BY <2>1, <2>2, <2>3
<1>7. CreatedOnce(world, after)
  BY <1>4 DEF RunInv, CreatedOnce, old, new
<1>8. ~Unfailed(after)
  <2>1. m + 1 \in DOMAIN new /\ new[m + 1].status = "failed"
    BY <1>1
  <2> QED
    BY <2>1 DEF Unfailed, new
<1> QED
  BY <1>5, <1>6, <1>7, <1>8 DEF RunInv, StoredOnce

\* ... so does one that is skipped,
LEMMA SkipKeeps ==
    ASSUME NEW world, NEW items, NEW X, NEW r \in RunState(world, items, X), RunInv(world, r),
           NEW line \in Line(world, items, X), line.status = "skipped_duplicate",
           ByKey(world, line) \in r.sources \/ ByContent(world, line) \in r.contents,
           NEW after \in RunState(world, items, X), after.results = Append(r.results, line),
           after.sources = r.sources, after.contents = r.contents, after.stored = r.stored
    PROVE  RunInv(world, after)
<1> DEFINE old == r.results
           new == after.results
           m == Len(old)
<1>1. /\ m \in Nat /\ DOMAIN old = 1 .. m /\ DOMAIN new = 1 .. m + 1
      /\ \A i \in 1 .. m : new[i] = old[i]
      /\ new[m + 1] = line
  <2>1. old \in Seq(Line(world, items, X))
    BY DEF RunState
  <2> HIDE DEF old
  <2> QED
    BY <2>1, LineAdded DEF old
<1>0. PICK w \in DOMAIN old :
          /\ old[w].status = "created" /\ old[w].parent = line.parent
          /\ \/ world.key[old[w].source] = world.key[line.source]
             \/ world.content[old[w].source] = world.content[line.source]
  BY DEF RunInv, Remembered, ByKey, ByContent
<1> HIDE DEF old, new, m
<1>2. \A i \in DOMAIN new : i \in DOMAIN old \/ i = m + 1
  BY <1>1
<1>3. \A i \in DOMAIN old : i \in DOMAIN new /\ new[i] = old[i]
  BY <1>1
<1>4. \A i \in DOMAIN new : new[i].status = "created" => i \in DOMAIN old /\ new[i] = old[i]
  BY <1>1, <1>2
<1>5. Remembered(world, after)
  BY <1>3, <1>4 DEF RunInv, Remembered, old, new
<1>6. SkipsAreThere(world, after)
  <2> SUFFICES ASSUME NEW i \in DOMAIN new, new[i].status = "skipped_duplicate"
               PROVE  \E j \in 1 .. i - 1 :
                          /\ new[j].status = "created"
                          /\ new[j].parent = new[i].parent
                          /\ \/ world.key[new[j].source] = world.key[new[i].source]
                             \/ world.content[new[j].source] = world.content[new[i].source]
    BY DEF SkipsAreThere, new
  <2>1. CASE i = m + 1
    <3>1. w \in 1 .. i - 1 /\ new[w] = old[w] /\ new[i] = line
      BY <1>1, <2>1
    <3> QED
      BY <1>0, <3>1
  <2>2. CASE i # m + 1
    <3>1. i \in DOMAIN old /\ new[i] = old[i] /\ old[i].status = "skipped_duplicate"
      BY <1>2, <1>3, <2>2
    <3>2. PICK j \in 1 .. i - 1 :
              /\ old[j].status = "created" /\ old[j].parent = old[i].parent
              /\ \/ world.key[old[j].source] = world.key[old[i].source]
                 \/ world.content[old[j].source] = world.content[old[i].source]
      BY <3>1 DEF RunInv, SkipsAreThere, old
    <3>3. j \in 1 .. m /\ new[j] = old[j]
      BY <1>1, <3>1
    <3> QED
      BY <3>1, <3>2, <3>3
  <2> QED
    BY <2>1, <2>2
<1>7. CreatedOnce(world, after)
  BY <1>4 DEF RunInv, CreatedOnce, old, new
<1>8. StoredOnce(after)
  <2>1. Unfailed(after) => Unfailed(r)
    BY <1>3 DEF Unfailed, old, new
  <2> QED
    BY <2>1 DEF RunInv, StoredOnce
<1> QED
  BY <1>5, <1>6, <1>7, <1>8 DEF RunInv

\* ... and one that is created.
LEMMA CreationKeeps ==
    ASSUME NEW world, NEW items, NEW X, NEW r \in RunState(world, items, X), RunInv(world, r),
           NEW line \in Line(world, items, X), line.status = "created",
           ByContent(world, line) \notin r.contents,
           NEW after \in RunState(world, items, X), after.results = Append(r.results, line),
           after.sources = r.sources \cup {ByKey(world, line)},
           after.contents = r.contents \cup {ByContent(world, line)},
           after.stored = Append(r.stored, ByContent(world, line))
    PROVE  RunInv(world, after)
<1> DEFINE old == r.results
           new == after.results
           m == Len(old)
<1>1. /\ m \in Nat /\ DOMAIN old = 1 .. m /\ DOMAIN new = 1 .. m + 1
      /\ \A i \in 1 .. m : new[i] = old[i]
      /\ new[m + 1] = line
  <2>1. old \in Seq(Line(world, items, X))
    BY DEF RunState
  <2> HIDE DEF old
  <2> QED
    BY <2>1, LineAdded DEF old
<1> HIDE DEF old, new, m
<1>2. \A i \in DOMAIN new : i \in DOMAIN old \/ i = m + 1
  BY <1>1
<1>3. \A i \in DOMAIN old : i \in DOMAIN new /\ new[i] = old[i]
  BY <1>1
<1>4. m + 1 \in DOMAIN new /\ new[m + 1] = line
  BY <1>1
<1>5. Remembered(world, after)
  <2>1. ASSUME NEW e \in after.sources
        PROVE  \E j \in DOMAIN new : new[j].status = "created" /\ e = ByKey(world, new[j])
    <3>1. CASE e \in r.sources
      BY <1>3, <3>1 DEF RunInv, Remembered, old
    <3>2. CASE e = ByKey(world, line)
      BY <1>4, <3>2
    <3> QED
      BY <2>1, <3>1, <3>2
  <2>2. ASSUME NEW e \in after.contents
        PROVE  \E j \in DOMAIN new : new[j].status = "created" /\ e = ByContent(world, new[j])
    <3>1. CASE e \in r.contents
      BY <1>3, <3>1 DEF RunInv, Remembered, old
    <3>2. CASE e = ByContent(world, line)
      BY <1>4, <3>2
    <3> QED
      BY <2>2, <3>1, <3>2
  <2>3. ASSUME NEW j \in DOMAIN new, new[j].status = "created"
        PROVE  ByContent(world, new[j]) \in after.contents
    <3>1. CASE j \in DOMAIN old
      BY <1>3, <2>3, <3>1 DEF RunInv, Remembered, old
    <3>2. CASE j = m + 1
      BY <1>4, <3>2
    <3> QED
      BY <1>2, <3>1, <3>2
  <2> QED
    BY <2>1, <2>2, <2>3 DEF Remembered, new
<1>6. SkipsAreThere(world, after)
  <2> SUFFICES ASSUME NEW i \in DOMAIN new, new[i].status = "skipped_duplicate"
               PROVE  \E j \in 1 .. i - 1 :
                          /\ new[j].status = "created"
                          /\ new[j].parent = new[i].parent
                          /\ \/ world.key[new[j].source] = world.key[new[i].source]
                             \/ world.content[new[j].source] = world.content[new[i].source]
    BY DEF SkipsAreThere, new
  <2>1. i \in DOMAIN old /\ new[i] = old[i] /\ old[i].status = "skipped_duplicate"
    BY <1>2, <1>3, <1>4
  <2>2. PICK j \in 1 .. i - 1 :
            /\ old[j].status = "created" /\ old[j].parent = old[i].parent
            /\ \/ world.key[old[j].source] = world.key[old[i].source]
               \/ world.content[old[j].source] = world.content[old[i].source]
    BY <2>1 DEF RunInv, SkipsAreThere, old
  <2>3. j \in 1 .. m /\ new[j] = old[j]
    BY <1>1, <2>1
  <2> QED
    BY <2>1, <2>2, <2>3
<1>7. CreatedOnce(world, after)
  <2> SUFFICES ASSUME NEW i \in DOMAIN new, NEW j \in DOMAIN new, i < j,
                      new[i].status = "created", new[j].status = "created",
                      new[i].parent = new[j].parent
               PROVE  world.content[new[i].source] # world.content[new[j].source]
    BY DEF CreatedOnce, new
  <2>1. i \in DOMAIN old /\ new[i] = old[i]
    BY <1>1
  <2>2. CASE j \in DOMAIN old
    BY <1>3, <2>1, <2>2 DEF RunInv, CreatedOnce, old
  <2>3. CASE j = m + 1
    <3>1. ByContent(world, old[i]) \in r.contents
      BY <2>1 DEF RunInv, Remembered, old
    <3>2. ByContent(world, old[i]) # ByContent(world, line)
      BY <3>1
    <3> QED
      BY <1>4, <2>1, <2>3, <3>2 DEF ByContent
  <2> QED
    BY <1>2, <2>2, <2>3
<1>8. StoredOnce(after)
  <2> SUFFICES ASSUME Unfailed(after)
               PROVE  /\ ToSet(after.stored) = after.contents
                      /\ \A i, j \in DOMAIN after.stored :
                             i # j => after.stored[i] # after.stored[j]
    BY DEF StoredOnce
  <2>1. Unfailed(r)
    BY <1>3 DEF Unfailed, old, new
  <2> DEFINE s == r.stored
             t == after.stored
             k == Len(s)
             pair == ByContent(world, line)
  <2>2. ToSet(s) = r.contents /\ \A i, j \in DOMAIN s : i # j => s[i] # s[j]
    BY <2>1 DEF RunInv, StoredOnce
  <2>3. s \in Seq(Held(world, items)) /\ pair \in Held(world, items)
    BY DEF RunState, Line, Held, ByContent
  <2> HIDE DEF s, t, k, pair
  <2>4. t = Append(s, pair)
    BY DEF s, t, pair
  <2>5. /\ k \in Nat /\ DOMAIN s = 1 .. k /\ DOMAIN t = 1 .. k + 1
        /\ \A i \in 1 .. k : t[i] = s[i]
        /\ t[k + 1] = pair
    BY <2>3, <2>4, LineAdded DEF k
  <2>6. \A i \in DOMAIN s : s[i] # pair
    BY <2>2 DEF ToSet, pair
  <2>7. ToSet(t) = r.contents \cup {pair}
    <3>1. \A i \in DOMAIN t : (i \in DOMAIN s /\ t[i] = s[i]) \/ i = k + 1
      BY <2>5
    <3>2. \A i \in DOMAIN s : i \in DOMAIN t /\ t[i] = s[i]
      BY <2>5
    <3>3. k + 1 \in DOMAIN t
      BY <2>5
    <3> QED
      BY <2>2, <2>5, <3>1, <3>2, <3>3 DEF ToSet
  <2>8. \A i, j \in DOMAIN t : i # j => t[i] # t[j]
    <3>1. \A i \in DOMAIN t : (i \in DOMAIN s /\ t[i] = s[i]) \/ i = k + 1
      BY <2>5
    <3> QED
      BY <2>2, <2>5, <2>6, <3>1
  <2> QED
    BY <2>7, <2>8 DEF t, pair
<1> QED
  BY <1>5, <1>6, <1>7, <1>8 DEF RunInv

\* One attachment is answered for by one line, and the invariant is kept.
AnsweredBy(world, items, X, r, after, parent, source, statuses) ==
    /\ after \in RunState(world, items, X) /\ RunInv(world, after)
    /\ after.panicked = r.panicked
    /\ \E line \in Line(world, items, X) :
           /\ line.source = source /\ line.parent = parent /\ line.status \in statuses
           /\ after.results = Append(r.results, line)

Statuses == {"created", "failed", "skipped_duplicate"}

\* A failed upload adds one failed line, whether or not its bytes arrived late.
LEMMA FailedStep ==
    ASSUME NEW world, NEW items, NEW X, NEW r \in RunState(world, items, X), RunInv(world, r),
           NEW plan, plan.index \in X, NEW parent \in Parents(items), NEW source \in Files(world),
           NEW stored \in Seq(Held(world, items)),
           NEW after, LET failed == With(r, Result(plan, parent, source, "failed"))
                      IN  after \in {failed, [failed EXCEPT !.stored = stored]}
    PROVE  AnsweredBy(world, items, X, r, after, parent, source, {"failed"})
<1> DEFINE line == Result(plan, parent, source, "failed")
           failed == With(r, line)
<1>1. /\ line \in Line(world, items, X)
      /\ line.source = source /\ line.parent = parent /\ line.status = "failed"
  BY DEF Result, Line
<1>2. after \in {failed, [failed EXCEPT !.stored = stored]}
  OBVIOUS
<1> HIDE DEF line
<1>3. Append(r.results, line) \in Seq(Line(world, items, X))
  <2>1. r.results \in Seq(Line(world, items, X))
    BY DEF RunState
  <2> QED
    BY <1>1, <2>1, LineAdded
<1>4. /\ after \in RunState(world, items, X)
      /\ after.results = Append(r.results, line) /\ after.panicked = r.panicked
      /\ after.sources = r.sources /\ after.contents = r.contents
  BY <1>2, <1>3 DEF With, RunState
<1>5. RunInv(world, after)
  BY <1>1, <1>4, FailureKeeps
<1> QED
  BY <1>1, <1>4, <1>5 DEF AnsweredBy

\* One upload adds one line, for this source and this parent.
LEMMA UploadStep ==
    ASSUME NEW world, NEW items, NEW X, NEW r \in RunState(world, items, X), RunInv(world, r),
           NEW plan, plan.index \in X, NEW parent \in Parents(items), NEW source \in Files(world)
    PROVE  AnsweredBy(world, items, X, r, Upload(world, r, plan, parent, source),
                      parent, source, Statuses)
<1> DEFINE content == world.content[source]
           own == <<parent, world.key[source]>>
           pair == <<parent, content>>
           known == own \in r.sources \/ (content # None /\ pair \in r.contents)
           failed == With(r, Result(plan, parent, source, "failed"))
           stored == Append(r.stored, pair)
           after == Upload(world, r, plan, parent, source)
<1>1. /\ r.results \in Seq(Line(world, items, X)) /\ r.sources \subseteq Keyed(world, items)
      /\ r.contents \subseteq Held(world, items) /\ r.stored \in Seq(Held(world, items))
      /\ r.panicked \in BOOLEAN
  BY DEF RunState
<1>2. own \in Keyed(world, items) /\ pair \in Held(world, items)
  BY DEF Keyed, Held
<1>3. stored \in Seq(Held(world, items))
  BY <1>1, <1>2
<1>4. CASE known
  <2> DEFINE line == Result(plan, parent, source, "skipped_duplicate")
  <2>1. after = With(r, line)
    BY <1>4 DEF Upload
  <2>2. /\ line \in Line(world, items, X)
        /\ line.source = source /\ line.parent = parent /\ line.status = "skipped_duplicate"
    BY DEF Result, Line
  <2>3. ByKey(world, line) = own /\ ByContent(world, line) = pair
    BY <2>2 DEF ByKey, ByContent
  <2> HIDE DEF line, after
  <2>4. Append(r.results, line) \in Seq(Line(world, items, X))
    BY <1>1, <2>2, LineAdded
  <2>5. /\ after \in RunState(world, items, X)
        /\ after.results = Append(r.results, line) /\ after.panicked = r.panicked
        /\ after.sources = r.sources /\ after.contents = r.contents /\ after.stored = r.stored
    BY <2>1, <2>4 DEF With, RunState
  <2>6. RunInv(world, after)
    BY <1>4, <2>2, <2>3, <2>5, SkipKeeps
  <2> QED
    BY <2>2, <2>5, <2>6 DEF AnsweredBy, Statuses, after
<1>5. CASE ~known /\ (content = None \/ world.answer[Len(r.results) + 1] = "refused")
  <2>1. after = failed
    BY <1>5 DEF Upload
  <2>2. after \in {failed, [failed EXCEPT !.stored = stored]}
    BY <2>1
  <2> HIDE DEF after, stored
  <2>3. AnsweredBy(world, items, X, r, after, parent, source, {"failed"})
    BY <1>3, <2>2, FailedStep
  <2> QED
    BY <2>3 DEF AnsweredBy, Statuses, after
<1>6. CASE /\ ~known /\ content # None
           /\ world.answer[Len(r.results) + 1] = "late"
  <2>1. after = [failed EXCEPT !.stored = stored]
    BY <1>6 DEF Upload
  <2>2. after \in {failed, [failed EXCEPT !.stored = stored]}
    BY <2>1
  <2> HIDE DEF after, stored
  <2>3. AnsweredBy(world, items, X, r, after, parent, source, {"failed"})
    BY <1>3, <2>2, FailedStep
  <2> QED
    BY <2>3 DEF AnsweredBy, Statuses, after
<1>7. CASE /\ ~known /\ content # None
           /\ world.answer[Len(r.results) + 1] \notin {"refused", "late"}
  <2> DEFINE line == Result(plan, parent, source, "created")
  <2>1. after = [With(r, line) EXCEPT
                    !.sources = @ \cup {own}, !.contents = @ \cup {pair}, !.stored = stored]
    BY <1>7 DEF Upload
  <2>2. /\ line \in Line(world, items, X)
        /\ line.source = source /\ line.parent = parent /\ line.status = "created"
    BY DEF Result, Line
  <2>3. ByKey(world, line) = own /\ ByContent(world, line) = pair
    BY <2>2 DEF ByKey, ByContent
  <2>4. pair \notin r.contents
    BY <1>7
  <2> HIDE DEF line, after, own, pair
  <2>5. Append(r.results, line) \in Seq(Line(world, items, X))
    BY <1>1, <2>2, LineAdded
  <2>6. /\ after \in RunState(world, items, X)
        /\ after.results = Append(r.results, line) /\ after.panicked = r.panicked
        /\ after.sources = r.sources \cup {own} /\ after.contents = r.contents \cup {pair}
        /\ after.stored = stored
    BY <1>2, <1>3, <2>1, <2>5 DEF With, RunState
  <2>7. RunInv(world, after)
    BY <2>2, <2>3, <2>4, <2>6, CreationKeeps
  <2> QED
    BY <2>2, <2>6, <2>7 DEF AnsweredBy, Statuses, after
<1> QED
  BY <1>4, <1>5, <1>6, <1>7

\* The run after i of a plan's attachments.
Grown(world, items, X, plan, r, s, i) ==
    /\ s \in RunState(world, items, X) /\ RunInv(world, s) /\ s.panicked = r.panicked
    /\ Len(s.results) = Len(r.results) + i
    /\ \A k \in 1 .. Len(r.results) : s.results[k] = r.results[k]
    /\ \A k \in 1 .. i :
           LET line == s.results[Len(r.results) + k]
           IN  /\ line.source = plan.attachments[k]
               /\ line.status # "failed" => line.parent = items[plan.index].id

\* With each line the report has grown by one more attachment of the plan.
LEMMA GrownStep ==
    ASSUME NEW world, NEW items, NEW X, NEW plan, NEW r \in RunState(world, items, X),
           NEW i \in Nat \ {0}, NEW s, Grown(world, items, X, plan, r, s, i - 1),
           NEW after, NEW parent, NEW statuses,
           AnsweredBy(world, items, X, s, after, parent, plan.attachments[i], statuses),
           \A x \in statuses : x # "failed" => parent = items[plan.index].id
    PROVE  Grown(world, items, X, plan, r, after, i)
<1> DEFINE old == s.results
           new == after.results
           m == Len(r.results)
<1>1. PICK line \in Line(world, items, X) :
          /\ line.source = plan.attachments[i] /\ line.parent = parent
          /\ line.status \in statuses /\ new = Append(old, line)
  BY DEF AnsweredBy
<1>2. /\ s \in RunState(world, items, X) /\ s.panicked = r.panicked
      /\ Len(old) = m + (i - 1)
      /\ \A k \in 1 .. m : old[k] = r.results[k]
      /\ \A k \in 1 .. i - 1 :
             /\ old[m + k].source = plan.attachments[k]
             /\ old[m + k].status # "failed" => old[m + k].parent = items[plan.index].id
  BY DEF Grown
<1>3. old \in Seq(Line(world, items, X)) /\ m \in Nat
  BY <1>2 DEF RunState
<1>4. /\ after \in RunState(world, items, X) /\ RunInv(world, after)
      /\ after.panicked = r.panicked
  BY <1>2 DEF AnsweredBy
<1> HIDE DEF old, new, m
<1>5. /\ new \in Seq(Line(world, items, X)) /\ DOMAIN new = 1 .. m + i
      /\ \A k \in 1 .. m + (i - 1) : new[k] = old[k]
      /\ new[m + i] = line
  <2>1. Len(old) + 1 = m + i
    BY <1>2, <1>3
  <2> QED
    BY <1>1, <1>2, <1>3, <2>1, LineAdded
<1>6. Len(new) = m + i
  BY <1>3, <1>5
<1>7. \A k \in 1 .. m : new[k] = r.results[k]
  BY <1>2, <1>3, <1>5
<1>8. ASSUME NEW k \in 1 .. i
      PROVE  /\ new[m + k].source = plan.attachments[k]
             /\ new[m + k].status # "failed" => new[m + k].parent = items[plan.index].id
  <2>1. CASE k = i
    BY <1>1, <1>5, <2>1
  <2>2. CASE k # i
    <3>1. k \in 1 .. i - 1 /\ new[m + k] = old[m + k]
      BY <1>3, <1>5, <2>2
    <3> QED
      BY <1>2, <3>1
  <2> QED
    BY <2>1, <2>2
<1> QED
  BY <1>4, <1>6, <1>7, <1>8 DEF Grown, new, m

\* upload_plan: unless it panics, one line more for each attachment, and
\* what did not fail is with the item the plan is for.
LEMMA PlanStep ==
    ASSUME NEW world, NEW items, NEW X, NEW r \in RunState(world, items, X), RunInv(world, r),
           NEW plan, plan.index \in X, plan.attachments \in Seq(Files(world))
    PROVE  LET after == UploadPlan(world, items, r, plan)
           IN  /\ after \in RunState(world, items, X) /\ RunInv(world, after)
               /\ ~after.panicked =>
                      Grown(world, items, X, plan, r, after, Len(plan.attachments))
<1> DEFINE check == Preflight(items, plan)
           parent == IF plan.index \in DOMAIN items THEN items[plan.index].id ELSE None
           n == Len(plan.attachments)
           St == {s \in RunState(world, items, X) : RunInv(world, s)}
           Turn(i, s) == IF check = "fine"
                         THEN Upload(world, s, plan, parent, plan.attachments[i])
                         ELSE With(s, Result(plan, parent, plan.attachments[i], "failed"))
           step == [p \in (1 .. n) \X St |-> Turn(p[1], p[2])]
           Body(g) == [i \in 0 .. n |->
                          IF i = 0 THEN r
                          ELSE IF check = "fine"
                          THEN Upload(world, g[i - 1], plan, parent, plan.attachments[i])
                          ELSE With(g[i - 1], Result(plan, parent, plan.attachments[i], "failed"))]
           run == CHOOSE g : g = Body(g)
           after == UploadPlan(world, items, r, plan)
           statuses == IF check = "fine" THEN Statuses ELSE {"failed"}
<1>1. after = IF r.panicked THEN r
              ELSE IF check = "panic" THEN [r EXCEPT !.panicked = TRUE] ELSE run[n]
  BY DEF UploadPlan
<1>2. parent \in Parents(items) /\ n \in Nat
  BY DEF Parents
<1>3. \A x \in statuses : x # "failed" => parent = items[plan.index].id
  BY DEF Preflight
<1>4. ASSUME NEW i \in 1 .. n, NEW s \in St
      PROVE  AnsweredBy(world, items, X, s, Turn(i, s), parent, plan.attachments[i], statuses)
  <2>1. plan.attachments[i] \in Files(world)
    OBVIOUS
  <2> DEFINE source == plan.attachments[i]
  <2>2. s \in RunState(world, items, X) /\ RunInv(world, s)
    OBVIOUS
  <2> HIDE DEF source, parent, St
  <2>3. CASE check = "fine"
    <3>1. AnsweredBy(world, items, X, s, Upload(world, s, plan, parent, source),
                     parent, source, Statuses)
      BY <1>2, <2>1, <2>2, UploadStep DEF source
    <3> QED
      BY <2>3, <3>1 DEF source
  <2>4. CASE check # "fine"
    <3> DEFINE failed == With(s, Result(plan, parent, source, "failed"))
    <3>1. s.stored \in Seq(Held(world, items))
      BY <2>2 DEF RunState
    <3>2. failed \in {failed, [failed EXCEPT !.stored = s.stored]}
      OBVIOUS
    <3>3. AnsweredBy(world, items, X, s, failed, parent, source, {"failed"})
      BY <1>2, <2>1, <2>2, <3>1, <3>2, FailedStep DEF source
    <3> QED
      BY <2>4, <3>3 DEF source
  <2> QED
    BY <2>3, <2>4
<1>5. r \in St
  OBVIOUS
<1>6. \A i \in 1 .. n : \A s \in St : Turn(i, s) \in St
  BY <1>4 DEF AnsweredBy
<1> HIDE DEF St, statuses, parent, n, check
<1>7. step \in [(1 .. n) \X St -> St]
  BY <1>6
<1>8. \A i \in 1 .. n : \A s \in St : step[<<i, s>>] = Turn(i, s)
  OBVIOUS
<1> HIDE DEF step
<1>9. PICK g : g \in Carried(n, St, r, step)
  BY <1>2, <1>5, <1>7, Recursion
<1>10. /\ g \in [0 .. n -> St]
       /\ g[0] = r /\ \A i \in 1 .. n : g[i] = step[<<i, g[i - 1]>>]
       /\ \A i \in 1 .. n : i - 1 \in 0 .. n /\ g[i - 1] \in St
  BY <1>2, <1>9 DEF Carried
<1>11. g = Body(g)
  <2>1. \A i \in 0 .. n : g[i] = IF i = 0 THEN r ELSE Turn(i, g[i - 1])
    <3>1. \A i \in 0 .. n : i # 0 => i \in 1 .. n
      BY <1>2
    <3> HIDE DEF Turn
    <3> QED
      BY <1>8, <1>10, <3>1
  <2> QED
    BY <1>10, <2>1
<1>12. run = Body(run)
  BY <1>11
<1> HIDE DEF run
<1>13. run[0] = r /\ \A i \in 1 .. n : run[i] = Turn(i, run[i - 1])
  <2>1. \A i \in 0 .. n : run[i] = IF i = 0 THEN r ELSE Turn(i, run[i - 1])
    BY <1>12
  <2> HIDE DEF Turn
  <2> QED
    BY <1>2, <2>1
<1> HIDE DEF Turn, Body
<1>14. \A i \in 0 .. n : Grown(world, items, X, plan, r, run[i], i)
  <2> DEFINE T == {i \in 0 .. n : Grown(world, items, X, plan, r, run[i], i)}
  <2>1. 0 \in T
    <3>1. Len(r.results) + 0 = Len(r.results)
      BY DEF RunState
    <3>2. Grown(world, items, X, plan, r, r, 0)
      BY <3>1 DEF Grown
    <3> QED
      BY <1>2, <1>13, <3>2
  <2>2. ASSUME NEW m \in 0 .. n - 1, m \in T PROVE m + 1 \in T
    <3>1. m + 1 \in 1 .. n /\ (m + 1) - 1 = m /\ m + 1 \in 0 .. n /\ m + 1 \in Nat \ {0}
      BY <1>2
    <3>2. run[m] \in St /\ Grown(world, items, X, plan, r, run[m], m)
      BY <2>2 DEF Grown, St
    <3>3. run[m + 1] = Turn(m + 1, run[m])
      BY <1>13, <3>1
    <3>4. AnsweredBy(world, items, X, run[m], run[m + 1], parent, plan.attachments[m + 1], statuses)
      BY <1>4, <3>1, <3>2, <3>3
    <3>5. Grown(world, items, X, plan, r, run[m], (m + 1) - 1)
      BY <3>1, <3>2
    <3>6. Grown(world, items, X, plan, r, run[m + 1], m + 1)
      BY <1>3, <3>1, <3>4, <3>5, GrownStep
    <3> QED
      BY <3>1, <3>6
  <2> HIDE DEF T
  <2>3. \A i \in 0 .. n : i \in T
    BY <1>2, <2>1, <2>2, Induction
  <2> QED
    BY <2>3 DEF T
<1>15. Grown(world, items, X, plan, r, run[n], n)
  BY <1>2, <1>14
<1>16. CASE r.panicked
  BY <1>1, <1>16
<1>17. CASE ~r.panicked /\ check = "panic"
  <2>1. after = [r EXCEPT !.panicked = TRUE]
    BY <1>1, <1>17
  <2>2. /\ after \in RunState(world, items, X) /\ after.panicked
        /\ after.results = r.results /\ after.sources = r.sources
        /\ after.contents = r.contents /\ after.stored = r.stored
    BY <2>1 DEF RunState
  <2> HIDE DEF after
  <2>3. RunInv(world, after)
    BY <2>2 DEF RunInv, Remembered, SkipsAreThere, CreatedOnce, StoredOnce, Unfailed
  <2> QED
    BY <2>2, <2>3 DEF after
<1>18. CASE ~r.panicked /\ check # "panic"
  BY <1>1, <1>15, <1>18 DEF Grown, n
<1> QED
  BY <1>16, <1>17, <1>18

\* Plans as the manifest or the entries themselves give them.
PlansOf(world, X, plans) ==
    /\ Len(plans) \in Nat /\ DOMAIN plans = 1 .. Len(plans)
    /\ \A i \in 1 .. Len(plans) :
           plans[i].index \in X /\ plans[i].attachments \in Seq(Files(world))

\* The attachments of the first i plans, one after the other.
PlannedBy(world, plans, all) ==
    /\ all \in [0 .. Len(plans) -> Seq(Files(world))]
    /\ Planned(plans) = all[Len(plans)]
    /\ all[0] = <<>>
    /\ \A i \in 1 .. Len(plans) : all[i] = all[i - 1] \o plans[i].attachments

\* There is such a list of all planned attachments.
LEMMA PlannedRuns ==
    ASSUME NEW world, NEW X, NEW plans, PlansOf(world, X, plans)
    PROVE  \E all : PlannedBy(world, plans, all)
<1> DEFINE n == Len(plans)
           St == Seq(Files(world))
           Longer(i, t) == t \o plans[i].attachments
           step == [p \in (1 .. n) \X St |-> Longer(p[1], p[2])]
           Body(g) == [i \in 0 .. n |-> IF i = 0 THEN <<>> ELSE Longer(i, g[i - 1])]
           all == CHOOSE g : g = Body(g)
<1>1. n \in Nat /\ <<>> \in St
  BY DEF PlansOf
<1>2. \A i \in 1 .. n : \A t \in St : Longer(i, t) \in St
  BY DEF PlansOf
<1>3. step \in [(1 .. n) \X St -> St]
  BY <1>2
<1>4. \A i \in 1 .. n : \A t \in St : step[<<i, t>>] = Longer(i, t)
  OBVIOUS
<1>5. Planned(plans) = all[n]
  BY DEF Planned
<1> HIDE DEF n, St, step, Longer
<1>6. PICK g : g \in Carried(n, St, <<>>, step)
  BY <1>1, <1>3, Recursion
<1>7. /\ g \in [0 .. n -> St]
      /\ g[0] = <<>> /\ \A i \in 1 .. n : g[i] = step[<<i, g[i - 1]>>]
      /\ \A i \in 1 .. n : i - 1 \in 0 .. n /\ g[i - 1] \in St
  BY <1>1, <1>6 DEF Carried
<1>8. g = Body(g)
  <2>1. \A i \in 0 .. n : g[i] = IF i = 0 THEN <<>> ELSE Longer(i, g[i - 1])
    <3>1. \A i \in 0 .. n : i # 0 => i \in 1 .. n
      BY <1>1
    <3> QED
      BY <1>4, <1>7, <3>1
  <2> QED
    BY <1>7, <2>1
<1>9. all = Body(all)
  BY <1>8
<1> HIDE DEF all
<1>10. all[0] = <<>> /\ \A i \in 1 .. n : all[i] = Longer(i, all[i - 1])
  <2>1. \A i \in 0 .. n : all[i] = IF i = 0 THEN <<>> ELSE Longer(i, all[i - 1])
    BY <1>9
  <2> QED
    BY <1>1, <2>1
<1>11. all \in [0 .. n -> St]
  <2>1. \A i \in 1 .. n : all[i - 1] \in St => all[i] \in St
    BY <1>2, <1>10
  <2>2. \A i \in 0 .. n : all[i] \in St
    BY <1>1, <1>10, <2>1, KeptAlong
  <2> QED
    BY <1>9, <2>2
<1> QED
  BY <1>5, <1>10, <1>11 DEF PlannedBy, n, St, Longer

\* The run after each plan.
LEMMA RunRuns ==
    ASSUME NEW world, NEW items, NEW X, NEW plans, PlansOf(world, X, plans)
    PROVE  \E run : /\ Run(world, items, plans) = run[Len(plans)]
                    /\ run[0] = Begun
                    /\ \A i \in 1 .. Len(plans) :
                           run[i] = UploadPlan(world, items, run[i - 1], plans[i])
                    /\ \A i \in 0 .. Len(plans) :
                           run[i] \in RunState(world, items, X) /\ RunInv(world, run[i])
<1> DEFINE n == Len(plans)
           St == {s \in RunState(world, items, X) : RunInv(world, s)}
           step == [p \in (1 .. n) \X St |-> UploadPlan(world, items, p[2], plans[p[1]])]
           Body(g) == [i \in 0 .. n |-> IF i = 0 THEN Begun
                                        ELSE UploadPlan(world, items, g[i - 1], plans[i])]
           run == CHOOSE g : g = Body(g)
<1>1. n \in Nat
  BY DEF PlansOf
<1>2. Begun \in St
  <2>1. Begun \in RunState(world, items, X)
    BY DEF Begun, RunState
  <2>2. RunInv(world, Begun)
    BY DEF Begun, RunInv, Remembered, SkipsAreThere, CreatedOnce, StoredOnce, ToSet
  <2> QED
    BY <2>1, <2>2
<1>3. \A i \in 1 .. n : \A s \in St : UploadPlan(world, items, s, plans[i]) \in St
  BY PlanStep DEF PlansOf
<1>4. step \in [(1 .. n) \X St -> St]
  BY <1>3
<1>5. \A i \in 1 .. n : \A s \in St : step[<<i, s>>] = UploadPlan(world, items, s, plans[i])
  OBVIOUS
<1>6. Run(world, items, plans) = run[n]
  BY DEF Run
<1>7. \A s \in St : s \in RunState(world, items, X) /\ RunInv(world, s)
  OBVIOUS
<1> HIDE DEF n, St, step
<1>8. PICK g : g \in Carried(n, St, Begun, step)
  BY <1>1, <1>2, <1>4, Recursion
<1>9. /\ g \in [0 .. n -> St]
      /\ g[0] = Begun /\ \A i \in 1 .. n : g[i] = step[<<i, g[i - 1]>>]
      /\ \A i \in 1 .. n : i - 1 \in 0 .. n /\ g[i - 1] \in St
  BY <1>1, <1>8 DEF Carried
<1>10. g = Body(g)
  <2>1. \A i \in 0 .. n :
            g[i] = IF i = 0 THEN Begun ELSE UploadPlan(world, items, g[i - 1], plans[i])
    <3>1. \A i \in 0 .. n : i # 0 => i \in 1 .. n
      BY <1>1
    <3> QED
      BY <1>5, <1>9, <3>1
  <2> QED
    BY <1>9, <2>1
<1>11. run = Body(run)
  BY <1>10
<1> HIDE DEF run
<1>12. /\ run[0] = Begun
       /\ \A i \in 1 .. n : run[i] = UploadPlan(world, items, run[i - 1], plans[i])
  <2>1. \A i \in 0 .. n :
            run[i] = IF i = 0 THEN Begun ELSE UploadPlan(world, items, run[i - 1], plans[i])
    BY <1>11
  <2> QED
    BY <1>1, <2>1
<1>13. \A i \in 0 .. n : run[i] \in St
  <2>1. \A i \in 1 .. n : run[i - 1] \in St => run[i] \in St
    BY <1>3, <1>12
  <2> QED
    BY <1>1, <1>2, <1>12, <2>1, KeptAlong
<1> QED
  BY <1>6, <1>7, <1>12, <1>13 DEF n

\* What the report says after i plans, unless the run panicked.
Reported(items, plans, planned, s, i) ==
    ~s.panicked =>
        /\ Len(s.results) = Len(planned)
        /\ \A k \in 1 .. Len(planned) : s.results[k].source = planned[k]
        /\ \A j \in 1 .. i : \A k \in DOMAIN plans[j].attachments :
               \E h \in DOMAIN s.results :
                   /\ s.results[h].source = plans[j].attachments[k]
                   /\ s.results[h].status # "failed" =>
                          s.results[h].parent = items[plans[j].index].id

\* After one more plan the report has one more plan's attachments.
LEMMA ReportedStep ==
    ASSUME NEW world, NEW items, NEW X, NEW plans, PlansOf(world, X, plans),
           NEW planned \in Seq(Files(world)), NEW i \in 1 .. Len(plans),
           NEW r \in RunState(world, items, X), RunInv(world, r),
           Reported(items, plans, planned, r, i - 1)
    PROVE  Reported(items, plans, planned \o plans[i].attachments,
                    UploadPlan(world, items, r, plans[i]), i)
<1> DEFINE plan == plans[i]
           more == plan.attachments
           after == UploadPlan(world, items, r, plan)
           all == planned \o more
           n == Len(more)
           m == Len(r.results)
<1>1. plan.index \in X /\ more \in Seq(Files(world)) /\ Len(plans) \in Nat
  BY DEF PlansOf
<1> HIDE DEF plan
<1>2. /\ after \in RunState(world, items, X)
      /\ ~after.panicked => Grown(world, items, X, plan, r, after, n)
  BY <1>1, PlanStep
<1> SUFFICES ASSUME ~after.panicked
             PROVE  Reported(items, plans, all, after, i)
  BY DEF plan, Reported
<1> HIDE DEF after, all, n, m
<1>3. /\ ~r.panicked /\ Len(after.results) = m + n
      /\ \A k \in 1 .. m : after.results[k] = r.results[k]
      /\ \A k \in 1 .. n :
             /\ after.results[m + k].source = more[k]
             /\ after.results[m + k].status # "failed" =>
                    after.results[m + k].parent = items[plan.index].id
  BY <1>2 DEF Grown, m, n
<1>4. /\ m = Len(planned)
      /\ \A k \in 1 .. m : r.results[k].source = planned[k]
      /\ \A j \in 1 .. i - 1 : \A k \in DOMAIN plans[j].attachments :
             \E h \in DOMAIN r.results :
                 /\ r.results[h].source = plans[j].attachments[k]
                 /\ r.results[h].status # "failed" =>
                        r.results[h].parent = items[plans[j].index].id
  BY <1>3 DEF Reported, m
<1>5. /\ m \in Nat /\ DOMAIN r.results = 1 .. m
      /\ n \in Nat /\ DOMAIN more = 1 .. n
      /\ DOMAIN after.results = 1 .. m + n
  <2>1. r.results \in Seq(Line(world, items, X)) /\ after.results \in Seq(Line(world, items, X))
    BY <1>2 DEF RunState
  <2>2. m \in Nat /\ DOMAIN r.results = 1 .. m
    BY <2>1 DEF m
  <2>3. n \in Nat /\ DOMAIN more = 1 .. n
    <3> HIDE DEF more
    <3> QED
      BY <1>1 DEF n
  <2>4. DOMAIN after.results = 1 .. Len(after.results)
    BY <2>1
  <2> QED
    BY <1>3, <2>2, <2>3, <2>4
<1>6. /\ Len(all) = m + n
      /\ \A k \in 1 .. m : all[k] = planned[k]
      /\ \A k \in 1 .. n : all[m + k] = more[k]
  BY <1>1, <1>4 DEF all, n
<1>7. ASSUME NEW k \in 1 .. m + n
      PROVE  after.results[k].source = all[k]
  <2>1. CASE k \in 1 .. m
    BY <1>3, <1>4, <1>6, <2>1
  <2>2. CASE k \notin 1 .. m
    <3>1. k - m \in 1 .. n /\ m + (k - m) = k
      BY <1>5, <2>2
    <3>2. after.results[m + (k - m)].source = all[m + (k - m)]
      BY <1>3, <1>6, <3>1
    <3> QED
      BY <3>1, <3>2
  <2> QED
    BY <2>1, <2>2
<1>8. ASSUME NEW j \in 1 .. i, NEW k \in DOMAIN plans[j].attachments
      PROVE  \E h \in DOMAIN after.results :
                   /\ after.results[h].source = plans[j].attachments[k]
                   /\ after.results[h].status # "failed" =>
                          after.results[h].parent = items[plans[j].index].id
  <2>1. CASE j = i
    <3>1. k \in 1 .. n /\ m + k \in DOMAIN after.results
      BY <1>5, <2>1 DEF plan
    <3> QED
      BY <1>3, <2>1, <3>1 DEF plan
  <2>2. CASE j # i
    <3>1. j \in 1 .. i - 1
      BY <2>2
    <3>2. PICK h \in DOMAIN r.results :
              /\ r.results[h].source = plans[j].attachments[k]
              /\ r.results[h].status # "failed" =>
                     r.results[h].parent = items[plans[j].index].id
      BY <1>4, <3>1
    <3>3. h \in DOMAIN after.results /\ after.results[h] = r.results[h]
      BY <1>3, <1>5
    <3> QED
      BY <3>2, <3>3
  <2> QED
    BY <2>1, <2>2
<1> QED
  BY <1>3, <1>6, <1>7, <1>8 DEF Reported

\* A list has each of its elements once: the places of one are one place.
LEMMA OncePlaced ==
    ASSUME NEW s, NEW x \in ToSet(s), \A i, j \in DOMAIN s : i # j => s[i] # s[j]
    PROVE  Cardinality({i \in DOMAIN s : s[i] = x}) = 1
<1>1. PICK k \in DOMAIN s : s[k] = x
  BY DEF ToSet
<1>2. {i \in DOMAIN s : s[i] = x} = {k}
  BY <1>1
<1> QED
  BY <1>2, FS_Singleton

\* Of any plans: what is skipped is there, and success means stored.
LEMMA UploadsAreAnswered ==
    ASSUME NEW world, NEW items, NEW X, NEW plans, PlansOf(world, X, plans),
           \A s, t \in Files(world) :
               world.key[s] = world.key[t] => world.content[s] = world.content[t]
    PROVE  /\ SkippedMeansThere(world, items, plans)
           /\ SuccessMeansStored(world, items, plans)
<1> DEFINE n == Len(plans)
           final == Run(world, items, plans)
           lines == final.results
<1>1. n \in Nat /\ DOMAIN plans = 1 .. n
  BY DEF PlansOf
<1>2. PICK all : /\ all \in [0 .. n -> Seq(Files(world))]
                 /\ Planned(plans) = all[n] /\ all[0] = <<>>
                 /\ \A i \in 1 .. n : all[i] = all[i - 1] \o plans[i].attachments
  <2>1. PICK all : PlannedBy(world, plans, all)
    BY PlannedRuns
  <2> QED
    BY <2>1 DEF PlannedBy
<1>3. PICK run : /\ final = run[n] /\ run[0] = Begun
                 /\ \A i \in 1 .. n : run[i] = UploadPlan(world, items, run[i - 1], plans[i])
                 /\ \A i \in 0 .. n : run[i] \in RunState(world, items, X) /\ RunInv(world, run[i])
  BY RunRuns
<1> HIDE DEF final
<1>4. \A i \in 0 .. n : Reported(items, plans, all[i], run[i], i)
  <2> DEFINE T == {i \in 0 .. n : Reported(items, plans, all[i], run[i], i)}
  <2>1. 0 \in T
    <3>1. Reported(items, plans, <<>>, Begun, 0)
      BY DEF Reported, Begun
    <3> QED
      BY <1>1, <1>2, <1>3, <3>1
  <2>2. ASSUME NEW m \in 0 .. n - 1, m \in T PROVE m + 1 \in T
    <3>1. m + 1 \in 1 .. n /\ (m + 1) - 1 = m /\ m + 1 \in 0 .. n /\ m \in 0 .. n
      BY <1>1
    <3>2. /\ all[m] \in Seq(Files(world))
          /\ run[m] \in RunState(world, items, X) /\ RunInv(world, run[m])
          /\ Reported(items, plans, all[m], run[m], (m + 1) - 1)
      BY <1>2, <1>3, <2>2, <3>1
    <3>3. /\ all[m + 1] = all[m] \o plans[m + 1].attachments
          /\ run[m + 1] = UploadPlan(world, items, run[m], plans[m + 1])
      BY <1>2, <1>3, <3>1
    <3>4. Reported(items, plans, all[m] \o plans[m + 1].attachments,
                   UploadPlan(world, items, run[m], plans[m + 1]), m + 1)
      BY <3>1, <3>2, ReportedStep
    <3> QED
      BY <3>1, <3>3, <3>4
  <2> HIDE DEF T
  <2>3. \A i \in 0 .. n : i \in T
    BY <1>1, <2>1, <2>2, Induction
  <2> QED
    BY <2>3 DEF T
<1>5. /\ final \in RunState(world, items, X) /\ RunInv(world, final)
      /\ Reported(items, plans, Planned(plans), final, n)
      /\ Planned(plans) \in Seq(Files(world))
  BY <1>1, <1>2, <1>3, <1>4
<1>6. /\ lines \in Seq(Line(world, items, X)) /\ DOMAIN lines = 1 .. Len(lines)
      /\ \A i \in DOMAIN lines : lines[i] \in Line(world, items, X)
  <2>1. lines \in Seq(Line(world, items, X))
    BY <1>5 DEF RunState
  <2> HIDE DEF lines
  <2> QED
    BY <2>1
<1>0. \A i \in DOMAIN lines : lines[i].status \in Statuses /\ lines[i].source \in Files(world)
  <2>1. \A line \in Line(world, items, X) : line.status \in Statuses /\ line.source \in Files(world)
    BY DEF Line, Statuses
  <2> QED
    BY <1>6, <2>1
<1>7. SkippedMeansThere(world, items, plans)
  <2> SUFFICES ASSUME ~final.panicked
               PROVE  /\ [i \in DOMAIN lines |-> lines[i].source] = Planned(plans)
                      /\ \A i \in DOMAIN lines : lines[i].status = "skipped_duplicate" =>
                             \E j \in 1 .. i - 1 :
                                 /\ lines[j].status = "created"
                                 /\ lines[j].parent = lines[i].parent
                                 /\ \/ world.key[lines[j].source] = world.key[lines[i].source]
                                    \/ world.content[lines[j].source] = world.content[lines[i].source]
                      /\ \A i, j \in DOMAIN lines :
                             /\ i < j
                             /\ lines[i].status = "created" /\ lines[i].parent = lines[j].parent
                             /\ lines[j].status = "created"
                             => world.content[lines[i].source] # world.content[lines[j].source]
    BY DEF SkippedMeansThere, final
  <2>1. [i \in DOMAIN lines |-> lines[i].source] = Planned(plans)
    <3>1. /\ Len(lines) = Len(Planned(plans))
          /\ \A k \in 1 .. Len(lines) : lines[k].source = Planned(plans)[k]
      BY <1>5 DEF Reported
    <3>2. DOMAIN Planned(plans) = 1 .. Len(Planned(plans))
      BY <1>5
    <3>3. Planned(plans) = [i \in 1 .. Len(Planned(plans)) |-> Planned(plans)[i]]
      BY <1>5, <3>2
    <3> QED
      BY <1>6, <3>1, <3>2, <3>3
  <2>2. \A i \in DOMAIN lines : lines[i].status = "skipped_duplicate" =>
            \E j \in 1 .. i - 1 :
                /\ lines[j].status = "created"
                /\ lines[j].parent = lines[i].parent
                /\ \/ world.key[lines[j].source] = world.key[lines[i].source]
                   \/ world.content[lines[j].source] = world.content[lines[i].source]
    BY <1>5 DEF RunInv, SkipsAreThere
  <2>3. \A i, j \in DOMAIN lines :
            /\ i < j
            /\ lines[i].status = "created" /\ lines[i].parent = lines[j].parent
            /\ lines[j].status = "created"
            => world.content[lines[i].source] # world.content[lines[j].source]
    BY <1>5 DEF RunInv, CreatedOnce
  <2> QED
    BY <2>1, <2>2, <2>3
<1>8. SuccessMeansStored(world, items, plans)
  <2> SUFFICES ASSUME ~final.panicked, Status(final) = "success",
                      NEW p \in ToSet(plans), NEW source \in ToSet(p.attachments)
               PROVE  Cardinality({i \in DOMAIN final.stored :
                          final.stored[i] = <<items[p.index].id, world.content[source]>>}) = 1
    BY DEF SuccessMeansStored, final
  <2>1. Unfailed(final)
    <3> DEFINE failed == {i \in DOMAIN lines : lines[i].status = "failed"}
    <3>1. ~ (Cardinality(failed) > 0)
      BY DEF Status, Count
    <3>2. IsFiniteSet(DOMAIN lines) /\ failed \in SUBSET DOMAIN lines
      <4>1. Len(lines) \in Int
        BY <1>6
      <4>2. IsFiniteSet(1 .. Len(lines))
        BY <4>1, FS_Interval
      <4> QED
        BY <1>6, <4>2
    <3> HIDE DEF failed
    <3>3. IsFiniteSet(failed)
      BY <3>2, FS_Subset
    <3>4. Cardinality(failed) \in Nat
      BY <3>3, FS_CardinalityType
    <3>5. Cardinality(failed) = 0
      BY <3>1, <3>4
    <3>6. failed = {}
      BY <3>3, <3>5, FS_EmptySet
    <3> QED
      BY <3>6 DEF Unfailed, failed
  <2>2. PICK j \in 1 .. n : plans[j] = p
    BY <1>1 DEF ToSet
  <2>3. PICK k \in DOMAIN p.attachments : p.attachments[k] = source
    BY DEF ToSet
  <2>4. PICK h \in DOMAIN lines :
            /\ lines[h].source = source
            /\ lines[h].status # "failed" => lines[h].parent = items[p.index].id
    BY <1>5, <2>2, <2>3 DEF Reported
  <2>5. lines[h].status \in {"created", "skipped_duplicate"} /\ lines[h].source \in Files(world)
    BY <1>0, <2>1 DEF Unfailed, Statuses
  <2>6. ByContent(world, lines[h]) \in final.contents
    <3>1. CASE lines[h].status = "created"
      BY <1>5, <3>1 DEF RunInv, Remembered
    <3>2. CASE lines[h].status = "skipped_duplicate"
      <4>1. PICK w \in 1 .. h - 1 :
                /\ lines[w].status = "created" /\ lines[w].parent = lines[h].parent
                /\ \/ world.key[lines[w].source] = world.key[lines[h].source]
                   \/ world.content[lines[w].source] = world.content[lines[h].source]
        BY <1>5, <3>2 DEF RunInv, SkipsAreThere
      <4>2. w \in DOMAIN lines /\ lines[w].source \in Files(world)
        <5>1. w \in DOMAIN lines
          <6>1. Len(lines) \in Nat /\ h \in 1 .. Len(lines)
            BY <1>6
          <6> QED
            BY <1>6, <6>1
        <5> QED
          BY <1>0, <5>1
      <4>3. world.content[lines[w].source] = world.content[lines[h].source]
        BY <2>5, <4>1, <4>2
      <4>4. ByContent(world, lines[w]) \in final.contents
        BY <1>5, <4>1, <4>2 DEF RunInv, Remembered
      <4> QED
        BY <4>1, <4>3, <4>4 DEF ByContent
    <3> QED
      BY <2>5, <3>1, <3>2
  <2>7. ByContent(world, lines[h]) = <<items[p.index].id, world.content[source]>>
    BY <2>4, <2>5 DEF ByContent
  <2>8. /\ <<items[p.index].id, world.content[source]>> \in ToSet(final.stored)
        /\ \A i, j_1 \in DOMAIN final.stored : i # j_1 => final.stored[i] # final.stored[j_1]
    BY <1>5, <2>1, <2>6, <2>7 DEF RunInv, StoredOnce
  <2> QED
    BY <2>8, OncePlaced
<1> QED
  BY <1>7, <1>8

\* Well-formed entries plan attachments that are there to be fetched.
LEMMA DescriptorsAreFiles ==
    ASSUME NEW world, NEW raws \in Raws(world), WellFormed(raws)
    PROVE  Descriptors(raws) \in Seq(Files(world))
<1>1. raws \in Seq([path: DOMAIN world.key \cup {None}, url: DOMAIN world.key \cup {None}])
  BY DEF Raws
<1>2. Len(raws) \in Nat /\ DOMAIN raws = 1 .. Len(raws)
  BY <1>1
<1>3. ASSUME NEW i \in 1 .. Len(raws)
      PROVE  Descriptor(raws[i]).source \in Files(world)
  <2>1. Descriptor(raws[i]).ok
    BY <1>2 DEF WellFormed
  <2>2. raws[i] \in [path: DOMAIN world.key \cup {None}, url: DOMAIN world.key \cup {None}]
    <3> DEFINE R == [path: DOMAIN world.key \cup {None}, url: DOMAIN world.key \cup {None}]
    <3>1. raws \in Seq(R)
      BY <1>1
    <3> HIDE DEF R
    <3>2. raws[i] \in R
      BY <3>1
    <3> QED
      BY <3>2 DEF R
  <2>3. (raws[i].path = None) # (raws[i].url = None)
    BY <2>1 DEF Descriptor
  <2>4. Descriptor(raws[i]).source = IF raws[i].path = None THEN raws[i].url ELSE raws[i].path
    BY <2>3 DEF Descriptor
  <2> QED
    BY <2>2, <2>3, <2>4 DEF Files
<1>4. Descriptors(raws) = [i \in 1 .. Len(raws) |-> Descriptor(raws[i]).source]
  BY <1>2 DEF Descriptors
<1> QED
  BY <1>2, <1>3, <1>4

\* What a manifest is read into are plans,
LEMMA ManifestPlans ==
    ASSUME NEW world, NEW entries, IsList(entries),
           \A i \in DOMAIN entries : entries[i].raws \in Raws(world)
    PROVE  PlansOf(world, {entries[i].index : i \in DOMAIN entries}, ReadManifest(entries).plans)
<1> DEFINE plans == ReadManifest(entries).plans
           X == {entries[i].index : i \in DOMAIN entries}
           m == Len(entries)
<1>1. m \in Nat /\ DOMAIN entries = 1 .. m
  BY DEF IsList
<1>2. PlansOf(world, X, <<>>)
  BY DEF PlansOf
<1>3. CASE ReadManifest(entries).ok
  <2> DEFINE made == [i \in DOMAIN entries |->
                        [index |-> entries[i].index, title |-> entries[i].title,
                         attachments |-> Descriptors(entries[i].raws)]]
  <2>1. /\ plans = made
        /\ \A i \in DOMAIN entries : WellFormed(entries[i].raws)
    BY <1>3 DEF ReadManifest, Malformed
  <2>2. \A i \in DOMAIN entries : Descriptors(entries[i].raws) \in Seq(Files(world))
    BY <2>1, DescriptorsAreFiles
  <2>3. /\ DOMAIN made = 1 .. m
        /\ \A i \in 1 .. m : made[i].index \in X /\ made[i].attachments \in Seq(Files(world))
    BY <1>1, <2>2
  <2>4. Len(made) = m
    BY <1>1, <2>3
  <2> HIDE DEF made
  <2> QED
    BY <1>1, <2>1, <2>3, <2>4 DEF PlansOf
<1>4. CASE ~ReadManifest(entries).ok
  <2>1. plans = <<>>
    BY <1>4 DEF ReadManifest, Malformed
  <2> QED
    BY <1>2, <2>1
<1> QED
  BY <1>3, <1>4

\* ... and what the attachments inside the items are.
LEMMA InlineAttachmentPlans ==
    ASSUME NEW world, NEW entries, IsList(entries),
           \A i \in DOMAIN entries : entries[i].raws \in Raws(world)
    PROVE  PlansOf(world, Nat, InlinePlans(entries).plans)
<1> DEFINE plans == InlinePlans(entries).plans
           some == {i \in DOMAIN entries : entries[i].raws # <<>>}
           with == InOrder(some, Ascending(some))
           m == Cardinality(some)
<1>1. Len(entries) \in Nat /\ DOMAIN entries = 1 .. Len(entries)
  BY DEF IsList
<1>2. some \in SUBSET (1 .. Len(entries))
  BY <1>1
<1> HIDE DEF some
<1>3. IsFiniteSet(some) /\ some \subseteq Int
  <2>1. IsFiniteSet(1 .. Len(entries))
    BY <1>1, FS_Interval
  <2>2. IsFiniteSet(some)
    BY <1>2, <2>1, FS_Subset
  <2> QED
    BY <1>2, <2>2
<1>4. m \in Nat /\ with \in [1 .. m -> some]
  BY <1>3, AscendingOrder, Listing
<1> HIDE DEF with, m
<1>5. PlansOf(world, Nat, <<>>)
  BY DEF PlansOf
<1>6. CASE InlinePlans(entries).ok
  <2> DEFINE made == [k \in DOMAIN with |->
                            [index |-> with[k], title |-> None,
                             attachments |-> Descriptors(entries[with[k]].raws)]]
  <2>1. /\ plans = made
        /\ \A i \in DOMAIN entries : WellFormed(entries[i].raws)
    BY <1>6 DEF InlinePlans, Malformed, with, some
  <2>2. \A i \in DOMAIN entries : Descriptors(entries[i].raws) \in Seq(Files(world))
    BY <2>1, DescriptorsAreFiles
  <2>3. \A k \in 1 .. m : with[k] \in Nat /\ with[k] \in DOMAIN entries
    <3>1. \A k \in 1 .. m : with[k] \in some
      BY <1>4
    <3>2. \A i \in some : i \in Nat /\ i \in DOMAIN entries
      BY <1>1, <1>2
    <3> QED
      BY <3>1, <3>2
  <2>4. /\ DOMAIN made = 1 .. m
        /\ \A k \in 1 .. m : made[k].index \in Nat /\ made[k].attachments \in Seq(Files(world))
    BY <1>4, <2>2, <2>3
  <2>5. Len(made) = m
    BY <1>4, <2>4
  <2> HIDE DEF made
  <2> QED
    BY <1>4, <2>1, <2>4, <2>5 DEF PlansOf
<1>7. CASE ~InlinePlans(entries).ok
  <2>1. plans = <<>>
    BY <1>7 DEF InlinePlans, Malformed
  <2> QED
    BY <1>5, <2>1
<1> QED
  BY <1>6, <1>7

\* Of every manifest and every list of items with attachments, whatever the
\* Connector refuses or answers too late: each planned attachment has its
\* line, a skipped one is in Zotero, and after a success all of them are,
\* once (import_attachments.rs:117-312).
THEOREM SkippedMeansStoredHolds == DecisionSpec => []SkippedMeansStored
<1>1. ASSUME Given, case.of = "uploads"
      PROVE  LET c == case.given
             IN  /\ SkippedMeansThere(c.world, c.items, ReadManifest(c.entries).plans)
                 /\ SuccessMeansStored(c.world, c.items, ReadManifest(c.entries).plans)
                 /\ SuccessMeansStored(c.world, c.items, InlinePlans(c.entries).plans)
  <2> DEFINE c == case.given
             manifest == ReadManifest(c.entries).plans
             inline == InlinePlans(c.entries).plans
             X == {c.entries[i].index : i \in DOMAIN c.entries}
  <2>1. c \in Uploads
    BY <1>1 DEF Given
  <2> HIDE DEF c
  <2>2. /\ IsList(c.entries)
        /\ \A i \in DOMAIN c.entries : c.entries[i].raws \in Raws(c.world)
        /\ \A s, t \in Files(c.world) :
               c.world.key[s] = c.world.key[t] => c.world.content[s] = c.world.content[t]
    BY <2>1, UploadAssump DEF Files
  <2>3. PlansOf(c.world, X, manifest) /\ PlansOf(c.world, Nat, inline)
    BY <2>2, ManifestPlans, InlineAttachmentPlans
  <2> HIDE DEF manifest, inline, X
  <2>4. /\ SkippedMeansThere(c.world, c.items, manifest)
        /\ SuccessMeansStored(c.world, c.items, manifest)
        /\ SuccessMeansStored(c.world, c.items, inline)
    BY <2>2, <2>3, UploadsAreAnswered
  <2> QED
    BY <2>4 DEF c, manifest, inline
<1>2. Given => SkippedMeansStored
  BY <1>1 DEF SkippedMeansStored
<1> QED
  BY <1>2, GivenAlways, PTL
-----------------------------------------------------------------------------
(* Merges.                                                                 *)

\* What is held when a merge is asked for, the library selected, and the
\* references.
Mergeable(held, selected, keep, all) ==
    /\ IsList(all)
    /\ selected = {} \/ \E l : selected = {l}
    /\ \A o \in held : LibraryItem(o) /\ o.library \in Listed
    /\ \A o, p \in held :
           \/ o = p
           \/ (o.key # p.key \/ o.library # p.library) /\ o.children \cap p.children = {}
    /\ \A r \in ToSet(all) : r.key = keep.key => r = keep
    /\ \A r \in ToSet(all) \cup {keep} : r.kind = "key"

\* The items of the library previewed that a key names.
OnShelf(held, selected, ref) ==
    {o \in held : o.key = ref.key /\ o.library \in Previewed(selected)}

\* What is left of the references without the survivor's.
LEMMA OtherReferences ==
    ASSUME NEW held, NEW selected, NEW keep, NEW all, Mergeable(held, selected, keep, all)
    PROVE  LET refs == WithoutKeep(keep, all)
           IN  /\ \E c \in Nat : DOMAIN refs = 1 .. c /\ (c = 0 => refs = <<>>)
               /\ \A i \in DOMAIN refs : refs[i].kind = "key" /\ refs[i].key # keep.key
<1> DEFINE P == {i \in DOMAIN all : all[i] # keep}
           c == Cardinality(P)
           refs == WithoutKeep(keep, all)
<1>1. P \in SUBSET (1 .. Len(all)) /\ Len(all) \in Nat /\ DOMAIN all = 1 .. Len(all)
  BY DEF Mergeable, IsList
<1>2. refs = At(all, P)
  BY DEF WithoutKeep
<1>3. \A i \in P : all[i] \in ToSet(all) /\ all[i] # keep
  BY DEF ToSet
<1> HIDE DEF P, refs
<1>4. IsFiniteSet(P) /\ P \subseteq Nat
  <2>1. IsFiniteSet(1 .. Len(all))
    BY <1>1, FS_Interval
  <2>2. IsFiniteSet(P)
    BY <1>1, <2>1, FS_Subset
  <2> QED
    BY <1>1, <2>2
<1>5. PICK at : Picks(all, P, at)
  BY <1>4, Picking
<1>6. c \in Nat
  BY <1>4, FS_CardinalityType
<1>7. at \in [1 .. c -> P] /\ refs = [n \in 1 .. c |-> all[at[n]]]
  BY <1>2, <1>5 DEF Picks
<1> HIDE DEF c
<1>8. DOMAIN refs = 1 .. c /\ (c = 0 => refs = <<>>)
  BY <1>6, <1>7
<1>9. \A i \in DOMAIN refs : refs[i] \in ToSet(all) /\ refs[i] # keep
  BY <1>3, <1>7
<1>10. \A i \in DOMAIN refs : refs[i].kind = "key" /\ refs[i].key # keep.key
  BY <1>9 DEF Mergeable
<1> QED
  BY <1>6, <1>8, <1>10 DEF refs

\* One library is previewed, and a key names one of its items or none.
LEMMA KeyNames ==
    ASSUME NEW held, NEW selected, NEW keep, NEW all, Mergeable(held, selected, keep, all),
           NEW ref, ref.kind = "key"
    PROVE  /\ \A source : PreviewNamed(held, selected, ref, source) = OnShelf(held, selected, ref)
           /\ \E l : Previewed(selected) = {l}
           /\ \A o \in OnShelf(held, selected, ref) :
                  /\ o \in held /\ o.key = ref.key /\ o.library \in Previewed(selected)
                  /\ OnShelf(held, selected, ref) = {o}
                  /\ TheOne(OnShelf(held, selected, ref)) = o
<1>1. \A source : PreviewNamed(held, selected, ref, source) = OnShelf(held, selected, ref)
  BY DEF PreviewNamed, OnShelf
<1>2. \E l : Previewed(selected) = {l}
  BY DEF Previewed, Mergeable
<1>3. ASSUME NEW o \in OnShelf(held, selected, ref)
      PROVE  /\ o \in held /\ o.key = ref.key /\ o.library \in Previewed(selected)
             /\ OnShelf(held, selected, ref) = {o} /\ TheOne(OnShelf(held, selected, ref)) = o
  <2>1. o \in held /\ o.key = ref.key /\ o.library \in Previewed(selected)
    BY DEF OnShelf
  <2>2. ASSUME NEW p \in OnShelf(held, selected, ref) PROVE p = o
    <3>1. p \in held /\ p.key = ref.key /\ p.library \in Previewed(selected)
      BY <2>2 DEF OnShelf
    <3>2. p.library = o.library
      BY <1>2, <2>1, <3>1
    <3> QED
      BY <2>1, <3>1, <3>2 DEF Mergeable
  <2>3. OnShelf(held, selected, ref) = {o}
    BY <2>2
  <2>4. TheOne({o}) = o
    BY DEF TheOne
  <2> QED
    BY <2>1, <2>3, <2>4
<1> QED
  BY <1>1, <1>2, <1>3

\* What the merge resolves is what the preview saw, when that saw anything;
\* otherwise it is nothing, or of another library.
LEMMA Resolves ==
    ASSUME NEW held, NEW selected, NEW keep, NEW all, Mergeable(held, selected, keep, all),
           NEW ref, ref.kind = "key"
    PROVE  LET shelf == OnShelf(held, selected, ref)
               answer == Resolved(held, selected, ref)
           IN  /\ shelf # {} => answer # Missing /\ answer.object = TheOne(shelf)
               /\ shelf = {} => answer = Missing \/ answer.object.library \notin Previewed(selected)
<1> DEFINE shelf == OnShelf(held, selected, ref)
           hits == {o \in held : o.key = ref.key /\ InSelected(o, selected)}
           first == FirstListed(hits)
<1>1. {o \in held : Names(ref, o) /\ InSelected(o, selected)} = hits
  BY DEF Names
<1>2. Resolved(held, selected, ref)
          = IF hits = {} THEN Missing ELSE Found(first, first.library, "bridge")
  <2> DEFINE world == [bridge |-> TRUE, live |-> held]
  <2>1. world.bridge = TRUE /\ world.live = held
    OBVIOUS
  <2> HIDE DEF world
  <2>2. BridgeAnswer(world, ref, selected)
            = IF hits = {} THEN Missing ELSE Found(first, first.library, "bridge")
    BY <1>1, <2>1, Zenon DEF BridgeAnswer
  <2> QED
    BY <2>2, Zenon DEF Resolved, world
<1>3. shelf = {o \in held : o.key = ref.key /\ o.library \in Previewed(selected)}
  BY DEF OnShelf
<1>4. \A o \in shelf : shelf = {o} /\ TheOne(shelf) = o
  BY KeyNames
<1>5. ASSUME hits # {} PROVE first \in hits /\ ((\E o \in hits : o.library = Personal)
                                                   => first.library = Personal)
  <2>1. \A o \in hits : o.library \in Listed
    BY DEF Mergeable
  <2> HIDE DEF hits
  <2> QED
    BY <1>5, <2>1, FirstListedFacts
<1> HIDE DEF shelf, first
<1>6. shelf \subseteq hits
  BY <1>3 DEF Previewed, InSelected
<1>7. ASSUME hits # {}
      PROVE  first \in held /\ first.key = ref.key /\ InSelected(first, selected)
  BY <1>5, <1>7
<1>8. ASSUME shelf # {} PROVE first \in shelf
  <2>1. PICK o \in shelf : TRUE
    BY <1>8
  <2>2. hits # {} /\ o \in hits /\ o.library \in Previewed(selected)
    BY <1>3, <1>6, <2>1
  <2> HIDE DEF hits
  <2>3. CASE selected = {}
    <3>1. Previewed(selected) = {Personal}
      BY <2>3 DEF Previewed
    <3>2. first.library = Personal
      BY <1>5, <2>2, <3>1
    <3> QED
      BY <1>3, <1>7, <2>2, <3>1, <3>2
  <2>4. CASE selected # {}
    BY <1>3, <1>7, <2>2, <2>4 DEF Previewed, InSelected
  <2> QED
    BY <2>3, <2>4
<1> HIDE DEF hits
<1>9. /\ Found(first, first.library, "bridge") # Missing
      /\ Found(first, first.library, "bridge").object = first
  BY DEF Found, Missing
<1>10. ASSUME shelf # {}
       PROVE  /\ Resolved(held, selected, ref) # Missing
              /\ Resolved(held, selected, ref).object = TheOne(shelf)
  <2>1. hits # {}
    BY <1>6, <1>10
  <2>2. first = TheOne(shelf)
    BY <1>4, <1>8, <1>10
  <2> QED
    BY <1>2, <1>9, <2>1, <2>2
<1>11. ASSUME shelf = {}
       PROVE  \/ Resolved(held, selected, ref) = Missing
              \/ Resolved(held, selected, ref).object.library \notin Previewed(selected)
  <2>1. CASE hits = {}
    BY <1>2, <2>1
  <2>2. CASE hits # {}
    <3>1. first.library \notin Previewed(selected)
      BY <1>3, <1>7, <1>11, <2>2
    <3> QED
      BY <1>2, <1>9, <2>2, <3>1
  <2> QED
    BY <2>1, <2>2
<1> QED
  BY <1>10, <1>11 DEF shelf

\* The merge leaves every item its key and its library.
LEMMA MergedItem ==
    ASSUME NEW o, LibraryItem(o), NEW tags, NEW collections, NEW children, NEW trashed \in BOOLEAN
    PROVE  LET kept == [o EXCEPT !.tags = tags, !.collections = collections,
                                 !.children = children, !.trashed = trashed]
               gone == [o EXCEPT !.trashed = TRUE, !.children = {}]
           IN  /\ kept.key = o.key /\ kept.tags = tags /\ kept.collections = collections
               /\ kept.children = children /\ kept.trashed = trashed
               /\ kept.library = o.library
               /\ gone.key = o.key /\ gone.library = o.library /\ gone.trashed = TRUE
<1>1. o = [library |-> o.library, key |-> o.key, id |-> o.id, tags |-> o.tags, collections |-> o.collections,
           children |-> o.children, trashed |-> o.trashed]
  BY DEF LibraryItem
<1>2. "library" \in DOMAIN o /\ "key" \in DOMAIN o /\ "tags" \in DOMAIN o /\ "collections" \in DOMAIN o
      /\ "children" \in DOMAIN o /\ "trashed" \in DOMAIN o
  BY <1>1
<1> QED
  BY <1>2

\* Children of different items are counted apart.
LEMMA ChildrenCounted ==
    ASSUME NEW I, IsFiniteSet(I), NEW kids, NEW own, IsFiniteSet(own),
           \A i \in I : IsFiniteSet(kids[i]) /\ kids[i] \cap own = {},
           \A i, j \in I : i # j => kids[i] \cap kids[j] = {}
    PROVE  Cardinality(own \cup UNION {kids[i] : i \in I})
               = Cardinality(own) + Cardinality(UNION {{i} \X kids[i] : i \in I})
<1> DEFINE pairs == UNION {{i} \X kids[i] : i \in I}
           moved == UNION {kids[i] : i \in I}
           f == [p \in pairs |-> p[2]]
<1>1. IsFiniteSet(moved)
  <2> DEFINE F == {kids[i] : i \in I}
  <2>1. IsFiniteSet(F)
    <3> DEFINE g == [i \in I |-> kids[i]]
    <3>1. g \in Surjection(I, F)
      BY DEF Surjection
    <3> HIDE DEF g, F
    <3> QED
      BY <3>1, FS_Surjection
  <2>2. \A T \in F : IsFiniteSet(T)
    OBVIOUS
  <2> HIDE DEF F
  <2>3. IsFiniteSet(UNION F)
    BY <2>1, <2>2, FS_UNION
  <2> QED
    BY <2>3 DEF F
<1>2. \A p \in pairs : p = <<p[1], p[2]>> /\ p[1] \in I /\ p[2] \in kids[p[1]]
  OBVIOUS
<1>3. \A i \in I : \A x \in kids[i] : <<i, x>> \in pairs
  OBVIOUS
<1>4. \A x \in moved : \E i \in I : x \in kids[i]
  OBVIOUS
<1>5. \A i \in I : \A x \in kids[i] : x \in moved
  OBVIOUS
<1> HIDE DEF pairs, moved
<1>6. f \in [pairs -> moved]
  BY <1>2, <1>5
<1>7. ASSUME NEW x \in moved PROVE \E p \in pairs : f[p] = x
  <2>1. PICK i \in I : x \in kids[i]
    BY <1>4
  <2>2. <<i, x>> \in pairs
    BY <1>3, <2>1
  <2>3. f[<<i, x>>] = x
    BY <2>2
  <2> HIDE DEF f
  <2> QED
    BY <2>2, <2>3
<1>8. ASSUME NEW p \in pairs, NEW q \in pairs, f[p] = f[q] PROVE p = q
  <2>1. p[2] = q[2]
    BY <1>8
  <2>2. p[1] = q[1]
    BY <1>2, <2>1
  <2> QED
    BY <1>2, <2>1, <2>2
<1> HIDE DEF f
<1>9. f \in Injection(pairs, moved) /\ f \in Surjection(pairs, moved)
  BY <1>6, <1>7, <1>8 DEF Injection, Surjection, IsInjective
<1>10. Cardinality(pairs) = Cardinality(moved)
  BY <1>1, <1>9, FS_Injection
<1>11. own \cap moved = {}
  BY <1>4
<1>12. /\ Cardinality(own \cup moved)
            = Cardinality(own) + Cardinality(moved) - Cardinality(own \cap moved)
       /\ Cardinality(own \cap moved) = 0
  BY <1>1, <1>11, FS_Union, FS_EmptySet
<1>13. Cardinality(own) \in Nat /\ Cardinality(moved) \in Nat
  BY <1>1, FS_CardinalityType
<1> QED
  BY <1>10, <1>12, <1>13 DEF pairs, moved

\* What the preview says of a merge that is not refused, and what the merge
\* makes of what is held.
LEMMA PreviewIsTheMerge ==
    ASSUME NEW held, NEW selected, NEW bridge, NEW keep, NEW all, Mergeable(held, selected, keep, all)
    PROVE  PreviewTellsTheMerge(held, selected, bridge, keep, all)
<1> DEFINE refs == WithoutKeep(keep, all)
           plan == Preview(held, selected, bridge, keep, all)
           merge == Merge(held, selected, keep, all)
           survivor == OnShelf(held, selected, keep)
           known == {i \in DOMAIN refs : OnShelf(held, selected, refs[i]) # {}}
           others == [i \in known |-> TheOne(OnShelf(held, selected, refs[i]))]
           own == TheOne(survivor)
           told == [ok |-> TRUE,
                    missing |-> {r \in ToSet(refs) : OnShelf(held, selected, r) = {}},
                    tags |-> Added(own.tags, {others[i].tags : i \in known}),
                    collections |-> Added(own.collections, {others[i].collections : i \in known}),
                    move |-> Cardinality(UNION {{i} \X others[i].children : i \in known}),
                    trash |-> [i \in known |-> others[i].key]]
           gone == UNION {OnShelf(held, selected, refs[i]) : i \in DOMAIN refs}
           after == TheOne(OnShelf(merge.held, selected, keep))
           shelf == {o \in merge.held : o.library \in Previewed(selected)}
<1> SUFFICES ASSUME plan.ok
             PROVE  /\ merge.ok <=> plan.missing = {}
                    /\ merge.ok =>
                        /\ after.tags = own.tags \cup plan.tags
                        /\ after.collections = own.collections \cup plan.collections
                        /\ plan.tags \cap own.tags = {}
                        /\ \A o \in merge.held \ held :
                               o \in shelf /\ o.key \in Range(plan.trash) \cup {keep.key}
                        /\ \A o \in shelf : o.key \in Range(plan.trash) => o.trashed
                        /\ own.trashed = after.trashed
                        /\ IsInjective(plan.trash) =>
                               Cardinality(after.children) = Cardinality(own.children) + plan.move
  <2>1. \A S : OnShelf(S, selected, keep)
                  = {o \in {p \in S : p.library \in Previewed(selected)} : o.key = keep.key}
    BY DEF OnShelf
  <2> DEFINE kept_1(S) == TheOne({o \in {p \in S : p.library \in Previewed(selected)} : o.key = keep.key})
  <2>2. own = kept_1(held) /\ after = kept_1(merge.held)
    BY <2>1
  <2>3. PreviewTellsTheMerge(held, selected, bridge, keep, all) =
            ((\A r \in ToSet(all) \cup {keep} : r.kind = "key") /\ plan.ok =>
               /\ merge.ok <=> plan.missing = {}
               /\ merge.ok =>
                   /\ kept_1(merge.held).tags = kept_1(held).tags \cup plan.tags
                   /\ kept_1(merge.held).collections = kept_1(held).collections \cup plan.collections
                   /\ plan.tags \cap kept_1(held).tags = {}
                   /\ \A o \in merge.held \ held :
                          o \in shelf /\ o.key \in Range(plan.trash) \cup {keep.key}
                   /\ \A o \in shelf : o.key \in Range(plan.trash) => o.trashed
                   /\ kept_1(held).trashed = kept_1(merge.held).trashed
                   /\ IsInjective(plan.trash) =>
                          Cardinality(kept_1(merge.held).children)
                              = Cardinality(kept_1(held).children) + plan.move)
    BY Zenon DEF PreviewTellsTheMerge
  <2> HIDE DEF kept_1, plan, merge, own, after, shelf
  <2> QED
    BY <2>2, <2>3, Zenon
<1>1. PICK c \in Nat : DOMAIN refs = 1 .. c /\ (c = 0 => refs = <<>>)
  BY OtherReferences
<1>2. \A i \in DOMAIN refs : refs[i].kind = "key" /\ refs[i].key # keep.key
  BY OtherReferences
<1>3. keep.kind = "key"
  BY DEF Mergeable
<1>4. \A r \in ToSet(refs) : r.kind = "key"
  BY <1>2 DEF ToSet
<1>5. ASSUME NEW source
      PROVE  PreviewFrom(held, selected, keep, refs, source)
                 = IF survivor = {} THEN Rejected("keep item not found") ELSE told
  <2>1. /\ PreviewNamed(held, selected, keep, source) = survivor
        /\ \A i \in DOMAIN refs : PreviewNamed(held, selected, refs[i], source) = OnShelf(held, selected, refs[i])
        /\ \A r \in ToSet(refs) : PreviewNamed(held, selected, r, source) = OnShelf(held, selected, r)
    BY <1>2, <1>3, <1>4, KeyNames
  <2> DEFINE known_1 == {i \in DOMAIN refs : PreviewNamed(held, selected, refs[i], source) # {}}
             others_1 == [i \in known_1 |-> TheOne(PreviewNamed(held, selected, refs[i], source))]
  <2>2. known_1 = known
    BY <2>1
  <2>3. others_1 = others
    BY <2>1, <2>2
  <2>4. {r \in ToSet(refs) : PreviewNamed(held, selected, r, source) = {}}
            = {r \in ToSet(refs) : OnShelf(held, selected, r) = {}}
    BY <2>1
  <2>5. PreviewFrom(held, selected, keep, refs, source)
            = IF PreviewNamed(held, selected, keep, source) = {} THEN Rejected("keep item not found")
              ELSE LET own_1 == TheOne(PreviewNamed(held, selected, keep, source))
                   IN  [ok |-> TRUE,
                    missing |-> {r \in ToSet(refs) : PreviewNamed(held, selected, r, source) = {}},
                    tags |-> Added(own_1.tags, {others_1[i].tags : i \in known_1}),
                    collections |-> Added(own_1.collections, {others_1[i].collections : i \in known_1}),
                    move |-> Cardinality(UNION {{i} \X others_1[i].children : i \in known_1}),
                    trash |-> [i \in known_1 |-> others_1[i].key]]
    BY Zenon DEF PreviewFrom
  <2> HIDE DEF known_1, others_1, known, others, refs, survivor
  <2> QED
    BY <2>1, <2>2, <2>3, <2>4, <2>5, Zenon
<1>6. plan = told /\ refs # <<>> /\ survivor # {}
  <2>1. \A why : Rejected(why).ok = FALSE
    BY DEF Rejected
  <2>2. plan = IF refs = <<>> THEN Rejected("invalid arguments")
               ELSE IF bridge /\ PreviewFrom(held, selected, keep, refs, "bridge").ok
               THEN PreviewFrom(held, selected, keep, refs, "bridge")
               ELSE PreviewFrom(held, selected, keep, refs, "database")
    BY Zenon DEF Preview
  <2>3. plan.ok
    OBVIOUS
  <2> HIDE DEF refs, plan, survivor, told
  <2>4. refs # <<>>
    BY <2>1, <2>2, <2>3, Zenon
  <2>5. survivor # {}
    <3>1. CASE bridge /\ PreviewFrom(held, selected, keep, refs, "bridge").ok
      BY <1>5, <2>1, <3>1, Zenon
    <3>2. CASE ~(bridge /\ PreviewFrom(held, selected, keep, refs, "bridge").ok)
      <4>1. plan = PreviewFrom(held, selected, keep, refs, "database")
        BY <2>2, <2>4, <3>2, Zenon
      <4> QED
        BY <1>5, <2>1, <2>3, <4>1, Zenon
    <3> QED
      BY <3>1, <3>2
  <2>6. /\ PreviewFrom(held, selected, keep, refs, "bridge") = told
        /\ PreviewFrom(held, selected, keep, refs, "database") = told
    BY <1>5, <2>5, Zenon
  <2> QED
    BY <2>2, <2>4, <2>5, <2>6, Zenon
<1>7. /\ plan.missing = {r \in ToSet(refs) : OnShelf(held, selected, r) = {}}
      /\ plan.tags = Added(own.tags, {others[i].tags : i \in known})
      /\ plan.collections = Added(own.collections, {others[i].collections : i \in known})
      /\ plan.move = Cardinality(UNION {{i} \X others[i].children : i \in known})
      /\ plan.trash = [i \in known |-> others[i].key]
  <2> HIDE DEF refs, known, others, own, plan
  <2> QED
    BY <1>6
<1>8. /\ own \in held /\ own.key = keep.key /\ survivor = {own}
      /\ own.library \in Previewed(selected)
      /\ LibraryItem(own)
  <2>1. PICK o \in survivor : TRUE
    BY <1>6
  <2>2. /\ o \in held /\ o.key = keep.key /\ survivor = {o} /\ own = o
        /\ o.library \in Previewed(selected)
    BY <1>3, <2>1, KeyNames
  <2> QED
    BY <2>2 DEF Mergeable
<1>9. ASSUME NEW i \in known
      PROVE  /\ others[i] \in held /\ others[i].key = refs[i].key /\ others[i].key # keep.key
             /\ OnShelf(held, selected, refs[i]) = {others[i]} /\ i \in DOMAIN refs
             /\ others[i].library \in Previewed(selected)
             /\ LibraryItem(others[i])
  <2>1. i \in DOMAIN refs /\ OnShelf(held, selected, refs[i]) # {}
    OBVIOUS
  <2>2. others[i] = TheOne(OnShelf(held, selected, refs[i]))
    OBVIOUS
  <2> HIDE DEF known, others
  <2>3. PICK o \in OnShelf(held, selected, refs[i]) : TRUE
    BY <2>1
  <2>4. /\ o \in held /\ o.key = refs[i].key /\ o.library \in Previewed(selected)
        /\ OnShelf(held, selected, refs[i]) = {o} /\ TheOne(OnShelf(held, selected, refs[i])) = o
    BY <1>2, <2>1, <2>3, KeyNames
  <2> QED
    BY <1>2, <2>1, <2>2, <2>4 DEF Mergeable
<1>10. PICK l : Previewed(selected) = {l}
  BY <1>3, KeyNames
<1> DEFINE unknown == \E i \in DOMAIN refs : OnShelf(held, selected, refs[i]) = {}
           answer(r) == Resolved(held, selected, r)
           resolved == {answer(refs[i]).object : i \in DOMAIN refs}
           lost == \E r \in {keep} \cup ToSet(refs) : answer(r) = Missing
           apart == \E o \in resolved : o.library # answer(keep).object.library
           m == [ok |-> TRUE, held |-> Merged(held, answer(keep).object, resolved),
                 outcome |-> IF \E o \in resolved, p \in Merged(held, answer(keep).object, resolved) :
                                   p.library = o.library /\ p.key = o.key
                             THEN "conflict" ELSE "applied"]
<1>11. (merge.ok <=> ~unknown) /\ (merge.ok => merge.held = Merged(held, own, gone))
  <2>1. \A why : Rejected(why).ok = FALSE
    BY DEF Rejected
  <2>2. merge = IF refs = <<>> THEN Rejected("invalid arguments")
                ELSE IF lost THEN Rejected("item not found")
                ELSE IF apart THEN Rejected("not of one library") ELSE m
    BY Zenon DEF Merge
  <2>3. m.ok = TRUE /\ m.held = Merged(held, answer(keep).object, resolved)
    OBVIOUS
  <2>4. answer(keep) # Missing /\ answer(keep).object = own
    BY <1>3, <1>6, Resolves
  <2>5. ASSUME NEW i \in DOMAIN refs
        PROVE  /\ OnShelf(held, selected, refs[i]) # {} =>
                      /\ answer(refs[i]) # Missing
                      /\ answer(refs[i]).object = TheOne(OnShelf(held, selected, refs[i]))
               /\ OnShelf(held, selected, refs[i]) = {} =>
                      \/ answer(refs[i]) = Missing
                      \/ answer(refs[i]).object.library \notin Previewed(selected)
    BY <1>2, Resolves
  <2>6. \A i \in known : i \in DOMAIN refs /\ OnShelf(held, selected, refs[i]) # {}
                         /\ others[i] = TheOne(OnShelf(held, selected, refs[i]))
    OBVIOUS
  <2>7. \A i \in DOMAIN refs : i \in known \/ OnShelf(held, selected, refs[i]) = {}
    OBVIOUS
  <2>8. \A r \in ToSet(refs) : \E i \in DOMAIN refs : r = refs[i]
    BY DEF ToSet
  <2>9. \A i \in DOMAIN refs : refs[i] \in ToSet(refs)
    BY DEF ToSet
  <2> HIDE DEF refs, survivor, merge, own, m, known, others, answer
  <2>10. CASE unknown
    <3>1. PICK i \in DOMAIN refs : OnShelf(held, selected, refs[i]) = {}
      BY <2>10
    <3>2. lost \/ apart
      <4>1. CASE answer(refs[i]) = Missing
        BY <2>9, <4>1
      <4>2. CASE answer(refs[i]).object.library \notin Previewed(selected)
        <5>1. answer(refs[i]).object.library # answer(keep).object.library
          BY <1>8, <2>4, <4>2
        <5>2. answer(refs[i]).object \in resolved
          OBVIOUS
        <5> QED
          BY <5>1, <5>2
      <4> QED
        BY <2>5, <3>1, <4>1, <4>2
    <3> HIDE DEF lost, apart, unknown
    <3> QED
      BY <1>6, <2>1, <2>2, <2>10, <3>2, Zenon
  <2>11. CASE ~unknown
    <3>1. \A i \in DOMAIN refs : OnShelf(held, selected, refs[i]) # {} /\ i \in known
      BY <2>7, <2>11
    <3>2. \A i \in DOMAIN refs : answer(refs[i]) # Missing /\ answer(refs[i]).object = others[i]
      BY <2>5, <2>6, <3>1
    <3>3. ~lost
      BY <2>4, <2>8, <3>2
    <3>4. ~apart
      BY <1>8, <1>9, <1>10, <2>4, <3>1, <3>2
    <3>5. resolved = gone
      <4>1. \A i \in DOMAIN refs : OnShelf(held, selected, refs[i]) = {answer(refs[i]).object}
        BY <1>9, <3>1, <3>2
      <4> QED
        BY <4>1
    <3> HIDE DEF lost, apart, unknown, resolved, gone
    <3>6. merge = m
      BY <1>6, <2>2, <3>3, <3>4, Zenon
    <3> QED
      BY <2>3, <2>4, <2>11, <3>5, <3>6, Zenon
  <2> QED
    BY <2>10, <2>11
<1> HIDE DEF answer, resolved, lost, apart, m
<1>12. merge.ok <=> plan.missing = {}
  <2> HIDE DEF refs, plan, merge, own, known, others
  <2>1. plan.missing = {} <=> ~unknown
    BY <1>7 DEF ToSet
  <2> QED
    BY <1>11, <2>1
<1>13. \A i \in DOMAIN refs : i \in known \/ OnShelf(held, selected, refs[i]) = {}
  OBVIOUS
<1>14. IsFiniteSet(DOMAIN refs)
  <2> HIDE DEF refs
  <2> QED
    BY <1>1, FS_Interval
<1> HIDE DEF refs, plan, merge, survivor, known, others, own, told, after, shelf
<1>15. ASSUME merge.ok
       PROVE  known = DOMAIN refs /\ gone = {others[i] : i \in known}
  <2>1. known = DOMAIN refs
    BY <1>9, <1>11, <1>13, <1>15
  <2> QED
    BY <1>9, <2>1
<1> HIDE DEF gone
<1>16. \A p \in gone : merge.ok => p \in held /\ p # own /\ p.library \in Previewed(selected)
  BY <1>8, <1>9, <1>15
<1> DEFINE kept == [own EXCEPT !.tags = own.tags \cup UNION {p.tags : p \in gone},
                            !.collections = own.collections \cup UNION {p.collections : p \in gone},
                            !.children = own.children \cup UNION {p.children : p \in gone},
                            !.trashed = own.trashed \/ own \in gone]
           binned(o) == [o EXCEPT !.trashed = TRUE, !.children = {}]
           image(o) == IF o = own THEN kept ELSE IF o \in gone THEN binned(o) ELSE o
<1>17. Merged(held, own, gone) = {image(o) : o \in held}
  <2> DEFINE shape(o) == IF o = own
                         THEN [o EXCEPT !.tags = @ \cup UNION {p.tags : p \in gone},
                                        !.collections = @ \cup UNION {p.collections : p \in gone},
                                        !.children = @ \cup UNION {p.children : p \in gone},
                                        !.trashed = @ \/ o \in gone]
                         ELSE IF o \in gone THEN [o EXCEPT !.trashed = TRUE, !.children = {}]
                         ELSE o
  <2>1. Merged(held, own, gone) = {shape(o) : o \in held}
    BY Zenon DEF Merged
  <2>2. \A o \in held : image(o) = shape(o)
    OBVIOUS
  <2> HIDE DEF image, shape
  <2> QED
    BY <2>1, <2>2
<1>18. /\ kept.key = keep.key /\ kept.library = own.library
       /\ kept.tags = own.tags \cup UNION {p.tags : p \in gone}
       /\ kept.collections = own.collections \cup UNION {p.collections : p \in gone}
       /\ kept.children = own.children \cup UNION {p.children : p \in gone}
       /\ kept.trashed = (own.trashed \/ own \in gone)
  <2>1. (own.trashed \/ own \in gone) \in BOOLEAN
    OBVIOUS
  <2> QED
    BY <1>8, <2>1, MergedItem
<1>19. ASSUME NEW o \in gone, merge.ok
       PROVE  binned(o).key = o.key /\ binned(o).library = o.library /\ binned(o).trashed = TRUE
  <2>1. LibraryItem(o)
    BY <1>9, <1>15, <1>19
  <2> QED
    BY <2>1, MergedItem
<1> HIDE DEF kept, binned
<1>20. ASSUME merge.ok
       PROVE  /\ \A o \in held : image(o).key = o.key /\ image(o).library = o.library
              /\ \A o \in gone : image(o).trashed = TRUE
              /\ image(own) = kept
              /\ \A o \in held : o # own /\ o \notin gone => image(o) = o
  BY <1>8, <1>16, <1>18, <1>19, <1>20
<1> HIDE DEF image
<1>21. ASSUME merge.ok PROVE merge.held = {image(o) : o \in held}
  BY <1>11, <1>17, <1>21
<1>22. ASSUME merge.ok PROVE after = kept
  <2>1. OnShelf(merge.held, selected, keep)
            = {p \in merge.held : p.key = keep.key /\ p.library \in Previewed(selected)}
    BY DEF OnShelf
  <2>2. \A o \in held : o.key = keep.key /\ o.library \in Previewed(selected) => o = own
    BY <1>8, <1>10 DEF Mergeable
  <2>3. kept \in merge.held
    BY <1>8, <1>20, <1>21, <1>22
  <2>4. \A p \in merge.held :
            p.key = keep.key /\ p.library \in Previewed(selected) => p = kept
    BY <1>20, <1>21, <1>22, <2>2
  <2>5. OnShelf(merge.held, selected, keep) = {kept}
    BY <1>8, <1>18, <2>1, <2>3, <2>4
  <2>6. TheOne({kept}) = kept
    BY DEF TheOne
  <2> QED
    BY <2>5, <2>6 DEF after
<1>23. ASSUME merge.ok
       PROVE  /\ UNION {p.tags : p \in gone} = UNION {others[i].tags : i \in known}
              /\ UNION {p.collections : p \in gone} = UNION {others[i].collections : i \in known}
              /\ UNION {p.children : p \in gone} = UNION {others[i].children : i \in known}
  BY <1>15, <1>23
<1>24. plan.tags \cap own.tags = {}
  BY <1>7 DEF Added
<1>25. ASSUME merge.ok
       PROVE  /\ after.tags = own.tags \cup plan.tags
              /\ after.collections = own.collections \cup plan.collections
  <2>1. /\ after.tags = own.tags \cup UNION {others[i].tags : i \in known}
        /\ after.collections = own.collections \cup UNION {others[i].collections : i \in known}
    BY <1>18, <1>22, <1>23, <1>25
  <2> QED
    BY <1>7, <2>1 DEF Added
<1>26. Range(plan.trash) = {others[i].key : i \in known}
  <2>1. \A f : Range(f) = {f[i] : i \in DOMAIN f}
    BY DEF Range
  <2> QED
    BY <1>7, <2>1
<1>27. ASSUME merge.ok, NEW p \in merge.held \ held
       PROVE  p \in shelf /\ p.key \in Range(plan.trash) \cup {keep.key}
  <2>1. PICK o \in held : p = image(o)
    BY <1>21, <1>27
  <2>2. o = own \/ o \in gone
    BY <1>20, <1>27, <2>1
  <2>3. p.key = o.key /\ p.library = o.library
    BY <1>20, <1>27, <2>1
  <2>4. p.library \in Previewed(selected)
    BY <1>8, <1>16, <1>27, <2>2, <2>3
  <2>5. o.key = keep.key \/ o.key \in {others[i].key : i \in known}
    BY <1>8, <1>15, <1>27, <2>2
  <2> QED
    BY <1>26, <1>27, <2>3, <2>4, <2>5 DEF shelf
<1>28. ASSUME merge.ok
       PROVE  \A p \in shelf : p.key \in Range(plan.trash) => p.trashed
  <2> SUFFICES ASSUME NEW p \in shelf, p.key \in Range(plan.trash)
               PROVE  p.trashed
    OBVIOUS
  <2>1. p \in merge.held /\ p.library \in Previewed(selected)
    BY DEF shelf
  <2>2. PICK o \in held : p = image(o)
    BY <1>21, <1>28, <2>1
  <2>3. PICK i \in known : p.key = others[i].key
    BY <1>26
  <2>4. /\ others[i] \in held /\ others[i] \in gone
        /\ others[i].library \in Previewed(selected)
    BY <1>9, <1>15, <1>28
  <2>5. o.key = others[i].key /\ o.library = others[i].library
    BY <1>10, <1>20, <1>28, <2>1, <2>2, <2>3, <2>4
  <2>6. o = others[i]
    BY <2>4, <2>5 DEF Mergeable
  <2> QED
    BY <1>20, <1>28, <2>2, <2>4, <2>6
<1>29. ASSUME merge.ok PROVE own.trashed = after.trashed
  <2>1. own.trashed \in BOOLEAN
    BY <1>8 DEF LibraryItem
  <2>2. own \notin gone
    BY <1>16, <1>29
  <2> QED
    BY <1>18, <1>22, <1>29, <2>1, <2>2
<1>30. ASSUME merge.ok, IsInjective(plan.trash)
       PROVE  Cardinality(after.children) = Cardinality(own.children) + plan.move
  <2> DEFINE kids == [i \in known |-> others[i].children]
  <2>1. IsFiniteSet(known)
    BY <1>14, <1>15, <1>30
  <2>2. ASSUME NEW i \in known, NEW j \in known, i # j
        PROVE  others[i].children \cap others[j].children = {}
    <3>1. plan.trash[i] = others[i].key /\ plan.trash[j] = others[j].key
          /\ DOMAIN plan.trash = known
      BY <1>7
    <3>2. others[i].key # others[j].key
      BY <1>30, <2>2, <3>1 DEF IsInjective
    <3> QED
      BY <1>9, <3>2 DEF Mergeable
  <2>3. \A i \in known : others[i].children \cap own.children = {}
    BY <1>8, <1>9 DEF Mergeable
  <2>4. IsFiniteSet(own.children) /\ \A i \in known : IsFiniteSet(others[i].children)
    BY <1>8, <1>9 DEF LibraryItem
  <2>5. \A i \in known : kids[i] = others[i].children
    OBVIOUS
  <2> HIDE DEF kids
  <2>6. Cardinality(own.children \cup UNION {kids[i] : i \in known})
            = Cardinality(own.children) + Cardinality(UNION {{i} \X kids[i] : i \in known})
    <3>1. /\ \A i \in known : IsFiniteSet(kids[i]) /\ kids[i] \cap own.children = {}
          /\ \A i, j \in known : i # j => kids[i] \cap kids[j] = {}
      BY <2>2, <2>3, <2>4, <2>5
    <3> QED
      BY <2>1, <2>4, <3>1, ChildrenCounted
  <2>7. after.children = own.children \cup UNION {others[i].children : i \in known}
    BY <1>18, <1>22, <1>23, <1>30
  <2>8. UNION {kids[i] : i \in known} = UNION {others[i].children : i \in known}
    BY <2>5
  <2>9. UNION {{i} \X kids[i] : i \in known} = UNION {{i} \X others[i].children : i \in known}
    BY <2>5
  <2> QED
    BY <1>7, <2>6, <2>7, <2>8, <2>9
<1> QED
  BY <1>12, <1>24, <1>25, <1>27, <1>28, <1>29, <1>30
-----------------------------------------------------------------------------
(* Duplicate scans.                                                        *)

\* A list of items that is scanned.
Scannable(items) ==
    /\ IsList(items)
    /\ \A i \in DOMAIN items : items[i].pdf \in BOOLEAN /\ items[i].date \in Int
    /\ \A i, j \in DOMAIN items : items[i].key = items[j].key => i = j

\* The positions that share a match key are those of one group; KeepFirst
\* tells them apart consistently.
LEMMA SameFacts ==
    ASSUME NEW items, Scannable(items), NEW by, NEW head \in Compared(items, by)
    PROVE  LET found == Same(items, by, head)
               earlier == {p \in found \X found : KeepFirst(items[p[1]], items[p[2]])}
           IN  /\ found \subseteq DOMAIN items /\ found \subseteq Nat /\ IsFiniteSet(found)
               /\ head \in found
               /\ IsOrder(found, Stable(found, earlier))
<1> DEFINE found == Same(items, by, head)
           earlier == {p \in found \X found : KeepFirst(items[p[1]], items[p[2]])}
<1>1. /\ DOMAIN items = 1 .. Len(items) /\ Len(items) \in Nat
      /\ \A i \in DOMAIN items : items[i].pdf \in BOOLEAN /\ items[i].date \in Int
  BY DEF Scannable, IsList
<1>2. found \in SUBSET DOMAIN items /\ head \in found
  BY DEF Same, Compared
<1> HIDE DEF found
<1>3. IsFiniteSet(found) /\ found \subseteq Nat /\ found \subseteq Int
  <2>1. IsFiniteSet(DOMAIN items)
    BY <1>1, FS_Interval
  <2>2. IsFiniteSet(found)
    BY <1>2, <2>1, FS_Subset
  <2> QED
    BY <1>1, <1>2, <2>2
<1>4. \A i, j \in found : <<i, j>> \in earlier <=> KeepFirst(items[i], items[j])
  OBVIOUS
<1>5. \A i \in found : items[i].pdf \in BOOLEAN /\ items[i].date \in Int
  BY <1>1, <1>2
<1> HIDE DEF earlier
<1>6. \A i \in found : <<i, i>> \notin earlier
  BY <1>4, <1>5 DEF KeepFirst
<1>7. \A i, j, k \in found :
          <<i, j>> \in earlier /\ <<j, k>> \in earlier => <<i, k>> \in earlier
  BY <1>4, <1>5 DEF KeepFirst
<1>8. \A i, j, k \in found :
          <<i, k>> \in earlier => <<i, j>> \in earlier \/ <<j, k>> \in earlier
  BY <1>4, <1>5 DEF KeepFirst
<1>9. IsWeakOrder(found, earlier)
  BY <1>6, <1>7, <1>8 DEF IsWeakOrder
<1>10. IsOrder(found, Stable(found, earlier))
  BY <1>3, <1>9, StableOrder
<1> QED
  BY <1>2, <1>3, <1>10 DEF found, earlier

\* A group is of one key, has all the items with it, and suggests to keep one
\* that no other should rather be kept than.
LEMMA GroupFacts ==
    ASSUME NEW items, Scannable(items), NEW by, NEW head \in Compared(items, by)
    PROVE  LET g == Group(items, by, head)
               found == Same(items, by, head)
           IN  /\ g.match = MatchKey(items[head], by)
               /\ ToSet(g.items) = {items[i] : i \in found}
               /\ Len(g.items) = Cardinality(found) /\ Len(g.items) \in Nat
               /\ \A i, j \in found : items[i].key = g.keep => ~KeepFirst(items[j], items[i])
<1> DEFINE g == Group(items, by, head)
           found == Same(items, by, head)
           earlier == {p \in found \X found : KeepFirst(items[p[1]], items[p[2]])}
           members == InOrder(found, Stable(found, earlier))
           c == Cardinality(found)
<1>1. /\ found \subseteq DOMAIN items /\ found \subseteq Nat /\ IsFiniteSet(found)
      /\ head \in found
      /\ IsOrder(found, Stable(found, earlier))
  BY SameFacts
<1>2. /\ g.match = MatchKey(items[head], by)
      /\ g.keep = items[members[1]].key
      /\ g.items = [n \in DOMAIN members |-> items[members[n]]]
  BY DEF Group
<1>3. \A i, j \in found : <<i, j>> \in earlier <=> KeepFirst(items[i], items[j])
  OBVIOUS
<1>4. \A i, j : <<i, j>> \in Stable(found, earlier) =>
          <<i, j>> \in earlier \/ <<j, i>> \notin earlier
  BY DEF Stable
<1> HIDE DEF g, found, earlier
<1>5. /\ c \in Nat
      /\ members \in [1 .. c -> found]
      /\ \A m, n \in 1 .. c : m < n => <<members[m], members[n]>> \in Stable(found, earlier)
      /\ \A i \in found : \E n \in 1 .. c : members[n] = i
  BY <1>1, Listing
<1> HIDE DEF c, members
<1>6. Len(g.items) = c /\ DOMAIN g.items = 1 .. c
  BY <1>2, <1>5
<1>7. ToSet(g.items) = {items[i] : i \in found}
  BY <1>2, <1>5, <1>6 DEF ToSet
<1>8. 1 \in 1 .. c
  BY <1>1, <1>5
<1>9. ASSUME NEW j \in found PROVE ~KeepFirst(items[j], items[members[1]])
  <2>1. PICK n \in 1 .. c : members[n] = j
    BY <1>5
  <2>2. members[1] \in found
    BY <1>5, <1>8
  <2>3. <<j, members[1]>> \notin earlier
    <3>1. CASE n = 1
      <4>1. <<j, j>> \notin Stable(found, earlier)
        BY <1>1 DEF IsOrder
      <4> QED
        BY <2>1, <3>1, <4>1 DEF Stable
    <3>2. CASE n # 1
      <4>1. /\ <<members[1], j>> \in Stable(found, earlier)
            /\ <<j, members[1]>> \notin Stable(found, earlier)
        <5>1. <<members[1], j>> \in Stable(found, earlier)
          BY <1>5, <1>8, <2>1, <3>2
        <5> QED
          BY <1>1, <2>2, <5>1 DEF IsOrder
      <4> QED
        BY <2>2, <4>1 DEF Stable
    <3> QED
      BY <3>1, <3>2
  <2> QED
    BY <1>3, <2>2, <2>3
<1>10. \A i \in found : items[i].key = g.keep => i = members[1]
  <2>1. members[1] \in found
    BY <1>5, <1>8
  <2> QED
    BY <1>1, <1>2, <2>1 DEF Scannable
<1> QED
  BY <1>2, <1>5, <1>6, <1>7, <1>9, <1>10 DEF g, found, c

\* The items with a key are those at the positions that share it.
LEMMA MembersFacts ==
    ASSUME NEW items, Scannable(items), NEW by, NEW head \in Compared(items, by)
    PROVE  LET k == MatchKey(items[head], by)
               Members == {i \in ToSet(items) : i.kind = "regular" /\ MatchKey(i, by) = k}
               found == Same(items, by, head)
           IN  /\ Members = {items[i] : i \in found}
               /\ k # Keyless /\ k \in {MatchKey(i, by) : i \in ToSet(items)}
               /\ Cardinality(Members) > 1 <=> found # {head}
<1> DEFINE k == MatchKey(items[head], by)
           Members == {i \in ToSet(items) : i.kind = "regular" /\ MatchKey(i, by) = k}
           found == Same(items, by, head)
           at == [i \in found |-> items[i]]
<1>1. k # Keyless /\ k \in {MatchKey(i, by) : i \in ToSet(items)}
  BY DEF Compared, ToSet
<1>2. Members = {items[i] : i \in found}
  BY <1>1 DEF Same, Compared, ToSet
<1>3. found \subseteq DOMAIN items /\ IsFiniteSet(found) /\ head \in found
  BY SameFacts
<1> HIDE DEF found, Members, k
<1>4. \A i \in found : at[i] = items[i]
  OBVIOUS
<1>5. at \in Surjection(found, Members)
  BY <1>2 DEF Surjection
<1> HIDE DEF at
<1>6. IsFiniteSet(Members) /\ Cardinality(Members) \in Nat
  BY <1>3, <1>5, FS_Surjection, FS_CardinalityType
<1>7. items[head] \in Members
  BY <1>2, <1>3
<1>8. Cardinality(Members) > 1 <=> Cardinality(Members) # 1
  BY <1>6, <1>7, FS_EmptySet
<1>9. Cardinality(Members) = 1 <=> Members = {items[head]}
  BY <1>6, <1>7, FS_Singleton
<1>10. Members = {items[head]} <=> found = {head}
  <2>1. ASSUME Members = {items[head]}, NEW i \in found PROVE i = head
    <3>1. items[i] = items[head]
      BY <1>2, <2>1
    <3> QED
      BY <1>3, <3>1 DEF Scannable
  <2> QED
    BY <1>2, <1>3, <2>1
<1> QED
  BY <1>1, <1>2, <1>8, <1>9, <1>10 DEF found, Members, k

\* A key has one head, the first of its positions, and every key that two
\* items have has one.
LEMMA HeadsFacts ==
    ASSUME NEW items, Scannable(items), NEW by
    PROVE  /\ Heads(items, by) \subseteq Nat /\ IsFiniteSet(Heads(items, by))
           /\ \A h \in Heads(items, by) : h \in Compared(items, by) /\ Same(items, by, h) # {h}
           /\ \A g, h \in Heads(items, by) :
                  MatchKey(items[g], by) = MatchKey(items[h], by) => g = h
           /\ \A i \in Compared(items, by) :
                  Same(items, by, i) # {i} =>
                      \E h \in Heads(items, by) : MatchKey(items[h], by) = MatchKey(items[i], by)
<1> DEFINE H == Heads(items, by)
           C == Compared(items, by)
<1>1. DOMAIN items = 1 .. Len(items) /\ Len(items) \in Nat
  BY DEF Scannable, IsList
<1>2. H \in SUBSET DOMAIN items /\ C \subseteq Nat
  BY <1>1 DEF Heads, Compared
<1>3. IsFiniteSet(H) /\ H \subseteq Nat
  <2>1. IsFiniteSet(DOMAIN items)
    BY <1>1, FS_Interval
  <2>2. IsFiniteSet(H)
    BY <1>2, <2>1, FS_Subset
  <2> QED
    BY <1>1, <1>2, <2>2
<1>4. \A h \in H : h \in C /\ Same(items, by, h) # {h} /\ \A j \in Same(items, by, h) : h <= j
  BY DEF Heads
<1>5. \A i, j \in C : MatchKey(items[i], by) = MatchKey(items[j], by) =>
          i \in Same(items, by, j) /\ Same(items, by, i) = Same(items, by, j)
  BY DEF Same
<1>6. \A i \in C : i \in Same(items, by, i)
  BY DEF Same
<1>7. ASSUME NEW i \in C, Same(items, by, i) # {i}
      PROVE  \E h \in H : MatchKey(items[h], by) = MatchKey(items[i], by)
  <2>1. Same(items, by, i) \subseteq Nat /\ i \in Same(items, by, i)
    BY <1>2, <1>6 DEF Same
  <2>2. PICK h \in Same(items, by, i) : \A j \in Same(items, by, i) : h <= j
    BY <2>1, Least
  <2>3. h \in C /\ MatchKey(items[h], by) = MatchKey(items[i], by)
    BY DEF Same
  <2>4. Same(items, by, h) = Same(items, by, i)
    BY <1>5, <2>3
  <2>5. Same(items, by, h) # {h}
    BY <1>7, <2>1, <2>4
  <2>6. h \in H
    BY <2>2, <2>3, <2>4, <2>5 DEF Heads
  <2> QED
    BY <2>3, <2>6
<1>8. ASSUME NEW g \in H, NEW h \in H, MatchKey(items[g], by) = MatchKey(items[h], by)
      PROVE  g = h
  <2>1. g \in Same(items, by, h) /\ h \in Same(items, by, g)
    BY <1>4, <1>5, <1>8
  <2>2. g <= h /\ h <= g /\ g \in Nat /\ h \in Nat
    BY <1>3, <1>4, <2>1
  <2> QED
    BY <2>2
<1> QED
  BY <1>3, <1>4, <1>7, <1>8

\* What find_duplicates returns.
LEMMA ScanIsWhole ==
    ASSUME NEW items, Scannable(items), NEW by, NEW limit \in Nat
    PROVE  DuplicatesAreWhole(items, by, limit)
<1> DEFINE H == Heads(items, by)
           c == Cardinality(H)
           heads == InOrder(H, Ascending(H))
           shown == {n \in DOMAIN heads : n = 1 \/ n <= limit}
           groups == [n \in shown |-> Group(items, by, heads[n])]
           larger == {p \in shown \X shown : Len(groups[p[1]].items) > Len(groups[p[2]].items)}
           sorted == InOrder(shown, Stable(shown, larger))
           d == Cardinality(shown)
           found == FindDuplicates(items, by, limit)
           Members(k) == {i \in ToSet(items) : i.kind = "regular" /\ MatchKey(i, by) = k}
           keys == {MatchKey(i, by) : i \in ToSet(items)} \ {Keyless}
           repeated == {k \in keys : Cardinality(Members(k)) > 1}
<1>1. /\ H \subseteq Nat /\ IsFiniteSet(H)
      /\ \A h \in H : h \in Compared(items, by) /\ Same(items, by, h) # {h}
      /\ \A g, h \in H : MatchKey(items[g], by) = MatchKey(items[h], by) => g = h
  BY HeadsFacts
<1>2. found = [n \in DOMAIN sorted |-> groups[sorted[n]]]
  BY Zenon DEF FindDuplicates
<1> HIDE DEF H
<1>3. /\ c \in Nat
      /\ heads \in [1 .. c -> H]
      /\ \A m, n \in 1 .. c : m < n => <<heads[m], heads[n]>> \in Ascending(H)
      /\ \A h \in H : \E n \in 1 .. c : heads[n] = h
  <2>1. H \subseteq Int
    BY <1>1
  <2>2. IsOrder(H, Ascending(H))
    BY <2>1, AscendingOrder
  <2> QED
    BY <1>1, <2>2, Listing
<1> HIDE DEF c, heads
<1>4. \A m, n \in 1 .. c : m # n => heads[m] # heads[n]
  <2>1. \A m, n \in 1 .. c : m < n => heads[m] < heads[n]
    BY <1>3 DEF Ascending
  <2>2. \A n \in 1 .. c : heads[n] \in Nat
    BY <1>1, <1>3
  <2>3. ASSUME NEW m \in 1 .. c, NEW n \in 1 .. c, m # n PROVE heads[m] # heads[n]
    <3>1. m < n \/ n < m
      BY <1>3, <2>3
    <3> QED
      BY <2>1, <2>2, <3>1
  <2> QED
    BY <2>3
<1>5. shown \in SUBSET (1 .. c) /\ shown = {n \in 1 .. c : n = 1 \/ n <= limit}
  BY <1>3
<1>6. ASSUME NEW n \in shown
      PROVE  /\ heads[n] \in H /\ heads[n] \in Compared(items, by)
             /\ groups[n] = Group(items, by, heads[n])
             /\ groups[n].match = MatchKey(items[heads[n]], by)
             /\ ToSet(groups[n].items) = {items[i] : i \in Same(items, by, heads[n])}
             /\ Len(groups[n].items) \in Nat
             /\ \A i, j \in Same(items, by, heads[n]) :
                    items[i].key = groups[n].keep => ~KeepFirst(items[j], items[i])
  <2>1. heads[n] \in H /\ heads[n] \in Compared(items, by)
    BY <1>1, <1>3, <1>5
  <2>2. groups[n] = Group(items, by, heads[n])
    OBVIOUS
  <2> HIDE DEF groups, shown
  <2> QED
    BY <2>1, <2>2, GroupFacts
<1>7. \A m, n \in shown :
          <<m, n>> \in larger <=> Len(groups[m].items) > Len(groups[n].items)
  OBVIOUS
<1> HIDE DEF groups, shown, larger
<1>8. IsFiniteSet(shown) /\ shown \subseteq Int
  <2>1. IsFiniteSet(1 .. c)
    BY <1>3, FS_Interval
  <2>2. IsFiniteSet(shown)
    BY <1>5, <2>1, FS_Subset
  <2> QED
    BY <1>5, <2>2
<1>9. IsOrder(shown, Stable(shown, larger))
  <2>1. \A m \in shown : <<m, m>> \notin larger
    BY <1>6, <1>7
  <2>2. \A l, m, n \in shown :
            <<l, m>> \in larger /\ <<m, n>> \in larger => <<l, n>> \in larger
    BY <1>6, <1>7
  <2>3. \A l, m, n \in shown :
            <<l, n>> \in larger => <<l, m>> \in larger \/ <<m, n>> \in larger
    BY <1>6, <1>7
  <2>4. IsWeakOrder(shown, larger)
    BY <2>1, <2>2, <2>3 DEF IsWeakOrder
  <2> QED
    BY <1>8, <2>4, StableOrder
<1>10. /\ d \in Nat
       /\ sorted \in [1 .. d -> shown]
       /\ \A m, n \in 1 .. d : m < n => <<sorted[m], sorted[n]>> \in Stable(shown, larger)
       /\ \A s \in shown : \E n \in 1 .. d : sorted[n] = s
  BY <1>8, <1>9, Listing
<1> HIDE DEF sorted, found
<1>11. /\ DOMAIN found = 1 .. d /\ Len(found) = d
       /\ \A n \in 1 .. d : sorted[n] \in shown /\ found[n] = groups[sorted[n]]
  BY <1>2, <1>10
<1> HIDE DEF d
<1>12. ASSUME NEW n \in shown
       PROVE  /\ Members(groups[n].match) = {items[i] : i \in Same(items, by, heads[n])}
              /\ groups[n].match \in repeated
  <2> DEFINE k == MatchKey(items[heads[n]], by)
  <2>1. /\ Members(k) = {items[i] : i \in Same(items, by, heads[n])}
        /\ k # Keyless /\ k \in {MatchKey(i, by) : i \in ToSet(items)}
        /\ Cardinality(Members(k)) > 1 <=> Same(items, by, heads[n]) # {heads[n]}
    BY <1>6, MembersFacts
  <2>2. Same(items, by, heads[n]) # {heads[n]}
    BY <1>1, <1>6
  <2>3. k = groups[n].match
    BY <1>6
  <2> HIDE DEF k, Members
  <2> QED
    BY <2>1, <2>2, <2>3
<1>13. ASSUME NEW n \in DOMAIN found
       PROVE  /\ ToSet(found[n].items) = Members(found[n].match)
              /\ \A m \in Members(found[n].match) : m.key = found[n].keep =>
                     \A o \in Members(found[n].match) : ~KeepFirst(o, m)
  <2>1. sorted[n] \in shown /\ found[n] = groups[sorted[n]]
    BY <1>11
  <2> HIDE DEF Members
  <2>2. Members(found[n].match) = {items[i] : i \in Same(items, by, heads[sorted[n]])}
    BY <1>12, <2>1
  <2>3. ToSet(found[n].items) = {items[i] : i \in Same(items, by, heads[sorted[n]])}
    BY <1>6, <2>1
  <2>4. \A i, j \in Same(items, by, heads[sorted[n]]) :
            items[i].key = found[n].keep => ~KeepFirst(items[j], items[i])
    BY <1>6, <2>1
  <2> QED
    BY <2>2, <2>3, <2>4
<1>14. ASSUME NEW m \in DOMAIN found, NEW n \in DOMAIN found, m < n
       PROVE  /\ found[m].match # found[n].match
              /\ Len(found[m].items) >= Len(found[n].items)
  <2>1. /\ sorted[m] \in shown /\ found[m] = groups[sorted[m]]
        /\ sorted[n] \in shown /\ found[n] = groups[sorted[n]]
        /\ <<sorted[m], sorted[n]>> \in Stable(shown, larger)
    BY <1>10, <1>11, <1>14
  <2>2. sorted[m] # sorted[n]
    BY <1>9, <2>1 DEF IsOrder
  <2>3. found[m].match # found[n].match
    <3>1. heads[sorted[m]] # heads[sorted[n]]
      BY <1>4, <1>5, <2>1, <2>2
    <3>2. \A s \in shown : heads[s] \in H /\ groups[s].match = MatchKey(items[heads[s]], by)
      BY <1>6
    <3>3. MatchKey(items[heads[sorted[m]]], by) # MatchKey(items[heads[sorted[n]]], by)
      BY <1>1, <2>1, <3>1, <3>2
    <3> QED
      BY <2>1, <3>2, <3>3
  <2>4. ~ (Len(groups[sorted[n]].items) > Len(groups[sorted[m]].items))
    <3>1. <<sorted[m], sorted[n]>> \in larger \/ <<sorted[n], sorted[m]>> \notin larger
      BY <2>1 DEF Stable
    <3> QED
      BY <1>6, <1>7, <2>1, <3>1
  <2> QED
    BY <1>6, <2>1, <2>3, <2>4
<1>15. ASSUME Len(found) < limit
       PROVE  {found[n].match : n \in DOMAIN found} = repeated
  <2>1. shown = 1 .. c
    <3>1. ASSUME c > limit PROVE FALSE
      <4>1. 1 .. limit \in SUBSET shown
        BY <1>3, <1>5, <3>1
      <4>2. Cardinality(1 .. limit) <= d /\ Cardinality(1 .. limit) = limit
        BY <1>8, <4>1, FS_Subset, FS_Interval DEF d
      <4> QED
        BY <1>10, <1>11, <1>15, <4>2
    <3> QED
      BY <1>3, <1>5, <3>1
  <2>2. ASSUME NEW k \in repeated PROVE \E n \in DOMAIN found : found[n].match = k
    <3>1. k \in keys /\ Cardinality(Members(k)) > 1
      OBVIOUS
    <3>2. \E x : x \in Members(k)
      <4> HIDE DEF Members
      <4>1. Members(k) # {}
        BY <3>1, FS_EmptySet
      <4> QED
        BY <4>1
    <3>3. PICK i \in Compared(items, by) : MatchKey(items[i], by) = k
      BY <3>1, <3>2 DEF Compared, ToSet
    <3>4. Cardinality(Members(MatchKey(items[i], by))) > 1 <=> Same(items, by, i) # {i}
      BY MembersFacts
    <3>5. Same(items, by, i) # {i}
      BY <3>1, <3>3, <3>4
    <3> HIDE DEF Members, repeated, keys
    <3>6. PICK h \in H : MatchKey(items[h], by) = k
      BY <3>3, <3>5, HeadsFacts DEF H
    <3>7. PICK s \in 1 .. c : heads[s] = h
      BY <1>3
    <3>8. PICK n \in 1 .. d : sorted[n] = s
      BY <1>10, <2>1
    <3> QED
      BY <1>6, <1>11, <2>1, <3>6, <3>7, <3>8
  <2>3. ASSUME NEW n \in DOMAIN found PROVE found[n].match \in repeated
    BY <1>11, <1>12
  <2> QED
    BY <2>2, <2>3
<1> HIDE DEF Members, repeated
<1>16. DuplicatesAreWhole(items, by, limit) =
          (/\ \A n \in DOMAIN found :
                  /\ ToSet(found[n].items) = Members(found[n].match)
                  /\ \A m \in Members(found[n].match) : m.key = found[n].keep =>
                         \A o \in Members(found[n].match) : ~KeepFirst(o, m)
           /\ \A m, n \in DOMAIN found : m < n =>
                  /\ found[m].match # found[n].match
                  /\ Len(found[m].items) >= Len(found[n].items)
           /\ Len(found) < limit => {found[n].match : n \in DOMAIN found} = repeated)
  BY Zenon DEF DuplicatesAreWhole, found, Members, repeated
<1> QED
  BY <1>13, <1>14, <1>15, <1>16

\* Whatever is scanned and merged: a duplicate group is whole and suggests to
\* keep an item with a PDF if any has one, and the preview of a merge
\* announces what the confirmed merge does (hygiene.rs:103-215, 304-518,
\* lib.rs:2413-2526).
THEOREM DuplicatesAsShownHolds == DecisionSpec => []DuplicatesAsShown
<1>1. ASSUME Given, case.of = "scan"
      PROVE  DuplicatesAreWhole(case.given.items, case.given.by, case.given.limit)
  <2> DEFINE c == case.given
  <2>1. c \in Scans
    BY <1>1 DEF Given
  <2> HIDE DEF c
  <2>2. Scannable(c.items) /\ c.limit \in Nat
    BY <2>1, ScanAssump DEF Scannable
  <2>3. DuplicatesAreWhole(c.items, c.by, c.limit)
    BY <2>2, ScanIsWhole
  <2> QED
    BY <2>3 DEF c
<1>2. ASSUME Given, case.of = "merge"
      PROVE  PreviewTellsTheMerge(case.given.held, case.given.selected, case.given.bridge,
                                    case.given.keep, case.given.refs)
  <2> DEFINE c == case.given
             byKey == \A r \in ToSet(c.refs) \cup {c.keep} : r.kind = "key"
  <2>1. c \in Merges
    BY <1>2 DEF Given
  <2> HIDE DEF c
  <2>2. /\ IsList(c.refs)
        /\ \A o \in c.held : LibraryItem(o) /\ o.library \in Listed
        /\ \A o, p \in c.held :
               \/ o = p
               \/ (o.key # p.key \/ o.library # p.library) /\ o.children \cap p.children = {}
        /\ \A r, s \in ToSet(c.refs) \cup {c.keep} :
               r.kind = "key" /\ s.kind = "key" /\ r.key = s.key => r = s
    BY <2>1, MergeAssump
  <2>7. c.selected = {} \/ \E l : c.selected = {l}
    <3>1. IsFiniteSet(c.selected) /\ Cardinality(c.selected) < 2
      BY <2>1, MergeAssump
    <3>2. CASE Cardinality(c.selected) = 0
      BY <3>1, <3>2, FS_EmptySet
    <3>3. CASE Cardinality(c.selected) = 1
      BY <3>1, <3>3, FS_Singleton
    <3> QED
      BY <3>1, <3>2, <3>3, FS_CardinalityType
  <2>3. ASSUME byKey PROVE Mergeable(c.held, c.selected, c.keep, c.refs)
    BY <2>2, <2>3, <2>7 DEF Mergeable
  <2>4. ASSUME byKey PROVE PreviewTellsTheMerge(c.held, c.selected, c.bridge, c.keep, c.refs)
    BY <2>3, <2>4, PreviewIsTheMerge
  <2>5. ASSUME ~byKey PROVE PreviewTellsTheMerge(c.held, c.selected, c.bridge, c.keep, c.refs)
    BY <2>5, Zenon DEF PreviewTellsTheMerge
  <2>6. PreviewTellsTheMerge(c.held, c.selected, c.bridge, c.keep, c.refs)
    BY <2>4, <2>5
  <2> QED
    BY <2>6 DEF c
<1>3. Given => DuplicatesAsShown
  BY <1>1, <1>2 DEF DuplicatesAsShown
<1> QED
  BY <1>3, GivenAlways, PTL
=============================================================================
