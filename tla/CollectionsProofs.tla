-------------------------- MODULE CollectionsProofs --------------------------
(***************************************************************************)
(* The collection commands report truthfully, and implement the atomic     *)
(* ones of AtomicCollections, for any number of invocations, any tree and  *)
(* any changes of the user.                                                *)
(***************************************************************************)
EXTENDS Collections, TLAPS

\* Nothing is sent before "wait", nothing is carried out before it is sent,
\* and only what was carried out is read back and reported as applied.
Order(p) ==
    /\ pc[p] \in {"idle", "resolve", "check", "read", "send"} => req[p] = "none"
    /\ pc[p] = "verify" \/ outcome[p] = "applied" => req[p] = "ok"
    /\ req[p] \in {"none", "sent"} => hit[p] = {}
    /\ req[p] = "half" => cmd[p].op = "erase" /\ hit[p] # {}
    /\ pc[p] # "done" => outcome[p] = "none"
    /\ pc[p] = "idle" => atStart[p] = {}
    /\ pc[p] = "read" => cmd[p].op # "create"
    /\ pc[p] = "check" => cmd[p].op = "create"
    /\ pc[p] = "wait" => req[p] # "none"

\* What the command line names was there when it was looked up, and is while
\* nobody else touches it.
NamedAreThere(p) ==
    pc[p] \in {"check", "read", "send"} \/ req[p] = "sent"
        => \A c \in Named(p) : There(c) \/ c \in disturbed[p]

\* The collections that were there at the start are still, untouched; and
\* from the search for a sibling on, none of them is one.
StartedFrom(p) ==
    cmd[p].op = "create" =>
        \A c \in atStart[p] \ disturbed[p] :
            /\ c \in Live
            /\ backend[p] = "api" /\ (pc[p] = "send" \/ req[p] # "none")
                 => ~Sibling(c, cmd[p].name, cmd[p].parent)

\* What was carried out stays, as far as nobody else touches it; the items
\* of an erasure are erased by its second half.
EffectStays(p) ==
    LET mine == hit[p] \ disturbed[p]
        is(S) == \A c \in mine \cap Coll : tree[c].state \in S
        its(s) == \A i \in mine \cap Item : items[i] = s
        free == disturbed[p] \cap {cmd[p].parent} = {}
    IN  req[p] \in {"half", "ok"} =>
          /\ cmd[p].op = "create" /\ key[p] \in mine /\ free
               => Sibling(key[p], cmd[p].name, cmd[p].parent)
          /\ cmd[p].op = "rename" /\ cmd[p].col \in mine /\ free => AsRequested(p)
          /\ cmd[p].op = "trash"   => is({"trashed"}) /\ its("trashed")
          /\ cmd[p].op = "restore" => is({"live"})
          /\ cmd[p].op = "erase"   => is({"erased"}) /\ (req[p] = "ok" => its("erased"))

ProcInv(p) == Order(p) /\ NamedAreThere(p) /\ StartedFrom(p) /\ EffectStays(p)

IInv == TypeOK /\ \A p \in Proc : ProcInv(p)

-----------------------------------------------------------------------------
(* The commands and the tree.                                              *)

Ops == {"create", "rename", "trash", "erase", "restore"}

LEMMA CmdFacts ==
    ASSUME TypeOK, NEW p \in Proc
    PROVE  /\ cmd[p] \in Cmd /\ cmd[p].op \in Ops
           /\ cmd[p].op = "create" => cmd[p].name \in Name /\ cmd[p].parent \in Coll \cup {Top}
           /\ cmd[p].op = "rename" => /\ cmd[p].col \in Coll /\ cmd[p].name \in Name \cup {Keep}
                                      /\ cmd[p].parent \in Coll \cup {Keep}
           /\ cmd[p].op \in {"trash", "erase", "restore"}
                => cmd[p].col \in Coll /\ cmd[p].items \in BOOLEAN
           /\ cmd[p].op = "restore" => cmd[p].items = FALSE
<1>1. cmd[p] \in Cmd
  BY CollectionAssumptions DEF TypeOK
<1> QED
  BY <1>1 DEF Cmd, Ops

LEMMA SubtreeFacts ==
    ASSUME NEW c \in Coll
    PROVE  Subtree(c) \subseteq Coll /\ c \in Subtree(c)
  BY DEF Subtree

LEMMA StatesType ==
    ASSUME TypeOK, NEW S \in SUBSET Coll, NEW s \in {"live", "trashed", "erased"}
    PROVE  /\ States(S, s) \in [Coll -> Node]
           /\ \A c \in S : States(S, s)[c].state = s
           /\ \A c \in Coll \ S : States(S, s)[c] = tree[c]
  BY DEF States, TypeOK, Node

LEMMA MarkedType ==
    ASSUME TypeOK, NEW S, NEW s \in {"live", "trashed", "erased"}
    PROVE  /\ Marked(S, s) \in [Item -> {"live", "trashed", "erased"}]
           /\ \A i \in Item \cap S : Marked(S, s)[i] = s
           /\ \A i \in Item \ S : Marked(S, s)[i] = items[i]
  BY DEF Marked, TypeOK

LEMMA NewKeyFacts ==
    ASSUME TypeOK, Unused # {}
    PROVE  NewKey \in Coll /\ tree[NewKey].state = "unused"
  BY DEF NewKey, Unused

\* The items a request touches are items.
LEMMA ItemsBelowType == \A c \in Coll : ItemsBelow(c) \subseteq Item
  BY DEF ItemsBelow

LEMMA TypeInit == Init => TypeOK
<1> SUFFICES ASSUME Init PROVE TypeOK
  OBVIOUS
<1>1. filed \in [Item -> SUBSET Coll]
  BY DEF Init
<1> QED
  BY <1>1, CollectionAssumptions DEF Init, TypeOK

LEMMA ChangesType ==
    ASSUME TypeOK, NEW p, NEW what \in SUBSET (Coll \cup Item), Changes(p, what)
    PROVE  fresh' \subseteq Proc /\ disturbed' \in [Proc -> SUBSET (Coll \cup Item)]
  BY DEF Changes, TypeOK

\* Zotero carries out a request on `what`.
LEMMA ServedType ==
    ASSUME TypeOK, NEW p \in Proc, NEW what \in SUBSET (Coll \cup Item),
           NEW answer \in {"half", "ok"}, Served(p, what, answer),
           tree' \in [Coll -> Node], items' \in [Item -> {"live", "trashed", "erased"}],
           key' \in [Proc -> Coll \cup {Nobody}]
    PROVE  TypeOK'
<1>1. fresh' \subseteq Proc /\ disturbed' \in [Proc -> SUBSET (Coll \cup Item)]
  BY ChangesType DEF Served
<1>2. /\ req' \in [Proc -> {"none", "sent", "half", "ok", "refused", "failed"}]
      /\ hit' \in [Proc -> SUBSET (Coll \cup Item)]
  BY DEF Served, TypeOK
<1> QED
  BY <1>1, <1>2 DEF Served, TypeOK

LEMMA UserType == ASSUME TypeOK, UserEdits PROVE TypeOK'
<1>1. ASSUME NEW c \in Coll, UserErases(c) \/ UserTogglesTrash(c) PROVE TypeOK'
  <2>1. PICK S \in SUBSET Coll, s \in {"live", "trashed", "erased"} :
            tree' = States(S, s) /\ Changes(Nobody, S)
    BY <1>1, SubtreeFacts DEF UserErases, UserTogglesTrash
  <2>2. tree' \in [Coll -> Node]
    BY <2>1, StatesType
  <2>3. fresh' \subseteq Proc /\ disturbed' \in [Proc -> SUBSET (Coll \cup Item)]
    BY <2>1, ChangesType
  <2> QED
    BY <1>1, <2>2, <2>3, CollectionAssumptions
    DEF UserEdits, UserErases, UserTogglesTrash, TypeOK
<1>2. ASSUME NEW i \in Item, NEW c \in Coll, UserRefiles(i, c) PROVE TypeOK'
  <2>1. fresh' \subseteq Proc /\ disturbed' \in [Proc -> SUBSET (Coll \cup Item)]
    BY <1>2, ChangesType DEF UserRefiles
  <2>2. /\ filed' \in [Item -> SUBSET Coll]
        /\ items' \in [Item -> {"live", "trashed", "erased"}]
    BY <1>2 DEF UserRefiles, TypeOK
  <2> QED
    BY <1>2, <2>1, <2>2, CollectionAssumptions DEF UserEdits, UserRefiles, TypeOK
<1> QED
  BY <1>1, <1>2 DEF UserEdits

LEMMA ZoteroType == ASSUME TypeOK, NEW p \in Proc, Zotero(p) PROVE TypeOK'
<1>1. CASE ServeCreate(p)
  <2> DEFINE up == IF cmd[p].parent \in Coll /\ There(cmd[p].parent) THEN cmd[p].parent ELSE Top
  <2>1. /\ Unused # {} /\ cmd[p].op = "create"
        /\ tree' = [tree EXCEPT ![NewKey] = [state |-> "live", name |-> cmd[p].name, up |-> up]]
        /\ key' = [key EXCEPT ![p] = NewKey]
        /\ Served(p, {NewKey}, "ok") /\ items' = items
    BY <1>1 DEF ServeCreate
  <2>2. NewKey \in Coll /\ cmd[p].name \in Name /\ up \in Coll \cup {Top}
    BY <2>1, NewKeyFacts, CmdFacts
  <2>3. /\ tree' \in [Coll -> Node] /\ key' \in [Proc -> Coll \cup {Nobody}]
        /\ items' \in [Item -> {"live", "trashed", "erased"}]
    BY <2>1, <2>2 DEF TypeOK, Node
  <2> QED
    BY <2>1, <2>2, <2>3, ServedType
<1>2. CASE ServeRename(p)
  <2> DEFINE moves == cmd[p].parent # Keep /\ There(cmd[p].parent)
             c == cmd[p].col
             name == IF cmd[p].name = Keep THEN tree[c].name ELSE cmd[p].name
             up == IF moves THEN cmd[p].parent ELSE tree[c].up
  <2>1. /\ cmd[p].op = "rename"
        /\ tree' = [tree EXCEPT ![c] = [state |-> tree[c].state, name |-> name, up |-> up]]
        /\ Served(p, {c}, "ok") /\ UNCHANGED <<items, key>>
    BY <1>2 DEF ServeRename
  <2>2. c \in Coll /\ name \in Name /\ up \in Coll \cup {Top}
    BY <2>1, CmdFacts DEF TypeOK, Node
  <2> HIDE DEF name, up
  <2>3. [state |-> tree[c].state, name |-> name, up |-> up] \in Node
    BY <2>2 DEF TypeOK, Node
  <2>4. tree' \in [Coll -> Node]
    BY <2>1, <2>2, <2>3 DEF TypeOK
  <2>5. /\ items' \in [Item -> {"live", "trashed", "erased"}]
        /\ key' \in [Proc -> Coll \cup {Nobody}]
    BY <2>1 DEF TypeOK
  <2>6. {c} \in SUBSET (Coll \cup Item)
    BY <2>2
  <2> QED
    BY <2>1, <2>4, <2>5, <2>6, ServedType
<1>3. CASE ServeTrash(p) \/ ServeRestore(p) \/ ServeErase(p)
  <2>1. PICK S \in SUBSET Coll, its \in SUBSET Item, s \in {"live", "trashed", "erased"},
             answer \in {"half", "ok"} :
            /\ tree' = States(S, s) /\ (items' = items \/ items' = Marked(its, "trashed"))
            /\ Served(p, S \cup its, answer) /\ key' = key
    <3>1. cmd[p].op \in {"trash", "erase", "restore"}
      BY <1>3 DEF ServeTrash, ServeRestore, ServeErase
    <3>2. cmd[p].col \in Coll
      BY <3>1, CmdFacts
    <3>3. Subtree(cmd[p].col) \in SUBSET Coll /\ ItemsBelow(cmd[p].col) \in SUBSET Item
      BY <3>2, SubtreeFacts, ItemsBelowType
    <3>4. CASE ServeTrash(p)
      BY <3>3, <3>4 DEF ServeTrash
    <3>5. CASE ServeErase(p)
      BY <3>3, <3>5 DEF ServeErase
    <3>6. CASE ServeRestore(p)
      <4>1. Subtree(cmd[p].col) \cup {} = Subtree(cmd[p].col)
        OBVIOUS
      <4> QED
        BY <3>3, <3>6, <4>1 DEF ServeRestore
    <3> QED
      BY <1>3, <3>4, <3>5, <3>6
  <2>2. tree' \in [Coll -> Node] /\ items' \in [Item -> {"live", "trashed", "erased"}]
    BY <2>1, StatesType, MarkedType DEF TypeOK
  <2>3. S \cup its \in SUBSET (Coll \cup Item) /\ key' \in [Proc -> Coll \cup {Nobody}]
    BY <2>1 DEF TypeOK
  <2> QED
    BY <2>1, <2>2, <2>3, ServedType
<1>4. CASE ServeEraseItems(p)
  <2>1. fresh' \subseteq Proc /\ disturbed' \in [Proc -> SUBSET (Coll \cup Item)]
    BY <1>4, ChangesType DEF ServeEraseItems
  <2>2. items' \in [Item -> {"live", "trashed", "erased"}]
    BY <1>4, MarkedType DEF ServeEraseItems
  <2> QED
    BY <1>4, <2>1, <2>2 DEF ServeEraseItems, TypeOK
<1>5. CASE Reject(p) \/ BreakOff(p)
  BY <1>5 DEF Reject, BreakOff, library, cli, TypeOK
<1> QED
  BY <1>1, <1>2, <1>3, <1>4, <1>5 DEF Zotero

\* What an invocation may do by itself.
CliStep(p) ==
    /\ UNCHANGED <<library, cmd, backend, hit, disturbed>>
    /\ \E l \in {"resolve", "check", "read", "send", "wait", "verify", "done"} :
           pc' = [pc EXCEPT ![p] = l]
    /\ \E o \in {"none", "applied", "existed", "mismatch", "conflict", "refused", "unknown", "error"} :
           outcome' = [outcome EXCEPT ![p] = o] \/ outcome' = outcome
    /\ fresh' \in {fresh, fresh \cup {p}}
    /\ atStart' = atStart \/ (atStart' = [atStart EXCEPT ![p] = Live] /\ Start(p))
    /\ req' = req \/ (req' = [req EXCEPT ![p] = "sent"] /\ Send(p))
    /\ key' = key \/ \E c \in Coll : key' = [key EXCEPT ![p] = c]

LEMMA CliSteps == ASSUME NEW p \in Proc, Cli(p) PROVE CliStep(p)
<1> USE DEF CliStep, Goto
<1>1. CASE Start(p) \/ Resolve(p) \/ FindsNone(p) \/ ReadVersion(p) \/ Send(p)
  BY <1>1 DEF Start, Resolve, FindsNone, ReadVersion, Send
<1>2. CASE GiveUp(p) \/ FindsSibling(p) \/ TimeOut(p) \/ VerifyFails(p)
  BY <1>2 DEF GiveUp, FindsSibling, TimeOut, VerifyFails, Report
<1>3. CASE Receive(p)
  BY <1>3 DEF Receive, Report
<1>4. CASE VerifyFields(p) \/ VerifyTrash(p) \/ VerifyErased(p)
  BY <1>4 DEF VerifyFields, VerifyTrash, VerifyErased, Report
<1> QED
  BY <1>1, <1>2, <1>3, <1>4 DEF Cli

LEMMA CliType == ASSUME TypeOK, NEW p \in Proc, Cli(p) PROVE TypeOK'
<1>0. CliStep(p)
  BY CliSteps
<1>1. UNCHANGED <<tree, items, filed, edits, cmd, backend, hit, disturbed>>
  BY <1>0 DEF CliStep, library
<1>2. pc' \in [Proc -> {"idle", "resolve", "check", "read", "send", "wait", "verify", "done"}]
  BY <1>0 DEF CliStep, TypeOK
<1>3. outcome' \in [Proc -> {"none", "applied", "existed", "mismatch", "conflict",
                             "refused", "unknown", "error"}]
  BY <1>0 DEF CliStep, TypeOK
<1>4. fresh' \subseteq Proc /\ atStart' \in [Proc -> SUBSET Coll]
  BY <1>0 DEF CliStep, TypeOK, Live
<1>5. /\ req' \in [Proc -> {"none", "sent", "half", "ok", "refused", "failed"}]
      /\ key' \in [Proc -> Coll \cup {Nobody}]
  BY <1>0 DEF CliStep, TypeOK
<1> QED
  BY <1>1, <1>2, <1>3, <1>4, <1>5 DEF TypeOK

LEMMA TypeStep == TypeOK /\ [Next]_vars => TypeOK'
<1>1. TypeOK /\ UNCHANGED vars => TypeOK'
  BY DEF TypeOK, vars, library, cli
<1> QED
  BY <1>1, UserType, ZoteroType, CliType DEF Next

-----------------------------------------------------------------------------
(* Who takes no part in a step.                                            *)

LEMMA IInit == Init => IInv
<1> SUFFICES ASSUME Init PROVE IInv
  OBVIOUS
<1>1. TypeOK
  BY TypeInit
<1>2. ASSUME NEW p \in Proc PROVE ProcInv(p)
  <2>1. /\ pc[p] = "idle" /\ req[p] = "none" /\ hit[p] = {} /\ atStart[p] = {}
        /\ outcome[p] = "none"
    BY DEF Init
  <2> QED
    BY <2>1 DEF ProcInv, Order, NamedAreThere, StartedFrom, EffectStays
<1> QED
  BY <1>1, <1>2 DEF IInv

\* The invocation q does nothing, and what changes is noted as changed.
Watches(q, what) ==
    /\ pc'[q] = pc[q] /\ req'[q] = req[q] /\ key'[q] = key[q] /\ hit'[q] = hit[q]
    /\ outcome'[q] = outcome[q] /\ atStart'[q] = atStart[q]
    /\ cmd' = cmd /\ backend' = backend
    /\ pc[q] # "idle" => disturbed'[q] = disturbed[q] \cup what
    /\ \A c \in Coll \ what : tree'[c] = tree[c]
    /\ \A i \in Item \ what : items'[i] = items[i]

LEMMA WatchingKeeps ==
    ASSUME IInv, NEW q \in Proc, NEW what, Watches(q, what)
    PROVE  ProcInv(q)'
<1>0. /\ TypeOK /\ Order(q) /\ NamedAreThere(q) /\ StartedFrom(q) /\ EffectStays(q)
  BY DEF IInv, ProcInv
<1> USE DEF Watches
<1>1. CASE pc[q] = "idle"
  <2>1. /\ pc'[q] = "idle" /\ req'[q] = "none" /\ hit'[q] = {} /\ atStart'[q] = {}
        /\ outcome'[q] = "none"
    BY <1>0, <1>1 DEF Order
  <2> QED
    BY <2>1 DEF ProcInv, Order, NamedAreThere, StartedFrom, EffectStays
<1>2. CASE pc[q] # "idle"
  <2>1. \A c \in Coll : c \notin disturbed'[q] => c \notin disturbed[q] /\ tree'[c] = tree[c]
    BY <1>2
  <2>2. \A i \in Item : i \notin disturbed'[q] => i \notin disturbed[q] /\ items'[i] = items[i]
    BY <1>2
  <2>3. Order(q)'
    BY <1>0 DEF Order
  <2>4. NamedAreThere(q)'
    <3>1. Named(q)' = Named(q) /\ Named(q) \subseteq Coll
      BY <1>0, CmdFacts DEF Named, Ops
    <3> QED
      BY <1>0, <1>2, <2>1, <3>1 DEF NamedAreThere, There
  <2>5. StartedFrom(q)'
    <3>1. atStart[q] \subseteq Coll
      BY <1>0 DEF TypeOK
    <3> QED
      BY <1>0, <2>1, <3>1 DEF StartedFrom, Sibling, Live
  <2>6. EffectStays(q)'
    <3>0. (hit'[q] \ disturbed'[q]) \subseteq (hit[q] \ disturbed[q])
      BY <1>2
    <3>1. \A c \in (hit'[q] \ disturbed'[q]) \cap Coll :
              c \in (hit[q] \ disturbed[q]) \cap Coll /\ tree'[c] = tree[c]
      BY <2>1, <3>0
    <3>2. \A i \in (hit'[q] \ disturbed'[q]) \cap Item :
              i \in (hit[q] \ disturbed[q]) \cap Item /\ items'[i] = items[i]
      BY <2>2, <3>0
    <3>3. disturbed'[q] \cap {cmd[q].parent} = {} => disturbed[q] \cap {cmd[q].parent} = {}
      BY <1>2
    <3>4. CASE cmd[q].op = "create"
      <4> SUFFICES ASSUME req[q] \in {"half", "ok"}, key[q] \in hit'[q] \ disturbed'[q],
                          disturbed'[q] \cap {cmd[q].parent} = {}
                   PROVE  Sibling(key[q], cmd[q].name, cmd[q].parent)'
        BY <3>4 DEF EffectStays
      <4>1. Sibling(key[q], cmd[q].name, cmd[q].parent)
        BY <1>0, <3>0, <3>3, <3>4 DEF EffectStays
      <4>2. key[q] \in Coll
        BY <4>1 DEF Sibling, Live
      <4> QED
        BY <3>1, <4>1, <4>2 DEF Sibling, Live
    <3>5. CASE cmd[q].op = "rename"
      <4> SUFFICES ASSUME req[q] \in {"half", "ok"}, cmd[q].col \in hit'[q] \ disturbed'[q],
                          disturbed'[q] \cap {cmd[q].parent} = {}
                   PROVE  AsRequested(q)'
        BY <3>5 DEF EffectStays
      <4>1. AsRequested(q) /\ Target(q) = cmd[q].col /\ Target(q)' = cmd[q].col
        BY <1>0, <3>0, <3>3, <3>5 DEF EffectStays, Target
      <4>2. tree'[cmd[q].col] = tree[cmd[q].col]
        BY <1>0, <3>1, <3>5, CmdFacts
      <4> QED
        BY <3>5, <4>1, <4>2 DEF AsRequested
    <3>6. CASE cmd[q].op = "trash"
      BY <1>0, <3>1, <3>2, <3>6 DEF EffectStays
    <3>7. CASE cmd[q].op = "restore"
      BY <1>0, <3>1, <3>2, <3>7 DEF EffectStays
    <3>8. CASE cmd[q].op = "erase"
      BY <1>0, <3>1, <3>2, <3>8 DEF EffectStays
    <3> QED
      BY <1>0, <3>4, <3>5, <3>6, <3>7, <3>8, CmdFacts DEF Ops
  <2> QED
    BY <2>3, <2>4, <2>5, <2>6 DEF ProcInv
<1> QED
  BY <1>1, <1>2

LEMMA UserKeeps ==
    ASSUME IInv, UserEdits, NEW q \in Proc
    PROVE  ProcInv(q)'
<1>0. TypeOK /\ q # Nobody /\ UNCHANGED <<cmd, backend, pc, req, key, hit, outcome, atStart>>
  BY CollectionAssumptions DEF IInv, UserEdits
<1>1. ASSUME NEW c \in Coll, UserErases(c) \/ UserTogglesTrash(c) PROVE ProcInv(q)'
  <2>1. PICK S \in SUBSET Coll, s \in {"live", "trashed", "erased"} :
            tree' = States(S, s) /\ Changes(Nobody, S) /\ items' = items
    BY <1>1, SubtreeFacts DEF UserErases, UserTogglesTrash
  <2>2. Watches(q, S)
    BY <1>0, <2>1, StatesType DEF Watches, Changes
  <2> QED
    BY <2>2, WatchingKeeps
<1>2. ASSUME NEW i \in Item, NEW c \in Coll, UserRefiles(i, c) PROVE ProcInv(q)'
  <2>1. tree' = tree /\ items' = [items EXCEPT ![i] = "live"] /\ Changes(Nobody, {i})
    BY <1>2 DEF UserRefiles
  <2>2. Watches(q, {i})
    BY <1>0, <2>1 DEF Watches, Changes, TypeOK
  <2> QED
    BY <2>2, WatchingKeeps
<1> QED
  BY <1>1, <1>2 DEF UserEdits

LEMMA ZoteroKeepsOthers ==
    ASSUME IInv, NEW p \in Proc, Zotero(p), NEW q \in Proc, q # p
    PROVE  ProcInv(q)'
<1>0. TypeOK
  BY DEF IInv
<1>1. ASSUME NEW what, NEW answer, Served(p, what, answer), key'[q] = key[q],
             \A c \in Coll \ what : tree'[c] = tree[c],
             \A i \in Item \ what : items'[i] = items[i]
      PROVE  ProcInv(q)'
  <2>1. Watches(q, what)
    BY <1>0, <1>1 DEF Watches, Served, Changes, TypeOK
  <2> QED
    BY <2>1, WatchingKeeps
<1>2. CASE ServeCreate(p)
  <2>1. /\ Served(p, {NewKey}, "ok") /\ key'[q] = key[q] /\ items' = items
        /\ \A c \in Coll \ {NewKey} : tree'[c] = tree[c]
    BY <1>0, <1>2 DEF ServeCreate, TypeOK
  <2> QED
    BY <1>1, <2>1
<1>3. CASE ServeRename(p)
  <2>1. /\ Served(p, {cmd[p].col}, "ok") /\ key'[q] = key[q] /\ items' = items
        /\ \A c \in Coll \ {cmd[p].col} : tree'[c] = tree[c]
    BY <1>0, <1>3 DEF ServeRename, TypeOK
  <2> QED
    BY <1>1, <2>1
<1>4. CASE ServeTrash(p) \/ ServeRestore(p) \/ ServeErase(p)
  <2>1. PICK S, its, s, answer :
            /\ S = Subtree(cmd[p].col) /\ s \in {"live", "trashed", "erased"}
            /\ tree' = States(S, s)
            /\ items' = items \/ items' = Marked(its, "trashed")
            /\ Served(p, S \cup its, answer) /\ key' = key
    <3>1. CASE ServeTrash(p)
      BY <3>1 DEF ServeTrash
    <3>2. CASE ServeErase(p)
      BY <3>2 DEF ServeErase
    <3>3. CASE ServeRestore(p)
      <4>1. Subtree(cmd[p].col) \cup {} = Subtree(cmd[p].col)
        OBVIOUS
      <4> QED
        BY <3>3, <4>1 DEF ServeRestore
    <3> QED
      BY <1>4, <3>1, <3>2, <3>3
  <2>2. S \in SUBSET Coll
    BY <2>1 DEF Subtree
  <2>3. \A c \in Coll \ (S \cup its) : tree'[c] = tree[c]
    BY <1>0, <2>1, <2>2, StatesType
  <2>4. \A i \in Item \ (S \cup its) : items'[i] = items[i]
    BY <1>0, <2>1, MarkedType
  <2> QED
    BY <1>1, <2>1, <2>3, <2>4
<1>5. CASE ServeEraseItems(p)
  <2>1. \A i \in Item \ (hit[p] \cap Item) : items'[i] = items[i]
    BY <1>0, <1>5, MarkedType DEF ServeEraseItems
  <2>2. Watches(q, hit[p] \cap Item)
    BY <1>0, <1>5, <2>1 DEF Watches, ServeEraseItems, Changes, TypeOK
  <2> QED
    BY <2>2, WatchingKeeps
<1>6. CASE Reject(p) \/ BreakOff(p)
  <2>1. Watches(q, {})
    BY <1>0, <1>6 DEF Watches, Reject, BreakOff, library, cli, TypeOK
  <2> QED
    BY <2>1, WatchingKeeps
<1> QED
  BY <1>2, <1>3, <1>4, <1>5, <1>6 DEF Zotero

LEMMA CliKeepsOthers ==
    ASSUME IInv, NEW p \in Proc, Cli(p), NEW q \in Proc, q # p
    PROVE  ProcInv(q)'
<1>0. TypeOK /\ CliStep(p)
  BY CliSteps DEF IInv
<1>1. UNCHANGED <<tree, items, cmd, backend, hit, disturbed>>
  BY <1>0 DEF CliStep, library
<1>2. /\ pc'[q] = pc[q] /\ req'[q] = req[q] /\ key'[q] = key[q]
      /\ outcome'[q] = outcome[q] /\ atStart'[q] = atStart[q]
  BY <1>0 DEF CliStep, TypeOK
<1>3. Watches(q, {})
  BY <1>1, <1>2 DEF Watches
<1> QED
  BY <1>3, WatchingKeeps

-----------------------------------------------------------------------------
(* A request that is carried out.                                          *)

\* The order of things, once a request was answered with a success.
LEMMA ServedOrder ==
    ASSUME IInv, NEW p \in Proc, NEW what, NEW answer \in {"half", "ok"}, Served(p, what, answer),
           req[p] = "sent", answer = "half" => cmd[p].op = "erase" /\ what # {}
    PROVE  /\ Order(p)' /\ NamedAreThere(p)'
           /\ req'[p] = answer /\ hit'[p] = what /\ disturbed'[p] = disturbed[p]
           /\ UNCHANGED <<cmd, backend, atStart>>
<1>0. TypeOK /\ Order(p)
  BY DEF IInv, ProcInv
<1>1. /\ req'[p] = answer /\ hit'[p] = what /\ disturbed'[p] = disturbed[p]
      /\ UNCHANGED <<cmd, backend, atStart, pc, outcome>>
  BY <1>0 DEF Served, Changes, TypeOK
<1> QED
  BY <1>0, <1>1 DEF Order, NamedAreThere

LEMMA CreateKeepsOwn ==
    ASSUME IInv, NEW p \in Proc, ServeCreate(p)
    PROVE  ProcInv(p)'
<1>0. TypeOK /\ StartedFrom(p) /\ NamedAreThere(p) /\ cmd[p].op = "create" /\ req[p] = "sent"
  BY DEF IInv, ProcInv, ServeCreate
<1> DEFINE up == IF cmd[p].parent \in Coll /\ There(cmd[p].parent) THEN cmd[p].parent ELSE Top
           node == [state |-> "live", name |-> cmd[p].name, up |-> up]
<1>1. /\ Unused # {} /\ Served(p, {NewKey}, "ok")
      /\ tree' = [tree EXCEPT ![NewKey] = node] /\ key' = [key EXCEPT ![p] = NewKey]
  BY DEF ServeCreate
<1>2. NewKey \in Coll /\ tree[NewKey].state = "unused"
  BY <1>0, <1>1, NewKeyFacts
<1>3. /\ tree'[NewKey] = node /\ key'[p] = NewKey
      /\ \A c \in Coll \ {NewKey} : tree'[c] = tree[c]
  BY <1>0, <1>1, <1>2 DEF TypeOK
<1>4. /\ Order(p)' /\ NamedAreThere(p)'
      /\ req'[p] = "ok" /\ disturbed'[p] = disturbed[p] /\ UNCHANGED <<cmd, backend, atStart>>
  BY <1>0, <1>1, ServedOrder
<1>5. StartedFrom(p)'
  <2>1. \A c \in atStart[p] \ disturbed[p] :
            c \in Live /\ (backend[p] = "api" => ~Sibling(c, cmd[p].name, cmd[p].parent))
    BY <1>0 DEF StartedFrom
  <2>2. \A c \in atStart[p] \ disturbed[p] : c \in Coll /\ c # NewKey /\ tree'[c] = tree[c]
    BY <1>2, <1>3, <2>1 DEF Live
  <2> QED
    BY <1>4, <2>1, <2>2 DEF StartedFrom, Live, Sibling
<1>6. EffectStays(p)'
  <2>0. PICK c \in Coll : c = NewKey
    BY <1>2
  <2> SUFFICES ASSUME disturbed[p] \cap {cmd[p].parent} = {}
               PROVE  Sibling(c, cmd[p].name, cmd[p].parent)'
    BY <1>0, <1>3, <1>4, <2>0 DEF EffectStays
  <2>1. up = cmd[p].parent
    <3>1. CASE cmd[p].parent \in Coll
      <4>1. cmd[p].parent \in Named(p)
        BY <1>0, <3>1, CollectionAssumptions DEF Named
      <4> QED
        BY <1>0, <3>1, <4>1 DEF NamedAreThere
    <3>2. CASE cmd[p].parent = Top
      BY <3>2, CollectionAssumptions
    <3> QED
      BY <1>0, <3>1, <3>2, CmdFacts
  <2> QED
    BY <1>3, <1>4, <2>0, <2>1 DEF Sibling, Live
<1> QED
  BY <1>4, <1>5, <1>6 DEF ProcInv

LEMMA RenameKeepsOwn ==
    ASSUME IInv, NEW p \in Proc, ServeRename(p)
    PROVE  ProcInv(p)'
<1>0. TypeOK /\ NamedAreThere(p) /\ cmd[p].op = "rename" /\ req[p] = "sent"
  BY DEF IInv, ProcInv, ServeRename
<1> DEFINE c == cmd[p].col
           moves == cmd[p].parent # Keep /\ There(cmd[p].parent)
<1>1. /\ Served(p, {c}, "ok") /\ c \in Coll
      /\ tree'[c].name = IF cmd[p].name = Keep THEN tree[c].name ELSE cmd[p].name
      /\ tree'[c].up = IF moves THEN cmd[p].parent ELSE tree[c].up
  BY <1>0, CmdFacts DEF ServeRename, TypeOK
<1>2. /\ Order(p)' /\ NamedAreThere(p)'
      /\ disturbed'[p] = disturbed[p] /\ UNCHANGED <<cmd, backend, atStart>>
  BY <1>0, <1>1, ServedOrder
<1>3. StartedFrom(p)'
  BY <1>0, <1>2 DEF StartedFrom
<1>4. EffectStays(p)'
  <2> SUFFICES ASSUME disturbed[p] \cap {cmd[p].parent} = {} PROVE AsRequested(p)'
    BY <1>0, <1>2 DEF EffectStays
  <2>1. cmd[p].parent # Keep => moves
    <3>1. cmd[p].parent # Keep => cmd[p].parent \in Named(p)
      BY <1>0, CmdFacts, CollectionAssumptions DEF Named
    <3> QED
      BY <1>0, <3>1 DEF NamedAreThere
  <2>2. Target(p)' = c
    BY <1>0, <1>2 DEF Target
  <2> QED
    BY <1>0, <1>1, <1>2, <2>1, <2>2 DEF AsRequested
<1> QED
  BY <1>2, <1>3, <1>4 DEF ProcInv

\* Trash, restore and erase: one state for a whole subtree, and one for the
\* items below.
LEMMA SubtreeKeepsOwn ==
    ASSUME IInv, NEW p \in Proc, ServeTrash(p) \/ ServeRestore(p) \/ ServeErase(p)
    PROVE  ProcInv(p)'
<1>0. TypeOK /\ cmd[p].op \in {"trash", "erase", "restore"} /\ req[p] = "sent"
  BY DEF IInv, ServeTrash, ServeRestore, ServeErase
<1> DEFINE cols == Subtree(cmd[p].col)
           its == IF cmd[p].items THEN ItemsBelow(cmd[p].col) ELSE {}
<1>1. cols \in SUBSET Coll /\ its \in SUBSET Item /\ Coll \cap Item = {}
  BY CollectionAssumptions DEF Subtree, ItemsBelow
<1> HIDE DEF cols, its
<1>2. CASE ServeTrash(p)
  <2>1. /\ tree' = States(cols, "trashed") /\ items' = Marked(its, "trashed")
        /\ Served(p, cols \cup its, "ok") /\ cmd[p].op = "trash"
    BY <1>2 DEF ServeTrash, cols, its
  <2>2. /\ \A c \in cols : tree'[c].state = "trashed"
        /\ \A i \in its : items'[i] = "trashed"
    BY <1>0, <1>1, <2>1, StatesType, MarkedType
  <2>3. /\ Order(p)' /\ NamedAreThere(p)' /\ hit'[p] = cols \cup its
        /\ UNCHANGED <<cmd, backend, atStart>>
    BY <1>0, <2>1, ServedOrder
  <2> QED
    BY <1>1, <2>1, <2>2, <2>3 DEF ProcInv, StartedFrom, EffectStays
<1>3. CASE ServeRestore(p)
  <2>1. tree' = States(cols, "live") /\ Served(p, cols, "ok") /\ cmd[p].op = "restore"
    BY <1>3 DEF ServeRestore, cols
  <2>2. \A c \in cols : tree'[c].state = "live"
    BY <1>0, <1>1, <2>1, StatesType
  <2>3. /\ Order(p)' /\ NamedAreThere(p)' /\ hit'[p] = cols
        /\ UNCHANGED <<cmd, backend, atStart>>
    BY <1>0, <2>1, ServedOrder
  <2> QED
    BY <1>1, <2>1, <2>2, <2>3 DEF ProcInv, StartedFrom, EffectStays
<1>4. CASE ServeErase(p)
  <2>1. /\ tree' = States(cols, "erased")
        /\ Served(p, cols \cup its, IF its = {} THEN "ok" ELSE "half") /\ cmd[p].op = "erase"
    BY <1>4 DEF ServeErase, cols, its
  <2>2. \A c \in cols : tree'[c].state = "erased"
    BY <1>0, <1>1, <2>1, StatesType
  <2>3. /\ Order(p)' /\ NamedAreThere(p)' /\ hit'[p] = cols \cup its
        /\ req'[p] = IF its = {} THEN "ok" ELSE "half"
        /\ UNCHANGED <<cmd, backend, atStart>>
    BY <1>0, <2>1, ServedOrder
  <2> QED
    BY <1>1, <2>1, <2>2, <2>3 DEF ProcInv, StartedFrom, EffectStays
<1> QED
  BY <1>2, <1>3, <1>4

LEMMA EraseItemsKeepsOwn ==
    ASSUME IInv, NEW p \in Proc, ServeEraseItems(p)
    PROVE  ProcInv(p)'
<1>0. /\ TypeOK /\ Order(p) /\ StartedFrom(p) /\ EffectStays(p)
      /\ req[p] = "half" /\ req'[p] = "ok"
      /\ UNCHANGED <<tree, cmd, backend, pc, key, hit, outcome, atStart>>
      /\ disturbed'[p] = disturbed[p] /\ items' = Marked(hit[p] \cap Item, "erased")
  BY DEF IInv, ProcInv, ServeEraseItems, Changes, TypeOK
<1>1. \A i \in hit[p] \cap Item : items'[i] = "erased"
  BY <1>0, MarkedType
<1>2. Order(p)' /\ NamedAreThere(p)'
  BY <1>0 DEF Order, NamedAreThere
<1>3. StartedFrom(p)'
  BY <1>0 DEF StartedFrom, Live, Sibling
<1>4. EffectStays(p)'
  <2>1. cmd[p].op = "erase"
    BY <1>0 DEF Order
  <2> QED
    BY <1>0, <1>1, <2>1 DEF EffectStays
<1> QED
  BY <1>2, <1>3, <1>4 DEF ProcInv

-----------------------------------------------------------------------------
(* A step of an invocation.                                                *)

\* What an invocation does to itself leaves the effect of its request alone.
LEMMA CliKeepsEffect ==
    ASSUME IInv, NEW p \in Proc, CliStep(p), key'[p] = key[p] \/ req[p] = "none",
           req'[p] = req[p] \/ req'[p] = "sent"
    PROVE  EffectStays(p)'
<1>0. TypeOK /\ EffectStays(p) /\ UNCHANGED <<tree, items, cmd, backend, hit, disturbed>>
  BY DEF IInv, ProcInv, CliStep, library
<1>1. CASE req'[p] \notin {"half", "ok"}
  BY <1>1 DEF EffectStays
<1>2. CASE req'[p] \in {"half", "ok"}
  <2>1. req'[p] = req[p] /\ key'[p] = key[p]
    BY <1>2
  <2>2. AsRequested(p)' = AsRequested(p)
    BY <1>0, <2>1 DEF AsRequested, Target
  <2> QED
    BY <1>0, <2>1, <2>2 DEF EffectStays, Sibling, Live
<1> QED
  BY <1>1, <1>2

\* Where it reports, and does not claim to have applied what was not.
LEMMA ReportKeepsOwn ==
    ASSUME IInv, NEW p \in Proc, Cli(p), NEW o, Report(p, o), o = "applied" => req[p] = "ok",
           key'[p] = key[p] \/ req[p] = "none"
    PROVE  ProcInv(p)'
<1>0. /\ TypeOK /\ ProcInv(p) /\ CliStep(p)
      /\ UNCHANGED <<tree, cmd, backend, hit, disturbed, atStart, req>>
      /\ pc'[p] = "done" /\ outcome'[p] = o
  BY CliSteps DEF IInv, Report, Goto, library, TypeOK
<1>1. Order(p)'
  BY <1>0 DEF ProcInv, Order
<1>2. NamedAreThere(p)'
  BY <1>0 DEF ProcInv, NamedAreThere, Named, There
<1>3. StartedFrom(p)'
  BY <1>0 DEF ProcInv, StartedFrom, Sibling, Live
<1>4. EffectStays(p)'
  BY <1>0, CliKeepsEffect
<1> QED
  BY <1>1, <1>2, <1>3, <1>4 DEF ProcInv

\* Where it goes on without a report.
LEMMA StepKeepsOwn ==
    ASSUME IInv, NEW p \in Proc, Cli(p),
           Start(p) \/ Resolve(p) \/ FindsNone(p) \/ ReadVersion(p) \/ Send(p)
             \/ (Goto(p, "verify") /\ pc[p] = "wait" /\ req[p] = "ok"
                 /\ UNCHANGED <<outcome, atStart, req, key>>)
    PROVE  ProcInv(p)'
<1>0. /\ TypeOK /\ Order(p) /\ NamedAreThere(p) /\ StartedFrom(p) /\ CliStep(p)
      /\ UNCHANGED <<tree, cmd, backend, hit, disturbed, outcome, key>>
  BY CliSteps
  DEF IInv, ProcInv, CliStep, library, Start, Resolve, FindsNone, ReadVersion, Send, Goto
<1> USE DEF Goto
<1>1. EffectStays(p)'
  <2>1. req'[p] = req[p] \/ req'[p] = "sent"
    BY <1>0 DEF Start, Resolve, FindsNone, ReadVersion, Send, TypeOK
  <2> QED
    BY <1>0, <2>1, CliKeepsEffect
<1>2. Named(p)' = Named(p) /\ (\A c \in Named(p) : There(c)' <=> There(c))
  BY <1>0 DEF Named, There
<1>3. CASE Start(p)
  <2>1. pc'[p] = "resolve" /\ atStart'[p] = Live /\ req' = req /\ pc[p] = "idle"
    BY <1>0, <1>3 DEF Start, TypeOK
  <2>2. Order(p)' /\ NamedAreThere(p)'
    BY <1>0, <2>1 DEF Order, NamedAreThere
  <2>3. StartedFrom(p)'
    BY <1>0, <2>1 DEF Order, StartedFrom, Live
  <2> QED
    BY <1>1, <2>2, <2>3 DEF ProcInv
<1>4. CASE Resolve(p)
  <2>1. /\ pc[p] = "resolve" /\ atStart' = atStart /\ req' = req
        /\ \A c \in Named(p) : There(c)
        /\ pc'[p] = IF ~OverApi(p) THEN "send"
                    ELSE IF cmd[p].op = "create" THEN "check" ELSE "read"
    BY <1>0, <1>4 DEF Resolve, TypeOK
  <2>2. Order(p)' /\ NamedAreThere(p)'
    BY <1>0, <1>2, <2>1 DEF Order, NamedAreThere
  <2>3. cmd[p].op = "create" /\ backend[p] = "api" => OverApi(p)
    BY DEF OverApi
  <2>4. StartedFrom(p)'
    BY <1>0, <2>1, <2>3 DEF Order, StartedFrom, Live
  <2> QED
    BY <1>1, <2>2, <2>4 DEF ProcInv
<1>5. CASE FindsNone(p)
  <2>1. /\ pc[p] = "check" /\ pc'[p] = "send" /\ atStart' = atStart /\ req' = req
        /\ ~\E c \in Coll : Sibling(c, cmd[p].name, cmd[p].parent)
    BY <1>0, <1>5 DEF FindsNone, TypeOK
  <2>2. Order(p)' /\ NamedAreThere(p)'
    BY <1>0, <1>2, <2>1 DEF Order, NamedAreThere
  <2>3. StartedFrom(p)'
    BY <1>0, <2>1 DEF StartedFrom, Sibling, Live
  <2> QED
    BY <1>1, <2>2, <2>3 DEF ProcInv
<1>6. CASE ReadVersion(p)
  <2>1. pc[p] = "read" /\ pc'[p] = "send" /\ atStart' = atStart /\ req' = req
    BY <1>0, <1>6 DEF ReadVersion, TypeOK
  <2>2. Order(p)' /\ NamedAreThere(p)'
    BY <1>0, <1>2, <2>1 DEF Order, NamedAreThere
  <2>3. StartedFrom(p)'
    BY <1>0, <2>1 DEF Order, StartedFrom
  <2> QED
    BY <1>1, <2>2, <2>3 DEF ProcInv
<1>7. CASE Send(p)
  <2>1. pc[p] = "send" /\ pc'[p] = "wait" /\ atStart' = atStart /\ req'[p] = "sent"
    BY <1>0, <1>7 DEF Send, TypeOK
  <2>2. Order(p)' /\ NamedAreThere(p)'
    BY <1>0, <1>2, <2>1 DEF Order, NamedAreThere
  <2>3. StartedFrom(p)'
    BY <1>0, <2>1 DEF StartedFrom, Sibling, Live
  <2> QED
    BY <1>1, <2>2, <2>3 DEF ProcInv
<1>8. CASE Goto(p, "verify") /\ pc[p] = "wait" /\ req[p] = "ok"
           /\ UNCHANGED <<outcome, atStart, req, key>>
  <2>1. pc'[p] = "verify" /\ req' = req /\ atStart' = atStart /\ outcome' = outcome
    BY <1>0, <1>8 DEF TypeOK
  <2>2. Order(p)' /\ NamedAreThere(p)'
    BY <1>0, <1>8, <2>1 DEF Order, NamedAreThere
  <2>3. StartedFrom(p)'
    BY <1>0, <1>8, <2>1 DEF StartedFrom, Sibling, Live
  <2> QED
    BY <1>1, <2>2, <2>3 DEF ProcInv
<1> QED
  BY <1>3, <1>4, <1>5, <1>6, <1>7, <1>8

LEMMA CliKeepsOwn ==
    ASSUME IInv, NEW p \in Proc, Cli(p)
    PROVE  ProcInv(p)'
<1>0. Order(p)
  BY DEF IInv, ProcInv
<1>1. CASE Start(p) \/ Resolve(p) \/ FindsNone(p) \/ ReadVersion(p) \/ Send(p)
  BY <1>1, StepKeepsOwn
<1>2. CASE GiveUp(p) \/ TimeOut(p) \/ VerifyFails(p)
  <2>1. \E o : Report(p, o) /\ o # "applied" /\ key' = key
    BY <1>2 DEF GiveUp, TimeOut, VerifyFails
  <2> QED
    BY <2>1, ReportKeepsOwn
<1>3. CASE FindsSibling(p)
  <2>1. Report(p, "existed") /\ req[p] = "none"
    BY <1>0, <1>3 DEF FindsSibling, Order
  <2> QED
    BY <2>1, ReportKeepsOwn
<1>4. CASE Receive(p)
  <2>1. CASE req[p] = "ok"
    BY <1>4, <2>1, StepKeepsOwn DEF Receive
  <2>2. CASE req[p] # "ok"
    <3>1. \E o : Report(p, o) /\ o # "applied" /\ key' = key
      BY <1>4, <2>2 DEF Receive
    <3> QED
      BY <3>1, ReportKeepsOwn
  <2> QED
    BY <2>1, <2>2
<1>5. CASE VerifyFields(p) \/ VerifyTrash(p) \/ VerifyErased(p)
  <2>1. req[p] = "ok" /\ key' = key
    BY <1>0, <1>5 DEF VerifyFields, VerifyTrash, VerifyErased, Order
  <2>2. \E o : Report(p, o)
    BY <1>5 DEF VerifyFields, VerifyTrash, VerifyErased
  <2> QED
    BY <2>1, <2>2, ReportKeepsOwn
<1> QED
  BY <1>1, <1>2, <1>3, <1>4, <1>5 DEF Cli

LEMMA ZoteroKeepsOwn ==
    ASSUME IInv, NEW p \in Proc, Zotero(p)
    PROVE  ProcInv(p)'
<1>1. CASE Reject(p) \/ BreakOff(p)
  <2>0. TypeOK /\ Order(p) /\ StartedFrom(p)
    BY DEF IInv, ProcInv
  <2>1. /\ UNCHANGED <<tree, cmd, backend, pc, outcome, atStart, hit, disturbed>>
        /\ req[p] \in {"sent", "half"} /\ req'[p] \in {"refused", "failed"}
    BY <1>1, <2>0 DEF Reject, BreakOff, library, cli, TypeOK
  <2>2. Order(p)' /\ NamedAreThere(p)' /\ EffectStays(p)'
    BY <2>0, <2>1 DEF Order, NamedAreThere, EffectStays
  <2>3. StartedFrom(p)'
    BY <2>0, <2>1 DEF StartedFrom, Sibling, Live
  <2> QED
    BY <2>2, <2>3 DEF ProcInv
<1> QED
  BY <1>1, CreateKeepsOwn, RenameKeepsOwn, SubtreeKeepsOwn, EraseItemsKeepsOwn DEF Zotero

LEMMA IStep == IInv /\ [Next]_vars => IInv'
<1> SUFFICES ASSUME IInv, [Next]_vars PROVE IInv'
  OBVIOUS
<1>1. TypeOK'
  BY TypeStep DEF IInv
<1>2. ASSUME NEW q \in Proc PROVE ProcInv(q)'
  <2>1. CASE UserEdits
    BY <2>1, UserKeeps
  <2>2. ASSUME NEW p \in Proc, Zotero(p) \/ Cli(p) PROVE ProcInv(q)'
    BY <2>2, ZoteroKeepsOwn, ZoteroKeepsOthers, CliKeepsOwn, CliKeepsOthers
  <2>3. CASE UNCHANGED vars
    <3>1. Watches(q, {})
      BY <2>3 DEF vars, library, cli, Watches
    <3> QED
      BY <3>1, WatchingKeeps
  <2> QED
    BY <2>1, <2>2, <2>3 DEF Next
<1> QED
  BY <1>1, <1>2 DEF IInv

LEMMA IAlways == Spec => []IInv
  BY IInit, IStep, PTL DEF Spec

-----------------------------------------------------------------------------

(* Every state of the collection commands is of its type.                  *)
THEOREM TypeCorrect == Spec => []TypeOK
<1>1. IInv => TypeOK
  BY DEF IInv
<1> QED
  BY <1>1, IAlways, PTL

(* No create over the Local API makes a second collection of one name      *)
(* under one parent beside one that was there when it began and that       *)
(* nobody touched since (lib.rs:2571-2700).                                *)
THEOREM NoSecondSiblingHolds == Spec => []NoSecondSibling
<1>1. IInv => NoSecondSibling
  BY DEF IInv, ProcInv, Order, StartedFrom, NoSecondSibling
<1> QED
  BY <1>1, IAlways, PTL

(* What a command reports as applied is so, for the whole subtree, as far  *)
(* as nobody else touched it since.                                        *)
THEOREM AppliedMeansDoneHolds == Spec => []AppliedMeansDone
<1>1. ASSUME IInv, NEW p \in Proc, outcome[p] = "applied"
      PROVE  /\ req[p] = "ok" /\ EffectStays(p) /\ cmd[p].op \in Ops
  BY <1>1, CmdFacts DEF IInv, ProcInv, Order
<1>2. IInv => AppliedMeansDone
  BY <1>1 DEF AppliedMeansDone, EffectStays, Ops
<1> QED
  BY <1>2, IAlways, PTL

-----------------------------------------------------------------------------
(* The refinement.  A command's status is read off its request and its     *)
(* place; each of Zotero's steps is the abstract one of the same name, and *)
(* of the command's own only the first and the report are seen.            *)

\* Both modules have the same tree.
LEMMA SameTree ==
    /\ Abstract!Node = Node
    /\ \A c \in Coll : (Abstract!There(c) <=> There(c)) /\ Abstract!Below(c) = Subtree(c)
  BY DEF Abstract!Node, Node, Abstract!There, There, Abstract!Below, Subtree

LEMMA SameItems ==
    ASSUME NEW c \in Coll
    PROVE  Abstract!Within(Subtree(c)) = ItemsBelow(c)
  BY DEF Abstract!Within, ItemsBelow

LEMMA StatusValues ==
    ASSUME TypeOK, NEW p \in Proc
    PROVE  /\ pc[p] = "idle" /\ req[p] = "none" => StatusOf(p) = "idle"
           /\ req[p] = "ok" => StatusOf(p) = "landed"
           /\ req[p] = "half" => StatusOf(p) = "half"
           /\ req[p] = "failed" /\ hit[p] # {} => StatusOf(p) = "broken"
           /\ req[p] = "sent" => StatusOf(p) = "open"
           /\ req[p] = "none" /\ pc[p] \notin {"idle", "done"} => StatusOf(p) = "open"
           /\ req[p] = "none" /\ pc[p] = "done" => StatusOf(p) = "closed"
           /\ req[p] = "refused" => StatusOf(p) = "closed"
           /\ req[p] = "failed" /\ hit[p] = {} => StatusOf(p) = "closed"
  BY DEF StatusOf

LEMMA StatusValuesNext ==
    TypeOK' => \A p \in Proc :
        /\ pc'[p] = "idle" /\ req'[p] = "none" => StatusOf(p)' = "idle"
        /\ req'[p] = "ok" => StatusOf(p)' = "landed"
        /\ req'[p] = "half" => StatusOf(p)' = "half"
        /\ req'[p] = "failed" /\ hit'[p] # {} => StatusOf(p)' = "broken"
        /\ req'[p] = "sent" => StatusOf(p)' = "open"
        /\ req'[p] = "none" /\ pc'[p] \notin {"idle", "done"} => StatusOf(p)' = "open"
        /\ req'[p] = "none" /\ pc'[p] = "done" => StatusOf(p)' = "closed"
        /\ req'[p] = "refused" => StatusOf(p)' = "closed"
        /\ req'[p] = "failed" /\ hit'[p] = {} => StatusOf(p)' = "closed"
  BY DEF StatusOf

\* One invocation moves, and the others' statuses stay.
LEMMA OneMoves ==
    ASSUME NEW p \in Proc,
           \A q \in Proc \ {p} : pc'[q] = pc[q] /\ req'[q] = req[q] /\ hit'[q] = hit[q]
    PROVE  Status' = [Status EXCEPT ![p] = StatusOf(p)']
<1>1. \A q \in Proc \ {p} : StatusOf(q)' = StatusOf(q)
  BY DEF StatusOf
<1> QED
  BY <1>1 DEF Status

LEMMA UserImplements == ASSUME TypeOK, TypeOK', UserEdits PROVE Abstract!Edit
<1>1. UNCHANGED <<cmd, Status, hit, outcome>>
  BY DEF UserEdits, Status, StatusOf
<1>2. \/ UNCHANGED tree
      \/ /\ tree' \in [Coll -> Abstract!Node]
         /\ \A c \in Coll :
               IF Abstract!There(c)
               THEN /\ tree'[c].state # "unused"
                    /\ tree'[c].name = tree[c].name /\ tree'[c].up = tree[c].up
               ELSE tree'[c] = tree[c]
  <2>1. ASSUME NEW c \in Coll, UserErases(c) \/ UserTogglesTrash(c)
        PROVE  \A d \in Coll :
                  IF There(d)
                  THEN /\ tree'[d].state # "unused"
                       /\ tree'[d].name = tree[d].name /\ tree'[d].up = tree[d].up
                  ELSE tree'[d] = tree[d]
    <3>1. PICK S \in SUBSET Coll, s \in {"live", "trashed", "erased"} :
              tree' = States(S, s) /\ \A d \in S : There(d)
      <4>1. CASE UserErases(c)
        <5>1. \A d \in Subtree(c) : There(d)
          <6> SUFFICES ASSUME NEW d \in Subtree(c), ~There(d) PROVE FALSE
            OBVIOUS
          <6> DEFINE S == {e \in Coll : There(e)}
          <6>1. S \in SUBSET (Coll \ {d}) /\ c \in S
            BY <4>1 DEF UserErases
          <6> QED
            BY <6>1 DEF Subtree
        <5> QED
          BY <4>1, <5>1, SubtreeFacts DEF UserErases
      <4>2. CASE UserTogglesTrash(c)
        BY <4>2 DEF UserTogglesTrash
      <4> QED
        BY <2>1, <4>1, <4>2
    <3> QED
      BY <3>1 DEF States, There, TypeOK, Node
  <2>2. \A i \in Item, c \in Coll : UserRefiles(i, c) => UNCHANGED tree
    BY DEF UserRefiles
  <2> QED
    BY <2>1, <2>2, SameTree DEF UserEdits, TypeOK
<1>3. \/ UNCHANGED <<items, filed>>
      \/ /\ items' \in [Item -> {"live", "trashed", "erased"}]
         /\ \A i \in Item : items[i] = "erased" => items'[i] = "erased"
         /\ filed' \in [Item -> SUBSET Coll]
  <2>1. ASSUME NEW i \in Item, NEW c \in Coll, UserRefiles(i, c)
        PROVE  \A j \in Item : items[j] = "erased" => items'[j] = "erased"
    BY <2>1 DEF UserRefiles, TypeOK
  <2>2. \A c \in Coll : UserErases(c) \/ UserTogglesTrash(c) => UNCHANGED <<items, filed>>
    BY DEF UserErases, UserTogglesTrash
  <2>3. items' \in [Item -> {"live", "trashed", "erased"}] /\ filed' \in [Item -> SUBSET Coll]
    BY DEF TypeOK
  <2> QED
    BY <2>1, <2>2, <2>3 DEF UserEdits
<1> QED
  BY <1>1, <1>2, <1>3 DEF Abstract!Edit

\* What Zotero does with a request it carries out.
LEMMA ServedMoves ==
    ASSUME TypeOK, TypeOK', NEW p \in Proc, NEW what, NEW answer \in {"half", "ok"},
           Served(p, what, answer), req[p] = "sent"
    PROVE  /\ Status[p] = "open" /\ UNCHANGED <<filed, cmd, outcome>>
           /\ hit' = [hit EXCEPT ![p] = what]
           /\ Status' = [Status EXCEPT ![p] = IF answer = "half" THEN "half" ELSE "landed"]
<1>1. req' = [req EXCEPT ![p] = answer] /\ hit' = [hit EXCEPT ![p] = what] /\ pc' = pc
  BY DEF Served
<1>2. Status' = [Status EXCEPT ![p] = StatusOf(p)']
  BY <1>1, OneMoves DEF TypeOK
<1>3. req'[p] = answer
  BY <1>1 DEF TypeOK
<1>4. Status[p] = "open" /\ StatusOf(p)' = IF answer = "half" THEN "half" ELSE "landed"
  BY <1>3, StatusValues, StatusValuesNext DEF Status
<1> QED
  BY <1>1, <1>2, <1>4 DEF Served

LEMMA CreateImplements ==
    ASSUME TypeOK, TypeOK', NEW p \in Proc, ServeCreate(p)
    PROVE  Abstract!Land(p)
<1> DEFINE known == cmd[p].parent \in Coll /\ There(cmd[p].parent)
           up == IF known THEN cmd[p].parent ELSE Top
<1>1. /\ cmd[p].op = "create" /\ req[p] = "sent" /\ Served(p, {NewKey}, "ok") /\ UNCHANGED items
      /\ tree' = [tree EXCEPT ![NewKey] = [state |-> "live", name |-> cmd[p].name, up |-> up]]
  BY DEF ServeCreate
<1>2. NewKey \in Coll /\ tree[NewKey].state = "unused"
  BY NewKeyFacts DEF ServeCreate
<1>3. up = IF cmd[p].parent # Top /\ Abstract!There(cmd[p].parent) THEN cmd[p].parent ELSE Top
  BY <1>1, SameTree, CmdFacts, CollectionAssumptions
<1> HIDE DEF up
<1>4. /\ Status[p] = "open" /\ UNCHANGED <<filed, cmd, outcome>>
      /\ Abstract!Touches(p, {NewKey})
  BY <1>1, ServedMoves DEF Abstract!Touches
<1>5. Abstract!Create(p)
  BY <1>1, <1>2, <1>3, <1>4 DEF Abstract!Create
<1> QED
  BY <1>4, <1>5 DEF Abstract!Land

LEMMA RenameImplements ==
    ASSUME TypeOK, TypeOK', NEW p \in Proc, ServeRename(p)
    PROVE  Abstract!Land(p)
<1> DEFINE c == cmd[p].col
           moves == cmd[p].parent # Keep /\ There(cmd[p].parent)
<1>1. /\ cmd[p].op = "rename" /\ req[p] = "sent" /\ There(c) /\ UNCHANGED items
      /\ moves => cmd[p].parent \notin Subtree(c)
      /\ Served(p, {c}, "ok")
      /\ tree' = [tree EXCEPT ![c] =
            [state |-> tree[c].state,
             name |-> IF cmd[p].name = Keep THEN tree[c].name ELSE cmd[p].name,
             up |-> IF moves THEN cmd[p].parent ELSE tree[c].up]]
  BY DEF ServeRename
<1>2. c \in Coll /\ (cmd[p].parent # Keep => cmd[p].parent \in Coll)
  BY <1>1, CmdFacts
<1>3. /\ Status[p] = "open" /\ UNCHANGED <<filed, cmd, outcome>>
      /\ Abstract!Touches(p, {c})
  BY <1>1, ServedMoves DEF Abstract!Touches
<1>4. /\ Abstract!There(c) <=> There(c)
      /\ cmd[p].parent # Keep => (Abstract!There(cmd[p].parent) <=> There(cmd[p].parent))
      /\ Abstract!Below(c) = Subtree(c)
  BY <1>2, SameTree
<1>5. Abstract!Rename(p)
  BY <1>1, <1>3, <1>4 DEF Abstract!Rename
<1> QED
  BY <1>3, <1>5 DEF Abstract!Land

LEMMA TurnImplements ==
    ASSUME TypeOK, TypeOK', NEW p \in Proc, ServeTrash(p) \/ ServeRestore(p) \/ ServeErase(p)
    PROVE  Abstract!Land(p)
<1> DEFINE cols == Subtree(cmd[p].col)
           its == IF cmd[p].items THEN ItemsBelow(cmd[p].col) ELSE {}
           state == CASE cmd[p].op = "trash" -> "trashed"
                      [] cmd[p].op = "restore" -> "live"
                      [] cmd[p].op = "erase" -> "erased"
           answer == IF cmd[p].op = "erase" /\ its # {} THEN "half" ELSE "ok"
<1>1. /\ cmd[p].op \in {"trash", "restore", "erase"} /\ req[p] = "sent"
      /\ There(cmd[p].col) /\ cmd[p].col \in Coll
  BY CmdFacts DEF ServeTrash, ServeRestore, ServeErase
<1>2. cols \subseteq Coll /\ its \subseteq Item /\ Coll \cap Item = {}
  BY <1>1, SubtreeFacts, ItemsBelowType, CollectionAssumptions
<1>3. /\ tree' = States(cols, state) /\ items' = Marked(its, "trashed")
      /\ Served(p, cols \cup its, answer)
  <2>1. CASE ServeTrash(p)
    BY <2>1 DEF ServeTrash
  <2>2. CASE ServeRestore(p)
    <3>1. cmd[p].op = "restore" /\ cmd[p].items = FALSE
      BY <2>2, CmdFacts DEF ServeRestore
    <3>2. its = {} /\ Marked({}, "trashed") = items /\ cols \cup {} = cols
      BY <3>1 DEF Marked, TypeOK
    <3> QED
      BY <2>2, <3>1, <3>2 DEF ServeRestore
  <2>3. CASE ServeErase(p)
    BY <2>3 DEF ServeErase
  <2> QED
    BY <2>1, <2>2, <2>3
<1>4. /\ cols = Abstract!Below(cmd[p].col) /\ Abstract!There(cmd[p].col)
      /\ its = IF cmd[p].items THEN Abstract!Within(cols) ELSE {}
  BY <1>1, SameTree, SameItems
<1>5. /\ tree' = States(cols, state) => Abstract!Set(cols, state)
      /\ items' = Marked(its, "trashed") => Abstract!Mark(its, "trashed")
  BY DEF States, Marked, Abstract!Set, Abstract!Mark
<1>6. /\ answer \in {"half", "ok"}
      /\ (answer = "half") <=> (cmd[p].op = "erase" /\ (cols \cup its) \cap Item # {})
  BY <1>2
<1> HIDE DEF cols, its, answer, state
<1>7. /\ Status[p] = "open" /\ UNCHANGED <<filed, cmd, outcome>>
      /\ Abstract!Touches(p, cols \cup its)
  BY <1>1, <1>3, <1>6, ServedMoves DEF Abstract!Touches
<1>8. Abstract!Turn(p, state)
  BY <1>3, <1>4, <1>5, <1>7 DEF Abstract!Turn
<1>9. \/ cmd[p].op = "trash" /\ state = "trashed"
      \/ cmd[p].op = "restore" /\ state = "live"
      \/ cmd[p].op = "erase" /\ state = "erased"
  BY <1>1 DEF state
<1> QED
  BY <1>7, <1>8, <1>9 DEF Abstract!Land

\* The second half of an erasure, and the requests that come to nothing.
LEMMA RestOfZoteroImplements ==
    ASSUME IInv, TypeOK', NEW p \in Proc, ServeEraseItems(p) \/ Reject(p) \/ BreakOff(p)
    PROVE  Abstract!Finish(p) \/ Abstract!Close(p) \/ Abstract!Break(p)
<1>0. TypeOK /\ Order(p)
  BY DEF IInv, ProcInv
<1>1. /\ UNCHANGED <<tree, filed, cmd, pc, hit, outcome>>
      /\ Status' = [Status EXCEPT ![p] = StatusOf(p)']
  <2>1. /\ UNCHANGED <<tree, filed, cmd, pc, hit, outcome>>
        /\ \A q \in Proc \ {p} : req'[q] = req[q]
    BY <1>0 DEF ServeEraseItems, Reject, BreakOff, library, cli, TypeOK
  <2> QED
    BY <2>1, OneMoves
<1>2. CASE ServeEraseItems(p)
  <2>1. Status[p] = "half" /\ StatusOf(p)' = "landed"
    BY <1>0, <1>2, StatusValues, StatusValuesNext DEF ServeEraseItems, Status, TypeOK
  <2> QED
    BY <1>1, <1>2, <2>1 DEF ServeEraseItems, Abstract!Finish, Abstract!Mark, Marked
<1>3. CASE Reject(p)
  <2>1. Status[p] = "open" /\ StatusOf(p)' = "closed" /\ UNCHANGED items
    <3>1. req[p] = "sent" /\ req'[p] \in {"refused", "failed"} /\ hit'[p] = {} /\ UNCHANGED items
      BY <1>0, <1>3 DEF Reject, library, TypeOK, Order
    <3> QED
      BY <1>0, <3>1, StatusValues, StatusValuesNext DEF Status
  <2> QED
    BY <1>1, <2>1 DEF Abstract!Close
<1>4. CASE BreakOff(p)
  <2>1. Status[p] = "half" /\ StatusOf(p)' = "broken" /\ UNCHANGED items
    <3>1. req[p] = "half" /\ req'[p] = "failed" /\ hit'[p] # {} /\ UNCHANGED items
      BY <1>0, <1>4 DEF BreakOff, library, TypeOK, Order
    <3> QED
      BY <1>0, <3>1, StatusValues, StatusValuesNext DEF Status
  <2> QED
    BY <1>1, <2>1 DEF Abstract!Break
<1> QED
  BY <1>2, <1>3, <1>4

LEMMA AbstractInit == Init => Abstract!Init
<1> SUFFICES ASSUME Init PROVE Abstract!Init
  OBVIOUS
<1>1. TypeOK
  BY TypeInit
<1>2. Status = [p \in Proc |-> "idle"]
  BY DEF Init, Status, StatusOf
<1>3. cmd \in Commands /\ hit = [p \in Proc |-> {}] /\ outcome = [p \in Proc |-> "none"]
  BY DEF Init
<1> QED
  BY <1>1, <1>2, <1>3, SameTree DEF TypeOK, Abstract!Init

\* Of what an invocation does before it reports, only its start is seen.
LEMMA GoesOn ==
    ASSUME IInv, TypeOK', NEW p \in Proc,
           Start(p) \/ Resolve(p) \/ FindsNone(p) \/ ReadVersion(p) \/ Send(p)
             \/ (Receive(p) /\ req[p] = "ok")
    PROVE  Abstract!Issue(p) \/ UNCHANGED Abstract!vars
<1>0. TypeOK /\ Order(p)
  BY DEF IInv, ProcInv
<1> USE DEF Goto
<1>1. /\ UNCHANGED <<tree, items, filed, cmd, hit, outcome>>
      /\ \A q \in Proc \ {p} : pc'[q] = pc[q] /\ req'[q] = req[q]
  BY <1>0 DEF Start, Resolve, FindsNone, ReadVersion, Send, Receive, library, TypeOK
<1>2. Status' = [Status EXCEPT ![p] = StatusOf(p)']
  BY <1>1, OneMoves
<1>3. CASE Start(p)
  <2>1. pc[p] = "idle" /\ req[p] = "none" /\ pc'[p] = "resolve" /\ req'[p] = "none"
    BY <1>0, <1>3 DEF Start, Order, TypeOK
  <2>2. Status[p] = "idle" /\ StatusOf(p)' = "open"
    BY <1>0, <2>1, StatusValues, StatusValuesNext DEF Status
  <2> QED
    BY <1>1, <1>2, <2>2 DEF Abstract!Issue
<1>4. CASE ~Start(p)
  <2>1. \/ /\ pc[p] \in {"resolve", "check", "read", "send"} /\ req[p] = "none"
           /\ \/ pc'[p] \in {"check", "read", "send"} /\ req'[p] = "none"
              \/ pc'[p] = "wait" /\ req'[p] = "sent"
        \/ req[p] = "ok" /\ req'[p] = "ok"
    BY <1>0, <1>4
    DEF Resolve, FindsNone, ReadVersion, Send, Receive, Order, TypeOK
  <2>2. StatusOf(p)' = StatusOf(p)
    BY <1>0, <2>1, StatusValues, StatusValuesNext
  <2>3. Status' = Status
    BY <1>2, <2>2 DEF Status
  <2> QED
    BY <1>1, <2>3 DEF Abstract!vars
<1> QED
  BY <1>3, <1>4

\* What was never sent never takes effect once it is reported on; what was
\* sent does what it does.
LEMMA ReportMoves ==
    ASSUME IInv, TypeOK', NEW p \in Proc, NEW o, Report(p, o), pc[p] \notin {"idle", "done"}
    PROVE  /\ Abstract!Answer(p, o)
           /\ req[p] # "none" => UNCHANGED Status
           /\ req[p] = "none" => Status[p] = "open" /\ Status' = [Status EXCEPT ![p] = "closed"]
<1>0. TypeOK /\ Order(p)
  BY DEF IInv, ProcInv
<1>1. /\ UNCHANGED <<tree, items, filed, cmd, hit, req>>
      /\ outcome[p] = "none" /\ outcome' = [outcome EXCEPT ![p] = o]
      /\ pc' = [pc EXCEPT ![p] = "done"] /\ pc'[p] = "done"
  BY <1>0 DEF Report, Goto, library, Order, TypeOK
<1>2. Status' = [Status EXCEPT ![p] = StatusOf(p)']
  BY <1>0, <1>1, OneMoves DEF TypeOK
<1>3. CASE req[p] # "none"
  <2>1. StatusOf(p)' = StatusOf(p)
    BY <1>1, <1>3 DEF StatusOf
  <2> QED
    BY <1>1, <1>2, <1>3, <2>1 DEF Status, Abstract!Answer
<1>4. CASE req[p] = "none"
  <2>1. StatusOf(p) = "open" /\ StatusOf(p)' = "closed"
    BY <1>0, <1>1, <1>4, StatusValues, StatusValuesNext
  <2> QED
    BY <1>1, <1>2, <1>4, <2>1 DEF Status, Abstract!Answer
<1> QED
  BY <1>3, <1>4

\* Each report says what its effect, or the lack of one, allows.
LEMMA ReportImplements ==
    ASSUME IInv, TypeOK', NEW p \in Proc,
           \/ GiveUp(p) \/ FindsSibling(p) \/ TimeOut(p) \/ (Receive(p) /\ req[p] # "ok")
           \/ VerifyFields(p) \/ VerifyTrash(p) \/ VerifyErased(p) \/ VerifyFails(p)
    PROVE  \/ Abstract!Confirm(p) \/ Abstract!Refuse(p) \/ Abstract!Existed(p)
           \/ Abstract!Fail(p) \/ Abstract!GiveUp(p)
<1>0. TypeOK /\ Order(p)
  BY DEF IInv, ProcInv
<1>1. CASE GiveUp(p)
  <2>1. Report(p, "error") /\ pc[p] \notin {"idle", "done"} /\ req[p] = "none"
    BY <1>0, <1>1 DEF GiveUp, Order
  <2>2. Abstract!Settle(p) /\ Abstract!Answer(p, "error")
    BY <2>1, ReportMoves DEF Abstract!Settle
  <2> QED
    BY <2>2 DEF Abstract!Fail
<1>2. CASE FindsSibling(p)
  <2>1. /\ Report(p, "existed") /\ pc[p] \notin {"idle", "done"} /\ req[p] = "none"
        /\ cmd[p].op = "create"
        /\ \E c \in Coll : Sibling(c, cmd[p].name, cmd[p].parent)
    BY <1>0, <1>2 DEF FindsSibling, Order
  <2> QED
    BY <2>1, ReportMoves DEF Abstract!Existed, Sibling, Live
<1>3. CASE TimeOut(p) \/ (Receive(p) /\ req[p] # "ok")
  <2>1. /\ pc[p] = "wait" /\ req[p] # "none"
        /\ Report(p, "unknown") \/ (Report(p, "refused") /\ req[p] = "refused")
    BY <1>0, <1>3 DEF TimeOut, Receive, Order
  <2>2. Status[p] # "idle" /\ (req[p] = "refused" => Status[p] = "closed")
    BY <2>1 DEF Status, StatusOf
  <2>3. CASE Report(p, "unknown")
    BY <2>1, <2>2, <2>3, ReportMoves DEF Abstract!GiveUp
  <2>4. CASE Report(p, "refused") /\ req[p] = "refused"
    BY <2>1, <2>2, <2>4, ReportMoves DEF Abstract!Refuse
  <2> QED
    BY <2>1, <2>3, <2>4
<1>4. CASE VerifyFields(p) \/ VerifyTrash(p) \/ VerifyErased(p) \/ VerifyFails(p)
  <2>1. /\ pc[p] = "verify" /\ req[p] = "ok"
        /\ \E o \in {"applied", "mismatch", "conflict", "error", "unknown"} : Report(p, o)
    BY <1>0, <1>4 DEF VerifyFields, VerifyTrash, VerifyErased, VerifyFails, Order
  <2>2. Status[p] = "landed"
    BY <1>0, <2>1, StatusValues DEF Status
  <2>3. PICK o \in {"applied", "mismatch", "conflict", "error", "unknown"} : Report(p, o)
    BY <2>1
  <2>4. Abstract!Answer(p, o) /\ UNCHANGED Status
    BY <2>1, <2>3, ReportMoves
  <2> QED
    BY <2>2, <2>3, <2>4 DEF Abstract!Confirm, Abstract!Fail, Abstract!Settle, Abstract!GiveUp
<1> QED
  BY <1>1, <1>2, <1>3, <1>4

(* Whichever backend carries it, a command takes effect at most once, on   *)
(* the collections as they are then and in one step (an erasure with its   *)
(* items in two), and is answered truthfully (lib.rs:2565-2960).           *)
THEOREM Refinement == Spec => ImplementsAtomicCollections
<1>1. ASSUME IInv, IInv', [Next]_vars PROVE [Abstract!Next]_(Abstract!vars)
  <2>0. TypeOK /\ TypeOK'
    BY <1>1 DEF IInv
  <2>1. CASE UserEdits
    BY <2>0, <2>1, UserImplements DEF Abstract!Next
  <2>2. ASSUME NEW p \in Proc, Zotero(p) PROVE Abstract!Next
    <3>1. Abstract!Land(p) \/ Abstract!Finish(p) \/ Abstract!Close(p) \/ Abstract!Break(p)
      BY <1>1, <2>0, <2>2, CreateImplements, RenameImplements, TurnImplements,
         RestOfZoteroImplements DEF Zotero
    <3> QED
      BY <3>1 DEF Abstract!Next
  <2>3. ASSUME NEW p \in Proc, Cli(p) PROVE [Abstract!Next]_(Abstract!vars)
    <3>1. \/ Abstract!Issue(p) \/ UNCHANGED Abstract!vars
          \/ Abstract!Confirm(p) \/ Abstract!Refuse(p) \/ Abstract!Existed(p)
          \/ Abstract!Fail(p) \/ Abstract!GiveUp(p)
      BY <1>1, <2>0, <2>3, GoesOn, ReportImplements DEF Cli
    <3> QED
      BY <3>1 DEF Abstract!Next
  <2>4. CASE UNCHANGED vars
    BY <2>4 DEF vars, library, cli, Abstract!vars, Status, StatusOf
  <2> QED
    BY <1>1, <2>1, <2>2, <2>3, <2>4 DEF Next
<1> QED
  BY <1>1, AbstractInit, IAlways, PTL DEF Spec, ImplementsAtomicCollections, Abstract!Spec
=============================================================================
