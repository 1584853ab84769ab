---------------------------- MODULE Collections ----------------------------
(***************************************************************************)
(* The collection commands: create, rename (which also moves), delete to   *)
(* the trash, restore and delete --permanent, over the Local API or the    *)
(* scripts of the Bridge.                                                  *)
(*                                                                         *)
(* Zotero carries out one request at a time, but the script that erases a  *)
(* collection with its items awaits between its two transactions, and a    *)
(* request the CLI gave up may still be served.                            *)
(***************************************************************************)
EXTENDS Naturals, FiniteSets

CONSTANTS
    Proc,            \* concurrent CLI invocations
    Coll,            \* collection keys, those not yet used among them
    Name, Item,
    Top,             \* the parent of a top-level collection
    Keep,            \* rename: this field is not given
    Nobody,
    Commands,        \* which command lines run together: [Proc -> Cmd]
    Trees,           \* the libraries to start from
    MaxEdits         \* changes by the user

Cmd ==
    [op: {"create"}, name: Name, parent: Coll \cup {Top}]
    \cup [op: {"rename"}, col: Coll, name: Name \cup {Keep}, parent: Coll \cup {Keep}]
    \cup [op: {"trash", "erase"}, col: Coll, items: BOOLEAN]
    \cup [op: {"restore"}, col: Coll, items: {FALSE}]

Node == [state: {"unused", "live", "trashed", "erased"}, name: Name, up: Coll \cup {Top}]

ASSUME CollectionAssumptions ==
    /\ Top \notin Coll /\ Keep \notin Coll \cup Name /\ Nobody \notin Proc
    /\ Coll \cap Item = {}
    /\ Commands \subseteq [Proc -> Cmd] /\ Trees \subseteq [Coll -> Node]
    /\ MaxEdits \in Nat

VARIABLES
    tree,            \* the collections
    items,           \* [Item -> {"live", "trashed", "erased"}]
    filed,           \* the collections an item is in
    edits,
    cmd,
    backend,         \* what each command goes over: "api" or "bridge"
    pc,
    fresh,           \* invocations whose target is as they read it
    req,             \* what became of an invocation's request
    key,             \* the collection it created or found
    hit,             \* the collections and items its request was carried out on
    outcome,
    atStart,         \* the live collections when it started
    disturbed        \* for each, what others changed since it started

library == <<tree, items, filed, edits>>
cli == <<pc, fresh, outcome, atStart>>
vars == <<library, cmd, backend, cli, req, key, hit, disturbed>>

TypeOK ==
    /\ tree \in [Coll -> Node]
    /\ items \in [Item -> {"live", "trashed", "erased"}]
    /\ filed \in [Item -> SUBSET Coll]
    /\ edits \in 0..MaxEdits
    /\ cmd \in Commands /\ backend \in [Proc -> {"api", "bridge"}]
    /\ pc \in [Proc -> {"idle", "resolve", "check", "read", "send", "wait", "verify", "done"}]
    /\ fresh \subseteq Proc
    /\ req \in [Proc -> {"none", "sent", "half", "ok", "refused", "failed"}]
    /\ key \in [Proc -> Coll \cup {Nobody}]
    /\ hit \in [Proc -> SUBSET (Coll \cup Item)]
    /\ outcome \in [Proc -> {"none", "applied", "existed", "mismatch", "conflict",
                             "refused", "unknown", "error"}]
    /\ atStart \in [Proc -> SUBSET Coll]
    /\ disturbed \in [Proc -> SUBSET (Coll \cup Item)]

\* Whatever can be written there, only what the Local API can do alone goes
\* over it.
ApiSuffices(c) ==
    c.op \in {"create", "rename"} \/ (c.op \in {"trash", "erase"} /\ ~c.items)

Init ==
    /\ tree \in Trees
    /\ items = [i \in Item |-> "live"]
    /\ filed \in [Item -> {S \in SUBSET {c \in Coll : tree[c].state = "live"} : Cardinality(S) = 1}]
    /\ edits = 0
    /\ cmd \in Commands
    /\ backend \in {b \in [Proc -> {"api", "bridge"}] :
                      \A p \in Proc : b[p] = "api" => ApiSuffices(cmd[p])}
    /\ pc = [p \in Proc |-> "idle"]
    /\ fresh = {}
    /\ req = [p \in Proc |-> "none"]
    /\ key = [p \in Proc |-> Nobody]
    /\ hit = [p \in Proc |-> {}]
    /\ outcome = [p \in Proc |-> "none"]
    /\ atStart = [p \in Proc |-> {}]
    /\ disturbed = [p \in Proc |-> {}]

-----------------------------------------------------------------------------
(* The tree.  A key resolves while its collection is there, in the trash   *)
(* or not; lists leave the trash out.                                      *)

There(c) == tree[c].state \in {"live", "trashed"}
Live == {c \in Coll : tree[c].state = "live"}

\* getDescendents with what is in the trash, and the collection itself.
Subtree(c) ==
    {d \in Coll : \A S \in SUBSET (Coll \ {d}) :
        c \in S => \E e \in Coll \ S : There(e) /\ tree[e].up \in S}

ItemsBelow(c) == {i \in Item : items[i] # "erased" /\ filed[i] \cap Subtree(c) # {}}

Sibling(c, name, parent) == c \in Live /\ tree[c].name = name /\ tree[c].up = parent

Unused == {c \in Coll : tree[c].state = "unused"}
NewKey == CHOOSE c \in Unused : TRUE

\* What an invocation's command is about.
Target(p) == IF cmd[p].op = "create" THEN key[p] ELSE cmd[p].col

OverApi(p) == backend[p] = "api"

\* Every other invocation under way sees what p, or the user, changed.
Changes(p, what) ==
    /\ disturbed' = [q \in Proc |-> IF q = p \/ pc[q] = "idle" THEN disturbed[q]
                                    ELSE disturbed[q] \cup what]
    /\ fresh' = {q \in fresh : q = p \/ Target(q) \notin what}

-----------------------------------------------------------------------------
(* What Zotero does with a request.                                        *)

States(S, s) == [c \in Coll |-> IF c \in S THEN [tree[c] EXCEPT !.state = s] ELSE tree[c]]

Marked(S, s) == [i \in Item |-> IF i \in S THEN s ELSE items[i]]

Served(p, what, answer) ==
    /\ req' = [req EXCEPT ![p] = answer]
    /\ hit' = [hit EXCEPT ![p] = what]
    /\ Changes(p, what)
    /\ UNCHANGED <<filed, edits, cmd, backend, pc, outcome, atStart>>

\* POST wants its parent; the script files under the top level without it.
ServeCreate(p) ==
    /\ cmd[p].op = "create" /\ req[p] = "sent" /\ Unused # {}
    /\ LET c == NewKey
           known == cmd[p].parent \in Coll /\ There(cmd[p].parent)
           up == IF known THEN cmd[p].parent ELSE Top
       IN  /\ backend[p] = "api" => up = cmd[p].parent
           /\ tree' = [tree EXCEPT ![c] = [state |-> "live", name |-> cmd[p].name, up |-> up]]
           /\ key' = [key EXCEPT ![p] = c]
           /\ Served(p, {c}, "ok")
    /\ UNCHANGED items

\* PATCH carries the version that was read.
Current(p) == OverApi(p) => p \in fresh

\* A collection does not go below itself.  The script ignores a parent that
\* is not there, PATCH is refused.
ServeRename(p) ==
    /\ cmd[p].op = "rename" /\ req[p] = "sent" /\ There(cmd[p].col) /\ Current(p)
    /\ LET c == cmd[p].col
           moves == cmd[p].parent # Keep /\ There(cmd[p].parent)
       IN  /\ OverApi(p) => cmd[p].parent = Keep \/ moves
           /\ moves => cmd[p].parent \notin Subtree(c)
           /\ tree' = [tree EXCEPT ![c] =
                [state |-> tree[c].state,
                 name |-> IF cmd[p].name = Keep THEN tree[c].name ELSE cmd[p].name,
                 up |-> IF moves THEN cmd[p].parent ELSE tree[c].up]]
           /\ Served(p, {c}, "ok")
    /\ UNCHANGED <<items, key>>

\* Zotero trashes the collections below, and with includeItems their items.
ServeTrash(p) ==
    /\ cmd[p].op = "trash" /\ req[p] = "sent" /\ There(cmd[p].col) /\ Current(p)
    /\ LET cols == Subtree(cmd[p].col)
           its == IF cmd[p].items THEN ItemsBelow(cmd[p].col) ELSE {}
       IN  /\ tree' = States(cols, "trashed")
           /\ items' = Marked(its, "trashed")
           /\ Served(p, cols \cup its, "ok")
    /\ UNCHANGED key

\* Mutant: the collection alone.
ServeRestoreOne(p) ==
    /\ cmd[p].op = "restore" /\ req[p] = "sent" /\ There(cmd[p].col)
    /\ LET cols == Subtree(cmd[p].col)
       IN  /\ tree' = States({cmd[p].col}, "live")
           /\ Served(p, cols, "ok")
    /\ UNCHANGED <<items, key>>

\* The collection and every trashed one below come back, items do not.
ServeRestore(p) ==
    /\ cmd[p].op = "restore" /\ req[p] = "sent" /\ There(cmd[p].col)
    /\ LET cols == Subtree(cmd[p].col)
       IN  /\ tree' = States(cols, "live")
           /\ Served(p, cols, "ok")
    /\ UNCHANGED <<items, key>>

\* DELETE, or the script without deleteItems, leaves the items alone; with
\* it they are in the trash first.
ServeErase(p) ==
    /\ cmd[p].op = "erase" /\ req[p] = "sent" /\ There(cmd[p].col) /\ Current(p)
    /\ LET cols == Subtree(cmd[p].col)
           its == IF cmd[p].items THEN ItemsBelow(cmd[p].col) ELSE {}
       IN  /\ tree' = States(cols, "erased")
           /\ items' = Marked(its, "trashed")
           /\ Served(p, cols \cup its, IF its = {} THEN "ok" ELSE "half")
    /\ UNCHANGED key

\* The script then erases those that were below, wherever they are by now.
ServeEraseItems(p) ==
    /\ req[p] = "half"
    /\ items' = Marked(hit[p] \cap Item, "erased")
    /\ req' = [req EXCEPT ![p] = "ok"]
    /\ Changes(p, hit[p] \cap Item)
    /\ UNCHANGED <<tree, filed, edits, cmd, backend, pc, key, hit, outcome, atStart>>

\* 412, 401, 403, 428, 429: nothing was written.  Anything else that is no
\* success: an unexpected status, ERROR, a script that threw.
Reject(p) ==
    /\ req[p] = "sent"
    /\ \E answer \in {"refused", "failed"} :
        /\ ~OverApi(p) => answer = "failed"
        /\ req' = [req EXCEPT ![p] = answer]
    /\ UNCHANGED <<library, cmd, backend, cli, key, hit, disturbed>>

\* The script throws, or Zotero quits, between its two transactions.
BreakOff(p) ==
    /\ req[p] = "half"
    /\ req' = [req EXCEPT ![p] = "failed"]
    /\ UNCHANGED <<library, cmd, backend, cli, key, hit, disturbed>>

-----------------------------------------------------------------------------
(* The user, in Zotero's window.                                           *)

UserErases(c) ==
    /\ There(c)
    /\ tree' = States(Subtree(c), "erased")
    /\ Changes(Nobody, Subtree(c))
    /\ UNCHANGED <<items, filed>>

UserTogglesTrash(c) ==
    /\ There(c)
    /\ tree' = States({c}, IF c \in Live THEN "trashed" ELSE "live")
    /\ Changes(Nobody, {c})
    /\ UNCHANGED <<items, filed>>

UserRefiles(i, c) ==
    /\ items[i] # "erased" /\ c \in Live
    /\ filed' = [filed EXCEPT ![i] = {c}]
    /\ items' = [items EXCEPT ![i] = "live"]
    /\ Changes(Nobody, {i})
    /\ UNCHANGED tree

UserEdits ==
    /\ edits < MaxEdits /\ edits' = edits + 1
    /\ \/ \E c \in Coll : UserErases(c) \/ UserTogglesTrash(c)
       \/ \E i \in Item, c \in Coll : UserRefiles(i, c)
    /\ UNCHANGED <<cmd, backend, pc, req, key, hit, outcome, atStart>>

-----------------------------------------------------------------------------
(* A command.                                                              *)

Goto(p, l) ==
    /\ pc' = [pc EXCEPT ![p] = l]
    /\ UNCHANGED <<library, cmd, backend, hit, disturbed>>

Report(p, o) ==
    /\ Goto(p, "done")
    /\ outcome' = [outcome EXCEPT ![p] = o]
    /\ UNCHANGED <<fresh, atStart, req>>

Start(p) ==
    /\ pc[p] = "idle"
    /\ Goto(p, "resolve")
    /\ atStart' = [atStart EXCEPT ![p] = Live]
    /\ UNCHANGED <<fresh, outcome, req, key>>

\* The keys the command line names.
Named(p) ==
    (IF cmd[p].op = "create" THEN {} ELSE {cmd[p].col})
    \cup (IF cmd[p].op \in {"create", "rename"} THEN {cmd[p].parent} \ {Top, Keep} ELSE {})

Resolve(p) ==
    /\ pc[p] = "resolve"
    /\ \A c \in Named(p) : There(c)
    /\ Goto(p, IF ~OverApi(p) THEN "send"
               ELSE IF cmd[p].op = "create" THEN "check" ELSE "read")
    /\ UNCHANGED <<fresh, outcome, atStart, req, key>>

\* A key nothing resolves, no Bridge for what needs it, or no answer.
GiveUp(p) ==
    /\ pc[p] \in {"resolve", "check", "read", "send"}
    /\ Report(p, "error")
    /\ UNCHANGED key

\* find_existing_collection
FindsSibling(p) ==
    /\ pc[p] = "check"
    /\ \E c \in Coll :
        /\ Sibling(c, cmd[p].name, cmd[p].parent)
        /\ key' = [key EXCEPT ![p] = c]
    /\ Report(p, "existed")

\* Mutant: what the list says about the parent is not what is compared.
FindsNoneUnderIt(p) ==
    /\ pc[p] = "check"
    /\ \A c \in Coll : Sibling(c, cmd[p].name, cmd[p].parent) => cmd[p].parent = Top
    /\ Goto(p, "send")
    /\ UNCHANGED <<fresh, outcome, atStart, req, key>>

FindsNone(p) ==
    /\ pc[p] = "check"
    /\ ~\E c \in Coll : Sibling(c, cmd[p].name, cmd[p].parent)
    /\ Goto(p, "send")
    /\ UNCHANGED <<fresh, outcome, atStart, req, key>>

ReadVersion(p) ==
    /\ pc[p] = "read" /\ There(cmd[p].col)
    /\ fresh' = fresh \cup {p}
    /\ Goto(p, "send")
    /\ UNCHANGED <<outcome, atStart, req, key>>

Send(p) ==
    /\ pc[p] = "send"
    /\ req' = [req EXCEPT ![p] = "sent"]
    /\ Goto(p, "wait")
    /\ UNCHANGED <<fresh, outcome, atStart, key>>

\* Mutant: the kind of failure is handed on as it came.
ReceiveRaw(p) ==
    /\ pc[p] = "wait" /\ req[p] \in {"ok", "refused", "failed"}
    /\ IF req[p] = "ok"
       THEN /\ Goto(p, "verify")
            /\ UNCHANGED <<fresh, outcome, atStart, req>>
       ELSE Report(p, req[p])
    /\ UNCHANGED key

Receive(p) ==
    /\ pc[p] = "wait" /\ req[p] \in {"ok", "refused", "failed"}
    /\ IF req[p] = "ok"
       THEN /\ Goto(p, "verify")
            /\ UNCHANGED <<fresh, outcome, atStart, req>>
       ELSE Report(p, IF req[p] = "refused" THEN "refused" ELSE "unknown")
    /\ UNCHANGED key

\* Mutant: what was not answered in time counts as refused.
TimeOutRefused(p) ==
    /\ pc[p] = "wait"
    /\ Report(p, "refused")
    /\ UNCHANGED key

TimeOut(p) ==
    /\ pc[p] = "wait"
    /\ Report(p, "unknown")
    /\ UNCHANGED key

\* The collection read back, compared with the body of the request; the
\* Bridge's create compares nothing.
AsRequested(p) ==
    LET c == tree[Target(p)] IN
    \/ cmd[p].op = "create" /\ backend[p] = "bridge"
    \/ /\ cmd[p].name = Keep \/ c.name = cmd[p].name
       /\ cmd[p].parent \in {Keep, Top} \/ c.up = cmd[p].parent

VerifyFields(p) ==
    /\ pc[p] = "verify" /\ cmd[p].op \in {"create", "rename"}
    /\ IF There(Target(p))
       THEN Report(p, IF AsRequested(p) THEN "applied" ELSE "mismatch")
       ELSE Report(p, "error")
    /\ UNCHANGED key

\* Over the Bridge what is gone is not in the trash.
VerifyTrash(p) ==
    /\ pc[p] = "verify" /\ cmd[p].op \in {"trash", "restore"}
    /\ LET trashed == tree[cmd[p].col].state = "trashed" IN
        IF OverApi(p) /\ ~There(cmd[p].col) THEN Report(p, "error")
        ELSE Report(p, IF trashed = (cmd[p].op = "trash") THEN "applied" ELSE "conflict")
    /\ UNCHANGED key

\* What DELETE's read-back leaves open is a transport error.
VerifyErased(p) ==
    /\ pc[p] = "verify" /\ cmd[p].op = "erase"
    /\ Report(p, IF ~There(cmd[p].col) THEN "applied"
                 ELSE IF OverApi(p) THEN "unknown" ELSE "conflict")
    /\ UNCHANGED key

\* The read-back of what was written is not answered.
VerifyFails(p) ==
    /\ pc[p] = "verify"
    /\ Report(p, IF cmd[p].op = "erase" /\ OverApi(p) THEN "unknown" ELSE "error")
    /\ UNCHANGED key

-----------------------------------------------------------------------------

Zotero(p) ==
    \/ ServeCreate(p) \/ ServeRename(p) \/ ServeTrash(p) \/ ServeRestore(p)
    \/ ServeErase(p) \/ ServeEraseItems(p) \/ Reject(p) \/ BreakOff(p)

Cli(p) ==
    \/ Start(p) \/ Resolve(p) \/ GiveUp(p) \/ FindsSibling(p) \/ FindsNone(p)
    \/ ReadVersion(p) \/ Send(p) \/ Receive(p) \/ TimeOut(p)
    \/ VerifyFields(p) \/ VerifyTrash(p) \/ VerifyErased(p) \/ VerifyFails(p)

Next == UserEdits \/ \E p \in Proc : Zotero(p) \/ Cli(p)

Spec == Init /\ [][Next]_vars

-----------------------------------------------------------------------------
(* What is checked.                                                        *)

\* A create over the Local API makes no second collection of one name under
\* one parent if the first was there when the command began and nobody
\* touched it since: a retry whose first attempt was carried out finds it.
\* (One whose first attempt is still to be served does not.)
NoSecondSibling ==
    \A p \in Proc :
        cmd[p].op = "create" /\ backend[p] = "api" /\ hit[p] # {}
            => \A c \in atStart[p] \ disturbed[p] : ~Sibling(c, cmd[p].name, cmd[p].parent)

\* What a command reports as applied is so, for everything below the named
\* collection as well, as far as nobody else touched that since.
AppliedMeansDone ==
    \A p \in Proc :
        LET mine == hit[p] \ disturbed[p]
            is(S) == \A c \in mine \cap Coll : tree[c].state \in S
            its(s) == \A i \in mine \cap Item : items[i] = s
        IN  outcome[p] = "applied" =>
              CASE cmd[p].op = "create" ->
                     key[p] \in mine /\ disturbed[p] \cap {cmd[p].parent} = {}
                        => Sibling(key[p], cmd[p].name, cmd[p].parent)
                [] cmd[p].op = "rename" ->
                     cmd[p].col \in mine /\ disturbed[p] \cap {cmd[p].parent} = {}
                        => AsRequested(p)
                [] cmd[p].op = "trash"   -> is({"trashed"}) /\ its("trashed")
                [] cmd[p].op = "restore" -> is({"live"})
                [] cmd[p].op = "erase"   -> is({"erased"}) /\ its("erased")

\* The refinement: a command takes effect at most once, in one step or, an
\* erasure with its items, two, whether or not somebody still waits for it;
\* and what is answered is so of that effect (lib.rs:2565-2960).
StatusOf(p) ==
    CASE pc[p] = "idle" /\ req[p] = "none" -> "idle"
      [] req[p] = "ok" -> "landed"
      [] req[p] = "half" -> "half"
      [] req[p] = "failed" /\ hit[p] # {} -> "broken"
      [] req[p] = "sent" \/ (req[p] = "none" /\ pc[p] \notin {"idle", "done"}) -> "open"
      [] OTHER -> "closed"

Status == [p \in Proc |-> StatusOf(p)]

Abstract == INSTANCE AtomicCollections
                WITH status <- Status, answer <- outcome

ImplementsAtomicCollections == Abstract!Spec
=============================================================================
