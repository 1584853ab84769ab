----------------------------- MODULE WritePath -----------------------------
(***************************************************************************)
(* The item write commands (lib.rs item_*_command) over their two          *)
(* backends: the Local API, where a command reads the item, computes the   *)
(* arrays it replaces and sends one request conditional on the version it  *)
(* read (write_router.rs), and the CLI Bridge, where it sends a script     *)
(* that Zotero runs (bridge/client.rs).  Both read the item back before    *)
(* they answer.                                                            *)
(*                                                                         *)
(* Several processes write the same item while its user edits it.  A       *)
(* request may be answered late or never: the process stops waiting, and   *)
(* what it sent may still be carried out.  A process may die anywhere.     *)
(***************************************************************************)
EXTENDS ItemEdits, Naturals

CONSTANTS
    Proc,            \* concurrent CLI invocations
    Commands,        \* the commands they may be given
    Items,           \* the items they may meet
    MaxEdits         \* bound: edits by the user

ASSUME CommandsAssump == Commands \subseteq Command
ASSUME ItemsAssump == \A i \in Items : i \in Content /\ i.there
ASSUME BoundAssump == MaxEdits \in Nat

VARIABLES
    \* Zotero
    item, version,   \* the item, and its version: it grows with every change
    edits,           \* edits by the user so far
    \* each invocation
    cmd, backend,    \* its command, and the backend chosen at its start
    pc,              \* where it stands
    read, base,      \* the item its request builds on, and that item's version
    req,             \* its request: "none", "sent", or how Zotero answered it
    outcome          \* what it reports

vars == <<item, version, edits, cmd, backend, pc, read, base, req, outcome>>

PC == {"idle", "resolve", "read", "send", "wait", "check", "done"}
Replies == {"ok", "partly", "ignored", "conflict", "auth", "other"}
Outcome == {"none", "applied", "mismatch", "disputed", "refused", "unknown", "error"}

TypeOK ==
    /\ item \in Content
    /\ version \in Nat /\ edits \in Nat
    /\ cmd \in [Proc -> Commands]
    /\ backend \in [Proc -> {"api", "bridge"}]
    /\ pc \in [Proc -> PC]
    /\ read \in [Proc -> Content]
    /\ base \in [Proc -> Nat]
    /\ req \in [Proc -> {"none", "sent"} \cup Replies]
    /\ outcome \in [Proc -> Outcome]

\* Every invocation has its arguments, and its backend follows from the one
\* probe of local_api_writes_available.
Init ==
    /\ item \in Items
    /\ version = 0 /\ edits = 0
    /\ cmd \in [Proc -> Commands]
    /\ backend \in [Proc -> {"api", "bridge"}]
    /\ pc = [p \in Proc |-> "idle"]
    /\ read = [p \in Proc |-> item]
    /\ base = [p \in Proc |-> 0]
    /\ req = [p \in Proc |-> "none"]
    /\ outcome = [p \in Proc |-> "none"]

-----------------------------------------------------------------------------
(* Zotero: the user, the Local API and the scripts of the Bridge.          *)

\* An edit in Zotero's window: one field, one membership, one tag, the
\* trash, or an erasure.
Edited ==
    {[item EXCEPT !.trashed = ~@], [item EXCEPT !.there = FALSE]}
    \cup ({[item EXCEPT !.fields[f] = v] : f \in Field, v \in Value} \ {item})
    \cup {[item EXCEPT !.cols = @ \cup {c}] : c \in Collection \ item.cols}
    \cup {[item EXCEPT !.cols = @ \ {c}] : c \in item.cols}
    \cup {[item EXCEPT !.tags = @ \cup {t}] : t \in Tag \ item.tags}
    \cup {[item EXCEPT !.tags = @ \ {t}] : t \in item.tags}

UserEdits ==
    /\ item.there /\ edits < MaxEdits
    /\ item' \in Edited
    /\ version' = version + 1 /\ edits' = edits + 1
    /\ UNCHANGED <<cmd, backend, pc, read, base, req, outcome>>

\* An answer to a request that changed nothing.
Reply(p, r) ==
    /\ req[p] = "sent"
    /\ req' = [req EXCEPT ![p] = r]
    /\ UNCHANGED <<item, version, edits, cmd, backend, pc, read, base, outcome>>

\* PATCH or DELETE at the version the command read.
ServeRequest(p) ==
    /\ backend[p] = "api"
    /\ req[p] = "sent"
    /\ item.there /\ version = base[p]
    /\ item' = Patched(cmd[p], read[p], item)
    /\ version' = version + 1
    /\ req' = [req EXCEPT ![p] = "ok"]
    /\ UNCHANGED <<edits, cmd, backend, pc, read, base, outcome>>

\* A success status for a write of which some fields were dropped.
ServePartly(p) ==
    /\ req[p] = "sent"
    /\ item.there
    /\ backend[p] = "api" => version = base[p]
    /\ \E part \in Parts(cmd[p]) : item' = Patched(part, read[p], item)
    /\ item' # Patched(cmd[p], read[p], item)
    /\ version' = version + 1
    /\ req' = [req EXCEPT ![p] = "partly"]
    /\ IF backend[p] = "api" THEN UNCHANGED <<read, base>>
       ELSE /\ read' = [read EXCEPT ![p] = item]
            /\ base' = [base EXCEPT ![p] = version]
    /\ UNCHANGED <<edits, cmd, backend, pc, outcome>>

\* A success status for a request Zotero did not carry out.
IgnoreRequest(p) ==
    /\ backend[p] = "api"
    /\ item.there /\ version = base[p]
    /\ Reply(p, "ignored")

\* 412: the item changed since.
RejectStale(p) ==
    /\ backend[p] = "api"
    /\ item.there /\ version # base[p]
    /\ Reply(p, "conflict")

\* 401, 403, 428, 429: nothing was written.
RejectUnauthorized(p) ==
    /\ backend[p] = "api"
    /\ Reply(p, "auth")

\* 404, 5xx, or a script that found no item or threw before it saved.
RejectOther(p) == Reply(p, "other")

\* A script works on the item as it is when it runs.  A command that read
\* nothing before starts from there.
ServeScript(p) ==
    /\ backend[p] = "bridge"
    /\ req[p] = "sent"
    /\ item.there
    /\ item' = Scripted(cmd[p], item)
    /\ version' = version + 1
    /\ req' = [req EXCEPT ![p] = "ok"]
    /\ IF cmd[p].op \in {"update", "trash", "restore", "erase"}
       THEN /\ read' = [read EXCEPT ![p] = item]
            /\ base' = [base EXCEPT ![p] = version]
       ELSE UNCHANGED <<read, base>>
    /\ UNCHANGED <<edits, cmd, backend, pc, outcome>>

-----------------------------------------------------------------------------
(* A command up to its request.                                            *)

Goto(p, l) ==
    /\ pc' = [pc EXCEPT ![p] = l]
    /\ UNCHANGED <<item, version, edits, cmd, backend>>

Report(p, o) ==
    /\ Goto(p, "done")
    /\ outcome' = [outcome EXCEPT ![p] = o]
    /\ UNCHANGED <<read, base, req>>

Start(p) ==
    /\ pc[p] = "idle"
    /\ Goto(p, "resolve")
    /\ UNCHANGED <<read, base, req, outcome>>

\* The Bridge's move takes one source at most and cannot clear the others.
Unsupported(p) ==
    /\ backend[p] = "bridge" /\ cmd[p].op = "move"
    /\ cmd[p].all \/ \E c, d \in cmd[p].from : c # d

\* Over the Bridge only the commands that replace an array read it first.
ReadsFirst(p) ==
    backend[p] = "api" \/ cmd[p].op \in {"tag", "add", "remove", "move"}

Resolve(p) ==
    /\ pc[p] = "resolve"
    /\ item.there /\ ~Unsupported(p)
    /\ Goto(p, IF ReadsFirst(p) THEN "read" ELSE "send")
    /\ UNCHANGED <<read, base, req, outcome>>

ResolveUnsupported(p) ==
    /\ pc[p] = "resolve"
    /\ Unsupported(p)
    /\ Report(p, "error")

Read(p) ==
    /\ pc[p] = "read"
    /\ item.there
    /\ read' = [read EXCEPT ![p] = item]
    /\ base' = [base EXCEPT ![p] = version]
    /\ Goto(p, "send")
    /\ UNCHANGED <<req, outcome>>

\* Nothing found, an unexpected answer, or none, before anything was sent.
ReadFails(p) ==
    /\ pc[p] \in {"resolve", "read"}
    /\ Report(p, "error")

\* No credential: refused before any request.
Preflight(p) ==
    /\ pc[p] = "send" /\ backend[p] = "api"
    /\ Report(p, "refused")

\* Mutant: the version asked for again when the request is sent.
SendFreshVersion(p) ==
    /\ pc[p] = "send"
    /\ req' = [req EXCEPT ![p] = "sent"]
    /\ base' = [base EXCEPT ![p] = version]
    /\ Goto(p, "wait")
    /\ UNCHANGED <<read, outcome>>

\* Exactly one request, with the version of the read.
Send(p) ==
    /\ pc[p] = "send"
    /\ req' = [req EXCEPT ![p] = "sent"]
    /\ Goto(p, "wait")
    /\ UNCHANGED <<read, base, outcome>>

-----------------------------------------------------------------------------
(* The answer, the read-back and the report.                               *)

ReceiveOk(p) ==
    /\ pc[p] = "wait" /\ req[p] \in {"ok", "partly", "ignored"}
    /\ Goto(p, "check")
    /\ UNCHANGED <<read, base, req, outcome>>

\* classify: an authorization failure, a failed precondition or a conflict.
ReceiveRefusal(p) ==
    /\ pc[p] = "wait" /\ req[p] \in {"conflict", "auth"}
    /\ Report(p, "refused")

\* TransportError: any other answer, or none in time.
ReceiveFailure(p) ==
    /\ pc[p] = "wait" /\ req[p] = "other"
    /\ Report(p, "unknown")

TimeOut(p) ==
    /\ pc[p] = "wait"
    /\ Report(p, "unknown")

\* Mutant: the item not looked for after its erasure.
CheckErasedUnread(p) ==
    /\ pc[p] = "check" /\ cmd[p].op = "erase"
    /\ Report(p, "applied")

\* An erasure is confirmed by the item's absence.
CheckErased(p) ==
    /\ pc[p] = "check" /\ cmd[p].op = "erase"
    /\ IF ~item.there THEN Report(p, "applied")
       ELSE Report(p, IF backend[p] = "api" THEN "unknown" ELSE "disputed")

\* Mutant: the state read back reported instead of its comparison.
CheckTrashState(p) ==
    /\ pc[p] = "check" /\ cmd[p].op \in {"trash", "restore"}
    /\ Report(p, IF item.there /\ item.trashed THEN "trashed" ELSE "restored")

\* Trash and restore compare the flag read back; over the Bridge an item
\* that is gone counts as one that is not in the trash.
CheckTrash(p) ==
    /\ pc[p] = "check" /\ cmd[p].op \in {"trash", "restore"}
    /\ item.there \/ backend[p] = "bridge"
    /\ LET nowTrashed == item.there /\ item.trashed
       IN  Report(p, IF nowTrashed = (cmd[p].op = "trash") THEN "applied" ELSE "disputed")

\* The others report the item read back, and the fields that differ from
\* the requested ones.  Also the order of an array, the type of a tag or a
\* field that was emptied may be found to differ.
CheckFields(p) ==
    /\ pc[p] = "check" /\ cmd[p].op \notin {"erase", "trash", "restore"}
    /\ item.there
    /\ \/ Matches(cmd[p], read[p], item) /\ Report(p, "applied")
       \/ Report(p, "mismatch")

\* The read-back found nothing or failed, after the write.
CheckFails(p) ==
    /\ pc[p] = "check"
    /\ Report(p, IF cmd[p].op = "erase" /\ backend[p] = "api" THEN "unknown" ELSE "error")

\* The process is killed; what it sent is under way.
Exit(p) ==
    /\ pc[p] \notin {"idle", "done"}
    /\ Report(p, "none")

-----------------------------------------------------------------------------

Zotero(p) ==
    \/ ServeRequest(p) \/ ServePartly(p) \/ IgnoreRequest(p)
    \/ RejectStale(p) \/ RejectUnauthorized(p) \/ RejectOther(p)
    \/ ServeScript(p)

Cli(p) ==
    \/ Start(p) \/ Resolve(p) \/ ResolveUnsupported(p) \/ Read(p) \/ ReadFails(p)
    \/ Preflight(p) \/ Send(p)
    \/ ReceiveOk(p) \/ ReceiveRefusal(p) \/ ReceiveFailure(p) \/ TimeOut(p)
    \/ CheckErased(p) \/ CheckTrash(p) \/ CheckFields(p) \/ CheckFails(p)

Next == UserEdits \/ \E p \in Proc : Zotero(p) \/ Cli(p) \/ Exit(p)

Spec == Init /\ [][Next]_vars

-----------------------------------------------------------------------------
(* What is checked.                                                        *)

\* "applied" for a permanent erasure means that the item is gone, now and in
\* every later state, whatever others did around it.
ErasedMeansGone ==
    \A p \in Proc : cmd[p].op = "erase" /\ outcome[p] = "applied" => ~item.there

\* The memberships a command names as those to leave.
Named(c) ==
    CASE c.op = "remove" -> {c.col}
      [] c.op = "move"   -> IF c.all THEN Collection ELSE c.from
      [] OTHER           -> {}

Lands(p) == req[p] = "sent" /\ req'[p] = "ok"

\* Full-array replacement loses nothing: no write makes the item leave a
\* collection the command does not name, whoever added it and whenever --
\* but for the Bridge's move without a source.
OnlyNamedCollectionsAreLeft ==
    [][\A p \in Proc :
          Lands(p) /\ ~(backend[p] = "bridge" /\ BackendsDiffer(cmd[p]))
            => item.cols \ item'.cols \subseteq Named(cmd[p])]_vars

\* "A Local API PATCH that partially applies, or a Bridge script that silently
\* drops a field, must surface a mismatch" (diff_requested_fields): a write
\* that Zotero answered with a success status and carried out in part, or not
\* at all, is reported as applied only if somebody else has changed the item
\* between the command's read and its read-back, or nothing was to be done.
DropsAreNoticed ==
    [][\A p \in Proc :
          outcome[p] = "none" /\ outcome'[p] = "applied"
            => \/ req[p] = "ok"
               \/ req[p] = "partly" /\ version # base[p] + 1
               \/ req[p] = "ignored" /\ version # base[p]
               \/ req[p] = "ignored" /\ Patched(cmd[p], read[p], read[p]) = read[p]]_vars

\* "applied only when the read-back state matches the request": a restore is
\* reported as applied only when the item is there, out of the trash.
RestoredMeansThere ==
    [][\A p \in Proc :
          cmd[p].op = "restore" /\ outcome[p] = "none" /\ outcome'[p] = "applied"
            => item.there /\ ~item.trashed]_vars

\* The refinement: WritePath implements AtomicWrites.
StatusOf(p) ==
    CASE req[p] = "ok" -> "landed"
      [] req[p] \in {"partly", "ignored", "conflict", "auth", "other"} -> "closed"
      [] req[p] = "none" /\ pc[p] = "done" -> "closed"
      [] pc[p] = "idle" -> "idle"
      [] OTHER -> "open"

AnswerOf(p) ==
    CASE outcome[p] \in {"none", "applied", "refused"} -> outcome[p]
      [] OTHER -> "unknown"

Status == [p \in Proc |-> StatusOf(p)]

Answered == [p \in Proc |-> AnswerOf(p)]

Abstract == INSTANCE AtomicWrites WITH status <- Status, answer <- Answered

ImplementsAtomicWrites == Abstract!Spec
=============================================================================
