---------------------------- MODULE AtomicWrites ----------------------------
(***************************************************************************)
(* What the item write commands promise, whichever backend carries them:   *)
(* a command takes effect at most once, in one step, on the item as it is  *)
(* at that moment, an update perhaps for some of its fields only;          *)
(* "applied" is answered only if it did as a whole or the item is as it    *)
(* asks anyway, a refusal only if it did not and never will; after any     *)
(* other answer, or none, it may still take effect.                        *)
(***************************************************************************)
EXTENDS ItemEdits

CONSTANTS Proc, Commands

VARIABLES
    item,        \* the item in Zotero's library
    cmd,         \* the command each process carries out, and where to
    backend,
    status,      \* "idle", "open", "landed", or "closed": it will never land
    answer       \* "none", "applied", "refused", "unknown"

vars == <<item, cmd, backend, status, answer>>

Init ==
    /\ item \in Content /\ item.there
    /\ cmd \in [Proc -> Commands]
    /\ backend \in [Proc -> {"api", "bridge"}]
    /\ status = [p \in Proc |-> "idle"]
    /\ answer = [p \in Proc |-> "none"]

\* Somebody else edits the item; an erased item never comes back.
Edit ==
    /\ item.there
    /\ item' \in Content
    /\ UNCHANGED <<cmd, backend, status, answer>>

Issue(p) ==
    /\ status[p] = "idle"
    /\ status' = [status EXCEPT ![p] = "open"]
    /\ UNCHANGED <<item, cmd, backend, answer>>

Land(p) ==
    /\ status[p] = "open"
    /\ item.there
    /\ item' = Effect(backend[p], cmd[p], item)
    /\ status' = [status EXCEPT ![p] = "landed"]
    /\ UNCHANGED <<cmd, backend, answer>>

\* Zotero drops some of the fields; the rest never lands.
LandPartly(p) ==
    /\ status[p] = "open"
    /\ item.there
    /\ \E part \in Parts(cmd[p]) : item' = Effect(backend[p], part, item)
    /\ status' = [status EXCEPT ![p] = "closed"]
    /\ UNCHANGED <<cmd, backend, answer>>

Close(p) ==
    /\ status[p] = "open"
    /\ status' = [status EXCEPT ![p] = "closed"]
    /\ UNCHANGED <<item, cmd, backend, answer>>

\* The answer of a process, which is given once.
Answer(p, a) ==
    /\ answer[p] = "none"
    /\ answer' = [answer EXCEPT ![p] = a]
    /\ UNCHANGED <<item, cmd, backend>>

\* Landed, or never to land and the item as the command asks for already.
Confirm(p) ==
    /\ \/ status[p] = "landed"
       \/ status[p] = "closed" /\ Patched(cmd[p], item, item) = item
    /\ Answer(p, "applied")
    /\ UNCHANGED status

Refuse(p) ==
    /\ status[p] \in {"open", "closed"}
    /\ status' = [status EXCEPT ![p] = "closed"]
    /\ Answer(p, "refused")

GiveUp(p) ==
    /\ status[p] # "idle"
    /\ \/ UNCHANGED status
       \/ status[p] = "open" /\ status' = [status EXCEPT ![p] = "closed"]
    /\ Answer(p, "unknown")

Next ==
    \/ Edit
    \/ \E p \in Proc :
         \/ Issue(p) \/ Land(p) \/ LandPartly(p) \/ Close(p)
         \/ Confirm(p) \/ Refuse(p) \/ GiveUp(p)

Spec == Init /\ [][Next]_vars
=============================================================================
