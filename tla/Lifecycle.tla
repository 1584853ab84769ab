----------------------------- MODULE Lifecycle -----------------------------
(***************************************************************************)
(* lifecycle.rs: how a command gets the backend it needs from a Zotero     *)
(* that may be closed.  It probes (runtime.rs, bridge/client.rs); if       *)
(* nothing answers it launches Zotero, waits for that one backend, and     *)
(* probes again.  A command of the Bridge then sends its scripts, each     *)
(* behind a check of the endpoint's ownership that is remembered once it   *)
(* has succeeded.                                                          *)
(*                                                                         *)
(* Every probe is a request of its own: between two of them Zotero starts, *)
(* quits, loads or exchanges its plugin, or is launched by another         *)
(* invocation.  A busy Zotero may leave any probe unanswered.              *)
(***************************************************************************)
EXTENDS Naturals

CONSTANTS
    Proc,            \* concurrent CLI invocations
    Needs,           \* the backends their commands need
    MaxChanges       \* bound: what the user does to Zotero

\* What a command may need: "script" is ensure_bridge, the others are the
\* Backends of ensure_backend.
Need == {"script", "connector", "api", "apiwrite", "bridge", "write"}

ASSUME NeedsAssump == Needs \subseteq Need
ASSUME BoundAssump == MaxChanges \in Nat

VARIABLES
    \* Zotero
    zotero,          \* "down", "starting", or "up": its HTTP server answers
    prefs,           \* is the Local API enabled; is it Zotero 10 or later
    installed,       \* the plugin that serves the Bridge's path
    plugin,          \* the one registered there now
    changes,         \* what the user did so far
    \* each invocation
    need, pc,
    got,             \* what its two probes found
    owned,           \* it found the endpoint to be ours (POSITIVE_PROBES)
    launched,        \* it launched Zotero
    \* and what happened meanwhile
    heard,           \* Zotero was up and answered all its probes as it should
    steady           \* ... since the end of its wait

env == <<zotero, prefs, installed, plugin, changes>>
meanwhile == <<heard, steady>>
vars == <<zotero, prefs, installed, plugin, changes,
          need, pc, got, owned, launched, heard, steady>>

Plugin == {"none", "ours", "foreign"}
PC == {"idle", "bridge", "connector", "api", "decide", "launch", "wait",
       "run", "send", "done", "failed"}

TypeOK ==
    /\ zotero \in {"down", "starting", "up"}
    /\ prefs \in [api: BOOLEAN, ten: BOOLEAN]
    /\ installed \in Plugin /\ plugin \in Plugin
    /\ changes \in Nat
    /\ need \in [Proc -> Needs]
    /\ pc \in [Proc -> PC]
    /\ got \in [Proc -> SUBSET {"connector", "api", "id"}]
    /\ owned \in [Proc -> BOOLEAN] /\ launched \in [Proc -> BOOLEAN]
    /\ heard \in [Proc -> BOOLEAN] /\ steady \in [Proc -> BOOLEAN]

\* Zotero is closed, or up with its plugin loaded.
Init ==
    /\ zotero \in {"down", "up"}
    /\ prefs \in [api: BOOLEAN, ten: BOOLEAN]
    /\ installed \in Plugin
    /\ plugin = IF zotero = "up" THEN installed ELSE "none"
    /\ changes = 0
    /\ need \in [Proc -> Needs]
    /\ pc = [p \in Proc |-> "idle"]
    /\ got = [p \in Proc |-> {}]
    /\ owned = [p \in Proc |-> FALSE] /\ launched = [p \in Proc |-> FALSE]
    /\ heard = [p \in Proc |-> FALSE] /\ steady = [p \in Proc |-> FALSE]

-----------------------------------------------------------------------------
(* Zotero and its user.                                                    *)

Nobody == [p \in Proc |-> FALSE]

UserStarts ==
    /\ zotero = "down" /\ changes < MaxChanges
    /\ zotero' = "starting" /\ changes' = changes + 1
    /\ UNCHANGED <<prefs, installed, plugin, need, pc, got, owned, launched, meanwhile>>

ServerUp ==
    /\ zotero = "starting"
    /\ zotero' = "up"
    /\ UNCHANGED <<prefs, installed, plugin, changes, need, pc, got, owned, launched, meanwhile>>

\* The plugin registers its endpoint a while after the server answers.
PluginStarts ==
    /\ zotero = "up" /\ plugin # installed
    /\ plugin' = installed
    /\ UNCHANGED <<zotero, prefs, installed, changes, need, pc, got, owned, launched, meanwhile>>

\* The user installs, exchanges or removes a plugin.
PluginChanges ==
    /\ changes < MaxChanges /\ changes' = changes + 1
    /\ installed' \in Plugin \ {installed}
    /\ plugin' = "none"
    /\ steady' = Nobody
    /\ UNCHANGED <<zotero, prefs, need, pc, got, owned, launched, heard>>

Quit ==
    /\ zotero # "down" /\ changes < MaxChanges
    /\ zotero' = "down" /\ plugin' = "none" /\ changes' = changes + 1
    /\ heard' = Nobody /\ steady' = Nobody
    /\ UNCHANGED <<prefs, installed, need, pc, got, owned, launched>>

-----------------------------------------------------------------------------
(* The probes.                                                             *)

Goto(p, l) == pc' = [pc EXCEPT ![p] = l] /\ UNCHANGED <<env, need>>

\* No answer that counts: nobody listens, a busy Zotero takes longer than 3
\* seconds, or it answers with an error.
Silence(p) ==
    /\ heard' = [heard EXCEPT ![p] = FALSE]
    /\ steady' = [steady EXCEPT ![p] = FALSE]

\* probe_bridge: the fork and id handshake, remembered when it succeeds.
Verified(p) ==
    /\ owned[p] \/ (zotero = "up" /\ plugin = "ours")
    /\ owned' = [owned EXCEPT ![p] = TRUE]
    /\ UNCHANGED <<got, launched, meanwhile>>

\* Answered by another plugin, or by a server that knows no such path.
NotOurs(p) ==
    /\ ~owned[p] /\ zotero = "up" /\ plugin # "ours"
    /\ UNCHANGED <<got, owned, launched, meanwhile>>

Unreachable(p) ==
    /\ ~owned[p]
    /\ Silence(p)
    /\ UNCHANGED <<got, owned, launched>>

\* ensure_bridge probes the Bridge alone, the others build their runtime.
Start(p) ==
    /\ pc[p] = "idle"
    /\ Goto(p, IF need[p] = "script" THEN "bridge" ELSE "connector")
    /\ heard' = [heard EXCEPT ![p] = zotero = "up"]
    /\ UNCHANGED <<got, owned, launched, steady>>

\* ensure_bridge: whatever answers, the command goes on.
BridgeAnswers(p) ==
    /\ pc[p] = "bridge"
    /\ Verified(p) \/ NotOurs(p)
    /\ Goto(p, "run")

BridgeUnreachable(p) ==
    /\ pc[p] = "bridge"
    /\ Unreachable(p)
    /\ Goto(p, "connector")

\* Mutant: the probe's message kept in place of what it found.
FoundMessage(endpoint) ==
    IF endpoint = "connector" THEN {"connector"}
    ELSE IF prefs.api THEN {"api"} ELSE {"local API disabled"}

\* build_runtime_context: what the Connector's ping and /api/ answer.
Found(endpoint) ==
    IF endpoint = "connector" THEN {"connector"}
    ELSE {f \in {"api", "id"} : IF f = "api" THEN prefs.api ELSE prefs.ten}

AfterProbe(p) ==
    IF pc[p] = "connector" THEN "api" ELSE IF launched[p] THEN "run" ELSE "decide"

Probe(p) ==
    /\ pc[p] \in {"connector", "api"}
    /\ zotero = "up"
    /\ got' = [got EXCEPT ![p] = @ \cup Found(pc[p])]
    /\ Goto(p, AfterProbe(p))
    /\ UNCHANGED <<owned, launched, meanwhile>>

\* Any status but 200 (and 403, for a disabled Local API) means unavailable,
\* though the id is in the header of every answer.
ProbeRefused(p) ==
    /\ pc[p] \in {"connector", "api"}
    /\ zotero = "up"
    /\ got' = [got EXCEPT ![p] = @ \cup (Found(pc[p]) \cap {"id"})]
    /\ Silence(p)
    /\ Goto(p, AfterProbe(p))
    /\ UNCHANGED <<owned, launched>>

ProbeUnanswered(p) ==
    /\ pc[p] \in {"connector", "api"}
    /\ Silence(p)
    /\ Goto(p, AfterProbe(p))
    /\ UNCHANGED <<got, owned, launched>>

-----------------------------------------------------------------------------
(* ensure_backend.                                                         *)

\* Backend::available, as far as the runtime tells.
FoundNeeded(p) ==
    CASE need[p] = "connector"             -> "connector" \in got[p]
      [] need[p] = "api"                   -> "api" \in got[p]
      [] need[p] \in {"apiwrite", "write"} -> {"api", "id"} \subseteq got[p]
      [] OTHER                             -> FALSE

BridgeWillDo(p) == need[p] \in {"script", "bridge", "write"}

Available(p) ==
    /\ pc[p] = "decide"
    /\ \/ FoundNeeded(p) /\ UNCHANGED <<got, owned, launched, meanwhile>>
       \/ ~FoundNeeded(p) /\ BridgeWillDo(p) /\ Verified(p)
    /\ Goto(p, "run")

\* Mutant: a Zotero that answers is one whose Local API does.
RespondingApi(p) == "api" \in got[p]

\* zotero_http_responding
Responding(p) == got[p] # {}

\* The backend is missing: the command reports that itself if Zotero
\* answers; otherwise Zotero is launched.
Missing(p) ==
    /\ pc[p] = "decide"
    /\ ~FoundNeeded(p)
    /\ IF BridgeWillDo(p) THEN NotOurs(p) \/ Unreachable(p)
       ELSE UNCHANGED <<got, owned, launched, meanwhile>>
    /\ Goto(p, IF Responding(p) THEN "run" ELSE "launch")

\* A second Zotero gives way to the one that runs.
Launch(p) ==
    /\ pc[p] = "launch"
    /\ zotero' = IF zotero = "down" THEN "starting" ELSE zotero
    /\ launched' = [launched EXCEPT ![p] = TRUE]
    /\ pc' = [pc EXCEPT ![p] = "wait"]
    /\ UNCHANGED <<prefs, installed, plugin, changes, need, got, owned, meanwhile>>

\* Switched off, no executable, or one that cannot be started.
LaunchFails(p) ==
    /\ pc[p] = "launch"
    /\ Goto(p, "failed")
    /\ UNCHANGED <<got, owned, launched, meanwhile>>

\* Mutant: the server's first answer is taken for the backend's.
WaitEndsEarly(p) ==
    /\ pc[p] = "wait"
    /\ zotero = "up"
    /\ steady' = [steady EXCEPT ![p] = TRUE]
    /\ Goto(p, "connector")
    /\ UNCHANGED <<got, owned, launched, heard>>

\* wait_until_ready: a poll that finds the backend.  The write backend is
\* the Bridge, or a Local API of a Zotero 10.
WaitEnds(p) ==
    /\ pc[p] = "wait"
    /\ zotero = "up"
    /\ \/ /\ \/ need[p] = "connector"
             \/ need[p] \in {"api", "apiwrite"} /\ prefs.api
             \/ need[p] = "write" /\ prefs.api /\ prefs.ten
          /\ UNCHANGED owned
       \/ /\ BridgeWillDo(p) /\ plugin = "ours"
          /\ owned' = [owned EXCEPT ![p] = TRUE]
    /\ steady' = [steady EXCEPT ![p] = TRUE]
    /\ Goto(p, "connector")
    /\ UNCHANGED <<got, launched, heard>>

WaitTimesOut(p) ==
    /\ pc[p] = "wait"
    /\ Goto(p, "failed")
    /\ UNCHANGED <<got, owned, launched, meanwhile>>

-----------------------------------------------------------------------------
(* The command's scripts.                                                  *)

Scripted(p) == BridgeWillDo(p) /\ ~FoundNeeded(p)

\* execute_js asks bridge_endpoint_active before each script.
CheckOwner(p) ==
    /\ pc[p] = "run" /\ Scripted(p)
    /\ \/ Verified(p) /\ Goto(p, "send")
       \/ NotOurs(p) /\ Goto(p, "failed")
       \/ Unreachable(p) /\ Goto(p, "failed")

\* execute_http: some plugin runs the script.
Deliver(p) ==
    /\ pc[p] = "send"
    /\ zotero = "up" /\ plugin # "none"
    /\ Goto(p, "run")
    /\ UNCHANGED <<got, owned, launched, meanwhile>>

NotDelivered(p) ==
    /\ pc[p] = "send"
    /\ Goto(p, "failed")
    /\ UNCHANGED <<got, owned, launched, meanwhile>>

Finish(p) ==
    /\ pc[p] = "run"
    /\ Goto(p, "done")
    /\ UNCHANGED <<got, owned, launched, meanwhile>>

Zotero == UserStarts \/ ServerUp \/ PluginStarts \/ PluginChanges \/ Quit

Cli(p) ==
    \/ Start(p) \/ BridgeAnswers(p) \/ BridgeUnreachable(p) \/ Probe(p)
    \/ ProbeRefused(p) \/ ProbeUnanswered(p)
    \/ Available(p) \/ Missing(p) \/ Launch(p) \/ LaunchFails(p) \/ WaitEnds(p) \/ WaitTimesOut(p)
    \/ CheckOwner(p) \/ Deliver(p) \/ NotDelivered(p) \/ Finish(p)

Next == Zotero \/ \E p \in Proc : Cli(p)

Spec == Init /\ [][Next]_vars

-----------------------------------------------------------------------------
(* What is checked.                                                        *)

\* "Never spawn a second Zotero": an invocation launches Zotero only if it
\* was not up all the time since the invocation began, or left one of its
\* probes unanswered or answered it with an error -- whichever backend is
\* missing, whatever is disabled, and however the probes fall between the
\* changes.
NeverBesideAnAnswering ==
    [][\A p \in Proc : pc[p] = "launch" /\ launched'[p] => ~heard[p]]_vars

\* "waits for the specific capability the caller named": the command that
\* goes on after a launch finds its backend usable in the runtime it is
\* given, unless Zotero changed or fell silent after the wait.  A Local API
\* write may lack the Zotero 10 it needs.
ReadyMeansUsable ==
    \A p \in Proc :
        pc[p] = "run" /\ launched[p] /\ steady[p] /\ need[p] # "apiwrite"
            => FoundNeeded(p) \/ (BridgeWillDo(p) /\ owned[p])

\* "an unowned endpoint can never receive a script" (bridge/client.rs): the
\* plugin that runs a script is ours.  The code does not hold to it, and no
\* run checks it: ownership is remembered for the process, and checked in a
\* request of its own, so a plugin that takes the place of ours meanwhile
\* gets the next script.
UnownedGetNoScripts ==
    [][\A p \in Proc : pc[p] = "send" /\ pc'[p] = "run" => plugin = "ours"]_vars
=============================================================================
