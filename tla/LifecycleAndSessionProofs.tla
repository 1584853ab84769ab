------------------------ MODULE LifecycleAndSessionProofs --------------------------
(***************************************************************************)
(* What outlasts an invocation: the Zotero it launches or finds, and the   *)
(* session file it leaves.  First who launches Zotero and what a command   *)
(* finds after the wait, whatever the user does to Zotero meanwhile; then  *)
(* that the session file implements what the session commands promise.     *)
(* All for any number of invocations.                                      *)
(***************************************************************************)
EXTENDS Lifecycle, SessionStore, TLAPS

-----------------------------------------------------------------------------
(* THE LIFECYCLE.                                                          *)

\* A Zotero that answered all probes as it should answered the Connector's,
\* so its invocation never gets as far as launching another one.
Answered(p) ==
    heard[p] => /\ pc[p] # "launch"
                /\ pc[p] \in {"api", "decide"} => "connector" \in got[p]

\* What ended the wait is still there, and the probes since then found it.
Waited(p) ==
    /\ pc[p] = "wait" => launched[p]
    /\ steady[p] =>
          /\ launched[p] /\ pc[p] \in {"connector", "api", "run", "send", "done", "failed"}
          /\ \/ need[p] = "connector"
             \/ need[p] \in {"api", "apiwrite"} /\ prefs.api
             \/ need[p] = "write" /\ prefs.api /\ prefs.ten
             \/ BridgeWillDo(p) /\ owned[p]
          /\ pc[p] # "connector" => "connector" \in got[p]
          /\ pc[p] \notin {"connector", "api"} =>
                 /\ prefs.api => "api" \in got[p]
                 /\ prefs.ten => "id" \in got[p]

IInv == TypeOK /\ \A p \in Proc : Answered(p) /\ Waited(p)

-----------------------------------------------------------------------------

LEMMA IInit == Init => IInv
<1> SUFFICES ASSUME Init PROVE IInv
  OBVIOUS
<1>1. TypeOK
  BY DEF Init, TypeOK, Plugin, PC
<1>2. \A p \in Proc : Answered(p) /\ Waited(p)
  BY DEF Init, Answered, Waited
<1> QED
  BY <1>1, <1>2 DEF IInv

\* What Zotero and its user do moves no invocation.
LEMMA ZoteroType == TypeOK /\ Zotero => TypeOK'
<1> SUFFICES ASSUME TypeOK, Zotero PROVE TypeOK'
  OBVIOUS
<1> USE DEF TypeOK, meanwhile, Nobody
<1>1. CASE UserStarts
  BY <1>1, BoundAssump DEF UserStarts
<1>2. CASE ServerUp
  BY <1>2 DEF ServerUp
<1>3. CASE PluginStarts
  BY <1>3 DEF PluginStarts
<1>4. CASE PluginChanges
  BY <1>4, BoundAssump DEF PluginChanges, Plugin
<1>5. CASE Quit
  BY <1>5, BoundAssump DEF Quit, Plugin
<1> QED
  BY <1>1, <1>2, <1>3, <1>4, <1>5 DEF Zotero

LEMMA ZoteroKeeps ==
    ASSUME IInv, Zotero, NEW p \in Proc
    PROVE  Answered(p)' /\ Waited(p)'
<1> USE DEF IInv, TypeOK, meanwhile, Nobody, Answered, Waited, BridgeWillDo
<1>1. CASE UserStarts
  BY <1>1 DEF UserStarts
<1>2. CASE ServerUp
  BY <1>2 DEF ServerUp
<1>3. CASE PluginStarts
  BY <1>3 DEF PluginStarts
<1>4. CASE PluginChanges
  BY <1>4 DEF PluginChanges
<1>5. CASE Quit
  BY <1>5 DEF Quit
<1> QED
  BY <1>1, <1>2, <1>3, <1>4, <1>5 DEF Zotero

-----------------------------------------------------------------------------

\* The outcomes of the three ways a probe of the Bridge can end.
LEMMA ProbeTypes ==
    ASSUME TypeOK, NEW p \in Proc, Verified(p) \/ NotOurs(p) \/ Unreachable(p)
    PROVE  /\ got' = got /\ launched' = launched
           /\ owned' \in [Proc -> BOOLEAN] /\ heard' \in [Proc -> BOOLEAN]
           /\ steady' \in [Proc -> BOOLEAN]
           /\ \A q \in Proc : owned[q] => owned'[q]
           /\ \A q \in Proc : heard'[q] => heard[q]
           /\ \A q \in Proc : steady'[q] => steady[q]
           /\ Verified(p) => owned'[p]
           /\ Unreachable(p) => ~heard'[p] /\ ~steady'[p]
  BY DEF TypeOK, Verified, NotOurs, Unreachable, Silence, meanwhile

LEMMA SilenceType ==
    ASSUME TypeOK, NEW p \in Proc, Silence(p)
    PROVE  /\ heard' \in [Proc -> BOOLEAN] /\ steady' \in [Proc -> BOOLEAN]
           /\ ~heard'[p] /\ ~steady'[p]
           /\ \A q \in Proc : (heard'[q] => heard[q]) /\ (steady'[q] => steady[q])
  BY DEF TypeOK, Silence

LEMMA FoundType == \A e : Found(e) \subseteq {"connector", "api", "id"}
  BY DEF Found

LEMMA CliType ==
    ASSUME TypeOK, NEW p \in Proc, Cli(p)
    PROVE  TypeOK'
<1> USE DEF Goto, env, meanwhile
<1>1. CASE Start(p)
  BY <1>1 DEF Start, TypeOK, PC
<1>2. CASE BridgeAnswers(p)
  BY <1>2, ProbeTypes DEF BridgeAnswers, TypeOK, PC
<1>3. CASE BridgeUnreachable(p)
  BY <1>3, ProbeTypes DEF BridgeUnreachable, TypeOK, PC
<1>4. CASE Probe(p)
  <2>1. got' \in [Proc -> SUBSET {"connector", "api", "id"}]
    BY <1>4, FoundType DEF Probe, TypeOK
  <2> QED
    BY <1>4, <2>1 DEF Probe, AfterProbe, TypeOK, PC
<1>5. CASE ProbeUnanswered(p) \/ ProbeRefused(p)
  <2>1. got' \in [Proc -> SUBSET {"connector", "api", "id"}]
    BY <1>5 DEF ProbeUnanswered, ProbeRefused, TypeOK
  <2> QED
    BY <1>5, <2>1, SilenceType DEF ProbeUnanswered, ProbeRefused, AfterProbe, TypeOK, PC
<1>6. CASE Available(p)
  BY <1>6, ProbeTypes DEF Available, TypeOK, PC
<1>7. CASE Missing(p)
  BY <1>7, ProbeTypes DEF Missing, TypeOK, PC
<1>8. CASE Launch(p)
  BY <1>8 DEF Launch, TypeOK, PC
<1>9. CASE LaunchFails(p) \/ WaitTimesOut(p) \/ Deliver(p) \/ NotDelivered(p) \/ Finish(p)
  BY <1>9 DEF LaunchFails, WaitTimesOut, Deliver, NotDelivered, Finish, TypeOK, PC
<1>10. CASE WaitEnds(p)
  BY <1>10 DEF WaitEnds, TypeOK, PC
<1>11. CASE CheckOwner(p)
  BY <1>11, ProbeTypes DEF CheckOwner, TypeOK, PC
<1> QED
  BY <1>1, <1>2, <1>3, <1>4, <1>5, <1>6, <1>7, <1>8, <1>9, <1>10, <1>11 DEF Cli

\* No invocation touches what another one knows.
LEMMA Bystander ==
    ASSUME TypeOK, NEW p \in Proc, Cli(p), NEW q \in Proc \ {p}
    PROVE  UNCHANGED <<pc[q], need, got[q], owned[q], launched[q], heard[q], steady[q], prefs>>
<1> USE DEF Goto, env, meanwhile, Verified, NotOurs, Unreachable, Silence, TypeOK
<1>1. CASE Start(p) \/ BridgeAnswers(p) \/ BridgeUnreachable(p)
  BY <1>1 DEF Start, BridgeAnswers, BridgeUnreachable
<1>2. CASE Probe(p) \/ ProbeRefused(p) \/ ProbeUnanswered(p)
  BY <1>2 DEF Probe, ProbeRefused, ProbeUnanswered
<1>3. CASE Available(p)
  BY <1>3 DEF Available
<1>4. CASE Missing(p)
  BY <1>4 DEF Missing
<1>5. CASE Launch(p) \/ LaunchFails(p)
  BY <1>5 DEF Launch, LaunchFails
<1>6. CASE WaitEnds(p) \/ WaitTimesOut(p)
  BY <1>6 DEF WaitEnds, WaitTimesOut
<1>7. CASE CheckOwner(p)
  BY <1>7 DEF CheckOwner
<1>8. CASE Deliver(p) \/ NotDelivered(p) \/ Finish(p)
  BY <1>8 DEF Deliver, NotDelivered, Finish
<1> QED
  BY <1>1, <1>2, <1>3, <1>4, <1>5, <1>6, <1>7, <1>8 DEF Cli

LEMMA OwnStep ==
    ASSUME IInv, NEW p \in Proc, Cli(p)
    PROVE  Answered(p)' /\ Waited(p)'
<1>0. /\ TypeOK /\ Answered(p) /\ Waited(p)
      /\ pc \in [Proc -> PC] /\ got \in [Proc -> SUBSET {"connector", "api", "id"}]
      /\ owned \in [Proc -> BOOLEAN] /\ launched \in [Proc -> BOOLEAN]
      /\ heard \in [Proc -> BOOLEAN] /\ steady \in [Proc -> BOOLEAN]
  BY DEF IInv, TypeOK
<1> USE DEF Goto, env, Answered, Waited, BridgeWillDo
<1>1. CASE Start(p)
  BY <1>0, <1>1 DEF Start
<1>2. CASE BridgeAnswers(p)
  BY <1>0, <1>2, ProbeTypes DEF BridgeAnswers
<1>3. CASE BridgeUnreachable(p)
  BY <1>0, <1>3, ProbeTypes DEF BridgeUnreachable
<1>4. CASE Probe(p)
  BY <1>0, <1>4 DEF Probe, AfterProbe, Found, meanwhile
<1>5. CASE ProbeUnanswered(p) \/ ProbeRefused(p)
  BY <1>0, <1>5, SilenceType DEF ProbeUnanswered, ProbeRefused, AfterProbe
<1>6. CASE Available(p)
  BY <1>0, <1>6, ProbeTypes DEF Available, meanwhile
<1>7. CASE Missing(p)
  <2>1. /\ pc[p] = "decide" /\ ~steady[p]
        /\ pc' = [pc EXCEPT ![p] = IF got[p] # {} THEN "run" ELSE "launch"]
        /\ UNCHANGED got
    BY <1>0, <1>7, ProbeTypes DEF Missing, Responding, meanwhile
  <2>2. /\ heard'[p] => heard[p]
        /\ steady'[p] => steady[p]
    BY <1>0, <1>7, ProbeTypes DEF Missing, meanwhile
  <2> QED
    BY <1>0, <2>1, <2>2
<1>8. CASE Launch(p)
  BY <1>0, <1>8 DEF Launch, meanwhile
<1>9. CASE LaunchFails(p) \/ WaitTimesOut(p) \/ Deliver(p) \/ NotDelivered(p) \/ Finish(p)
  BY <1>0, <1>9 DEF LaunchFails, WaitTimesOut, Deliver, NotDelivered, Finish, meanwhile
<1>10. CASE WaitEnds(p)
  <2>1. /\ pc[p] = "wait" /\ pc' = [pc EXCEPT ![p] = "connector"]
        /\ UNCHANGED <<need, prefs, got, launched, heard>>
        /\ launched[p]
    BY <1>0, <1>10 DEF WaitEnds
  <2> QED
    BY <1>0, <1>10, <2>1 DEF WaitEnds
<1>11. CASE CheckOwner(p)
  BY <1>0, <1>11, ProbeTypes DEF CheckOwner
<1> QED
  BY <1>1, <1>2, <1>3, <1>4, <1>5, <1>6, <1>7, <1>8, <1>9, <1>10, <1>11 DEF Cli

LEMMA IStep == IInv /\ [Next]_vars => IInv'
<1> SUFFICES ASSUME IInv, [Next]_vars PROVE IInv'
  OBVIOUS
<1>1. CASE Zotero
  BY <1>1, ZoteroType, ZoteroKeeps DEF IInv
<1>2. ASSUME NEW p \in Proc, Cli(p) PROVE IInv'
  <2>1. ASSUME NEW q \in Proc \ {p} PROVE Answered(q)' /\ Waited(q)'
    <3>1. TypeOK /\ Answered(q) /\ Waited(q)
      BY <2>1 DEF IInv
    <3>2. UNCHANGED <<pc[q], need, got[q], owned[q], launched[q], heard[q], steady[q], prefs>>
      BY <1>2, <2>1, <3>1, Bystander
    <3> QED
      BY <3>1, <3>2 DEF Answered, Waited, BridgeWillDo
  <2> QED
    BY <1>2, <2>1, CliType, OwnStep DEF IInv
<1>3. CASE UNCHANGED vars
  BY <1>3 DEF vars, IInv, TypeOK, Answered, Waited, BridgeWillDo
<1> QED
  BY <1>1, <1>2, <1>3 DEF Next

LEMMA IAlways == Spec => []IInv
  BY IInit, IStep, PTL DEF Spec

(* Every state of the process lifecycle is of its type (lifecycle.rs).     *)
THEOREM TypeCorrect == Spec => []TypeOK
<1>1. IInv => TypeOK
  BY DEF IInv
<1> QED
  BY <1>1, IAlways, PTL

(* An invocation never launches Zotero beside one that was up and answered *)
(* all its probes as it should since it began (ensure_backend).            *)
THEOREM NeverBesideAnAnsweringHolds == Spec => NeverBesideAnAnswering
<1>1. IInv /\ [Next]_vars =>
        [\A p \in Proc : pc[p] = "launch" /\ launched'[p] => ~heard[p]]_vars
  BY DEF IInv, Answered
<1> QED
  BY <1>1, IAlways, PTL DEF Spec, NeverBesideAnAnswering

(* The command that goes on after a launch finds its backend usable, but   *)
(* for a Local API write, unless Zotero changed or fell silent after the   *)
(* wait (wait_until_ready).                                                *)
THEOREM ReadyMeansUsableHolds == Spec => []ReadyMeansUsable
<1>1. IInv => ReadyMeansUsable
  <2> SUFFICES ASSUME IInv, NEW p \in Proc, pc[p] = "run", steady[p], need[p] # "apiwrite"
               PROVE  FoundNeeded(p) \/ (BridgeWillDo(p) /\ owned[p])
    BY DEF ReadyMeansUsable
  <2>1. Waited(p)
    BY DEF IInv
  <2> QED
    BY <2>1 DEF Waited, FoundNeeded, BridgeWillDo
<1> QED
  BY <1>1, IAlways, PTL

-----------------------------------------------------------------------------
(* THE SESSION.                                                            *)

\* p runs alone since it began.
Alone(p) == p \in running \ overlapped

\* Who overlaps nobody is the only one that runs.
Solitary ==
    \A p \in Invocation :
        /\ p \in running <=> stage[p] \notin {"idle", "done"}
        /\ Alone(p) => running = {p}

\* A history that is about to be saved is no longer than the limit.
Bounded ==
    \A p \in Invocation : Len(copy[p].hist) <= Limit

\* What parses is the session; anything else counts as none.
Parsed == file # "text" => text = Default

\* A lone invocation saves what it loaded with its own change in it, to a
\* file that nobody else has written since.
Prepared(p) ==
    Alone(p) =>
        /\ stage[p] = "save" =>
              copy[p] = [Loaded EXCEPT !.sel = Selected(args[p], @)]
        /\ stage[p] = "save2" =>
              copy[p] = [Loaded EXCEPT !.hist = Recent(Append(@, p))]
        /\ stage[p] \in Writing => file = "empty"

SessionInv == SessionTypeOK /\ Solitary /\ Bounded /\ Parsed /\ \A p \in Invocation : Prepared(p)

-----------------------------------------------------------------------------
(* Histories and sessions.                                                 *)

\* A history is cut to the limit, once and for all.
LEMMA RecentFacts ==
    ASSUME NEW h \in Seq(Invocation)
    PROVE  /\ Recent(h) \in Seq(Invocation)
           /\ Len(Recent(h)) <= Limit
           /\ Len(h) <= Limit => Recent(h) = h
<1>1. CASE Len(h) > Limit
  <2>1. Len(h) - Limit + 1 \in 1..Len(h) /\ Len(h) \in 1..Len(h)
    BY <1>1, LimitAssump
  <2>2. SubSeq(h, Len(h) - Limit + 1, Len(h)) \in Seq(Invocation)
    BY <2>1
  <2>3. Len(SubSeq(h, Len(h) - Limit + 1, Len(h))) = Limit
    BY <2>1, LimitAssump
  <2> QED
    BY <1>1, <2>2, <2>3, LimitAssump DEF Recent
<1>2. CASE ~(Len(h) > Limit)
  BY <1>2, LimitAssump DEF Recent
<1> QED
  BY <1>1, <1>2

LEMMA DefaultFacts ==
    Default \in Session /\ Len(Default.hist) = 0
  BY DEF Default, Session, Selection

LEMMA LoadedFacts ==
    ASSUME SessionTypeOK
    PROVE  /\ Loaded \in Session /\ Len(Loaded.hist) <= Limit
           /\ text = Default => Loaded = Default
           /\ Len(text.hist) <= Limit => Loaded = text
<1>1. text \in Session /\ text.hist \in Seq(Invocation)
  BY DEF SessionTypeOK, Session
<1>2. Loaded \in Session /\ Len(Loaded.hist) <= Limit
  BY <1>1, RecentFacts DEF Loaded, Session
<1>3. Len(text.hist) <= Limit => Loaded = text
  BY <1>1, RecentFacts DEF Loaded, Session
<1>4. text = Default => Len(text.hist) <= Limit
  BY DefaultFacts, LimitAssump
<1> QED
  BY <1>2, <1>3, <1>4

LEMMA SelectedType ==
    ASSUME NEW a \in Args, NEW sel \in Selection
    PROVE  Selected(a, sel) \in Selection
<1>1. PICK F \in Uses : a \in [F -> Value \cup {Null}]
  BY DEF Args
<1> QED
  BY <1>1 DEF Selected, Selection

\* The two changes of a command make sessions, with a history in its limit.
LEMMA ChangeFacts ==
    ASSUME SessionTypeOK, NEW p \in Invocation
    PROVE  /\ [Loaded EXCEPT !.sel = Selected(args[p], @)] \in Session
           /\ Len([Loaded EXCEPT !.sel = Selected(args[p], @)].hist) <= Limit
           /\ [Loaded EXCEPT !.hist = Recent(Append(@, p))] \in Session
           /\ Len([Loaded EXCEPT !.hist = Recent(Append(@, p))].hist) <= Limit
<1>1. Loaded \in Session /\ Len(Loaded.hist) <= Limit /\ args[p] \in Args
  BY LoadedFacts DEF SessionTypeOK
<1>2. Selected(args[p], Loaded.sel) \in Selection
  BY <1>1, SelectedType DEF Session
<1>3. Append(Loaded.hist, p) \in Seq(Invocation)
  BY <1>1 DEF Session
<1>4. /\ Recent(Append(Loaded.hist, p)) \in Seq(Invocation)
      /\ Len(Recent(Append(Loaded.hist, p))) <= Limit
  BY <1>3, RecentFacts
<1> QED
  BY <1>1, <1>2, <1>4 DEF Session

-----------------------------------------------------------------------------

LEMMA SessionInvInit == SessionInit => SessionInv
<1> SUFFICES ASSUME SessionInit PROVE SessionInv
  OBVIOUS
<1>1. text \in Session
  <2>1. CASE file = "empty"
    BY <2>1, DefaultFacts DEF SessionInit
  <2>2. CASE file # "empty"
    <3>1. \A n \in 0..Limit : [1..n -> Invocation] \subseteq Seq(Invocation)
      BY LimitAssump
    <3> QED
      BY <2>2, <3>1 DEF SessionInit, Session
  <2> QED
    BY <2>1, <2>2
<1>2. SessionTypeOK
  BY <1>1, DefaultFacts DEF SessionInit, SessionTypeOK, Stage
<1>3. Bounded
  <2>1. \A p \in Invocation : copy[p] = Default
    BY DEF SessionInit
  <2> QED
    <3>1. \A p \in Invocation : Len(copy[p].hist) = 0
      BY <2>1, DefaultFacts, Zenon
    <3>2. 0 <= Limit
      BY LimitAssump
    <3> QED
      BY <3>1, <3>2, Zenon DEF Bounded
<1>4. Solitary /\ \A p \in Invocation : Prepared(p)
  <2>1. running = {} /\ \A p \in Invocation : stage[p] = "idle"
    BY DEF SessionInit
  <2> QED
    BY <2>1 DEF Solitary, Prepared, Alone
<1>5. Parsed
  BY DEF SessionInit, Parsed
<1> QED
  BY <1>2, <1>3, <1>4, <1>5 DEF SessionInv

-----------------------------------------------------------------------------
(* Steps.                                                                  *)

\* A step of one invocation: whom it leaves running, and that it hands over
\* only sessions whose history is in the limit.
LEMMA SessionTypeStep ==
    ASSUME SessionInv, NEW p \in Invocation,
           Begin(p) \/ Record(p) \/ Truncate(p) \/ Write(p) \/ Exit(p)
    PROVE  SessionTypeOK' /\ Bounded' /\ Parsed'
<1>0. /\ SessionTypeOK /\ Bounded /\ Parsed
      /\ stage \in [Invocation -> Stage] /\ copy \in [Invocation -> Session]
      /\ running \subseteq Invocation /\ overlapped \subseteq running
  BY DEF SessionInv, SessionTypeOK
<1> USE DEF Proceed
<1>1. CASE Begin(p)
  <2>1. copy' \in [Invocation -> Session] /\ \A q \in Invocation : Len(copy'[q].hist) <= Limit
    BY <1>0, <1>1, ChangeFacts DEF Begin, Bounded
  <2>2. stage' \in [Invocation -> Stage]
    BY <1>0, <1>1 DEF Begin, Stage
  <2> QED
    BY <1>0, <1>1, <2>1, <2>2 DEF Begin, SessionTypeOK, Bounded, Parsed
<1>2. CASE Record(p)
  <2>1. copy' \in [Invocation -> Session] /\ \A q \in Invocation : Len(copy'[q].hist) <= Limit
    BY <1>0, <1>2, ChangeFacts DEF Record, Bounded
  <2>2. stage' \in [Invocation -> Stage]
    BY <1>0, <1>2 DEF Record, Stage
  <2> QED
    BY <1>0, <1>2, <2>1, <2>2 DEF Record, SessionTypeOK, Bounded, Parsed
<1>3. CASE Truncate(p)
  BY <1>0, <1>3, DefaultFacts DEF Truncate, SessionTypeOK, Bounded, Parsed, Stage
<1>4. CASE Write(p)
  <2>1. copy' \in [Invocation -> Session] /\ \A q \in Invocation : Len(copy'[q].hist) <= Limit
    BY <1>0, <1>4, DefaultFacts, LimitAssump DEF Write, Bounded
  <2>2. stage' \in [Invocation -> Stage] /\ args' = args
    BY <1>0, <1>4 DEF Write, Leave, Stage
  <2>3. text' \in Session /\ file' \in {"text", "torn"} /\ (file' # "text" => text' = Default)
    BY <1>0, <1>4, DefaultFacts DEF Write
  <2>4. running' \subseteq Invocation /\ overlapped' \subseteq running'
    BY <1>0, <1>4 DEF Write, Leave
  <2> QED
    BY <1>0, <2>1, <2>2, <2>3, <2>4 DEF SessionTypeOK, Bounded, Parsed
<1>5. CASE Exit(p)
  <2>1. copy' \in [Invocation -> Session] /\ \A q \in Invocation : Len(copy'[q].hist) <= Limit
    BY <1>0, <1>5, DefaultFacts, LimitAssump DEF Exit, Bounded
  <2>2. stage' \in [Invocation -> Stage]
    BY <1>0, <1>5 DEF Exit, Leave, Stage
  <2> QED
    BY <1>0, <1>5, <2>1, <2>2 DEF Exit, Leave, SessionTypeOK, Bounded, Parsed
<1> QED
  BY <1>1, <1>2, <1>3, <1>4, <1>5

LEMMA SolitaryStep ==
    ASSUME SessionInv, NEW p \in Invocation,
           Begin(p) \/ Record(p) \/ Truncate(p) \/ Write(p) \/ Exit(p)
    PROVE  Solitary' /\ \A q \in Invocation : Prepared(q)'
<1>0. /\ Solitary /\ \A q \in Invocation : Prepared(q)
      /\ stage \in [Invocation -> Stage] /\ copy \in [Invocation -> Session]
      /\ running \subseteq Invocation /\ overlapped \subseteq running
  BY DEF SessionInv, SessionTypeOK
<1>1. \A q \in Invocation :
        q # p => /\ stage'[q] = stage[q]
                 /\ q \in running' <=> q \in running
                 /\ (q \in overlapped => q \in overlapped')
  BY <1>0 DEF Begin, Record, Truncate, Write, Exit, Leave, Proceed
<1>2. /\ p \in running' <=> stage'[p] \notin {"idle", "done"}
      /\ \A q \in Invocation : Alone(q)' => running' = {q}
      /\ args' = args
  <2> USE DEF Proceed, Alone, Solitary
  <2>1. CASE Begin(p)
    BY <1>0, <2>1 DEF Begin
  <2>2. CASE Record(p) \/ Truncate(p)
    BY <1>0, <2>2 DEF Record, Truncate
  <2>3. CASE Leave(p)
    BY <1>0, <2>3 DEF Leave
  <2>4. CASE Write(p)
    BY <1>0, <2>3, <2>4 DEF Write, Writing
  <2>5. CASE Exit(p)
    BY <2>3, <2>5 DEF Exit
  <2> QED
    BY <2>1, <2>2, <2>4, <2>5
<1>3. Solitary'
  BY <1>0, <1>1, <1>2 DEF Solitary
<1>4. ASSUME NEW q \in Invocation, q # p PROVE Prepared(q)'
  <2> SUFFICES ASSUME Alone(q)' PROVE stage'[q] \notin {"save", "save2"} \cup Writing
    BY DEF Prepared
  <2>1. running' = {q} /\ q \in running /\ p \notin running'
    BY <1>1, <1>2, <1>4 DEF Alone
  <2>2. p \in running \/ Begin(p)
    BY <1>0 DEF Record, Truncate, Write, Exit, Writing, Solitary
  <2>3. p \in running
    BY <2>1, <2>2 DEF Begin
  <2>4. q \in overlapped
    BY <1>0, <1>4, <2>1, <2>3 DEF Solitary, Alone
  <2> QED
    BY <1>1, <1>4, <2>4 DEF Alone
<1>5. Prepared(p)'
  <2> USE DEF Proceed, Alone
  <2>1. CASE Begin(p)
    <3>1. stage'[p] = "save" /\ UNCHANGED <<text, args>>
          /\ copy'[p] = [Loaded EXCEPT !.sel = Selected(args[p], @)]
      BY <1>0, <2>1 DEF Begin
    <3>2. Loaded' = Loaded
      BY <3>1 DEF Loaded
    <3> QED
      BY <3>1, <3>2 DEF Prepared, Writing
  <2>2. CASE Record(p)
    <3>1. stage'[p] = "save2" /\ UNCHANGED text
          /\ copy'[p] = [Loaded EXCEPT !.hist = Recent(Append(@, p))]
      BY <1>0, <2>2 DEF Record
    <3>2. Loaded' = Loaded
      BY <3>1 DEF Loaded
    <3> QED
      BY <3>1, <3>2 DEF Prepared, Writing
  <2>3. CASE Truncate(p)
    BY <1>0, <2>3 DEF Truncate, Prepared, Writing
  <2>4. CASE Write(p) \/ Exit(p)
    BY <1>0, <2>4 DEF Write, Exit, Leave, Prepared, Writing
  <2> QED
    BY <2>1, <2>2, <2>3, <2>4
<1> QED
  BY <1>3, <1>4, <1>5

LEMMA SessionInvStep == SessionInv /\ [SessionNext]_sessionVars => SessionInv'
<1> SUFFICES ASSUME SessionInv, [SessionNext]_sessionVars PROVE SessionInv'
  OBVIOUS
<1>1. CASE SessionNext
  BY <1>1, SessionTypeStep, SolitaryStep DEF SessionNext, SessionInv
<1>2. CASE UNCHANGED sessionVars
  <2>1. Loaded' = Loaded
    BY <1>2 DEF Loaded, sessionVars
  <2> QED
    BY <1>2, <2>1
    DEF sessionVars, SessionInv, SessionTypeOK, Solitary, Bounded, Parsed, Prepared, Alone
<1> QED
  BY <1>1, <1>2

LEMMA SessionInvAlways == SessionSpec => []SessionInv
  BY SessionInvInit, SessionInvStep, PTL DEF SessionSpec

(* Every state of the session file and of its users is of its type         *)
(* (session.rs).                                                           *)
THEOREM SessionTypeCorrect == SessionSpec => []SessionTypeOK
<1>1. SessionInv => SessionTypeOK
  BY DEF SessionInv
<1> QED
  BY <1>1, SessionInvAlways, PTL

-----------------------------------------------------------------------------
(* The refinement.                                                         *)

LEMMA SessionNowType ==
    ASSUME SessionTypeOK
    PROVE  SessionNow \in Session
<1>1. Writers # {} => (CHOOSE p \in Writers : TRUE) \in Invocation
  BY DEF Writers
<1> QED
  BY <1>1, LoadedFacts DEF SessionNow, SessionTypeOK

LEMMA SessionNextType == SessionTypeOK' => (SessionNow \in Session)'
<1>1. SessionTypeOK => SessionNow \in Session
  BY SessionNowType
<1> QED
  BY <1>1, PTL

LEMMA InitMaps == SessionInit => Abstract!Init
<1> SUFFICES ASSUME SessionInit PROVE Abstract!Init
  OBVIOUS
<1>1. SessionTypeOK
  BY SessionInvInit DEF SessionInv
<1>2. Place = [p \in Invocation |-> "idle"]
  BY DEF SessionInit, Place, PlaceAt
<1> QED
  BY <1>1, <1>2, SessionNowType
  DEF SessionInit, Abstract!Init, Abstract!Session, SessionTypeOK, Session, Selection, Args

\* The invocations under way are the same on both levels.
LEMMA RunningMaps ==
    ASSUME SessionTypeOK, Solitary
    PROVE  Abstract!Running = running
<1>1. \A l \in Stage : PlaceAt(l) \in {"idle", "done"} <=> l \in {"idle", "done"}
  BY DEF Stage, PlaceAt
<1>2. \A q \in Invocation : stage[q] \in Stage /\ Place[q] = PlaceAt(stage[q])
  BY DEF SessionTypeOK, Place
<1> QED
  BY <1>1, <1>2 DEF Abstract!Running, Solitary, SessionTypeOK

\* An invocation that goes from one stage to the next.
LEMMA PlaceMoves ==
    ASSUME SessionTypeOK, NEW p \in Invocation, NEW l \in Stage, Proceed(p, l)
    PROVE  Abstract!Go(p, PlaceAt(stage[p]), PlaceAt(l))
<1>1. Place' = [q \in Invocation |-> PlaceAt(stage'[q])]
  BY DEF Place
<1>2. /\ stage' = [stage EXCEPT ![p] = l] /\ args' = args
      /\ stage \in [Invocation -> Stage]
  BY DEF Proceed, SessionTypeOK
<1>3. \A q \in Invocation : stage'[q] = IF q = p THEN l ELSE stage[q]
  BY <1>2
<1>4. Place' = [Place EXCEPT ![p] = PlaceAt(l)]
  BY <1>1, <1>3 DEF Place
<1> QED
  BY <1>2, <1>4 DEF Abstract!Go, Place

\* To prepare the entry of the history changes nothing that shows.
LEMMA RecordMaps ==
    ASSUME SessionInv, NEW p \in Invocation, Record(p)
    PROVE  UNCHANGED Abstract!vars
<1>0. SessionTypeOK /\ stage \in [Invocation -> Stage] /\ copy \in [Invocation -> Session]
  BY DEF SessionInv, SessionTypeOK
<1>1. stage[p] = "append" /\ Proceed(p, "save2") /\ UNCHANGED <<file, text, running, overlapped>>
  BY DEF Record
<1>2. Abstract!Go(p, PlaceAt("append"), PlaceAt("save2"))
  BY <1>0, <1>1, PlaceMoves DEF Stage
<1>3. Place' = Place /\ args' = args
  <2>1. PlaceAt("append") = "selected" /\ PlaceAt("save2") = "selected"
    BY DEF PlaceAt
  <2>2. Place[p] = "selected" /\ Place' = [Place EXCEPT ![p] = "selected"] /\ args' = args
    BY <1>2, <2>1 DEF Abstract!Go
  <2> QED
    BY <2>2 DEF Place
<1>4. Writers' = Writers /\ p \notin Writers
  BY <1>0, <1>1 DEF Proceed, Writers, Writing
<1>5. \A q \in Writers : copy'[q] = copy[q]
  BY <1>0, <1>4 DEF Record, Writers
<1>6. Loaded' = Loaded
  BY <1>1 DEF Loaded
<1>7. SessionNow' = SessionNow
  BY <1>4, <1>5, <1>6 DEF SessionNow
<1> QED
  BY <1>1, <1>3, <1>7 DEF Abstract!vars

\* Where the other steps of an invocation take it.
LEMMA StepsMove ==
    ASSUME SessionInv, NEW p \in Invocation
    PROVE  /\ Truncate(p) => /\ overlapped' = overlapped
                            /\ \/ /\ stage[p] = "save"
                                  /\ Abstract!Go(p, "begun", "selecting")
                               \/ /\ stage[p] = "save2"
                                  /\ Abstract!Go(p, "selected", "recording")
           /\ Write(p) => \/ /\ stage[p] = "write" /\ overlapped' = overlapped
                             /\ Abstract!Go(p, "selecting", "selected")
                          \/ /\ stage[p] = "write2" /\ overlapped' = overlapped \ {p}
                             /\ Abstract!Go(p, "recording", "done")
           /\ Exit(p) => /\ overlapped' = overlapped \ {p} /\ p \in running
                        /\ Abstract!Go(p, Place[p], "done")
<1>0. SessionTypeOK /\ Solitary
  BY DEF SessionInv
<1>1. /\ PlaceAt("save") = "begun" /\ PlaceAt("write") = "selecting"
      /\ PlaceAt("append") = "selected" /\ PlaceAt("save2") = "selected"
      /\ PlaceAt("write2") = "recording" /\ PlaceAt("done") = "done"
      /\ Place[p] = PlaceAt(stage[p])
  BY DEF PlaceAt, Place
<1>2. \A l \in Stage : Proceed(p, l) => Abstract!Go(p, PlaceAt(stage[p]), PlaceAt(l))
  BY <1>0, PlaceMoves
<1>3. ASSUME Truncate(p)
      PROVE  /\ overlapped' = overlapped
             /\ \/ stage[p] = "save" /\ Abstract!Go(p, "begun", "selecting")
                \/ stage[p] = "save2" /\ Abstract!Go(p, "selected", "recording")
  <2>1. CASE stage[p] = "save"
    <3>1. Proceed(p, "write") /\ overlapped' = overlapped
      BY <1>3, <2>1 DEF Truncate
    <3> QED
      BY <1>1, <1>2, <2>1, <3>1 DEF Stage
  <2>2. CASE stage[p] = "save2"
    <3>1. Proceed(p, "write2") /\ overlapped' = overlapped
      BY <1>3, <2>2 DEF Truncate
    <3> QED
      BY <1>1, <1>2, <2>2, <3>1 DEF Stage
  <2> QED
    BY <1>3, <2>1, <2>2 DEF Truncate
<1>4. ASSUME Write(p)
      PROVE  \/ /\ stage[p] = "write" /\ overlapped' = overlapped
                /\ Abstract!Go(p, "selecting", "selected")
             \/ /\ stage[p] = "write2" /\ overlapped' = overlapped \ {p}
                /\ Abstract!Go(p, "recording", "done")
  <2>1. CASE stage[p] = "write"
    <3>1. Proceed(p, "append") /\ overlapped' = overlapped
      BY <1>4, <2>1 DEF Write
    <3> QED
      BY <1>1, <1>2, <2>1, <3>1 DEF Stage
  <2>2. CASE stage[p] = "write2"
    <3>1. Proceed(p, "done") /\ overlapped' = overlapped \ {p}
      BY <1>4, <2>2 DEF Write, Leave
    <3> QED
      BY <1>1, <1>2, <2>2, <3>1 DEF Stage
  <2> QED
    BY <1>4, <2>1, <2>2 DEF Write, Writing
<1>5. ASSUME Exit(p)
      PROVE  /\ overlapped' = overlapped \ {p} /\ p \in running
             /\ Abstract!Go(p, Place[p], "done")
  <2>1. Proceed(p, "done") /\ overlapped' = overlapped \ {p} /\ stage[p] \notin {"idle", "done"}
    BY <1>5 DEF Exit, Leave
  <2> QED
    BY <1>0, <1>1, <1>2, <2>1 DEF Stage, Solitary
<1> QED
  BY <1>3, <1>4, <1>5

\* Whatever an invocation that overlaps another saves, it may.
LEMMA OverlappedMaps ==
    ASSUME SessionInv, SessionInv', NEW p \in overlapped,
           Truncate(p) \/ Write(p) \/ Exit(p)
    PROVE  Abstract!Next
<1>1. /\ p \in Invocation /\ p \in Abstract!Running
      /\ SessionNow' \in Abstract!Session
  BY SessionNextType, RunningMaps
  DEF SessionInv, SessionTypeOK, Session, Selection, Abstract!Session
<1>2. \A s : Abstract!Becomes(p, s)
  BY <1>1 DEF Abstract!Becomes
<1>3. CASE Truncate(p)
  BY <1>1, <1>2, <1>3, StepsMove DEF Abstract!Next, Abstract!Select, Abstract!Record
<1>4. CASE Write(p)
  BY <1>1, <1>2, <1>4, StepsMove DEF Abstract!Next, Abstract!Saved, Abstract!End
<1>5. CASE Exit(p)
  BY <1>1, <1>2, <1>5, StepsMove DEF Abstract!Next, Abstract!Kill
<1> QED
  BY <1>3, <1>4, <1>5

LEMMA BeginMaps ==
    ASSUME SessionInv, NEW p \in Invocation,
           Begin(p)
    PROVE  Abstract!Begin(p)
<1>0. /\ SessionTypeOK /\ Solitary
      /\ stage \in [Invocation -> Stage] /\ copy \in [Invocation -> Session]
  BY DEF SessionInv, SessionTypeOK
<1>1. Writers' = Writers /\ p \notin Writers
  BY <1>0 DEF Begin, Proceed, Writers, Writing
<1>2. \A q \in Writers : copy'[q] = copy[q]
  BY <1>0, <1>1 DEF Begin, Writers
<1>3. Loaded' = Loaded
  BY DEF Begin, Loaded
<1>4. SessionNow' = SessionNow
  BY <1>1, <1>2, <1>3 DEF SessionNow
<1>5. Abstract!Running = running
  BY <1>0, RunningMaps
<1>6. /\ stage[p] = "idle" /\ Proceed(p, "save")
      /\ overlapped' = IF running = {} THEN {} ELSE running \cup {p}
  BY DEF Begin
<1>7. PlaceAt("idle") = "idle" /\ PlaceAt("save") = "begun"
  BY DEF PlaceAt
<1>8. Abstract!Go(p, "idle", "begun")
  BY <1>0, <1>6, <1>7, PlaceMoves DEF Stage
<1> QED
  BY <1>4, <1>5, <1>6, <1>8 DEF Abstract!Begin

\* A lone invocation: what it has prepared takes effect as it truncates the
\* file, and stays through the write.
LEMMA AloneMaps ==
    ASSUME SessionInv, SessionInv', NEW p \in Invocation, Alone(p),
           Truncate(p) \/ Write(p) \/ Exit(p)
    PROVE  Abstract!Next
<1>0. /\ SessionTypeOK /\ Solitary
      /\ stage \in [Invocation -> Stage] /\ copy \in [Invocation -> Session]
      /\ Prepared(p) /\ running = {p} /\ p \notin overlapped /\ p \in running
      /\ Parsed /\ Bounded
  BY DEF SessionInv, SessionTypeOK, Solitary, Alone
<1>1. \A q \in Invocation : stage[q] \in Writing => q = p
  BY <1>0 DEF Solitary, Writing
<1>2. Writers = IF stage[p] \in Writing THEN {p} ELSE {}
  BY <1>1 DEF Writers
<1>3. \A q \in Invocation \ {p} : stage'[q] = stage[q]
  BY <1>0 DEF Truncate, Write, Exit, Leave, Proceed
<1>4. Writers' = IF stage'[p] \in Writing THEN {p} ELSE {}
  BY <1>1, <1>3 DEF Writers
<1>6. CASE Truncate(p)
  <2>1. stage[p] \notin Writing /\ stage'[p] \in Writing /\ copy' = copy
    BY <1>0, <1>6 DEF Truncate, Proceed, Writing
  <2>2. SessionNow = Loaded
    BY <1>2, <2>1 DEF SessionNow
  <2>3. SessionNow' = copy[p]
    <3>1. (CHOOSE q \in {p} : TRUE) = p
      OBVIOUS
    <3> QED
      BY <1>4, <2>1, <3>1 DEF SessionNow
  <2>5. CASE stage[p] = "save"
    <3>1. copy[p] = [Loaded EXCEPT !.sel = Selected(args[p], @)]
      BY <1>0, <2>5 DEF Prepared, Alone
    <3>2. Abstract!Go(p, "begun", "selecting") /\ overlapped' = overlapped
      BY <1>6, <2>5, StepsMove
    <3> QED
      BY <2>2, <2>3, <3>1, <3>2 DEF Abstract!Next, Abstract!Select, Abstract!Becomes, Selected
  <2>6. CASE stage[p] = "save2"
    <3>1. copy[p] = [Loaded EXCEPT !.hist = Recent(Append(@, p))]
      BY <1>0, <2>6 DEF Prepared, Alone
    <3>2. Abstract!Go(p, "selected", "recording") /\ overlapped' = overlapped
      BY <1>6, <2>6, StepsMove
    <3> QED
      BY <2>2, <2>3, <3>1, <3>2
      DEF Abstract!Next, Abstract!Record, Abstract!Becomes, Abstract!Recent, Recent
  <2> QED
    BY <1>6, <2>5, <2>6 DEF Truncate
<1>7. CASE Write(p)
  <2>1. stage[p] \in Writing /\ stage'[p] \notin Writing /\ file = "empty"
    BY <1>0, <1>7 DEF Write, Leave, Proceed, Writing, Prepared
  <2>2. SessionNow = copy[p]
    <3>1. (CHOOSE q \in {p} : TRUE) = p
      OBVIOUS
    <3> QED
      BY <1>2, <2>1, <3>1 DEF SessionNow
  <2>3. text' = copy[p] /\ SessionTypeOK'
    BY <1>7, <2>1 DEF Write, SessionInv
  <2>4. SessionNow' = Loaded'
    BY <1>4, <2>1 DEF SessionNow
  <2>5. Len(text'.hist) <= Limit => Loaded' = text'
    <3>1. text' \in Session /\ text'.hist \in Seq(Invocation)
      BY <2>3 DEF SessionTypeOK, Session
    <3> QED
      BY <3>1, RecentFacts DEF Loaded, Session
  <2>6. SessionNow' = SessionNow
    BY <1>0, <2>2, <2>3, <2>4, <2>5 DEF Bounded
  <2> QED
    BY <1>7, <2>6, StepsMove DEF Abstract!Next, Abstract!Saved, Abstract!End, Abstract!Becomes
<1>8. CASE Exit(p)
  <2>1. stage'[p] \notin Writing /\ Loaded' = Loaded
    BY <1>0, <1>8 DEF Exit, Leave, Proceed, Writing, Loaded
  <2>2. SessionNow' = Loaded
    BY <1>4, <2>1 DEF SessionNow
  <2>3. \/ SessionNow' = SessionNow
        \/ stage[p] \in Writing /\ SessionNow' = Default
    <3>1. CASE stage[p] \in Writing
      BY <1>0, <2>2, <3>1, LoadedFacts DEF Prepared, Parsed
    <3>2. CASE stage[p] \notin Writing
      BY <1>2, <2>2, <3>2 DEF SessionNow
    <3> QED
      BY <3>1, <3>2
  <2>4. stage[p] \in Writing => Place[p] \in {"selecting", "recording"}
    BY DEF Writing, Place, PlaceAt
  <2>5. p \in Abstract!Running
    BY <1>0, RunningMaps
  <2> QED
    BY <1>8, <2>3, <2>4, <2>5, StepsMove
    DEF Default, Abstract!Next, Abstract!Kill, Abstract!Becomes, Abstract!Forgotten
<1> QED
  BY <1>6, <1>7, <1>8

LEMMA StepMaps ==
    SessionInv /\ SessionInv' /\ [SessionNext]_sessionVars => [Abstract!Next]_(Abstract!vars)
<1> SUFFICES ASSUME SessionInv, SessionInv', [SessionNext]_sessionVars
             PROVE  Abstract!Next \/ UNCHANGED Abstract!vars
  OBVIOUS
<1>1. ASSUME NEW p \in Invocation, Begin(p) PROVE Abstract!Next
  BY <1>1, BeginMaps DEF Abstract!Next
<1>2. ASSUME NEW p \in Invocation, Truncate(p) \/ Write(p) \/ Exit(p)
      PROVE  Abstract!Next
  <2>1. p \in running
    BY <1>2 DEF SessionInv, Solitary, Truncate, Write, Exit, Writing
  <2> QED
    BY <1>2, <2>1, OverlappedMaps, AloneMaps DEF Alone
<1>3. ASSUME NEW p \in Invocation, Record(p) PROVE UNCHANGED Abstract!vars
  BY <1>3, RecordMaps
<1>4. CASE UNCHANGED sessionVars
  <2>1. Writers' = Writers /\ Loaded' = Loaded /\ Place' = Place
    BY <1>4 DEF Writers, Loaded, Place, sessionVars
  <2> QED
    BY <1>4, <2>1 DEF SessionNow, sessionVars, Abstract!vars
<1> QED
  BY <1>1, <1>2, <1>3, <1>4 DEF SessionNext

(* An invocation that overlaps no other sets the fields it names and then  *)
(* enters itself in the history, each exactly once and each in one step    *)
(* that changes nothing else; only a kill during one of its two saves      *)
(* loses the session (session.rs).                                         *)
THEOREM SessionRefinement == SessionSpec => ImplementsAtomicSession
  BY InitMaps, StepMaps, SessionInvAlways, PTL
  DEF SessionSpec, ImplementsAtomicSession, Abstract!Spec
=============================================================================
