-------------------------- MODULE WritePathProofs --------------------------
(***************************************************************************)
(* The write commands take effect atomically and report truthfully, for    *)
(* any number of invocations, commands, collections, tags and edits; and   *)
(* WritePath implements AtomicWrites.                                      *)
(*                                                                         *)
(* The argument.  A request to the Local API carries arrays computed from  *)
(* an old read.  As every change of the item moves its version, the        *)
(* version a request carries is the current one only while what it was     *)
(* computed from is the current item; a script needs no such care, as it   *)
(* computes from the item it meets.                                        *)
(***************************************************************************)
EXTENDS WritePath, TLAPS

\* Up to its request an invocation has neither sent nor reported anything;
\* it goes on to the read-back only after a success status.  Only an update
\* is carried out in part.
Progress(p) ==
    /\ pc[p] \in {"idle", "resolve", "read", "send"} => req[p] = "none"
    /\ pc[p] \in {"wait", "check"} => req[p] # "none"
    /\ pc[p] = "check" => req[p] \in {"ok", "partly", "ignored"}
    /\ pc[p] # "done" => outcome[p] = "none"
    /\ backend[p] = "bridge" => req[p] # "ignored"
    /\ req[p] = "partly" => cmd[p].op = "update"

\* The version a request is built on stands for what it is built on.
BaseIsRead(p) ==
    /\ base[p] <= version
    /\ /\ backend[p] = "api" /\ base[p] = version
       /\ pc[p] = "send" \/ req[p] = "sent"
       => read[p] = item

\* What has been reported stays true.
ReportHolds(p) ==
    /\ outcome[p] = "refused" => req[p] \notin {"sent", "ok", "partly"}
    /\ cmd[p].op = "erase" /\ outcome[p] = "applied" => ~item.there

ProcInv(p) == Progress(p) /\ BaseIsRead(p) /\ ReportHolds(p)

IInv == TypeOK /\ \A p \in Proc : ProcInv(p)

-----------------------------------------------------------------------------
(* What the commands make of an item.                                      *)

LEMMA OverwrittenType ==
    ASSUME NEW old \in [Field -> Value], NEW F \in SUBSET Field, NEW new \in [F -> Value]
    PROVE  Overwritten(old, new) \in [Field -> Value]
BY DEF Overwritten

\* What a command that updates fields names.
LEMMA FieldsType ==
    ASSUME NEW c \in Command, c.op = "update"
    PROVE  \E F \in SUBSET Field : F # {} /\ c.fields \in [F -> Value]
BY DEF Command

\* A part of an update is an update.
LEMMA PartsType ==
    ASSUME NEW c \in Command, NEW part \in Parts(c)
    PROVE  part \in Command /\ part.op = "update" /\ c.op = "update"
<1>1. c.op = "update"
  BY DEF Parts
<1>2. PICK F \in (SUBSET DOMAIN c.fields) \ {{}, DOMAIN c.fields} :
        part = [c EXCEPT !.fields = [f \in F |-> c.fields[f]]]
  BY <1>1 DEF Parts
<1>3. PICK D \in SUBSET Field : c.fields \in [D -> Value]
  BY <1>1, FieldsType
<1>4. c = [op |-> "update", fields |-> c.fields]
  BY <1>1 DEF Command
<1>5. part = [op |-> "update", fields |-> [f \in F |-> c.fields[f]]]
  BY <1>2, <1>4
<1>6. F \in (SUBSET Field) \ {{}} /\ [f \in F |-> c.fields[f]] \in [F -> Value]
  BY <1>2, <1>3
<1> QED
  BY <1>1, <1>5, <1>6 DEF Command

\* Whatever a PATCH was computed from, an item stays an item.
LEMMA PatchedType ==
    ASSUME NEW c \in Command, NEW r \in Content, NEW i \in Content
    PROVE  Patched(c, r, i) \in Content
<1>1. CASE c.op = "update"
  <2>1. PICK F \in SUBSET Field : c.fields \in [F -> Value]
    BY <1>1, FieldsType
  <2>2. Overwritten(i.fields, c.fields) \in [Field -> Value]
    BY <2>1, OverwrittenType DEF Content
  <2> QED
    BY <1>1, <2>2 DEF Patched, Content
<1>2. CASE c.op = "tag"
  BY <1>2 DEF Patched, Command, Content, NewTags
<1>3. CASE c.op \in {"trash", "restore", "erase"}
  BY <1>3 DEF Patched, Content
<1>4. CASE c.op \in {"add", "remove"}
  BY <1>4 DEF Patched, Command, Content
<1>5. CASE c.op = "move"
  BY <1>5 DEF Patched, Command, Content, MoveSet
<1> QED
  BY <1>1, <1>2, <1>3, <1>4, <1>5 DEF Command

LEMMA ScriptedType ==
    ASSUME NEW c \in Command, NEW i \in Content
    PROVE  Scripted(c, i) \in Content
<1>1. CASE c.op = "tag"
  BY <1>1 DEF Scripted, Command, Content
<1>2. CASE c.op = "move"
  BY <1>2 DEF Scripted, Command, Content
<1>3. CASE c.op \notin {"tag", "move"}
  BY <1>3, PatchedType DEF Scripted
<1> QED
  BY <1>1, <1>2, <1>3

LEMMA EditedType == ASSUME item \in Content, NEW i \in Edited PROVE i \in Content
<1>1. CASE i \in {[item EXCEPT !.trashed = ~@], [item EXCEPT !.there = FALSE]}
  BY <1>1 DEF Content
<1>2. CASE \E f \in Field, v \in Value : i = [item EXCEPT !.fields[f] = v]
  BY <1>2 DEF Content
<1>3. CASE \E c \in Collection : i \in {[item EXCEPT !.cols = @ \cup {c}],
                                      [item EXCEPT !.cols = @ \ {c}]}
  BY <1>3 DEF Content
<1>4. CASE \E t \in Tag : i \in {[item EXCEPT !.tags = @ \cup {t}],
                               [item EXCEPT !.tags = @ \ {t}]}
  BY <1>4 DEF Content
<1>5. item.cols \subseteq Collection /\ item.tags \subseteq Tag
  BY DEF Content
<1> QED
  BY <1>1, <1>2, <1>3, <1>4, <1>5 DEF Edited

\* An item that shows the requested fields is as the command asks for: asked
\* for again, it would not change.
LEMMA MatchesIdempotent ==
    ASSUME NEW c \in Command, NEW r \in Content, NEW i \in Content,
           c.op \notin {"erase", "trash", "restore"}, Matches(c, r, i)
    PROVE  Patched(c, i, i) = i
<1>1. CASE c.op = "update"
  BY <1>1 DEF Matches, Patched
<1>2. CASE c.op = "tag"
  <2>1. i.tags = NewTags(c, r.tags)
    BY <1>2 DEF Matches, Patched, Content
  <2>2. NewTags(c, i.tags) = i.tags
    BY <2>1 DEF NewTags
  <2> QED
    BY <1>2, <2>2 DEF Patched, Content
<1>3. CASE c.op = "add"
  <2>1. i.cols = r.cols \cup {c.col}
    BY <1>3 DEF Matches, Patched, Content
  <2> QED
    BY <1>3, <2>1 DEF Patched, Content
<1>4. CASE c.op = "remove"
  <2>1. i.cols = r.cols \ {c.col}
    BY <1>4 DEF Matches, Patched, Content
  <2> QED
    BY <1>4, <2>1 DEF Patched, Content
<1>5. CASE c.op = "move"
  <2>1. i.cols = MoveSet(c, r.cols)
    BY <1>5 DEF Matches, Patched, Content
  <2>2. MoveSet(c, i.cols) = i.cols
    BY <2>1 DEF MoveSet
  <2> QED
    BY <1>5, <2>2 DEF Patched, Content
<1> QED
  BY <1>1, <1>2, <1>3, <1>4, <1>5 DEF Command

-----------------------------------------------------------------------------
(* Types.                                                                  *)

LEMMA TypeInit == Init => TypeOK
  BY ItemsAssump DEF Init, TypeOK, PC, Replies, Outcome

LEMMA CmdType == ASSUME TypeOK, NEW p \in Proc PROVE cmd[p] \in Command
  BY CommandsAssump DEF TypeOK

LEMMA TypeStep == TypeOK /\ [Next]_vars => TypeOK'
<1> SUFFICES ASSUME TypeOK, [Next]_vars PROVE TypeOK'
  OBVIOUS
<1>1. CASE UserEdits
  BY <1>1, EditedType DEF UserEdits, TypeOK
<1>2. ASSUME NEW p \in Proc, Zotero(p) PROVE TypeOK'
  <2>1. CASE ServeRequest(p)
    <3>1. item' \in Content
      BY <2>1, CmdType, PatchedType DEF ServeRequest, TypeOK
    <3> QED
      BY <2>1, <3>1 DEF ServeRequest, TypeOK, Replies
  <2>4. CASE ServePartly(p)
    <3>1. item' \in Content
      BY <2>4, CmdType, PartsType, PatchedType DEF ServePartly, TypeOK
    <3>2. read' \in [Proc -> Content] /\ base' \in [Proc -> Nat]
      BY <2>4 DEF ServePartly, TypeOK
    <3>3. version' \in Nat /\ req' \in [Proc -> {"none", "sent"} \cup Replies]
      BY <2>4 DEF ServePartly, TypeOK, Replies
    <3> QED
      BY <2>4, <3>1, <3>2, <3>3 DEF ServePartly, TypeOK
  <2>2. CASE IgnoreRequest(p) \/ RejectStale(p) \/ RejectUnauthorized(p) \/ RejectOther(p)
    BY <2>2 DEF IgnoreRequest, RejectStale, RejectUnauthorized, RejectOther, Reply,
       TypeOK, Replies
  <2>3. CASE ServeScript(p)
    <3>1. item' \in Content
      BY <2>3, CmdType, ScriptedType DEF ServeScript, TypeOK
    <3>2. read' \in [Proc -> Content] /\ base' \in [Proc -> Nat]
      BY <2>3 DEF ServeScript, TypeOK
    <3>3. version' \in Nat /\ req' \in [Proc -> {"none", "sent"} \cup Replies]
      BY <2>3 DEF ServeScript, TypeOK, Replies
    <3> QED
      BY <2>3, <3>1, <3>2, <3>3 DEF ServeScript, TypeOK
  <2> QED
    BY <1>2, <2>1, <2>2, <2>3, <2>4 DEF Zotero
<1>3. ASSUME NEW p \in Proc, Cli(p) PROVE TypeOK'
  <2>1. CASE Start(p) \/ Resolve(p) \/ Read(p) \/ Send(p) \/ ReceiveOk(p)
    BY <2>1 DEF Start, Resolve, Read, Send, ReceiveOk, Goto, TypeOK, PC
  <2>2. ASSUME NEW o \in Outcome, Report(p, o) PROVE TypeOK'
    BY <2>2 DEF Report, Goto, TypeOK, PC
  <2>3. CASE ~(Start(p) \/ Resolve(p) \/ Read(p) \/ Send(p) \/ ReceiveOk(p))
    <3>1. \E o \in Outcome : Report(p, o)
      BY <1>3, <2>3 DEF Cli, ResolveUnsupported, ReadFails, Preflight, ReceiveRefusal,
         ReceiveFailure, TimeOut, CheckErased, CheckTrash, CheckFields, CheckFails, Outcome
    <3> QED
      BY <2>2, <3>1
  <2> QED
    BY <2>1, <2>3
<1>4. ASSUME NEW p \in Proc, Exit(p) PROVE TypeOK'
  BY <1>4 DEF Exit, Report, Goto, TypeOK, PC, Outcome
<1>5. CASE UNCHANGED vars
  BY <1>5 DEF vars, TypeOK
<1> QED
  BY <1>1, <1>2, <1>3, <1>4, <1>5 DEF Next

\* Every variable of the write path keeps its type.
THEOREM TypeCorrect == Spec => []TypeOK
  BY TypeInit, TypeStep, PTL DEF Spec

-----------------------------------------------------------------------------
(* The invariant.                                                          *)

LEMMA InvInit == Init => IInv
<1> SUFFICES ASSUME Init PROVE IInv
  OBVIOUS
<1>1. TypeOK
  BY TypeInit
<1>2. ASSUME NEW p \in Proc PROVE ProcInv(p)
  BY <1>2 DEF Init, ProcInv, Progress, BaseIsRead, ReportHolds
<1> QED
  BY <1>1, <1>2 DEF IInv

\* A change of the item moves its version past every request, and finds no
\* erasure reported.
LEMMA ZoteroKeepsInv ==
    ASSUME IInv, TypeOK', UserEdits \/ \E p \in Proc : Zotero(p), NEW q \in Proc
    PROVE  ProcInv(q)'
<1>0. TypeOK /\ ProcInv(q)
  BY DEF IInv
<1>1. CASE UserEdits
  BY <1>0, <1>1 DEF UserEdits, ProcInv, Progress, BaseIsRead, ReportHolds, TypeOK
<1>2. ASSUME NEW p \in Proc, ServeRequest(p) PROVE ProcInv(q)'
  <2>1. /\ version' = version + 1 /\ item.there
        /\ req' = [req EXCEPT ![p] = "ok"] /\ req[p] = "sent" /\ backend[p] = "api"
        /\ UNCHANGED <<cmd, backend, pc, base, outcome>>
    BY <1>2 DEF ServeRequest
  <2>2. Progress(q)'
    BY <1>0, <2>1 DEF ProcInv, Progress, TypeOK
  <2>3. BaseIsRead(q)'
    BY <1>0, <2>1 DEF ProcInv, BaseIsRead, TypeOK
  <2>4. ReportHolds(q)'
    BY <1>0, <2>1 DEF ProcInv, ReportHolds, TypeOK
  <2> QED
    BY <2>2, <2>3, <2>4 DEF ProcInv
<1>3. ASSUME NEW p \in Proc, NEW r \in {"ignored", "conflict", "auth", "other"},
             Reply(p, r), r = "ignored" => backend[p] = "api"
      PROVE  ProcInv(q)'
  BY <1>0, <1>3 DEF Reply, ProcInv, Progress, BaseIsRead, ReportHolds, TypeOK
<1>4. ASSUME NEW p \in Proc, ServeScript(p) \/ ServePartly(p) PROVE ProcInv(q)'
  <2>1. /\ version' = version + 1 /\ item.there
        /\ req[p] = "sent"
        /\ req' = [req EXCEPT ![p] = "ok"] \/ req' = [req EXCEPT ![p] = "partly"]
        /\ UNCHANGED <<cmd, backend, pc, outcome>>
    BY <1>4 DEF ServeScript, ServePartly
  <2>6. req'[p] = "partly" => cmd[p].op = "update"
    BY <1>0, <1>4, CmdType, PartsType DEF ServeScript, ServePartly, TypeOK
  <2>2. Progress(q)'
    BY <1>0, <2>1, <2>6 DEF ProcInv, Progress, TypeOK
  <2>3. base'[q] \in {base[q], version}
    BY <1>0, <1>4 DEF ServeScript, ServePartly, TypeOK
  <2>4. BaseIsRead(q)'
    BY <1>0, <2>1, <2>3 DEF ProcInv, BaseIsRead, TypeOK
  <2>5. ReportHolds(q)'
    BY <1>0, <2>1 DEF ProcInv, ReportHolds, TypeOK
  <2> QED
    BY <2>2, <2>4, <2>5 DEF ProcInv
<1> QED
  BY <1>1, <1>2, <1>3, <1>4 DEF Zotero, IgnoreRequest, RejectStale, RejectUnauthorized,
     RejectOther

\* What may be reported, and when.
Reportable(p, o) ==
    /\ o = "refused" => req[p] \notin {"sent", "ok", "partly"}
    /\ cmd[p].op = "erase" /\ o = "applied" => ~item.there

LEMMA ReportKeepsInv ==
    ASSUME IInv, NEW p \in Proc, NEW o \in Outcome, Report(p, o), Reportable(p, o),
           NEW q \in Proc
    PROVE  ProcInv(q)'
<1>0. TypeOK /\ ProcInv(q)
  BY DEF IInv
<1> QED
  BY <1>0 DEF Report, Goto, Reportable, ProcInv, Progress, BaseIsRead, ReportHolds, TypeOK

LEMMA CliReports ==
    ASSUME IInv, NEW p \in Proc, Cli(p) \/ Exit(p),
           ~(Start(p) \/ Resolve(p) \/ Read(p) \/ Send(p) \/ ReceiveOk(p))
    PROVE  \E o \in Outcome : Report(p, o) /\ Reportable(p, o)
<1>0. TypeOK /\ ProcInv(p)
  BY DEF IInv
<1>1. CASE ResolveUnsupported(p) \/ ReadFails(p) \/ ReceiveFailure(p) \/ TimeOut(p)
           \/ CheckFails(p) \/ Exit(p)
  BY <1>1 DEF ResolveUnsupported, ReadFails, ReceiveFailure, TimeOut, CheckFails, Exit,
     Outcome, Reportable
<1>2. CASE Preflight(p) \/ ReceiveRefusal(p)
  BY <1>0, <1>2 DEF Preflight, ReceiveRefusal, Outcome, Reportable, ProcInv, Progress
<1>3. CASE CheckErased(p) \/ CheckTrash(p) \/ CheckFields(p)
  BY <1>3 DEF CheckErased, CheckTrash, CheckFields, Outcome, Reportable
<1> QED
  BY <1>1, <1>2, <1>3 DEF Cli

LEMMA CliKeepsInv ==
    ASSUME IInv, TypeOK', NEW p \in Proc, Cli(p) \/ Exit(p), NEW q \in Proc
    PROVE  ProcInv(q)'
<1>0. TypeOK /\ ProcInv(q)
  BY DEF IInv
<1>1. CASE Start(p) \/ Resolve(p)
  BY <1>0, <1>1 DEF Start, Resolve, ReadsFirst, Goto, ProcInv, Progress, BaseIsRead, ReportHolds, TypeOK
<1>2. CASE Read(p)
  BY <1>0, <1>2 DEF Read, Goto, ProcInv, Progress, BaseIsRead, ReportHolds, TypeOK
<1>3. CASE Send(p)
  BY <1>0, <1>3 DEF Send, Goto, ProcInv, Progress, BaseIsRead, ReportHolds, TypeOK
<1>4. CASE ReceiveOk(p)
  BY <1>0, <1>4 DEF ReceiveOk, Goto, ProcInv, Progress, BaseIsRead, ReportHolds, TypeOK
<1>5. CASE ~(Start(p) \/ Resolve(p) \/ Read(p) \/ Send(p) \/ ReceiveOk(p))
  BY <1>5, CliReports, ReportKeepsInv
<1> QED
  BY <1>1, <1>2, <1>3, <1>4, <1>5

LEMMA Invariance == Spec => []IInv
<1>1. ASSUME IInv, [Next]_vars PROVE IInv'
  <2>1. TypeOK'
    BY <1>1, TypeStep DEF IInv
  <2>2. ASSUME NEW q \in Proc PROVE ProcInv(q)'
    <3>1. CASE UserEdits \/ \E p \in Proc : Zotero(p)
      BY <1>1, <2>1, <3>1, ZoteroKeepsInv
    <3>2. CASE \E p \in Proc : Cli(p) \/ Exit(p)
      BY <1>1, <2>1, <3>2, CliKeepsInv
    <3>3. CASE UNCHANGED vars
      BY <1>1, <3>3 DEF IInv, vars, ProcInv, Progress, BaseIsRead, ReportHolds
    <3> QED
      BY <1>1, <3>1, <3>2, <3>3 DEF Next
  <2> QED
    BY <2>1, <2>2 DEF IInv
<1> QED
  BY <1>1, InvInit, PTL DEF Spec

\* Although a request may be answered long after its process stopped waiting,
\* nothing of a command reported as refused is or will be carried out.  The
\* refinement below says so of AtomicWrites, too.
RefusedNeverLands ==
    \A p \in Proc : outcome[p] = "refused" => req[p] \notin {"sent", "ok", "partly"}

\* A refusal is final (lib.rs:1415-1462).
THEOREM RefusedNeverLandsHolds == Spec => []RefusedNeverLands
<1>1. IInv => RefusedNeverLands
  BY DEF IInv, ProcInv, ReportHolds, RefusedNeverLands
<1> QED
  BY <1>1, Invariance, PTL

\* An erasure reported as applied is final.
THEOREM ErasedMeansGoneHolds == Spec => []ErasedMeansGone
<1>1. IInv => ErasedMeansGone
  BY DEF IInv, ProcInv, ReportHolds, ErasedMeansGone
<1> QED
  BY <1>1, Invariance, PTL

-----------------------------------------------------------------------------
(* What lands.                                                             *)

\* A request lands by being served, on the item it was computed from or by a
\* script that computes from the item it meets.
LEMMA Landing ==
    ASSUME IInv, [Next]_vars, NEW p \in Proc, Lands(p)
    PROVE  /\ ServeRequest(p) \/ ServeScript(p)
           /\ item' = Effect(backend[p], cmd[p], item)
<1>0. TypeOK /\ ProcInv(p)
  BY DEF IInv
<1>1. ServeRequest(p) \/ ServeScript(p)
  <2>1. ~UserEdits /\ ~UNCHANGED vars
    BY DEF Lands, UserEdits, vars
  <2>2. ASSUME NEW q \in Proc, Cli(q) \/ Exit(q) PROVE FALSE
    <3>1. UNCHANGED req \/ Send(q)
      BY <2>2 DEF Cli, Exit, Start, Resolve, ResolveUnsupported, Read, ReadFails, Preflight,
         ReceiveOk, ReceiveRefusal, ReceiveFailure, TimeOut, CheckErased, CheckTrash,
         CheckFields, CheckFails, Report
    <3> QED
      BY <1>0, <3>1 DEF Send, Lands, TypeOK
  <2>3. ASSUME NEW q \in Proc, Zotero(q) PROVE ServeRequest(p) \/ ServeScript(p)
    <3>1. ASSUME NEW r \in {"ignored", "conflict", "auth", "other"}, Reply(q, r) PROVE FALSE
      BY <1>0, <3>1 DEF Reply, Lands, TypeOK
    <3>4. ~ServePartly(q)
      BY <1>0 DEF ServePartly, Lands, TypeOK
    <3>2. ServeRequest(q) \/ ServeScript(q)
      BY <2>3, <3>1, <3>4
      DEF Zotero, IgnoreRequest, RejectStale, RejectUnauthorized, RejectOther
    <3>3. q = p
      BY <1>0, <3>2 DEF ServeRequest, ServeScript, Lands, TypeOK
    <3> QED
      BY <3>2, <3>3
  <2> QED
    BY <2>1, <2>2, <2>3 DEF Next
<1>2. CASE ServeRequest(p)
  <2>1. read[p] = item
    BY <1>0, <1>2 DEF ServeRequest, ProcInv, BaseIsRead
  <2> QED
    BY <1>2, <2>1 DEF ServeRequest, Effect
<1>3. CASE ServeScript(p)
  BY <1>3 DEF ServeScript, Effect
<1> QED
  BY <1>1, <1>2, <1>3

\* A command that means the same on both backends makes an item leave only
\* the collections it names.
LEMMA EffectLeavesNamed ==
    ASSUME NEW c \in Command, NEW i \in Content, NEW b \in {"api", "bridge"},
           ~(b = "bridge" /\ BackendsDiffer(c))
    PROVE  i.cols \ Effect(b, c, i).cols \subseteq Named(c)
<1>1. CASE c.op \in {"update", "trash", "restore", "erase"}
  BY <1>1 DEF Effect, Patched, Scripted, Content
<1>2. CASE c.op = "tag"
  BY <1>2 DEF Effect, Patched, Scripted, Content
<1>3. CASE c.op \in {"add", "remove"}
  BY <1>3 DEF Effect, Patched, Scripted, Content, Named
<1>4. CASE c.op = "move"
  <2>1. i.cols \subseteq Collection
    BY DEF Content
  <2>2. Effect(b, c, i).cols \in {MoveSet(c, i.cols), {c.col}, (i.cols \ c.from) \cup {c.col}}
    BY <1>4 DEF Effect, Patched, Scripted, Content
  <2>3. CASE c.all
    BY <1>4, <2>1, <2>3 DEF Named
  <2>4. CASE ~c.all
    <3>1. Effect(b, c, i).cols = (i.cols \ c.from) \cup {c.col}
      BY <1>4, <2>4 DEF Effect, Patched, Scripted, MoveSet, BackendsDiffer, Content
    <3> QED
      BY <1>4, <2>4, <3>1 DEF Named
  <2> QED
    BY <2>3, <2>4
<1> QED
  BY <1>1, <1>2, <1>3, <1>4 DEF Command

\* No write loses a membership that its command does not name, although the
\* whole array is replaced from an earlier read.
THEOREM OnlyNamedHolds == Spec => OnlyNamedCollectionsAreLeft
<1>1. ASSUME IInv, [Next]_vars, NEW p \in Proc, Lands(p),
             ~(backend[p] = "bridge" /\ BackendsDiffer(cmd[p]))
      PROVE  item.cols \ item'.cols \subseteq Named(cmd[p])
  <2>1. item \in Content /\ cmd[p] \in Command /\ backend[p] \in {"api", "bridge"}
    BY <1>1, CmdType DEF IInv, TypeOK
  <2>2. item' = Effect(backend[p], cmd[p], item)
    BY <1>1, Landing
  <2> QED
    BY <1>1, <2>1, <2>2, EffectLeavesNamed
<1>2. IInv /\ [Next]_vars =>
        (\A p \in Proc :
          Lands(p) /\ ~(backend[p] = "bridge" /\ BackendsDiffer(cmd[p]))
            => item.cols \ item'.cols \subseteq Named(cmd[p]))
  BY <1>1
<1> QED
  BY <1>2, Invariance, PTL DEF Spec, OnlyNamedCollectionsAreLeft

-----------------------------------------------------------------------------
(* What is read back.                                                      *)

\* A command that reads first and finds the version it read has what it read,
\* also once its request was ignored.  After a part of it was carried out, and
\* with no other change since, the fields are not those asked for.
Comparable(p) ==
    /\ /\ ReadsFirst(p) /\ base[p] = version
       /\ pc[p] = "send" \/ req[p] \in {"sent", "ignored"}
       => read[p] = item
    /\ req[p] = "partly" =>
         /\ base[p] < version
         /\ version = base[p] + 1 => ~Matches(cmd[p], read[p], item)

Compared == \A p \in Proc : Comparable(p)

\* What an update asks for does not depend on what was read before.
LEMMA UpdateReadsNothing ==
    ASSUME NEW c, c.op = "update", NEW r, NEW s, NEW i
    PROVE  Patched(c, r, i) = Patched(c, s, i)
BY DEF Patched

\* An item that got a part of an update, and is not what the whole makes of
\* it, does not show the requested fields.
LEMMA PartlyDoesNotMatch ==
    ASSUME NEW c \in Command, NEW part \in Parts(c), NEW i \in Content, NEW r, NEW s,
           Patched(part, s, i) # Patched(c, s, i)
    PROVE  ~Matches(c, r, Patched(part, s, i))
<1>1. c \in Command /\ part \in Command /\ part.op = "update" /\ c.op = "update"
  BY PartsType
<1>2. PICK F \in (SUBSET DOMAIN c.fields) \ {{}, DOMAIN c.fields} :
        part = [c EXCEPT !.fields = [f \in F |-> c.fields[f]]]
  BY <1>1 DEF Parts
<1>3. part.fields = [f \in F |-> c.fields[f]]
  BY <1>1, <1>2 DEF Command
<1> DEFINE j == Patched(part, s, i)
<1>4. /\ j = [i EXCEPT !.fields = Overwritten(i.fields, part.fields)]
      /\ Patched(c, s, i) = [i EXCEPT !.fields = Overwritten(i.fields, c.fields)]
      /\ Patched(c, r, j) = [j EXCEPT !.fields = Overwritten(j.fields, c.fields)]
  BY <1>1 DEF Patched
<1>5. j.fields = Overwritten(i.fields, part.fields)
  BY <1>4 DEF Content
<1>6. Overwritten(j.fields, c.fields) = Overwritten(i.fields, c.fields)
  BY <1>3, <1>5 DEF Overwritten
<1>7. [j EXCEPT !.fields = Overwritten(i.fields, c.fields)]
      = [i EXCEPT !.fields = Overwritten(i.fields, c.fields)]
  BY <1>4 DEF Content
<1>8. Patched(c, r, j) = Patched(c, s, i)
  BY <1>4, <1>6, <1>7
<1> QED
  BY <1>8 DEF Matches

\* A step that leaves an invocation alone either leaves the item, too, or
\* moves its version.
LEMMA OthersKeepCompared ==
    ASSUME IInv, NEW q \in Proc, Comparable(q),
           pc'[q] = pc[q], read'[q] = read[q], base'[q] = base[q], req'[q] = req[q],
           UNCHANGED <<cmd, backend>>,
           UNCHANGED <<item, version>> \/ version' = version + 1
    PROVE  Comparable(q)'
<1>1. version \in Nat /\ base[q] \in Nat /\ base[q] <= version
  BY DEF IInv, TypeOK, ProcInv, BaseIsRead
<1> QED
  BY <1>1 DEF Comparable, ReadsFirst

LEMMA ZoteroKeepsCompared ==
    ASSUME IInv, [Next]_vars, UserEdits \/ \E p \in Proc : Zotero(p),
           NEW q \in Proc, Comparable(q)
    PROVE  Comparable(q)'
<1>0. TypeOK /\ ProcInv(q)
  BY DEF IInv
<1>1. CASE UserEdits
  BY <1>1, OthersKeepCompared DEF UserEdits
<1>2. ASSUME NEW p \in Proc, ServeRequest(p) \/ ServeScript(p) \/ ServePartly(p)
      PROVE  Comparable(q)'
  <2>1. /\ version' = version + 1 /\ req[p] = "sent"
        /\ req' = [req EXCEPT ![p] = "ok"] \/ req' = [req EXCEPT ![p] = "partly"]
        /\ UNCHANGED <<cmd, backend, pc, outcome>>
    BY <1>2 DEF ServeRequest, ServeScript, ServePartly
  <2>2. CASE q # p
    <3>1. req'[q] = req[q] /\ read'[q] = read[q] /\ base'[q] = base[q]
      BY <1>0, <1>2, <2>2 DEF ServeRequest, ServeScript, ServePartly, TypeOK
    <3> QED
      BY <2>1, <3>1, OthersKeepCompared
  <2>3. CASE q = p
    <3>1. base'[q] \in {base[q], version} /\ req'[q] \in {"ok", "partly"} /\ pc'[q] # "send"
      BY <1>0, <1>2, <2>1, <2>3
      DEF ServeRequest, ServeScript, ServePartly, TypeOK, ProcInv, Progress
    <3>2. base'[q] \in Nat /\ version \in Nat /\ base'[q] < version'
      BY <1>0, <2>1, <3>1 DEF TypeOK, ProcInv, BaseIsRead
    <3>3. ASSUME req'[q] = "partly" PROVE ~Matches(cmd[q], read'[q], item')
      <4>1. ServePartly(p)
        BY <1>0, <1>2, <2>3, <3>3 DEF ServeRequest, ServeScript, TypeOK
      <4>2. PICK part \in Parts(cmd[q]) :
              item' = Patched(part, read[q], item) /\ item' # Patched(cmd[q], read[q], item)
        BY <2>3, <4>1 DEF ServePartly
      <4>3. item \in Content /\ cmd[q] \in Command
        BY <1>0, CmdType DEF TypeOK
      <4> QED
        BY <4>2, <4>3, PartlyDoesNotMatch
    <3> QED
      BY <2>1, <3>1, <3>2, <3>3 DEF Comparable
  <2> QED
    BY <2>2, <2>3
<1>3. ASSUME NEW p \in Proc, NEW r \in {"ignored", "conflict", "auth", "other"}, Reply(p, r)
      PROVE  Comparable(q)'
  <2>1. CASE q # p
    <3>1. req'[q] = req[q]
      BY <1>0, <1>3, <2>1 DEF Reply, TypeOK
    <3> QED
      BY <1>3, <3>1, OthersKeepCompared DEF Reply
  <2>2. CASE q = p
    <3>1. req'[q] = r /\ pc[q] # "send"
      BY <1>0, <1>3, <2>2 DEF Reply, TypeOK, ProcInv, Progress
    <3> QED
      BY <1>3, <3>1, <2>2 DEF Reply, Comparable, ReadsFirst
  <2> QED
    BY <2>1, <2>2
<1> QED
  BY <1>1, <1>2, <1>3 DEF Zotero, IgnoreRequest, RejectStale, RejectUnauthorized, RejectOther

LEMMA CliKeepsCompared ==
    ASSUME IInv, NEW p \in Proc, Cli(p) \/ Exit(p), NEW q \in Proc, Comparable(q)
    PROVE  Comparable(q)'
<1>0. TypeOK /\ ProcInv(q)
  BY DEF IInv
<1>1. UNCHANGED <<item, version, cmd, backend>>
  BY DEF Cli, Exit, Start, Resolve, ResolveUnsupported, Read, ReadFails, Preflight, Send,
     ReceiveOk, ReceiveRefusal, ReceiveFailure, TimeOut, CheckErased, CheckTrash,
     CheckFields, CheckFails, Report, Goto
<1>2. CASE q # p
  <2>1. pc'[q] = pc[q] /\ read'[q] = read[q] /\ base'[q] = base[q] /\ req'[q] = req[q]
    BY <1>0, <1>2
    DEF Cli, Exit, Start, Resolve, ResolveUnsupported, Read, ReadFails, Preflight, Send,
        ReceiveOk, ReceiveRefusal, ReceiveFailure, TimeOut, CheckErased, CheckTrash,
        CheckFields, CheckFails, Report, Goto, TypeOK
  <2> QED
    BY <1>1, <2>1, OthersKeepCompared
<1>3. CASE q = p
  <2> USE DEF Goto, Comparable, ReadsFirst
  <2>1. CASE Start(p)
    BY <1>0, <1>1, <1>3, <2>1 DEF Start, TypeOK, ProcInv, Progress
  <2>2. CASE Resolve(p)
    BY <1>0, <1>1, <1>3, <2>2 DEF Resolve, TypeOK, ProcInv, Progress
  <2>3. CASE Read(p)
    BY <1>0, <1>1, <1>3, <2>3 DEF Read, TypeOK, ProcInv, Progress
  <2>4. CASE Send(p)
    BY <1>0, <1>1, <1>3, <2>4 DEF Send, TypeOK, ProcInv, Progress
  <2>5. CASE ReceiveOk(p)
    BY <1>0, <1>1, <1>3, <2>5 DEF ReceiveOk, TypeOK
  <2>6. CASE ~(Start(p) \/ Resolve(p) \/ Read(p) \/ Send(p) \/ ReceiveOk(p))
    <3>1. PICK o \in Outcome : Report(p, o)
      BY <2>6, CliReports
    <3> QED
      BY <1>0, <1>1, <1>3, <3>1 DEF Report, TypeOK
  <2> QED
    BY <2>1, <2>2, <2>3, <2>4, <2>5, <2>6
<1> QED
  BY <1>2, <1>3

LEMMA ComparedAlways == Spec => []Compared
<1>1. Init => Compared
  BY DEF Init, Compared, Comparable
<1>2. ASSUME IInv, Compared, [Next]_vars PROVE Compared'
  <2>1. ASSUME NEW q \in Proc PROVE Comparable(q)'
    <3>0. Comparable(q)
      BY <1>2 DEF Compared
    <3>1. CASE UserEdits \/ \E p \in Proc : Zotero(p)
      BY <1>2, <3>0, <3>1, ZoteroKeepsCompared
    <3>2. CASE \E p \in Proc : Cli(p) \/ Exit(p)
      BY <1>2, <3>0, <3>2, CliKeepsCompared
    <3>3. CASE UNCHANGED vars
      BY <1>2, <3>0, <3>3, OthersKeepCompared DEF vars
    <3> QED
      BY <1>2, <3>1, <3>2, <3>3 DEF Next
  <2> QED
    BY <2>1 DEF Compared
<1> QED
  BY <1>1, <1>2, Invariance, PTL DEF Spec

\* What Zotero dropped of a write is noticed by the comparison of what was
\* requested with what was read back (lib.rs, diff_requested_fields): such a
\* write is not reported as applied, unless somebody else has changed the item
\* between the command's read and its read-back, or nothing was to be done.
THEOREM DropsAreNoticedHolds == Spec => DropsAreNoticed
<1>1. ASSUME IInv, Compared, [Next]_vars, NEW p \in Proc,
             outcome[p] = "none", outcome'[p] = "applied", req[p] # "ok"
      PROVE  \/ req[p] = "partly" /\ version # base[p] + 1
             \/ req[p] = "ignored" /\ version # base[p]
             \/ req[p] = "ignored" /\ Patched(cmd[p], read[p], read[p]) = read[p]
  <2>0. TypeOK /\ ProcInv(p) /\ Comparable(p) /\ cmd[p] \in Command
    BY <1>1, CmdType DEF IInv, Compared
  <2>1. CheckErased(p) \/ CheckTrash(p) \/ CheckFields(p)
    <3>1. ~UserEdits /\ ~UNCHANGED vars
      BY <1>1 DEF UserEdits, vars
    <3>2. ASSUME NEW q \in Proc PROVE ~Zotero(q)
      BY <1>1 DEF Zotero, ServeRequest, ServePartly, IgnoreRequest, RejectStale,
         RejectUnauthorized, RejectOther, ServeScript, Reply
    <3>3. ASSUME NEW q \in Proc, Cli(q) \/ Exit(q) PROVE q = p
      BY <1>1, <2>0, <3>3
      DEF Cli, Exit, Start, Resolve, ResolveUnsupported, Read, ReadFails, Preflight, Send,
          ReceiveOk, ReceiveRefusal, ReceiveFailure, TimeOut, CheckErased, CheckTrash,
          CheckFields, CheckFails, Report, Goto, TypeOK
    <3>4. Cli(p) \/ Exit(p)
      BY <1>1, <3>1, <3>2, <3>3 DEF Next
    <3> QED
      BY <1>1, <2>0, <3>4
      DEF Cli, Exit, Start, Resolve, ResolveUnsupported, Read, ReadFails, Preflight, Send,
          ReceiveOk, ReceiveRefusal, ReceiveFailure, TimeOut, CheckFails, Report, Goto, TypeOK
  <2>2. req[p] \in {"partly", "ignored"}
    BY <1>1, <2>0, <2>1 DEF CheckErased, CheckTrash, CheckFields, ProcInv, Progress
  <2>3. CASE req[p] = "partly"
    <3>1. cmd[p].op = "update"
      BY <2>0, <2>3 DEF ProcInv, Progress
    <3>2. Matches(cmd[p], read[p], item)
      BY <1>1, <2>0, <2>1, <3>1 DEF CheckErased, CheckTrash, CheckFields, Report, TypeOK
    <3> QED
      BY <2>0, <2>3, <3>2 DEF Comparable
  <2>4. CASE req[p] = "ignored" /\ version = base[p]
    <3>1. backend[p] = "api" /\ read[p] = item /\ item \in Content
      BY <2>0, <2>4 DEF ProcInv, Progress, Comparable, ReadsFirst, TypeOK
    <3>2. CASE CheckErased(p)
      <4>1. ~item.there /\ cmd[p].op = "erase"
        BY <1>1, <2>0, <3>1, <3>2 DEF CheckErased, Report, TypeOK
      <4> QED
        BY <2>4, <3>1, <4>1 DEF Patched, Content
    <3>3. CASE CheckTrash(p)
      <4>1. item.trashed = (cmd[p].op = "trash")
        BY <1>1, <2>0, <3>1, <3>3 DEF CheckTrash, Report, TypeOK, Content
      <4> QED
        BY <2>4, <3>1, <3>3, <4>1 DEF CheckTrash, Patched, Content
    <3>4. CASE CheckFields(p)
      BY <1>1, <2>0, <2>4, <3>1, <3>4 DEF CheckFields, Report, Matches, TypeOK
    <3> QED
      BY <2>1, <3>2, <3>3, <3>4
  <2> QED
    BY <2>2, <2>3, <2>4
<1>2. IInv /\ Compared /\ [Next]_vars =>
        (\A p \in Proc :
          outcome[p] = "none" /\ outcome'[p] = "applied"
            => \/ req[p] = "ok"
               \/ req[p] = "partly" /\ version # base[p] + 1
               \/ req[p] = "ignored" /\ version # base[p]
               \/ req[p] = "ignored" /\ Patched(cmd[p], read[p], read[p]) = read[p])
  BY <1>1
<1> QED
  BY <1>2, Invariance, ComparedAlways, PTL DEF Spec, DropsAreNoticed

-----------------------------------------------------------------------------
(* WritePath implements AtomicWrites.                                      *)

\* A step of one invocation moves that invocation's status and answer only.
LEMMA OneMoves ==
    ASSUME TypeOK, NEW p \in Proc,
           \A q \in Proc \ {p} :
              req'[q] = req[q] /\ pc'[q] = pc[q] /\ outcome'[q] = outcome[q]
    PROVE  /\ Status' = [Status EXCEPT ![p] = StatusOf(p)']
           /\ Answered' = [Answered EXCEPT ![p] = AnswerOf(p)']
<1>1. ASSUME NEW q \in Proc \ {p}
      PROVE  StatusOf(q)' = StatusOf(q) /\ AnswerOf(q)' = AnswerOf(q)
  BY DEF StatusOf, AnswerOf
<1> QED
  BY <1>1 DEF Status, Answered

\* The status of an invocation, in the words of the implementation.
LEMMA StatusValues ==
    ASSUME TypeOK, NEW p \in Proc, ProcInv(p)
    PROVE  /\ pc[p] = "idle" => StatusOf(p) = "idle"
           /\ pc[p] \in {"resolve", "read", "send"} => StatusOf(p) = "open"
           /\ req[p] = "sent" => StatusOf(p) = "open"
           /\ pc[p] # "idle" => StatusOf(p) \in {"open", "landed", "closed"}
           /\ req[p] = "none" /\ pc[p] = "done" => StatusOf(p) = "closed"
           /\ req[p] \in {"partly", "ignored", "conflict", "auth", "other"}
                => StatusOf(p) = "closed"
           /\ req[p] = "ok" => StatusOf(p) = "landed"
           /\ pc[p] # "done" => AnswerOf(p) = "none"
<1>1. req[p] \in {"none", "sent", "ok", "partly", "ignored", "conflict", "auth", "other"}
  BY DEF TypeOK, Replies
<1>2. pc[p] \in {"idle", "resolve", "read", "send", "wait", "check", "done"}
  BY DEF TypeOK, PC
<1> QED
  BY <1>1, <1>2 DEF StatusOf, AnswerOf, ProcInv, Progress

LEMMA AbstractInit == Init => Abstract!Init
<1> SUFFICES ASSUME Init PROVE Abstract!Init
  OBVIOUS
<1>1. item \in Abstract!Content /\ item.there
  BY ItemsAssump DEF Init, Content, Abstract!Content
<1>2. Status = [p \in Proc |-> "idle"] /\ Answered = [p \in Proc |-> "none"]
  BY DEF Init, Status, Answered, StatusOf, AnswerOf
<1> QED
  BY <1>1, <1>2 DEF Init, Abstract!Init

\* The abstract effect of a command is the effect proved of a landing.
LEMMA SameEffect ==
    ASSUME NEW b, NEW c, NEW i
    PROVE  /\ Abstract!Effect(b, c, i) = Effect(b, c, i)
           /\ Abstract!Patched(c, i, i) = Patched(c, i, i)
           /\ Abstract!Parts(c) = Parts(c)
  BY DEF Abstract!Effect, Effect, Abstract!Patched, Patched, Abstract!Scripted, Scripted,
     Abstract!NewTags, NewTags, Abstract!MoveSet, MoveSet, Abstract!Overwritten, Overwritten,
     Abstract!Parts, Parts

\* Zotero's steps: an edit, a landing, or the end of a request.
LEMMA ZoteroImplements ==
    ASSUME IInv, IInv', [Next]_vars, UserEdits \/ \E p \in Proc : Zotero(p)
    PROVE  Abstract!Next
<1>0. TypeOK /\ TypeOK'
  BY DEF IInv
<1>1. CASE UserEdits
  <2>1. item' \in Abstract!Content
    BY <1>0 DEF TypeOK, Content, Abstract!Content
  <2>2. UNCHANGED <<Status, Answered>>
    BY <1>1 DEF UserEdits, Status, Answered, StatusOf, AnswerOf
  <2> QED
    BY <1>1, <2>1, <2>2 DEF UserEdits, Abstract!Edit, Abstract!Next
<1>2. ASSUME NEW p \in Proc, ServeRequest(p) \/ ServeScript(p) PROVE Abstract!Land(p)
  <2>1. /\ req[p] = "sent" /\ req' = [req EXCEPT ![p] = "ok"] /\ item.there
        /\ UNCHANGED <<cmd, backend, pc, outcome>>
    BY <1>2 DEF ServeRequest, ServeScript
  <2>2. StatusOf(p) = "open" /\ StatusOf(p)' = "landed" /\ AnswerOf(p)' = AnswerOf(p)
    BY <1>0, <2>1, StatusValues DEF IInv, StatusOf, AnswerOf, TypeOK
  <2>3. Status' = [Status EXCEPT ![p] = "landed"] /\ Answered' = Answered
    <3>1. /\ Status' = [Status EXCEPT ![p] = StatusOf(p)']
          /\ Answered' = [Answered EXCEPT ![p] = AnswerOf(p)']
      BY <1>0, <2>1, OneMoves DEF TypeOK
    <3> QED
      BY <2>2, <3>1 DEF Answered
  <2>4. item' = Effect(backend[p], cmd[p], item)
    <3>1. Lands(p)
      BY <1>0, <2>1 DEF Lands, TypeOK
    <3> QED
      BY <3>1, Landing
  <2> QED
    BY <2>1, <2>2, <2>3, <2>4, SameEffect DEF Abstract!Land, Status
<1>4. ASSUME NEW p \in Proc, ServePartly(p) PROVE Abstract!LandPartly(p)
  <2>1. /\ req[p] = "sent" /\ req' = [req EXCEPT ![p] = "partly"] /\ item.there
        /\ UNCHANGED <<cmd, backend, pc, outcome>>
    BY <1>4 DEF ServePartly
  <2>2. StatusOf(p) = "open" /\ StatusOf(p)' = "closed" /\ AnswerOf(p)' = AnswerOf(p)
    BY <1>0, <2>1, StatusValues DEF IInv, StatusOf, AnswerOf, TypeOK
  <2>3. Status' = [Status EXCEPT ![p] = "closed"] /\ Answered' = Answered
    <3>1. /\ Status' = [Status EXCEPT ![p] = StatusOf(p)']
          /\ Answered' = [Answered EXCEPT ![p] = AnswerOf(p)']
      BY <1>0, <2>1, OneMoves DEF TypeOK
    <3> QED
      BY <2>2, <3>1 DEF Answered
  <2>4. PICK part \in Parts(cmd[p]) : item' = Patched(part, read[p], item)
    BY <1>4 DEF ServePartly
  <2>5. part.op = "update"
    BY <1>0, <2>4, CmdType, PartsType
  <2>6. item' = Effect(backend[p], part, item)
    BY <2>4, <2>5, UpdateReadsNothing DEF Effect, Scripted
  <2>7. item' = Abstract!Effect(backend[p], part, item) /\ part \in Abstract!Parts(cmd[p])
    BY <2>4, <2>6, SameEffect
  <2> QED
    BY <2>1, <2>2, <2>3, <2>7 DEF Abstract!LandPartly, Status
<1>3. ASSUME NEW p \in Proc, NEW r \in {"ignored", "conflict", "auth", "other"}, Reply(p, r)
      PROVE  Abstract!Close(p)
  <2>1. StatusOf(p) = "open" /\ StatusOf(p)' = "closed" /\ AnswerOf(p)' = AnswerOf(p)
    BY <1>0, <1>3, StatusValues DEF IInv, StatusOf, AnswerOf, TypeOK, Reply
  <2>2. /\ Status' = [Status EXCEPT ![p] = StatusOf(p)']
        /\ Answered' = [Answered EXCEPT ![p] = AnswerOf(p)']
    BY <1>0, <1>3, OneMoves DEF Reply, TypeOK
  <2> QED
    BY <1>3, <2>1, <2>2 DEF Reply, Abstract!Close, Status, Answered
<1> QED
  BY <1>1, <1>2, <1>3, <1>4 DEF Zotero, IgnoreRequest, RejectStale, RejectUnauthorized,
     RejectOther, Abstract!Next

\* An invocation's steps before its report: the command is issued, then
\* nothing the abstraction sees.
LEMMA ProgressImplements ==
    ASSUME IInv, NEW p \in Proc,
           Start(p) \/ Resolve(p) \/ Read(p) \/ Send(p) \/ ReceiveOk(p)
    PROVE  Abstract!Issue(p) \/ UNCHANGED Abstract!vars
<1>0. TypeOK /\ ProcInv(p)
  BY DEF IInv
<1>1. UNCHANGED <<item, cmd, backend, outcome>>
  BY DEF Start, Resolve, Read, Send, ReceiveOk, Goto
<1>2. /\ Status' = [Status EXCEPT ![p] = StatusOf(p)']
      /\ Answered' = Answered
  <2>1. \A q \in Proc \ {p} : req'[q] = req[q] /\ pc'[q] = pc[q]
    BY <1>0 DEF Start, Resolve, Read, Send, ReceiveOk, Goto, TypeOK
  <2>2. Answered' = Answered
    BY <1>1 DEF Answered, AnswerOf
  <2> QED
    BY <1>0, <1>1, <2>1, <2>2, OneMoves
<1>3. CASE Start(p)
  <2>1. StatusOf(p) = "idle" /\ StatusOf(p)' = "open"
    BY <1>0, <1>3 DEF Start, Goto, StatusOf, ProcInv, Progress, TypeOK
  <2> QED
    BY <1>1, <1>2, <2>1 DEF Abstract!Issue, Status
<1>4. CASE Resolve(p) \/ Read(p) \/ Send(p) \/ ReceiveOk(p)
  <2>1. StatusOf(p)' = StatusOf(p)
    BY <1>0, <1>4 DEF Resolve, Read, Send, ReceiveOk, Goto, StatusOf, ProcInv, Progress,
       TypeOK, Replies
  <2> QED
    BY <1>1, <1>2, <2>1 DEF Abstract!vars, Status
<1> QED
  BY <1>3, <1>4

\* A report of "applied" has landed or finds the item as it asks.
LEMMA AppliedIsTrue ==
    ASSUME IInv, NEW p \in Proc, Cli(p), Report(p, "applied")
    PROVE  \/ StatusOf(p) = "landed"
           \/ StatusOf(p) = "closed" /\ Patched(cmd[p], item, item) = item
<1>0. TypeOK /\ ProcInv(p) /\ cmd[p] \in Command
  BY CmdType DEF IInv
<1>1. outcome'[p] = "applied" /\ pc'[p] = "done"
  BY <1>0 DEF Report, Goto, TypeOK
<1>2. CheckErased(p) \/ CheckTrash(p) \/ CheckFields(p)
  BY <1>0, <1>1 DEF Cli, Start, Resolve, ResolveUnsupported, Read, ReadFails, Preflight, Send,
     ReceiveOk, ReceiveRefusal, ReceiveFailure, TimeOut, CheckFails, Report, Goto, TypeOK
<1>3. \/ req[p] = "ok" \/ (req[p] = "ignored" /\ backend[p] = "api")
      \/ req[p] = "partly" /\ cmd[p].op = "update"
  BY <1>0, <1>2 DEF CheckErased, CheckTrash, CheckFields, ProcInv, Progress, TypeOK
<1>4. CASE req[p] = "ok"
  BY <1>0, <1>4, StatusValues
<1>6. CASE req[p] = "partly" /\ cmd[p].op = "update"
  <2>1. StatusOf(p) = "closed"
    BY <1>0, <1>6, StatusValues
  <2>2. CheckFields(p) /\ Matches(cmd[p], read[p], item)
    BY <1>0, <1>1, <1>2, <1>6 DEF CheckErased, CheckTrash, CheckFields, Report, TypeOK
  <2> QED
    BY <1>0, <1>6, <2>1, <2>2, MatchesIdempotent DEF TypeOK
<1>5. CASE req[p] = "ignored" /\ backend[p] = "api"
  <2>1. StatusOf(p) = "closed"
    BY <1>0, <1>5, StatusValues
  <2>2. CASE CheckErased(p)
    <3>1. ~item.there
      BY <1>0, <1>1, <2>2 DEF CheckErased, Report, TypeOK
    <3> QED
      BY <1>0, <2>1, <2>2, <3>1 DEF CheckErased, Patched, Content, TypeOK
  <2>3. CASE CheckTrash(p)
    <3>1. item.trashed = (cmd[p].op = "trash")
      BY <1>0, <1>1, <1>5, <2>3 DEF CheckTrash, Report, TypeOK, Content
    <3> QED
      BY <1>0, <2>1, <2>3, <3>1 DEF CheckTrash, Patched, Content, TypeOK
  <2>4. CASE CheckFields(p)
    <3>1. Matches(cmd[p], read[p], item)
      BY <1>0, <1>1, <2>4 DEF CheckFields, Report, TypeOK
    <3> QED
      BY <1>0, <2>1, <2>4, <3>1, MatchesIdempotent DEF CheckFields, TypeOK
  <2> QED
    BY <1>2, <2>2, <2>3, <2>4
<1> QED
  BY <1>3, <1>4, <1>5, <1>6

\* A report ends the invocation, and its command if no request is under way.
LEMMA ReportImplements ==
    ASSUME IInv, NEW p \in Proc, Cli(p) \/ Exit(p),
           ~(Start(p) \/ Resolve(p) \/ Read(p) \/ Send(p) \/ ReceiveOk(p))
    PROVE  Abstract!Next \/ UNCHANGED Abstract!vars
<1>0. TypeOK /\ ProcInv(p)
  BY DEF IInv
<1>1. PICK o \in Outcome : Report(p, o) /\ Reportable(p, o)
  BY CliReports
<1>2. /\ pc[p] \notin {"idle", "done"}
      /\ o = "refused" => req[p] # "ok"
  <2>1. pc[p] \notin {"idle", "done"}
    BY <1>0 DEF Cli, Exit, ResolveUnsupported, ReadFails, Preflight,
       ReceiveRefusal, ReceiveFailure, TimeOut, CheckErased, CheckTrash, CheckFields, CheckFails
  <2> QED
    BY <1>1, <2>1 DEF Reportable
<1>3. /\ item' = item /\ cmd' = cmd /\ backend' = backend /\ req' = req
      /\ pc'[p] = "done" /\ outcome'[p] = o
      /\ Status' = [Status EXCEPT ![p] = StatusOf(p)']
      /\ Answered' = [Answered EXCEPT ![p] = AnswerOf(p)']
  <2>1. \A q \in Proc \ {p} : req'[q] = req[q] /\ pc'[q] = pc[q] /\ outcome'[q] = outcome[q]
    BY <1>0, <1>1 DEF Report, Goto, TypeOK
  <2> QED
    BY <1>0, <1>1, <2>1, OneMoves DEF Report, Goto, TypeOK
<1>4. /\ StatusOf(p) \in {"open", "landed", "closed"}
      /\ AnswerOf(p) = "none"
      /\ \/ StatusOf(p)' = StatusOf(p)
         \/ StatusOf(p) = "open" /\ StatusOf(p)' = "closed"
      /\ req[p] # "sent" /\ StatusOf(p) # "landed" => StatusOf(p)' = "closed"
      /\ req[p] = "ok" <=> StatusOf(p) = "landed"
  <2>1. req[p] \in {"none", "sent", "ok", "partly", "ignored", "conflict", "auth", "other"}
    BY <1>0 DEF TypeOK, Replies
  <2> QED
    BY <1>0, <1>2, <1>3, <2>1, StatusValues DEF StatusOf
<1>5. CASE o = "none"
  <2>1. AnswerOf(p)' = AnswerOf(p)
    BY <1>3, <1>4, <1>5 DEF AnswerOf
  <2>2. Answered' = Answered
    BY <1>3, <2>1 DEF Answered
  <2>3. CASE StatusOf(p)' = StatusOf(p)
    BY <1>3, <2>2, <2>3 DEF Abstract!vars, Status
  <2>4. CASE StatusOf(p) = "open" /\ StatusOf(p)' = "closed"
    BY <1>3, <2>2, <2>4 DEF Abstract!Close, Abstract!Next, Status
  <2> QED
    BY <1>4, <2>3, <2>4
<1>6. CASE o = "applied"
  <2>1. AnswerOf(p)' = "applied" /\ Cli(p)
    BY <1>0, <1>1, <1>3, <1>6 DEF AnswerOf, Exit, Report, TypeOK
  <2>2. \/ StatusOf(p) = "landed"
        \/ StatusOf(p) = "closed" /\ Patched(cmd[p], item, item) = item
    BY <1>1, <1>6, <2>1, AppliedIsTrue
  <2>3. Status' = Status
    BY <1>3, <1>4, <2>2 DEF Status
  <2>4. Abstract!Patched(cmd[p], item, item) = Patched(cmd[p], item, item)
    BY SameEffect
  <2>5. Abstract!Answer(p, "applied")
    BY <1>3, <1>4, <2>1 DEF Abstract!Answer, Answered
  <2>6. Status[p] = StatusOf(p)
    BY DEF Status
  <2>7. Abstract!Confirm(p)
    BY <2>2, <2>3, <2>4, <2>5, <2>6 DEF Abstract!Confirm
  <2> QED
    BY <2>7 DEF Abstract!Next
<1>7. CASE o = "refused"
  <2>1. AnswerOf(p)' = "refused"
    BY <1>3, <1>7 DEF AnswerOf
  <2>2. StatusOf(p) \in {"open", "closed"} /\ StatusOf(p)' = "closed"
    BY <1>1, <1>4, <1>7 DEF Reportable
  <2> QED
    BY <1>3, <1>4, <2>1, <2>2
       DEF Abstract!Refuse, Abstract!Answer, Abstract!Next, Status, Answered
<1>8. CASE o \notin {"none", "applied", "refused"}
  <2>1. AnswerOf(p)' = "unknown"
    BY <1>3, <1>8 DEF AnswerOf
  <2>2. CASE StatusOf(p)' = StatusOf(p)
    <3>1. Status' = Status
      BY <1>3, <2>2 DEF Status
    <3> QED
      BY <1>3, <1>4, <2>1, <3>1
         DEF Abstract!GiveUp, Abstract!Answer, Abstract!Next, Status, Answered
  <2>3. CASE StatusOf(p) = "open" /\ StatusOf(p)' = "closed"
    BY <1>3, <1>4, <2>1, <2>3
       DEF Abstract!GiveUp, Abstract!Answer, Abstract!Next, Status, Answered
  <2> QED
    BY <1>4, <2>2, <2>3
<1> QED
  BY <1>5, <1>6, <1>7, <1>8

\* Every command takes effect at most once, in one step, on the item as it is
\* then, and is answered truthfully, whichever backend carries it.
THEOREM Refinement == Spec => ImplementsAtomicWrites
<1>1. ASSUME IInv, IInv', [Next]_vars PROVE [Abstract!Next]_(Abstract!vars)
  <2>1. CASE UserEdits \/ \E p \in Proc : Zotero(p)
    BY <1>1, <2>1, ZoteroImplements
  <2>2. ASSUME NEW p \in Proc, Cli(p) \/ Exit(p) PROVE [Abstract!Next]_(Abstract!vars)
    BY <1>1, <2>2, ProgressImplements, ReportImplements DEF Abstract!Next
  <2>3. CASE UNCHANGED vars
    BY <2>3 DEF vars, Abstract!vars, Status, Answered, StatusOf, AnswerOf
  <2> QED
    BY <1>1, <2>1, <2>2, <2>3 DEF Next
<1> QED
  BY <1>1, AbstractInit, Invariance, PTL DEF Spec, ImplementsAtomicWrites, Abstract!Spec
=============================================================================
