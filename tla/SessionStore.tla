---------------------------- MODULE SessionStore ----------------------------
(***************************************************************************)
(* session.json and the commands that change it: `session use-*` and       *)
(* `clear-*`, and the two `use-selected` (session.rs, lib.rs).  An         *)
(* invocation loads the session once, at its start, sets fields of that    *)
(* copy and saves the copy; then it loads the file again, appends itself   *)
(* to the history and saves that.                                          *)
(*                                                                         *)
(* A save truncates the file and writes it.  It tries to take a lock for   *)
(* that and goes on all the same if another process holds it, and a load   *)
(* takes no lock, so the lock orders nothing and is left out.              *)
(***************************************************************************)
EXTENDS Naturals, Sequences

CONSTANTS
    Invocation,      \* invocations
    Field,           \* library, collection, item
    Uses,            \* the sets of fields a command may set
    Value, Null,     \* what a field may select, and null
    Limit            \* COMMAND_HISTORY_LIMIT (50 in the code)

ASSUME LimitAssump == Limit \in Nat \ {0}
ASSUME NullAssump == Null \notin Value
ASSUME UsesAssump == Uses \subseteq SUBSET Field

VARIABLES
    \* session.json
    file,            \* "text", "empty" (or no file at all) or "torn"
    text,            \* the session its text stands for, if it parses
    \* each invocation
    args,            \* the fields it sets, and to what
    stage,
    copy,            \* the session it loaded and is about to save
    running, overlapped

sessionVars == <<file, text, args, stage, copy, running, overlapped>>

Selection == [Field -> Value \cup {Null}]
Args == UNION {[F -> Value \cup {Null}] : F \in Uses}
Session == [sel: Selection, hist: Seq(Invocation)]
Default == [sel |-> [f \in Field |-> Null], hist |-> <<>>]

Stage == {"idle", "save", "write", "append", "save2", "write2", "done"}
Writing == {"write", "write2"}

SessionTypeOK ==
    /\ file \in {"text", "empty", "torn"}
    /\ text \in Session
    /\ args \in [Invocation -> Args]
    /\ stage \in [Invocation -> Stage]
    /\ copy \in [Invocation -> Session]
    /\ running \subseteq Invocation /\ overlapped \subseteq running

\* The history of an earlier use, or no file yet.
SessionInit ==
    /\ file \in {"text", "empty"}
    /\ text \in IF file = "empty" THEN {Default}
                ELSE [sel: Selection, hist: UNION {[1..n -> Invocation] : n \in 0..Limit}]
    /\ args \in [Invocation -> Args]
    /\ stage = [p \in Invocation |-> "idle"]
    /\ copy = [p \in Invocation |-> Default]
    /\ running = {} /\ overlapped = {}

-----------------------------------------------------------------------------

\* The last Limit entries of a history.
Recent(h) == IF Len(h) > Limit THEN SubSeq(h, Len(h) - Limit + 1, Len(h)) ELSE h

\* load_session_state: anything that does not parse counts as no session.
Loaded == [text EXCEPT !.hist = Recent(@)]

Proceed(p, l) == stage' = [stage EXCEPT ![p] = l] /\ UNCHANGED args

Leave(p) ==
    /\ Proceed(p, "done")
    /\ running' = running \ {p} /\ overlapped' = overlapped \ {p}

Selected(a, sel) == [f \in Field |-> IF f \in DOMAIN a THEN a[f] ELSE sel[f]]

\* Mutant: the fields the command does not set are forgotten.
BeginOnly(p) ==
    /\ stage[p] = "idle"
    /\ copy' = [copy EXCEPT ![p] = [Loaded EXCEPT !.sel = args[p]]]
    /\ Proceed(p, "save")
    /\ running' = running \cup {p}
    /\ overlapped' = IF running = {} THEN {} ELSE running'
    /\ UNCHANGED <<file, text>>

\* The dispatcher loads the session, and the command changes its copy.
Begin(p) ==
    /\ stage[p] = "idle"
    /\ copy' = [copy EXCEPT ![p] = [Loaded EXCEPT !.sel = Selected(args[p], @)]]
    /\ Proceed(p, "save")
    /\ running' = running \cup {p}
    /\ overlapped' = IF running = {} THEN {} ELSE running'
    /\ UNCHANGED <<file, text>>

\* Mutant: the file not loaded again for the history.
RecordUnloaded(p) ==
    /\ stage[p] = "append"
    /\ copy' = [copy EXCEPT ![p] = [@ EXCEPT !.hist = Recent(Append(@, p))]]
    /\ Proceed(p, "save2")
    /\ UNCHANGED <<file, text, running, overlapped>>

\* append_command_history loads the session as it is by now.
Record(p) ==
    /\ stage[p] = "append"
    /\ copy' = [copy EXCEPT ![p] = [Loaded EXCEPT !.hist = Recent(Append(@, p))]]
    /\ Proceed(p, "save2")
    /\ UNCHANGED <<file, text, running, overlapped>>

Truncate(p) ==
    /\ stage[p] \in {"save", "save2"}
    /\ file' = "empty" /\ text' = Default
    /\ Proceed(p, IF stage[p] = "save" THEN "write" ELSE "write2")
    /\ UNCHANGED <<copy, running, overlapped>>

\* The text goes to the start of the file.  If another process wrote there
\* since the truncation, the end of a longer text of its own remains.
Write(p) ==
    /\ stage[p] \in Writing
    /\ file' \in IF file = "empty" THEN {"text"} ELSE {"text", "torn"}
    /\ text' = IF file' = "text" THEN copy[p] ELSE Default
    /\ IF stage[p] = "write"
       THEN Proceed(p, "append") /\ UNCHANGED <<running, overlapped>>
       ELSE Leave(p)
    /\ copy' = [copy EXCEPT ![p] = Default]

\* Killed, or a save that fails.
Exit(p) ==
    /\ stage[p] \notin {"idle", "done"}
    /\ Leave(p)
    /\ copy' = [copy EXCEPT ![p] = Default]
    /\ UNCHANGED <<file, text>>

SessionNext == \E p \in Invocation : Begin(p) \/ Record(p) \/ Truncate(p) \/ Write(p) \/ Exit(p)

SessionSpec == SessionInit /\ [][SessionNext]_sessionVars

-----------------------------------------------------------------------------
(* What is checked.                                                        *)

\* The session as the user sees it: while a save is under way, what it saves.
Writers == {p \in Invocation : stage[p] \in Writing}

SessionNow == IF Writers = {} THEN Loaded ELSE copy[CHOOSE p \in Writers : TRUE]

PlaceAt(l) ==
    CASE l = "save" -> "begun"
      [] l = "write" -> "selecting"
      [] l \in {"append", "save2"} -> "selected"
      [] l = "write2" -> "recording"
      [] OTHER -> l

Place == [p \in Invocation |-> PlaceAt(stage[p])]

Abstract == INSTANCE AtomicSession WITH session <- SessionNow, place <- Place

\* The refinement: an invocation that overlaps no other sets its fields and
\* then enters itself in the history, each exactly once and each in one step
\* that changes nothing else, and only a kill during one of its two saves
\* loses the session.  Invocations that overlap may undo each other's
\* changes, and lose the session, but only while they run.
ImplementsAtomicSession == Abstract!Spec
=============================================================================
