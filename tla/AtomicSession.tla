--------------------------- MODULE AtomicSession ---------------------------
(***************************************************************************)
(* What the session commands promise to one user: an invocation that       *)
(* overlaps no other sets the fields it names, once, and then enters       *)
(* itself in the history, once, each in one step that leaves everything    *)
(* else alone.  Only if it is killed while it saves is the session         *)
(* forgotten.  Invocations that overlap may undo each other's changes.     *)
(***************************************************************************)
EXTENDS Naturals, Sequences

CONSTANTS Invocation, Field, Uses, Value, Null, Limit

VARIABLES
    session,         \* [sel: what each field selects, hist: the history]
    args,            \* args[p]: the fields p sets, and to what
    place,           \* how far p has come
    overlapped       \* those under way that met another one

vars == <<session, args, place, overlapped>>

Session == [sel: [Field -> Value \cup {Null}], hist: Seq(Invocation)]

Forgotten == [sel |-> [f \in Field |-> Null], hist |-> <<>>]

\* The last Limit entries.
Recent(h) == IF Len(h) > Limit THEN SubSeq(h, Len(h) - Limit + 1, Len(h)) ELSE h

Running == {p \in Invocation : place[p] \notin {"idle", "done"}}

Init ==
    /\ session \in Session
    /\ args \in [Invocation -> UNION {[F -> Value \cup {Null}] : F \in Uses}]
    /\ place = [p \in Invocation |-> "idle"]
    /\ overlapped = {}

Go(p, from, to) ==
    /\ place[p] = from
    /\ place' = [place EXCEPT ![p] = to]
    /\ UNCHANGED args

\* The session becomes s; with p in each other's way, anything.
Becomes(p, s) ==
    \/ session' = s
    \/ p \in overlapped /\ session' \in Session

Begin(p) ==
    /\ Go(p, "idle", "begun")
    /\ overlapped' = IF Running = {} THEN {} ELSE Running \cup {p}
    /\ UNCHANGED session

Select(p) ==
    /\ Go(p, "begun", "selecting")
    /\ Becomes(p, [session EXCEPT !.sel =
                      [f \in Field |-> IF f \in DOMAIN args[p] THEN args[p][f] ELSE @[f]]])
    /\ UNCHANGED overlapped

\* The selection is saved.
Saved(p) ==
    /\ Go(p, "selecting", "selected")
    /\ Becomes(p, session)
    /\ UNCHANGED overlapped

Record(p) ==
    /\ Go(p, "selected", "recording")
    /\ Becomes(p, [session EXCEPT !.hist = Recent(Append(@, p))])
    /\ UNCHANGED overlapped

End(p) ==
    /\ Go(p, "recording", "done")
    /\ Becomes(p, session)
    /\ overlapped' = overlapped \ {p}

\* Killed, at a loss only while it saves.
Kill(p) ==
    /\ p \in Running
    /\ Go(p, place[p], "done")
    /\ \/ Becomes(p, session)
       \/ place[p] \in {"selecting", "recording"} /\ session' = Forgotten
    /\ overlapped' = overlapped \ {p}

Next ==
    \E p \in Invocation :
        Begin(p) \/ Select(p) \/ Saved(p) \/ Record(p) \/ End(p) \/ Kill(p)

Spec == Init /\ [][Next]_vars
=============================================================================
