------------------------------ MODULE LiveRead ------------------------------
(***************************************************************************)
(* What the live snapshot promises to a CLI invocation that reads a        *)
(* database a running Zotero holds locked: every read returns one          *)
(* committed version of the library, no older than the version committed   *)
(* when the invocation asked for its copy, or the read is refused.  How    *)
(* the copy is made, named, shared and pruned is LiveSnapshot's business.  *)
(***************************************************************************)
EXTENDS Naturals

CONSTANT Proc            \* concurrent CLI invocations

VARIABLES
    db,                  \* number of commits Zotero has made
    phase,               \* phase[p]: where invocation p stands
    floor,               \* floor[p]: db when p asked
    seen                 \* seen[p]: the version p's last read returned

vars == <<db, phase, floor, seen>>

Phase == {"idle", "asking", "read", "refused", "gone"}

TypeOK ==
    /\ db \in Nat
    /\ phase \in [Proc -> Phase]
    /\ floor \in [Proc -> Nat]
    /\ seen \in [Proc -> Nat]

Init ==
    /\ db = 0
    /\ phase = [p \in Proc |-> "idle"]
    /\ floor = [p \in Proc |-> 0]
    /\ seen = [p \in Proc |-> 0]

Commit ==
    /\ db' = db + 1
    /\ UNCHANGED <<phase, floor, seen>>

Ask(p) ==
    /\ phase[p] = "idle"
    /\ phase' = [phase EXCEPT ![p] = "asking"]
    /\ floor' = [floor EXCEPT ![p] = db]
    /\ UNCHANGED <<db, seen>>

\* The first read of an invocation, and every later one.
Read(p) ==
    /\ phase[p] \in {"asking", "read"}
    /\ \E v \in floor[p]..db : seen' = [seen EXCEPT ![p] = v]
    /\ phase' = [phase EXCEPT ![p] = "read"]
    /\ UNCHANGED <<db, floor>>

\* Several at once when Zotero quits under them.
Refuse(S) ==
    /\ \A p \in S : phase[p] \in {"asking", "read"}
    /\ phase' = [p \in Proc |-> IF p \in S THEN "refused" ELSE phase[p]]
    /\ UNCHANGED <<db, floor, seen>>

Exit(p) ==
    /\ phase[p] \notin {"idle", "gone"}
    /\ phase' = [phase EXCEPT ![p] = "gone"]
    /\ floor' = [floor EXCEPT ![p] = 0]
    /\ seen' = [seen EXCEPT ![p] = 0]
    /\ UNCHANGED db

Next ==
    \/ Commit
    \/ \E p \in Proc : Ask(p) \/ Read(p) \/ Exit(p)
    \/ \E S \in SUBSET Proc : Refuse(S)

Spec == Init /\ [][Next]_vars
=============================================================================
