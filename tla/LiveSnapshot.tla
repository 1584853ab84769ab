---------------------------- MODULE LiveSnapshot ----------------------------
(***************************************************************************)
(* live_snapshot.rs: reading the library of a running Zotero through a     *)
(* copy the CLI processes share.  A process offers the keys of the cached  *)
(* copies; the template run inside Zotero either answers that the current  *)
(* change key is one of them, or writes a new copy with VACUUM INTO, which *)
(* the process renames into the cache and then prunes every other copy.    *)
(*                                                                         *)
(* The template is JavaScript with awaits, so Zotero's own writes fall     *)
(* between its steps; CLI processes interleave with each other and may be  *)
(* killed anywhere.  A copy is modelled by the number of commits it holds. *)
(***************************************************************************)
EXTENDS Naturals, FiniteSets

CONSTANTS
    Proc,                \* concurrent CLI invocations
    Attempts,            \* tries of VACUUM INTO in one request (5 in the code)
    MaxVersion,          \* bound: commits of Zotero
    MaxChanges,          \* bound: total_changes() of one connection
    MaxCommits,          \* bound: Zotero.DB._commitCount
    MaxConn              \* bound: times Zotero reopens its database

ASSUME ConstAssump ==
    /\ Attempts \in Nat \ {0}
    /\ MaxVersion \in Nat /\ MaxChanges \in Nat
    /\ MaxCommits \in Nat /\ MaxConn \in Nat

VARIABLES
    \* Zotero
    db,                  \* number of commits that changed the library
    conn,                \* the connection the WeakMap token stands for
    changes,             \* SQLite's total_changes() of that connection
    commits,             \* Zotero.DB._commitCount
    tx,                  \* "none", or an open transaction: "clean" or "dirty"
    \* the cache directory of this database
    cache,               \* the snapshot-KEY.sqlite files: [key, ver]
    \* each CLI invocation
    pc, floor,           \* where it stands; db when it asked
    offer, have,         \* offer_cached; the keys it offered
    key, attempt,        \* the change key and the attempt of its request
    copy,                \* what its incoming file holds, while it has one
    doomed,              \* the copies prune's directory listing returned
    seen                 \* the version its last read returned

zotero == <<db, conn, changes, commits, tx>>
local == <<floor, offer, have, key, attempt, copy, doomed, seen>>
vars == <<db, conn, changes, commits, tx, cache,
          pc, floor, offer, have, key, attempt, copy, doomed, seen>>

Key == [conn: Nat, commits: Nat, changes: Nat]
Snapshot == [key: Key, ver: Nat]

\* A request is running inside Zotero.
InZotero == {"count1", "key1", "loop", "count2", "key2", "vacuum"}
\* The answer is back and the CLI works on the cache directory.
InCli == {"scan", "reused", "copied", "list", "prune", "open"}
PC == {"idle", "held", "refused", "gone"} \cup InZotero \cup InCli

TypeOK ==
    /\ db \in Nat /\ conn \in Nat /\ changes \in Nat /\ commits \in Nat
    /\ tx \in {"none", "clean", "dirty"}
    /\ cache \in SUBSET Snapshot
    /\ pc \in [Proc -> PC]
    /\ floor \in [Proc -> Nat]
    /\ offer \in [Proc -> BOOLEAN]
    /\ have \in [Proc -> SUBSET Key]
    /\ key \in [Proc -> Key]
    /\ attempt \in [Proc -> Nat]
    /\ copy \in [Proc -> Nat]
    /\ doomed \in [Proc -> SUBSET Key]
    /\ seen \in [Proc -> Nat]

NoKey == [conn |-> 0, commits |-> 0, changes |-> 0]

\* The key Zotero would answer if both halves were read now.
KeyNow == [conn |-> conn, commits |-> commits, changes |-> changes]

\* The directory is empty, or holds the copy an earlier invocation left.
Init ==
    /\ db = 0 /\ conn = 0 /\ changes = 0 /\ commits = 0 /\ tx = "none"
    /\ cache \in {{}, {[key |-> NoKey, ver |-> 0]}}
    /\ pc = [p \in Proc |-> "idle"]
    /\ floor = [p \in Proc |-> 0]
    /\ offer = [p \in Proc |-> TRUE]
    /\ have = [p \in Proc |-> {}]
    /\ key = [p \in Proc |-> NoKey]
    /\ attempt = [p \in Proc |-> 0]
    /\ copy = [p \in Proc |-> 0]
    /\ doomed = [p \in Proc |-> {}]
    /\ seen = [p \in Proc |-> 0]

-----------------------------------------------------------------------------
(* Zotero, the only writer while it holds the lock.                        *)

\* A statement outside any transaction: SQLite commits it at once, Zotero's
\* commit counter does not move.
WriteAutocommit ==
    /\ tx = "none" /\ db < MaxVersion /\ changes < MaxChanges
    /\ db' = db + 1 /\ changes' = changes + 1
    /\ UNCHANGED <<conn, commits, tx, cache, pc, local>>

Begin ==
    /\ tx = "none"
    /\ tx' = "clean"
    /\ UNCHANGED <<db, conn, changes, commits, cache, pc, local>>

\* total_changes() counts a row when it changes, not when it is committed.
ChangeRow ==
    /\ tx # "none" /\ changes < MaxChanges
    /\ tx' = "dirty" /\ changes' = changes + 1
    /\ UNCHANGED <<db, conn, commits, cache, pc, local>>

Commit ==
    /\ tx # "none" /\ commits < MaxCommits
    /\ tx = "dirty" => db < MaxVersion
    /\ db' = IF tx = "dirty" THEN db + 1 ELSE db
    /\ commits' = commits + 1 /\ tx' = "none"
    /\ UNCHANGED <<conn, changes, cache, pc, local>>

\* total_changes() keeps the rows a rollback undid.
Rollback ==
    /\ tx # "none"
    /\ tx' = "none"
    /\ UNCHANGED <<db, conn, changes, commits, cache, pc, local>>

\* Zotero restarts: a new connection with a new token and new counters; an
\* open transaction is lost, and so is every request running inside it.
Restart ==
    /\ conn < MaxConn
    /\ conn' = conn + 1 /\ changes' = 0 /\ commits' = 0 /\ tx' = "none"
    /\ pc' = [p \in Proc |-> IF pc[p] \in InZotero THEN "refused" ELSE pc[p]]
    /\ UNCHANGED <<db, cache, local>>

-----------------------------------------------------------------------------
(* connect and resolve, up to sending the request.                         *)

Goto(p, l) == pc' = [pc EXCEPT ![p] = l]

\* The first read of an invocation finds the database locked.
Ask(p) ==
    /\ pc[p] = "idle"
    /\ Goto(p, "scan")
    /\ floor' = [floor EXCEPT ![p] = db]
    /\ offer' = [offer EXCEPT ![p] = TRUE]
    /\ UNCHANGED <<zotero, cache, have, key, attempt, copy, doomed, seen>>

CachedKeys == {s.key : s \in cache}

\* cached_keys, and the request that carries them.
Request(p) ==
    /\ pc[p] = "scan"
    /\ have' = [have EXCEPT ![p] = IF offer[p] THEN CachedKeys ELSE {}]
    /\ Goto(p, "count1")
    /\ UNCHANGED <<zotero, cache, floor, offer, key, attempt, copy, doomed, seen>>

\* The locked-database refusal; what the request held is dropped.
Refuse(p) ==
    /\ Goto(p, "refused")
    /\ have' = [have EXCEPT ![p] = {}]
    /\ key' = [key EXCEPT ![p] = NoKey]
    /\ attempt' = [attempt EXCEPT ![p] = 0]
    /\ UNCHANGED <<zotero, cache, floor, offer, copy, doomed, seen>>

-----------------------------------------------------------------------------
(* T_SNAPSHOT inside Zotero.  currentKey awaits total_changes() and only   *)
(* then reads the connection's token and the commit counter.               *)

ReadChanges(p) ==
    /\ \/ pc[p] = "count1" /\ Goto(p, "key1")
       \/ pc[p] = "count2" /\ Goto(p, "key2")
    /\ key' = [key EXCEPT ![p].changes = changes]
    /\ UNCHANGED <<zotero, cache, floor, offer, have, attempt, copy, doomed, seen>>

\* Mutant: a key without the connection's token.
CurrentKeyNoToken(p) == [conn |-> 0, commits |-> commits, changes |-> key[p].changes]

\* The key completed with the token and the commit counter of this moment.
CurrentKey(p) == [conn |-> conn, commits |-> commits, changes |-> key[p].changes]

\* The check against the offered keys.
OfferedKeyIsCurrent(p) ==
    /\ pc[p] = "key1"
    /\ CurrentKey(p) \in have[p]
    /\ key' = [key EXCEPT ![p] = CurrentKey(p)]
    /\ Goto(p, "reused")
    /\ UNCHANGED <<zotero, cache, floor, offer, have, attempt, copy, doomed, seen>>

NoOfferedKeyIsCurrent(p) ==
    /\ pc[p] = "key1"
    /\ CurrentKey(p) \notin have[p]
    /\ key' = [key EXCEPT ![p] = NoKey]
    /\ have' = [have EXCEPT ![p] = {}]
    /\ Goto(p, "loop")
    /\ UNCHANGED <<zotero, cache, floor, offer, attempt, copy, doomed, seen>>

\* Head of the attempt loop: an open transaction is waited for.
AwaitTransaction(p) ==
    /\ pc[p] = "loop"
    /\ tx = "none"
    /\ Goto(p, "count2")
    /\ UNCHANGED <<zotero, cache, local>>

\* The key is read again, before the copy.
ReadKeyForCopy(p) ==
    /\ pc[p] = "key2"
    /\ key' = [key EXCEPT ![p] = CurrentKey(p)]
    /\ Goto(p, "vacuum")
    /\ UNCHANGED <<zotero, cache, floor, offer, have, attempt, copy, doomed, seen>>

\* VACUUM INTO sees every commit, and cannot run inside a transaction.
Vacuum(p) ==
    /\ pc[p] = "vacuum"
    /\ tx = "none"
    /\ copy' = [copy EXCEPT ![p] = db]
    /\ attempt' = [attempt EXCEPT ![p] = 0]
    /\ Goto(p, "copied")
    /\ UNCHANGED <<zotero, cache, floor, offer, have, key, doomed, seen>>

\* Mutant: attempts that are not counted.
VacuumRetriedForever(p) ==
    /\ pc[p] = "vacuum"
    /\ tx # "none"
    /\ key' = [key EXCEPT ![p] = NoKey]
    /\ Goto(p, "loop")
    /\ UNCHANGED <<zotero, cache, floor, offer, have, attempt, copy, doomed, seen>>

VacuumRetried(p) ==
    /\ pc[p] = "vacuum"
    /\ tx # "none"
    /\ attempt[p] + 1 < Attempts
    /\ attempt' = [attempt EXCEPT ![p] = @ + 1]
    /\ key' = [key EXCEPT ![p] = NoKey]
    /\ Goto(p, "loop")
    /\ UNCHANGED <<zotero, cache, floor, offer, have, copy, doomed, seen>>

VacuumGivesUp(p) ==
    /\ pc[p] = "vacuum"
    /\ tx # "none"
    /\ attempt[p] + 1 >= Attempts
    /\ Refuse(p)

\* The Bridge stops answering or the 60-second request times out.
RequestFails(p) ==
    /\ pc[p] \in InZotero
    /\ Refuse(p)

-----------------------------------------------------------------------------
(* accept, prune and the open.                                             *)

Cached(k) == \E s \in cache : s.key = k

\* A reused copy must still be there.
AcceptReused(p) ==
    /\ pc[p] = "reused"
    /\ Cached(key[p])
    /\ Goto(p, "open")
    /\ UNCHANGED <<zotero, cache, local>>

\* If it is not, Zotero is asked once more and offered no key.
ReusedVanished(p) ==
    /\ pc[p] = "reused"
    /\ ~Cached(key[p])
    /\ offer[p]
    /\ offer' = [offer EXCEPT ![p] = FALSE]
    /\ Goto(p, "scan")
    /\ UNCHANGED <<zotero, cache, floor, have, key, attempt, copy, doomed, seen>>

\* Mutant: the copy named by the key of the moment it is taken in, not by the
\* key read before it was made.
AcceptCopyRekeyed(p) ==
    /\ pc[p] = "copied"
    /\ cache' = {s \in cache : s.key # KeyNow} \cup {[key |-> KeyNow, ver |-> copy[p]]}
    /\ copy' = [copy EXCEPT ![p] = 0]
    /\ key' = [key EXCEPT ![p] = KeyNow]
    /\ Goto(p, "list")
    /\ UNCHANGED <<zotero, floor, offer, have, attempt, doomed, seen>>

\* rename(incoming, snapshot-KEY) replaces a copy of the same name.
AcceptCopy(p) ==
    /\ pc[p] = "copied"
    /\ cache' = {s \in cache : s.key # key[p]} \cup {[key |-> key[p], ver |-> copy[p]]}
    /\ copy' = [copy EXCEPT ![p] = 0]
    /\ Goto(p, "list")
    /\ UNCHANGED <<zotero, floor, offer, have, key, attempt, doomed, seen>>

\* Mutant: the listing kept as files where their keys are expected.
ListForPruneFiles(p) ==
    /\ pc[p] = "list"
    /\ doomed' = [doomed EXCEPT ![p] = cache]
    /\ Goto(p, "prune")
    /\ UNCHANGED <<zotero, cache, floor, offer, have, key, attempt, copy, seen>>

ListForPrune(p) ==
    /\ pc[p] = "list"
    /\ doomed' = [doomed EXCEPT ![p] = CachedKeys \ {key[p]}]
    /\ Goto(p, "prune")
    /\ UNCHANGED <<zotero, cache, floor, offer, have, key, attempt, copy, seen>>

PruneOne(p) ==
    /\ pc[p] = "prune"
    /\ \E k \in doomed[p] :
         /\ cache' = {s \in cache : s.key # k}
         /\ doomed' = [doomed EXCEPT ![p] = @ \ {k}]
    /\ UNCHANGED <<zotero, pc, floor, offer, have, key, attempt, copy, seen>>

PruneDone(p) ==
    /\ pc[p] = "prune"
    /\ doomed[p] = {}
    /\ Goto(p, "open")
    /\ UNCHANGED <<zotero, cache, local>>

\* Mutant: any copy in the directory is good enough to open.
OpenAny(p) ==
    /\ pc[p] \in {"open", "held"}
    /\ \E s \in cache : seen' = [seen EXCEPT ![p] = s.ver]
    /\ Goto(p, "held")
    /\ UNCHANGED <<zotero, cache, floor, offer, have, key, attempt, copy, doomed>>

\* Opening the copy; a later read of the same invocation opens the path it
\* remembers (BUILT) without asking Zotero again.
Open(p) ==
    /\ pc[p] \in {"open", "held"}
    /\ \E s \in cache : s.key = key[p] /\ seen' = [seen EXCEPT ![p] = s.ver]
    /\ Goto(p, "held")
    /\ UNCHANGED <<zotero, cache, floor, offer, have, key, attempt, copy, doomed>>

\* A copy pruned since: the open fails, and so does every later read, which
\* finds the lock held and the same remembered path.
OpenFails(p) ==
    /\ pc[p] \in {"open", "held"}
    /\ ~Cached(key[p])
    /\ Refuse(p)

\* The invocation ends, or is killed anywhere: its files stay as they are,
\* what it held in memory is gone.
Exit(p) ==
    /\ pc[p] \notin {"idle", "gone"}
    /\ Goto(p, "gone")
    /\ floor' = [floor EXCEPT ![p] = 0]
    /\ offer' = [offer EXCEPT ![p] = TRUE]
    /\ have' = [have EXCEPT ![p] = {}]
    /\ key' = [key EXCEPT ![p] = NoKey]
    /\ attempt' = [attempt EXCEPT ![p] = 0]
    /\ copy' = [copy EXCEPT ![p] = 0]
    /\ doomed' = [doomed EXCEPT ![p] = {}]
    /\ seen' = [seen EXCEPT ![p] = 0]
    /\ UNCHANGED <<zotero, cache>>

-----------------------------------------------------------------------------

Zotero == WriteAutocommit \/ Begin \/ ChangeRow \/ Commit \/ Rollback \/ Restart

Template(p) ==
    \/ ReadChanges(p) \/ OfferedKeyIsCurrent(p) \/ NoOfferedKeyIsCurrent(p)
    \/ AwaitTransaction(p) \/ ReadKeyForCopy(p)
    \/ Vacuum(p) \/ VacuumRetried(p) \/ VacuumGivesUp(p)

Cli(p) ==
    \/ Request(p) \/ AcceptReused(p) \/ ReusedVanished(p)
    \/ AcceptCopy(p) \/ ListForPrune(p)
    \/ PruneOne(p) \/ PruneDone(p) \/ Open(p) \/ OpenFails(p)

Next ==
    \/ Zotero
    \/ \E p \in Proc : Ask(p) \/ Template(p) \/ RequestFails(p) \/ Cli(p) \/ Exit(p)

Spec == Init /\ [][Next]_vars

(***************************************************************************)
(* Fairness: Zotero's event loop runs every awaiting template, the CLI     *)
(* runs until it has its answer, and a transaction ends.  A template that  *)
(* waits for a transaction is woken by its end whatever starts next, which *)
(* is strong fairness of AwaitTransaction.                                 *)
(***************************************************************************)
Fairness ==
    /\ WF_vars(Commit \/ Rollback)
    /\ \A p \in Proc :
         /\ WF_vars(Template(p) \/ (pc[p] # "held" /\ Cli(p)))
         /\ SF_vars(AwaitTransaction(p))

FairSpec == Spec /\ Fairness

-----------------------------------------------------------------------------
(* What is checked.                                                        *)

\* "Never stale": whatever an invocation reads, at its first read or at a
\* later one from the remembered path, holds every commit made before it
\* asked -- although other processes replace and prune the copies, and
\* although the key is read in two steps with Zotero writing in between.
NeverStale ==
    \A p \in Proc : pc[p] = "held" => seen[p] \in floor[p]..db

\* "An unchanged key means an unchanged database": a cached copy named by
\* the key Zotero would answer now holds exactly what is committed now.
KeyNamesContent ==
    \A s \in cache : s.key = KeyNow => s.ver = db

\* An invocation that asked is answered or refused: no wait on Zotero's
\* transactions and no loop over vanished copies is endless.
EventuallyAnswered ==
    \A p \in Proc : pc[p] = "scan" ~> pc[p] \in {"held", "refused", "gone"}

\* The refinement: LiveSnapshot implements LiveRead.
Phase ==
    [p \in Proc |->
        CASE pc[p] = "held" -> "read"
          [] pc[p] \in InZotero \cup InCli -> "asking"
          [] OTHER -> pc[p]]

Abstract == INSTANCE LiveRead WITH phase <- Phase

ImplementsLiveRead == Abstract!Spec
=============================================================================
