-------------------------- MODULE CredentialStore --------------------------
(***************************************************************************)
(* The Local API credentials (credentials.rs) and who uses them            *)
(* (write_router.rs): a write command resolves a key, sends it, and drops  *)
(* the stored one Zotero rejected; `app authorize-local-api` asks for      *)
(* consent and stores the key it gets.  Both change the file by reading    *)
(* it, changing one entry, and renaming a new file over it; nothing locks  *)
(* the file in between.                                                    *)
(*                                                                         *)
(* A missing or empty file is a store without entries.  Keys are numbered  *)
(* in the order they are issued.                                           *)
(***************************************************************************)
EXTENDS Naturals, Sequences

CONSTANTS
    Proc,            \* concurrent CLI invocations
    Server,          \* the Zotero-Server-IDs they meet
    MaxKeys          \* bound: keys issued

ASSUME KeysAssump == MaxKeys \in Nat

VARIABLES
    \* Zotero
    issuedTo,        \* issuedTo[k]: the server that issued key k
    live,            \* the keys that are accepted
    \* local_api_credentials.json
    malformed,       \* it exists and cannot be read, or has another version
    stored,          \* stored[s]: the key of server s, or NoKey
    replaced,        \* how often it was replaced
    \* each invocation
    job, server,     \* write or authorize; the server of its probe
    env,             \* ZOTERO_LOCAL_API_KEY, or NoKey
    pc,
    cred, source,    \* its credential, and where it came from
    since,           \* `replaced` when it last read the file
    draft,           \* the entries it is about to write
    outcome

zotero == <<issuedTo, live>>
file == <<malformed, stored, replaced>>
args == <<job, server, env>>
vars == <<issuedTo, live, malformed, stored, replaced,
          job, server, env, pc, cred, source, since, draft, outcome>>

NoKey == 0
Key == 1..MaxKeys
Issued == DOMAIN issuedTo
Entries == [Server -> Key \cup {NoKey}]

PC == {"idle", "sent", "revoked", "consent", "keep", "replace", "done"}
Outcome == {"none", "applied", "required", "revoked", "denied", "unknown", "error"}

TypeOK ==
    /\ issuedTo \in Seq(Server) /\ Len(issuedTo) <= MaxKeys
    /\ live \subseteq Issued
    /\ malformed \in BOOLEAN
    /\ stored \in Entries
    /\ replaced \in Nat
    /\ job \in [Proc -> {"write", "authorize"}]
    /\ server \in [Proc -> Server]
    /\ env \in [Proc -> Key \cup {NoKey}]
    /\ pc \in [Proc -> PC]
    /\ cred \in [Proc -> Key \cup {NoKey}]
    /\ source \in [Proc -> {"none", "environment", "store"}]
    /\ since \in [Proc -> Nat]
    /\ draft \in [Proc -> Entries]
    /\ outcome \in [Proc -> Outcome]

\* Some keys were issued before, are stored under their server or given in
\* the environment, and may have been revoked since.
Init ==
    /\ issuedTo \in UNION {[1..n -> Server] : n \in 0..MaxKeys}
    /\ live \in SUBSET Issued
    /\ malformed \in BOOLEAN
    /\ stored \in Entries
    /\ \A s \in Server : stored[s] # NoKey => stored[s] \in Issued /\ issuedTo[stored[s]] = s
    /\ replaced = 0
    /\ job \in [Proc -> {"write", "authorize"}]
    /\ server \in [Proc -> Server]
    /\ env \in [Proc -> Issued \cup {NoKey}]
    /\ pc = [p \in Proc |-> "idle"]
    /\ cred = [p \in Proc |-> NoKey]
    /\ source = [p \in Proc |-> "none"]
    /\ since = [p \in Proc |-> 0]
    /\ draft = [p \in Proc |-> [s \in Server |-> NoKey]]
    /\ outcome = [p \in Proc |-> "none"]

\* The user withdraws a key, or one not to be remembered expires.
Revoke(k) ==
    /\ k \in live
    /\ live' = live \ {k}
    /\ UNCHANGED <<issuedTo, file, args, pc, cred, source, since, draft, outcome>>

-----------------------------------------------------------------------------

Goto(p, l) == pc' = [pc EXCEPT ![p] = l] /\ UNCHANGED <<zotero, args>>

Report(p, o) ==
    /\ Goto(p, "done")
    /\ outcome' = [outcome EXCEPT ![p] = o]
    /\ UNCHANGED <<file, cred, source, since, draft>>

\* Mutant: the store's entries not scoped to the server.
ResolveAnyServer(p) ==
    /\ pc[p] = "idle" /\ job[p] = "write"
    /\ env[p] = NoKey /\ ~malformed
    /\ \E s \in Server : stored[s] # NoKey /\ cred' = [cred EXCEPT ![p] = stored[s]]
    /\ source' = [source EXCEPT ![p] = "store"]
    /\ since' = [since EXCEPT ![p] = replaced]
    /\ Goto(p, "sent")
    /\ UNCHANGED <<file, draft, outcome>>

\* resolve_credential: the environment, then the file's entry for this
\* server; a malformed file counts as one without entries.
Resolve(p) ==
    /\ pc[p] = "idle" /\ job[p] = "write"
    /\ LET fromStore == IF malformed THEN NoKey ELSE stored[server[p]]
           key == IF env[p] # NoKey THEN env[p] ELSE fromStore
       IN  /\ key # NoKey
           /\ cred' = [cred EXCEPT ![p] = key]
           /\ source' = [source EXCEPT ![p] = IF env[p] # NoKey THEN "environment" ELSE "store"]
    /\ since' = [since EXCEPT ![p] = replaced]
    /\ Goto(p, "sent")
    /\ UNCHANGED <<file, draft, outcome>>

NoCredential(p) ==
    /\ pc[p] = "idle" /\ job[p] = "write"
    /\ env[p] = NoKey /\ (malformed \/ stored[server[p]] = NoKey)
    /\ Report(p, "required")

\* Zotero accepts a live key of its own.
Accepted(p) ==
    /\ pc[p] = "sent"
    /\ cred[p] \in live /\ issuedTo[cred[p]] = server[p]
    /\ Report(p, "applied")

\* 401 with "Invalid or expired API key".
Revoked(p) ==
    /\ pc[p] = "sent"
    /\ ~(cred[p] \in live /\ issuedTo[cred[p]] = server[p])
    /\ Goto(p, "revoked")
    /\ UNCHANGED <<file, cred, source, since, draft, outcome>>

\* Any other refusal, or no answer.
NotAnswered(p) ==
    /\ pc[p] = "sent"
    /\ Report(p, "unknown")

\* Mutant: whatever was rejected, the stored key is dropped.
InvalidateAnySource(p) ==
    /\ pc[p] = "revoked"
    /\ ~malformed /\ stored[server[p]] # NoKey
    /\ draft' = [draft EXCEPT ![p] = [stored EXCEPT ![server[p]] = NoKey]]
    /\ Goto(p, "replace")
    /\ UNCHANGED <<file, cred, source, since, outcome>>

\* Mutant: the server's entry cut out of the table, not marked as absent.
InvalidateCutsOut(p) ==
    /\ pc[p] = "revoked" /\ source[p] = "store"
    /\ ~malformed /\ stored[server[p]] # NoKey
    /\ draft' = [draft EXCEPT ![p] = [s \in Server \ {server[p]} |-> stored[s]]]
    /\ Goto(p, "replace")
    /\ UNCHANGED <<file, cred, source, since, outcome>>

\* invalidate_if_store_revoked: the file is read again and this server's
\* entry removed, whatever it is by now.
Invalidate(p) ==
    /\ pc[p] = "revoked" /\ source[p] = "store"
    /\ ~malformed /\ stored[server[p]] # NoKey
    /\ draft' = [draft EXCEPT ![p] = [stored EXCEPT ![server[p]] = NoKey]]
    /\ Goto(p, "replace")
    /\ UNCHANGED <<file, cred, source, since, outcome>>

\* Nothing to remove, a malformed file, or a key that is the operator's.
NothingToInvalidate(p) ==
    /\ pc[p] = "revoked"
    /\ source[p] # "store" \/ malformed \/ stored[server[p]] = NoKey
    /\ Report(p, "revoked")

\* authorize_interactive: Zotero asks its user.
Authorize(p) ==
    /\ pc[p] = "idle" /\ job[p] = "authorize"
    /\ Goto(p, "consent")
    /\ UNCHANGED <<file, cred, source, since, draft, outcome>>

Issue(s) ==
    /\ Len(issuedTo) < MaxKeys
    /\ issuedTo' = Append(issuedTo, s)
    /\ live' = live \cup {Len(issuedTo')}

Consent(p) ==
    /\ pc[p] = "consent"
    /\ Issue(server[p])
    /\ cred' = [cred EXCEPT ![p] = Len(issuedTo')]
    /\ pc' = [pc EXCEPT ![p] = "keep"]
    /\ UNCHANGED <<file, args, source, since, draft, outcome>>

\* The user consents after the 120 seconds are over: the key is issued and
\* nobody has it.
ConsentTooLate(p) ==
    /\ pc[p] = "consent"
    /\ Issue(server[p])
    /\ pc' = [pc EXCEPT ![p] = "done"]
    /\ outcome' = [outcome EXCEPT ![p] = "unknown"]
    /\ UNCHANGED <<file, args, cred, source, since, draft>>

Deny(p) ==
    /\ pc[p] = "consent"
    /\ Report(p, "denied")

\* store_credential: the file read, and this server's entry set.
Keep(p) ==
    /\ pc[p] = "keep"
    /\ ~malformed
    /\ draft' = [draft EXCEPT ![p] = [stored EXCEPT ![server[p]] = cred[p]]]
    /\ since' = [since EXCEPT ![p] = replaced]
    /\ Goto(p, "replace")
    /\ UNCHANGED <<file, cred, source, outcome>>

\* A malformed file is not overwritten: the new key is lost.
KeepFails(p) ==
    /\ pc[p] = "keep"
    /\ malformed
    /\ Report(p, "error")

\* atomic_replace: a new file, renamed over the old one.
Replace(p) ==
    /\ pc[p] = "replace"
    /\ stored' = draft[p] /\ malformed' = FALSE
    /\ replaced' = replaced + 1
    /\ Goto(p, "done")
    /\ outcome' = [outcome EXCEPT ![p] = IF job[p] = "write" THEN "revoked" ELSE "applied"]
    /\ UNCHANGED <<cred, source, since, draft>>

\* The new file cannot be written; an invalidation that fails is ignored.
ReplaceFails(p) ==
    /\ pc[p] = "replace"
    /\ Report(p, IF job[p] = "write" THEN "revoked" ELSE "error")

\* Killed; a temporary file may stay behind that nobody reads.
Exit(p) ==
    /\ pc[p] \notin {"idle", "done"}
    /\ Report(p, "none")

Next ==
    \/ \E k \in Key : Revoke(k)
    \/ \E p \in Proc :
         \/ Resolve(p) \/ NoCredential(p) \/ Accepted(p) \/ Revoked(p) \/ NotAnswered(p)
         \/ Invalidate(p) \/ NothingToInvalidate(p)
         \/ Authorize(p) \/ Consent(p) \/ ConsentTooLate(p) \/ Deny(p)
         \/ Keep(p) \/ KeepFails(p) \/ Replace(p) \/ ReplaceFails(p) \/ Exit(p)

Spec == Init /\ [][Next]_vars

-----------------------------------------------------------------------------
(* What is checked.                                                        *)

\* "Fails closed": a file that cannot be read is never replaced, and none
\* that can becomes unreadable -- whatever is killed and however the
\* replacements interleave.
MalformedIsKept == [][malformed' = malformed]_vars

\* A key only ever leaves for the server that issued it, unless the operator
\* put it in the environment: entries never move between servers, whichever
\* stale entries are written back.
KeysStayWithTheirServer ==
    /\ \A s \in Server : stored[s] # NoKey => issuedTo[stored[s]] = s
    /\ \A p \in Proc : source[p] = "store" => issuedTo[cred[p]] = server[p]

\* Nobody else replaced the file since p last took its entry from it.
Alone(p) == replaced = since[p]

\* A key Zotero still accepts leaves the store only when an authorization
\* replaces it, or because two invocations replaced the file at once: but
\* for such a race a rejection costs no key other than the rejected one.
AcceptedKeysAreKept ==
    [][\A p \in Proc : pc[p] = "replace" /\ stored' # stored /\ pc'[p] = "done" /\ Alone(p)
          => \A s \in Server :
               stored[s] \in live /\ stored'[s] # stored[s]
                 => s = server[p] /\ job[p] = "authorize"]_vars
=============================================================================
