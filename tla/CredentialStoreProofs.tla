----------------------- MODULE CredentialStoreProofs -----------------------
(***************************************************************************)
(* The credential file for any number of invocations, servers and keys:    *)
(* it fails closed, its entries stay with their servers, and only races    *)
(* between two replacements can lose a key that is still accepted.         *)
(***************************************************************************)
EXTENDS CredentialStore, TLAPS

\* Entries that are each a key issued by their own server.
Sound(e) == \A s \in Server : e[s] # NoKey => e[s] \in Issued /\ issuedTo[e[s]] = s

\* What an invocation holds was issued by its server, and is fit to be kept.
HoldsSound(p) ==
    /\ source[p] = "store" \/ pc[p] = "keep" =>
         cred[p] \in Issued /\ issuedTo[cred[p]] = server[p]
    /\ pc[p] = "replace" => Sound(draft[p]) /\ ~malformed

\* A write that Zotero turned away from the store holds a key that is no
\* longer accepted; while the file is as it read it, its entry is that key
\* and its draft differs from the file in that entry only.
FollowsFile(p) ==
    /\ since[p] <= replaced
    /\ pc[p] \in {"sent", "revoked", "replace"} /\ job[p] = "write" /\ source[p] = "store"
         => /\ Alone(p) => stored[server[p]] = cred[p]
            /\ pc[p] # "sent" => cred[p] \notin live
    /\ pc[p] \in {"consent", "keep"} => job[p] = "authorize"
    /\ pc[p] \in {"sent", "revoked"} => job[p] = "write"
    /\ job[p] = "authorize" => source[p] # "store"
    /\ pc[p] = "replace" =>
         /\ job[p] = "write" => source[p] = "store"
         /\ Alone(p) => \A s \in Server \ {server[p]} : draft[p][s] = stored[s]

IInv ==
    /\ TypeOK
    /\ Sound(stored)
    /\ \A p \in Proc : HoldsSound(p) /\ FollowsFile(p)

USE DEF NoKey, Key, Issued

LEMMA TypeInit == Init => TypeOK
<1> SUFFICES ASSUME Init PROVE TypeOK
  OBVIOUS
<1>1. issuedTo \in Seq(Server) /\ Len(issuedTo) <= MaxKeys /\ DOMAIN issuedTo = 1..Len(issuedTo)
  <2>1. PICK n \in 0..MaxKeys : issuedTo \in [1..n -> Server]
    BY DEF Init
  <2> QED
    BY <2>1, KeysAssump
<1>2. Issued \subseteq Key
  BY <1>1, KeysAssump
<1> QED
  BY <1>1, <1>2 DEF Init, TypeOK, Entries, PC, Outcome

\* The steps that end an invocation without touching the file.
LEMMA ReportsOutcome ==
    ASSUME NEW p,
           \/ NoCredential(p) \/ Accepted(p) \/ NotAnswered(p) \/ NothingToInvalidate(p)
           \/ Deny(p) \/ KeepFails(p) \/ ReplaceFails(p) \/ Exit(p)
    PROVE  \E o \in Outcome : Report(p, o)
<1>1. CASE ReplaceFails(p)
  BY <1>1 DEF ReplaceFails, Outcome
<1>2. CASE ~ReplaceFails(p)
  <2>1. \/ Report(p, "required") \/ Report(p, "applied") \/ Report(p, "unknown")
        \/ Report(p, "revoked") \/ Report(p, "denied") \/ Report(p, "error")
        \/ Report(p, "none")
    BY <1>2 DEF NoCredential, Accepted, NotAnswered, NothingToInvalidate, Deny, KeepFails, Exit
  <2> QED
    BY <2>1 DEF Outcome
<1> QED
  BY <1>1, <1>2

LEMMA TypeStep == TypeOK /\ [Next]_vars => TypeOK'
<1> SUFFICES ASSUME TypeOK, [Next]_vars PROVE TypeOK'
  OBVIOUS
<1>0. /\ issuedTo \in Seq(Server) /\ Issued = 1..Len(issuedTo) /\ Issued \subseteq Key
      /\ NoKey \notin Key
  BY KeysAssump DEF TypeOK
<1>1. ASSUME NEW k \in Key, Revoke(k) PROVE TypeOK'
  BY <1>1 DEF Revoke, TypeOK, file, args
<1>2. ASSUME NEW p \in Proc, NEW o \in Outcome, Report(p, o) PROVE TypeOK'
  BY <1>2 DEF Report, Goto, TypeOK, PC, file, args, zotero
<1>3. ASSUME NEW p \in Proc, Resolve(p) PROVE TypeOK'
  <2>1. cred' \in [Proc -> Key \cup {NoKey}]
    BY <1>3 DEF Resolve, TypeOK, Entries
  <2>2. source' \in [Proc -> {"none", "environment", "store"}]
    BY <1>3 DEF Resolve, TypeOK
  <2> QED
    BY <1>3, <2>1, <2>2 DEF Resolve, Goto, TypeOK, PC, file, args, zotero
<1>4. ASSUME NEW p \in Proc, Revoked(p) \/ Authorize(p) PROVE TypeOK'
  BY <1>4 DEF Revoked, Authorize, Goto, TypeOK, PC, file, args, zotero
<1>5. ASSUME NEW p \in Proc, Invalidate(p) \/ Keep(p) PROVE TypeOK'
  <2>1. draft' \in [Proc -> Entries]
    <3>1. \A k \in Key \cup {NoKey} : [stored EXCEPT ![server[p]] = k] \in Entries
      BY <1>0 DEF TypeOK, Entries
    <3>2. \E k \in Key \cup {NoKey} :
            draft' = [draft EXCEPT ![p] = [stored EXCEPT ![server[p]] = k]]
      BY <1>5 DEF Invalidate, Keep, TypeOK
    <3> QED
      BY <3>1, <3>2 DEF TypeOK
  <2>2. since' \in [Proc -> Nat]
    BY <1>5 DEF Invalidate, Keep, TypeOK
  <2> QED
    BY <1>5, <2>1, <2>2 DEF Invalidate, Keep, Goto, TypeOK, PC, file, args, zotero
<1>6. ASSUME NEW p \in Proc, Consent(p) \/ ConsentTooLate(p) PROVE TypeOK'
  <2>1. /\ issuedTo' = Append(issuedTo, server[p]) /\ Len(issuedTo) < MaxKeys
        /\ live' = live \cup {Len(issuedTo')}
    BY <1>6 DEF Consent, ConsentTooLate, Issue
  <2>2. /\ issuedTo' \in Seq(Server) /\ Len(issuedTo') = Len(issuedTo) + 1
        /\ Issued' = 1..(Len(issuedTo) + 1) /\ Len(issuedTo') \in Key
    BY <1>0, <2>1, KeysAssump DEF TypeOK
  <2>3. live' \subseteq Issued' /\ Len(issuedTo') <= MaxKeys
    BY <1>0, <2>1, <2>2, KeysAssump DEF TypeOK
  <2> QED
    BY <1>6, <2>2, <2>3 DEF Consent, ConsentTooLate, TypeOK, PC, Outcome, file, args
<1>7. ASSUME NEW p \in Proc, Replace(p) PROVE TypeOK'
  <2>1. stored' \in Entries /\ malformed' \in BOOLEAN /\ replaced' \in Nat
    <3>1. stored' = draft[p] /\ malformed' = FALSE /\ replaced' = replaced + 1
      BY <1>7 DEF Replace
    <3>2. malformed' \in BOOLEAN
      BY <3>1
    <3>3. stored' \in Entries /\ replaced' \in Nat
      BY <3>1 DEF TypeOK
    <3> QED
      BY <3>2, <3>3
  <2>2. outcome' \in [Proc -> Outcome]
    BY <1>7 DEF Replace, TypeOK, Outcome
  <2> QED
    BY <1>7, <2>1, <2>2 DEF Replace, Goto, TypeOK, PC, args, zotero
<1>8. CASE UNCHANGED vars
  BY <1>8 DEF vars, TypeOK
<1>9. ASSUME NEW p \in Proc,
             \/ NoCredential(p) \/ Accepted(p) \/ NotAnswered(p) \/ NothingToInvalidate(p)
             \/ Deny(p) \/ KeepFails(p) \/ ReplaceFails(p) \/ Exit(p)
      PROVE  TypeOK'
  <2>1. \E o \in Outcome : Report(p, o)
    BY <1>9, ReportsOutcome
  <2> QED
    BY <1>2, <2>1
<1> QED
  BY <1>1, <1>3, <1>4, <1>5, <1>6, <1>7, <1>8, <1>9 DEF Next

\* Every variable of the credential store keeps its type.
THEOREM TypeCorrect == Spec => []TypeOK
  BY TypeInit, TypeStep, PTL DEF Spec

-----------------------------------------------------------------------------

LEMMA InvInit == Init => IInv
<1> SUFFICES ASSUME Init PROVE IInv
  OBVIOUS
<1>1. TypeOK
  BY TypeInit
<1>2. Sound(stored)
  BY DEF Init, Sound
<1>3. ASSUME NEW p \in Proc PROVE HoldsSound(p) /\ FollowsFile(p)
  BY <1>3 DEF Init, HoldsSound, FollowsFile
<1> QED
  BY <1>1, <1>2, <1>3 DEF IInv

\* Keys are only ever added: what was sound stays sound.
LEMMA SoundGrows ==
    ASSUME TypeOK, NEW s \in Server, issuedTo' = Append(issuedTo, s)
    PROVE  /\ Issued \subseteq Issued'
           /\ \A k \in Issued : issuedTo'[k] = issuedTo[k]
           /\ Len(issuedTo') \in Issued' /\ issuedTo'[Len(issuedTo')] = s
           /\ Len(issuedTo') \notin Issued
  BY DEF TypeOK

LEMMA InvStep == IInv /\ [Next]_vars => IInv'
<1> SUFFICES ASSUME IInv, [Next]_vars PROVE IInv'
  OBVIOUS
<1>0. TypeOK /\ TypeOK' /\ Sound(stored)
  BY TypeStep DEF IInv
<1> DEFINE Holds(q) == HoldsSound(q) /\ FollowsFile(q)
<1>a. \A q \in Proc : Holds(q)
  BY DEF IInv
<1>1. ASSUME NEW k \in Key, Revoke(k) PROVE IInv'
  <2>1. UNCHANGED <<issuedTo, malformed, stored, replaced, job, server, pc, cred, source, since, draft>>
        /\ live' \subseteq live
    BY <1>1 DEF Revoke, file, args
  <2>2. Sound(stored)'
    BY <1>0, <2>1 DEF Sound
  <2>3. ASSUME NEW q \in Proc PROVE Holds(q)'
    BY <1>a, <2>1, <2>3 DEF HoldsSound, FollowsFile, Sound, Alone
  <2> QED
    BY <1>0, <2>2, <2>3 DEF IInv
<1>2. ASSUME NEW p \in Proc, NEW o \in Outcome, Report(p, o) PROVE IInv'
  <2>1. /\ UNCHANGED <<issuedTo, live, malformed, stored, replaced, job, server, cred, source, since, draft>>
        /\ pc' = [pc EXCEPT ![p] = "done"]
    BY <1>2 DEF Report, Goto, file, args, zotero
  <2>2. Sound(stored)'
    BY <1>0, <2>1 DEF Sound
  <2>3. ASSUME NEW q \in Proc PROVE Holds(q)'
    BY <1>0, <1>a, <2>1, <2>3 DEF HoldsSound, FollowsFile, Sound, Alone, TypeOK
  <2> QED
    BY <1>0, <2>2, <2>3 DEF IInv
<1>3. ASSUME NEW p \in Proc, Resolve(p) PROVE IInv'
  <2>1. /\ UNCHANGED <<issuedTo, live, malformed, stored, replaced, job, server, draft>>
        /\ pc' = [pc EXCEPT ![p] = "sent"] /\ job[p] = "write"
        /\ since' = [since EXCEPT ![p] = replaced]
    BY <1>3 DEF Resolve, Goto, file, args, zotero
  <2>2. Sound(stored)'
    BY <1>0, <2>1 DEF Sound
  <2>3. ASSUME NEW q \in Proc \ {p} PROVE Holds(q)'
    <3>1. cred'[q] = cred[q] /\ source'[q] = source[q]
      BY <1>0, <1>3 DEF Resolve, TypeOK
    <3> QED
      BY <1>0, <1>a, <2>1, <2>3, <3>1 DEF HoldsSound, FollowsFile, Sound, Alone, TypeOK
  <2>4. Holds(p)'
    <3>1. source'[p] = "store" => cred'[p] = stored[server[p]] /\ cred'[p] # NoKey
      BY <1>0, <1>3 DEF Resolve, TypeOK
    <3>2. server[p] \in Server
      BY <1>0 DEF TypeOK
    <3> QED
      BY <1>0, <2>1, <3>1, <3>2 DEF HoldsSound, FollowsFile, Sound, Alone, TypeOK
  <2> QED
    BY <1>0, <2>2, <2>3, <2>4 DEF IInv
<1>4. ASSUME NEW p \in Proc, Revoked(p) PROVE IInv'
  <2>1. /\ UNCHANGED <<issuedTo, live, malformed, stored, replaced, job, server, cred, source, since, draft>>
        /\ pc' = [pc EXCEPT ![p] = "revoked"] /\ pc[p] = "sent"
        /\ ~(cred[p] \in live /\ issuedTo[cred[p]] = server[p])
    BY <1>4 DEF Revoked, Goto, file, args, zotero
  <2>2. Sound(stored)'
    BY <1>0, <2>1 DEF Sound
  <2>3. ASSUME NEW q \in Proc \ {p} PROVE Holds(q)'
    BY <1>0, <1>a, <2>1, <2>3 DEF HoldsSound, FollowsFile, Sound, Alone, TypeOK
  <2>4. Holds(p)'
    <3>1. source[p] = "store" => cred[p] \notin live
      BY <1>a, <2>1 DEF HoldsSound
    <3>2. HoldsSound(p)'
      BY <1>0, <1>a, <2>1 DEF HoldsSound, Sound, TypeOK
    <3>3. FollowsFile(p)'
      BY <1>0, <1>a, <2>1, <3>1 DEF FollowsFile, Alone, TypeOK
    <3> QED
      BY <3>2, <3>3
  <2> QED
    BY <1>0, <2>2, <2>3, <2>4 DEF IInv
<1>5. ASSUME NEW p \in Proc, Authorize(p) PROVE IInv'
  <2>1. /\ UNCHANGED <<issuedTo, live, malformed, stored, replaced, job, server, cred, source, since, draft>>
        /\ pc' = [pc EXCEPT ![p] = "consent"] /\ job[p] = "authorize"
    BY <1>5 DEF Authorize, Goto, file, args, zotero
  <2>2. Sound(stored)'
    BY <1>0, <2>1 DEF Sound
  <2>3. ASSUME NEW q \in Proc PROVE Holds(q)'
    BY <1>0, <1>a, <2>1, <2>3 DEF HoldsSound, FollowsFile, Sound, Alone, TypeOK
  <2> QED
    BY <1>0, <2>2, <2>3 DEF IInv
<1>6. ASSUME NEW p \in Proc, Invalidate(p) PROVE IInv'
  <2>1. /\ UNCHANGED <<issuedTo, live, malformed, stored, replaced, job, server, cred, source, since>>
        /\ pc' = [pc EXCEPT ![p] = "replace"] /\ pc[p] = "revoked" /\ source[p] = "store"
        /\ ~malformed
        /\ draft' = [draft EXCEPT ![p] = [stored EXCEPT ![server[p]] = NoKey]]
    BY <1>6 DEF Invalidate, Goto, file, args, zotero
  <2>2. Sound(stored)'
    BY <1>0, <2>1 DEF Sound
  <2>3. ASSUME NEW q \in Proc \ {p} PROVE Holds(q)'
    BY <1>0, <1>a, <2>1, <2>3 DEF HoldsSound, FollowsFile, Sound, Alone, TypeOK
  <2>4. Holds(p)'
    <3>1. \A s \in Server : draft'[p][s] = IF s = server[p] THEN NoKey ELSE stored[s]
      BY <1>0, <2>1 DEF TypeOK, Entries
    <3>2. HoldsSound(p)'
      BY <1>0, <1>a, <2>1, <3>1 DEF HoldsSound, Sound, TypeOK
    <3>3. FollowsFile(p)'
      BY <1>0, <1>a, <2>1, <3>1 DEF FollowsFile, Alone, TypeOK
    <3> QED
      BY <3>2, <3>3
  <2> QED
    BY <1>0, <2>2, <2>3, <2>4 DEF IInv
<1>7. ASSUME NEW p \in Proc, Keep(p) PROVE IInv'
  <2>1. /\ UNCHANGED <<issuedTo, live, malformed, stored, replaced, job, server, cred, source>>
        /\ pc' = [pc EXCEPT ![p] = "replace"] /\ pc[p] = "keep" /\ ~malformed
        /\ draft' = [draft EXCEPT ![p] = [stored EXCEPT ![server[p]] = cred[p]]]
        /\ since' = [since EXCEPT ![p] = replaced]
    BY <1>7 DEF Keep, Goto, file, args, zotero
  <2>2. Sound(stored)'
    BY <1>0, <2>1 DEF Sound
  <2>3. ASSUME NEW q \in Proc \ {p} PROVE Holds(q)'
    BY <1>0, <1>a, <2>1, <2>3 DEF HoldsSound, FollowsFile, Sound, Alone, TypeOK
  <2>4. Holds(p)'
    <3>1. \A s \in Server : draft'[p][s] = IF s = server[p] THEN cred[p] ELSE stored[s]
      BY <1>0, <2>1 DEF TypeOK, Entries
    <3>2. HoldsSound(p)'
      BY <1>0, <1>a, <2>1, <3>1 DEF HoldsSound, Sound, TypeOK
    <3>3. FollowsFile(p)'
      BY <1>0, <1>a, <2>1, <3>1 DEF FollowsFile, Alone, TypeOK
    <3> QED
      BY <3>2, <3>3
  <2> QED
    BY <1>0, <2>2, <2>3, <2>4 DEF IInv
<1>8. ASSUME NEW p \in Proc, Consent(p) \/ ConsentTooLate(p) PROVE IInv'
  <2>1. /\ UNCHANGED <<malformed, stored, replaced, job, server, source, since, draft>>
        /\ issuedTo' = Append(issuedTo, server[p]) /\ live' = live \cup {Len(issuedTo')}
        /\ pc[p] = "consent"
    BY <1>8 DEF Consent, ConsentTooLate, Issue, file, args
  <2>2. /\ Issued \subseteq Issued'
        /\ \A k \in Issued : issuedTo'[k] = issuedTo[k]
        /\ Len(issuedTo') \in Issued' /\ issuedTo'[Len(issuedTo')] = server[p]
        /\ Len(issuedTo') \notin Issued
    BY <1>0, <2>1, SoundGrows DEF TypeOK
  <2>3. Sound(stored)'
    BY <1>0, <2>1, <2>2 DEF Sound
  <2>4. ASSUME NEW q \in Proc \ {p} PROVE Holds(q)'
    <3>1. pc'[q] = pc[q] /\ cred'[q] = cred[q]
      BY <1>0, <1>8 DEF Consent, ConsentTooLate, TypeOK
    <3>2. HoldsSound(q)'
      BY <1>0, <1>a, <2>1, <2>2, <3>1 DEF HoldsSound, Sound, TypeOK
    <3>3. FollowsFile(q)'
      BY <1>0, <1>a, <2>1, <2>2, <3>1 DEF FollowsFile, HoldsSound, Alone, TypeOK
    <3> QED
      BY <3>2, <3>3
  <2>5. Holds(p)'
    <3>1. \/ pc'[p] = "keep" /\ cred'[p] = Len(issuedTo')
          \/ pc'[p] = "done" /\ cred'[p] = cred[p]
      BY <1>0, <1>8 DEF Consent, ConsentTooLate, TypeOK
    <3>2. source[p] # "store"
      BY <1>a, <2>1 DEF FollowsFile
    <3> QED
      BY <1>0, <1>a, <2>1, <2>2, <3>1, <3>2 DEF HoldsSound, FollowsFile, Sound, Alone, TypeOK
  <2> QED
    BY <1>0, <2>3, <2>4, <2>5 DEF IInv
<1>9. ASSUME NEW p \in Proc, Replace(p) PROVE IInv'
  <2>1. /\ UNCHANGED <<issuedTo, live, job, server, cred, source, since, draft>>
        /\ pc' = [pc EXCEPT ![p] = "done"] /\ pc[p] = "replace"
        /\ stored' = draft[p] /\ malformed' = FALSE /\ replaced' = replaced + 1
    BY <1>9 DEF Replace, Goto, args, zotero
  <2>2. Sound(stored)'
    BY <1>a, <2>1 DEF HoldsSound, Sound
  <2>3. ASSUME NEW q \in Proc PROVE Holds(q)'
    BY <1>0, <1>a, <2>1, <2>3 DEF HoldsSound, FollowsFile, Sound, Alone, TypeOK
  <2> QED
    BY <1>0, <2>2, <2>3 DEF IInv
<1>10. CASE UNCHANGED vars
  <2>1. ASSUME NEW q \in Proc PROVE Holds(q)'
    BY <1>a, <1>10, <2>1 DEF vars, HoldsSound, FollowsFile, Sound, Alone
  <2> QED
    BY <1>0, <1>10, <2>1 DEF vars, IInv, Sound
<1>11. ASSUME NEW p \in Proc,
             \/ NoCredential(p) \/ Accepted(p) \/ NotAnswered(p) \/ NothingToInvalidate(p)
             \/ Deny(p) \/ KeepFails(p) \/ ReplaceFails(p) \/ Exit(p)
      PROVE  IInv'
  <2>1. \E o \in Outcome : Report(p, o)
    BY <1>11, ReportsOutcome
  <2> QED
    BY <1>2, <2>1
<1> QED
  BY <1>1, <1>3, <1>4, <1>5, <1>6, <1>7, <1>8, <1>9, <1>10, <1>11 DEF Next

LEMMA Invariance == Spec => []IInv
  BY InvInit, InvStep, PTL DEF Spec

\* No entry ever moves to another server, and a stored key goes to its own.
THEOREM KeysStayHolds == Spec => []KeysStayWithTheirServer
<1>1. IInv => KeysStayWithTheirServer
  BY DEF IInv, Sound, HoldsSound, KeysStayWithTheirServer
<1> QED
  BY <1>1, Invariance, PTL

LEMMA Replacing ==
    ASSUME IInv, [Next]_vars, stored' # stored
    PROVE  \E q \in Proc : Replace(q)
  BY DEF Next, vars, Revoke, Resolve, NoCredential, Accepted, Revoked, NotAnswered, Invalidate,
     NothingToInvalidate, Authorize, Consent, ConsentTooLate, Deny, Keep, KeepFails,
     ReplaceFails, Exit, Report, file

\* The file fails closed: readable or not, it stays so.
THEOREM MalformedIsKeptHolds == Spec => MalformedIsKept
<1>1. ASSUME IInv, [Next]_vars PROVE malformed' = malformed
  <2>1. ASSUME NEW q \in Proc, Replace(q) PROVE malformed' = malformed
    <3>1. HoldsSound(q) /\ malformed \in BOOLEAN
      BY <1>1 DEF IInv, TypeOK
    <3>2. pc[q] = "replace" /\ malformed' = FALSE
      BY <2>1 DEF Replace
    <3> QED
      BY <3>1, <3>2 DEF HoldsSound
  <2>2. CASE ~\E q \in Proc : Replace(q)
    BY <1>1, <2>2 DEF Next, vars, Revoke, Resolve, NoCredential, Accepted, Revoked, NotAnswered,
       Invalidate, NothingToInvalidate, Authorize, Consent, ConsentTooLate, Deny, Keep,
       KeepFails, ReplaceFails, Exit, Report, file
  <2> QED
    BY <2>1, <2>2
<1> QED
  BY <1>1, Invariance, PTL DEF Spec, MalformedIsKept

\* Unless another invocation replaced the file since this one took its key
\* from it (Alone), the replacement takes no key out of the store that Zotero
\* still accepts, but for the one an authorization replaces: a rejection
\* costs the rejected key only.  With such a race, the invalidation drops
\* whatever entry the file has by then (write_router.rs:122).
THEOREM AcceptedKeysHold == Spec => AcceptedKeysAreKept
<1>1. ASSUME IInv, [Next]_vars, NEW p \in Proc,
             pc[p] = "replace", stored' # stored, pc'[p] = "done", Alone(p),
             NEW s \in Server, stored[s] \in live, stored'[s] # stored[s]
      PROVE  s = server[p] /\ job[p] = "authorize"
  <2>1. PICK q \in Proc : Replace(q)
    BY <1>1, Replacing
  <2>2. q = p
    BY <1>1, <2>1 DEF Replace, Goto, IInv, TypeOK
  <2>3. stored' = draft[p] /\ TypeOK /\ FollowsFile(p)
    BY <1>1, <2>1, <2>2 DEF Replace, IInv
  <2>4. s = server[p]
    BY <1>1, <2>3 DEF FollowsFile
  <2>5. job[p] # "write"
    BY <1>1, <2>3, <2>4 DEF FollowsFile
  <2> QED
    BY <2>3, <2>4, <2>5 DEF TypeOK
<1>2. IInv /\ [Next]_vars =>
        (\A p \in Proc : pc[p] = "replace" /\ stored' # stored /\ pc'[p] = "done" /\ Alone(p)
          => \A s \in Server :
               stored[s] \in live /\ stored'[s] # stored[s]
                 => s = server[p] /\ job[p] = "authorize")
  BY <1>1
<1> QED
  BY <1>2, Invariance, PTL DEF Spec, AcceptedKeysAreKept
=============================================================================
