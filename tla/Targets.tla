------------------------------ MODULE Targets ------------------------------
(***************************************************************************)
(* Every question to target.rs: a reference to an item or a collection, in *)
(* a session, whatever Zotero holds, whatever the database file still      *)
(* shows, and whichever of the Bridge, the Local API and the database      *)
(* answer.  One step asks a question; TargetResolution is the answer.      *)
(***************************************************************************)
EXTENDS TargetResolution

CONSTANTS
    ObjectId,        \* the numeric ids and
    ObjectKey,       \* ... the keys of items or of collections
    Holdings,        \* the sets of objects a library database may hold
    Selectable       \* the libraries a session may name, listed or not

Object == [id: ObjectId, key: ObjectKey, library: Listed]

\* Library ids count from 1, and the personal library comes first.
ASSUME LibrariesAssump ==
    /\ Libraries \in Seq(Nat \ {0})
    /\ Libraries # <<>> /\ Libraries[1] = Personal

\* An id is of one object, a key of one object of a library (the unique
\* indexes of Zotero's tables).
ASSUME HoldingsAssump ==
    \A H \in Holdings :
        /\ IsFiniteSet(H) /\ H \subseteq Object
        /\ \A o, u \in H : o.id = u.id \/ (o.key = u.key /\ o.library = u.library) => o = u

World == [live: Holdings, copy: Holdings, bridge: BOOLEAN,
          api: {"up", "down", "garbled"}, writes: BOOLEAN, locked: BOOLEAN]

Ref == [kind: {"id"}, id: ObjectId] \cup [kind: {"key"}, key: ObjectKey]

\* The library a session selects, none or one; corrupt if it is no number.
Session == [corrupt: BOOLEAN, library: {{}} \cup {{l} : l \in Selectable}]

VARIABLE question    \* the one put, none at first

NoQuestion == <<>>

PutQuestion ==
    /\ question = NoQuestion
    /\ question' \in [world: World, ref: Ref, session: Session]

-----------------------------------------------------------------------------
(* What is checked.                                                        *)

\* Whichever sources answer, they do not disagree on what a reference names,
\* and it is what was meant: in the library the session selects, and still
\* there when a running Zotero was asked (target.rs:271-440).  A collection
\* is created in the library its parent is in, whichever sources named the
\* library and the parent (lib.rs:2571-2605).
TargetIsTheOneMeant ==
    question # NoQuestion =>
        LET world == question.world  ref == question.ref  session == question.session
        IN  /\ TargetIsMeant(world, ref, session)
            /\ CreatedBesideItsParent(world, ref, session)
            /\ \A other \in World :
                   world.live = world.copy /\ other.live = world.live /\ other.copy = world.live
                       => SourcesAgree(world, other, ref, session)
=============================================================================
