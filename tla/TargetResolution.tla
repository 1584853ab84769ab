-------------------------- MODULE TargetResolution --------------------------
(* target.rs: which object a reference names, asked of the sources that    *)
(* can answer: the Bridge, the Local API, and the database.  A world says  *)
(* what Zotero holds, what the database file shows (an older state while   *)
(* Zotero runs), and which of the three answer.                            *)
EXTENDS Integers, Sequences, FiniteSets

CONSTANTS
    Libraries,      \* the libraries' numbers, in the order Zotero lists them
    Personal        \* the number of the personal library, the first of them

(* An object is [id, key, library]; a reference is [kind, id, key], kind   *)
(* "id" or "key".  A session is [corrupt, library]: the libraries it       *)
(* selects, none or one.                                                   *)

Listed == {Libraries[i] : i \in DOMAIN Libraries}

Silent == [kind |-> "silent"]
Missing == [kind |-> "missing"]
Refused(why) == [kind |-> "error", why |-> why]
Found(o, number, source) ==
    [kind |-> "object", object |-> o, library |-> number, by |-> source]

Names(ref, o) == IF ref.kind = "id" THEN o.id = ref.id ELSE o.key = ref.key

InSelected(o, selected) == selected = {} \/ o.library \in selected

(* T_RESOLVE_ITEM, T_RESOLVE_COLLECTION: the libraries in Zotero's order.  *)
FirstListed(hits) ==
    LET first == CHOOSE i \in DOMAIN Libraries :
                    /\ \E o \in hits : o.library = Libraries[i]
                    /\ \A j \in 1 .. i - 1 : \A o \in hits : o.library # Libraries[j]
    IN  CHOOSE o \in hits : o.library = Libraries[first]

BridgeAnswer(world, ref, selected) ==
    LET hits == {o \in world.live : Names(ref, o) /\ InSelected(o, selected)}
    IN  IF ~world.bridge THEN Silent
        ELSE IF hits = {} THEN Missing
        ELSE LET o == FirstListed(hits) IN Found(o, o.library, "bridge")

(* The Local API knows keys of the personal library, and calls it library  *)
(* 0; anything it cannot answer is left to the next source.                *)
ApiAnswer(world, ref) ==
    LET hits == {o \in world.live : Names(ref, o) /\ o.library = Personal}
    IN  IF world.api = "down" \/ ref.kind = "id" THEN Silent
        ELSE IF hits = {} THEN Silent
        ELSE IF world.api = "garbled" THEN Refused("malformed response")
        ELSE Found(CHOOSE o \in hits : TRUE, 0, "api")

(* db::resolve_item, db::resolve_collection: a numeric id is looked up in  *)
(* every library; a key of two libraries is ambiguous unless one is        *)
(* selected.                                                               *)
DatabaseAnswer(world, ref, selected) ==
    LET hits == {o \in world.copy :
                    Names(ref, o) /\ (ref.kind = "id" \/ InSelected(o, selected))}
    IN  IF world.locked THEN Refused("database is locked")
        ELSE IF ~(selected \subseteq Listed) THEN Refused("library not found")
        ELSE IF hits = {} THEN Refused("not found")
        ELSE IF Cardinality(hits) > 1 THEN Refused("ambiguous reference")
        ELSE LET o == CHOOSE o \in hits : TRUE IN Found(o, o.library, "database")

(* Answers in the order they are asked for; the first that is not silence. *)
FirstAnswer(answers) ==
    answers[CHOOSE i \in DOMAIN answers :
                /\ answers[i] # Silent
                /\ \A j \in 1 .. i - 1 : answers[j] = Silent]

(* Mutant: the Local API is asked even when a library is selected. *)
ResolveAnyway(world, ref, session) ==
    LET selected == session.library
        live == IF world.writes
                THEN <<ApiAnswer(world, ref), BridgeAnswer(world, ref, selected)>>
                ELSE <<BridgeAnswer(world, ref, selected), ApiAnswer(world, ref)>>
        answer == FirstAnswer(live \o <<DatabaseAnswer(world, ref, selected)>>)
    IN  IF session.corrupt THEN Refused("invalid library") ELSE
        IF answer = Missing THEN Refused("not found") ELSE answer

(* resolve_item and resolve_collection: the source the write will use      *)
(* first (Prefer::for_runtime), then the other, then the database.         *)
Resolve(world, ref, session) ==
    LET selected == session.library
        bridge == BridgeAnswer(world, ref, selected)
        api == ApiAnswer(world, ref)
        live == IF selected # {} THEN <<bridge>>
                ELSE IF world.writes THEN <<api, bridge>> ELSE <<bridge, api>>
        answer == FirstAnswer(live \o <<DatabaseAnswer(world, ref, selected)>>)
    IN  IF session.corrupt THEN Refused("invalid library") ELSE
        IF answer = Missing THEN Refused("not found") ELSE answer

(* resolve_default_library: where a create goes.  Unscoped and through the *)
(* Local API it is library 0, without asking anyone.                       *)
DefaultLibrary(world, session) ==
    LET selected == IF session.library = {} THEN {Personal} ELSE session.library
        found == [kind |-> "library", library |-> CHOOSE l \in selected : TRUE]
    IN  IF session.corrupt THEN Refused("invalid library")
        ELSE IF world.writes /\ session.library = {}
             THEN [kind |-> "library", library |-> 0]
        ELSE IF world.bridge /\ selected \subseteq Listed THEN found
        ELSE IF world.locked THEN Refused("database is locked")
        ELSE IF selected \subseteq Listed THEN found
        ELSE Refused("library not found")

(* collection create --parent: library, parent, and that they agree.       *)
CreateTarget(world, parent, session) ==
    LET library == DefaultLibrary(world, session)
        under == Resolve(world, parent, session)
    IN  IF library.kind = "error" THEN library
        ELSE IF under.kind = "error" THEN under
        ELSE IF under.library # library.library THEN Refused("another library")
        ELSE [kind |-> "create", library |-> library.library, under |-> under.object]

-----------------------------------------------------------------------------
(* Two worlds that hold the same objects and differ in which sources       *)
(* answer never resolve one reference to two objects: a caller cannot tell *)
(* which path produced the target (target.rs:65-67).  It needs the Local   *)
(* API to be passed over when a library is selected, and the database to   *)
(* refuse a key two libraries share unless Zotero's own order decides it.  *)
SourcesAgree(world, other, ref, session) ==
    LET a == Resolve(world, ref, session)
        b == Resolve(other, ref, session)
    IN  a.kind = "object" /\ b.kind = "object" => a.object = b.object

(* What is found is what the reference names, in the selected library, and *)
(* still in Zotero when the Bridge or the Local API said so.  The database *)
(* alone answers a numeric id from any library.                            *)
TargetIsMeant(world, ref, session) ==
    LET a == Resolve(world, ref, session)
    IN  a.kind = "object" =>
            /\ Names(ref, a.object)
            /\ InSelected(a.object, session.library) \/ (a.by = "database" /\ ref.kind = "id")
            /\ a.by # "database" => a.object \in world.live
            /\ world.bridge => a.object \in world.live

(* A collection is created in the library of the parent it is put under,   *)
(* whichever sources named the two (library 0 is the personal library).    *)
CreatedBesideItsParent(world, parent, session) ==
    LET c == CreateTarget(world, parent, session)
    IN  c.kind = "create" =>
            c.under.library = IF c.library = 0 THEN Personal ELSE c.library
=============================================================================
