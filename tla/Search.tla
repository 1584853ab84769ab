------------------------------- MODULE Search -------------------------------
(* search.rs: item find, over one library or all of them, asked of the     *)
(* database (with the Local API's quick search) and, when Zotero holds the *)
(* database locked, of the Bridge.                                         *)
EXTENDS Orders, SequencesExt

CONSTANT UserLibrary    \* the number of the personal library

(* A world is [libraries, items, locked, bridge, api, failing]: libraries  *)
(* [id, type], top-level items [id, library, rank, quick, collection], and *)
(* the libraries of which the Local API answers with an error.  The rank   *)
(* of a title is 0 when it is the query, 1 when it begins with it, above   *)
(* NoMatch when the query comes later, and NoMatch when it does not: an    *)
(* item found by another field goes before those.  quick says that the     *)
(* quick search finds the item, by its title or by another field.  The     *)
(* number of a library stands for its one collection as well.              *)
NoMatch == 2

Precedes(i, j) == i.rank < j.rank \/ (i.rank = j.rank /\ i.id > j.id)

(* order_like_sqlite, and ORDER BY of find_items_by_title. *)
Ordered(items) == InOrder(items, {p \in items \X items : Precedes(p[1], p[2])})

Cut(s, limit) == IF limit < Len(s) THEN SubSeq(s, 1, limit) ELSE s

AtLeastNone(limit) == IF limit < 0 THEN 0 ELSE limit

(* eligible_library_ids. *)
Eligible(world, feeds) ==
    {l.id : l \in {k \in world.libraries :
                      k.type \in {"user", "group"} \/ (feeds /\ k.type = "feed")}}

Feeds(world) == {l.id : l \in {k \in world.libraries : k.type = "feed"}}

Within(world, libraries, collection) ==
    {i \in world.items : /\ i.library \in libraries
                         /\ collection # {} => i.collection \in collection}

(* find_items_by_title: SQLite reads a negative LIMIT as none. *)
ByTitle(world, libraries, collection, limit, exact) ==
    LET hits == {i \in Within(world, libraries, collection) :
                    IF exact THEN i.rank = 0 ELSE i.rank # NoMatch}
    IN  IF limit < 0 THEN Ordered(hits) ELSE Cut(Ordered(hits), limit)

QuickHits(world, libraries, collection) ==
    {i \in Within(world, libraries, collection) : i.quick}

(* The Local API's answer, the newest first, cut as Python cuts: a negative *)
(* limit drops so many from the end.                                       *)
ByQuickSearch(world, library, collection, limit) ==
    LET hits == QuickHits(world, {library}, collection)
    IN  Cut(InOrder(hits, {p \in hits \X hits : p[1].id > p[2].id}),
            IF limit < 0 THEN AtLeastNone(Cardinality(hits) + limit) ELSE limit)

Answer(items, source) == [ok |-> TRUE, items |-> items, source |-> source]
NoAnswer(why) == [ok |-> FALSE, why |-> why]

(* catalog::find_items of a library that answers: the quick search, and    *)
(* the titles when it finds nothing.                                       *)
InOne(world, library, collection, request) ==
    IF ~request.exact /\ world.api /\ QuickHits(world, {library}, collection) # {}
    THEN ByQuickSearch(world, library, collection, request.limit)
    ELSE ByTitle(world, {library}, collection, request.limit, request.exact)

(* Mutant: a library that fails is passed over. *)
InAllPassing(world, request) ==
    LET eligible == Eligible(world, request.feeds)
        asked == (eligible \ Feeds(world)) \ world.failing
        each == UNION {ToSet(InOne(world, l, {}, request)) : l \in asked}
        rest == ToSet(ByTitle(world, eligible \cap Feeds(world), {}, request.limit, FALSE))
    IN  IF request.exact \/ request.scope = "titleCreatorYear" \/ ~world.api
        THEN ByTitle(world, eligible, {}, request.limit, request.exact)
        ELSE Cut(Ordered(each \cup rest), AtLeastNone(request.limit))

(* sqlite_all_libraries: the wider scopes library by library, feeds by     *)
(* their titles, then one order for all; one search by title otherwise, or *)
(* when a library answers with an error.                                   *)
InAll(world, request) ==
    LET eligible == Eligible(world, request.feeds)
        asked == eligible \ Feeds(world)
        each == UNION {ToSet(InOne(world, l, {}, request)) : l \in asked}
        rest == ToSet(ByTitle(world, eligible \cap Feeds(world), {}, request.limit, FALSE))
    IN  IF \/ request.exact \/ request.scope = "titleCreatorYear"
           \/ ~world.api \/ asked \cap world.failing # {}
        THEN ByTitle(world, eligible, {}, request.limit, request.exact)
        ELSE Cut(Ordered(each \cup rest), AtLeastNone(request.limit))

(* The library a collection is in, if the session's library, when it       *)
(* selects one, has it.                                                    *)
CollectionKnown(request) == request.library = {} \/ request.collection \subseteq request.library

(* A feed has no address in the Local API, and a request to it may fail.   *)
Offline(world, request) ==
    LET library == IF request.collection # {} THEN request.collection
                   ELSE IF request.library # {} THEN request.library ELSE {UserLibrary}
    IN  IF request.all THEN Answer(InAll(world, request), "sqlite")
        ELSE IF ~CollectionKnown(request) THEN NoAnswer("collection not found")
        ELSE IF ~request.exact /\ world.api /\ library \subseteq Feeds(world)
        THEN NoAnswer("unsupported library type")
        ELSE IF ~request.exact /\ world.api /\ library \subseteq world.failing
        THEN NoAnswer("request failed")
        ELSE Answer(InOne(world, CHOOSE l \in library : TRUE, request.collection, request),
                    "sqlite")

(* bridge_search. *)
ByBridge(world, libraries, collection, limit) ==
    Answer(Cut(Ordered(QuickHits(world, libraries, collection)), AtLeastNone(limit)),
           "bridge")

(* live_search: the session's library or the personal one, whichever the   *)
(* collection is in; what the Bridge cannot say is the database's refusal. *)
Live(world, request) ==
    LET library == IF request.library # {} THEN request.library ELSE {UserLibrary}
    IN  IF ~world.bridge THEN NoAnswer("database is locked")
        ELSE IF request.all THEN ByBridge(world, Eligible(world, request.feeds), {}, request.limit)
        ELSE IF ~CollectionKnown(request) THEN NoAnswer("database is locked")
        ELSE ByBridge(world, library, request.collection, request.limit)

(* find_items: the database first; the Bridge only when it is locked, and  *)
(* never for an exact title.                                               *)
FindItems(world, request) ==
    IF request.all /\ request.collection # {} THEN NoAnswer("contradictory options")
    ELSE IF ~world.locked THEN Offline(world, request)
    ELSE IF request.exact THEN NoAnswer("database is locked")
    ELSE Live(world, request)

-----------------------------------------------------------------------------
(* No answer shows an item of a library that was not asked about: not of a *)
(* feed unless feeds were, nor from outside the collection, nor of another *)
(* library than the session's or the collection's; nor more than asked     *)
(* for (search.rs:386-575).                                                *)
AnswersStayInScope(world, request) ==
    LET answer == FindItems(world, request)
        asked == IF request.all THEN Eligible(world, request.feeds)
                 ELSE IF request.collection # {} THEN request.collection
                 ELSE IF request.library # {} THEN request.library ELSE {UserLibrary}
    IN  answer.ok =>
            /\ \A i \in ToSet(answer.items) :
                   i.library \in asked /\ (i.quick \/ i.rank # NoMatch)
            /\ request.limit >= 0 => Len(answer.items) <= request.limit

Wide(request) ==
    /\ request.all /\ request.collection = {} /\ ~request.exact
    /\ request.scope # "titleCreatorYear"

(* "fields and everything must mean the same across libraries as in one"   *)
(* (search.rs:474): a search of all libraries by fields shows what each of *)
(* them finds when it is asked alone, all of it or as much as was asked    *)
(* for, feeds by their titles; and if one of them fails it shows what all  *)
(* have by title, so that none is passed over in silence.                  *)
AllIsEachTogether(world, request) ==
    LET eligible == Eligible(world, request.feeds)
        alone(l) == FindItems(world, [request EXCEPT !.all = FALSE, !.library = {l},
                                                     !.limit = Cardinality(world.items)])
        asked == eligible \ Feeds(world)
        titles(libraries) == {i \in Within(world, libraries, {}) : i.rank # NoMatch}
        found == IF \A l \in asked : alone(l).ok
                 THEN (UNION {ToSet(alone(l).items) : l \in asked}) \cup titles(eligible \ asked)
                 ELSE titles(eligible)
        answer == FindItems(world, request)
    IN  Wide(request) /\ request.limit >= 0 /\ ~world.locked =>
            /\ answer.ok /\ ToSet(answer.items) \subseteq found
            /\ Len(answer.items) = IF request.limit < Cardinality(found) THEN request.limit
                                   ELSE Cardinality(found)

(* "... unless Zotero happened to hold its lock" (search.rs:477): while it *)
(* is open, a search of all libraries by fields finds the same items in    *)
(* the same order over the Bridge, when the database is locked, as over    *)
(* the Local API, when it is not, as long as the limit holds them all,     *)
(* feeds are left out and no request fails.                                *)
LockMakesNoDifference(world, request) ==
    LET held == [world EXCEPT !.locked = TRUE, !.bridge = TRUE]
        free == [world EXCEPT !.locked = FALSE, !.api = TRUE, !.failing = {}]
    IN  Wide(request) /\ ~request.feeds /\ request.limit >= Cardinality(world.items)
        => FindItems(held, request).items = FindItems(free, request).items
=============================================================================
