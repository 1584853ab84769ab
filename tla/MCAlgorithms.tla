---------------------------- MODULE MCAlgorithms ----------------------------
(* Bounded inputs for the decisions, and questions of Targets.             *)
EXTENDS Decisions

CONSTANTS k1, k2, k3

Group1 == 2
Feed1 == 3

UpTo(n, X) == UNION {[1 .. m -> X] : m \in 0 .. n}

-----------------------------------------------------------------------------
(* For Targets: two libraries, and two objects of one key among three.     *)
MCLibraries == <<1, Group1>>

MCHoldings == SUBSET {[id |-> 1, key |-> k1, library |-> 1],
                      [id |-> 2, key |-> k1, library |-> Group1],
                      [id |-> 3, key |-> k2, library |-> Group1]}

-----------------------------------------------------------------------------
(* Three URLs of four sources. *)
Unpaywalls ==
    [failed: BOOLEAN, best: {<<>>, <<"u1">>, <<"u1", "u2">>}, other: {<<>>, <<"u1">>, <<"u2", "u3">>}]

PdfItems ==
    [unpaywall: Unpaywalls, pdfs: SUBSET Address,
     epmc: [failed: {FALSE}, pmc: {<<>>, <<"u2", "u2">>}, fullText: {<<"u1">>}],
     preprint: {<<>>, <<"u3", "u1">>}, arxiv: {<<>>, <<"u3">>}]

NameLists == {<<>>, <<"all", "arxiv">>, <<"arxiv", "unpaywall">>, <<"biorxiv", "nowhere">>,
              <<"epmc", "zotero", "biorxiv">>}

MCPdfCases == [item: PdfItems, names: NameLists]

-----------------------------------------------------------------------------
(* Chunks of two items; scores two of which round to one. *)
Rows == [item: 1 .. 2, chunk: 0 .. 0, score: 0 .. 3, language: {"en", "zh"},
         readable: BOOLEAN]

MCRankings ==
    [rows: UpTo(2, Rows) \cup [1 .. 3 -> {r \in Rows : r.language = "en" /\ r.readable}],
     minScore: 0 .. 2, topK: 0 .. 2, language: {"all", "en"}, item: {1}]

-----------------------------------------------------------------------------
(* Up to three attachments for one item or two.  The files f and g hold    *)
(* one content, h another, gone none; two addresses of f are one source.   *)
Files == {"f", "f#page", "g", "h", "gone"}

Content == [s \in Files |-> CASE s \in {"f", "f#page", "g"} -> "same"
                              [] s = "h" -> "other" [] s = "gone" -> None]

KeyOf == [s \in Files |-> IF s = "f#page" THEN "f" ELSE s]

Returned == {<<>>} \cup {<<[id |-> i, title |-> k1]>> : i \in {"p", None}}
                \cup {<<[id |-> "p", title |-> k1], [id |-> j, title |-> k2]>> : j \in {"q", None}}

Entry(index, title, sources) ==
    [index |-> index, title |-> title,
     raws |-> [i \in DOMAIN sources |-> [path |-> sources[i], url |-> None]]]

Answers(n) ==
    {a \in [1 .. 3 -> {"saved", "refused", "late"}] : \A i \in n + 1 .. 3 : a[i] = "saved"}

MCUploads ==
    UNION {[items: Returned,
            entries: {<<Entry(1, title, l[1]), Entry(2, None, l[2])>> : title \in {None, k1}},
            world: [content: {Content}, key: {KeyOf}, answer: Answers(Len(l[1]) + Len(l[2]))]] :
        l \in {<<one, two>> \in UpTo(3, Files) \X UpTo(1, {"f", "g", "gone"}) :
                   Len(one) + Len(two) < 4}}

-----------------------------------------------------------------------------
(* Three items of every sort, or five papers one of which has a PDF.       *)
Scanned(n, kinds, pdfs) ==
    {[i \in 1 .. n |-> [key |-> i, kind |-> kind[i], doi |-> doi[i], title |-> k1,
                        pdf |-> pdf[i], date |-> date[i]]] :
        kind \in kinds, doi \in [1 .. n -> {Keyless, k1, k2}], pdf \in pdfs,
        date \in {[i \in 1 .. n |-> 1], [i \in 1 .. n |-> n - i]}}

MCScans ==
    [items: Scanned(3, [1 .. 3 -> {"regular", "note"}], [1 .. 3 -> BOOLEAN])
                \cup Scanned(5, {[i \in 1 .. 5 |-> "regular"]}, {[i \in 1 .. 5 |-> i = 4]}),
     by: {"doi", "title"}, limit: 0 .. 2]

(* Three items that share tags and collections, the last, whose key may be *)
(* another's, in any of two libraries.                                     *)
Kept(tags) ==
    [library |-> 1, key |-> k1, id |-> 1, tags |-> tags, collections |-> {},
     children |-> {<<1, 1>>}, trashed |-> FALSE]

Other(library, key, id, tags, collections) ==
    [library |-> library, key |-> key, id |-> id, tags |-> tags, collections |-> collections,
     children |-> {<<id, 1>>}, trashed |-> FALSE]

KeyRefs == {[kind |-> "key", key |-> k, id |-> 0] : k \in {k1, k2, k3, None}}

MergeRefs == KeyRefs \cup {[kind |-> "id", key |-> None, id |-> i] : i \in 1 .. 2}

MCMerges ==
    [held: {{Kept(tags), Other(1, k2, 2, others, cols), Other(at[1], at[2], 3, {"b", "d"}, {"c"})} :
                    tags \in SUBSET {"a", "b"}, others \in SUBSET {"a", "b"}, cols \in SUBSET {"c"},
                    at \in {<<1, k3>>, <<Group1, k3>>, <<Group1, k2>>}},
     selected: {{}, {1}, {Group1}}, keep: MergeRefs,
     refs: UpTo(2, MergeRefs) \cup [1 .. 3 -> KeyRefs], bridge: BOOLEAN]

-----------------------------------------------------------------------------
(* Three libraries of three types, three items. *)
Kinds == {[id |-> 1, type |-> "user"], [id |-> Group1, type |-> "group"],
          [id |-> Feed1, type |-> "feed"]}

Hits == {h \in [library : 1 .. 3, rank : {0, NoMatch, 3}, quick : BOOLEAN, filed : BOOLEAN] :
            h.quick => h.rank = NoMatch}

ItemsOf(hits) ==
    {[id |-> i, library |-> hits[i].library, rank |-> hits[i].rank,
      quick |-> hits[i].quick \/ hits[i].rank # NoMatch,
      collection |-> IF hits[i].filed THEN hits[i].library ELSE 0] : i \in DOMAIN hits}

SearchWorlds ==
    {w \in [libraries: {Kinds}, items: {ItemsOf(hits) : hits \in {<<>>} \cup [1 .. 2 -> Hits]},
            locked: BOOLEAN, bridge: BOOLEAN, api: BOOLEAN, failing: {{}, {Group1}}] :
        /\ w.locked => w.api /\ w.failing = {}
        /\ w.failing # {} => w.api
        /\ w.bridge => w.locked}

Requests ==
    {r \in [all : BOOLEAN, feeds : BOOLEAN, exact : BOOLEAN,
            scope : {"fields", "titleCreatorYear"}, library : {{}, {Group1}, {Feed1}},
            collection : {{}, {1}, {Group1}}, limit : {-1, 1, 2}] :
        /\ r.feeds => r.all
        /\ r.all => r.library = {} /\ r.collection # {Group1}
        /\ r.exact => r.scope = "fields"}

MCSearches == [world: SearchWorlds, request: Requests]
=============================================================================
