----------------------------- MODULE Decisions -----------------------------
(***************************************************************************)
(* The decisions that take no time of their own: which PDF is taken, which *)
(* attachments are uploaded, which items are duplicates and what a merge   *)
(* does, what a search answers.  One step picks an input of one of them,   *)
(* or puts a question of Targets, and the properties compare what the code *)
(* computes from the input with what it promises.                          *)
(***************************************************************************)
EXTENDS Targets, PdfSources, Ranking, ImportAttachments, Hygiene, Search

CONSTANTS
    Address,         \* the URLs sources offer
    PdfCases, Rankings, Uploads, Scans, Merges, Searches    \* the inputs

\* The last two sources write the DOI into addresses that all differ
\* (preprint_pdf_urls, arxiv_pdf_urls); the others' answers may repeat one.
Addresses == Seq(Address)

PdfItem ==
    [unpaywall: [failed: BOOLEAN, best: Addresses, other: Addresses],
     epmc: [failed: BOOLEAN, pmc: Addresses, fullText: Addresses],
     preprint: Addresses, arxiv: Addresses, pdfs: SUBSET Address]

ASSUME PdfAssump ==
    \A c \in PdfCases :
        /\ c.item \in PdfItem /\ c.names \in Seq(STRING)
        /\ IsInjective(c.item.preprint) /\ IsInjective(c.item.arxiv)

\* A list, whatever it lists.
IsList(s) == Len(s) \in Nat /\ DOMAIN s = 1 .. Len(s)

Row == [item: Nat, chunk: Nat, score: Int, language: STRING, readable: BOOLEAN]

ASSUME RankingAssump ==
    /\ Units \in Nat \ {0}
    /\ \A c \in Rankings :
           /\ c.rows \in Seq(Row) /\ c.language \in STRING
           /\ c.minScore \in Int /\ c.topK \in Int

\* One real path, or one URL without its fragment, has one content while
\* the run lasts.
Raws(world) ==
    Seq([path: DOMAIN world.key \cup {None}, url: DOMAIN world.key \cup {None}])

ASSUME UploadAssump ==
    \A c \in Uploads :
        /\ IsList(c.items) /\ IsList(c.entries)
        /\ \A i \in DOMAIN c.entries : c.entries[i].raws \in Raws(c.world)
        /\ \A s, t \in DOMAIN c.world.key :
               c.world.key[s] = c.world.key[t] => c.world.content[s] = c.world.content[t]

\* A scan is of one library, where a key is of one item.
ASSUME ScanAssump ==
    \A c \in Scans :
        /\ IsList(c.items) /\ c.limit \in Nat
        /\ \A i \in DOMAIN c.items : c.items[i].pdf \in BOOLEAN /\ c.items[i].date \in Int
        /\ \A i, j \in DOMAIN c.items : c.items[i].key = c.items[j].key => i = j

LibraryItem(o) ==
    /\ o = [library |-> o.library, key |-> o.key, id |-> o.id, tags |-> o.tags, collections |-> o.collections,
            children |-> o.children, trashed |-> o.trashed]
    /\ IsFiniteSet(o.children) /\ o.trashed \in BOOLEAN

\* Items have ids, and in their library keys, of their own, an attachment or a
\* note has one parent, and a key is written one way.
ASSUME MergeAssump ==
    \A c \in Merges :
        /\ IsList(c.refs) /\ Cardinality(c.selected) < 2 /\ IsFiniteSet(c.selected)
        /\ \A o \in c.held : LibraryItem(o) /\ o.library \in Listed
        /\ \A o, p \in c.held :
               \/ o = p
               \/ /\ o.key # p.key \/ o.library # p.library
                  /\ o.id # p.id /\ o.children \cap p.children = {}
        /\ \A r, s \in ToSet(c.refs) \cup {c.keep} :
               r.kind = "key" /\ s.kind = "key" /\ r.key = s.key => r = s

SearchWorld ==
    [libraries: SUBSET [id: Nat, type: STRING],
     items: SUBSET [id: Nat, library: Nat, rank: Nat, quick: BOOLEAN, collection: Nat],
     locked: BOOLEAN, bridge: BOOLEAN, api: BOOLEAN, failing: SUBSET Nat]

SearchRequest ==
    [all: BOOLEAN, feeds: BOOLEAN, exact: BOOLEAN, scope: STRING,
     library: SUBSET Nat, collection: SUBSET Nat, limit: Int]

\* Libraries and items have ids of their own, an item's collection is one of
\* its library, and a title that matches is found by the quick search as well.
ASSUME SearchAssump ==
    \A c \in Searches :
        /\ c.world \in SearchWorld /\ c.request \in SearchRequest
        /\ IsFiniteSet(c.world.items)
        /\ \A l, k \in c.world.libraries : l.id = k.id => l = k
        /\ \A i, j \in c.world.items : i.id = j.id => i = j
        /\ \A i \in c.world.items :
               /\ i.collection \in c.request.collection => i.library = i.collection
               /\ i.rank # NoMatch => i.quick

-----------------------------------------------------------------------------
VARIABLE case       \* what is decided, and from which input

Undecided == [of |-> "nothing"]

decisionVars == <<case, question>>

Free == case = Undecided /\ question = NoQuestion

Decide(what, inputs) ==
    /\ Free
    /\ \E c \in inputs : case' = [of |-> what, given |-> c]
    /\ UNCHANGED question

FetchPdf == Decide("pdf", PdfCases)

Rank == Decide("ranking", Rankings)

UploadAll == Decide("uploads", Uploads)

Scan == Decide("scan", Scans)

MergeItems == Decide("merge", Merges)

Find == Decide("search", Searches)

AskTarget == Free /\ PutQuestion /\ UNCHANGED case

DecisionNext == FetchPdf \/ Rank \/ UploadAll \/ Scan \/ MergeItems \/ Find \/ AskTarget

DecisionSpec == Free /\ [][DecisionNext]_decisionVars

-----------------------------------------------------------------------------
(* What is checked.                                                        *)

\* The cascade ends with the first PDF any source offers and overlooks none
\* (pdf_fetch.rs:335-440).
FirstPdfWins ==
    case.of = "pdf" =>
        LET parsed == ParseSources(case.given.names)
        IN  parsed.ok => TakesFirstOffer(case.given.item, parsed.sources)

\* Each planned attachment is answered for; one is skipped only where the
\* same file was saved before, and success means that all of them are in
\* Zotero, once (import_attachments.rs:117-312).
SkippedMeansStored ==
    case.of = "uploads" =>
        LET c == case.given
            manifest == ReadManifest(c.entries)
            inline == InlinePlans(c.entries)
        IN  /\ SkippedMeansThere(c.world, c.items, manifest.plans)
            /\ SuccessMeansStored(c.world, c.items, manifest.plans)
            /\ SuccessMeansStored(c.world, c.items, inline.plans)

\* What the user is shown before anything is merged is so: duplicate groups
\* are whole and suggest to keep an item with a PDF if any has one
\* (hygiene.rs:103-215), and the preview of a merge announces what the
\* confirmed merge does (hygiene.rs:304-518, lib.rs:2413-2526).
DuplicatesAsShown ==
    /\ case.of = "scan" =>
           DuplicatesAreWhole(case.given.items, case.given.by, case.given.limit)
    /\ case.of = "merge" =>
           PreviewTellsTheMerge(case.given.held, case.given.selected, case.given.bridge,
                                  case.given.keep, case.given.refs)

\* A search is whole.  By words it stays in the libraries it was asked about
\* and, over all of them by fields, shows what each finds alone, whether or
\* not Zotero happens to hold its database locked (search.rs:386-605); by
\* meaning or similarity it lists each item once by its best chunk, and no
\* item that deserves less than one left out (semantic/mod.rs:432-613).
SearchesAreWhole ==
    /\ case.of = "search" =>
           /\ AnswersStayInScope(case.given.world, case.given.request)
           /\ AllIsEachTogether(case.given.world, case.given.request)
           /\ LockMakesNoDifference(case.given.world, case.given.request)
    /\ case.of = "ranking" =>
           LET c == case.given
           IN  /\ BestPerItem(c.rows, Loaded(c.rows, c.language, {}),
                                SemanticSearch(c.rows, c.minScore, c.topK, c.language),
                                c.minScore, c.topK)
               /\ BestPerItem(c.rows, Loaded(c.rows, "all", {c.item}),
                                FindSimilar(c.rows, c.item, c.minScore, c.topK),
                                c.minScore, c.topK)
=============================================================================
