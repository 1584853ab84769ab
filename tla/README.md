# zotero-cli in TLA+

Specifications of the parts of `zotero-cli` (src/crates/zotero-cli) where order, interleaving and
failure decide whether it is correct, model-checked with TLC, with the properties that matter most
proved with TLAPS.

The CLI has no daemon. Every invocation is a process of its own that starts, talks to a running
Zotero or to its files, and ends. All concurrency is therefore between *invocations* (scripts and
agents run several), between an invocation and the *user* of Zotero's window, and between an
invocation and *Zotero*, which goes on with a request after the CLI has stopped waiting for it.

## 1. Inventory

| Component | State | Operations | Talks to |
|---|---|---|---|
| live snapshot (`live_snapshot.rs`, `db.rs`) | cache directory of database copies; per process the remembered path (`BUILT`) | offer keys, template in Zotero (reuse or `VACUUM INTO`), rename, prune, open | Zotero through the CLI Bridge; other invocations through the directory |
| item writes (`lib.rs`, `write_router.rs`, `http/local_write.rs`, `bridge/js/item_*.js`) | the item in Zotero, its version | update, tag, trash, restore, erase, add to, move to, remove from a collection; attach, merge, note add | Local API (conditional request) or CLI Bridge (script) |
| collection commands (`lib.rs`, `bridge/client.rs`) | Zotero's collection tree | create, rename, trash, restore, erase | as above |
| credentials (`credentials.rs`, `write_router.rs`) | `local_api_credentials.json` | resolve, use, invalidate, authorize and store | Zotero's key list, consent dialog |
| session (`session.rs`, `lib.rs`) | `session.json` | use-*, clear-*, use-selected, append to the history | the file only |
| process lifecycle (`lifecycle.rs`, `app_launch.rs`, `runtime.rs`) | what the probes found; remembered ownership of the Bridge | ensure_backend, ensure_bridge, launch, wait, check before each script | Zotero's process, server, plugin |
| CLI Bridge client (`bridge/`) | `POSITIVE_PROBES` | probe, run a script, map its answer | the plugin |
| read-only database access (`db.rs`, `catalog.rs`, `search.rs`) | none | connect_readonly, queries | zotero.sqlite, live snapshot |
| target resolution, environment discovery (`target.rs`, `paths.rs`, `http.rs`) | none | resolve a reference; find profile, port, executable | files, Local API |
| import and add (`add_import.rs`, `import_*.rs`, `http/connector.rs`) | items, their filing and PDFs in Zotero; connector sessions | look up, deduplicate, import by translator, Crossref, arXiv or file, update the session, attach | Bridge scripts, Connector, Crossref, arXiv |
| PDF retrieval (`pdf_cascade.rs`, `pdf_fetch.rs`) | resume file of a collection | cascade of sources, attach, record, clear | network, Bridge |
| semantic index (`semantic/`) | `vectors.sqlite` (two tables) | build in batches, query | embedding API |
| audit log (`audit.rs`) | `audit.jsonl` | append, list | file |
| duplicates, notes, annotations, rendering, Word documents, doctor, plugin install, command line | none, or one file written once | pure functions, single reads and reports | - |

What is hard: two-step reads of Zotero's change counters with awaits between them; copies that other
invocations prune; full-array replacement from an earlier read; answers that come late or never;
files read, changed and written without a lock; kills between two file operations; probes that go
unanswered; the memo of a check that was true once. `PROJECT.json` lists each hazard at its line.

What makes each component correct: a snapshot read is one committed version and never older than
its request; a write takes effect at most once and its report does not claim more than happened; no
write takes an item out of a collection it was not told to; an import adds no second copy it could
have known of, and what it reports as imported is there; a key stays with its server and an
unreadable credential file is kept; a command changes its own fields of the session and no others;
Zotero is not launched beside one that answers, a capability reported ready is usable, and
scripts go to the verified plugin (they need not: section 5); the resume file names only items that got a PDF, and a run gives
no second one to an item it saw with one; the two tables of the index agree; a collection is not
created twice by commands that do not overlap, and what is reported as applied to it was done to all
below it; a reference means the same object whoever is asked; a search, a duplicate scan and a
merge preview show all of what they stand for.

## 2. Plan

Order: most-used data path first.

1. **The core.** `LiveRead`/`LiveSnapshot`; `AtomicWrites`/`ItemEdits`/`WritePath`;
   `CredentialStore`; `AtomicSession`/`SessionStore`; `Lifecycle`; `AddImport`. Proofs for each of them.
2. **The rest of the state.** `AtomicCollections`/`Collections` (create with its duplicate check,
   rename, trash, restore, erase with subcollections); `FetchPdfs` (the resume file, late scripts,
   `--limit`); `SemanticIndex` (two tables, batches, kills, a second build). Proofs for each of them.
3. **The decisions**, pure operators compared with what they promise: `TargetResolution` with
   `Targets`, `PdfSources`, `Ranking`, `ImportAttachments`, `Hygiene`, `Search`, put together by
   `Decisions` and checked by `MCAlgorithms`. Proofs for every input, for each of them.
4. **Still worth doing.** An abstract specification of read routing (`connect_readonly`) composed with
   `LiveRead`.

Compositions: `WritePath` is built on the pure operators of `ItemEdits`, which `AtomicWrites` shares.
`CredentialStore` refines what `WritePath` abstracts to "refused for authorization"; `Lifecycle`
what it abstracts to "the backend was chosen"; `TargetResolution` decides what `WritePath` and
`Collections` take as one step (`Resolve`), `PdfSources` what `FetchPdfs` does (`Cascade`). In
`FetchPdfs` the copy of the library an invocation keeps reading is the one `LiveRead` promises.

## 3. Modules

### LiveSnapshot (abstract: LiveRead)

`live_snapshot.rs`. Zotero is `db` (the number of commits), one connection and its two counters
(`changes` = `total_changes()`, `commits` = `_commitCount`) and a transaction. The template's awaits
are steps: `ReadChanges`, `CurrentKey`, `OfferedKeyIsCurrent`, `AwaitTransaction`,
`ReadKeyForCopy`, `Vacuum`, `VacuumRetried`, `VacuumGivesUp`. In the CLI: `Ask` (the first locked
read), `Request`, `AcceptReused`, `ReusedVanished`, `AcceptCopy` (rename), `ListForPrune` and
`PruneOne` (a listing, then one removal at a time), `Open`, and later reads of the remembered path.
A process may be killed anywhere (`Exit`), Zotero may restart under a request (`Restart`).
A copy is represented by the number of commits it holds.

Left out: incoming files of killed processes and their removal after an hour; renames and removals
that fail (Windows). Later reads of one invocation may go backwards, if another invocation renames
an older copy to the same name, but never below the version of its own request; and an invocation
whose copy was pruned refuses every later read. `LiveRead` allows both.

### WritePath (abstract: AtomicWrites, pure: ItemEdits)

The `item_*_command` functions over both backends. `ItemEdits` gives the commands as functions of an
item: `Patched` (a PATCH built from an earlier read), `Scripted` (what the Bridge script does inside
Zotero). `WritePath` gives the protocol: resolve, read, send once, receive, read back, report. The
Local API serves a request only at the version the command read (`ServeRequest`, `RejectStale`);
scripts run on the item as they find it. A request may be served after `TimeOut` or `Exit`.
`IgnoreRequest` is a success status without an effect and `ServePartly` one for some of the fields of
an update only, which the read-back is there for (lib.rs:1596-1599, write_router.rs:543-548): what is
read back compares (`Matches`) and is reported as applied, or is reported as a mismatch.
Zotero itself, its versions included, is external: modelled from how the code uses it.

Arrays are sets. `diff_requested_fields` compares them as JSON, in their order and with the type of each
tag, so `CheckFields` may report a mismatch of items that have the same sets, and never the reverse.
There is one item, and the collections exist throughout. Item attach and note add
are one script each and left out; merge is in `Hygiene`, what happens to collections in `Collections`.

### CredentialStore

`credentials.rs` with its users in `write_router.rs`. The file is `stored` (one key per server) or
`malformed`; a missing or empty file has no entries. `Resolve` takes the environment's key or the
file's; Zotero accepts or rejects it (`Accepted`, `Revoked`); a rejected stored key is removed by
reading the file again, dropping this server's entry and renaming a new file over it
(`Invalidate`, `Replace`); authorization waits for consent, which may come too late, and keeps the
key (`Keep`, `Replace`). No lock holds between reading and renaming, so that accepted keys are kept is
a promise to an invocation that is `Alone`: during which nobody else replaced the file. Keys are
numbered as issued.
Temporary files are left out: nobody reads them.

### SessionStore (abstract: AtomicSession)

`session.rs`. A command loads the session at its start, changes its fields, truncates and writes,
loads again for the history, truncates and writes again. `locked_save_json` tries a lock and writes
without it if it is taken, and loads take no lock, so the lock orders nothing and is not modelled.
`torn` is a file two writers mixed; it loads as no session, like an empty one. `AtomicSession` says
what is left to one user: an invocation goes through `Begin`, `Select`, `Saved`, `Record` and `End`, each
once and in this order; without overlap `Select` sets its fields and nothing else, `Record` enters it
in the history and does nothing else, the other three leave the session alone, and only a kill between
`Select` and `Saved` or between `Record` and `End`, that is during a save, loses it. Of invocations
that overlap nothing is promised: that they undo each other's changes and mix their saves is in the
code (section 5) and allowed by the abstraction, not caught. Its invocations
(`Invocation`) and their places (`stage`) have names of their own because its proofs share a module
with those of `Lifecycle`.

### Lifecycle

`ensure_backend` and `ensure_bridge`: each probe is a step, with Zotero's process, server and plugin
changing in between, and with probes that go unanswered for their 3 seconds (`ProbeUnanswered`) or are
answered with an error, which counts as no answer (`ProbeRefused`, http.rs:40-55; `Silence` in both).
`Missing`/`Launch`/`WaitEnds`/`WaitTimesOut` are the launch and the wait for the one capability
named; the runtime handed on comes from the probes after it. `CheckOwner` is the gate
before each script, which the memo (`owned`) satisfies once it has succeeded; `Deliver` is the script.
That a second Zotero gives way to the first is Zotero's behaviour. `heard` and `steady` only
record what happened; no action reads them. The message `app launch` prints is left out, and
autolaunch switched off, a missing executable and a failed spawn are the one action `LaunchFails`.

### AddImport

`add doi/arxiv/pmid/url/file` and `import file/json`. Zotero is `items`, what was done to each
(`labels`: filed in the collection, tagged, PDF attached), which are not in the library of the commands
(`gone`: erased by the user, or saved by the Connector to the library selected in Zotero), whether the `collection` named exists, and
`late`, the requests the CLI gave up and Zotero did not. An invocation has its command line (`args`),
its place (`pc`: the names of `Kind` mean that such a request is out), the item `at` hand, the entries
of a split file that went well (`good`) and its `report`.

`Begin` looks for a copy (`LookupFinds`, `LookupFindsNone`, `LookupFails`) or imports at once. An
attempt is `Save`, then for scripts the marking of the same script, for the Connector
`ResolveTarget` and the session update (`Perform`), then the PDF; `Imported` and `NotImported` say
where the command goes from there, `Fallback` which source is tried next, `NextEntry` how a split
file goes on and sums up. Any request may be refused or end with an exception (`Refuse`), be given up
(`TimeOut`) and still be served, or be served without telling the key that `add file` needs
(`NoKey`). A script for an item that is gone does nothing (`Misses`) and, since only the transport is
read, counts as done. A killed invocation is one that takes no further step. An item is known by the attempt that
imports it: whose, by which source, which entry. All are copies of one publication, which is the case
the deduplication is for. `present`, `blind` and `lost` only record what happened.

`Findable` is an abstraction of `find_items_by_doi`: the BibTeX of arXiv has no DOI field, so copies
imported from it are not found. Left out: several attachments of one item (`ImportAttachments`),
the contents of files, what `modified` and `attempts` report, and the wording of errors.

### Collections (abstract: AtomicCollections)

The `collection_*_command` functions over both backends, with Zotero's tree (`tree`: state, name and
parent of each key), the items filed in it, and a user who erases, trashes and refiles. An invocation
resolves the keys its command line names (`Resolve`), looks for a collection of that name (`FindsSibling`,
`FindsNone`, over the Local API only) or reads the version (`ReadVersion`), sends once, receives or
gives up, and reads back (`VerifyFields`, `VerifyTrash`, `VerifyErased`: over both backends an erasure is read back,
too; over the Local API what is still there, or cannot be read, is reported as unknown, over the Bridge as
a conflict or an error). Which backend carries a command is settled at
the start: whether the Local API can write, and whether it suffices for the command (`ApiSuffices`).
`Serve...` is what Zotero does
with a request, at once or after the invocation gave it up; the script that erases a collection with its
items awaits between two transactions (`ServeErase`, `ServeEraseItems`, `BreakOff`). `fresh` is
the version check of a conditional request. `hit`, `atStart` and `disturbed` only record what happened.

`AtomicCollections` says what is left of this to somebody who waits for the answer: a command lands
in one step on the tree as it is then (`Land`), an erasure with its items in two (`Finish`, or
`Break` after the first), or never will (`Close`), before or after its answer; and the answer is true of
that: applied only after it landed, refused only if it never will, an error only once nothing is still to
come, and unknown says nothing. `Status` reads the abstract status off the request and the place.

### FetchPdfs

`collection fetch-pdfs`, `collection find-pdfs` and `item fetch-pdf`. Zotero is the PDF attachments
(`pdfs`, `trash`) and the scripts the CLI gave up (`late`), which `Land` later or not at all. The resume
file is `file`; saving a key is `Load`, `Truncate`, `Write`, without a lock, and `open` is who still
writes to the file that is there: after `Clear` the old one has no name any more. For each item `Gate`
looks into the copy of the library that the invocation made for its first item (`seen`), `Find`
and `Verify` are Zotero's own finder and its read-back after a timeout, `Cascade` and `Attach` the
downloaded PDF. `saved` and `intact` only record what happened. Which source the PDF comes from is
left to `PdfSources`. Two runs at one file at once, and a PDF added after the copy was made, are
outside the properties (`intact`, `seen`), as their hazards say.

### SemanticIndex

`item build-index`: `Read`, `Connect`, then for every item `Take`, `Embed`, `InsertText`, `InsertVec`,
and a commit whenever the count of indexed items is a multiple of the batch. The SQLite file is its two
tables and a `journal`; the write lock is taken by the first insert of a transaction and held while the
embedding service is asked; a commit is two steps (`CommitBegins`, `CommitEnds`) between which the
build may be killed, and `RollBack` is what the next one to come does. Texts are represented by their
version. `torn` records an insert that failed between the two tables, which the code counts as an
error of the item while its text stays in the transaction.

### The decisions: Decisions, over TargetResolution (with Targets), PdfSources, Ranking, ImportAttachments, Hygiene, Search

Operators without state of their own, one per function of the source, and at the end of each module what
they promise. `Decisions` has one action per decision, which picks any of its inputs, and the properties that
compare what the code computes from it with that promise. Its ASSUMEs say what the inputs are.

* `Orders`: lists made by sorting (`InOrder`), stably (`Stable`), and by picking positions (`At`). A
  sorted list is defined by places, the number of elements that belong before one, and not by recursion: what
  it holds and how it is ordered then follows from the order alone.

* `TargetResolution`: what the Bridge, the Local API and the database answer to a reference
  (`BridgeAnswer`, `ApiAnswer`, `DatabaseAnswer`: found, missing, refused or silent), whose answer counts
  (`Resolve`), and the library of a new collection (`CreateTarget`). `Targets` puts the questions: any
  reference, in any session, whatever Zotero holds and the file still shows (`World`); the indexes
  of Zotero's tables are the assumption on `Holdings`.
* `PdfSources`: `--sources`, the URLs each source offers (`Urls`), one source's turn (`Asking`), the
  attempts and the first PDF (`Cascade`). An item without a DOI is asked for by its key
  (pdf_fetch.rs:631), so the branches for a missing DOI never run and the sources answer as they will.
* `Ranking`: `semantic_search` and `find_similar` from scores to the rounded, ordered, cut list.
* `ImportAttachments`: the manifest and the inline attachments, one upload after the other with its two
  deduplications, by source and by content (`Upload`), and the summary.
* `Hygiene`: `find_duplicates`; `item merge` without `--confirm` (`Preview`, over the Bridge or
  SQLite, of the session's library or the personal one) and with it (`Merge`, of what `TargetResolution`
  finds over the Bridge, in all libraries if none is selected, and refused if that is of two).
* `Search`: `item find` in one library, a collection or all libraries, while the database can be read
  (`Offline`: the Local API's quick search if Zotero answers, titles if not) and while Zotero holds it
  locked (`Live`, over the Bridge). A Local API request may fail, for which one library refuses
  (`Offline`) and all of them fall back to titles (`InAll`).

## 4. Runs

| Run | Instance | Shows |
|---|---|---|
| snapshot_safety | 2 processes, 2 attempts, 1 library commit, 2 row changes and 1 commit per connection, 1 restart | types; reads never stale; a current key names current content; refinement of LiveRead |
| snapshot_liveness | the same without restart, under `FairSpec` | every request ends answered or refused |
| write_path | 2 processes, any two of 10 commands, either backend, 1 user edit | types, erasures real, refinement of AtomicWrites (refusals are final), no foreign membership lost, what Zotero drops of a write is noticed |
| write_restore | 1 process, 1 user edit | *violation*: a restore of an erased item is reported as applied |
| credentials | 2 processes, 2 servers, 3 keys | types, keys stay with their server, only rejected keys are dropped |
| session | 3 processes, 2 fields, history limit 1 | types, refinement of AtomicSession: alone, each change once and in order |
| lifecycle | 2 processes, all 6 needs, 2 changes by the user | types, readiness, launches |
| add_import | 2 processes, any two of 9 command lines (at most one of the two with most fallbacks), 2 entries, with or without an earlier copy and the collection, 1 item erased or in another library | types, no second copy, every copy accounted for, success means done |
| collections | 2 processes, any two of 11 commands, either backend where the Local API suffices, a collection with a subcollection (in the trash or not), 2 keys to create, 1 item, 1 change by the user | types, no second collection of one name, what is reported as applied is done, refinement of AtomicCollections |
| fetch_pdfs | 2 processes, 2 items, 4 pairs of command lines, 1 PDF of the user's that comes and goes, under `FairSpec` | types, the resume file, no second PDF, every run ends |
| semantic_index | 2 builds, 4 items of which one has no text, 2 versions of a text, batches of 2 | types, both rows or none, what is counted is stored |
| algorithms | one step chooses an input of one decision: about 880,000 inputs | the six decisions against what they promise |

**Why these bounds.** Snapshot hazards need one reader with a copy in flight, one other that renames
and prunes, a committed change with its counters, an uncommitted one, and a restart that starts the
counters again: 1 to 2 of each. With `Attempts = 2` the template waits for a transaction and goes
round once more, as it would for 5. In WritePath a conflict takes two writers, and an
interference one user edit; two collections distinguish the one added from the one kept, and two fields the one dropped from the
one written. Three keys
are one rejected, one newer and one of the other server. The
session needs two overlapping invocations and a third that starts before or after; a limit of 1 is
reached at once. In Lifecycle two changes are a start and a quit, a quit and a start, or two
exchanges of the plugin. In AddImport two invocations are one that imports and one that looks or
imports beside it; the nine lines reach every job, policy, source and wish; two entries are one that
goes well and one that does not; one item that is gone is the copy, or what was just imported. In Collections the eleven commands are each operation on the
collection with and without its items, on the one below it, and creates that have, had and will have
a sibling of their name; one change by the user is enough to separate what a command did from
what others did. In FetchPdfs the pairs are the ones that meet at the resume file (with and without
`--reset-resume`), at an item (the finder beside a batch) or at the cut of `--limit`; of two items one
may be done and one not. In SemanticIndex three items with a text and batches of 2 make a full batch and a last transaction
with a row in it; when one fails or is known, the last one is empty; an item without text
is skipped; two versions tell whose row is there.
The inputs of `algorithms` are given in its module: two libraries with a key in both, every
combination of sources that answer, fail or are silent; three URLs; three attachments of which two have
one content and two one path; five papers of two DOIs; three items to merge, one of which may be
in another library and have another's key, named by key or number, one of them twice, with either
library selected or none; three libraries of three types, one of which may fail, two items in any
of them, and limits that cut and do not. The proofs below do not depend on any of these.

`CHECK_DEADLOCK FALSE` is set because every invocation ends: when all have, and the bounded
environment is exhausted, nothing is left to happen. That nobody waits for ever is a property of
its own where anybody waits (`EventuallyAnswered`, `RunsEnd`).

**Fairness.** `fetch_pdfs`: weak fairness of each invocation's steps, for every request and every
download has a time limit after which the invocation goes on; no script need ever end. `snapshot_liveness`: weak fairness that a transaction of Zotero ends; weak
fairness of each process and of its template, which Zotero's event loop runs; strong fairness of
`AwaitTransaction`, since `waitTransaction` is woken by the end of the transaction it waits
for, whatever starts afterwards. `Exit`, `RequestFails` and all of Zotero's writes are not fair.

## 5. Findings

A run finds the code at odds with its own comment: over the Bridge a restore whose item was erased
meanwhile is reported as applied (`RestoredMeansThere`).

**Where code and comments disagree** besides. bridge/client.rs:247-251 says that "an unowned endpoint
can never receive a script". `UnownedGetNoScripts` in `Lifecycle` states it; the code does not hold to it, and
no run checks it. TLC refutes it in seven states (put it in the PROPERTY line of `MCLifecycle.cfg`): the
handshake succeeds and is remembered, the plugin is exchanged (`PluginChanges`, `PluginStarts`), the
check before the script answers from memory (`CheckOwner`), and the other plugin gets the script
(`Deliver`). runtime.rs:62 asks "whether some Zotero HTTP surface answered", but an answer with an error
counts as none (http.rs:40-55, `ProbeRefused`): a Zotero that answers every probe so, or is too busy to
answer in time, is taken for closed and launched again.

**Known divergences.** Met while modelling, each in the module as the code has it, none stated as a
property:

* Two invocations that find Zotero closed both launch it (lifecycle.rs:208).
* The comparison after a write is of JSON: the order of an array, a tag that was automatic and is added
  over the Bridge, or a field emptied on request is reported as a mismatch without any (lib.rs:1600-1616).
* `add file` reports IMPORTED_WITH_PDF when the attach script answered 'ERROR: item not found', with
  status 200, for an item that was erased or saved to another library (add_import.rs:160-171, :927-941).
* A rejection drops whatever entry the file has by then, be it a newer key that another invocation has just
  stored (write_router.rs:122); a key the user consented to too late, or that cannot be stored, stays
  granted and nobody has it (write_router.rs:439).
* Invocations that change the session at once undo each other's changes, and may leave a file that is
  none (session.rs:122, lib.rs:136): the lock that is taken, or not, changes nothing.
* A search over all libraries cuts each one's hits to the newest before it orders all of them by title,
  so an exact title can be cut off (search.rs:474-525); a negative limit means another thing in each of
  the three places it is read (catalog.rs:17, db.rs:1441, search.rs:375).
* Zotero closed, all scopes of `item find` search titles alone (catalog.rs:186).
* `prune` keeps the copy its own process just renamed (live_snapshot.rs:306), not "the latest one" (:32).
* `item move-to-collection` without flags is additive over the Local API (lib.rs:2389-2391) and, over the
  Bridge, leaves every other collection (bridge/js/item_move_to_collection.js:10).
* Of two overlapping replacements of the credential file the later undoes the earlier's entry for
  another server (credentials.rs:275, against :270-271).
* `import file` and `import json` report an error, not a partial success, when the session update fails
  after the items were created (import_core.rs:203), or the target cannot be resolved after them: a retry
  makes second copies.
* `import file` of several BibTeX entries with an attachment manifest attaches nothing and succeeds
  (import_core.rs:412).
* Matching an attachment by `expected_title` passes over a missing connector id, which is unwrapped later
  (import_attachments.rs:211, :239).
* The Local API gives the personal library as 0, the other sources as 1: `collection create --parent`
  may refuse a parent in the same library (lib.rs:2602).
* A number that names an item in SQLite is looked up without regard to the selected library
  (db.rs:1484), unlike over the Bridge.
* `item find --collection` of another library's collection finds nothing while Zotero runs, instead of
  refusing; over all libraries `titleCreatorYear` means titles alone unless the database is locked.
* `item merge --confirm` over the Bridge ends in a conflict even when it was carried out, since trashed
  items still resolve (lib.rs:2499); an item kept and also named by its number is merged into itself.
* The duplicate scan cuts at `--limit` before it orders the groups; limits and `top_k` of 0 give one.
* A `fetch-pdfs --limit` that finds its whole batch clears the resume file (pdf_cascade.rs:244, as its
  comment says).
* An index row whose vector cannot be inserted stays half (semantic/mod.rs:372), and later builds skip it.

## 6. Proofs

Each proof module extends the module it is about. The constants are arbitrary under the ASSUMEs
of the modules: bounds are natural numbers, `Attempts` and `Limit` are positive, commands and items are
well-typed. The bounds occur in the guards only, so nothing proved depends on how large they are. Two
modules prove about two components or more each, which have no state in common.

* **ReadPathProofs**, the snapshot. `TypeCorrect`, `NeverStaleHolds`, `KeyNamesContentHolds`, `Refinement`.
  `NeverStale` is not inductive: it says nothing of copies not yet opened. `IInv` adds `Past` (no
  copy is ahead of Zotero in content or in name), `Current` (a copy named by the key of this moment
  holds the library of this moment) and, for each process, `KeyPast` (the key it read is not ahead
  of the counters), `HalfFresh` (between the two reads of the key: a copy the half-read key may still
  turn out to name is no older than the process's `floor`) and `Fresh` (nor is any copy under its
  complete key). The refinement maps each action to a step of
  `LiveRead` or a stutter.
* **ReadPathProofs**, the targets. `TargetIsTheOneMeantHolds`. An object that was found is one the
  source holds, has the id or the key asked for, and is in the library meant (`FoundFacts`, one
  source at a time); of several with the key it is the one of the first library listed
  (`FirstListedFacts`), and the indexes of Zotero's tables allow no two with that library
  (`Unique`). So whichever sources answered, they answer alike if they hold the same (`Agreement`), and
  a new collection is beside its parent (`BesideItsParent`).
* **ReadPathProofs**, the other decisions. `FirstPdfWinsHolds`, `SearchesAreWholeHolds`,
  `SkippedMeansStoredHolds`, `DuplicatesAsShownHolds`: of every input the ASSUMEs of `Decisions` admit,
  lists of any length, any limits and thresholds. The only invariant of a step is that the input is
  one of those (`GivenAlways`); the rest is about what sorting and going through a list computes.
  The library's induction theorems take an operator, which no prover here can instantiate. The proofs use
  sets instead: a set of naturals has a least member, since inclusion of finite sets is well-founded
  (`Least`), so a set with 0 and with the successor of each of its members below n has them all
  (`Induction`), a recursive function has a value (`Recursion`), and what each turn keeps, every state
  that is passed has (`KeptAlong`).
  * Sorting: a place in an order of n elements is one of 1 .. n and nobody shares it (`Places`, by
    counting and the pigeonhole), so the list has every element once and in order (`Listing`). A
    sort key that tells elements apart consistently (`IsWeakOrder`) and positions give such an order (`StableOrder`).
  * The cascade: until a source has found the PDF the report has a line for every source asked, none
    of them ok, and all of them different (`ReportInv`, one turn at a time in `ReportStep`).
  * The uploads: `RunInv` says that the two memories of an upload are what was saved before under
    the same parent (`Remembered`), that what was skipped is there (`SkipsAreThere`), that nothing was
    created twice (`CreatedOnce`), and that Zotero has what was created, once, unless something failed
    (`StoredOnce`: a late answer may have been stored). One attachment keeps it, whichever way it ends (`FailureKeeps`, `SkipKeeps`,
    `CreationKeeps`), so a plan does (`PlanStep`) and a run (`RunRuns`).
  * The ranking: of the sorted list the first chunk of each item is its best, and what the cut leaves
    out comes later (`RankedIsBest`). Search: what a source lists is in scope and no longer than asked
    (`InAllFacts`, `BridgeFacts`, `ScopeIsKept`). A library asked alone shows all it finds (`AskedAlone`), so all
    of them together show each one's, up to the limit (`EachTogether`); as long as the limit cuts
    nothing off, they find together what the Bridge finds at once (`EachFindsAll`, `LockIsNothing`).
  * Duplicates: a key that two items share has one head, the first of its positions, which `Least`
    finds (`HeadsFacts`), and its group has all of them (`MembersFacts`, `GroupFacts`); as long as
    fewer groups than the limit are shown, all are (`ScanIsWhole`).
  * Merges: a key names one item of the library previewed, or none (`KeyNames`); what the merge
    resolves is that item, or, if there is none, nothing or an item of another library, for which it is
    refused (`Resolves`); what is moved is counted without overlap, since an attachment has one parent
    (`ChildrenCounted`), and the survivor is the one item with its key in that library afterwards
    (`PreviewIsTheMerge`).
* **WritePathProofs.** `TypeCorrect`, `RefusedNeverLandsHolds`, `ErasedMeansGoneHolds`,
  `OnlyNamedHolds`, `DropsAreNoticedHolds`, `Refinement`.
  `IInv` ties the request to the process's place (nothing sent before `send`, answered before `check`), says that an unserved request at the current version was
  built from the current item, and that an erased item stays erased. From the second, `Patched` on
  the earlier read equals `Effect` on the present item, which is the step `Land` of `AtomicWrites`.
  What the read-back notices compares three moments, so it has an invariant of its own, `Compared`: a
  command that finds the version it read has what it read, also after its request was ignored; and an
  item that got a part of an update, and nothing since, does not show what was asked for
  (`PartlyDoesNotMatch`).
* **CredentialStoreProofs.** `TypeCorrect`, `KeysStayHolds`, `MalformedIsKeptHolds`,
  `AcceptedKeysHold`, the last for an invocation that is `Alone`. `IInv` carries the ownership of keys to every draft waiting to be written, says
  that nobody drafts over a malformed file, and that a draft of an invocation alone
  since its read differs from the file only in its own server's entry.
* **CollectionsProofs.** `TypeCorrect`, `NoSecondSiblingHolds`, `AppliedMeansDoneHolds`, `Refinement`.
  `IInv` ties the request to the place (`Order`: what is read back or reported as applied was carried
  out, half a request is an erasure that hit something), keeps what the command line names in the tree
  while nobody else touches it (`NamedAreThere`), the collections of the start too and, since
  the search, none of them a sibling (`StartedFrom`), and the effect of a request in place as far as
  nobody else touches it (`EffectStays`). Everybody else's steps only add to `disturbed` what
  they change (`Watches`), which those three are relative to. In the refinement each `Serve...` is the
  `Land` or `Finish` of its command, since both modules walk the same tree (`SameTree`); of an
  invocation's own steps only the start and the report are seen, and `Order` gives the status each report
  needs.
* **LifecycleAndSessionProofs**, the session. `SessionTypeCorrect`, `SessionRefinement`.
  What one reads from the file is not what the next load finds while a save is under way, so the refinement maps the session to the writer's copy
  then. `SessionInv` says that whoever overlaps nobody runs alone (`Solitary`), that its copy is what it
  loaded with its own change (`Prepared`) and the file still as it truncated it, and that no copy's
  history exceeds the limit (`Bounded`), so that a load after the write cuts nothing. A
  `Truncate` is the abstract `Select` or `Record`, its `Write` the `Saved` or `End` that leaves the
  session alone; of an invocation that overlaps another every session is as good.
* **LifecycleAndSessionProofs**, the lifecycle. `TypeCorrect`, `NeverBesideAnAnsweringHolds`,
  `ReadyMeansUsableHolds`. The properties look at one place of an invocation each; `IInv`
  carries to it what the earlier probes established: a Zotero that answered them all answered the
  Connector's (`Answered`), and the capability that ended the wait is still there and the probes since
  have found it (`Waited`).
* **FetchPdfsProofs.** `TypeCorrect`, `CompletedHadPdfHolds`, `NeverASecondPdfHolds`,
  `NothingIsTriedTwiceHolds`, each from an invariant of its own over `TInv` (`TypeOK`, and that an
  item at hand is one of a queue that is not empty: the smallest, which exists because `<` is
  well-founded). `PInv` carries what has a PDF through the copies of the library, the found items
  and the keys about to be written. `SInv` says that an item being tried without `--force` has no PDF
  in the copy, also while the script it sent is still `late`. `KInv` says that while the file is
  `intact` one run at most is at it (`Alone`), it names what was saved unless that run is just writing
  (`Named`), and then the run has all of it in hand (`Kept`).
* **SemanticIndexProofs.** `TypeCorrect`, `BothRowsOrNoneHolds`, `IndexedIsStoredHolds`. What a
  commit makes visible is decided earlier, so `IInv` adds: an open transaction holds both rows of an
  item unless it is between the inserts or the second failed (`Paired`); the journal of a commit
  under way has the tables as they were, and each table is still that or has all its new rows
  (`Writing`); a journal stands only under a writer or under no lock (`Journalled`), so nobody begins
  a commit on one; and what a build counts is stored or in its transaction (`Counted`). `Advance`
  then says that what readers find changes only as a commit ends, by exactly its transaction.
* **AddImportProofs.** `TypeCorrect`, `NoSecondCopyHolds`, `CopiesAccountedForHolds`,
  `SuccessMeansDoneHolds`. `IInv` says the same of every invocation on its own (`Sound`): before its
  lookup ended it has imported nothing (`Untouched`); the copies it could have found are in Zotero, gone or not
  (`Known`), so one that looks for them leaves the imports alone (`Kept`); a given-up import is
  entered as lost (`Plan`), and what it imported is lost, went well or is at hand (`Accounted`); what
  was answered so far is so in Zotero (`Served`, `Told`). The steps are gathered into `Failing`,
  `Answering`, `Unattended` and the invocation's own; since items, labels and what is gone only grow, no step of
  another disturbs `Sound` (`BystanderKeeps`, `ReusesLess`).

**Assumptions.** Nothing but the ASSUMEs of the modules: that bounds are natural numbers (`Attempts`,
`Limit` and `Entries` positive), commands well-typed, the library's user no invocation, "no copy
yet" no copy of a library, `Blank` items of the library, no key both a collection's and an item's,
that libraries count from 1 with the personal one first and no two objects share an id or a key of a
library (Zotero's own indexes), and that a command line wants a PDF only where the code can attach one.
Those of `Decisions` type the inputs and say: the URLs the preprint servers build from a DOI differ;
one real path, or one URL without its fragment, has one content while a run lasts; no two items have an id or a
child in common, nor, in one library, a key; references by key that agree in the key agree
altogether; libraries and items of a search have ids of their own, an item's collection is in its
library, and a title that matches is found by the quick search as well. `algorithms` evaluates them
on all its inputs.

**Only model-checked.** `EventuallyAnswered` and `RunsEnd`: liveness under fairness is out of the
prover's reach, as is ENABLED. Every other property of a passing run is proved.

**Not modelled.** Environment discovery and read routing appear only as far as other modules need
them. The audit log is one append per command. Notes, annotations, rendering, Word documents, doctor and
plugin installation are pure functions of what was read, or single files written once: nothing of
theirs interleaves, and a unit test reaches it. The content of requests, titles, messages and
layouts are left out throughout.
