------------------------- MODULE ImportAttachments -------------------------
(* import_attachments.rs: the attachments of one import session, uploaded  *)
(* one after the other to the items the Connector returned.  A plan is     *)
(* [index, title, attachments]; an item [id, title]; a world says what a   *)
(* file or URL holds, and which uploads the Connector refuses or answers   *)
(* too late.                                                               *)
EXTENDS Orders, SequencesExt

CONSTANT None       \* no path, no URL, no title, no connector id

(* normalize_attachment_descriptor: exactly one of path and URL.  [source] *)
(* is what is fetched, [key] what it is recognised by: a file's real path, *)
(* a URL without its fragment.                                             *)
Descriptor(raw) ==
    IF (raw.path = None) = (raw.url = None) THEN [ok |-> FALSE]
    ELSE [ok |-> TRUE, source |-> IF raw.path = None THEN raw.url ELSE raw.path]

WellFormed(raws) == \A i \in DOMAIN raws : Descriptor(raws[i]).ok

Descriptors(raws) == [i \in DOMAIN raws |-> Descriptor(raws[i]).source]

Malformed == [ok |-> FALSE, plans |-> <<>>]

(* read_attachment_manifest: one bad entry or a repeated index refuses the *)
(* whole manifest; no title expected is None.                              *)
ReadManifest(entries) ==
    IF \/ \E i, j \in DOMAIN entries : i # j /\ entries[i].index = entries[j].index
       \/ \E i \in DOMAIN entries : ~WellFormed(entries[i].raws)
    THEN Malformed
    ELSE [ok |-> TRUE,
          plans |-> [i \in DOMAIN entries |->
                        [index |-> entries[i].index, title |-> entries[i].title,
                         attachments |-> Descriptors(entries[i].raws)]]]

(* extract_inline_attachment_plans: a plan for each item that has some.    *)
InlinePlans(items) ==
    LET some == {i \in DOMAIN items : items[i].raws # <<>>}
        with == InOrder(some, Ascending(some))
    IN  IF \E i \in DOMAIN items : ~WellFormed(items[i].raws) THEN Malformed
        ELSE [ok |-> TRUE,
              plans |-> [n \in DOMAIN with |->
                            [index |-> with[n], title |-> None,
                             attachments |-> Descriptors(items[with[n]].raws)]]]

-----------------------------------------------------------------------------
(* The run so far: its results in order, what each parent is known to have *)
(* by source and by content, and what Zotero stored.                       *)
Begun == [results |-> <<>>, sources |-> {}, contents |-> {}, stored |-> <<>>,
          panicked |-> FALSE]

Result(plan, parent, source, status) ==
    [index |-> plan.index, parent |-> parent, source |-> source, status |-> status]

With(run, result) == [run EXCEPT !.results = Append(@, result)]

(* Preflight of upload_plan.  The match arms are tried in order: a title   *)
(* that is expected and matches hides that the item has no connector id,   *)
(* and the later unwrap panics.                                            *)
Preflight(items, plan) ==
    IF plan.index \notin DOMAIN items THEN "no item"
    ELSE IF plan.title # None
         THEN IF items[plan.index].title # plan.title THEN "title mismatch"
              ELSE IF items[plan.index].id = None THEN "panic" ELSE "fine"
    ELSE IF items[plan.index].id = None THEN "no id" ELSE "fine"

(* Mutant: a source is remembered before its upload was answered. *)
UploadRememberedEarly(world, run, plan, parent, source) ==
    LET content == world.content[source]
        key == <<parent, world.key[source]>>
        begun == [run EXCEPT !.sources = @ \cup {key}]
    IN  IF key \in run.sources
        THEN With(run, Result(plan, parent, source, "skipped_duplicate"))
        ELSE IF content = None
        THEN With(begun, Result(plan, parent, source, "failed"))
        ELSE IF <<parent, content>> \in run.contents
        THEN With(run, Result(plan, parent, source, "skipped_duplicate"))
        ELSE IF world.answer[Len(run.results) + 1] = "saved"
        THEN [With(begun, Result(plan, parent, source, "created")) EXCEPT
                 !.contents = @ \cup {<<parent, content>>},
                 !.stored = Append(@, <<parent, content>>)]
        ELSE With(begun, Result(plan, parent, source, "failed"))

(* upload_descriptor: a source or a content this parent is known to have   *)
(* is skipped; both are remembered only once the Connector said saved.     *)
(* An answer that comes too late is a failure, and the file is stored.     *)
Upload(world, run, plan, parent, source) ==
    LET content == world.content[source]
        key == <<parent, world.key[source]>>
        answer == world.answer[Len(run.results) + 1]
        failed == With(run, Result(plan, parent, source, "failed"))
        stored == Append(run.stored, <<parent, content>>)
    IN  IF key \in run.sources \/ (content # None /\ <<parent, content>> \in run.contents)
        THEN With(run, Result(plan, parent, source, "skipped_duplicate"))
        ELSE IF content = None \/ answer = "refused" THEN failed
        ELSE IF answer = "late" THEN [failed EXCEPT !.stored = stored]
        ELSE [With(run, Result(plan, parent, source, "created")) EXCEPT
                 !.sources = @ \cup {key},
                 !.contents = @ \cup {<<parent, content>>},
                 !.stored = stored]

(* upload_plan. *)
UploadPlan(world, items, run, plan) ==
    LET check == Preflight(items, plan)
        parent == IF plan.index \in DOMAIN items THEN items[plan.index].id ELSE None
        after[i \in 0 .. Len(plan.attachments)] ==
            IF i = 0 THEN run
            ELSE IF check = "fine"
            THEN Upload(world, after[i - 1], plan, parent, plan.attachments[i])
            ELSE With(after[i - 1], Result(plan, parent, plan.attachments[i], "failed"))
    IN  IF run.panicked THEN run
        ELSE IF check = "panic" THEN [run EXCEPT !.panicked = TRUE]
        ELSE after[Len(plan.attachments)]

(* perform_attachment_upload. *)
Run(world, items, plans) ==
    LET after[i \in 0 .. Len(plans)] ==
            IF i = 0 THEN Begun ELSE UploadPlan(world, items, after[i - 1], plans[i])
    IN  after[Len(plans)]

(* attachment_summary, and the status import_file and import_json derive   *)
(* from it.                                                                *)
Count(run, status) == Cardinality({i \in DOMAIN run.results : run.results[i].status = status})

Status(run) == IF Count(run, "failed") > 0 THEN "partial_success" ELSE "success"

-----------------------------------------------------------------------------
Planned(plans) ==
    LET all[i \in 0 .. Len(plans)] ==
            IF i = 0 THEN <<>> ELSE all[i - 1] \o plans[i].attachments
    IN  all[Len(plans)]

(* A run that ends has answered for each planned attachment in its turn;   *)
(* it skipped one only where the parent already has that source or that    *)
(* content, saved under a result reported as created; and it reports no    *)
(* file of one parent as created twice (import_attachments.rs:117-312).    *)
SkippedMeansThere(world, items, plans) ==
    LET run == Run(world, items, plans)
        Created(j, parent) ==
            run.results[j].status = "created" /\ run.results[j].parent = parent
    IN  ~run.panicked =>
            /\ [i \in DOMAIN run.results |-> run.results[i].source] = Planned(plans)
            /\ \A i \in DOMAIN run.results : run.results[i].status = "skipped_duplicate" =>
                   \E j \in 1 .. i - 1 :
                       /\ Created(j, run.results[i].parent)
                       /\ \/ world.key[run.results[j].source] = world.key[run.results[i].source]
                          \/ world.content[run.results[j].source] = world.content[run.results[i].source]
            /\ \A i, j \in DOMAIN run.results :
                   /\ i < j /\ Created(i, run.results[j].parent)
                   /\ run.results[j].status = "created"
                   => world.content[run.results[i].source] # world.content[run.results[j].source]

(* When the run reports success, every file it was asked for is in Zotero  *)
(* under the item it was planned for, once.                                *)
SuccessMeansStored(world, items, plans) ==
    LET run == Run(world, items, plans)
    IN  ~run.panicked /\ Status(run) = "success" =>
            \A p \in ToSet(plans) : \A source \in ToSet(p.attachments) :
                Cardinality({i \in DOMAIN run.stored :
                    run.stored[i] = <<items[p.index].id, world.content[source]>>}) = 1
=============================================================================
