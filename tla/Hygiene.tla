------------------------------ MODULE Hygiene ------------------------------
(* hygiene.rs and item merge: groups of duplicate items, what the preview  *)
(* of a merge announces, and what the merge then does.                     *)
EXTENDS Orders, SequencesExt, TargetResolution

CONSTANT Keyless      \* no DOI, or no title long enough to compare

(* An item of the scan is [key, kind, doi, title, pdf, date], its DOI and  *)
(* its title as norm_doi and norm_title fold them.                         *)
MatchKey(item, by) == IF by = "doi" THEN item.doi ELSE item.title

(* The positions of the items that are compared, and of those that share a *)
(* match key with the one at i.                                            *)
Compared(items, by) ==
    {i \in DOMAIN items : items[i].kind = "regular" /\ MatchKey(items[i], by) # Keyless}

Same(items, by, i) ==
    {j \in Compared(items, by) : MatchKey(items[j], by) = MatchKey(items[i], by)}

(* Members with a PDF first, then by date.                                 *)
KeepFirst(a, b) == (a.pdf /\ ~b.pdf) \/ (a.pdf = b.pdf /\ a.date < b.date)

(* Where the scan first sees the match keys that it sees again.            *)
Heads(items, by) ==
    {i \in Compared(items, by) : Same(items, by, i) # {i}
                                 /\ \A j \in Same(items, by, i) : i <= j}

Group(items, by, head) ==
    LET found == Same(items, by, head)
        earlier == {p \in found \X found : KeepFirst(items[p[1]], items[p[2]])}
        members == InOrder(found, Stable(found, earlier))
    IN  [match |-> MatchKey(items[head], by), keep |-> items[members[1]].key,
         items |-> [n \in DOMAIN members |-> items[members[n]]]]

(* find_duplicates: groups of two or more in the order first seen, cut     *)
(* once there are limit of them (after the first, if limit is 0), and only *)
(* then sorted, the largest first.                                         *)
FindDuplicates(items, by, limit) ==
    LET heads == InOrder(Heads(items, by), Ascending(Heads(items, by)))
        shown == {n \in DOMAIN heads : n = 1 \/ n <= limit}
        groups == [n \in shown |-> Group(items, by, heads[n])]
        larger == {p \in shown \X shown : Len(groups[p[1]].items) > Len(groups[p[2]].items)}
        sorted == InOrder(shown, Stable(shown, larger))
    IN  [n \in DOMAIN sorted |-> groups[sorted[n]]]

-----------------------------------------------------------------------------
(* What Zotero holds is a set of [library, key, id, tags, collections,     *)
(* children, trashed]; the session selects a library or none.  A reference *)
(* is [kind, key, id].                                                     *)

(* session_library_id(session, 1).                                         *)
Previewed(selected) == IF selected = {} THEN {Personal} ELSE selected

(* The preview is of one library.  Its script reads a reference as a key   *)
(* only; the database, asked when the Bridge cannot answer or does not     *)
(* know the survivor, reads numeric ids as well, and those of any library. *)
PreviewNamed(held, selected, ref, source) ==
    {o \in held : IF ref.kind = "id" THEN source = "database" /\ o.id = ref.id
                  ELSE o.key = ref.key /\ o.library \in Previewed(selected)}

TheOne(hits) == CHOOSE o \in hits : TRUE

Rejected(why) == [ok |-> FALSE, why |-> why]

(* What is to be added, once, of what the survivor does not have already.  *)
Added(own, offered) == (UNION offered) \ own

PreviewFrom(held, selected, keep, refs, source) ==
    LET named(ref) == PreviewNamed(held, selected, ref, source)
        known == {i \in DOMAIN refs : named(refs[i]) # {}}
        others == [i \in known |-> TheOne(named(refs[i]))]
        own == TheOne(named(keep))
    IN  IF named(keep) = {} THEN Rejected("keep item not found")
        ELSE [ok |-> TRUE,
              missing |-> {r \in ToSet(refs) : named(r) = {}},
              tags |-> Added(own.tags, {others[i].tags : i \in known}),
              collections |-> Added(own.collections, {others[i].collections : i \in known}),
              move |-> Cardinality(UNION {{i} \X others[i].children : i \in known}),
              trash |-> [i \in known |-> others[i].key]]

(* item_merge_command: the references that repeat the survivor's letter by *)
(* letter are dropped, and something must be left.                         *)
WithoutKeep(keep, refs) == At(refs, {i \in DOMAIN refs : refs[i] # keep})

(* merge_preview.                                                          *)
Preview(held, selected, bridge, keep, all) ==
    LET refs == WithoutKeep(keep, all)
        live == PreviewFrom(held, selected, keep, refs, "bridge")
    IN  IF refs = <<>> THEN Rejected("invalid arguments")
        ELSE IF bridge /\ live.ok THEN live
        ELSE PreviewFrom(held, selected, keep, refs, "database")

(* Zotero.Items.merge: the survivor takes over tags, collections and       *)
(* children, and the others go to the trash, where their keys still        *)
(* resolve.                                                                *)
Merged(held, survivor, others) ==
    {IF o = survivor
     THEN [o EXCEPT !.tags = @ \cup UNION {p.tags : p \in others},
                    !.collections = @ \cup UNION {p.collections : p \in others},
                    !.children = @ \cup UNION {p.children : p \in others},
                    !.trashed = @ \/ o \in others]
     ELSE IF o \in others THEN [o EXCEPT !.trashed = TRUE, !.children = {}]
     ELSE o : o \in held}

(* The merge is of what the Bridge resolves, in all libraries when none is *)
(* selected.                                                               *)
Resolved(held, selected, ref) ==
    BridgeAnswer([bridge |-> TRUE, live |-> held], ref, selected)

(* Mutant: whatever library they are of. *)
MergeAcross(held, selected, keep, all) ==
    LET refs == WithoutKeep(keep, all)
        answer(ref) == Resolved(held, selected, ref)
        others == {answer(refs[i]).object : i \in DOMAIN refs}
    IN  IF refs = <<>> THEN Rejected("invalid arguments")
        ELSE IF \E r \in {keep} \cup ToSet(refs) : answer(r) = Missing
        THEN Rejected("item not found")
        ELSE [ok |-> TRUE, held |-> Merged(held, answer(keep).object, others),
              outcome |-> "conflict"]

(* item merge --confirm: every reference must resolve, in the survivor's   *)
(* library; the merge; and the read-back, which calls a merged item that   *)
(* still resolves a conflict.                                              *)
Merge(held, selected, keep, all) ==
    LET refs == WithoutKeep(keep, all)
        answer(ref) == Resolved(held, selected, ref)
        survivor == answer(keep).object
        others == {answer(refs[i]).object : i \in DOMAIN refs}
        after == Merged(held, survivor, others)
    IN  IF refs = <<>> THEN Rejected("invalid arguments")
        ELSE IF \E r \in {keep} \cup ToSet(refs) : answer(r) = Missing
        THEN Rejected("item not found")
        ELSE IF \E o \in others : o.library # survivor.library
        THEN Rejected("not of one library")
        ELSE [ok |-> TRUE, held |-> after,
              outcome |-> IF \E o \in others, p \in after :
                                p.library = o.library /\ p.key = o.key
                          THEN "conflict" ELSE "applied"]

-----------------------------------------------------------------------------
(* Each group holds every regular item of the scan with its key, and only  *)
(* those; it suggests to keep one that has a PDF if any has, the oldest of *)
(* them; no key has two groups; the largest group comes first; and all     *)
(* groups are there unless the limit was reached (hygiene.rs:141-196).     *)
DuplicatesAreWhole(items, by, limit) ==
    LET groups == FindDuplicates(items, by, limit)
        Members(k) == {i \in ToSet(items) : i.kind = "regular" /\ MatchKey(i, by) = k}
        repeated == {k \in {MatchKey(i, by) : i \in ToSet(items)} \ {Keyless} :
                        Cardinality(Members(k)) > 1}
    IN  /\ \A n \in DOMAIN groups :
               LET g == groups[n]
               IN  /\ ToSet(g.items) = Members(g.match)
                   /\ \A m \in Members(g.match) : m.key = g.keep =>
                          \A o \in Members(g.match) : ~KeepFirst(o, m)
        /\ \A m, n \in DOMAIN groups : m < n =>
               /\ groups[m].match # groups[n].match
               /\ Len(groups[m].items) >= Len(groups[n].items)
        /\ Len(groups) < limit => {groups[n].match : n \in DOMAIN groups} = repeated

(* When items are named by their keys, the preview that finds them all and *)
(* the merge that is then confirmed agree, although the preview looks in   *)
(* one library and the merge, if none is selected, in all of them: the     *)
(* merge is refused if the preview missed an item and not otherwise, it    *)
(* gives the survivor the tags and collections announced and no others,    *)
(* and it trashes the items announced and changes no others                *)
(* (hygiene.rs:304-518, lib.rs:2413-2526).                                 *)
PreviewTellsTheMerge(held, selected, bridge, keep, all) ==
    LET plan == Preview(held, selected, bridge, keep, all)
        merge == Merge(held, selected, keep, all)
        shelf(S) == {o \in S : o.library \in Previewed(selected)}
        kept(S) == TheOne({o \in shelf(S) : o.key = keep.key})
        before == kept(held)
        after == kept(merge.held)
    IN  (\A r \in ToSet(all) \cup {keep} : r.kind = "key") /\ plan.ok =>
            /\ merge.ok <=> plan.missing = {}
            /\ merge.ok =>
                   /\ after.tags = before.tags \cup plan.tags
                   /\ after.collections = before.collections \cup plan.collections
                   /\ plan.tags \cap before.tags = {}
                   /\ \A o \in merge.held \ held :
                          o \in shelf(merge.held) /\ o.key \in Range(plan.trash) \cup {keep.key}
                   /\ \A o \in shelf(merge.held) : o.key \in Range(plan.trash) => o.trashed
                   /\ before.trashed = after.trashed
                   /\ IsInjective(plan.trash) =>
                          Cardinality(after.children) = Cardinality(before.children) + plan.move
=============================================================================
