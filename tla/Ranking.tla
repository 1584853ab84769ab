------------------------------ MODULE Ranking ------------------------------
(* semantic/mod.rs: from the stored vectors of items' chunks to the list   *)
(* of items a semantic search or a similarity query answers.  A vector is  *)
(* abstracted to its cosine similarity with the query, an integer number   *)
(* of units; Round says which of them print as the same four decimals.     *)
EXTENDS Orders, SequencesExt

CONSTANT Units      \* so many raw scores, one at least, print as one

(* A row is [item, chunk, score, language, readable]: items are numbers,   *)
(* in the order of their keys; a blob whose length is no multiple of four  *)
(* is not readable.                                                        *)
Round(score) == (score + Units \div 2) \div Units

(* load_f32_vectors: the positions of the rows of one language or of all,  *)
(* but those of the item a similarity query is about.                      *)
Loaded(rows, language, excluded) ==
    {i \in DOMAIN rows : /\ language \in {"all", rows[i].language}
                         /\ rows[i].item \notin excluded}

(* Kept: readable and not below the threshold, before rounding.            *)
Scored(rows, loaded, minScore) ==
    {i \in loaded : rows[i].readable /\ rows[i].score >= minScore}

(* The order of the answer: by printed score, then by key.                 *)
RanksBefore(r, s) ==
    \/ Round(r.score) > Round(s.score)
    \/ Round(r.score) = Round(s.score) /\ r.item < s.item

(* The positions of the scored rows in the order of the answer.            *)
Sorted(rows, scored) ==
    InOrder(scored, Stable(scored, {p \in scored \X scored : RanksBefore(rows[p[1]], rows[p[2]])}))

(* The first row of each item, until there are topK of them.  The count is *)
(* compared after a row was added: asking for none gives one.              *)
Best(rows, sorted, topK) ==
    LET firsts == {n \in DOMAIN sorted :
                      \A m \in 1 .. n - 1 : rows[sorted[m]].item # rows[sorted[n]].item}
        best == At(sorted, firsts)
    IN  [n \in {i \in DOMAIN best : i = 1 \/ i <= topK} |-> rows[best[n]]]

Ranked(rows, loaded, minScore, topK) ==
    Best(rows, Sorted(rows, Scored(rows, loaded, minScore)), topK)

SemanticSearch(rows, minScore, topK, language) ==
    Ranked(rows, Loaded(rows, language, {}), minScore, topK)

(* The item's first chunk stands for the item; its own rows are left out.  *)
FindSimilar(rows, item, minScore, topK) ==
    Ranked(rows, Loaded(rows, "all", {item}), minScore, topK)

-----------------------------------------------------------------------------
(* The answer names each item once, by the best of its chunks, in order,   *)
(* and leaves out no item that has a chunk over the threshold and deserves *)
(* a place before one that is listed; it is shorter than asked only when   *)
(* no item is left (semantic/mod.rs:470-514).                              *)
BestPerItem(rows, loaded, answer, minScore, topK) ==
    LET eligible == {rows[i] : i \in Scored(rows, loaded, minScore)}
        named == {answer[i].item : i \in DOMAIN answer}
    IN  /\ ToSet(answer) \subseteq eligible
        /\ Cardinality(named) = Len(answer)
        /\ \A i, j \in DOMAIN answer : i < j => RanksBefore(answer[i], answer[j])
        /\ \A i \in DOMAIN answer : \A r \in eligible :
                r.item = answer[i].item => Round(r.score) <= Round(answer[i].score)
        /\ \A i \in DOMAIN answer : \A r \in eligible :
                r.item \notin named => RanksBefore(answer[i], r)
        /\ Len(answer) < topK => named = {r.item : r \in eligible}
=============================================================================
