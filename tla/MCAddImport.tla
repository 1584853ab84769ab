---------------------------- MODULE MCAddImport ----------------------------
(***************************************************************************)
(* AddImport for TLC: two invocations, at most one of the longest          *)
(* commands, and of one item that leaves the library.                      *)
(***************************************************************************)
EXTENDS AddImport, TLC

Line(job, policy, translator, wanted) ==
    [job |-> job, policy |-> policy, translator |-> translator, wanted |-> wanted]

Lines == {
    Line("doi", "file", TRUE, {"coll", "tags"}),
    Line("doi", "skip", FALSE, {"coll"}),
    Line("doi", "duplicate", TRUE, {}),
    Line("arxiv", "file", TRUE, {"tags"}),
    Line("pmid", "file", TRUE, {"coll"}),
    Line("pdf", "file", TRUE, {"tags"}),
    Line("pdfdoi", "file", TRUE, {"coll", "pdf"}),
    Line("single", "file", TRUE, {"coll", "pdf"}),
    Line("split", "file", TRUE, {"coll"}) }

\* The longest commands: beside one that skips, one that looks for no copy
\* and, for a PDF, one that adds a copy whatever there is.
Long == {"arxiv", "pdfdoi"}
BesideLong(long, line) ==
    \/ line.policy = "skip"
    \/ line.job = "pmid"
    \/ long.job = "pdfdoi" /\ line.policy = "duplicate"

\* Commands that look for no copy and leave none that is found meet no
\* other: they run beside one short line.
Apart == {"pdf", "single", "split"}

Pairs == {c \in [Proc -> Lines] :
              \A p, q \in Proc : p # q =>
                  /\ c[p].job \in Long => BesideLong(c[p], c[q])
                  /\ c[p].job \in Apart => c[q].policy = "skip"}

Symmetry == Permutations(Proc)
=============================================================================
