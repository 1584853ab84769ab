------------------------------- MODULE Orders -------------------------------
(* Lists made by sorting and by picking.  An order is the set of the pairs *)
(* whose first belongs before the second; a place in a list is the number  *)
(* of elements that belong before, and one.                                *)
EXTENDS Integers, Sequences, FiniteSets

Place(S, less, x) == Cardinality({y \in S : <<y, x>> \in less}) + 1

\* The elements of S, each once, in the order less.
InOrder(S, less) ==
    [n \in 1 .. Cardinality(S) |-> CHOOSE x \in S : Place(S, less, x) = n]

Ascending(S) == {p \in S \X S : p[1] < p[2]}

\* The elements of s that stand at the positions P, in their order.
At(s, P) ==
    LET at == InOrder(P, Ascending(P))
    IN  [n \in 1 .. Cardinality(P) |-> s[at[n]]]

\* What a stable sort of the elements at the positions P leaves: earlier has
\* the pairs of positions the sort tells apart.
Stable(P, earlier) ==
    {p \in P \X P : p \in earlier \/ (<<p[2], p[1]>> \notin earlier /\ p[1] < p[2])}
=============================================================================
