-------------------------- MODULE MCSemanticIndex --------------------------
EXTENDS SemanticIndex, TLC

CONSTANTS p1, p2

\* Two builds differ in nothing; the properties are invariants.
Symmetry == Permutations({p1, p2})

=============================================================================
