--------------------------- MODULE MCSessionStore ---------------------------
(* SessionStore for TLC: commands that set one field, and one that sets    *)
(* two, as use-selected does.                                              *)
EXTENDS SessionStore, TLC

Symmetry == Permutations(Invocation)

MCUses == {{"item"}, {"library", "item"}}
=============================================================================
