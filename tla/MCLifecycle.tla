---------------------------- MODULE MCLifecycle ----------------------------
(* Lifecycle for TLC: two invocations, any two needs.                      *)
EXTENDS Lifecycle, TLC

Symmetry == Permutations(Proc)
=============================================================================
