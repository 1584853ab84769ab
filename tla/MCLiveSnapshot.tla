--------------------------- MODULE MCLiveSnapshot ---------------------------
(* Two or three CLI processes against one Zotero.                          *)
EXTENDS LiveSnapshot, TLC

Symmetry == Permutations(Proc)
=============================================================================
