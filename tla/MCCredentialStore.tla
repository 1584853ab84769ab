------------------------- MODULE MCCredentialStore -------------------------
(* CredentialStore for TLC.                                                *)
EXTENDS CredentialStore, TLC

Symmetry == Permutations(Proc) \cup Permutations(Server)
=============================================================================
