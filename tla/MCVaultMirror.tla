--------------------------- MODULE MCVaultMirror ---------------------------
(* VaultMirror for TLC. *)
EXTENDS VaultMirror, TLC

CONSTANTS e1, e2

NoRefs == {}
OneRef == {<<e2, e1>>}

Symmetry == Permutations(Jobs)
=============================================================================
