---------------------------- MODULE MCLibraryReset ----------------------------
(* LibraryReset for TLC. *)
EXTENDS LibraryReset, TLC

Symmetry == Permutations(Books)
=============================================================================
