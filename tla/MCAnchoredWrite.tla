-------------------------- MODULE MCAnchoredWrite --------------------------
(* AnchoredWrite for TLC.                                                  *)
EXTENDS AnchoredWrite

CONSTANTS h1, h2, i1, i2, i3, i4, i5

ASSUME Cardinality(Inodes) >= Cardinality(Helpers) + 3
=============================================================================
