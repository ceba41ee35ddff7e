------------------------- MODULE MCManuscriptDraft -------------------------
(* ManuscriptDraft for TLC.                                                *)
EXTENDS ManuscriptDraft, TLC

CONSTANTS e1, e2

Symmetry == Permutations(Editors)
=============================================================================
