----------------------------- MODULE MCChatTurn -----------------------------
(* ChatTurn for TLC: one call writes the profile, another an entry.        *)
EXTENDS ChatTurn, TLC

CONSTANTS profileCall, entryCall, w1, w2

Targets == (profileCall :> "profile") @@ (entryCall :> "entry")

Symmetry == Permutations(Workers)
=============================================================================
