---------------------------- MODULE MCWritingRun ----------------------------
(***************************************************************************)
(* TLC instances of WritingRun.  Requests are interchangeable, so both     *)
(* sets of them are symmetric (in the runs without liveness).              *)
(***************************************************************************)
EXTENDS WritingRun, TLC

Symmetry == Permutations(Runs) \cup Permutations(Replans)
=============================================================================
