------------------------- MODULE MCRunCoordinator -------------------------
(* Small instances of RunCoordinator for TLC.                              *)
EXTENDS RunCoordinator, TLC

Symmetry == Permutations(Jobs) \union Permutations(Calls) \union Permutations(Runs)
=============================================================================
