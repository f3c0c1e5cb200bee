------------------------------- MODULE MCBatch ------------------------------
(***************************************************************************)
(* Instances of ReleaseBatch for TLC.                                      *)
(***************************************************************************)
EXTENDS ReleaseBatch, TLC

Symmetry == Permutations(Procs) \cup Permutations(Ordinals) \cup Permutations(Handles) \cup Permutations(Blocks)

=============================================================================
