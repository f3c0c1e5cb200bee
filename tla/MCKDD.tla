-------------------------------- MODULE MCKDD -------------------------------
(***************************************************************************)
(* Instances of KDDBlockStore for TLC.                                     *)
(***************************************************************************)
EXTENDS KDDBlockStore, TLC

Symmetry == Permutations(Clients)

=============================================================================
