------------------------------ MODULE MCHandles -----------------------------
(***************************************************************************)
(* Instances of HandleAccounting for TLC.  The values Return leaves in hdl *)
(* and blk are never read, so that its choice of them does not spoil the   *)
(* symmetry.                                                               *)
(***************************************************************************)
EXTENDS HandleAccounting, TLC

Symmetry == Permutations(Procs) \cup Permutations(Ordinals) \cup Permutations(Handles) \cup Permutations(Blocks)

=============================================================================
