---------------------------- MODULE MCStagingRun ----------------------------
(* StagingRun for TLC: the bounds are in the cfg files. *)
EXTENDS StagingRun, TLC

Symmetry == Permutations(Caller) \union Permutations(Stager)

=============================================================================
