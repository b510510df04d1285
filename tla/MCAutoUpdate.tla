---------------------------- MODULE MCAutoUpdate ----------------------------
(* Instances of AutoUpdate for TLC. *)
EXTENDS AutoUpdate, TLC

(* Two PowerShell swaps differ in nothing but their name. *)
JobSymmetry == Permutations(Jobs)
=============================================================================
