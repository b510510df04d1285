---------------------------- MODULE MCPageMonitor ----------------------------
(* Instances of PageMonitor for TLC. *)
EXTENDS PageMonitor, TLC

(* The threads and the pages differ in nothing but their names. *)
MonitorSymmetry == Permutations(Workers) \cup Permutations(Urls)
=============================================================================
