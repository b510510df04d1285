----------------------------- MODULE MCRemoteSync -----------------------------
(* Instances of RemoteSync for TLC. *)
EXTENDS RemoteSync, TLC

(* Contents and codes differ in nothing but their names. *)
SyncSymmetry == Permutations(Values) \cup Permutations(Codes)
=============================================================================
