--------------------------- MODULE MCConfigServer ---------------------------
(* Instances of ConfigServer for TLC. *)
EXTENDS ConfigServer, TLC

(* Groups and fields differ in nothing but their names. *)
ServerSymmetry == Permutations(Groups) \cup Permutations(Fields)

(* Nor do requests. *)
RequestSymmetry == Permutations(Requests)
=============================================================================
