----------------------------- MODULE MCKioskLock -----------------------------
(* Instance of KioskLock for TLC. *)
EXTENDS KioskLock
=============================================================================
