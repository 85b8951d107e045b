------------------------------ MODULE MCLocalMedia ------------------------------
(* Small instances of LocalMedia for TLC. *)
EXTENDS LocalMedia
=============================================================================
