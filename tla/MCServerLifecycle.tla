---------------------------- MODULE MCServerLifecycle ----------------------------
(* Small instances of ServerLifecycle for TLC. *)
EXTENDS ServerLifecycle

CONSTANTS c1, c2
=============================================================================
