---------------------------- MODULE MCCallLifecycle ----------------------------
(* Small instances of CallLifecycle for TLC. *)
EXTENDS CallLifecycle, TLC

CONSTANTS s1, s2, s3, h1, h2

Symmetry == Permutations(Sessions) \cup Permutations(Slots)
=============================================================================
