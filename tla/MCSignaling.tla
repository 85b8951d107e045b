------------------------------ MODULE MCSignaling ------------------------------
(* Small instances of Signaling for TLC. *)
EXTENDS Signaling

CONSTANTS p1, p2, p3

(* p2 is called by one partner, then calls another. *)
TwoRounds == <<{<<p1, p2>>}, {<<p2, p3>>}>>

(* Those of its first call may meet the second. *)
OfTheFirstCall == {<<p2, 1>>}
=============================================================================
