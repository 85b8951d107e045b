---------------------------- MODULE MCMatchQueue ----------------------------
(* Small instances of MatchQueue for TLC. *)
EXTENDS MatchQueue, TLC

CONSTANTS s1, s2, s3, w1, w2

(* Everybody's preferences agree with everybody's at once. *)
AllCompatible == [a \in Sessions |-> [b \in Sessions |-> 0]]

(* s1 and s2 agree at once, s3 agrees with them only once both relaxed. *)
PartlyCompatible ==
  [a \in Sessions |-> [b \in Sessions |-> IF s3 \in {a, b} THEN MaxLevel ELSE 0]]

EngineSymmetry == Permutations(Workers)
Symmetry == Permutations(Workers) \cup Permutations(Sessions)
=============================================================================
