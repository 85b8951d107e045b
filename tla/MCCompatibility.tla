--------------------------- MODULE MCCompatibility ---------------------------
(* A small instance of Compatibility: two countries, two languages, and    *)
(* interest lists on both sides of the similarity threshold.               *)
EXTENDS Compatibility

MCTags == {"x", "X", "y", "z", "w"}
MCLower == [t \in MCTags |-> IF t = "X" THEN "x" ELSE t]

(* {x,y} and {x,z} share one tag in three, {x,y,z} and {z,w} one in four;  *)
(* {x,X} is one tag.                                                       *)
MCInterestLists == {{}, {"x", "X"}, {"x", "y"}, {"X", "z"}, {"x", "y", "z"}, {"z", "w"},
                    {"x", "y", "z", "w"}}

MCJoins == {-1, 0, 2}
=============================================================================
