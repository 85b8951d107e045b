------------------------------ MODULE MCModeration ------------------------------
(* Small instances of Moderation for TLC. *)
EXTENDS Moderation

CONSTANTS u1, a, b

(* One user, two sessions one after the other or at once. *)
AllOf1 == [s \in Sessions |-> u1]

(* One of them is reported, and the id that a ban check of /session/init   *)
(* carries.                                                                *)
OneAndPreSession == {Id(b), PreSession}
OnlyOne == {Id(b)}
=============================================================================
