------------------------------- MODULE Pairing -------------------------------
(***************************************************************************)
(* What the matching queue promises, without saying how: a session that    *)
(* asks for a partner holds a ticket; it may withdraw the ticket; and two  *)
(* tickets of two different sessions may be paired, in one step that uses  *)
(* both up.  Nothing else ever touches a ticket.                           *)
(***************************************************************************)
EXTENDS Naturals

CONSTANT Sessions

VARIABLES
  waiting,    \* the ticket each session waits with, 0 when it does not wait
  issued,     \* the last ticket handed out
  pairs       \* the pairs of tickets that were put into one room

vars == <<waiting, issued, pairs>>

Init ==
  /\ waiting = [s \in Sessions |-> 0]
  /\ issued = 0
  /\ pairs = {}

(* A session that does not wait takes the next ticket. *)
Enter(s) ==
  /\ waiting[s] = 0
  /\ issued' = issued + 1
  /\ waiting' = [waiting EXCEPT ![s] = issued + 1]
  /\ UNCHANGED pairs

(* A ticket is given up: the user left, or its queue entry ran out. *)
Withdraw(s) ==
  /\ waiting[s] # 0
  /\ waiting' = [waiting EXCEPT ![s] = 0]
  /\ UNCHANGED <<issued, pairs>>

(* Two waiting sessions are put into one room. *)
Pair(s, t) ==
  /\ s # t
  /\ waiting[s] # 0
  /\ waiting[t] # 0
  /\ pairs' = pairs \cup {{waiting[s], waiting[t]}}
  /\ waiting' = [waiting EXCEPT ![s] = 0, ![t] = 0]
  /\ UNCHANGED issued

Next ==
  \/ \E s \in Sessions : Enter(s) \/ Withdraw(s)
  \/ \E s, t \in Sessions : Pair(s, t)

Spec == Init /\ [][Next]_vars

==============================================================================
