------------------------- MODULE ServerLifecycleProofs -------------------------
(***************************************************************************)
(* Proofs about ServerLifecycle, for any number of connections, drops,     *)
(* retries and refusals.                                                   *)
(***************************************************************************)
EXTENDS ServerLifecycle, TLAPS

(* TypeOK, numbers and the rest apart *)
Counted ==
  /\ code \in 0..1
  /\ tries \in [Links -> 0..MaxRetries]
  /\ drops \in 0..MaxDrops /\ refused \in 0..MaxRefusals

Typed ==
  /\ phase \in {"boot", "redis", "mongo", "running", "stopping", "closed", "exited"}
  /\ {engine, force, heard, resub, unheeded} \subseteq BOOLEAN
  /\ link \in [Links -> {"new", "up", "down", "ended"}]
  /\ attempt \in {"none", "sent", "waiting", "done"}
  /\ heard => link["sub"] = "up" /\ (attempt = "done" \/ drops > 0)
  /\ sock \in [Sockets -> {"new", "polling", "open", "gone"}]
  /\ timers \subseteq {s \in Sockets : sock[s] = "gone"}

LEMMA TypeParts == TypeOK <=> Counted /\ Typed
BY DEF TypeOK, Counted, Typed

(* Before the SUBSCRIBE of start-up is sent nobody matches and no client   *)
(* is there; afterwards the engine runs exactly until shutdown.            *)
BootInv ==
  /\ phase \in {"boot", "redis", "mongo"} =>
       /\ attempt = "none"
       /\ \A s \in Sockets : sock[s] = "new"
  /\ phase \in {"running", "stopping", "closed"} => attempt # "none"
  /\ phase # "running" => ~engine

(* A link is down, and a ready handler subscribes, only after a drop. *)
LinkInv ==
  /\ phase = "boot" => \A l \in Links : link[l] = "new"
  /\ (\E l \in Links : link[l] = "down") => drops > 0
  /\ resub => drops > 0

(* The callback of httpServer.close has left no client. *)
StopInv ==
  /\ phase = "closed" => \A s \in Sockets : ~There(s)
  /\ phase # "exited" => code = 0

IInv == Counted /\ Typed /\ BootInv /\ LinkInv /\ StopInv /\ CleanExit /\ NeverIdlyDeaf

LEMMA Bounds == MaxRetries \in Nat /\ MaxDrops \in Nat /\ MaxRefusals \in Nat
BY BoundsAssumption

LEMMA InitIInv == Init => IInv
<1> SUFFICES ASSUME Init PROVE IInv
  OBVIOUS
<1> USE DEF Init, Links
<1>1. Counted
  BY Bounds DEF Counted
<1>2. Typed /\ BootInv
  BY DEF Typed, BootInv
<1>3. LinkInv /\ StopInv
  BY DEF LinkInv, StopInv
<1>4. CleanExit /\ NeverIdlyDeaf
  BY DEF CleanExit, NeverIdlyDeaf
<1>5. QED  BY <1>1, <1>2, <1>3, <1>4 DEF IInv

-----------------------------------------------------------------------------
(* Every step keeps the invariant *)

USE Bounds DEF IInv

LEMMA BootKeeps ==
  IInv /\ (BootFails \/ ConnectRedis \/ ConnectDatabase \/ Start) => IInv'
<1> SUFFICES ASSUME IInv, BootFails \/ ConnectRedis \/ ConnectDatabase \/ Start
             PROVE  IInv'
  OBVIOUS
<1> USE DEF linkVars, subVars, sockVars, Links, There
<1>1. CASE BootFails
  <2> USE <1>1 DEF BootFails, Exit
  <2>0. Counted'
    BY DEF Counted
  <2>1. Typed'
    BY DEF Typed, Counted, BootInv, LinkInv
  <2>2. BootInv' /\ LinkInv'
    BY DEF Typed, Counted, BootInv, LinkInv
  <2>3. StopInv' /\ CleanExit'
    BY DEF Typed, Counted, BootInv, StopInv, CleanExit
  <2>4. NeverIdlyDeaf'
    BY DEF Typed, Counted, BootInv, NeverIdlyDeaf
  <2>5. QED  BY <2>0, <2>1, <2>2, <2>3, <2>4
<1>2. CASE ConnectRedis
  <2> USE <1>2 DEF ConnectRedis
  <2>0. Counted'
    BY DEF Counted
  <2>1. Typed'
    BY DEF Typed, Counted, BootInv, LinkInv
  <2>2. BootInv' /\ LinkInv'
    BY DEF Typed, Counted, BootInv, LinkInv
  <2>3. StopInv' /\ CleanExit'
    BY DEF Typed, Counted, BootInv, StopInv, CleanExit
  <2>4. NeverIdlyDeaf'
    BY DEF Typed, Counted, BootInv, NeverIdlyDeaf
  <2>5. QED  BY <2>0, <2>1, <2>2, <2>3, <2>4
<1>3. CASE ConnectDatabase
  <2> USE <1>3 DEF ConnectDatabase
  <2>0. Counted'
    BY DEF Counted
  <2>1. Typed'
    BY DEF Typed, Counted, BootInv, LinkInv
  <2>2. BootInv' /\ LinkInv'
    BY DEF Typed, Counted, BootInv, LinkInv
  <2>3. StopInv' /\ CleanExit'
    BY DEF Typed, Counted, BootInv, StopInv, CleanExit
  <2>4. NeverIdlyDeaf'
    BY DEF Typed, Counted, BootInv, NeverIdlyDeaf
  <2>5. QED  BY <2>0, <2>1, <2>2, <2>3, <2>4
<1>4. CASE Start
  <2> USE <1>4 DEF Start, EngineStarts
  <2>0. Counted'
    BY DEF Counted
  <2>1. Typed'
    BY DEF Typed, Counted, BootInv, LinkInv
  <2>2. BootInv' /\ LinkInv'
    BY DEF Typed, Counted, BootInv, LinkInv
  <2>3. StopInv' /\ CleanExit'
    BY DEF Typed, Counted, BootInv, StopInv, CleanExit
  <2>4. NeverIdlyDeaf'
    BY DEF Typed, Counted, BootInv, NeverIdlyDeaf
  <2>5. QED  BY <2>0, <2>1, <2>2, <2>3, <2>4
<1>5. QED  BY <1>1, <1>2, <1>3, <1>4

LEMMA LinkKeeps ==
  ASSUME IInv, NEW l \in Links, LinkDrops(l) \/ LinkReturns(l) \/ RetryFails(l)
  PROVE  IInv'
<1> USE DEF procVars, subVars, sockVars, Links, There, Alive
<1>1. CASE LinkDrops(l)
  <2> USE <1>1 DEF LinkDrops, HeardUnless
  <2>0. Counted'
    BY DEF Counted
  <2>1. Typed'
    <3>1. drops' > 0
      BY DEF Counted
    <3>2. heard' => link'["sub"] = "up"
      BY DEF Typed
    <3>3. QED  BY <3>1, <3>2 DEF Typed
  <2>2. BootInv' /\ LinkInv'
    BY DEF Typed, Counted, BootInv, LinkInv
  <2>3. StopInv' /\ CleanExit'
    BY DEF Typed, Counted, BootInv, StopInv, CleanExit
  <2>4. NeverIdlyDeaf'
    BY DEF Typed, Counted, BootInv, NeverIdlyDeaf
  <2>5. QED  BY <2>0, <2>1, <2>2, <2>3, <2>4
<1>2. CASE LinkReturns(l)
  <2> USE <1>2 DEF LinkReturns, Resubscribes
  <2>0. Counted'
    BY DEF Counted
  <2>1. Typed'
    BY DEF Typed, Counted, BootInv, LinkInv
  <2>2. BootInv' /\ LinkInv'
    BY DEF Typed, Counted, BootInv, LinkInv
  <2>3. StopInv' /\ CleanExit'
    BY DEF Typed, Counted, BootInv, StopInv, CleanExit
  <2>4. NeverIdlyDeaf'
    BY DEF Typed, Counted, BootInv, NeverIdlyDeaf
  <2>5. QED  BY <2>0, <2>1, <2>2, <2>3, <2>4
<1>3. CASE RetryFails(l)
  <2> USE <1>3 DEF RetryFails
  <2>0. Counted'
    BY DEF Counted
  <2>1. Typed'
    BY DEF Typed, Counted, BootInv, LinkInv
  <2>2. BootInv' /\ LinkInv'
    BY DEF Typed, Counted, BootInv, LinkInv
  <2>3. StopInv' /\ CleanExit'
    BY DEF Typed, Counted, BootInv, StopInv, CleanExit
  <2>4. NeverIdlyDeaf'
    BY DEF Typed, Counted, BootInv, NeverIdlyDeaf
  <2>5. QED  BY <2>0, <2>1, <2>2, <2>3, <2>4
<1>4. QED  BY <1>1, <1>2, <1>3

LEMMA SubscribeKeeps ==
  IInv /\ (AttemptAnswered \/ AttemptAgain \/ ResubscribeAnswered) => IInv'
<1> SUFFICES ASSUME IInv, AttemptAnswered \/ AttemptAgain \/ ResubscribeAnswered
             PROVE  IInv'
  OBVIOUS
<1> USE DEF procVars, linkVars, sockVars, Links, There, Alive, Refusal
<1>1. CASE AttemptAnswered
  <2> USE <1>1 DEF AttemptAnswered
  <2>0. Counted'
    BY DEF Counted
  <2>1. Typed'
    <3>1. heard' => link'["sub"] = "up" /\ (attempt' = "done" \/ drops' > 0)
      BY DEF Typed
    <3>2. QED  BY <3>1 DEF Typed
  <2>2. BootInv' /\ LinkInv'
    BY DEF Typed, Counted, BootInv, LinkInv
  <2>3. StopInv' /\ CleanExit'
    BY DEF Typed, Counted, BootInv, StopInv, CleanExit
  <2>4. NeverIdlyDeaf'
    BY DEF Typed, Counted, BootInv, NeverIdlyDeaf
  <2>5. QED  BY <2>0, <2>1, <2>2, <2>3, <2>4
<1>2. CASE AttemptAgain
  <2> USE <1>2 DEF AttemptAgain
  <2>0. Counted'
    BY DEF Counted
  <2>1. Typed'
    BY DEF Typed, Counted, BootInv, LinkInv
  <2>2. BootInv' /\ LinkInv'
    BY DEF Typed, Counted, BootInv, LinkInv
  <2>3. StopInv' /\ CleanExit'
    BY DEF Typed, Counted, BootInv, StopInv, CleanExit
  <2>4. NeverIdlyDeaf'
    BY DEF Typed, Counted, BootInv, NeverIdlyDeaf
  <2>5. QED  BY <2>0, <2>1, <2>2, <2>3, <2>4
<1>3. CASE ResubscribeAnswered
  <2> USE <1>3 DEF ResubscribeAnswered
  <2>0. Counted'
    BY DEF Counted
  <2>1. Typed'
    <3>1. drops' > 0
      BY DEF LinkInv
    <3>2. heard' => link'["sub"] = "up"
      BY DEF Typed
    <3>3. QED  BY <3>1, <3>2 DEF Typed
  <2>2. BootInv' /\ LinkInv'
    BY DEF Typed, Counted, BootInv, LinkInv
  <2>3. StopInv' /\ CleanExit'
    BY DEF Typed, Counted, BootInv, StopInv, CleanExit
  <2>4. NeverIdlyDeaf'
    BY DEF Typed, Counted, BootInv, NeverIdlyDeaf
  <2>5. QED  BY <2>0, <2>1, <2>2, <2>3, <2>4
<1>4. QED  BY <1>1, <1>2, <1>3

LEMMA ClientsKeep ==
  ASSUME IInv, NEW s \in Sockets, Connects(s) \/ Upgrades(s) \/ Disconnects(s) \/ GraceEnds(s)
  PROVE  IInv'
<1> USE DEF procVars, linkVars, subVars, There, Alive
<1>1. CASE Connects(s)
  <2> USE <1>1 DEF Connects
  <2>0. Counted'
    BY DEF Counted
  <2>1. Typed'
    BY DEF Typed, Counted, BootInv, LinkInv
  <2>2. BootInv' /\ LinkInv'
    BY DEF Typed, Counted, BootInv, LinkInv
  <2>3. StopInv' /\ CleanExit'
    BY DEF Typed, Counted, BootInv, StopInv, CleanExit
  <2>4. NeverIdlyDeaf'
    BY DEF Typed, Counted, BootInv, NeverIdlyDeaf
  <2>5. QED  BY <2>0, <2>1, <2>2, <2>3, <2>4
<1>2. CASE Disconnects(s)
  <2> USE <1>2 DEF Disconnects
  <2>0. Counted'
    BY DEF Counted
  <2>1. Typed'
    BY DEF Typed, Counted, BootInv, LinkInv
  <2>2. BootInv' /\ LinkInv'
    BY DEF Typed, Counted, BootInv, LinkInv
  <2>3. StopInv' /\ CleanExit'
    BY DEF Typed, Counted, BootInv, StopInv, CleanExit
  <2>4. NeverIdlyDeaf'
    BY DEF Typed, Counted, BootInv, NeverIdlyDeaf
  <2>5. QED  BY <2>0, <2>1, <2>2, <2>3, <2>4
<1>3. CASE GraceEnds(s)
  <2> USE <1>3 DEF GraceEnds
  <2>0. Counted'
    BY DEF Counted
  <2>1. Typed'
    BY DEF Typed, Counted, BootInv, LinkInv
  <2>2. BootInv' /\ LinkInv'
    BY DEF Typed, Counted, BootInv, LinkInv
  <2>3. StopInv' /\ CleanExit'
    BY DEF Typed, Counted, BootInv, StopInv, CleanExit
  <2>4. NeverIdlyDeaf'
    BY DEF Typed, Counted, BootInv, NeverIdlyDeaf
  <2>5. QED  BY <2>0, <2>1, <2>2, <2>3, <2>4
<1>4. CASE Upgrades(s)
  <2> USE <1>4 DEF Upgrades
  <2>0. Counted'
    BY DEF Counted
  <2>1. Typed'
    BY DEF Typed, Counted, BootInv, LinkInv
  <2>2. BootInv' /\ LinkInv'
    BY DEF Typed, Counted, BootInv, LinkInv
  <2>3. StopInv' /\ CleanExit'
    BY DEF Typed, Counted, BootInv, StopInv, CleanExit
  <2>4. NeverIdlyDeaf'
    BY DEF Typed, Counted, BootInv, NeverIdlyDeaf
  <2>5. QED  BY <2>0, <2>1, <2>2, <2>3, <2>4
<1>5. QED  BY <1>1, <1>2, <1>3, <1>4

LEMMA ShutdownKeeps ==
  IInv /\ (Shutdown \/ HttpClosed \/ CloseStores \/ ForceExit) => IInv'
<1> SUFFICES ASSUME IInv, Shutdown \/ HttpClosed \/ CloseStores \/ ForceExit
             PROVE  IInv'
  OBVIOUS
<1> USE DEF linkVars, subVars, sockVars, Links, There
<1>1. CASE Shutdown
  <2> USE <1>1 DEF Shutdown, EngineStops, TimersCleared, Forced
  <2>0. Counted'
    BY DEF Counted
  <2>1. Typed'
    BY DEF Typed, Counted, BootInv, LinkInv
  <2>2. BootInv' /\ LinkInv'
    BY DEF Typed, Counted, BootInv, LinkInv
  <2>3. StopInv' /\ CleanExit'
    BY DEF Typed, Counted, BootInv, StopInv, CleanExit
  <2>4. NeverIdlyDeaf'
    BY DEF Typed, Counted, BootInv, NeverIdlyDeaf
  <2>5. QED  BY <2>0, <2>1, <2>2, <2>3, <2>4
<1>2. CASE HttpClosed
  <2> USE <1>2 DEF HttpClosed, DisconnectSockets
  <2>0. Counted'
    BY DEF Counted
  <2>1. Typed'
    BY DEF Typed, Counted, BootInv, LinkInv
  <2>2. BootInv' /\ LinkInv'
    BY DEF Typed, Counted, BootInv, LinkInv
  <2>3. StopInv' /\ CleanExit'
    BY DEF Typed, Counted, BootInv, StopInv, CleanExit
  <2>4. NeverIdlyDeaf'
    BY DEF Typed, Counted, BootInv, NeverIdlyDeaf
  <2>5. QED  BY <2>0, <2>1, <2>2, <2>3, <2>4
<1>3. CASE CloseStores
  <2> USE <1>3 DEF CloseStores, QuitRedis, Exit
  <2>0. Counted'
    BY DEF Counted
  <2>1. Typed'
    BY DEF Typed, Counted, BootInv, LinkInv
  <2>2. BootInv' /\ LinkInv'
    BY DEF Typed, Counted, BootInv, LinkInv
  <2>3. StopInv' /\ CleanExit'
    BY DEF Typed, Counted, BootInv, StopInv, CleanExit
  <2>4. NeverIdlyDeaf'
    BY DEF Typed, Counted, BootInv, NeverIdlyDeaf
  <2>5. QED  BY <2>0, <2>1, <2>2, <2>3, <2>4
<1>4. CASE ForceExit
  <2> USE <1>4 DEF ForceExit, Exit
  <2>0. Counted'
    BY DEF Counted
  <2>1. Typed'
    BY DEF Typed, Counted, BootInv, LinkInv
  <2>2. BootInv' /\ LinkInv'
    BY DEF Typed, Counted, BootInv, LinkInv
  <2>3. StopInv' /\ CleanExit'
    BY DEF Typed, Counted, BootInv, StopInv, CleanExit
  <2>4. NeverIdlyDeaf'
    BY DEF Typed, Counted, BootInv, NeverIdlyDeaf
  <2>5. QED  BY <2>0, <2>1, <2>2, <2>3, <2>4
<1>5. QED  BY <1>1, <1>2, <1>3, <1>4

LEMMA NextIInv == IInv /\ [Next]_vars => IInv'
<1>1. CASE UNCHANGED vars
  BY <1>1 DEF vars, Typed, Counted, BootInv, LinkInv, StopInv, CleanExit,
              NeverIdlyDeaf, There
<1>2. CASE Next
  BY <1>2, BootKeeps, LinkKeeps, SubscribeKeeps, ClientsKeep, ShutdownKeeps DEF Next
<1>3. QED  BY <1>1, <1>2

LEMMA Invariance == Spec => []IInv
BY InitIInv, NextIInv, PTL DEF Spec

-----------------------------------------------------------------------------
(* The theorems *)

(* The state of the process, its links and its clients keeps its type; the *)
(* subscription is heard over a living connection only, and grace timers   *)
(* belong to sockets that are gone.                                        *)
THEOREM TypeCorrect == Spec => []TypeOK
<1>1. IInv => TypeOK
  BY TypeParts
<1>2. QED  BY Invariance, <1>1, PTL

(* Exit code 0 of shutdown is honest, however clients, drops, the forced   *)
(* exit and failing stores interleave.                                     *)
THEOREM ExitIsClean == Spec => []CleanExit
BY Invariance, PTL DEF IInv

(* Whatever the order of drops, returns, attempts and refusals, there is a *)
(* SUBSCRIBE under way to a server that does not hear match events.        *)
THEOREM DeafOnesSubscribe == Spec => []NeverIdlyDeaf
BY Invariance, PTL DEF IInv

==============================================================================
