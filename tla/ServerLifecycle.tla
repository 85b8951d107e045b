----------------------------- MODULE ServerLifecycle -----------------------------
(***************************************************************************)
(* Start, running and shutdown of a server process (server.ts), its Redis  *)
(* connections and the subscription to match events (config/redis.ts), and *)
(* the grace timers of sockets/connection.handler.ts at its end.           *)
(*                                                                         *)
(* Grain: one await or callback.  redisMain stands for redisPub too, which *)
(* is opened, used and closed alike.  ioredis, MongoDB and the sockets'    *)
(* comings and goings are the environment.                                 *)
(***************************************************************************)
EXTENDS Naturals, FiniteSets

CONSTANTS
  Sockets,      \* bound: the connections there ever are
  MaxRetries,   \* retryStrategy: tries to reconnect before it gives up
  MaxDrops,     \* bound: connections to Redis lost
  MaxRefusals   \* bound: SUBSCRIBE commands refused on a living connection

ASSUME BoundsAssumption == {MaxRetries, MaxDrops, MaxRefusals} \subseteq Nat

Links == {"main", "sub"}

VARIABLES
  phase,    \* boot, redis, mongo, running, stopping, closed, exited
  code,     \* exit code, 0 before
  engine,   \* matchingEngine.isRunning
  link,     \* Redis connections: new, up, down, ended
  tries,    \* reconnections tried since the link was up
  heard,    \* Redis delivers match:events to redisSub
  attempt,  \* attempt(): none, sent, waiting or done
  resub,    \* the ready handler's SUBSCRIBE is under way
  sock,     \* each client: new, polling, open (upgraded), gone
  timers,   \* sockets whose grace timer is armed
  force,    \* the 10 s timer
  drops, refused,  \* counted for the bounds
  unheeded  \* the SUBSCRIBE of this connection's ready handler was refused

vars == <<phase, code, engine, link, tries, heard, attempt, resub, sock, timers, force,
          drops, refused, unheeded>>

procVars == <<phase, code, engine, force>>
subVars  == <<heard, attempt, resub, refused, unheeded>>
linkVars == <<link, tries, drops>>
sockVars == <<sock, timers>>

TypeOK ==
  /\ phase \in {"boot", "redis", "mongo", "running", "stopping", "closed", "exited"}
  /\ code \in 0..1
  /\ engine \in BOOLEAN /\ force \in BOOLEAN /\ heard \in BOOLEAN /\ resub \in BOOLEAN
  /\ link \in [Links -> {"new", "up", "down", "ended"}]
  /\ tries \in [Links -> 0..MaxRetries]
  /\ attempt \in {"none", "sent", "waiting", "done"}
  /\ heard => link["sub"] = "up" /\ (attempt = "done" \/ drops > 0)
  /\ sock \in [Sockets -> {"new", "polling", "open", "gone"}]
  /\ timers \subseteq {s \in Sockets : sock[s] = "gone"}
  /\ drops \in 0..MaxDrops /\ refused \in 0..MaxRefusals /\ unheeded \in BOOLEAN

Init ==
  /\ phase = "boot" /\ code = 0 /\ engine = FALSE /\ force = FALSE
  /\ link = [l \in Links |-> "new"] /\ tries = [l \in Links |-> 0]
  /\ heard = FALSE /\ attempt = "none" /\ resub = FALSE
  /\ sock = [s \in Sockets |-> "new"] /\ timers = {}
  /\ drops = 0 /\ refused = 0 /\ unheeded = FALSE

Alive == phase # "exited"

Exit(c) == phase' = "exited" /\ code' = c /\ force' = FALSE

-----------------------------------------------------------------------------
(* bootstrap *)

BootFails ==
  /\ phase \in {"boot", "redis"} /\ Exit(1)
  /\ UNCHANGED <<engine, linkVars, subVars, sockVars>>

ConnectRedis ==
  /\ phase = "boot" /\ phase' = "redis"
  /\ link' = [l \in Links |-> "up"]
  /\ UNCHANGED <<code, engine, force, tries, drops, subVars, sockVars>>

ConnectDatabase ==
  /\ phase = "redis" /\ phase' = "mongo"
  /\ UNCHANGED <<code, engine, force, linkVars, subVars, sockVars>>

EngineStarts == engine' = TRUE

(* The handlers are registered, the first SUBSCRIBE is sent, the engine    *)
(* polls and the port is open: one run of the event loop.                  *)
Start ==
  /\ phase = "mongo" /\ phase' = "running"
  /\ EngineStarts /\ attempt' = "sent"
  /\ UNCHANGED <<code, force, linkVars, heard, resub, refused, unheeded, sockVars>>

-----------------------------------------------------------------------------
(* Redis connections *)

HeardStill(l) == heard' = heard        \* mutant: a subscription outlives its connection

HeardUnless(l) == heard' = (heard /\ l # "sub")

LinkDrops(l) ==
  /\ Alive /\ link[l] = "up" /\ drops < MaxDrops
  /\ drops' = drops + 1
  /\ link' = [link EXCEPT ![l] = "down"]
  /\ HeardUnless(l)
  /\ UNCHANGED <<procVars, tries, attempt, resub, refused, unheeded, sockVars>>

NoReadyHandler(l) == resub' = resub    \* mutant: nothing is done on ready

(* ready: SUBSCRIBE for every channel ever asked for *)
Resubscribes(l) == resub' = (resub \/ (l = "sub" /\ attempt # "none"))

LinkReturns(l) ==
  /\ Alive /\ link[l] = "down"
  /\ link' = [link EXCEPT ![l] = "up"] /\ tries' = [tries EXCEPT ![l] = 0]
  /\ Resubscribes(l) /\ unheeded' = (unheeded /\ l # "sub")
  /\ UNCHANGED <<procVars, drops, heard, attempt, refused, sockVars>>

(* retryStrategy returns null after the last. *)
RetryFails(l) ==
  /\ Alive /\ link[l] = "down"
  /\ IF tries[l] < MaxRetries
     THEN tries' = [tries EXCEPT ![l] = @ + 1] /\ UNCHANGED link
     ELSE link' = [link EXCEPT ![l] = "ended"] /\ UNCHANGED tries
  /\ UNCHANGED <<procVars, drops, subVars, sockVars>>

-----------------------------------------------------------------------------
(* subscribeToChannel *)

Refusal == refused < MaxRefusals /\ refused' = refused + 1

(* Without a connection the command fails at once: there is no offline queue. *)
AttemptAnswered ==
  /\ Alive /\ attempt = "sent"
  /\ \/ link["sub"] = "up" /\ heard' = TRUE /\ attempt' = "done" /\ UNCHANGED refused
     \/ link["sub"] = "up" /\ Refusal /\ attempt' = "waiting" /\ UNCHANGED heard
     \/ link["sub"] # "up" /\ attempt' = "waiting" /\ UNCHANGED <<heard, refused>>
  /\ UNCHANGED <<procVars, linkVars, resub, unheeded, sockVars>>

AttemptAgain ==
  /\ Alive /\ attempt = "waiting" /\ attempt' = "sent"
  /\ UNCHANGED <<procVars, linkVars, heard, resub, refused, unheeded, sockVars>>

(* Its failure is logged, not repeated. *)
ResubscribeAnswered ==
  /\ Alive /\ resub /\ resub' = FALSE
  /\ \/ link["sub"] = "up" /\ heard' = TRUE /\ UNCHANGED <<refused, unheeded>>
     \/ link["sub"] = "up" /\ Refusal /\ unheeded' = TRUE /\ UNCHANGED heard
     \/ link["sub"] # "up" /\ UNCHANGED <<heard, refused, unheeded>>
  /\ UNCHANGED <<procVars, linkVars, attempt, sockVars>>

-----------------------------------------------------------------------------
(* Clients *)

Connects(s) ==
  /\ phase = "running" /\ sock[s] = "new"
  /\ \E how \in {"polling", "open"} : sock' = [sock EXCEPT ![s] = how]
  /\ UNCHANGED <<procVars, linkVars, subVars, timers>>

Upgrades(s) ==
  /\ phase = "running" /\ sock[s] = "polling"
  /\ sock' = [sock EXCEPT ![s] = "open"]
  /\ UNCHANGED <<procVars, linkVars, subVars, timers>>

There(s) == sock[s] \in {"polling", "open"}

(* Of its own; in a call, a grace timer is armed. *)
Disconnects(s) ==
  /\ Alive /\ There(s)
  /\ sock' = [sock EXCEPT ![s] = "gone"]
  /\ timers' \in {timers, timers \cup {s}}
  /\ UNCHANGED <<procVars, linkVars, subVars>>

GraceEnds(s) ==
  /\ Alive /\ s \in timers /\ timers' = timers \ {s}
  /\ UNCHANGED <<procVars, linkVars, subVars, sock>>

-----------------------------------------------------------------------------
(* shutdown *)

Unforced == force' = FALSE   \* mutant: nothing forces the exit

Forced == force' = TRUE

(* stop: a cycle in flight goes on, but no other begins. *)
EngineStops   == engine' = FALSE
TimersCleared == timers' = {}

(* A signal, an uncaught exception or an unhandled rejection; only the     *)
(* first is heard.                                                         *)
Shutdown ==
  /\ phase = "running" /\ phase' = "stopping"
  /\ EngineStops /\ TimersCleared
  /\ Forced
  /\ UNCHANGED <<code, linkVars, subVars, sock>>

(* mutant: the clients are not disconnected *)
NobodyDisconnected == UNCHANGED sockVars

(* io.disconnectSockets; the handlers of their ends may arm timers again. *)
DisconnectSockets ==
  /\ sock' = [s \in Sockets |-> IF There(s) THEN "gone" ELSE sock[s]]
  /\ \E armed \in SUBSET {s \in Sockets : There(s)} : timers' = timers \cup armed

(* The callback of httpServer.close waits for upgraded connections, of     *)
(* which none is disconnected before it; a polling client may be between   *)
(* two requests.                                                           *)
HttpClosed ==
  /\ phase = "stopping" /\ (\A s \in Sockets : sock[s] # "open")
  /\ phase' = "closed"
  /\ DisconnectSockets
  /\ UNCHANGED <<code, engine, force, linkVars, subVars>>

(* disconnectRedis: quit fails on a dead link. *)
QuitRedis == (\A l \in Links : link[l] = "up") /\ link' = [l \in Links |-> "ended"]

(* With disconnectDatabase; either may fail of its own. *)
CloseStores ==
  /\ phase = "closed"
  /\ \/ QuitRedis /\ Exit(0)
     \/ Exit(1) /\ UNCHANGED link
  /\ heard' = FALSE
  /\ UNCHANGED <<engine, tries, drops, attempt, resub, refused, unheeded, sockVars>>

ForceExit ==
  /\ force /\ phase \in {"stopping", "closed"} /\ Exit(1)
  /\ UNCHANGED <<engine, linkVars, subVars, sockVars>>

Next ==
  \/ BootFails \/ ConnectRedis \/ ConnectDatabase \/ Start
  \/ \E l \in Links : LinkDrops(l) \/ LinkReturns(l) \/ RetryFails(l)
  \/ AttemptAnswered \/ AttemptAgain \/ ResubscribeAnswered
  \/ \E s \in Sockets : Connects(s) \/ Upgrades(s) \/ Disconnects(s) \/ GraceEnds(s)
  \/ Shutdown \/ HttpClosed \/ CloseStores \/ ForceExit

Spec == Init /\ [][Next]_vars

(* Timers fire and Redis answers; no client has to leave or to let the     *)
(* port be closed, no link to return.                                      *)
Fairness ==
  /\ WF_vars(AttemptAnswered) /\ WF_vars(AttemptAgain) /\ WF_vars(ResubscribeAnswered)
  /\ WF_vars(CloseStores) /\ WF_vars(ForceExit)

FairSpec == Spec /\ Fairness

-----------------------------------------------------------------------------
(* Properties *)

(* A process that was told to stop does stop, whether or not its clients   *)
(* leave: it is only the forced exit that sees to it.                      *)
ShutdownEnds == phase = "stopping" ~> phase = "exited"

(* Exit code 0 says that every client had been disconnected, by itself or  *)
(* by the server, that no store was left open and that the engine was to   *)
(* begin no more cycles: a cycle that the signal met may still have run.   *)
CleanExit ==
  phase = "exited" /\ code = 0 =>
    ~engine /\ (\A s \in Sockets : ~There(s)) /\ (\A l \in Links : link[l] = "ended")

(* What GET /health/ready asks: MongoDB is connected, redisMain answers,   *)
(* the engine runs.  It does not look at the subscription.                 *)
RedisHealthy == link["main"] = "up"

Ready == phase = "running" /\ engine /\ RedisHealthy

(* The safety half of ReadyHears: a running server whose redisSub is       *)
(* connected and deaf still has a SUBSCRIBE to send or to hear of, from    *)
(* the retried attempt or from a ready handler, unless the latter's was    *)
(* refused.                                                                *)
NeverIdlyDeaf ==
  phase = "running" /\ link["sub"] = "up" /\ ~heard /\ ~unheeded =>
    attempt \in {"sent", "waiting"} \/ resub

(* However drops and retries of the two connections fall, a server that is *)
(* ready hears the match events in the end, unless redisSub is not there   *)
(* or its re-subscription was refused, which nothing repeats.              *)
ReadyHears ==
  [](Ready => <>(~Ready \/ heard \/ link["sub"] # "up" \/ unheeded))

==============================================================================
