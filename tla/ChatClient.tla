------------------------------ MODULE ChatClient ------------------------------
(***************************************************************************)
(* One browser tab in the chat room, from end to end: the session it opens *)
(* (hooks/useSession.ts), its socket (lib/socket.ts, hooks/useSocket.ts),  *)
(* the queue phase machine, the call store, the effects and buttons of     *)
(* ChatRoom.tsx - and the server as this one session meets it, the view    *)
(* that CallLifecycle gives in detail.                                     *)
(*                                                                         *)
(* Grain: one event handler, one React effect, one server handler.  Events *)
(* of a connection arrive in order; what is under way when it breaks is    *)
(* lost.  The partner is the environment.                                  *)
(***************************************************************************)
EXTENDS Naturals, Sequences

CONSTANTS
  Trouble,      \* bound: the kinds of trouble that may happen
  MaxTrouble,   \* bound: how many of them
  MaxSkips,     \* bound: clicks on "next"
  MaxVisits,    \* bound: how often the chat room is opened
  MaxRooms      \* bound: matches

AllTrouble == {"drop", "early", "expire", "limit", "error", "webrtc", "stray",
               "vanish", "offline"}

ASSUME BoundsAssumption ==
  /\ Trouble \subseteq AllTrouble
  /\ {MaxTrouble, MaxSkips, MaxVisits, MaxRooms} \subseteq Nat

VARIABLES
  (* the tab *)
  session,   \* status of useSession; "away" when the chat room is not open
  online,    \* useNetworkStatus
  sock,      \* the socket of lib/socket.ts
  phase,     \* queuePhaseRef
  status,    \* callStore.status: it outlives the chat room
  pc,        \* the RTCPeerConnection of useWebRTC
  seen,      \* what the auto-join effect last ran with
  retry,     \* the timer after RATE_LIMITED; "stale" if its hook is unmounted
  (* the connection *)
  toServer, toClient,
  (* the server, as far as this session goes *)
  srv,       \* where the session is
  mine,      \* the entry or room the session is in stores its current socket
  reachable, \* the socket is in session:<id>, where match events go
  ready,     \* the handlers of the socket are registered
  ack,       \* a QUEUE_JOINED is due
  notice,    \* what the server has still to learn of a closed socket
  grace,     \* finalizeDisconnect is armed
  cooldown,  \* cooldown:next:<id> exists
  (* bounds and history *)
  troubles, skips, visits, matches,
  snag       \* something happened since the last match that nobody handles

tabVars    == <<session, online, sock, phase, status, pc, seen, retry>>
wireVars   == <<toServer, toClient>>
serverVars == <<srv, mine, reachable, ready, ack, notice, grace, cooldown>>
boundVars  == <<troubles, skips, visits, matches>>
vars       == <<tabVars, wireVars, serverVars, boundVars, snag>>

Statuses == {"idle", "searching", "matched", "connected", "reconnecting"}
Requests == {"join", "next"}
Events   == {"joined", "match", "left", "silent", "limited", "error"}

TypeOK ==
  /\ session \in {"away", "loading", "ready", "limited", "error"}
  /\ sock \in {"none", "opening", "up", "dead"}
  /\ phase \in {"idle", "joining", "searching", "matched"}
  /\ status \in Statuses
  /\ pc \in {"none", "setup", "open", "lost"}
  /\ seen \in BOOLEAN \X BOOLEAN \X Statuses
  /\ retry \in {"none", "armed", "stale"}
  /\ toServer \in Seq(Requests)
  /\ toClient \in Seq(Events)
  /\ srv \in {"none", "idle", "queued", "room", "deserted"}
  /\ notice \in {"none", "drop", "leave"}
  /\ {online, mine, reachable, ready, ack, grace, cooldown, snag} \subseteq BOOLEAN
  /\ sock = "up" => session = "ready"

Init ==
  /\ session = "away" /\ online = TRUE /\ sock = "none"
  /\ phase = "idle" /\ status = "idle" /\ pc = "none"
  /\ seen = <<TRUE, FALSE, "idle">> /\ retry = "none"
  /\ toServer = <<>> /\ toClient = <<>>
  /\ srv = "none" /\ mine = FALSE /\ reachable = FALSE /\ ready = FALSE /\ ack = FALSE
  /\ notice = "none" /\ grace = FALSE /\ cooldown = FALSE
  /\ troubles = 0 /\ skips = 0 /\ visits = 0 /\ matches = 0
  /\ snag = FALSE

Up     == sock = "up"
InRoom == srv \in {"room", "deserted"}    \* deserted: the partner is no more
Deps == <<online, Up, status>>

(* React renders a change and runs the effects before the next task of the *)
(* tab: store updates are flushed synchronously.                           *)
Rendered == session # "away" => seen = Deps

(* One unit of trouble of kind k *)
Suffer(k) ==
  /\ k \in Trouble
  /\ troubles < MaxTrouble
  /\ troubles' = troubles + 1
  /\ UNCHANGED <<skips, visits, matches>>

(* A response that is not ok becomes an exception, which says whether the  *)
(* limit was it.                                                           *)
RequestRejected(k) == Suffer(k)

(* Server to client, on the socket that is connected, if any *)
Emit(event) == toClient' = IF Up THEN Append(toClient, event) ELSE toClient

-----------------------------------------------------------------------------
(* The session and the socket *)

(* ChatRoom is mounted: hook state is new, the store is what it was. *)
OpenChatRoom ==
  /\ session = "away"
  /\ visits < MaxVisits
  /\ visits' = visits + 1
  /\ session' = "loading"
  /\ phase' = "idle"
  /\ seen' = <<online, FALSE, status>>
  /\ snag' = (snag \/ status # "idle")
  /\ UNCHANGED <<online, sock, status, pc, retry, wireVars, serverVars,
                 troubles, skips, matches>>

(* The stored token is validated; if that fails a session is created. *)
KeepSession ==
  /\ session = "loading"
  /\ srv # "none"
  /\ session' = "ready"
  /\ sock' = "opening"
  /\ UNCHANGED <<online, phase, status, pc, seen, retry, wireVars, serverVars,
                 boundVars, snag>>

CreateSession ==
  /\ session = "loading"
  /\ srv = "none" \/ RequestRejected("error")
  /\ srv = "none" => UNCHANGED boundVars
  /\ session' = "ready"
  /\ sock' = "opening"
  /\ srv' = "idle" /\ mine' = FALSE
  /\ notice' = "none" /\ grace' = FALSE /\ ack' = FALSE /\ cooldown' = FALSE
  /\ UNCHANGED <<online, phase, status, pc, seen, retry, wireVars, reachable,
                 ready, snag>>

(* 429: no retry.  405 or no backend: no retry.  Both need a reload. *)
SessionRefused ==
  /\ session = "loading"
  /\ \/ RequestRejected("limit") /\ session' = "limited"
     \/ RequestRejected("error") /\ session' = "error"
  /\ UNCHANGED <<online, sock, phase, status, pc, seen, retry, wireVars,
                 serverVars, snag>>

(* The handshake succeeds; the connection handler cancels the grace timer. *)
SocketConnects ==
  /\ sock = "opening" /\ Rendered
  /\ srv # "none"
  /\ sock' = "up"
  /\ toServer' = <<>> /\ toClient' = <<>>
  /\ reachable' = FALSE /\ ready' = FALSE /\ grace' = FALSE
  /\ UNCHANGED <<session, online, phase, status, pc, seen, retry, srv, mine,
                 ack, notice, cooldown, boundVars, snag>>

(* A refused handshake is not tried again, nor a sixth failed attempt. *)
SocketGivesUp ==
  /\ sock = "opening" /\ Rendered
  /\ IF srv = "none" THEN UNCHANGED boundVars ELSE Suffer("drop")
  /\ sock' = "dead"
  /\ UNCHANGED <<session, online, phase, status, pc, seen, retry, wireVars,
                 serverVars, snag>>

(* The phase goes back to idle, the status of the store stays. *)
PhaseKept == phase             \* mutant: the phase is not reset

PhaseAfterDrop == IF phase \in {"joining", "searching"} THEN "idle" ELSE phase

SocketDrops ==
  /\ Up /\ Rendered /\ notice = "none"
  /\ Suffer("drop")
  /\ sock' = "opening"
  /\ phase' = PhaseAfterDrop
  /\ toServer' = <<>> /\ toClient' = <<>>
  /\ reachable' = FALSE /\ ready' = FALSE /\ ack' = FALSE /\ mine' = FALSE
  /\ notice' = "drop"
  /\ snag' = (snag \/ status = "searching" \/ toClient # <<>>)
  /\ UNCHANGED <<session, online, status, pc, seen, retry, srv, grace, cooldown>>

(* disconnectSocket, in the clean-up of useSocket *)
SocketLeftOpen == sock         \* mutant: the clean-up does not disconnect

SocketClosed == "none"

(* The user leaves: with the button (chat:leave, the store is reset, but   *)
(* only over a live socket) or by going back, which just unmounts.         *)
LeaveChatRoom(button) ==
  LET leaves == button /\ Up
  IN /\ session # "away" /\ Rendered
     /\ notice = "none"
     /\ session' = "away"
     /\ sock' = SocketClosed
     /\ status' = IF leaves THEN "idle" ELSE status
     /\ pc' = "none"
     /\ retry' = IF retry = "armed" THEN "stale" ELSE retry
     /\ toServer' = <<>> /\ toClient' = <<>>
     /\ reachable' = FALSE /\ ready' = FALSE /\ ack' = FALSE /\ mine' = FALSE
     /\ notice' = IF ~Up THEN "none" ELSE IF leaves /\ ready THEN "leave" ELSE "drop"
     /\ UNCHANGED <<online, phase, seen, srv, grace, cooldown, boundVars, snag>>

NetworkChanges ==
  /\ session # "away" /\ Rendered
  /\ IF online THEN Suffer("offline") ELSE UNCHANGED boundVars
  /\ online' = ~online
  /\ UNCHANGED <<session, sock, phase, status, pc, seen, retry, wireVars,
                 serverVars, snag>>

-----------------------------------------------------------------------------
(* Requests *)

MayJoin == Up /\ phase = "idle"

(* useEffect([isOnline, isConnected, status]): runs when one has changed. *)
AutoJoin ==
  /\ session # "away"
  /\ seen # Deps
  /\ seen' = Deps
  /\ IF online /\ status = "idle" /\ MayJoin
     THEN phase' = "joining" /\ toServer' = Append(toServer, "join")
     ELSE UNCHANGED <<phase, toServer>>
  /\ UNCHANGED <<session, online, sock, status, pc, retry, toClient, serverVars,
                 boundVars, snag>>

(* 3.5 s after RATE_LIMITED.  The timer outlives its hook, whose phase then *)
(* is no longer the one of the room.                                       *)
RetryFires ==
  /\ retry # "none" /\ Rendered
  /\ retry' = "none"
  /\ IF Up /\ status = "idle" /\ (phase = "idle" \/ retry = "stale")
     THEN /\ toServer' = Append(toServer, "join")
          /\ phase' = IF retry = "armed" THEN "joining" ELSE phase
     ELSE UNCHANGED <<phase, toServer>>
  /\ UNCHANGED <<session, online, sock, status, pc, seen, toClient, serverVars,
                 boundVars, snag>>

(* Button, swipe or space bar, in a call or not *)
MaySkip == Up /\ online /\ Rendered

SkipPartner ==
  /\ MaySkip
  /\ skips < MaxSkips
  /\ skips' = skips + 1
  /\ phase' = "searching"
  /\ status' = "searching"
  /\ pc' = "none"
  /\ toServer' = Append(toServer, "next")
  /\ UNCHANGED <<session, online, sock, seen, retry, toClient, serverVars,
                 troubles, visits, matches, snag>>

-----------------------------------------------------------------------------
(* What the server does with them *)

(* The socket joins session:<id>; the recovery of the session and the      *)
(* listeners come after it.                                                *)
JoinSessionRoom ==
  /\ Up /\ ~reachable
  /\ reachable' = TRUE
  /\ UNCHANGED <<tabVars, wireVars, srv, mine, ready, ack, notice, grace, cooldown,
                 boundVars, snag>>

RegisterHandlers ==
  /\ Up /\ reachable /\ ~ready
  /\ ready' = TRUE
  /\ UNCHANGED <<tabVars, wireVars, srv, mine, reachable, ack, notice, grace, cooldown,
                 boundVars, snag>>

(* Nobody listens yet: the event is gone. *)
LostBeforeReady ==
  /\ ~ready /\ toServer # <<>>
  /\ Suffer("early")
  /\ toServer' = Tail(toServer)
  /\ snag' = TRUE
  /\ UNCHANGED <<tabVars, toClient, serverVars>>

Receive(request) ==
  /\ ready /\ toServer # <<>> /\ Head(toServer) = request
  /\ toServer' = Tail(toServer)

ServeJoin ==
  /\ Receive("join")
  /\ \/ /\ srv \in {"idle", "queued"}
        /\ srv' = "queued" /\ ack' = TRUE
        /\ mine' = (mine \/ srv = "idle")
        /\ UNCHANGED <<toClient, boundVars, snag>>
     \/ /\ InRoom                           \* the room still exists
        /\ Emit("silent") /\ snag' = TRUE
        /\ UNCHANGED <<srv, mine, ack, boundVars>>
     \/ /\ srv # "queued"
        /\ \/ Suffer("limit") /\ Emit("limited") /\ UNCHANGED snag
           \/ Suffer("error") /\ Emit("error") /\ snag' = TRUE
        /\ UNCHANGED <<srv, mine, ack>>
  /\ UNCHANGED <<tabVars, reachable, ready, notice, grace, cooldown>>

(* Past the limit and the cooldown: the room is closed and the session     *)
(* queued; one that is queued already gets no answer.                      *)
ServeNext ==
  /\ Receive("next")
  /\ \/ /\ ~cooldown
        /\ cooldown' = TRUE
        /\ srv' = "queued"
        /\ mine' = (mine \/ srv # "queued")
        /\ ack' = (ack \/ srv # "queued")
        /\ UNCHANGED <<toClient, boundVars, snag>>
     \/ /\ cooldown                         \* silently ignored
        /\ snag' = TRUE
        /\ UNCHANGED <<srv, mine, ack, cooldown, toClient, boundVars>>
     \/ /\ Suffer("limit") /\ Emit("limited") /\ snag' = TRUE
        /\ UNCHANGED <<srv, mine, ack, cooldown>>
  /\ UNCHANGED <<tabVars, reachable, ready, notice, grace>>

CooldownEnds ==
  /\ cooldown /\ cooldown' = FALSE
  /\ UNCHANGED <<tabVars, wireVars, srv, mine, reachable, ready, ack, notice, grace,
                 boundVars, snag>>

(* Two awaits after the enqueue; the match may have been announced first. *)
AckJoin ==
  /\ ack /\ ack' = FALSE
  /\ Emit("joined")
  /\ snag' = (snag \/ srv # "queued")
  /\ UNCHANGED <<tabVars, toServer, srv, mine, reachable, ready, notice, grace,
                 cooldown, boundVars>>

(* The socket that closed was queued: it is taken out.  It was in a room:  *)
(* the timer is armed.  chat:leave ends either.  The session may be back   *)
(* on another socket by now.                                               *)
HandleDisconnect ==
  /\ notice # "none" /\ notice' = "none"
  /\ grace' = (grace \/ (notice = "drop" /\ InRoom))
  /\ srv' = IF srv = "queued" \/ (notice = "leave" /\ InRoom) THEN "idle" ELSE srv
  /\ snag' = (snag \/ (session # "away" /\ srv' # srv))
  /\ UNCHANGED <<tabVars, wireVars, mine, reachable, ready, ack, cooldown,
                 boundVars>>

(* Back on another socket: healed to idle.  Not back: destroyed. *)
GraceEnds ==
  /\ grace /\ grace' = FALSE
  /\ srv' = IF Up THEN "idle" ELSE "none"
  /\ snag' = (snag \/ session # "away")
  /\ UNCHANGED <<tabVars, wireVars, mine, reachable, ready, ack, notice, cooldown,
                 boundVars>>

-----------------------------------------------------------------------------
(* The engine and the partner *)

(* The match event goes to the sockets in session:<id>; it is published    *)
(* once.                                                                   *)
MatchCommitted ==
  /\ srv = "queued"
  /\ matches < MaxRooms
  /\ matches' = matches + 1
  /\ srv' = "room"
  /\ IF reachable THEN Emit("match") /\ UNCHANGED snag
     ELSE UNCHANGED toClient /\ snag' = TRUE
  /\ UNCHANGED <<tabVars, toServer, mine, reachable, ready, ack, notice, grace,
                 cooldown, troubles, skips, visits>>

(* The partner skips or leaves: the event goes to the socket stored with   *)
(* the match, which is not the current one after a reconnect.              *)
PartnerParts ==
  /\ srv = "room"
  /\ srv' = "idle"
  /\ IF mine THEN Emit("left") /\ UNCHANGED snag
     ELSE UNCHANGED toClient /\ snag' = TRUE
  /\ UNCHANGED <<tabVars, toServer, mine, reachable, ready, ack, notice, grace,
                 cooldown, boundVars>>

(* The partner's grace period ends: PEER_LEFT, but the room stays. *)
PartnerVanishes ==
  /\ srv = "room"
  /\ Suffer("vanish")
  /\ srv' = "deserted"
  /\ IF mine THEN Emit("left") /\ UNCHANGED snag
     ELSE UNCHANGED toClient /\ snag' = TRUE
  /\ UNCHANGED <<tabVars, toServer, mine, reachable, ready, ack, notice, grace,
                 cooldown>>

(* PEER_LEFT or PEER_NEXT of an earlier room: it names no room. *)
StrayPeerLeft ==
  /\ Up /\ matches > 0
  /\ Suffer("stray")
  /\ Emit("left")
  /\ UNCHANGED <<tabVars, toServer, serverVars, snag>>

(* The TTL of the queue entry or of the room *)
EntryExpires ==
  /\ srv = "queued" \/ InRoom
  /\ Suffer("expire")
  /\ srv' = "idle" /\ snag' = TRUE
  /\ UNCHANGED <<tabVars, wireVars, mine, reachable, ready, ack, notice, grace,
                 cooldown>>

-----------------------------------------------------------------------------
(* What the tab does with the server's events *)

Hear(event) ==
  /\ Up /\ Rendered
  /\ toClient # <<>> /\ Head(toClient) = event
  /\ toClient' = Tail(toClient)

OnQueueJoined ==
  /\ Hear("joined")
  /\ phase' = "searching" /\ status' = "searching"
  /\ UNCHANGED <<session, online, sock, pc, seen, retry, toServer, serverVars,
                 boundVars, snag>>

OnMatchFound ==
  /\ Hear("match")
  /\ phase' = "matched" /\ status' = "matched"
  /\ pc' = "setup"
  /\ snag' = (snag /\ ~(srv = "room" /\ toClient' = <<>>))
  /\ UNCHANGED <<session, online, sock, seen, retry, toServer, serverVars, boundVars>>

StatusKept == status           \* mutant: the screen is left as it was

StatusAfterLeft == "idle"

(* An initiator that is still making its offer does not listen yet. *)
OnPeerLeft ==
  /\ Hear("left")
  /\ phase' = "idle" /\ status' = StatusAfterLeft
  /\ pc' \in IF pc = "setup" THEN {"none", "setup"} ELSE {"none"}
  /\ UNCHANGED <<session, online, sock, seen, retry, toServer, serverVars,
                 boundVars, snag>>

JoiningKept == phase           \* mutant: an error leaves the phase alone

PhaseAfterError == IF phase = "joining" THEN "idle" ELSE phase

OnSessionError ==
  /\ \E event \in {"silent", "limited", "error"} :
       /\ Hear(event)
       /\ retry' = IF event = "limited" /\ phase = "joining" THEN "armed" ELSE retry
       /\ snag' = (snag \/ (event = "limited" /\ phase # "joining"))
  /\ phase' = PhaseAfterError
  /\ UNCHANGED <<session, online, sock, status, pc, seen, toServer, serverVars,
                 boundVars>>

-----------------------------------------------------------------------------
(* The peer connection *)

PeerConnects ==
  /\ pc \in {"setup", "lost"} /\ Rendered
  /\ srv = "room"
  /\ pc' = "open" /\ status' = "connected"
  /\ UNCHANGED <<session, online, sock, phase, seen, retry, wireVars, serverVars,
                 boundVars, snag>>

(* QUEUE_JOINED does not end a call: its connection may still report.      *)
PeerDisconnects ==
  /\ pc = "open" /\ Rendered
  /\ Suffer("webrtc")
  /\ pc' = "lost" /\ status' = "reconnecting"
  /\ snag' = (snag \/ phase # "matched")
  /\ UNCHANGED <<session, online, sock, phase, seen, retry, wireVars, serverVars>>

(* "failed", or still disconnected after 5 s: the status goes to idle, the *)
(* phase stays matched.                                                    *)
PeerFails ==
  /\ Rendered
  /\ \/ pc \in {"setup", "open"} /\ Suffer("webrtc")
     \/ pc = "lost" /\ UNCHANGED boundVars
  /\ pc' = "none" /\ status' = "idle"
  /\ snag' = TRUE
  /\ UNCHANGED <<session, online, sock, phase, seen, retry, wireVars, serverVars>>

TabEvent ==
  \/ AutoJoin \/ RetryFires
  \/ OnQueueJoined \/ OnMatchFound \/ OnPeerLeft \/ OnSessionError

ServerStep ==
  \/ JoinSessionRoom \/ RegisterHandlers \/ ServeJoin \/ ServeNext \/ AckJoin
  \/ HandleDisconnect \/ GraceEnds \/ CooldownEnds

Next ==
  \/ OpenChatRoom \/ KeepSession \/ CreateSession \/ SessionRefused
  \/ SocketConnects \/ SocketGivesUp \/ SocketDrops \/ NetworkChanges
  \/ \E button \in BOOLEAN : LeaveChatRoom(button)
  \/ SkipPartner
  \/ TabEvent
  \/ ServerStep
  \/ LostBeforeReady
  \/ MatchCommitted \/ PartnerParts \/ PartnerVanishes \/ StrayPeerLeft \/ EntryExpires
  \/ PeerConnects \/ PeerDisconnects \/ PeerFails

Spec == Init /\ [][Next]_vars

(* React runs its effects, timers fire, the event loops of both ends serve *)
(* what arrives.  Users, partners and networks owe nothing.                *)
Fairness ==
  /\ WF_vars(AutoJoin) /\ WF_vars(RetryFires)
  /\ WF_vars(OnQueueJoined \/ OnMatchFound \/ OnPeerLeft \/ OnSessionError)
  /\ WF_vars(JoinSessionRoom) /\ WF_vars(RegisterHandlers)
  /\ WF_vars(ServeJoin \/ ServeNext) /\ WF_vars(AckJoin) /\ WF_vars(HandleDisconnect)

FairSpec == Spec /\ Fairness

-----------------------------------------------------------------------------
(* Properties *)

(* ChatRoom's isSearching and isInCall *)
ShowsSearch == status = "searching" \/ (Up /\ status = "idle")
ShowsCall   == status \in {"matched", "connected", "reconnecting"}

(* Nothing is under way between a tab that is online and the server. *)
Quiet ==
  /\ Up /\ online /\ ready
  /\ toServer = <<>> /\ toClient = <<>>
  /\ seen = Deps /\ retry = "none"
  /\ ~ack /\ notice = "none" /\ ~grace

(* Once everything has arrived, a tab that shows the search is queued -    *)
(* unless one of the events marked as a snag came in between: those are    *)
(* all the ways in which a user waits for a match that cannot come.        *)
SearchIsReal == Quiet /\ ShowsSearch /\ ~snag => srv = "queued"

(* Likewise a tab that shows a call is in a room with somebody. *)
CallIsReal == Quiet /\ ShowsCall /\ ~snag => srv = "room"

(* A tab that shows the search reaches the queue, or learns otherwise: no  *)
(* refused, limited or failed request leaves the phase machine waiting.    *)
SearchIsServed ==
  (Up /\ online /\ ShowsSearch)
    ~> (srv = "queued" \/ snag \/ ~Up \/ ~online \/ ~ShowsSearch)

(* "reset queue phase on disconnect so the next idle->searching transition *)
(* can proceed after reconnect": when the auto-join effect runs over a new *)
(* connection in a tab that shows the search, it joins.                    *)
RejoinsAfterReconnect ==
  [][Up /\ online /\ phase = "idle" /\ ShowsSearch /\ seen # Deps /\ seen' = Deps
       => phase' = "joining"]_vars

==============================================================================
