---------------------------- MODULE CallLifecycle ----------------------------
(***************************************************************************)
(* A session from its connection to its end: the socket handlers of        *)
(* sockets/queue.handler.ts and sockets/connection.handler.ts, the session *)
(* and room hashes they write, the match events they relay and the call    *)
(* each client believes to be in.  One server process; the matching engine *)
(* appears as one action, the commit that MatchQueue refines.              *)
(*                                                                         *)
(* Grain: a handler is an async function, so between two of its awaits the *)
(* handlers of every other event run.  One action is one Redis command and *)
(* the code up to the next await.  An emit reaches a client at once when   *)
(* its socket is live and is lost otherwise.                               *)
(*                                                                         *)
(* Left out: rate limits and the skip cooldown (a refused request leaves   *)
(* the state as if it had not been sent), presence keys, counters.         *)
(***************************************************************************)
EXTENDS Integers, Sequences

CONSTANTS
  Sessions,
  Slots,        \* bound: client requests being handled at the same time
  Requests,     \* the requests that clients send, a subset of AllRequests
  Droppable,    \* bound: the clients whose connection may break
  Expiry,       \* bound: whether TTLs run out
  MaxTickets,   \* bound: enqueues
  MaxSockets,   \* bound: connections
  MaxFaults     \* bound: Redis errors and restarts of the server

AllRequests == {"join", "leave_queue", "next", "leave"}

ASSUME RequestsAssumption == Requests \subseteq AllRequests

ASSUME BoundsAssumption ==
  /\ Droppable \subseteq Sessions
  /\ Expiry \in BOOLEAN
  /\ MaxTickets \in Nat
  /\ MaxSockets \in Nat
  /\ MaxFaults \in Nat

VARIABLES
  (* Redis *)
  hash,        \* session:<id>
  queue,       \* queue:entry:<id> and its place in queue:global
  lastTicket,  \* the clock that joinedAt is read from
  rooms,       \* every room ever created; its index is the room id
  toRelay,     \* rooms whose match event is still under way
  (* server memory *)
  sockets,     \* every socket ever accepted, with the state of its handlers
  timer,       \* disconnectTimers: the socket whose timer is stored, or 0
  task,        \* the request handlers that are running
  (* clients *)
  live,        \* the socket each client is connected by, or 0
  call,        \* the room each client shows, or 0
  faults

redisVars  == <<hash, queue, lastTicket, rooms, toRelay>>
serverVars == <<sockets, timer, task>>
clientVars == <<live, call>>
vars       == <<redisVars, serverVars, clientVars, faults>>

SessionHash == [kind   : {"none", "partial", "full"},  \* partial: no sessionId
                status : {"idle", "searching", "matched"},
                room   : Nat,      \* roomId
                peer   : Nat,      \* peerSocketId
                sock   : Nat]      \* socketId
Place  == [ticket : Nat, sock : Nat]
Room   == [members : Sessions \X Sessions, socks : Nat \X Nat,
           tickets : Nat \X Nat,      \* the entries it consumed
           open : BOOLEAN]

(* The life of a socket on the server: connection set-up (up to its place  *)
(* in session:<id>, and up to its listeners), the listening socket,        *)
(* handleDisconnect, the armed timer, finalizeDisconnect.                  *)
Lives  == {"attach", "join", "recover", "ready", "leaving", "dequeue", "idle",
           "armed", "final", "heal", "destroy", "over"}
SocketState == [owner : Sessions, life : Lives, peer : Nat]

Steps  == {"none", "exists", "get", "room", "idle", "enqueue", "searching",
           "close", "dequeue", "reread"}
Task   == [op : AllRequests \cup {"none"}, step : Steps, sock : Nat, room : Nat]

Nowhere   == [ticket |-> 0, sock |-> 0]
NoTask    == [op |-> "none", step |-> "none", sock |-> 0, room |-> 0]
Destroyed == [kind |-> "none", status |-> "idle", room |-> 0, peer |-> 0, sock |-> 0]

TypeOK ==
  /\ hash \in [Sessions -> SessionHash]
  /\ queue \in [Sessions -> Place]
  /\ lastTicket \in Nat
  /\ rooms \in Seq(Room)
  /\ toRelay \subseteq DOMAIN rooms
  /\ sockets \in Seq(SocketState)
  /\ timer \in [Sessions -> 0..Len(sockets)]
  /\ task \in [Slots -> Task]
  /\ live \in [Sessions -> 0..Len(sockets)]
  /\ call \in [Sessions -> 0..Len(rooms)]
  /\ faults \in 0..MaxFaults

(* createSession has run over HTTP; nobody is connected yet. *)
Init ==
  /\ hash = [s \in Sessions |-> [Destroyed EXCEPT !.kind = "full"]]
  /\ queue = [s \in Sessions |-> Nowhere]
  /\ lastTicket = 0
  /\ rooms = <<>>
  /\ toRelay = {}
  /\ sockets = <<>>
  /\ timer = [s \in Sessions |-> 0]
  /\ task = [h \in Slots |-> NoTask]
  /\ live = [s \in Sessions |-> 0]
  /\ call = [s \in Sessions |-> 0]
  /\ faults = 0

-----------------------------------------------------------------------------
(* The stored session *)

Full(s)      == hash[s].kind = "full"
InQueue(s)   == queue[s].ticket # 0
OwnerOf(k)   == sockets[k].owner
Sid(h)       == OwnerOf(task[h].sock)

(* HSET creates a key that is not there: updateSession on a destroyed      *)
(* session leaves a hash without sessionId, which getSession reads as none.*)
TouchedWhole(s) == "full"      \* mutant: the hash is written back whole

Touched(s) == IF hash[s].kind = "none" THEN "partial" ELSE hash[s].kind

(* flattenSession drops undefined fields: a reset to idle keeps roomId,    *)
(* peerId and peerSocketId.                                                *)
WithStatus(s, status) ==
  [hash EXCEPT ![s] = [@ EXCEPT !.kind = Touched(s), !.status = status]]

(* A session that is in a room by its own account *)
SaysMatched(s) == hash[s].status = "matched" /\ hash[s].room # 0

(* What clients show after an emit to socket k that ends their call *)
ToldNobody(k) == call          \* mutant: the emit is forgotten

Told(k) == [s \in Sessions |-> IF k # 0 /\ live[s] = k THEN 0 ELSE call[s]]

-----------------------------------------------------------------------------
(* Connection and disconnection *)

(* A client passes socketAuthMiddleware and the connection handler starts: *)
(* before its first await it cancels the timer it finds in the map.        *)
TimerCancelled(s) ==
  [k \in DOMAIN sockets |->
     IF k = timer[s] THEN [sockets[k] EXCEPT !.life = "over", !.peer = 0]
     ELSE sockets[k]]

Connect(s) ==
  /\ live[s] = 0
  /\ Full(s)
  /\ Len(sockets) < MaxSockets
  /\ sockets' = Append(TimerCancelled(s), [owner |-> s, life |-> "attach", peer |-> 0])
  /\ timer' = [timer EXCEPT ![s] = 0]
  /\ live' = [live EXCEPT ![s] = Len(sockets) + 1]
  /\ UNCHANGED <<redisVars, task, call, faults>>

(* The client loses its connection; the server learns of it later. *)
Drop(s) ==
  /\ s \in Droppable
  /\ live[s] # 0
  /\ live' = [live EXCEPT ![s] = 0]
  /\ UNCHANGED <<redisVars, serverVars, call, faults>>

LifeGoes(k, life) == sockets' = [sockets EXCEPT ![k].life = life]

AttachSocket(k) ==
  /\ sockets[k].life = "attach"
  /\ LET s == OwnerOf(k)
     IN hash' = [hash EXCEPT ![s] = [@ EXCEPT !.kind = Touched(s), !.sock = k]]
  /\ LifeGoes(k, "join")
  /\ UNCHANGED <<queue, lastTicket, rooms, toRelay, timer, task, clientVars, faults>>

(* The socket joins session:<id>, where match events go. *)
JoinSessionRoom(k) ==
  /\ sockets[k].life = "join"
  /\ LifeGoes(k, "recover")
  /\ UNCHANGED <<redisVars, timer, task, clientVars, faults>>

(* The session is read for recovery, then the listeners are registered; if *)
(* the server saw the socket close before, nobody listens to its           *)
(* disconnect event.                                                       *)
RegisterHandlers(k) ==
  /\ sockets[k].life = "recover"
  /\ \/ LifeGoes(k, "ready")
     \/ live[OwnerOf(k)] # k /\ LifeGoes(k, "over")
  /\ UNCHANGED <<redisVars, timer, task, clientVars, faults>>

(* The disconnect event, at once or after a ping timeout *)
Disconnected(k) ==
  /\ sockets[k].life = "ready"
  /\ live[OwnerOf(k)] # k
  /\ LifeGoes(k, "leaving")
  /\ UNCHANGED <<redisVars, timer, task, clientVars, faults>>

(* handleDisconnect reads the session and decides once, on what it read. *)
HandleDisconnect(k) ==
  LET s == OwnerOf(k)
      searching == Full(s) /\ hash[s].status = "searching"
      inRoom    == Full(s) /\ SaysMatched(s)
  IN /\ sockets[k].life = "leaving"
     /\ \/ /\ searching
           /\ LifeGoes(k, "dequeue")
           /\ UNCHANGED timer
        \/ /\ inRoom
           /\ sockets' = [sockets EXCEPT ![k].life = "armed",
                                         ![k].peer = hash[s].peer]
           /\ timer' = [timer EXCEPT ![s] = k]
        \/ /\ ~searching /\ ~inRoom
           /\ LifeGoes(k, "over")
           /\ UNCHANGED timer
     /\ UNCHANGED <<redisVars, task, clientVars, faults>>

DisconnectDequeue(k) ==
  /\ sockets[k].life = "dequeue"
  /\ queue' = [queue EXCEPT ![OwnerOf(k)] = Nowhere]
  /\ LifeGoes(k, "idle")
  /\ UNCHANGED <<hash, lastTicket, rooms, toRelay, timer, task, clientVars, faults>>

DisconnectIdle(k) ==
  /\ sockets[k].life = "idle"
  /\ hash' = WithStatus(OwnerOf(k), "idle")
  /\ LifeGoes(k, "over")
  /\ UNCHANGED <<queue, lastTicket, rooms, toRelay, timer, task, clientVars, faults>>

(* The grace period is over: finalizeDisconnect first deletes what the map *)
(* holds for the session, its own timer or a later one.                    *)
TimerKept(s) == timer          \* mutant: the map is not cleaned

TimerDeleted(s) == [timer EXCEPT ![s] = 0]

TimerFires(k) ==
  /\ sockets[k].life = "armed"
  /\ timer' = TimerDeleted(OwnerOf(k))
  /\ LifeGoes(k, "final")
  /\ UNCHANGED <<redisVars, task, clientVars, faults>>

FinalizeDisconnect(k) ==
  LET s == OwnerOf(k)
      reconnected == Full(s) /\ hash[s].sock # k
      gone        == Full(s) /\ hash[s].sock = k
  IN /\ sockets[k].life = "final"
     /\ \/ /\ gone
           /\ call' = Told(sockets[k].peer)
           /\ LifeGoes(k, "destroy")
        \/ /\ reconnected /\ hash[s].status = "matched"
           /\ LifeGoes(k, "heal")
           /\ UNCHANGED call
        \/ /\ ~gone /\ ~(reconnected /\ hash[s].status = "matched")
           /\ LifeGoes(k, "over")
           /\ UNCHANGED call
     /\ UNCHANGED <<redisVars, timer, task, live, faults>>

HealReconnected(k) ==
  /\ sockets[k].life = "heal"
  /\ hash' = WithStatus(OwnerOf(k), "idle")
  /\ LifeGoes(k, "over")
  /\ UNCHANGED <<queue, lastTicket, rooms, toRelay, timer, task, clientVars, faults>>

(* destroySession; the room stays as it is. *)
DestroySession(k) ==
  /\ sockets[k].life = "destroy"
  /\ hash' = [hash EXCEPT ![OwnerOf(k)] = Destroyed]
  /\ LifeGoes(k, "over")
  /\ UNCHANGED <<queue, lastTicket, rooms, toRelay, timer, task, clientVars, faults>>

-----------------------------------------------------------------------------
(* The requests of a client *)

FirstStep == [join |-> "exists", leave_queue |-> "dequeue", next |-> "get", leave |-> "get"]
AfterRoom == [next |-> "idle", leave |-> "dequeue"]
AfterIdle == [join |-> "enqueue", leave_queue |-> "none", next |-> "reread", leave |-> "none"]

(* The handler goes on with its next await, or returns. *)
Go(h, step) ==
  task' = [task EXCEPT ![h] =
             IF step = "none" THEN NoTask ELSE [@ EXCEPT !.step = step]]

GoWith(h, step, room) ==
  task' = [task EXCEPT ![h] =
             IF step = "none" THEN NoTask ELSE [@ EXCEPT !.step = step, !.room = room]]

(* A client that skips or leaves drops its call as it sends the request. *)
Request(s, op, h) ==
  /\ task[h] = NoTask
  /\ op \in Requests
  /\ live[s] # 0
  /\ sockets[live[s]].life = "ready"
  /\ task' = [task EXCEPT ![h] =
                [op |-> op, step |-> FirstStep[op], sock |-> live[s], room |-> 0]]
  /\ call' = IF op \in {"next", "leave"} THEN [call EXCEPT ![s] = 0] ELSE call
  /\ UNCHANGED <<redisVars, sockets, timer, live, faults>>

(* join_queue: isInQueue *)
JoinIsInQueue(h) ==
  /\ task[h].step = "exists"
  /\ Go(h, IF InQueue(Sid(h)) THEN "none" ELSE "get")
  /\ UNCHANGED <<redisVars, sockets, timer, clientVars, faults>>

(* join_queue: getSession and the test for a stale status *)
JoinGetSession(h) ==
  LET s == Sid(h)
  IN /\ task[h].step = "get"
     /\ task[h].op = "join"
     /\ \/ ~Full(s) /\ Go(h, "none")
        \/ Full(s) /\ hash[s].status # "matched" /\ Go(h, "enqueue")
        \/ Full(s) /\ hash[s].status = "matched" /\ hash[s].room = 0 /\ Go(h, "idle")
        \/ Full(s) /\ SaysMatched(s) /\ GoWith(h, "room", hash[s].room)
     /\ UNCHANGED <<redisVars, sockets, timer, clientVars, faults>>

(* join_queue: getRoom; only a room that is gone lets the request go on. *)
JoinGetRoom(h) ==
  /\ task[h].step = "room"
  /\ Go(h, IF rooms[task[h].room].open THEN "none" ELSE "idle")
  /\ UNCHANGED <<redisVars, sockets, timer, clientVars, faults>>

(* chat:next and chat:leave: getSession, and the emit to the peer *)
PartGetSession(h) ==
  LET s    == Sid(h)
      op   == task[h].op
      peer == IF Full(s) /\ (op = "leave" \/ hash[s].room # 0) THEN hash[s].peer ELSE 0
  IN /\ task[h].step = "get"
     /\ op \in {"next", "leave"}
     /\ call' = Told(peer)
     /\ IF Full(s) /\ hash[s].room # 0
        THEN GoWith(h, "close", hash[s].room)
        ELSE Go(h, AfterRoom[op])
     /\ UNCHANGED <<redisVars, sockets, timer, live, faults>>

CloseRoom(h) ==
  /\ task[h].step = "close"
  /\ rooms' = [rooms EXCEPT ![task[h].room].open = FALSE]
  /\ Go(h, AfterRoom[task[h].op])
  /\ UNCHANGED <<hash, queue, lastTicket, toRelay, sockets, timer, clientVars, faults>>

DequeueSelf(h) ==
  /\ task[h].step = "dequeue"
  /\ queue' = [queue EXCEPT ![Sid(h)] = Nowhere]
  /\ Go(h, "idle")
  /\ UNCHANGED <<hash, lastTicket, rooms, toRelay, sockets, timer, clientVars, faults>>

(* updateSession({ status: 'idle', ... }), where each request has it *)
SetIdle(h) ==
  /\ task[h].step = "idle"
  /\ hash' = WithStatus(Sid(h), "idle")
  /\ Go(h, AfterIdle[task[h].op])
  /\ UNCHANGED <<queue, lastTicket, rooms, toRelay, sockets, timer, clientVars, faults>>

(* chat:next: the second getSession *)
NextReread(h) ==
  /\ task[h].step = "reread"
  /\ Go(h, IF Full(Sid(h)) THEN "enqueue" ELSE "none")
  /\ UNCHANGED <<redisVars, sockets, timer, clientVars, faults>>

(* The enqueue script: an entry that is there stays as it is. *)
MayEnqueueAgain(s) == TRUE     \* mutant: the EXISTS test is dropped

MayEnqueue(s) == ~InQueue(s)

EnqueueSelf(h) ==
  LET s == Sid(h)
  IN /\ task[h].step = "enqueue"
     /\ \/ /\ MayEnqueue(s)
           /\ lastTicket < MaxTickets
           /\ lastTicket' = lastTicket + 1
           /\ queue' = [queue EXCEPT ![s] =
                          [ticket |-> lastTicket + 1, sock |-> task[h].sock]]
           /\ Go(h, "searching")
        \/ /\ ~MayEnqueue(s)
           /\ Go(h, "none")
           /\ UNCHANGED <<queue, lastTicket>>
     /\ UNCHANGED <<hash, rooms, toRelay, sockets, timer, clientVars, faults>>

SetSearching(h) ==
  /\ task[h].step = "searching"
  /\ hash' = WithStatus(Sid(h), "searching")
  /\ Go(h, "none")
  /\ UNCHANGED <<queue, lastTicket, rooms, toRelay, sockets, timer, clientVars, faults>>

-----------------------------------------------------------------------------
(* Matching, time and faults *)

(* The commit script, on what the queue holds for the two sessions *)
LastRoomId == Len(rooms)       \* mutant: the id of the room before

NewRoomId == Len(rooms) + 1

MatchedUncrossed(s, sock) ==   \* mutant: each hash stores its own socket
  [hash[s] EXCEPT !.status = "matched", !.room = NewRoomId, !.peer = queue[s].sock]

Matched(s, sock) ==
  [hash[s] EXCEPT !.status = "matched", !.room = NewRoomId, !.peer = sock]

CommitMatch(s, t) ==
  /\ InQueue(s) /\ InQueue(t)
  /\ queue[s].ticket < queue[t].ticket
  /\ hash[s].kind # "none" /\ hash[t].kind # "none"
  /\ rooms' = Append(rooms, [members |-> <<s, t>>,
                             socks   |-> <<queue[s].sock, queue[t].sock>>,
                             tickets |-> <<queue[s].ticket, queue[t].ticket>>,
                             open    |-> TRUE])
  /\ hash' = [hash EXCEPT ![s] = Matched(s, queue[t].sock),
                          ![t] = Matched(t, queue[s].sock)]
  /\ queue' = [queue EXCEPT ![s] = Nowhere, ![t] = Nowhere]
  /\ toRelay' = toRelay \cup {NewRoomId}
  /\ UNCHANGED <<lastTicket, serverVars, clientVars, faults>>

(* The match event reaches the sockets that are in session:<id> by then. *)
Listening(s) == live[s] # 0 /\ sockets[live[s]].life \in {"recover", "ready"}

RelayMatch(r) ==
  /\ r \in toRelay
  /\ toRelay' = toRelay \ {r}
  /\ call' = [s \in Sessions |->
                IF s \in {rooms[r].members[1], rooms[r].members[2]} /\ Listening(s)
                THEN r ELSE call[s]]
  /\ UNCHANGED <<hash, queue, lastTicket, rooms, serverVars, live, faults>>

EntryExpires(s) ==
  /\ Expiry
  /\ InQueue(s)
  /\ queue' = [queue EXCEPT ![s] = Nowhere]
  /\ UNCHANGED <<hash, lastTicket, rooms, toRelay, serverVars, clientVars, faults>>

RoomExpires(r) ==
  /\ Expiry
  /\ rooms[r].open
  /\ rooms' = [rooms EXCEPT ![r].open = FALSE]
  /\ UNCHANGED <<hash, queue, lastTicket, toRelay, serverVars, clientVars, faults>>

Fault == faults < MaxFaults /\ faults' = faults + 1

(* A command of a request handler rejects: closeRoom is best effort, a     *)
(* failed getRoom counts as no room, everything else ends the handler.     *)
AfterError(h) ==
  IF task[h].step = "close" THEN AfterRoom[task[h].op]
  ELSE IF task[h].step = "room" THEN "idle"
  ELSE "none"

RequestFails(h) ==
  /\ Fault
  /\ task[h] # NoTask
  /\ Go(h, AfterError(h))
  /\ UNCHANGED <<redisVars, sockets, timer, clientVars>>

(* A command of the connection, disconnect or finalize handler rejects. *)
SocketFails(k) ==
  /\ Fault
  /\ sockets[k].life \notin {"ready", "armed", "over"}
  /\ sockets' = [sockets EXCEPT ![k].life = "over", ![k].peer = 0]
  /\ live' = [s \in Sessions |->
                IF live[s] = k /\ sockets[k].life \in {"attach", "join", "recover"}
                THEN 0 ELSE live[s]]
  /\ UNCHANGED <<redisVars, timer, task, call>>

(* The process stops, gracefully or not, and is started again: handlers,   *)
(* timers and the messages under way are gone, Redis keeps what it holds.  *)
ServerRestarts ==
  /\ Fault
  /\ sockets # <<>>
  /\ sockets' = [k \in DOMAIN sockets |-> [sockets[k] EXCEPT !.life = "over", !.peer = 0]]
  /\ timer' = [s \in Sessions |-> 0]
  /\ task' = [h \in Slots |-> NoTask]
  /\ live' = [s \in Sessions |-> 0]
  /\ toRelay' = {}
  /\ UNCHANGED <<hash, queue, lastTicket, rooms, call>>

SocketStep(k) ==
  \/ AttachSocket(k) \/ JoinSessionRoom(k) \/ RegisterHandlers(k) \/ Disconnected(k)
  \/ HandleDisconnect(k) \/ DisconnectDequeue(k) \/ DisconnectIdle(k)
  \/ TimerFires(k) \/ FinalizeDisconnect(k) \/ HealReconnected(k) \/ DestroySession(k)

RequestStep(h) ==
  \/ JoinIsInQueue(h) \/ JoinGetSession(h) \/ JoinGetRoom(h)
  \/ PartGetSession(h) \/ CloseRoom(h) \/ DequeueSelf(h) \/ SetIdle(h)
  \/ NextReread(h) \/ EnqueueSelf(h) \/ SetSearching(h)

Next ==
  \/ \E s \in Sessions : Connect(s) \/ Drop(s) \/ EntryExpires(s)
  \/ \E s \in Sessions, op \in AllRequests, h \in Slots : Request(s, op, h)
  \/ \E h \in Slots : RequestStep(h) \/ RequestFails(h)
  \/ \E k \in DOMAIN sockets : SocketStep(k) \/ SocketFails(k)
  \/ \E s, t \in Sessions : CommitMatch(s, t)
  \/ \E r \in DOMAIN rooms : RelayMatch(r) \/ RoomExpires(r)
  \/ ServerRestarts

Spec == Init /\ [][Next]_vars

(* The event loop serves every handler, timers fire, closed connections    *)
(* are noticed and match events arrive; users and engines owe nothing.     *)
Fairness ==
  /\ \A h \in Slots : WF_vars(RequestStep(h))
  /\ \A k \in 1..MaxSockets : WF_vars(k \in DOMAIN sockets /\ SocketStep(k))
  /\ \A r \in 1..MaxTickets : WF_vars(r \in DOMAIN rooms /\ RelayMatch(r))

FairSpec == Spec /\ Fairness

-----------------------------------------------------------------------------
(* Properties *)

(* The match queue as the handlers use it is the abstract queue: whatever  *)
(* handlers race, an entry is handed out, withdrawn or paired, never both  *)
(* used up and kept, never replaced by a later one of the same session.    *)
Promise == INSTANCE Pairing WITH
  waiting <- [s \in Sessions |-> queue[s].ticket],
  issued  <- lastTicket,
  pairs   <- {{rooms[r].tickets[1], rooms[r].tickets[2]} : r \in DOMAIN rooms}

KeepsPromise == Promise!Spec

(* roomId and peerSocketId of a session are never torn apart by a partial  *)
(* update: the stored peer is the socket that the stored room holds for    *)
(* the other member, however old the two are.                              *)
PeerFieldsAgree ==
  \A s \in Sessions : hash[s].room # 0 =>
    LET r == rooms[hash[s].room]
    IN \/ r.members[1] = s /\ hash[s].peer = r.socks[2]
       \/ r.members[2] = s /\ hash[s].peer = r.socks[1]

(* A destroyed session stays destroyed: a handler that comes late may      *)
(* leave fields behind, but never a session that getSession would accept.  *)
NoResurrection ==
  [][\A s \in Sessions : hash[s].kind # "full" => hash'[s].kind # "full"]_vars

(* What the map of timers holds can still fire: no handler leaves the      *)
(* timer of a finished disconnect behind for a later connection to cancel. *)
StoredTimerIsArmed ==
  \A s \in Sessions : timer[s] # 0 =>
    sockets[timer[s]].life = "armed" /\ OwnerOf(timer[s]) = s

Others(s, k) == {j \in DOMAIN sockets : OwnerOf(j) = s /\ j # k}

(* s, stored as matched in room r and with nothing else under way for it,  *)
(* is gone, and t still shows the call on the socket that s has stored.    *)
Abandoned(s, t, r) ==
  LET k == hash[s].sock
  IN /\ k # 0 /\ sockets[k].life = "ready" /\ live[s] = 0
     /\ Full(s) /\ SaysMatched(s) /\ hash[s].room = r /\ ~InQueue(s)
     /\ \A h \in Slots : task[h] = NoTask \/ Sid(h) # s
     /\ \A j \in Others(s, k) : sockets[j].life = "over"
     /\ live[t] = hash[s].peer /\ call[t] = r

(* A call whose other end vanishes does not stay on the screen: unless the *)
(* vanished client comes back, its partner is told, or has moved on.       *)
AbandonedCallEnds ==
  \A s \in Droppable, r \in 1..MaxTickets, k \in 1..MaxSockets :
    \A t \in Sessions \ {s} :
      Abandoned(s, t, r) /\ live[t] = k ~> call[t] # r \/ live[s] # 0 \/ live[t] # k

(* "Tear down current room": what the handlers of one session do ends the  *)
(* call on a client's screen only if that session is in that very call.    *)
(* Does not hold: README, Findings.                                        *)
RunsFor(job, s) == job.sock # 0 /\ OwnerOf(job.sock) = s

Acts(s) ==
  \/ \E h \in Slots :
       task'[h] # task[h] /\ (RunsFor(task[h], s) \/ RunsFor(task'[h], s))
  \/ \E k \in DOMAIN sockets : OwnerOf(k) = s /\ sockets'[k] # sockets[k]

OnlyPartnersEndCalls ==
  [][\A t \in Sessions : call[t] # 0 /\ call'[t] = 0 =>
       LET r == rooms[call[t]] IN Acts(r.members[1]) \/ Acts(r.members[2])]_vars

(* "Genuine active room - do not allow queue join": a client is refused    *)
(* the queue because of a room only while both of the room still exist.    *)
(* Does not hold: README, Findings.                                        *)
RefusedOnlyInCall ==
  [][\A h \in Slots :
       task[h].step = "room" /\ task'[h] = NoTask /\ faults' = faults =>
         LET r == rooms[task[h].room] IN Full(r.members[1]) /\ Full(r.members[2])]_vars

(* "If in a room, notify peer after grace period": a client that shows a   *)
(* call with somebody who is gone for good learns of it.                   *)
(* Does not hold: README, Findings.                                        *)
InRoomTogether(s, t, r) ==
  r \in DOMAIN rooms /\ {rooms[r].members[1], rooms[r].members[2]} = {s, t}

PeerNotified ==
  \A s, t \in Sessions, r \in 1..MaxTickets : s # t =>
    (InRoomTogether(s, t, r) /\ live[s] = 0 /\ live[t] # 0 /\ call[t] = r)
      ~> (call[t] # r \/ live[s] # 0 \/ live[t] = 0)

==============================================================================
