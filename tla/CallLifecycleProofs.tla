-------------------------- MODULE CallLifecycleProofs --------------------------
(***************************************************************************)
(* Proofs about CallLifecycle, for any number of sessions, connections,    *)
(* concurrent requests, rooms and faults.                                  *)
(***************************************************************************)
EXTENDS CallLifecycle, TLAPS

(* What a running request handler may rely on: it runs for a socket, the   *)
(* room it is about to read or close exists, and only the two requests     *)
(* that close rooms reach that step.                                       *)
TaskInv(h) ==
  /\ task[h].step = "none" =>
       task[h] = NoTask
  /\ task[h].step # "none" =>
       task[h].op \in AllRequests /\ task[h].sock \in DOMAIN sockets
  /\ task[h].step \in {"room", "close"} =>
       task[h].room \in DOMAIN rooms
  /\ task[h].step = "close" => task[h].op \in {"next", "leave"}

TasksInv == \A h \in Slots : TaskInv(h)

(* No session points to a room that was never created. *)
RoomsInv == \A s \in Sessions : hash[s].room \in 0..Len(rooms)

IInv == TypeOK /\ TasksInv /\ RoomsInv

-----------------------------------------------------------------------------
(* The bookkeeping that the actions share *)

TaskTypes == task \in [Slots -> Task]

LEMMA GoType ==
  ASSUME TaskTypes, NEW h \in Slots, NEW step \in Steps, Go(h, step)
  PROVE  /\ TaskTypes'
         /\ \A g \in Slots \ {h} : task'[g] = task[g]
         /\ step = "none" => task'[h] = NoTask
         /\ step # "none" => /\ task'[h].step = step
                             /\ task'[h].op = task[h].op
                             /\ task'[h].sock = task[h].sock
                             /\ task'[h].room = task[h].room
<1>1. task[h] \in Task
  BY DEF TaskTypes
<1>2. NoTask \in Task
  BY DEF NoTask, Task, Steps
<1>3. [task[h] EXCEPT !.step = step] \in Task
  BY <1>1 DEF Task
<1>4. CASE step = "none"
  BY <1>2, <1>4 DEF Go, TaskTypes
<1>5. CASE step # "none"
  <2>1. task' = [task EXCEPT ![h] = [task[h] EXCEPT !.step = step]]
    BY <1>5 DEF Go, TaskTypes
  <2>2. task'[h] = [task[h] EXCEPT !.step = step]
    BY <2>1 DEF TaskTypes
  <2>3. QED  BY <1>1, <1>3, <1>5, <2>1, <2>2 DEF TaskTypes, Task
<1>6. QED  BY <1>4, <1>5

LEMMA GoWithType ==
  ASSUME TaskTypes, NEW h \in Slots, NEW step \in Steps, NEW room \in Nat,
         GoWith(h, step, room)
  PROVE  /\ TaskTypes'
         /\ \A g \in Slots \ {h} : task'[g] = task[g]
         /\ step = "none" => task'[h] = NoTask
         /\ step # "none" => /\ task'[h].step = step
                             /\ task'[h].op = task[h].op
                             /\ task'[h].sock = task[h].sock
                             /\ task'[h].room = room
<1>1. task[h] \in Task
  BY DEF TaskTypes
<1>2. NoTask \in Task
  BY DEF NoTask, Task, Steps
<1>3. [task[h] EXCEPT !.step = step, !.room = room] \in Task
  BY <1>1 DEF Task
<1>4. CASE step = "none"
  BY <1>2, <1>4 DEF GoWith, TaskTypes
<1>5. CASE step # "none"
  <2>1. task' = [task EXCEPT ![h] = [task[h] EXCEPT !.step = step, !.room = room]]
    BY <1>5 DEF GoWith, TaskTypes
  <2>2. task'[h] = [task[h] EXCEPT !.step = step, !.room = room]
    BY <2>1 DEF TaskTypes
  <2>3. QED  BY <1>1, <1>3, <1>5, <2>1, <2>2 DEF TaskTypes, Task
<1>6. QED  BY <1>4, <1>5

LEMMA LifeGoesType ==
  ASSUME sockets \in Seq(SocketState), NEW k \in DOMAIN sockets,
         NEW life \in Lives, LifeGoes(k, life)
  PROVE  sockets' \in Seq(SocketState) /\ Len(sockets') = Len(sockets)
<1>1. sockets[k] \in SocketState
  OBVIOUS
<1>2. [sockets[k] EXCEPT !.life = life] \in SocketState
  BY <1>1 DEF SocketState
<1>3. sockets' = [sockets EXCEPT ![k] = [sockets[k] EXCEPT !.life = life]]
  BY DEF LifeGoes
<1>4. QED  BY <1>2, <1>3

LEMMA WithStatusType ==
  ASSUME hash \in [Sessions -> SessionHash], NEW s \in Sessions,
         NEW status \in {"idle", "searching", "matched"},
         hash' = WithStatus(s, status)
  PROVE  /\ hash' \in [Sessions -> SessionHash]
         /\ \A t \in Sessions : /\ hash'[t].room = hash[t].room
                                /\ hash'[t].peer = hash[t].peer
                                /\ hash[t].kind # "full" => hash'[t].kind # "full"
<1>1. hash[s] \in SessionHash /\ Touched(s) \in {"partial", "full"}
  BY DEF SessionHash, Touched
<1>2. Touched(s) = "full" => hash[s].kind = "full"
  BY <1>1 DEF Touched
<1> DEFINE new == [hash[s] EXCEPT !.kind = Touched(s), !.status = status]
<1>3. /\ new \in SessionHash
      /\ new.room = hash[s].room
      /\ new.peer = hash[s].peer
      /\ new.kind = Touched(s)
  BY <1>1 DEF SessionHash
<1>4. hash' = [hash EXCEPT ![s] = new]
  BY DEF WithStatus
<1> HIDE DEF new
<1>5. QED  BY <1>2, <1>3, <1>4

LEMMA ToldType ==
  ASSUME call \in [Sessions -> 0..Len(rooms)], NEW k, call' = Told(k)
  PROVE  call' \in [Sessions -> 0..Len(rooms)]
BY DEF Told

LEMMA SidType ==
  ASSUME IInv, NEW h \in Slots, task[h].step # "none"
  PROVE  Sid(h) \in Sessions /\ task[h].sock \in DOMAIN sockets /\ task[h].op \in AllRequests
<1>1. task[h].sock \in DOMAIN sockets /\ task[h].op \in AllRequests
  BY DEF IInv, TasksInv, TaskInv
<1>2. sockets[task[h].sock] \in SocketState
  BY <1>1 DEF IInv, TypeOK
<1>3. QED  BY <1>1, <1>2 DEF Sid, OwnerOf, SocketState

LEMMA OwnerType ==
  ASSUME IInv, NEW k \in DOMAIN sockets
  PROVE  OwnerOf(k) \in Sessions
<1>1. sockets[k] \in SocketState
  BY DEF IInv, TypeOK
<1>2. QED  BY <1>1 DEF OwnerOf, SocketState

-----------------------------------------------------------------------------
(* Every step keeps the invariant *)

(* A step that leaves the handlers alone cannot take away what they rely on. *)
LEMMA TasksFramed ==
  ASSUME IInv, UNCHANGED task,
         DOMAIN sockets \subseteq DOMAIN sockets',
         DOMAIN rooms \subseteq DOMAIN rooms'
  PROVE  TasksInv'
BY DEF IInv, TasksInv, TaskInv

LEMMA TimerCancelledType ==
  ASSUME TypeOK, NEW s \in Sessions
  PROVE  /\ TimerCancelled(s) \in Seq(SocketState)
         /\ Len(TimerCancelled(s)) = Len(sockets)
         /\ \A k \in DOMAIN sockets :
              k # timer[s] => TimerCancelled(s)[k] = sockets[k]
<1>1. sockets \in Seq(SocketState) /\ DOMAIN sockets = 1..Len(sockets)
  BY DEF TypeOK
<1>2. \A k \in DOMAIN sockets :
        (IF k = timer[s] THEN [sockets[k] EXCEPT !.life = "over", !.peer = 0]
         ELSE sockets[k]) \in SocketState
  <2>1. \A k \in DOMAIN sockets : sockets[k] \in SocketState
    BY <1>1
  <2>2. ASSUME NEW o \in SocketState
        PROVE  [o EXCEPT !.life = "over", !.peer = 0] \in SocketState
    BY DEF SocketState, Lives
  <2>3. QED  BY <2>1, <2>2
<1>3. TimerCancelled(s) \in [1..Len(sockets) -> SocketState]
  BY <1>1, <1>2 DEF TimerCancelled
<1>4. Len(sockets) \in Nat
  BY <1>1
<1>5. \A k \in DOMAIN sockets : k # timer[s] => TimerCancelled(s)[k] = sockets[k]
  BY DEF TimerCancelled
<1>6. QED  BY <1>3, <1>4, <1>5

LEMMA ConnectionsKeep ==
  ASSUME IInv, NEW s \in Sessions, Connect(s) \/ Drop(s)
  PROVE  IInv'
<1> TypeOK
  BY DEF IInv
<1>1. CASE Connect(s)
  <2> DEFINE new == [owner |-> s, life |-> "attach", peer |-> 0]
  <2>1. new \in SocketState
    BY DEF SocketState, Lives
  <2> HIDE DEF new
  <2>2. /\ sockets' = Append(TimerCancelled(s), new)
        /\ timer' = [timer EXCEPT ![s] = 0]
        /\ live' = [live EXCEPT ![s] = Len(sockets) + 1]
        /\ UNCHANGED <<hash, queue, lastTicket, rooms, toRelay, task, call, faults>>
    BY <1>1 DEF Connect, new, redisVars
  <2>3. /\ TimerCancelled(s) \in Seq(SocketState)
        /\ Len(TimerCancelled(s)) = Len(sockets)
    BY TimerCancelledType
  <2>4. /\ sockets' \in Seq(SocketState)
        /\ Len(sockets') = Len(sockets) + 1
        /\ Len(sockets) \in Nat
    BY <2>1, <2>2, <2>3
  <2>5. TypeOK'
    BY <2>2, <2>4 DEF TypeOK
  <2>6. TasksInv'
    BY <2>2, <2>4, TasksFramed DEF TypeOK
  <2>7. RoomsInv'
    BY <2>2 DEF IInv, RoomsInv
  <2>8. QED  BY <2>5, <2>6, <2>7 DEF IInv
<1>2. CASE Drop(s)
  <2>1. /\ live' = [live EXCEPT ![s] = 0]
        /\ UNCHANGED <<hash, queue, lastTicket, rooms, toRelay, sockets, timer,
                       task, call, faults>>
    BY <1>2 DEF Drop, redisVars, serverVars
  <2>2. TypeOK'
    BY <2>1 DEF TypeOK
  <2>3. TasksInv' /\ RoomsInv'
    BY <2>1, TasksFramed DEF IInv, RoomsInv
  <2>4. QED  BY <2>2, <2>3 DEF IInv
<1>3. QED  BY <1>1, <1>2

(* The steps of a socket change its life, and beyond that one thing each. *)
LEMMA SocketStepsKeep ==
  ASSUME IInv, NEW k \in DOMAIN sockets, SocketStep(k) \/ SocketFails(k)
  PROVE  IInv'
<1> DEFINE s == OwnerOf(k)
<1>1. TypeOK /\ s \in Sessions /\ sockets \in Seq(SocketState)
  BY OwnerType DEF IInv, TypeOK
<1> HIDE DEF s
<1>2. UNCHANGED <<lastTicket, rooms, toRelay, task>>
  BY DEF SocketStep, AttachSocket, JoinSessionRoom, RegisterHandlers, Disconnected,
         HandleDisconnect,
         DisconnectDequeue, DisconnectIdle, TimerFires, FinalizeDisconnect,
         HealReconnected, DestroySession, SocketFails, redisVars
<1>3. sockets' \in Seq(SocketState) /\ Len(sockets') = Len(sockets)
  <2>1. CASE \E life \in Lives : LifeGoes(k, life)
    BY <1>1, <2>1, LifeGoesType
  <2>2. CASE HandleDisconnect(k)
    <3>1. CASE sockets' = [sockets EXCEPT ![k].life = "armed", ![k].peer = hash[s].peer]
      <4>1. sockets[k] \in SocketState /\ hash[s] \in SessionHash
        BY <1>1 DEF TypeOK
      <4>2. [sockets[k] EXCEPT !.life = "armed", !.peer = hash[s].peer] \in SocketState
        BY <4>1 DEF SocketState, SessionHash, Lives
      <4>3. sockets' = [sockets EXCEPT ![k] =
                          [sockets[k] EXCEPT !.life = "armed", !.peer = hash[s].peer]]
        BY <3>1, <4>1, <1>1 DEF SocketState
      <4>4. QED  BY <4>2, <4>3, <1>1
    <3>2. CASE LifeGoes(k, "dequeue") \/ LifeGoes(k, "over")
      BY <3>2, <2>1 DEF Lives
    <3>3. QED  BY <2>2, <3>1, <3>2 DEF HandleDisconnect, s
  <2>3. CASE SocketFails(k)
    <3>1. sockets[k] \in SocketState
      BY <1>1
    <3>2. [sockets[k] EXCEPT !.life = "over", !.peer = 0] \in SocketState
      BY <3>1 DEF SocketState, Lives
    <3>3. sockets' = [sockets EXCEPT ![k] =
                        [sockets[k] EXCEPT !.life = "over", !.peer = 0]]
      BY <2>3, <3>1, <1>1 DEF SocketFails, SocketState
    <3>4. QED  BY <3>2, <3>3, <1>1
  <2>4. QED
    BY <2>1, <2>2, <2>3
    DEF SocketStep, AttachSocket, JoinSessionRoom, RegisterHandlers, Disconnected,
        DisconnectDequeue,
        DisconnectIdle, TimerFires, FinalizeDisconnect, HealReconnected,
        DestroySession, Lives
<1>4. /\ hash' \in [Sessions -> SessionHash]
      /\ \A t \in Sessions : hash'[t].room = hash[t].room \/ hash'[t].room = 0
  <2>1. CASE UNCHANGED hash
    BY <1>1, <2>1 DEF TypeOK
  <2>2. CASE hash' = WithStatus(s, "idle")
    BY <1>1, <2>2, WithStatusType DEF TypeOK
  <2>3. CASE DestroySession(k)
    <3>1. Destroyed \in SessionHash /\ Destroyed.room = 0
      BY DEF Destroyed, SessionHash
    <3>2. hash' = [hash EXCEPT ![s] = Destroyed]
      BY <2>3 DEF DestroySession, s
    <3>3. QED  BY <1>1, <3>1, <3>2 DEF TypeOK
  <2>4. CASE AttachSocket(k)
    <3> DEFINE new == [hash[s] EXCEPT !.kind = Touched(s), !.sock = k]
    <3>1. hash[s] \in SessionHash /\ k \in Nat
      BY <1>1 DEF TypeOK
    <3>2. new \in SessionHash /\ new.room = hash[s].room
      BY <3>1 DEF SessionHash, Touched
    <3>3. hash' = [hash EXCEPT ![s] = new]
      BY <2>4 DEF AttachSocket, s
    <3> HIDE DEF new
    <3>4. QED  BY <1>1, <3>2, <3>3 DEF TypeOK
  <2>5. QED
    BY <2>1, <2>2, <2>3, <2>4
    DEF SocketStep, JoinSessionRoom, RegisterHandlers, Disconnected,
        HandleDisconnect, s,
        DisconnectDequeue, DisconnectIdle, TimerFires, FinalizeDisconnect,
        HealReconnected, SocketFails, redisVars
<1>5. queue' \in [Sessions -> Place]
  <2>1. queue' = queue \/ queue' = [queue EXCEPT ![s] = Nowhere]
    BY DEF SocketStep, AttachSocket, JoinSessionRoom, RegisterHandlers, Disconnected,
           HandleDisconnect,
           DisconnectDequeue, DisconnectIdle, TimerFires, FinalizeDisconnect,
           HealReconnected, DestroySession, SocketFails, redisVars, s
  <2>2. Nowhere \in Place
    BY DEF Nowhere, Place
  <2>3. QED  BY <1>1, <2>1, <2>2 DEF TypeOK
<1>6. timer' \in [Sessions -> 0..Len(sockets)]
  <2>1. \/ timer' = timer
        \/ timer' = [timer EXCEPT ![s] = k]
        \/ timer' = [timer EXCEPT ![s] = 0]
    BY DEF SocketStep, AttachSocket, JoinSessionRoom, RegisterHandlers, Disconnected,
           HandleDisconnect,
           DisconnectDequeue, DisconnectIdle, TimerFires, FinalizeDisconnect,
           HealReconnected, DestroySession, SocketFails, TimerDeleted, s
  <2>2. QED  BY <1>1, <2>1 DEF TypeOK
<1>7. live' \in [Sessions -> 0..Len(sockets)]
  <2>1. \/ live' = live
        \/ live' = [t \in Sessions |->
                      IF live[t] = k /\ sockets[k].life \in {"attach", "join", "recover"}
                      THEN 0 ELSE live[t]]
    BY DEF SocketStep, AttachSocket, JoinSessionRoom, RegisterHandlers, Disconnected,
           HandleDisconnect,
           DisconnectDequeue, DisconnectIdle, TimerFires, FinalizeDisconnect,
           HealReconnected, DestroySession, SocketFails, clientVars
  <2>2. live \in [Sessions -> 0..Len(sockets)] /\ Len(sockets) \in Nat
    BY <1>1 DEF TypeOK
  <2>3. QED  BY <2>1, <2>2
<1>8. call' \in [Sessions -> 0..Len(rooms)]
  <2>1. call' = call \/ call' = Told(sockets[k].peer)
    BY DEF SocketStep, AttachSocket, JoinSessionRoom, RegisterHandlers, Disconnected,
           HandleDisconnect,
           DisconnectDequeue, DisconnectIdle, TimerFires, FinalizeDisconnect,
           HealReconnected, DestroySession, SocketFails, clientVars
  <2>2. QED  BY <1>1, <2>1, ToldType DEF TypeOK
<1>9. faults' \in 0..MaxFaults
  <2>1. faults' = faults \/ Fault
    BY DEF SocketStep, AttachSocket, JoinSessionRoom, RegisterHandlers, Disconnected,
           HandleDisconnect,
           DisconnectDequeue, DisconnectIdle, TimerFires, FinalizeDisconnect,
           HealReconnected, DestroySession, SocketFails
  <2>2. QED  BY <1>1, <2>1, BoundsAssumption DEF TypeOK, Fault
<1>10. TypeOK'
  BY <1>1, <1>2, <1>3, <1>4, <1>5, <1>6, <1>7, <1>8, <1>9 DEF TypeOK
<1>11. DOMAIN sockets' = DOMAIN sockets
  BY <1>1, <1>3
<1>12. TasksInv'
  BY <1>2, <1>11, TasksFramed
<1>13. RoomsInv'
  <2>1. Len(rooms) \in Nat
    BY <1>1 DEF TypeOK
  <2>2. QED  BY <1>2, <1>4, <2>1 DEF IInv, RoomsInv
<1>14. QED  BY <1>10, <1>12, <1>13 DEF IInv
(* A handler that goes on with a step that needs no room keeps its socket. *)
LEMMA GoKeepsTasks ==
  ASSUME IInv, NEW h \in Slots, task[h].step # "none",
         NEW step \in Steps \ {"room", "close"}, Go(h, step),
         DOMAIN sockets' = DOMAIN sockets, DOMAIN rooms' = DOMAIN rooms
  PROVE  TaskTypes' /\ TasksInv'
<1>1. TaskTypes
  BY DEF IInv, TypeOK, TaskTypes
<1>2. /\ TaskTypes'
      /\ \A g \in Slots \ {h} : task'[g] = task[g]
      /\ step = "none" => task'[h] = NoTask
      /\ step # "none" => /\ task'[h].step = step
                          /\ task'[h].op = task[h].op
                          /\ task'[h].sock = task[h].sock
  BY <1>1, GoType
<1>3. task[h].op \in AllRequests /\ task[h].sock \in DOMAIN sockets
  BY SidType
<1>4. ASSUME NEW g \in Slots
      PROVE  TaskInv(g)'
  <2>1. CASE g = h
    BY <1>2, <1>3, <2>1 DEF TaskInv, NoTask
  <2>2. CASE g # h
    BY <1>2, <2>2 DEF IInv, TasksInv, TaskInv
  <2>3. QED  BY <2>1, <2>2
<1>5. QED  BY <1>2, <1>4 DEF TasksInv

LEMMA GoWithKeepsTasks ==
  ASSUME IInv, NEW h \in Slots, task[h].step # "none",
         NEW step \in {"room", "close"}, NEW r \in DOMAIN rooms,
         GoWith(h, step, r), step = "close" => task[h].op \in {"next", "leave"},
         DOMAIN sockets' = DOMAIN sockets, DOMAIN rooms' = DOMAIN rooms
  PROVE  TaskTypes' /\ TasksInv'
<1>1. TaskTypes /\ r \in Nat /\ step \in Steps
  BY DEF IInv, TypeOK, TaskTypes, Steps
<1>2. /\ TaskTypes'
      /\ \A g \in Slots \ {h} : task'[g] = task[g]
      /\ task'[h].step = step
      /\ task'[h].op = task[h].op
      /\ task'[h].sock = task[h].sock
      /\ task'[h].room = r
  BY <1>1, GoWithType
<1>3. task[h].op \in AllRequests /\ task[h].sock \in DOMAIN sockets
  BY SidType
<1>4. ASSUME NEW g \in Slots
      PROVE  TaskInv(g)'
  <2>1. CASE g = h
    BY <1>2, <1>3, <2>1 DEF TaskInv
  <2>2. CASE g # h
    BY <1>2, <2>2 DEF IInv, TasksInv, TaskInv
  <2>3. QED  BY <2>1, <2>2
<1>5. QED  BY <1>2, <1>4 DEF TasksInv

LEMMA ReplacedInSeq ==
  ASSUME NEW S, NEW q \in Seq(S), NEW i \in DOMAIN q, NEW e \in S
  PROVE  /\ [q EXCEPT ![i] = e] \in Seq(S)
         /\ Len([q EXCEPT ![i] = e]) = Len(q)
         /\ DOMAIN [q EXCEPT ![i] = e] = DOMAIN q
OBVIOUS

LEMMA ClosedRoomType ==
  ASSUME IInv, NEW r \in DOMAIN rooms,
         rooms' = [rooms EXCEPT ![r].open = FALSE]
  PROVE  /\ rooms' \in Seq(Room)
         /\ Len(rooms') = Len(rooms)
         /\ DOMAIN rooms' = DOMAIN rooms
         /\ \A i \in DOMAIN rooms : /\ rooms'[i].members = rooms[i].members
                                    /\ rooms'[i].socks = rooms[i].socks
                                    /\ rooms'[i].tickets = rooms[i].tickets
<1>1. rooms \in Seq(Room) /\ rooms[r] \in Room
  BY DEF IInv, TypeOK
<1> DEFINE new == [rooms[r] EXCEPT !.open = FALSE]
<1>2. /\ new \in Room
      /\ new.members = rooms[r].members
      /\ new.socks = rooms[r].socks
      /\ new.tickets = rooms[r].tickets
  BY <1>1 DEF Room
<1>3. rooms' = [rooms EXCEPT ![r] = new]
  OBVIOUS
<1> HIDE DEF new
<1>4. rooms' \in Seq(Room) /\ Len(rooms') = Len(rooms) /\ DOMAIN rooms' = DOMAIN rooms
  <2>1. new \in Room
    BY <1>2
  <2>2. /\ [rooms EXCEPT ![r] = new] \in Seq(Room)
        /\ Len([rooms EXCEPT ![r] = new]) = Len(rooms)
        /\ DOMAIN [rooms EXCEPT ![r] = new] = DOMAIN rooms
    BY <1>1, <2>1, ReplacedInSeq, Zenon
  <2>3. QED  BY <1>3, <2>2, Zenon
<1>5. \A i \in DOMAIN rooms : rooms'[i] = IF i = r THEN new ELSE rooms[i]
  BY <1>1, <1>3
<1>6. QED  BY <1>2, <1>4, <1>5

(* What the next await of each request handler may be *)
LEMMA RequestStepsGo ==
  ASSUME IInv, NEW h \in Slots, RequestStep(h) \/ RequestFails(h)
  PROVE  /\ task[h].step # "none"
         /\ \/ \E step \in Steps \ {"room", "close"} : Go(h, step)
            \/ \E step \in {"room", "close"} :
                 /\ step = "close" => task[h].op \in {"next", "leave"}
                 /\ hash[Sid(h)].room # 0
                 /\ GoWith(h, step, hash[Sid(h)].room)
<1>1. task[h].step # "none"
  <2>1. CASE RequestFails(h)
    <3>1. task[h] # NoTask
      BY <2>1 DEF RequestFails
    <3>2. QED  BY <3>1 DEF IInv, TasksInv, TaskInv
  <2>2. CASE RequestStep(h)
    BY <2>2
    DEF RequestStep, JoinIsInQueue, JoinGetSession, JoinGetRoom, PartGetSession,
        CloseRoom, DequeueSelf, SetIdle, NextReread, EnqueueSelf, SetSearching
  <2>3. QED  BY <2>1, <2>2
<1>2. task[h].op \in AllRequests
  BY <1>1, SidType
<1>3. /\ AfterIdle[task[h].op] \in Steps \ {"room", "close"}
      /\ task[h].op \in {"next", "leave"} =>
           AfterRoom[task[h].op] \in Steps \ {"room", "close"}
      /\ task[h].step = "close" => task[h].op \in {"next", "leave"}
  BY <1>2 DEF AfterIdle, AfterRoom, AllRequests, Steps, IInv, TasksInv, TaskInv
<1>4. CASE CloseRoom(h) \/ SetIdle(h) \/ RequestFails(h)
  BY <1>1, <1>3, <1>4 DEF CloseRoom, SetIdle, RequestFails, AfterError, Steps
<1>5. CASE PartGetSession(h)
  BY <1>1, <1>3, <1>5 DEF PartGetSession, Steps
<1>6. CASE JoinGetSession(h)
  BY <1>1, <1>6 DEF JoinGetSession, SaysMatched, Steps
<1>7. CASE JoinIsInQueue(h) \/ JoinGetRoom(h) \/ DequeueSelf(h) \/ NextReread(h)
             \/ EnqueueSelf(h) \/ SetSearching(h)
  BY <1>1, <1>7
  DEF JoinIsInQueue, JoinGetRoom, DequeueSelf, NextReread, EnqueueSelf,
      SetSearching, Steps
<1>8. QED  BY <1>4, <1>5, <1>6, <1>7 DEF RequestStep

LEMMA RequestStepsKeep ==
  ASSUME IInv, NEW h \in Slots, RequestStep(h) \/ RequestFails(h)
  PROVE  IInv'
<1> DEFINE s == Sid(h)
<1>1. TypeOK /\ s \in Sessions
  BY RequestStepsGo, SidType DEF IInv
<1> HIDE DEF s
<1>2. UNCHANGED <<toRelay, sockets, timer, live>>
  BY DEF RequestStep, JoinIsInQueue, JoinGetSession, JoinGetRoom, PartGetSession,
         CloseRoom, DequeueSelf, SetIdle, NextReread, EnqueueSelf, SetSearching,
         RequestFails, redisVars, clientVars
<1>3. rooms' \in Seq(Room) /\ Len(rooms') = Len(rooms) /\ DOMAIN rooms' = DOMAIN rooms
  <2>1. rooms' = rooms \/ CloseRoom(h)
    BY DEF RequestStep, JoinIsInQueue, JoinGetSession, JoinGetRoom, PartGetSession,
           DequeueSelf, SetIdle, NextReread, EnqueueSelf, SetSearching,
           RequestFails, redisVars
  <2>2. CASE CloseRoom(h)
    <3>1. task[h].room \in DOMAIN rooms
      BY <2>2 DEF CloseRoom, IInv, TasksInv, TaskInv
    <3>2. QED  BY <2>2, <3>1, ClosedRoomType DEF CloseRoom
  <2>3. QED  BY <1>1, <2>1, <2>2 DEF TypeOK
<1>4. TaskTypes' /\ TasksInv'
  <2>1. CASE \E step \in Steps \ {"room", "close"} : Go(h, step)
    BY <1>2, <1>3, <2>1, RequestStepsGo, GoKeepsTasks
  <2>2. CASE \E step \in {"room", "close"} :
               /\ step = "close" => task[h].op \in {"next", "leave"}
               /\ hash[s].room # 0
               /\ GoWith(h, step, hash[s].room)
    <3>1. hash[s].room # 0 => hash[s].room \in DOMAIN rooms
      BY <1>1 DEF IInv, RoomsInv, TypeOK
    <3>2. QED  BY <1>2, <1>3, <2>2, <3>1, RequestStepsGo, GoWithKeepsTasks
  <2>3. QED  BY <2>1, <2>2, RequestStepsGo DEF s
<1>5. hash' \in [Sessions -> SessionHash] /\ \A t \in Sessions : hash'[t].room = hash[t].room
  <2>1. \/ hash' = hash
        \/ hash' = WithStatus(s, "idle")
        \/ hash' = WithStatus(s, "searching")
    BY DEF RequestStep, JoinIsInQueue, JoinGetSession, JoinGetRoom, PartGetSession,
           CloseRoom, DequeueSelf, SetIdle, NextReread, EnqueueSelf, SetSearching,
           RequestFails, redisVars, s
  <2>2. QED  BY <1>1, <2>1, WithStatusType DEF TypeOK
<1>6. queue' \in [Sessions -> Place] /\ lastTicket' \in Nat
  <2>1. \/ UNCHANGED <<queue, lastTicket>>
        \/ queue' = [queue EXCEPT ![s] = Nowhere] /\ lastTicket' = lastTicket
        \/ /\ queue' = [queue EXCEPT ![s] =
                          [ticket |-> lastTicket + 1, sock |-> task[h].sock]]
           /\ lastTicket' = lastTicket + 1
    BY DEF RequestStep, JoinIsInQueue, JoinGetSession, JoinGetRoom, PartGetSession,
           CloseRoom, DequeueSelf, SetIdle, NextReread, EnqueueSelf, SetSearching,
           RequestFails, redisVars, s
  <2>2. task[h].sock \in Nat /\ lastTicket \in Nat
    BY <1>1 DEF TypeOK, Task
  <2>3. /\ Nowhere \in Place
        /\ [ticket |-> lastTicket + 1, sock |-> task[h].sock] \in Place
    BY <2>2 DEF Nowhere, Place
  <2>4. queue \in [Sessions -> Place] /\ lastTicket + 1 \in Nat
    BY <1>1 DEF TypeOK
  <2>5. \E p \in Place : queue' = queue \/ queue' = [queue EXCEPT ![s] = p]
    BY <2>1, <2>3
  <2>6. QED  BY <1>1, <2>1, <2>2, <2>4, <2>5
<1>7. call' \in [Sessions -> 0..Len(rooms)]
  <2>1. call' = call \/ \E k : call' = Told(k)
    BY DEF RequestStep, JoinIsInQueue, JoinGetSession, JoinGetRoom, PartGetSession,
           CloseRoom, DequeueSelf, SetIdle, NextReread, EnqueueSelf, SetSearching,
           RequestFails, clientVars
  <2>2. QED  BY <1>1, <2>1, ToldType DEF TypeOK
<1>8. faults' \in 0..MaxFaults
  <2>1. faults' = faults \/ Fault
    BY DEF RequestStep, JoinIsInQueue, JoinGetSession, JoinGetRoom, PartGetSession,
           CloseRoom, DequeueSelf, SetIdle, NextReread, EnqueueSelf, SetSearching,
           RequestFails
  <2>2. QED  BY <1>1, <2>1, BoundsAssumption DEF TypeOK, Fault
<1>9. TypeOK'
  BY <1>1, <1>2, <1>3, <1>4, <1>5, <1>6, <1>7, <1>8 DEF TypeOK, TaskTypes
<1>10. RoomsInv'
  BY <1>3, <1>5 DEF IInv, RoomsInv
<1>11. QED  BY <1>4, <1>9, <1>10 DEF IInv
LEMMA RequestKeeps ==
  ASSUME IInv, NEW s \in Sessions, NEW op \in AllRequests, NEW h \in Slots,
         Request(s, op, h)
  PROVE  IInv'
<1> DEFINE new == [op |-> op, step |-> FirstStep[op], sock |-> live[s], room |-> 0]
<1>1. TypeOK
  BY DEF IInv
<1>2. /\ task' = [task EXCEPT ![h] = new]
      /\ live[s] # 0
      /\ UNCHANGED <<hash, queue, lastTicket, rooms, toRelay, sockets, timer, live, faults>>
      /\ call' = call \/ call' = [call EXCEPT ![s] = 0]
  BY DEF Request, redisVars
<1>3. live[s] \in DOMAIN sockets /\ live[s] \in Nat
  BY <1>1, <1>2 DEF TypeOK
<1>4. FirstStep[op] \in Steps \ {"none", "room", "close"}
  BY DEF FirstStep, AllRequests, Steps
<1>5. new \in Task
  BY <1>3, <1>4 DEF Task
<1>6. /\ new.step \notin {"none", "room", "close"}
      /\ new.op \in AllRequests
      /\ new.sock \in DOMAIN sockets
  BY <1>3, <1>4
<1> HIDE DEF new
<1>7. TypeOK'
  <2>1. call' \in [Sessions -> 0..Len(rooms)]
    <3>1. call \in [Sessions -> 0..Len(rooms)] /\ 0 \in 0..Len(rooms)
      BY <1>1 DEF TypeOK
    <3>2. QED  BY <1>2, <3>1
  <2>2. task' \in [Slots -> Task]
    BY <1>1, <1>2, <1>5 DEF TypeOK
  <2>3. QED  BY <1>1, <1>2, <2>1, <2>2 DEF TypeOK
<1>8. TasksInv'
  <2>1. ASSUME NEW g \in Slots
        PROVE  TaskInv(g)'
    <3>1. task'[g] = IF g = h THEN new ELSE task[g]
      BY <1>1, <1>2 DEF TypeOK
    <3>2. QED  BY <1>2, <1>6, <3>1 DEF IInv, TasksInv, TaskInv
  <2>2. QED  BY <2>1 DEF TasksInv
<1>9. RoomsInv'
  BY <1>2 DEF IInv, RoomsInv
<1>10. QED  BY <1>7, <1>8, <1>9 DEF IInv

(* The commit: the two sessions differ, because one has waited longer. *)
LEMMA CommitEffect ==
  ASSUME IInv, NEW s \in Sessions, NEW t \in Sessions, CommitMatch(s, t)
  PROVE  /\ s # t
         /\ hash' \in [Sessions -> SessionHash]
         /\ \A u \in Sessions : hash'[u].kind = hash[u].kind
         /\ \A u \in Sessions \ {s, t} : hash'[u] = hash[u]
         /\ hash'[s].room = NewRoomId /\ hash'[s].peer = queue[t].sock
         /\ hash'[t].room = NewRoomId /\ hash'[t].peer = queue[s].sock
         /\ rooms' \in Seq(Room)
         /\ Len(rooms) \in Nat /\ Len(rooms') = NewRoomId
         /\ DOMAIN rooms = 1..Len(rooms)
         /\ DOMAIN rooms' = 1..NewRoomId
         /\ \A r \in DOMAIN rooms : rooms'[r] = rooms[r]
         /\ rooms'[NewRoomId].members = <<s, t>>
         /\ rooms'[NewRoomId].socks = <<queue[s].sock, queue[t].sock>>
         /\ rooms'[NewRoomId].tickets = <<queue[s].ticket, queue[t].ticket>>
<1> DEFINE room == [members |-> <<s, t>>,
                    socks   |-> <<queue[s].sock, queue[t].sock>>,
                    tickets |-> <<queue[s].ticket, queue[t].ticket>>,
                    open    |-> TRUE]
<1>1. /\ queue[s] \in Place /\ queue[t] \in Place
      /\ hash[s] \in SessionHash /\ hash[t] \in SessionHash
      /\ rooms \in Seq(Room) /\ hash \in [Sessions -> SessionHash]
  BY DEF IInv, TypeOK
<1>2. /\ queue[s].ticket \in Nat /\ queue[s].sock \in Nat
      /\ queue[t].ticket \in Nat /\ queue[t].sock \in Nat
  BY <1>1 DEF Place
<1>3. s # t
  BY <1>2 DEF CommitMatch
<1>4. /\ room \in Room
      /\ room.members = <<s, t>>
      /\ room.socks = <<queue[s].sock, queue[t].sock>>
      /\ room.tickets = <<queue[s].ticket, queue[t].ticket>>
  BY <1>2 DEF Room
<1>5. rooms' = Append(rooms, room)
  BY DEF CommitMatch
<1> HIDE DEF room
<1>6. /\ rooms' \in Seq(Room)
      /\ Len(rooms) \in Nat /\ Len(rooms') = NewRoomId
      /\ DOMAIN rooms = 1..Len(rooms)
      /\ DOMAIN rooms' = 1..NewRoomId
      /\ \A r \in DOMAIN rooms : rooms'[r] = rooms[r]
      /\ rooms'[NewRoomId] = room
  BY <1>1, <1>4, <1>5 DEF NewRoomId
<1>7. NewRoomId \in Nat
  BY <1>6 DEF NewRoomId
<1>8. ASSUME NEW u \in Sessions, NEW sock \in Nat, hash[u] \in SessionHash
      PROVE  /\ Matched(u, sock) \in SessionHash
             /\ Matched(u, sock).kind = hash[u].kind
             /\ Matched(u, sock).room = NewRoomId
             /\ Matched(u, sock).peer = sock
  BY <1>7, <1>8 DEF Matched, SessionHash
<1>9. hash' = [hash EXCEPT ![s] = Matched(s, queue[t].sock),
                           ![t] = Matched(t, queue[s].sock)]
  BY DEF CommitMatch
<1>10. /\ hash' \in [Sessions -> SessionHash]
       /\ \A u \in Sessions \ {s, t} : hash'[u] = hash[u]
       /\ hash'[s] = Matched(s, queue[t].sock)
       /\ hash'[t] = Matched(t, queue[s].sock)
  BY <1>1, <1>2, <1>3, <1>8, <1>9
<1>11. QED  BY <1>1, <1>2, <1>3, <1>4, <1>6, <1>8, <1>10

LEMMA CommitKeeps ==
  ASSUME IInv, NEW s \in Sessions, NEW t \in Sessions, CommitMatch(s, t)
  PROVE  IInv'
<1>1. TypeOK
  BY DEF IInv
<1>2. /\ queue' = [queue EXCEPT ![s] = Nowhere, ![t] = Nowhere]
      /\ toRelay' = toRelay \cup {NewRoomId}
      /\ UNCHANGED <<lastTicket, sockets, timer, task, live, call, faults>>
  BY DEF CommitMatch, serverVars, clientVars
<1>3. Nowhere \in Place
  BY DEF Nowhere, Place
<1>4. /\ hash' \in [Sessions -> SessionHash]
      /\ rooms' \in Seq(Room)
      /\ Len(rooms) \in Nat
      /\ Len(rooms') = Len(rooms) + 1
      /\ DOMAIN rooms = 1..Len(rooms)
      /\ DOMAIN rooms' = 1..(Len(rooms) + 1)
      /\ \A u \in Sessions : hash'[u].room = hash[u].room \/ hash'[u].room = Len(rooms) + 1
  BY CommitEffect DEF NewRoomId
<1>5. TypeOK'
  <2>1. queue' \in [Sessions -> Place]
    BY <1>1, <1>2, <1>3 DEF TypeOK
  <2>2. toRelay' \subseteq DOMAIN rooms'
    BY <1>1, <1>2, <1>4 DEF TypeOK, NewRoomId
  <2>3. call' \in [Sessions -> 0..Len(rooms')]
    BY <1>1, <1>2, <1>4 DEF TypeOK
  <2>4. QED  BY <1>1, <1>2, <1>4, <2>1, <2>2, <2>3 DEF TypeOK
<1>6. TasksInv'
  BY <1>2, <1>4, TasksFramed
<1>7. RoomsInv'
  BY <1>4 DEF IInv, RoomsInv
<1>8. QED  BY <1>5, <1>6, <1>7 DEF IInv

LEMMA RelayKeeps ==
  ASSUME IInv, NEW r \in DOMAIN rooms, RelayMatch(r)
  PROVE  IInv'
<1>1. /\ UNCHANGED <<hash, queue, lastTicket, rooms, sockets, timer, task, live, faults>>
      /\ toRelay' = toRelay \ {r}
  BY DEF RelayMatch, serverVars
<1>2. call' \in [Sessions -> 0..Len(rooms)]
  <2>1. call \in [Sessions -> 0..Len(rooms)] /\ r \in 0..Len(rooms)
    BY DEF IInv, TypeOK
  <2>2. QED  BY <2>1 DEF RelayMatch
<1>3. TypeOK'
  BY <1>1, <1>2 DEF IInv, TypeOK
<1>4. TasksInv' /\ RoomsInv'
  BY <1>1, TasksFramed DEF IInv, RoomsInv
<1>5. QED  BY <1>3, <1>4 DEF IInv

LEMMA ExpiryKeeps ==
  ASSUME IInv,
         (\E s \in Sessions : EntryExpires(s)) \/ (\E r \in DOMAIN rooms : RoomExpires(r))
  PROVE  IInv'
<1>1. ASSUME NEW s \in Sessions, EntryExpires(s)
      PROVE  IInv'
  <2>1. /\ queue' = [queue EXCEPT ![s] = Nowhere]
        /\ UNCHANGED <<hash, lastTicket, rooms, toRelay, sockets, timer, task, live,
                       call, faults>>
    BY <1>1 DEF EntryExpires, serverVars, clientVars
  <2>2. Nowhere \in Place
    BY DEF Nowhere, Place
  <2>3. TypeOK'
    BY <2>1, <2>2 DEF IInv, TypeOK
  <2>4. TasksInv' /\ RoomsInv'
    BY <2>1, TasksFramed DEF IInv, RoomsInv
  <2>5. QED  BY <2>3, <2>4 DEF IInv
<1>2. ASSUME NEW r \in DOMAIN rooms, RoomExpires(r)
      PROVE  IInv'
  <2>1. /\ rooms' = [rooms EXCEPT ![r].open = FALSE]
        /\ UNCHANGED <<hash, queue, lastTicket, toRelay, sockets, timer, task, live,
                       call, faults>>
    BY <1>2 DEF RoomExpires, serverVars, clientVars
  <2>2. /\ rooms' \in Seq(Room)
        /\ Len(rooms') = Len(rooms)
        /\ DOMAIN rooms' = DOMAIN rooms
    BY <2>1, ClosedRoomType
  <2>3. TypeOK'
    BY <2>1, <2>2 DEF IInv, TypeOK
  <2>4. TasksInv' /\ RoomsInv'
    BY <2>1, <2>2, TasksFramed DEF IInv, RoomsInv
  <2>5. QED  BY <2>3, <2>4 DEF IInv
<1>3. QED  BY <1>1, <1>2

LEMMA RestartKeeps ==
  ASSUME IInv, ServerRestarts
  PROVE  IInv'
<1>1. /\ timer' = [s \in Sessions |-> 0]
      /\ task' = [h \in Slots |-> NoTask]
      /\ live' = [s \in Sessions |-> 0]
      /\ toRelay' = {}
      /\ UNCHANGED <<hash, queue, lastTicket, rooms, call>>
      /\ Fault
  BY DEF ServerRestarts
<1>2. sockets' \in Seq(SocketState) /\ Len(sockets') = Len(sockets) /\ Len(sockets) \in Nat
  <2>1. sockets \in Seq(SocketState) /\ DOMAIN sockets = 1..Len(sockets) /\ Len(sockets) \in Nat
    BY DEF IInv, TypeOK
  <2>2. \A k \in DOMAIN sockets : sockets[k] \in SocketState
    BY <2>1
  <2>3. ASSUME NEW o \in SocketState
        PROVE  [o EXCEPT !.life = "over", !.peer = 0] \in SocketState
    BY DEF SocketState, Lives
  <2>4. sockets' \in [1..Len(sockets) -> SocketState]
    BY <2>1, <2>2, <2>3 DEF ServerRestarts
  <2>5. QED  BY <2>1, <2>4
<1>3. NoTask \in Task /\ NoTask.step = "none"
  BY DEF NoTask, Task, Steps
<1>4. TypeOK'
  BY <1>1, <1>2, <1>3, BoundsAssumption DEF IInv, TypeOK, Fault
<1>5. TasksInv'
  BY <1>1, <1>3 DEF TasksInv, TaskInv
<1>6. RoomsInv'
  BY <1>1 DEF IInv, RoomsInv
<1>7. QED  BY <1>4, <1>5, <1>6 DEF IInv

LEMMA InitIInv == Init => IInv
<1> SUFFICES ASSUME Init
             PROVE  IInv
  OBVIOUS
<1>1. TypeOK
  <2>1. [Destroyed EXCEPT !.kind = "full"] \in SessionHash
    BY DEF Destroyed, SessionHash
  <2>2. Nowhere \in Place /\ NoTask \in Task
    BY DEF Nowhere, Place, NoTask, Task, Steps
  <2>3. QED  BY <2>1, <2>2, BoundsAssumption DEF Init, TypeOK
<1>2. TasksInv
  BY DEF Init, TasksInv, TaskInv, NoTask
<1>3. RoomsInv
  <2>1. [Destroyed EXCEPT !.kind = "full"].room = 0
    BY DEF Destroyed
  <2>2. rooms = <<>> /\ Len(rooms) = 0
    BY DEF Init
  <2>3. ASSUME NEW s \in Sessions
        PROVE  hash[s].room = 0
    BY <2>1 DEF Init
  <2>4. 0 \in 0..Len(rooms)
    BY <2>2
  <2>5. QED  BY <2>3, <2>4, Zenon DEF RoomsInv
<1>4. QED  BY <1>1, <1>2, <1>3 DEF IInv

LEMMA NextIInv == IInv /\ [Next]_vars => IInv'
<1> SUFFICES ASSUME IInv, [Next]_vars
             PROVE  IInv'
  OBVIOUS
<1>1. CASE Next
  BY <1>1, ConnectionsKeep, SocketStepsKeep, RequestKeeps, RequestStepsKeep,
     CommitKeeps, RelayKeeps, ExpiryKeeps, RestartKeeps DEF Next
<1>2. CASE UNCHANGED vars
  BY <1>2 DEF vars, redisVars, serverVars, clientVars, IInv, TypeOK, TasksInv,
              TaskInv, RoomsInv
<1>3. QED  BY <1>1, <1>2

(* Every reachable state is well typed: whatever handlers race and whatever *)
(* fails, no handler runs for a socket that never was, and every room and   *)
(* socket that something refers to exists.                                  *)
THEOREM TypeCorrect == Spec => []TypeOK
<1>1. IInv => TypeOK
  BY DEF IInv
<1>2. QED  BY <1>1, InitIInv, NextIInv, PTL DEF Spec
-----------------------------------------------------------------------------
(* What the steps other than the commit do to hashes, rooms and queue *)

Commits == \E s, t \in Sessions : CommitMatch(s, t)

(* Rooms may be closed, but what they say about their members stays. *)
RoomsSame ==
  /\ DOMAIN rooms' = DOMAIN rooms
  /\ \A r \in DOMAIN rooms : /\ rooms'[r].members = rooms[r].members
                             /\ rooms'[r].socks = rooms[r].socks
                             /\ rooms'[r].tickets = rooms[r].tickets

HashKept ==
  \A u \in Sessions :
    /\ \/ hash'[u].room = hash[u].room /\ hash'[u].peer = hash[u].peer
       \/ hash'[u].room = 0
    /\ hash[u].kind # "full" => hash'[u].kind # "full"

Waits(s, k) ==
  /\ queue[s].ticket = 0
  /\ queue' = [queue EXCEPT ![s] = [ticket |-> lastTicket + 1, sock |-> k]]
  /\ lastTicket' = lastTicket + 1

Leaves(s) ==
  /\ queue' = [queue EXCEPT ![s] = Nowhere]
  /\ lastTicket' = lastTicket

QueueKept ==
  \/ UNCHANGED <<queue, lastTicket>>
  \/ \E s \in Sessions : Leaves(s)
  \/ \E s \in Sessions, k \in Nat : Waits(s, k)

LEMMA SocketStepsAside ==
  ASSUME IInv, NEW k \in DOMAIN sockets, SocketStep(k) \/ SocketFails(k)
  PROVE  RoomsSame /\ HashKept /\ QueueKept
<1> DEFINE s == OwnerOf(k)
<1>1. s \in Sessions /\ hash \in [Sessions -> SessionHash]
  BY OwnerType DEF IInv, TypeOK
<1> HIDE DEF s
<1>2. RoomsSame
  BY DEF RoomsSame, SocketStep, AttachSocket, JoinSessionRoom, RegisterHandlers,
         Disconnected,
         HandleDisconnect, DisconnectDequeue, DisconnectIdle, TimerFires,
         FinalizeDisconnect, HealReconnected, DestroySession, SocketFails, redisVars
<1>3. HashKept
  <2>1. CASE UNCHANGED hash
    BY <2>1 DEF HashKept
  <2>2. CASE hash' = WithStatus(s, "idle")
    BY <1>1, <2>2, WithStatusType DEF HashKept
  <2>3. CASE DestroySession(k)
    <3>1. Destroyed.room = 0 /\ Destroyed.kind = "none"
      BY DEF Destroyed
    <3>2. hash' = [hash EXCEPT ![s] = Destroyed]
      BY <2>3 DEF DestroySession, s
    <3>3. QED  BY <1>1, <3>1, <3>2 DEF HashKept
  <2>4. CASE AttachSocket(k)
    <3> DEFINE new == [hash[s] EXCEPT !.kind = Touched(s), !.sock = k]
    <3>1. hash[s] \in SessionHash
      BY <1>1
    <3>2. /\ new.room = hash[s].room
          /\ new.peer = hash[s].peer
          /\ hash[s].kind # "full" => new.kind # "full"
      BY <3>1 DEF SessionHash, Touched
    <3>3. hash' = [hash EXCEPT ![s] = new]
      BY <2>4 DEF AttachSocket, s
    <3> HIDE DEF new
    <3>4. QED  BY <1>1, <3>2, <3>3 DEF HashKept
  <2>5. QED
    BY <2>1, <2>2, <2>3, <2>4
    DEF SocketStep, JoinSessionRoom, RegisterHandlers, Disconnected,
        HandleDisconnect, s,
        DisconnectDequeue, DisconnectIdle, TimerFires, FinalizeDisconnect,
        HealReconnected, SocketFails, redisVars
<1>4. QueueKept
  <2>1. UNCHANGED <<queue, lastTicket>> \/ Leaves(s)
    BY DEF Leaves, SocketStep, AttachSocket, JoinSessionRoom, RegisterHandlers,
           Disconnected,
           HandleDisconnect, DisconnectDequeue, DisconnectIdle, TimerFires,
           FinalizeDisconnect, HealReconnected, DestroySession, SocketFails,
           redisVars, s
  <2>2. QED  BY <1>1, <2>1 DEF QueueKept
<1>5. QED  BY <1>2, <1>3, <1>4

LEMMA RequestStepsAside ==
  ASSUME IInv, NEW h \in Slots, RequestStep(h) \/ RequestFails(h)
  PROVE  RoomsSame /\ HashKept /\ QueueKept
<1> DEFINE s == Sid(h)
<1>1. /\ s \in Sessions
      /\ hash \in [Sessions -> SessionHash]
      /\ task[h].sock \in Nat
  BY RequestStepsGo, SidType DEF IInv, TypeOK
<1> HIDE DEF s
<1>2. RoomsSame
  <2>1. rooms' = rooms \/ CloseRoom(h)
    BY DEF RequestStep, JoinIsInQueue, JoinGetSession, JoinGetRoom, PartGetSession,
           DequeueSelf, SetIdle, NextReread, EnqueueSelf, SetSearching,
           RequestFails, redisVars
  <2>2. CASE CloseRoom(h)
    <3>1. task[h].room \in DOMAIN rooms
      BY <2>2 DEF CloseRoom, IInv, TasksInv, TaskInv
    <3>2. QED  BY <2>2, <3>1, ClosedRoomType DEF CloseRoom, RoomsSame
  <2>3. QED  BY <2>1, <2>2 DEF RoomsSame
<1>3. HashKept
  <2>1. \/ hash' = hash
        \/ hash' = WithStatus(s, "idle")
        \/ hash' = WithStatus(s, "searching")
    BY DEF RequestStep, JoinIsInQueue, JoinGetSession, JoinGetRoom, PartGetSession,
           CloseRoom, DequeueSelf, SetIdle, NextReread, EnqueueSelf, SetSearching,
           RequestFails, redisVars, s
  <2>2. QED  BY <1>1, <2>1, WithStatusType DEF HashKept
<1>4. QueueKept
  <2>1. CASE EnqueueSelf(h)
    BY <1>1, <2>1 DEF EnqueueSelf, MayEnqueue, InQueue, QueueKept, Waits, s
  <2>2. CASE DequeueSelf(h)
    BY <1>1, <2>2 DEF DequeueSelf, QueueKept, Leaves, s
  <2>3. CASE UNCHANGED <<queue, lastTicket>>
    BY <2>3 DEF QueueKept
  <2>4. QED
    BY <2>1, <2>2, <2>3
    DEF RequestStep, JoinIsInQueue, JoinGetSession, JoinGetRoom, PartGetSession,
        CloseRoom, SetIdle, NextReread, SetSearching, RequestFails, redisVars
<1>5. QED  BY <1>2, <1>3, <1>4

LEMMA StepsAside ==
  ASSUME IInv, [Next]_vars
  PROVE  Commits \/ (RoomsSame /\ HashKept /\ QueueKept)
<1>1. ASSUME \/ \E s \in Sessions : Connect(s) \/ Drop(s)
             \/ \E s \in Sessions, op \in AllRequests, h \in Slots : Request(s, op, h)
      PROVE  UNCHANGED <<hash, queue, lastTicket, rooms>>
  BY <1>1 DEF Connect, Drop, Request, redisVars
<1>2. ASSUME ServerRestarts \/ (\E r \in DOMAIN rooms : RelayMatch(r)) \/ UNCHANGED vars
      PROVE  UNCHANGED <<hash, queue, lastTicket, rooms>>
  BY <1>2 DEF ServerRestarts, RelayMatch, vars, redisVars
<1>3. ASSUME UNCHANGED <<hash, queue, lastTicket, rooms>>
      PROVE  RoomsSame /\ HashKept /\ QueueKept
  BY <1>3 DEF RoomsSame, HashKept, QueueKept
<1>4. ASSUME NEW s \in Sessions, EntryExpires(s)
      PROVE  RoomsSame /\ HashKept /\ QueueKept
  BY <1>4 DEF EntryExpires, RoomsSame, HashKept, QueueKept, Leaves
<1>5. ASSUME NEW r \in DOMAIN rooms, RoomExpires(r)
      PROVE  RoomsSame /\ HashKept /\ QueueKept
  <2>1. RoomsSame
    BY <1>5, ClosedRoomType DEF RoomExpires, RoomsSame
  <2>2. HashKept /\ QueueKept
    BY <1>5 DEF RoomExpires, HashKept, QueueKept
  <2>3. QED  BY <2>1, <2>2
<1>6. CASE Next
  <2>1. \/ UNCHANGED <<hash, queue, lastTicket, rooms>>
        \/ \E s \in Sessions : EntryExpires(s)
        \/ \E r \in DOMAIN rooms : RoomExpires(r)
        \/ \E h \in Slots : RequestStep(h) \/ RequestFails(h)
        \/ \E k \in DOMAIN sockets : SocketStep(k) \/ SocketFails(k)
        \/ Commits
    BY <1>1, <1>2, <1>6 DEF Next, Commits
  <2>2. QED
    BY <1>3, <1>4, <1>5, <2>1, SocketStepsAside, RequestStepsAside
<1>7. QED  BY <1>2, <1>3, <1>6

-----------------------------------------------------------------------------
(* The properties *)

(* A commit never revives a session either: it only writes to a hash that   *)
(* is there, and leaves out the sessionId that a partial one lacks.         *)
THEOREM NeverResurrected == Spec => NoResurrection
<1>1. IInv /\ [Next]_vars =>
        [\A s \in Sessions : hash[s].kind # "full" => hash'[s].kind # "full"]_vars
  <2> SUFFICES ASSUME IInv, [Next]_vars
               PROVE  \A s \in Sessions : hash[s].kind # "full" => hash'[s].kind # "full"
    OBVIOUS
  <2>1. CASE Commits
    BY <2>1, CommitEffect DEF Commits
  <2>2. CASE HashKept
    BY <2>2 DEF HashKept
  <2>3. QED  BY <2>1, <2>2, StepsAside
<1>2. QED  BY <1>1, InitIInv, NextIInv, PTL DEF Spec, NoResurrection

(* The stored peer is the other member of the stored room, for any number   *)
(* of rooms past and handlers that write parts of the hash.                 *)
THEOREM PeersAgree == Spec => []PeerFieldsAgree
<1>1. Init => PeerFieldsAgree
  <2>1. [Destroyed EXCEPT !.kind = "full"].room = 0
    BY DEF Destroyed
  <2>2. QED  BY <2>1 DEF Init, PeerFieldsAgree
<1>2. IInv /\ PeerFieldsAgree /\ [Next]_vars => PeerFieldsAgree'
  <2> SUFFICES ASSUME IInv, PeerFieldsAgree, [Next]_vars,
                      NEW u \in Sessions, hash'[u].room # 0
               PROVE  LET r == rooms'[hash'[u].room]
                      IN \/ r.members[1] = u /\ hash'[u].peer = r.socks[2]
                         \/ r.members[2] = u /\ hash'[u].peer = r.socks[1]
    BY DEF PeerFieldsAgree
  <2>1. hash[u].room # 0 => hash[u].room \in DOMAIN rooms
    BY DEF IInv, TypeOK, RoomsInv
  <2>2. CASE RoomsSame /\ HashKept
    <3>1. hash'[u].room = hash[u].room /\ hash'[u].peer = hash[u].peer
      BY <2>2 DEF HashKept
    <3>2. QED  BY <2>1, <2>2, <3>1 DEF RoomsSame, PeerFieldsAgree
  <2>3. CASE Commits
    <3>1. PICK s \in Sessions, t \in Sessions : CommitMatch(s, t)
      BY <2>3 DEF Commits
    <3>2. CASE u \in {s, t}
      BY <3>1, <3>2, CommitEffect
    <3>3. CASE u \notin {s, t}
      <4>1. hash'[u] = hash[u]
        BY <3>1, <3>3, CommitEffect
      <4>2. rooms'[hash[u].room] = rooms[hash[u].room]
        BY <2>1, <3>1, <4>1, CommitEffect
      <4>3. QED  BY <4>1, <4>2 DEF PeerFieldsAgree
    <3>4. QED  BY <3>2, <3>3
  <2>4. QED  BY <2>2, <2>3, StepsAside
<1>3. QED  BY <1>1, <1>2, InitIInv, NextIInv, PTL DEF Spec
-----------------------------------------------------------------------------
(* The handlers implement the abstract Pairing *)

PairsNow == {{rooms[r].tickets[1], rooms[r].tickets[2]} : r \in DOMAIN rooms}

WaitingNow == [u \in Sessions |-> queue[u].ticket]

LEMMA CommitIsPair ==
  ASSUME IInv, NEW s \in Sessions, NEW t \in Sessions, CommitMatch(s, t)
  PROVE  Promise!Pair(s, t)
<1> DEFINE new == {queue[s].ticket, queue[t].ticket}
<1>1. /\ s # t
      /\ queue[s].ticket # 0 /\ queue[t].ticket # 0
      /\ queue' = [queue EXCEPT ![s] = Nowhere, ![t] = Nowhere]
      /\ lastTicket' = lastTicket
      /\ queue \in [Sessions -> Place]
  BY CommitEffect DEF CommitMatch, InQueue, IInv, TypeOK
<1>2. WaitingNow' = [WaitingNow EXCEPT ![s] = 0, ![t] = 0]
  BY <1>1 DEF WaitingNow, Nowhere
<1>3. {rooms'[NewRoomId].tickets[1], rooms'[NewRoomId].tickets[2]} = new
  BY CommitEffect
<1>4. /\ DOMAIN rooms = 1..Len(rooms) /\ DOMAIN rooms' = 1..(Len(rooms) + 1)
      /\ NewRoomId = Len(rooms) + 1 /\ Len(rooms) \in Nat
      /\ \A r \in DOMAIN rooms : rooms'[r] = rooms[r]
  BY CommitEffect DEF NewRoomId
<1> HIDE DEF new
<1>5. PairsNow' = PairsNow \cup {new}
  <2>1. DOMAIN rooms' = DOMAIN rooms \cup {NewRoomId}
    BY <1>4
  <2> DEFINE after(r) == {rooms'[r].tickets[1], rooms'[r].tickets[2]}
             before(r) == {rooms[r].tickets[1], rooms[r].tickets[2]}
  <2>2. (\A r \in DOMAIN rooms : after(r) = before(r)) /\ after(NewRoomId) = new
    BY <1>3, <1>4
  <2>3. /\ PairsNow' = {after(r) : r \in DOMAIN rooms'}
        /\ PairsNow = {before(r) : r \in DOMAIN rooms}
    BY DEF PairsNow
  <2> HIDE DEF after, before
  <2>4. QED  BY <2>1, <2>2, <2>3
<1>6. QED  BY <1>1, <1>2, <1>5 DEF Promise!Pair, PairsNow, WaitingNow, new

LEMMA AsideIsPairing ==
  ASSUME IInv, RoomsSame, QueueKept
  PROVE  [Promise!Next]_(Promise!vars)
<1>1. PairsNow' = PairsNow
  BY DEF RoomsSame, PairsNow
<1>2. queue \in [Sessions -> Place]
  BY DEF IInv, TypeOK
<1>3. CASE UNCHANGED <<queue, lastTicket>>
  BY <1>1, <1>3 DEF Promise!vars, PairsNow
<1>4. ASSUME NEW s \in Sessions, Leaves(s)
      PROVE  Promise!Withdraw(s) \/ UNCHANGED Promise!vars
  <2>1. WaitingNow' = [WaitingNow EXCEPT ![s] = 0]
    BY <1>2, <1>4 DEF WaitingNow, Leaves, Nowhere
  <2>2. CASE queue[s].ticket = 0
    <3>1. WaitingNow' = WaitingNow
      BY <2>1, <2>2 DEF WaitingNow
    <3>2. QED  BY <1>1, <1>4, <3>1 DEF Leaves, Promise!vars, PairsNow, WaitingNow
  <2>3. CASE queue[s].ticket # 0
    BY <1>1, <1>4, <2>1, <2>3 DEF Leaves, Promise!Withdraw, PairsNow, WaitingNow
  <2>4. QED  BY <2>2, <2>3
<1>5. ASSUME NEW s \in Sessions, NEW k \in Nat, Waits(s, k)
      PROVE  Promise!Enter(s)
  <2>1. WaitingNow' = [WaitingNow EXCEPT ![s] = lastTicket + 1]
    BY <1>2, <1>5 DEF WaitingNow, Waits
  <2>2. QED  BY <1>1, <1>5, <2>1 DEF Waits, Promise!Enter, PairsNow, WaitingNow
<1>6. QED  BY <1>3, <1>4, <1>5 DEF QueueKept, Promise!Next

(* However requests, disconnects and faults interleave, what they do to     *)
(* the queue is to enter, to withdraw or to pair, each in one step.         *)
THEOREM ImplementsPairing == Spec => KeepsPromise
<1>1. Init => Promise!Init
  BY DEF Init, Promise!Init, Nowhere
<1>2. IInv /\ [Next]_vars => [Promise!Next]_(Promise!vars)
  BY StepsAside, CommitIsPair, AsideIsPairing DEF Commits, Promise!Next
<1>3. QED
  BY <1>1, <1>2, InitIInv, NextIInv, PTL DEF Spec, KeepsPromise, Promise!Spec
-----------------------------------------------------------------------------
(* The map of timers *)

LEMMA ConnectKeepsTimers ==
  ASSUME IInv, StoredTimerIsArmed, NEW s \in Sessions, Connect(s)
  PROVE  StoredTimerIsArmed'
<1> DEFINE new == [owner |-> s, life |-> "attach", peer |-> 0]
<1>1. /\ sockets' = Append(TimerCancelled(s), new)
      /\ timer' = [timer EXCEPT ![s] = 0]
      /\ timer \in [Sessions -> 0..Len(sockets)]
      /\ sockets \in Seq(SocketState)
  BY DEF Connect, IInv, TypeOK
<1> HIDE DEF new
<1>2. /\ TimerCancelled(s) \in Seq(SocketState)
      /\ Len(TimerCancelled(s)) = Len(sockets)
      /\ \A k \in DOMAIN sockets :
           k # timer[s] => TimerCancelled(s)[k] = sockets[k]
  BY TimerCancelledType DEF IInv
<1>3. \A k \in 1..Len(sockets) : sockets'[k] = TimerCancelled(s)[k]
  BY <1>1, <1>2
<1>4. ASSUME NEW u \in Sessions, timer'[u] # 0
      PROVE  sockets'[timer'[u]].life = "armed" /\ sockets'[timer'[u]].owner = u
  <2>1. u # s /\ timer'[u] = timer[u] /\ timer[u] \in 1..Len(sockets)
    BY <1>1, <1>4
  <2>2. sockets[timer[u]].life = "armed" /\ sockets[timer[u]].owner = u
    BY <2>1 DEF StoredTimerIsArmed, OwnerOf
  <2>3. timer[u] # timer[s]
    BY <2>1, <2>2 DEF StoredTimerIsArmed, OwnerOf
  <2>4. TimerCancelled(s)[timer[u]] = sockets[timer[u]]
    BY <1>1, <1>2, <2>1, <2>3
  <2>5. QED  BY <1>3, <2>1, <2>2, <2>4
<1>5. QED  BY <1>4 DEF StoredTimerIsArmed, OwnerOf

(* Only a socket that is not armed, or whose timer leaves the map in the    *)
(* same step, changes its life.                                             *)
LEMMA SocketStepsKeepTimers ==
  ASSUME IInv, StoredTimerIsArmed, NEW k \in DOMAIN sockets,
         SocketStep(k) \/ SocketFails(k)
  PROVE  StoredTimerIsArmed'
<1> DEFINE s == OwnerOf(k)
<1>1. /\ s \in Sessions
      /\ timer \in [Sessions -> 0..Len(sockets)]
      /\ sockets \in Seq(SocketState)
      /\ sockets[k] \in SocketState
      /\ k \in Nat /\ k # 0
  BY OwnerType DEF IInv, TypeOK
<1> HIDE DEF s
<1>2. \A j \in DOMAIN sockets \ {k} : sockets'[j] = sockets[j]
  BY <1>1
  DEF SocketStep, AttachSocket, JoinSessionRoom, RegisterHandlers, Disconnected,
      HandleDisconnect,
      DisconnectDequeue, DisconnectIdle, TimerFires, FinalizeDisconnect,
      HealReconnected, DestroySession, SocketFails, LifeGoes
<1>3. \A u \in Sessions : timer[u] # 0 => timer[u] \in DOMAIN sockets
  BY <1>1
<1>4. CASE TimerFires(k)
  <2>1. timer' = [timer EXCEPT ![s] = 0]
    BY <1>4 DEF TimerFires, TimerDeleted, s
  <2>2. \A u \in Sessions \ {s} : timer[u] # k
    BY <1>1 DEF StoredTimerIsArmed, s
  <2>3. ASSUME NEW u \in Sessions, timer'[u] # 0
        PROVE  timer'[u] = timer[u] /\ timer[u] \in DOMAIN sockets \ {k}
    BY <1>1, <1>3, <2>1, <2>2, <2>3
  <2>4. QED  BY <1>2, <2>3 DEF StoredTimerIsArmed, OwnerOf
<1>5. CASE ~TimerFires(k)
  <2>1. sockets[k].life # "armed"
    BY <1>5
    DEF SocketStep, AttachSocket, JoinSessionRoom, RegisterHandlers, Disconnected,
        HandleDisconnect,
        DisconnectDequeue, DisconnectIdle, FinalizeDisconnect, HealReconnected,
        DestroySession, SocketFails
  <2>2. \A u \in Sessions : timer[u] # k
    BY <1>1, <2>1 DEF StoredTimerIsArmed
  <2>3. CASE timer' = timer
    BY <1>2, <1>3, <2>2, <2>3 DEF StoredTimerIsArmed, OwnerOf
  <2>4. CASE /\ sockets' = [sockets EXCEPT ![k].life = "armed", ![k].peer = hash[s].peer]
             /\ timer' = [timer EXCEPT ![s] = k]
    <3>1. sockets'[k].life = "armed" /\ sockets'[k].owner = s
      BY <1>1, <2>4 DEF SocketState, OwnerOf, s
    <3>2. ASSUME NEW u \in Sessions, timer'[u] # 0
          PROVE  \/ u = s /\ timer'[u] = k
                 \/ timer'[u] = timer[u] /\ timer[u] \in DOMAIN sockets \ {k}
      BY <1>1, <1>3, <2>2, <2>4, <3>2
    <3>3. QED  BY <1>2, <3>1, <3>2 DEF StoredTimerIsArmed, OwnerOf
  <2>5. QED
    BY <1>5, <2>3, <2>4
    DEF SocketStep, AttachSocket, JoinSessionRoom, RegisterHandlers, Disconnected,
        HandleDisconnect,
        DisconnectDequeue, DisconnectIdle, FinalizeDisconnect, HealReconnected,
        DestroySession, SocketFails, s
<1>6. QED  BY <1>4, <1>5

(* Whatever disconnects of one session overlap, the map never holds a timer *)
(* that has already fired, or that belongs to somebody else.                *)
THEOREM TimersArmed == Spec => []StoredTimerIsArmed
<1>1. Init => StoredTimerIsArmed
  BY DEF Init, StoredTimerIsArmed
<1>2. IInv /\ StoredTimerIsArmed /\ [Next]_vars => StoredTimerIsArmed'
  <2> SUFFICES ASSUME IInv, StoredTimerIsArmed, [Next]_vars
               PROVE  StoredTimerIsArmed'
    OBVIOUS
  <2>1. CASE UNCHANGED <<sockets, timer>>
    BY <2>1 DEF StoredTimerIsArmed, OwnerOf
  <2>2. CASE ServerRestarts
    BY <2>2 DEF ServerRestarts, StoredTimerIsArmed
  <2>3. \/ \E s \in Sessions : Connect(s)
        \/ \E k \in DOMAIN sockets : SocketStep(k) \/ SocketFails(k)
        \/ ServerRestarts
        \/ UNCHANGED <<sockets, timer>>
    <3>1. ASSUME NEW h \in Slots, RequestStep(h) \/ RequestFails(h)
          PROVE  UNCHANGED <<sockets, timer>>
      BY <3>1
      DEF RequestStep, JoinIsInQueue, JoinGetSession, JoinGetRoom, PartGetSession,
          CloseRoom, DequeueSelf, SetIdle, NextReread, EnqueueSelf, SetSearching,
          RequestFails
    <3>2. ASSUME \/ \E s \in Sessions : Drop(s) \/ EntryExpires(s)
                 \/ \E s \in Sessions, op \in AllRequests, h \in Slots : Request(s, op, h)
                 \/ \E s, t \in Sessions : CommitMatch(s, t)
                 \/ \E r \in DOMAIN rooms : RelayMatch(r) \/ RoomExpires(r)
                 \/ UNCHANGED vars
          PROVE  UNCHANGED <<sockets, timer>>
      BY <3>2
      DEF Drop, EntryExpires, Request, CommitMatch, RelayMatch, RoomExpires, vars,
          serverVars
    <3>3. QED  BY <3>1, <3>2 DEF Next
  <2>4. QED  BY <2>1, <2>2, <2>3, ConnectKeepsTimers, SocketStepsKeepTimers
<1>3. QED  BY <1>1, <1>2, InitIInv, NextIInv, PTL DEF Spec
==============================================================================
