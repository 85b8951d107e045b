# Verification of the video-chat matchmaker

This directory holds TLA+ models of the program in `src/`: an anonymous video chat in
which a server pairs strangers over one Redis, relays their WebRTC signaling, and puts
each of them back into the queue on "next". The models are checked with TLC, and the
most important results about them are proved with TLAPS for every value of the
constants.

- [Inventory](#inventory): the parts of the program, and what is hard about each
- [Modules](#modules): what models what
- [Runs](#runs): what each run asks, its bounds, what it shows
- [Proofs](#proofs): what is proved, and along which argument
- [Findings](#findings): where code and comments disagree
- [Not modelled, and the plan](#not-modelled-and-the-plan)

To check: `tlc -config match_safety.cfg MCMatchQueue.tla` (the other runs alike, the
module of each is in the table below) and `tlapm MatchQueueProofs.tla`.

## Inventory

The backend (`src/backend/src`) is a Node process: one event loop, any number of
processes, all state that matters in Redis. The frontend (`src/frontend/src`) is a React
client. Processes interact through Redis keys, Lua scripts, and one pub/sub channel.

| Component | State | Operations | Interacts with |
|---|---|---|---|
| **Matching queue** `matching.service.ts:15-158` | sorted set `queue:global`, hash `queue:entry:<id>` with a TTL | `enqueue` and `dequeue` (scripts), `isInQueue`, `getCandidates` (ZRANGE, pipeline of HGETALL, ZREM), `cleanStaleEntries` (script) | called by the socket handlers and by every engine |
| **Matching engine** `matching.service.ts:290-504` | keys `match:reservation:<id>` with a token and a TTL; the poll timer | `runMatchingCycle`, `reservePair`, `matchPair`, `releasePair` | reads the queue, commits rooms, publishes on `match:events` |
| **Room service** `matching.service.ts:160-288` | `room:<id>` with a TTL | `createMatchedRoom` (the commit script), `getRoom`, `closeRoom`, `getPeerSocketId` | writes both session hashes, empties the queue |
| **Compatibility** `matching.service.ts:410-431`, `geo.util.ts` | none | `isCompatible`, `jaccardSimilarity` | the engine's double loop |
| **Session store** `session.service.ts` | hash `session:<id>`, token key | `createSession`, `getSession`, `updateSession`, `attachSocket`, `destroySession` | everything |
| **Connection handler** `connection.handler.ts` | `disconnectTimers` (in memory), `socket.data` | set-up, `handleDisconnect`, `finalizeDisconnect`, relay of match events, shutdown | session store, queue, clients |
| **Queue and call handlers** `queue.handler.ts` | - | `join_queue`, `leave_queue`, `chat:next`, `chat:leave` | session store, queue, room service, peer's socket |
| **Signaling relay** `signaling.handler.ts` | room and peer cached in `socket.data` | offer, answer, candidate (restart: never sent) | room service, the peer's socket |
| **Text relay** `chat.handler.ts` | a counter | message | session store, room service |
| **Moderation** `moderation.service.ts`, `report.*.ts` | report counters, ban keys, ban documents | report by POST or by socket, auto-ban, lift | session store, session init |
| **Rate limits** `rateLimit.middleware.ts` and two-command counters | counters with TTLs | INCR/EXPIRE, as one script or as two commands | all handlers |
| **Redis connections** `redis.ts` | three connections, the set of channels | connect, reconnect, `subscribeToChannel`, quit | match event relay |
| **Server process** `server.ts`, `health.controller.ts` | `isShuttingDown`, the HTTP server | `bootstrap`, `shutdown`, readiness | all of the above |
| **Client phase machine** `useSession.ts`, `useSocket.ts`, `ChatRoom.tsx`, `callStore.ts` | `queuePhaseRef`, call status, socket, session | auto-join, next, leave, server events, retry timer | the socket |
| **WebRTC negotiation** `useWebRTC.ts:341-625` | peer connection, buffered candidates, timers | set-up, offer/answer, clean-up | the relay |
| **Local media** `useWebRTC.ts:218-289, 629-721` | `localStreamRef`, senders, toggles | `requestMedia`, mute, camera on and off | the browser, the set-up |

What is hard, and what makes each part correct:

- **Queue and engine.** Several engines read the same snapshot, each command is atomic but
  no sequence of them is: between reading a candidate and committing it the entry may
  expire, be withdrawn, be re-entered or be matched elsewhere; a reservation may time
  out under its owner; a commit's reply may be lost. Correct means: an enqueue ends in at
  most one room, reservations exclude each other, a withdrawn entry is never paired, and
  two users who stay are eventually paired whatever is in front of them.
- **Compatibility.** Preferences relax in three thresholds on the *shorter* wait. Correct
  means: acceptance depends on the pair and not on its order, and never comes back to
  "no" as time passes.
- **Handlers.** Every handler is an async function over shared Redis state. It reads the
  session and decides several awaits later. A user can drop and come back while the old
  socket's disconnect is still running. Correct means: a destroyed session stays
  destroyed, the session's room and peer stay consistent, a call ends for both, nobody's
  call is ended by a stranger.
- **Client.** Server events arrive in an order the client does not choose, a phase in a
  ref and a status in a store are kept apart, and the store outlives the page. Correct
  means: once everything has arrived, what the screen shows is what the server has the
  session in, and a search is served or ends.
- **Negotiation.** The relay's cached address outlives its room, a looked-up signal may be
  overtaken, listeners come late, goodbyes name no room. Correct means: a connection takes
  descriptions and candidates of its own room only, in order, and is set up on both sides
  or has lost something that can be named.
- **Local media.** Up to four `getUserMedia` calls race with toggles, matches and an
  unmount. Correct means: what the buttons show is what is sent.
- **Moderation and limits.** A counter and its window are two commands, two windows of
  different length meet, a ban is written in two places and read in one, a report names
  whatever its sender writes. Correct means: a counter ends, a ban takes several
  reporters, counts, and refuses nobody whom no report named.
- **Process.** A shutdown waits for clients that need not leave; a subscription dies with
  its connection. Correct means: a shutdown ends, exit code 0 is honest, a ready server
  hears match events.

The full list of hazards, each at its line and with the properties that cover it, is
`hazards` in `PROJECT.json`.

## Modules

```
Pairing             what a matching queue promises
  ^ implements (proved)
MatchQueue          queue, engines, commit script, faults      <- MCMatchQueue, MatchQueueProofs
  |  CompatibleFrom is justified by
  v
Compatibility       isCompatible against levels of relaxation  <- MCCompatibility, CompatibilityProofs

CallLifecycle       sockets, handlers, session and room hashes <- MCCallLifecycle, CallLifecycleProofs
  | implements (proved)          ^ the same server, as one tab meets it
  v                              |
Pairing             ChatClient    session, socket, phases, status <- MCChatClient, ChatClientProofs
                    Signaling     relay and peer connections      <- MCSignaling, SignalingProofs
                    LocalMedia    tracks, toggles, getUserMedia   <- MCLocalMedia
Moderation          sessions, counters, reports, bans          <- MCModeration, ModerationProofs
ServerLifecycle     process, Redis connections, subscription   <- MCServerLifecycle, ServerLifecycleProofs
```

**Pairing** is the abstract specification: `Enter`, `Withdraw`, and `Pair`, which uses two
tickets up in one step. A ticket stands for one enqueue (in the code: `joinedAt`, with the
socket and the preferences stored at that moment).

**MatchQueue** models `QueueService`, the commit script of `RoomService` and any number of
`MatchingEngine`s. One Redis command or Lua script is one action; what a process does
between two awaits belongs to the command that ends it. `zset`, `entry`, `reservation`,
`session`, `rooms` are the Redis keys; `pc`, `ids`, `seen`, `stale`, `pairs`, `cur`
are the local variables of `runMatchingCycle` of each process. `getCandidates` is three
kinds of step (`Zrange`, `Hgetall`, `SweepStale`), since other clients run in between. The
double loop over candidates is the set `pairs` of index pairs still to visit, taken in
lexicographic order; a pair that went through `matchPair` removes both sessions from the
loop, made or not, as the code's `matched` set does. Faults are a command that rejects
(`MatchPairThrows`), a commit whose reply is lost (`CommitReplyLost`), a
crash or an error elsewhere in the cycle (`CycleLost`, which leaves a reservation with a
token nobody holds) and a stall past the reservation's TTL (`EngineStalls`).
Abstractions: `waited` of an entry is the number of relaxation thresholds its wait has
passed, and `CompatibleFrom[s][t]` the level at which the preferences of s and t agree:
`CompatibilityProofs` shows that this is what the code's function does. Session ids are
globally unique, so a joinedAt tie has no effect but the order of candidates; tickets
have no ties. The commit script's third write, the room, is a record in `rooms` that
keeps which entries the engine had seen and which it used up. The counters `matchPair`
adds to are left out; an error of theirs is caught there.

**Compatibility** is `isCompatible` and `jaccardSimilarity` as operators on records, with
time in whole seconds (the code divides milliseconds; its thresholds are whole seconds, so a
finer unit adds no case) and interests as sets of tags under a
lower-casing function. `AcceptedByLevel` compares them with the reference definition
`Level(wait) >= RequiredLevel(a, b)`.

**CallLifecycle** is one server process and its clients. Each request handler and each
socket handler is a little program whose counter (`task[h].step`, `sockets[k].life`) names
the await it stands at; one action is one Redis command with the code up to the next
await. `hash` is `session:<id>` with the three cases `getSession` tells apart (none,
partial without `sessionId`, full), `rooms` the room keys, `timer` the map
`disconnectTimers` and `call` what each client shows. `hash.room` and `hash.peer` are never
cleared in the model because `flattenSession` skips undefined values. A new socket joins
the room `session:<id>`, through which match events reach it, before reconnect recovery
and before its handlers exist (`JoinSessionRoom`, `Listening`). Faults are a
rejected command in any handler and a restart of the process.
Abstractions: the engine is one atomic commit (`MatchQueue` has the detail), an emit is
delivered at once if the socket is live and lost otherwise, and rate limits, the skip
cooldown, presence keys, heartbeats and counters are left out - a refused request leaves
the state as if it had not been sent. A room holds the sockets of the entries the commit
consumes; the snapshot race about them is visible in `MatchQueue` (`seen`, `used`).

**ChatClient** is one browser tab and the server as its session meets it. `phase` is
`queuePhaseRef`, `status` the call store's, `pc` the peer connection as far as it changes
the status, `seen` the dependencies with which the auto-join effect last ran, `retry` the
timer after RATE_LIMITED (`"stale"` when the hook that armed it is unmounted). `srv` is
where the server has the session, `mine` whether the socket ids stored there are the
current ones, `notice` and `grace` what it has still to learn of a closed socket. Events
and requests are two FIFO queues which die with their connection. The partner, the
engine and the network are the environment; what each may do wrong is a kind of
`Trouble`. React is taken to render and run effects before the tab's next task
(`Rendered`): the store is updated synchronously and every handler here is a discrete
event. `snag` records that one of the events happened which the code has no answer to: a
drop while searching, a request before the handlers exist, a skip in the cooldown, a
late QUEUE_JOINED, an expired entry, a match before the socket has joined its session's room, a refusal because of a room the partner has left, a
failed peer connection, a remount over a store that is not idle, a message to a socket
the client has replaced. Each is marked where it happens, a fresh MATCH_FOUND clears it,
and the invariants say that there is no other way to wait in vain. They do not speak
against these events: the hazards that consist of one are listed in `PROJECT.json`
without a property, with a note that says so.

**Signaling** is the relay and the set-up of both tabs. `cache` is `socket.data`, `looking`
the handlers that await Redis (two lookups for a description, one for a candidate, so
it may overtake), `step` the await at which `setupPeerConnection` stands. Sockets are
numbered by connection: what is emitted to an earlier number is lost. `stored` is the
session's `roomId`, which no code clears: `Part`, that is `chat:next` and `chat:leave`,
acts on it whether or not that room is still open, and sends its goodbye to the socket
the partner of that room had. The tab compares no room either and closes the connection
it has (`OnLeft`). `Vanish` is `finalizeDisconnect`: the partner is told, the room stays
open, and who opens the page again is a new session on a new socket. `RelayRefuses` stands for
the size limits of signals, `LookupFails` for a Redis that fails a lookup, `PcFails` for
`onconnectionstatechange` at "failed" and at the end of its timer. `pc` keeps which
signals a connection took in, `missed` the rooms of which a description was refused or came
when nobody listened.
Simplifications: all candidates of one side are one signal; a skip and the tab's own
clean-up are one step; a room ends by a handler, not by its TTL; a failed connection does
not make the tab search again (`ChatClient` has that).

**LocalMedia** is the other half of `useWebRTC.ts`. `asking` holds the `getUserMedia` calls
under way by caller, `tracks` every track the browser handed out, `stream` those of
`localStreamRef`, `sent` those of the senders.

**Moderation** runs requests as jobs, one Redis or MongoDB command per step, the ban check of
session init included (`CheckKey` three times, `FindBan`, `KeepBan`). A counter is a
number and a ttl, where ttl 0 with a positive number is a key that never expires. A ban
is documents and keys; `Named` is what each kind of report knows of the reported. The
three documents, and the three keys, of a ban are sent together and may come through in
part when the command fails (`CommandFails`). A report by POST may be about anything:
`Reportable` bounds what, and the run puts the word "pre-session" in it. Jobs are a
set: requests that are alike in everything take turns (`Becomes`), so that two never
become one. A ban's number only tells the documents of different bans apart.
`DestroySession` leaves the sockets alone, since `finalizeDisconnect` asks for a newer one
several awaits before it destroys: a socket may outlive its session, and is then turned
away by `Admitted` at each request.
The code's own facts that show in it: `isBanned` of a session hash is never written
(`Flagged`); a socket's report always fails at `Report.create` since no IP hash reaches
`socket.data` (`Valid`); a ban found in MongoDB is cached for everybody under
"pre-session" (`KeepBan`); an administrator's ban marks the report only, and lifting one
deletes a document and no key. A key that `KeepBan` writes may shorten a ban about
"pre-session" itself, which `FastPathSeesBans` leaves out for that reason.

**ServerLifecycle** is `bootstrap`, `shutdown` and `subscribeToChannel`. `heard` says that Redis
delivers `match:events` to this process; `attempt` is the SUBSCRIBE that is retried,
`resub` the one of the `ready` handler, which is not. (ioredis also resubscribes by
itself to what succeeded before: the same command to the same end.) A client is connected
by polling or by WebSocket and may upgrade; only the latter holds `httpServer.close` up. `EngineStops`
is `stop()`, which clears a flag and timers: a cycle in flight goes on. `Ready` leaves out
MongoDB's part of readiness, which only makes it more often true.

`PROJECT.json` maps every definition to its lines.

## Runs

| Run | Module | Asks | Result |
|---|---|---|---|
| `match_safety` | MCMatchQueue | three users, two engines, one fault of any kind, entry expiry | `TypeOK`, `TicketMatchedOnce`, `NoOverlap`, `ReservationSafe`, `DetachedOnlyBySweep`, `KeepsPromise` hold |
| `match_liveness` | MCMatchQueue | three users, one agreeing only after relaxing, a batch of two, a destroyed session or a ghost id at the head, one fault | `PairsUp`, `GhostsSwept` hold under `FairSpec` |
| `compat` | MCCompatibility | every pair of entries, second by second past the last threshold | `AcceptedByLevel`, `OrderIrrelevant` hold |
| `call_requests` | MCCallLifecycle | two requests at a time, of any kind, interleaved at every await with engine, relay, TTLs and one fault | `TypeOK`, `PeerFieldsAgree`, `KeepsPromise` hold |
| `call_reconnect` | MCCallLifecycle | a client drops and returns, or does not, while its old socket is still being taken down | `StoredTimerIsArmed`, `NoResurrection` and, under `FairSpec`, `AbandonedCallEnds` hold |
| `client` | MCChatClient | one tab, two visits, two matches, two skips, one trouble of nine kinds | `TypeOK`, `SearchIsReal`, `CallIsReal` and, under `FairSpec`, `SearchIsServed` hold |
| `signaling` | MCSignaling | p1 calls p2, then p2 calls p3, with goodbyes for rooms long closed, one new socket or new session of p2, refused signals and failing connections of p2 | `TypeOK`, `NegotiatesWithPartner`, `CandidatesInOrder`, `NegotiationGoesOn` and, under `FairSpec`, `LinkedPairsNegotiate` hold |
| `moderation` | MCModeration | two sessions of one user, two requests at a time, four reports about one of them or about "pre-session", one failed command | `TypeOK`, `OnlyFaultsMakeEndless`, `LoneReporterCannotBan`, `FastPathSeesBans`, `BansNameTheReported` hold |
| `server` | MCServerLifecycle | start to exit, two clients, three lost connections, two refused SUBSCRIBEs | `TypeOK`, `CleanExit`, `NeverIdlyDeaf` and, under `FairSpec`, `ShutdownEnds`, `ReadyHears` hold |
| `client_stuck` | MCChatClient | does a searching tab join again over a new socket? | violated (finding 1) |
| `bans` | MCModeration | is a banned session turned away? | violated (finding 2) |
| `media_black` | MCLocalMedia | does the partner see black while the camera is off? | violated (finding 3) |

Every property of a passing run has a mutant in `PROJECT.json`: a plausible bug in one
mapped definition under which TLC finds that property violated. The largest run,
`moderation`, has 7.5 million distinct states; it and `signaling` take two to three minutes
with two workers.

**Bounds.** `MatchQueue`: three sessions are the least with overlapping pairs (A:B and B:C),
two engines the least that race, three tickets let one session enqueue a second time while
the engines still hold its first entry; one fault at a time is what the recovery code is
written for (a token orphaned by a crash, a lost reply, a stall). In
`match_liveness` the candidate batch is smaller than the queue, so that what stands at
its head can keep the rest out of sight; one engine is enough there, since a token a
crash leaves behind is the other one's as far as it can see.
`CallLifecycle`: two slots are the least at which two handlers race, of one session or of
two; three sockets let a client reconnect once while the other stays; three tickets let a
pair be followed by a second enqueue. `Droppable` and `Expiry` name whose connection may
break and whether TTLs run in a run. `Compatibility`: the lists lie on both sides of 0.3,
clocks run from before a joinedAt to 18 s, past the threshold at 15 s.
`ChatClient`: two visits let the store and the timer of one meet the other; two matches let
an event of the first arrive in the second; two skips let the second fall into the
cooldown; one trouble at a time is what the code answers one by one - two only repeat
the snags. `Signaling`: two rounds are the least in which a signal of a finished room
finds a tab in another one, and a goodbye of the first partner one in its second call; the
shared peer is both responder and initiator and the one that roams, on either side of a
reconnection. `Gathering` names whose candidates of which room are followed - p2's of its
first call, which may meet the second - and `Unlucky` whose signals and connections may
fail; one goodbye for a closed room waits at a time
(`Unspoken`). `Moderation`: two sessions are the least
of which one reports alone; allowances of 2 and a threshold of 4 keep the relation
of the defaults 5 and 10 (two allowances less one stay below the threshold, `LimitsAssumption`),
and the windows keep their order: a reporter's outlasts the count. Reports are about one
thing at a time (`MaxTopics`), since the counters of two share nothing but the reporter's
allowance; `Connecting` and `Perishable` name the session that opens a socket and that
ends. A request is served within a tick. `ServerLifecycle`: two retries stand for `retryStrategy`'s limit; three
losses let redisSub fail on both sides of its first SUBSCRIBE and redisMain besides.

**Fairness.** `MatchQueue`: weak fairness of each engine's steps (the poll timer is re-armed
in a `finally`, each await of a live process is answered or rejects), of the passing of
time in an entry, and of Redis' expiry of orphaned reservations and of the entries of
sessions that ended (every entry has a TTL of a minute; live ones owe no expiry here,
or `PairsUp` would ask nothing). Without the last, `match_liveness` fails: the engine
reserves the dead session with its neighbour, the commit script refuses, both count as
matched for that cycle, and the next cycle begins the same. None for users, faults and
the cleanup timer: `GhostsSwept` holds by polling alone. `CallLifecycle`:
weak fairness of each handler, each socket's take-down (an armed timer fires, a closed
connection is noticed by ping timeout) and each match event. None for clients, the
engine, TTLs or faults. `ChatClient`: React runs its effects, the retry timer fires, the
event loops of tab and server serve what has arrived; sockets owe no connection, users
no click, the engine no match. `Signaling`: the relay, each tab's set-up and events, and
the answers of Redis; matches, partings, reconnections, refusals and failing connections
owe nothing. `ServerLifecycle`:
timers fire and SUBSCRIBEs are answered; no client has to leave and no connection to
return, so that `ShutdownEnds` rests on the forced exit.

`CHECK_DEADLOCK FALSE` everywhere: the bounds on tickets, sockets, visits and faults stop a
model where the real system goes on, an empty queue really is at rest, and a process that
has exited stays so.

## Proofs

The theorems hold for every number of sessions and engines, every batch size, every
relation of compatibility, every bound.

**MatchQueueProofs**
- `TypeCorrect`: `Spec => []TypeOK`. `TypeOK` alone is not inductive: the commit action
  dereferences `seen[w][cur[w][1]]`, so the invariant `IInv == TypeOK /\ EngineInv` adds
  what an engine knows about its own cycle - its candidates and the ids left to read are
  all different sessions, pairs left to visit index two different candidates, and an
  engine past `reservePair` has its pair in that set.
- `MatchedOnce`: `Spec => []TicketMatchedOnce`, from `TicketInv`: every ticket used by a
  room and every ticket waiting in an entry has been issued, no two entries hold the
  same one, and none that waits is used. A commit moves two tickets from the second kind
  to the first in one script; reservations play no part in the argument.
- `ImplementsPairing`: `Spec => KeepsPromise`. Every action of the queue maps to `Enter`,
  `Withdraw`, `Pair` or a stutter. That the two sessions of a commit differ, and so that
  `Pair` applies, is `EngineInv`.

- `NeverOverlaps`: `Spec => NoOverlap`, from the commit script's comparison of the owner
  token for both sessions; `IInv` is needed only to know which two sessions those are.
- `ReservationsSafe`: `Spec => ReservationSafe`; every script that deletes a reservation
  compares the token first, so only the owner or the TTL ends one. `TokensAssumption`
  (tokens are never the empty value) is used here.
- `DetachedBySweepAlone`: `Spec => DetachedOnlyBySweep`: the limits of finding 4. All
  scripts write both halves of an entry or look again; the one exception is named.

**CallLifecycleProofs**
- `TypeCorrect`: `Spec => []TypeOK`, with `IInv == TypeOK /\ TasksInv /\ RoomsInv`. A
  handler dereferences, after an await, a socket and a room it has remembered; `TasksInv`
  says they exist at each step that uses them and that only `chat:next` and `chat:leave`
  reach `closeRoom`; `RoomsInv` that a session's room id is one that was created.
- `NeverResurrected`: `Spec => NoResurrection`. `updateSession` and `attachSocket` may
  leave a hash behind a destroyed session, but none of them writes `sessionId`.
- `PeersAgree`: `Spec => []PeerFieldsAgree`. Only the commit writes both fields, and it
  writes them together; every partial update keeps both, and no room changes its members.
- `TimersArmed`: `Spec => []StoredTimerIsArmed`, inductive over `TypeOK`: each step that
  ends an armed timer also removes it from the map. It is what makes "cancel the timer
  found in the map" of the connection handler harmless.
- `ImplementsPairing`: `Spec => KeepsPromise`. All steps but the commit are classified
  once (`StepsAside`: rooms keep their contents, a hash loses or keeps its room, the
  queue gains or loses at most one entry), and each class maps to a step of `Pairing`.

**CompatibilityProofs**
- `LevelsDecide`: `Spec => []AcceptedByLevel`; `isCompatible` on the shorter wait is true
  exactly when both entries have reached the level their differences demand. This is the
  step from the code's seconds to `CompatibleFrom` of `MatchQueue`.
- `OrderDoesNotMatter`: `Spec => []OrderIrrelevant`, for every set of tags; it rests on a
  lemma that `jaccardSimilarity` is symmetric.

**ChatClientProofs**
- `TypeCorrect`: `Spec => []TypeOK`; `BaseInv` adds that a server that knows the socket, or
  has a request or an event on it, has a socket that is up, and a socket a session.
- `SearchersAreQueued`: `Spec => []SearchIsReal`, and `CallersHaveARoom`: `Spec =>
  []CallIsReal`. Both speak of the moments at which nothing is under way, which no step
  preserves: the invariant has to say what everything under way will come to. Of the
  three events that decide what the screen shows (joined, match, left) only the last one
  in the queue counts (`Decided`, `Undecided`); `EventInv` says that it is true of the
  server, `CallInv` and `SearchInv` that the screen is true when none is left, `IdleInv`
  what an idle tab in a connection still has to ask, to hear or to do, `FreshInv` what a
  tab without a connection shows. All of them hold only while `snag` is false, hence
  `IInv == TypeOK /\ BaseInv /\ (~snag => Smooth)`; the match that ends a snag, alone in
  an empty queue, re-establishes them from `BaseInv`. The lemmas about queues (`HasTail`,
  `DecidedOnce`, ...) say what serving the first and adding a last one changes.

**SignalingProofs**
- `TypeCorrect`, `PartnersOnly`: `Spec => []NegotiatesWithPartner` and `IceInOrder`: `Spec =>
  []CandidatesInOrder`, for any number of tabs and rooms. What the relay checks and what
  it does not is the content of the invariant: in front of the relay a signal is of the
  tab that sends it and names a room of that tab (`Own`), behind it the receiver is a
  member of the room it names and the sender the other one (`Bound`), whatever the cache
  said in between - the address may be stale, the room id is not. The tab then compares
  the room, so what it takes in is of its match (`Fit`). `TabOk` ties candidates and
  descriptions to the await at which the set-up stands. Rooms never change their members
  (`RoomsKept`), which carries all of this over every other step.
- `NegotiationProceeds`: `Spec => []NegotiationGoesOn`, the safety half of
  `LinkedPairsNegotiate`: between two tabs on the sockets their room knows, the offer or
  the answer is due or on its way until both sides have the other's description, unless
  a description was refused or unheard (`missed`) or a connection was closed under its tab
  (`Hung`): by a goodbye, whoever sent it, or by its failure. `GInv`, on top of `IInv`,
  follows it (`StageInv`). It needs that the relay loses nothing else on that way
  (`RelayCarries`, `LookupCarries`), hence that a cached
  address, however old, is the one the room holds, and that a tab is in one open room
  (`AddressInv`); that offers come from initiators only, so that none of an earlier match
  is answered by the wrong side (`SidesInv`); and that a tab which the room reaches is in
  the match or has its event as the last one of its kind waiting (`ToldInv`). Two matches of
  one pair are told apart by the event's room alone.

**ModerationProofs**
- `TypeCorrect`: `Spec => []TypeOK`, with `StoreInv`: a request that is at a counter is a
  report by a session, and requests and voters are finitely many. What is reported may be
  any set of words, named in the code or not.
- `FaultsMakeEndless`: `Spec => []OnlyFaultsMakeEndless`. `WindowInv`: a counter has a window
  only once it counts; a request owes a window only to a counter that has none, and no
  two owe it to the same. So INCR moves a counter from "empty" to "owed" and never from
  "open" to "owed", EXPIRE pays, and only a failure leaves the set `EndlessOnes` larger,
  by one.
- `OneReporterBansNobody`: `Spec => []LoneReporterCannotBan`: for every ReportMax and
  BanThreshold with `2 * ReportMax - 1 < BanThreshold` and every two windows of which
  the reporter's is longer than the count's. The invariant (`VotesInv`, for each pair of
  a reporter and a reported) keeps two books. `Ledger`: the reports past the limiter and
  not yet counted are fewer than what this window has spent and one more allowance, and
  only in its first ticks can they be as many as it has spent, the rest being left from
  the last window. `Tally`: the same bound on those counted and passed together, as long
  as nobody else was counted; and when they are as many as the window has spent, the
  count ends no later than the limiter's window. A tick ages every request at once
  (`PassedAges`), so what passed in one window is counted before the next but one
  begins. `LedgerFirst`, `LedgerPass`, `LedgerTick`, `TallyTick` and `LedgerEnds` are
  its arithmetic, where the order of the two windows is used; the threshold comes in at
  the end (`CountedIsLimited`). The counters without a window come in again: while
  nothing fails, a count without one has a request that owes it.
- `KeysSeeBans`: `Spec => []FastPathSeesBans`: keys and documents lose a tick together, and the
  fast path's caching only ever adds a key where there is none (`CheckRaises`).
- `BansNameOnlyTheReported`: `Spec => []BansNameTheReported`, whatever fails or is saved in part.
  `ReportedInv`: who gets past `Report.create` reports by POST, so documents and keys are
  about what a report named or the word "unknown", and the slow path keeps something under
  "pre-session" only if an address, a fingerprint or that word is among it. It
  does *not* say that nobody can refuse everybody: enough reports about "pre-session" do, for
  the time of the ban, since `POST /reports` takes any id. The day a socket's
  report passes validation more than this breaks, as the mutant `AnyReport` shows: an
  ordinary report would then ban an address, and that ban everybody.

**ServerLifecycleProofs**
- `TypeCorrect`, `ExitIsClean`: `Spec => []CleanExit`, with `StopInv`: what follows the callback
  of `httpServer.close` finds no client connected and the engine told to stop, and no exit
  code but 0 is set before the end.
- `DeafOnesSubscribe`: `Spec => []NeverIdlyDeaf`. That a link goes down, and a ready handler
  subscribes, only after a drop (`LinkInv`) is needed to tell the first SUBSCRIBE from
  later ones.

Assumptions: only the named `ASSUME`s of the modules (batch sizes are positive, tokens
are distinct, the named peers and owners exist, levels and bounds are numbers, the limits
above), which TLC evaluates in every run.

Each inductive invariant was checked as an invariant by TLC, on the constants of the
module's run or slightly larger ones, before it was proved.

Every safety property of the passing runs has a theorem. Only model-checked are the
liveness properties (`PairsUp`, `GhostsSwept`, `AbandonedCallEnds`, `SearchIsServed`,
`LinkedPairsNegotiate`, `ShutdownEnds`, `ReadyHears`), since fairness and ENABLED are
outside what the prover handles; of `LinkedPairsNegotiate` and `ReadyHears` the proved
`NegotiationGoesOn` and `NeverIdlyDeaf` are the safety half. About `LocalMedia` nothing is
proved: its run looks for a disagreement.

## Findings

Checked by runs:

1. **A reconnected tab searches for nobody** (`useSocket.ts:137`). "Reset queue phase on
   disconnect so the next idle→searching transition can proceed after reconnect": the
   phase is reset, the status stays "searching", and the auto-join effect joins on "idle"
   only. The server has dropped the entry; the user waits until pressing next.
2. **A banned session is let in** (`session.service.ts:90`). validateToken "returns null if
   invalid, expired, or banned" - nothing on its path asks for bans.
3. **The camera sends while it is off** (`useWebRTC.ts:648`). The test plan's "toggle camera
   off ... remote peer sees black": a camera that is still being asked for arrives
   enabled, and nobody looks at the toggle again.

Five more statements of the comments are in the modules and are refuted by TLC within
seconds; the runs above leave them out. To see one, add the property to a
configuration with these constants (the others as in `match_safety` and `call_requests`,
`Expiry = FALSE` and `MaxFaults = 0` in CallLifecycle, no symmetry):

4. **The sorted set is not the ground truth** (`matching.service.ts:138`, `ZsetIsGroundTruth`,
   constants of `match_safety`). `queue.handler.ts:21` says "Redis ZSET is ground truth for
   queue membership". `getCandidates` removes ids whose entry it found missing two awaits
   earlier; a session that enqueued meanwhile keeps an entry, is answered "already
   queued", and is seen by no engine until the entry's TTL ends.
5. **A stranger ends a call** (`queue.handler.ts:208`, `OnlyPartnersEndCalls`: three sessions,
   one slot, requests join and leave, nobody droppable, four tickets, three sockets).
   "Tear down current room" resets `roomId` and `peerSocketId` to undefined, which
   `flattenSession` skips. A second `chat:leave` emits to the socket of a past partner, who
   may be in another call.
6. **And hangs up on it** (`queue.handler.ts:147-152`, "get session, tear down current room if
   any ... notify peer"; `OnlyPartnersHangUp` of `Signaling`, as in `signaling` with no
   `Roaming`, `Gathering`, `Unlucky` and reconnections). The same in the tab: p2 skips p1 and
   is matched with p3; p1 then leaves, its PEER_LEFT reaches p2's socket, and
   `handlePeerLeft` (`useWebRTC.ts:587-591`), which compares no room, closes the connection
   to p3.
7. **A partner is refused the queue** (`connection.handler.ts:207`, `RefusedOnlyInCall`: two
   sessions, one slot, join, s1 droppable, two tickets, two sockets). `finalizeDisconnect`
   destroys the session and leaves its room open, so `join_queue` takes it for a "genuine
   active room" until the room's TTL.
8. **A partner is never told** (`connection.handler.ts:156`, `PeerNotified`: as before with two
   slots, `FairSpec`). A client that drops between the enqueue of `join_queue` and the write
   of its status is found idle by `handleDisconnect`, stays queued, is matched, and nobody
   tells its partner.

What holds of these paths is in the runs: `DetachedOnlyBySweep`, `PeerFieldsAgree` and
`AbandonedCallEnds` say how far the disagreement goes, and `NegotiationGoesOn` and
`LinkedPairsNegotiate` that a stray goodbye strands a call only by closing its connection.
They do not cover 7 and 8: a room that nobody closes and a session whose status
has been overwritten are outside them.

Seen while modelling and stated by no comment: the shipped client's report leaves out the
`roomId` that the server demands, and a socket's report that has it spends its allowance
and then fails; of three `getUserMedia` on mount and toggle the first track may never be
stopped; `join_queue` may be sent twice (a stale retry timer, a skip's refusal taken for
the join's, a stray PEER_LEFT), which the server answers alike.

## Not modelled, and the plan

Left out for good: pages and components (rendering), statistics and encoding parameters of
a call, TURN credentials, headers and defaults of the configuration, listings of the
administration, analytics counters, load and deployment scripts; blocks, which no handler
calls; `webrtc:restart`, which no client sends. The text relay has no state but its
counter, which is that of reports; a message names no room, so one that is late may be
shown in the next call, and no part of the program reads it again.

Next, in this order:
1. A proof that the commit action of `CallLifecycle` is what `MatchQueue`'s engine does,
   beyond both implementing `Pairing`.
2. What holds of `LocalMedia` in spite of finding 3 (which tracks a call can still send, and
   which an unmount leaves running), checked and proved.
3. The hazards without a property, as far as anything holds of them: a lifted ban, a session
   destroyed under its new socket, a matched session marked idle, the counter of active rooms.
4. `ChatClient` composed with two tabs instead of one and its environment, as far as the
   state space allows.
