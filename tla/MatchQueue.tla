------------------------------ MODULE MatchQueue ------------------------------
(***************************************************************************)
(* The matching queue of services/matching.service.ts: QueueService (a     *)
(* sorted set of session ids and one short-lived hash per entry), the      *)
(* commit script of RoomService, and one MatchingEngine per server         *)
(* process, all on one Redis.                                              *)
(*                                                                         *)
(* Grain: one Redis command or script is one action, because Redis runs    *)
(* each of them alone; whatever a process does between two awaits belongs  *)
(* to the command that ends it.  Everything else interleaves.              *)
(*                                                                         *)
(* An enqueue is identified by its ticket, a number that stands for        *)
(* joinedAt (so tickets order the queue) and for the socket id and the     *)
(* preferences that this enqueue stored.                                   *)
(***************************************************************************)
EXTENDS Integers, Sequences

CONSTANTS
  Sessions,        \* session ids
  Workers,         \* the server processes, each running one MatchingEngine
  Perishable,      \* the sessions whose hash may be destroyed or run out
  BatchSize,       \* MATCH_CANDIDATE_BATCH_SIZE
  CleanupBatch,    \* QUEUE_CLEANUP_BATCH_SIZE
  MaxLevel,        \* number of relaxation thresholds of isCompatible
  CompatibleFrom,  \* the level from which two sessions' preferences agree
  Free,            \* no reservation
  DeadToken,       \* a reservation whose owner token no engine knows any more
  MaxTickets,      \* bound: enqueues
  MaxFaults        \* bound: Redis errors and process crashes

ASSUME BatchesAssumption ==
  /\ BatchSize \in Nat \ {0}
  /\ CleanupBatch \in Nat \ {0}

ASSUME LevelsAssumption ==
  /\ MaxLevel \in Nat
  /\ CompatibleFrom \in [Sessions -> [Sessions -> 0..MaxLevel]]

ASSUME TokensAssumption ==
  /\ Free \notin Workers
  /\ DeadToken \notin Workers
  /\ Free # DeadToken

ASSUME BoundsAssumption ==
  /\ MaxTickets \in Nat
  /\ MaxFaults \in Nat
  /\ Perishable \subseteq Sessions

VARIABLES
  (* Redis *)
  zset,         \* queue:global, the score of each member, 0 when not a member
  entry,        \* queue:entry:<id>
  reservation,  \* match:reservation:<id>, the owner token
  session,      \* session:<id>
  rooms,        \* every room ever committed; its index is the room id
  lastTicket,   \* the clock that joinedAt is read from
  (* each engine *)
  pc,           \* the await it stands at
  ids,          \* the ids ZRANGE returned that HGETALL has not read yet
  seen,         \* the candidates it has read
  stale,        \* the ids it read no entry for
  pairs,        \* the index pairs its double loop still has to visit
  cur,          \* the pair it has reserved
  (* environment *)
  faults

redisVars  == <<zset, entry, reservation, session, rooms, lastTicket>>
engineVars == <<pc, ids, seen, stale, pairs, cur>>
vars       == <<redisVars, engineVars, faults>>

Levels == 0..MaxLevel

NoEntry == [ticket |-> 0, waited |-> 0]

Steps == {"idle", "fetch", "pairing", "check", "commit", "publish",
          "count", "release", "abort"}

Entry     == [ticket : Nat, waited : Levels]
Candidate == [sid : Sessions, ticket : Nat, waited : Levels]
Room      == [members : Sessions \X Sessions,   \* sessionId1, sessionId2
              seen    : Nat \X Nat,             \* whose socket ids it stores
              used    : Nat \X Nat]             \* the entries it consumed
SessionHash == [hash   : {"none", "partial", "full"},  \* partial: no sessionId
                status : {"idle", "searching", "matched"},
                room   : Nat]                   \* roomId, and with it peerId

TypeOK ==
  /\ zset \in [Sessions -> Nat]
  /\ entry \in [Sessions -> Entry]
  /\ reservation \in [Sessions -> Workers \cup {Free, DeadToken}]
  /\ session \in [Sessions -> SessionHash]
  /\ rooms \in Seq(Room)
  /\ lastTicket \in Nat
  /\ pc \in [Workers -> Steps]
  /\ ids \in [Workers -> Seq(Sessions)]
  /\ seen \in [Workers -> Seq(Candidate)]
  /\ stale \in [Workers -> SUBSET Sessions]
  /\ pairs \in [Workers -> SUBSET (Nat \X Nat)]
  /\ cur \in [Workers -> Nat \X Nat]
  /\ faults \in Nat

Init ==
  /\ zset = [s \in Sessions |-> 0]
  /\ entry = [s \in Sessions |-> NoEntry]
  /\ reservation = [s \in Sessions |-> Free]
  /\ session = [s \in Sessions |->
                  [hash |-> "full", status |-> "idle", room |-> 0]]
  /\ rooms = <<>>
  /\ lastTicket = 0
  /\ pc = [w \in Workers |-> "idle"]
  /\ ids = [w \in Workers |-> <<>>]
  /\ seen = [w \in Workers |-> <<>>]
  /\ stale = [w \in Workers |-> {}]
  /\ pairs = [w \in Workers |-> {}]
  /\ cur = [w \in Workers |-> <<0, 0>>]
  /\ faults = 0

-----------------------------------------------------------------------------
(* QueueService *)

Members == {s \in Sessions : zset[s] # 0}

(* isInQueue: asks for the entry hash, not for the sorted set. *)
IsInQueue(s) == entry[s].ticket # 0

(* The script inserts only a session that has no entry yet. *)
MayEnqueueAgain(s) == TRUE   \* mutant: the EXISTS test is dropped

MayEnqueue(s) == ~IsInQueue(s)

(* The enqueue script; the caller has read the clock just before. *)
Enqueue(s) ==
  /\ MayEnqueue(s)
  /\ lastTicket < MaxTickets
  /\ lastTicket' = lastTicket + 1
  /\ entry' = [entry EXCEPT ![s] = [ticket |-> lastTicket + 1, waited |-> 0]]
  /\ zset' = [zset EXCEPT ![s] = lastTicket + 1]
  /\ UNCHANGED <<reservation, session, rooms, engineVars, faults>>

(* The dequeue script, for any caller, whatever socket it acts for. *)
Dequeue(s) ==
  /\ zset' = [zset EXCEPT ![s] = 0]
  /\ entry' = [entry EXCEPT ![s] = NoEntry]
  /\ UNCHANGED <<reservation, session, rooms, lastTicket, engineVars, faults>>

(* The TTL of an entry runs out; its id stays in the sorted set. *)
EntryExpires(s) ==
  /\ IsInQueue(s)
  /\ entry' = [entry EXCEPT ![s] = NoEntry]
  /\ UNCHANGED <<zset, reservation, session, rooms, lastTicket, engineVars, faults>>

(* ZRANGE key 0 limit-1: the members with the lowest scores, ascending. *)
IsRange(q, limit) ==
  /\ \A i \in DOMAIN q : q[i] \in Members
  /\ \A i, j \in DOMAIN q : i < j => zset[q[i]] < zset[q[j]]
  /\ \A s \in Members :
       \/ \E i \in DOMAIN q : q[i] = s
       \/ Len(q) = limit /\ \A i \in DOMAIN q : zset[q[i]] < zset[s]

Ranges(limit) ==
  {q \in UNION {[1..n -> Sessions] : n \in 0..limit} : IsRange(q, limit)}

(* The cleanup script, one atomic sweep of the head of the queue. *)
SweepableAlways(s) == TRUE   \* mutant: the EXISTS test is dropped

Sweepable(s) == ~IsInQueue(s)

CleanStaleEntries ==
  /\ \E q \in Ranges(CleanupBatch) :
       LET removed == {s \in Members :
                         Sweepable(s) /\ \E i \in DOMAIN q : q[i] = s}
       IN /\ removed # {}
          /\ zset' = [s \in Sessions |-> IF s \in removed THEN 0 ELSE zset[s]]
  /\ UNCHANGED <<entry, reservation, session, rooms, lastTicket, engineVars, faults>>

-----------------------------------------------------------------------------
(* One matching cycle of an engine *)

(* A pair is accepted once both have waited long enough for their          *)
(* preferences: minWaitSeconds is the shorter wait of the two.             *)
CompatibleAfter(a, b) ==      \* mutant: past the threshold, not at it
  /\ a.waited > CompatibleFrom[a.sid][b.sid]
  /\ b.waited > CompatibleFrom[a.sid][b.sid]

isCompatible(a, b) ==
  /\ a.waited >= CompatibleFrom[a.sid][b.sid]
  /\ b.waited >= CompatibleFrom[a.sid][b.sid]

CompatiblePairs(q) ==
  {p \in (DOMAIN q) \X (DOMAIN q) : p[1] < p[2] /\ isCompatible(q[p[1]], q[p[2]])}

IsFirst(p, P) ==
  \A q \in P : p[1] < q[1] \/ (p[1] = q[1] /\ p[2] <= q[2])

(* What is left of the double loop once both of p count as matched. *)
Apart(p, P) == {q \in P : {q[1], q[2]} \cap {p[1], p[2]} = {}}

InitiatorOf(w) == seen[w][cur[w][1]]
ResponderOf(w) == seen[w][cur[w][2]]

(* The engine returns to its poll timer and forgets the cycle. *)
EndCycle(w) ==
  /\ pc' = [pc EXCEPT ![w] = "idle"]
  /\ ids' = [ids EXCEPT ![w] = <<>>]
  /\ seen' = [seen EXCEPT ![w] = <<>>]
  /\ stale' = [stale EXCEPT ![w] = {}]
  /\ pairs' = [pairs EXCEPT ![w] = {}]
  /\ cur' = [cur EXCEPT ![w] = <<0, 0>>]

Resume(w, rest) ==
  IF rest = {}
  THEN EndCycle(w)
  ELSE /\ pairs' = [pairs EXCEPT ![w] = rest]
       /\ pc' = [pc EXCEPT ![w] = "pairing"]
       /\ stale' = [stale EXCEPT ![w] = {}]
       /\ cur' = [cur EXCEPT ![w] = <<0, 0>>]
       /\ UNCHANGED <<ids, seen>>

Goto(w, step) ==
  /\ pc' = [pc EXCEPT ![w] = step]
  /\ UNCHANGED <<ids, seen, stale, pairs, cur>>

(* getCandidates, first command *)
Zrange(w) ==
  /\ pc[w] = "idle"
  /\ \E q \in Ranges(BatchSize) :
       /\ q # <<>>
       /\ ids' = [ids EXCEPT ![w] = q]
  /\ pc' = [pc EXCEPT ![w] = "fetch"]
  /\ UNCHANGED <<redisVars, seen, stale, pairs, cur, faults>>

(* getCandidates, the pipeline of HGETALLs, one id per step *)
Hgetall(w) ==
  /\ pc[w] = "fetch"
  /\ ids[w] # <<>>
  /\ LET s == Head(ids[w])
     IN \/ /\ IsInQueue(s)
           /\ seen' = [seen EXCEPT ![w] = Append(@,
                         [sid |-> s, ticket |-> entry[s].ticket,
                          waited |-> entry[s].waited])]
           /\ UNCHANGED stale
        \/ /\ ~IsInQueue(s)
           /\ stale' = [stale EXCEPT ![w] = @ \cup {s}]
           /\ UNCHANGED seen
  /\ ids' = [ids EXCEPT ![w] = Tail(@)]
  /\ UNCHANGED <<redisVars, pc, pairs, cur, faults>>

(* The loop starts over the candidates; with none that agree it ends. *)
StartLoop(w) == Resume(w, CompatiblePairs(seen[w]))

(* The ids that the last command of getCandidates removes. *)
DroppedNone(w) == {}         \* mutant: the ids are only left out

Dropped(w) == stale[w]

(* getCandidates, the last command: drop the ids that had no entry. *)
SweepStale(w) ==
  /\ pc[w] = "fetch"
  /\ ids[w] = <<>>
  /\ stale[w] # {}
  /\ zset' = [s \in Sessions |-> IF s \in Dropped(w) THEN 0 ELSE zset[s]]
  /\ StartLoop(w)
  /\ UNCHANGED <<entry, reservation, session, rooms, lastTicket, faults>>

BeginPairing(w) ==
  /\ pc[w] = "fetch"
  /\ ids[w] = <<>>
  /\ stale[w] = {}
  /\ StartLoop(w)
  /\ UNCHANGED <<redisVars, faults>>

(* runMatchingCycle up to reservePair: the next pair the loop accepts, and *)
(* the reserve script, which takes both sessions or neither.               *)
Reservable(a, b) == reservation[a] = Free /\ reservation[b] = Free

ReservePair(w) ==
  /\ pc[w] = "pairing"
  /\ \E p \in pairs[w] :
       LET a == seen[w][p[1]].sid
           b == seen[w][p[2]].sid
       IN /\ IsFirst(p, pairs[w])
          /\ \/ /\ Reservable(a, b)
                /\ reservation' = [reservation EXCEPT ![a] = w, ![b] = w]
                /\ cur' = [cur EXCEPT ![w] = p]
                /\ pc' = [pc EXCEPT ![w] = "check"]
                /\ UNCHANGED <<ids, seen, stale, pairs>>
             \/ /\ ~Reservable(a, b)
                /\ Resume(w, pairs[w] \ {p})
                /\ UNCHANGED reservation
  /\ UNCHANGED <<zset, entry, session, rooms, lastTicket, faults>>

HoldsBoth(w) ==
  /\ reservation[InitiatorOf(w).sid] = w
  /\ reservation[ResponderOf(w).sid] = w

(* matchPair, the MGET that asks whether the reservation is still ours *)
CheckReservation(w) ==
  /\ pc[w] = "check"
  /\ Goto(w, IF HoldsBoth(w) THEN "commit" ELSE "release")
  /\ UNCHANGED <<redisVars, faults>>

(* EXISTS on a session hash also answers 1 for a partial one. *)
Exists(s) == session[s].hash # "none"

(* The guards of the commit script *)
CommitUnowned(w) ==          \* mutant: the owner token is not compared
  LET a == InitiatorOf(w).sid
      b == ResponderOf(w).sid
  IN /\ Exists(a) /\ Exists(b)
     /\ IsInQueue(a) /\ IsInQueue(b)

CommitAllowed(w) ==
  LET a == InitiatorOf(w).sid
      b == ResponderOf(w).sid
  IN /\ HoldsBoth(w)
     /\ Exists(a) /\ Exists(b)
     /\ IsInQueue(a) /\ IsInQueue(b)

NewRoom(w) ==
  LET a == InitiatorOf(w)
      b == ResponderOf(w)
  IN [members |-> <<a.sid, b.sid>>,
      seen    |-> <<a.ticket, b.ticket>>,
      used    |-> <<entry[a.sid].ticket, entry[b.sid].ticket>>]

Matched(s) ==
  [hash |-> session[s].hash, status |-> "matched", room |-> Len(rooms) + 1]

(* The entries the commit script leaves behind *)
ConsumedFirst(a, b) == [entry EXCEPT ![a] = NoEntry]   \* mutant: one DEL missing

Consumed(a, b) == [entry EXCEPT ![a] = NoEntry, ![b] = NoEntry]

(* The writes of the commit script *)
CommitWrites(w) ==
  LET a == InitiatorOf(w).sid
      b == ResponderOf(w).sid
  IN /\ zset' = [zset EXCEPT ![a] = 0, ![b] = 0]
     /\ entry' = Consumed(a, b)
     /\ rooms' = Append(rooms, NewRoom(w))
     /\ session' = [session EXCEPT ![a] = Matched(a), ![b] = Matched(b)]
     /\ UNCHANGED <<reservation, lastTicket>>

CommitMatch(w) ==
  /\ pc[w] = "commit"
  /\ CommitAllowed(w)
  /\ CommitWrites(w)
  /\ pc' = [pc EXCEPT ![w] = "publish"]
  /\ UNCHANGED <<ids, seen, stale, pairs, cur, faults>>

CommitRefused(w) ==
  /\ pc[w] = "commit"
  /\ ~CommitAllowed(w)
  /\ Goto(w, "release")
  /\ UNCHANGED <<redisVars, faults>>

(* The match event and the analytics counters are written outside the     *)
(* state that the queue depends on; the reservation runs on meanwhile.  An *)
(* error of the counters is caught.                                        *)
PublishMatch(w) ==
  /\ pc[w] = "publish"
  /\ Goto(w, "count")
  /\ UNCHANGED <<redisVars, faults>>

CountRoom(w) ==
  /\ pc[w] = "count"
  /\ Goto(w, "release")
  /\ UNCHANGED <<redisVars, faults>>

(* The release script: a key is deleted only while it holds our token. *)
ReleasedUnowned(w, s) == Free   \* mutant: DEL without comparing the token

Released(w, s) == IF reservation[s] = w THEN Free ELSE reservation[s]

Release(w) ==
  LET a == InitiatorOf(w).sid
      b == ResponderOf(w).sid
  IN reservation' = [reservation EXCEPT ![a] = Released(w, a),
                                        ![b] = Released(w, b)]

(* finally { releasePair }, and then the loop goes on: whether or not      *)
(* matchPair made a room, both sessions now count as matched in this cycle.*)
ReleasePair(w) ==
  /\ pc[w] = "release"
  /\ Release(w)
  /\ Resume(w, Apart(cur[w], pairs[w]))
  /\ UNCHANGED <<zset, entry, session, rooms, lastTicket, faults>>

(* finally { releasePair } after matchPair threw: the cycle is over. *)
AbortCycle(w) ==
  /\ pc[w] = "abort"
  /\ Release(w)
  /\ EndCycle(w)
  /\ UNCHANGED <<zset, entry, session, rooms, lastTicket, faults>>

-----------------------------------------------------------------------------
(* Faults *)

Fault == faults < MaxFaults /\ faults' = faults + 1

(* The tokens of w become strings that no engine will present again. *)
Orphaned(w) ==
  [s \in Sessions |-> IF reservation[s] = w THEN DeadToken ELSE reservation[s]]

(* A command of matchPair rejects and had no effect. *)
MatchPairThrows(w) ==
  /\ Fault
  /\ pc[w] \in {"check", "commit", "publish"}
  /\ Goto(w, "abort")
  /\ UNCHANGED redisVars

(* The commit script runs, but its reply is lost with the connection. *)
CommitReplyLost(w) ==
  /\ Fault
  /\ pc[w] = "commit"
  /\ CommitAllowed(w)
  /\ CommitWrites(w)
  /\ Goto(w, "abort")

(* Any other command rejects, or the process dies and is started again:    *)
(* the cycle is lost and with it the owner token.                          *)
CycleLost(w) ==
  /\ Fault
  /\ pc[w] # "idle"
  /\ EndCycle(w)
  /\ reservation' = Orphaned(w)
  /\ UNCHANGED <<zset, entry, session, rooms, lastTicket>>

-----------------------------------------------------------------------------
(* Time and the rest of the system *)

(* The wait of an entry passes the next of the relaxation thresholds. *)
ThresholdLeftForever(s) == TRUE   \* mutant: no last threshold

ThresholdLeft(s) == entry[s].waited < MaxLevel

Waits(s) ==
  /\ IsInQueue(s)
  /\ ThresholdLeft(s)
  /\ entry' = [entry EXCEPT ![s].waited = @ + 1]
  /\ UNCHANGED <<zset, reservation, session, rooms, lastTicket, engineVars, faults>>

(* The five seconds of a reservation run out after its owner is gone... *)
ReservationExpires(s) ==
  /\ reservation[s] = DeadToken
  /\ reservation' = [reservation EXCEPT ![s] = Free]
  /\ UNCHANGED <<zset, entry, session, rooms, lastTicket, engineVars, faults>>

(* ... or while the owner stalls between its commands. *)
EngineStalls(w) ==
  /\ Fault
  /\ \E S \in SUBSET {s \in Sessions : reservation[s] = w} :
       /\ S # {}
       /\ reservation' =
            [s \in Sessions |-> IF s \in S THEN Free ELSE reservation[s]]
  /\ UNCHANGED <<zset, entry, session, rooms, lastTicket, engineVars>>

SessionEnds(s) ==
  /\ s \in Perishable
  /\ Exists(s)
  /\ session' = [session EXCEPT ![s] =
                   [hash |-> "none", status |-> "idle", room |-> 0]]
  /\ UNCHANGED <<zset, entry, reservation, rooms, lastTicket, engineVars, faults>>

EngineStep(w) ==
  \/ Zrange(w) \/ Hgetall(w) \/ SweepStale(w) \/ BeginPairing(w)
  \/ ReservePair(w) \/ CheckReservation(w)
  \/ CommitMatch(w) \/ CommitRefused(w) \/ PublishMatch(w) \/ CountRoom(w)
  \/ ReleasePair(w) \/ AbortCycle(w)

EngineFault(w) ==
  \/ MatchPairThrows(w) \/ CommitReplyLost(w) \/ CycleLost(w)
  \/ EngineStalls(w)

ClockStep(s) == EntryExpires(s) \/ Waits(s) \/ ReservationExpires(s)

Next ==
  \/ \E w \in Workers : EngineStep(w) \/ EngineFault(w)
  \/ \E s \in Sessions : ClockStep(s) \/ SessionEnds(s)
  \/ \E s \in Sessions : Enqueue(s) \/ Dequeue(s)
  \/ CleanStaleEntries

Spec == Init /\ [][Next]_vars

(* The engines poll for ever, each of their awaits is answered, waits grow *)
(* and Redis expires orphaned reservations and the entries of sessions     *)
(* that ended; users, faults and the cleanup timer owe nothing.            *)
Fairness ==
  /\ \A w \in Workers : WF_vars(EngineStep(w))
  /\ \A s \in Sessions : WF_vars(Waits(s)) /\ WF_vars(ReservationExpires(s))
  /\ \A s \in Sessions : WF_vars(~Exists(s) /\ EntryExpires(s))

FairSpec == Spec /\ Fairness

-----------------------------------------------------------------------------
(* Properties *)

Tickets(r) == {r.used[1], r.used[2]}

(* However many engines race over the same candidates, an enqueue leads    *)
(* into at most one room: the commit script uses up the entries it checks. *)
TicketMatchedOnce ==
  \A i, j \in DOMAIN rooms : i # j => Tickets(rooms[i]) \cap Tickets(rooms[j]) = {}

(* "This prevents A:B / B:C overlap across workers": no room is created on *)
(* a session that some other engine has reserved at that moment.           *)
NoOverlap ==
  [][\A w \in Workers :
       Len(rooms') > Len(rooms) /\ pc'[w] # pc[w] =>
         \A s \in Sessions, v \in Workers \ {w} :
           reservation[s] = v =>
             s \notin {rooms'[Len(rooms')].members[1], rooms'[Len(rooms')].members[2]}]_vars

(* A step of one engine never takes away another engine's reservation,     *)
(* even when the TTL has handed the session over in the meantime.          *)
ReservationSafe ==
  [][\A s \in Sessions, w \in Workers :
       reservation[s] = w /\ reservation'[s] # w => pc' = pc \/ pc'[w] # pc[w]]_vars

(* A live entry drops out of the sorted set in one way only: an engine     *)
(* sweeps an id whose entry it had found missing before.  No script does.  *)
DetachedOnlyBySweep ==
  [][\A s \in Sessions :
       s \in Members /\ IsInQueue(s) /\ s \notin Members' /\ IsInQueue(s)' =>
         \E w \in Workers : pc[w] = "fetch" /\ s \in stale[w]]_vars

(* The abstract queue: tickets for entries, pairs of tickets for rooms. *)
Promise == INSTANCE Pairing WITH
  waiting <- [s \in Sessions |-> entry[s].ticket],
  issued  <- lastTicket,
  pairs   <- {Tickets(rooms[i]) : i \in DOMAIN rooms}

(* Scripts, races, expiry and faults together do no more to a ticket than  *)
(* hand it out, withdraw it, or pair it with another one that still waits. *)
KeepsPromise == Promise!Spec

(* Two sessions that stay in the queue, hash, entry and member, do not     *)
(* stay there for ever: whatever their preferences and whatever ids are    *)
(* in front of them, one of the two is put into a room.                    *)
Attached(s) == s \in Members /\ IsInQueue(s) /\ Exists(s)

PairsUp ==
  \A s, t \in Sessions : s # t => ~ <>[](Attached(s) /\ Attached(t))

(* A member of the sorted set whose entry is gone does not stay there, so  *)
(* it cannot fill the candidate batch for ever: polling alone removes it.  *)
GhostsSwept ==
  \A s \in Sessions :
    s \in Members /\ ~IsInQueue(s) ~> s \notin Members \/ IsInQueue(s)

(* "Redis ZSET is ground truth for queue membership": what join_queue asks *)
(* agrees with the sorted set that the engines read.                       *)
(* Does not hold: README, Findings.                                        *)
ZsetIsGroundTruth == \A s \in Sessions : IsInQueue(s) => s \in Members

==============================================================================
