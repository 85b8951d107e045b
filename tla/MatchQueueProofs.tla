--------------------------- MODULE MatchQueueProofs ---------------------------
(***************************************************************************)
(* Proofs about MatchQueue, for any number of sessions and engines, any    *)
(* batch sizes, any bounds and any relation of compatibility.              *)
(***************************************************************************)
EXTENDS MatchQueue, TLAPS

(* Where a reservation may be held, the reserved pair is the engine's own. *)
Holding == {"check", "commit", "publish", "count", "release", "abort"}

(* What an engine knows about its own cycle: the ids still to read and the *)
(* candidates read are all different sessions, and the pairs left to visit *)
(* are pairs of two different candidates.                                  *)
EngineInv ==
  \A w \in Workers :
    /\ \A i, j \in DOMAIN ids[w] : i # j => ids[w][i] # ids[w][j]
    /\ \A i, j \in DOMAIN seen[w] : i # j => seen[w][i].sid # seen[w][j].sid
    /\ \A i \in DOMAIN ids[w], j \in DOMAIN seen[w] :
         ids[w][i] # seen[w][j].sid
    /\ \A p \in pairs[w] :
         p[1] \in DOMAIN seen[w] /\ p[2] \in DOMAIN seen[w] /\ p[1] # p[2]
    /\ pc[w] = "idle" => seen[w] = <<>>
    /\ pc[w] \in Holding => cur[w] \in pairs[w]

IInv == TypeOK /\ EngineInv

-----------------------------------------------------------------------------
(* A sequence that Ranges returns lists different sessions. *)
LEMMA RangeDistinct ==
  ASSUME TypeOK, NEW limit \in Nat, NEW q \in Ranges(limit)
  PROVE  /\ q \in Seq(Sessions)
         /\ \A i, j \in DOMAIN q : i # j => q[i] # q[j]
<1>1. PICK n \in 0..limit : q \in [1..n -> Sessions]
  BY DEF Ranges
<1>2. q \in Seq(Sessions) /\ DOMAIN q = 1..n
  BY <1>1
<1>3. ASSUME NEW i \in DOMAIN q, NEW j \in DOMAIN q, i # j
      PROVE  q[i] # q[j]
  <2>1. zset[q[i]] \in Nat /\ zset[q[j]] \in Nat
    BY <1>2 DEF TypeOK
  <2>2. i < j => zset[q[i]] < zset[q[j]]
    BY DEF Ranges, IsRange
  <2>3. j < i => zset[q[j]] < zset[q[i]]
    BY DEF Ranges, IsRange
  <2>4. i < j \/ j < i
    BY <1>2, <1>3
  <2>5. QED  BY <2>1, <2>2, <2>3, <2>4
<1>4. QED  BY <1>2, <1>3

(* The pair an engine holds is a pair of two different candidates. *)
LEMMA ReservedPair ==
  ASSUME IInv, NEW w \in Workers, pc[w] \in Holding
  PROVE  /\ InitiatorOf(w) \in Candidate
         /\ ResponderOf(w) \in Candidate
         /\ InitiatorOf(w).sid \in Sessions
         /\ ResponderOf(w).sid \in Sessions
         /\ InitiatorOf(w).ticket \in Nat
         /\ ResponderOf(w).ticket \in Nat
         /\ InitiatorOf(w).sid # ResponderOf(w).sid
<1>1. cur[w] \in pairs[w] /\ seen[w] \in Seq(Candidate)
  BY DEF IInv, EngineInv, TypeOK
<1>2. /\ cur[w][1] \in DOMAIN seen[w]
      /\ cur[w][2] \in DOMAIN seen[w]
      /\ cur[w][1] # cur[w][2]
  BY <1>1 DEF IInv, EngineInv
<1>3. /\ seen[w][cur[w][1]] \in Candidate
      /\ seen[w][cur[w][2]] \in Candidate
  BY <1>1, <1>2
<1>4. seen[w][cur[w][1]].sid # seen[w][cur[w][2]].sid
  BY <1>2 DEF IInv, EngineInv
<1>5. QED  BY <1>3, <1>4 DEF InitiatorOf, ResponderOf, Candidate

-----------------------------------------------------------------------------
(* The loop bookkeeping of an engine, shared by its actions *)

EngineTypes ==
  /\ pc \in [Workers -> Steps]
  /\ ids \in [Workers -> Seq(Sessions)]
  /\ seen \in [Workers -> Seq(Candidate)]
  /\ stale \in [Workers -> SUBSET Sessions]
  /\ pairs \in [Workers -> SUBSET (Nat \X Nat)]
  /\ cur \in [Workers -> Nat \X Nat]

LEMMA EndCycleKeeps ==
  ASSUME EngineTypes, EngineInv, NEW w \in Workers, EndCycle(w)
  PROVE  EngineTypes' /\ EngineInv'
<1>1. EngineTypes'
  BY DEF EngineTypes, EndCycle, Steps
<1>2. EngineInv'
  BY DEF EngineTypes, EngineInv, EndCycle, Holding
<1>3. QED  BY <1>1, <1>2

LEMMA ResumeKeeps ==
  ASSUME EngineTypes, EngineInv, NEW w \in Workers,
         NEW rest \in SUBSET (Nat \X Nat),
         \A p \in rest :
           p[1] \in DOMAIN seen[w] /\ p[2] \in DOMAIN seen[w] /\ p[1] # p[2],
         Resume(w, rest)
  PROVE  EngineTypes' /\ EngineInv'
<1>1. CASE rest = {}
  BY <1>1, EndCycleKeeps DEF Resume
<1>2. CASE rest # {}
  <2>1. /\ pairs' = [pairs EXCEPT ![w] = rest]
        /\ pc' = [pc EXCEPT ![w] = "pairing"]
        /\ stale' = [stale EXCEPT ![w] = {}]
        /\ cur' = [cur EXCEPT ![w] = <<0, 0>>]
        /\ UNCHANGED <<ids, seen>>
    BY <1>2 DEF Resume
  <2>2. EngineTypes'
    <3>1. pairs' \in [Workers -> SUBSET (Nat \X Nat)]
      BY <2>1 DEF EngineTypes
    <3>2. cur' \in [Workers -> Nat \X Nat]
      BY <2>1 DEF EngineTypes
    <3>3. pc' \in [Workers -> Steps] /\ stale' \in [Workers -> SUBSET Sessions]
      BY <2>1 DEF EngineTypes, Steps
    <3>4. QED  BY <2>1, <3>1, <3>2, <3>3 DEF EngineTypes
  <2>3. ASSUME NEW v \in Workers
        PROVE  /\ \A p \in pairs'[v] :
                    p[1] \in DOMAIN seen[v] /\ p[2] \in DOMAIN seen[v] /\ p[1] # p[2]
               /\ pc'[v] = "idle" => seen[v] = <<>>
               /\ pc'[v] \in Holding => cur'[v] \in pairs'[v]
    <3>1. CASE v = w
      BY <2>1, <3>1 DEF EngineTypes, Holding
    <3>2. CASE v # w
      BY <2>1, <3>2 DEF EngineTypes, EngineInv
    <3>3. QED  BY <3>1, <3>2
  <2>4. EngineInv'
    BY <2>1, <2>3 DEF EngineInv
  <2>5. QED  BY <2>2, <2>4
<1>3. QED  BY <1>1, <1>2

LEMMA GotoKeeps ==
  ASSUME EngineTypes, EngineInv, NEW w \in Workers,
         pc[w] \in Holding, NEW step \in Holding, Goto(w, step)
  PROVE  EngineTypes' /\ EngineInv'
<1>1. EngineTypes'
  BY DEF EngineTypes, Goto, Steps, Holding
<1>2. EngineInv'
  BY DEF EngineTypes, EngineInv, Goto, Holding
<1>3. QED  BY <1>1, <1>2

(* Every command of an engine keeps what the engine knows about its cycle. *)
LEMMA EngineStepKeepsCycle ==
  ASSUME IInv, NEW w \in Workers, EngineStep(w) \/ EngineFault(w)
  PROVE  EngineTypes' /\ EngineInv'
<1> EngineTypes /\ EngineInv
  BY DEF IInv, TypeOK, EngineTypes
<1>1. CASE Zrange(w)
  <2>1. PICK q \in Ranges(BatchSize) : ids' = [ids EXCEPT ![w] = q]
    BY <1>1 DEF Zrange
  <2>2. q \in Seq(Sessions) /\ \A i, j \in DOMAIN q : i # j => q[i] # q[j]
    BY <2>1, RangeDistinct, BatchesAssumption DEF IInv
  <2>3. /\ pc[w] = "idle"
        /\ pc' = [pc EXCEPT ![w] = "fetch"]
        /\ UNCHANGED <<seen, stale, pairs, cur>>
    BY <1>1 DEF Zrange
  <2>4. EngineTypes'
    BY <2>1, <2>2, <2>3 DEF EngineTypes, Steps
  <2>5. seen[w] = <<>>
    BY <2>3 DEF EngineInv
  <2>6. EngineInv'
    <3>1. SUFFICES ASSUME NEW v \in Workers
                   PROVE  EngineInv!(v)'
      BY DEF EngineInv
    <3>2. CASE v = w
      BY <2>1, <2>2, <2>3, <2>5, <3>2 DEF EngineTypes, EngineInv, Holding
    <3>3. CASE v # w
      BY <2>1, <2>3, <3>3 DEF EngineTypes, EngineInv
    <3>4. QED  BY <3>2, <3>3
  <2>7. QED  BY <2>4, <2>6
<1>2. CASE Hgetall(w)
  <2> DEFINE s == Head(ids[w])
             c == [sid |-> s, ticket |-> entry[s].ticket,
                   waited |-> entry[s].waited]
  <2>1. /\ pc[w] = "fetch"
        /\ ids[w] # <<>>
        /\ ids' = [ids EXCEPT ![w] = Tail(@)]
        /\ UNCHANGED <<pc, pairs, cur>>
        /\ \/ seen' = [seen EXCEPT ![w] = Append(@, c)] /\ UNCHANGED stale
           \/ stale' = [stale EXCEPT ![w] = @ \cup {s}] /\ UNCHANGED seen
    BY <1>2 DEF Hgetall
  <2>2. /\ ids[w] \in Seq(Sessions)
        /\ seen[w] \in Seq(Candidate)
        /\ s \in Sessions
        /\ Tail(ids[w]) \in Seq(Sessions)
        /\ s = ids[w][1]
        /\ 1 \in DOMAIN ids[w]
    BY <2>1 DEF EngineTypes
  <2>3. c \in Candidate
    BY <2>2 DEF IInv, TypeOK, Entry, Candidate
  <2>4. EngineTypes'
    <3>1. ids' \in [Workers -> Seq(Sessions)]
      BY <2>1, <2>2 DEF EngineTypes
    <3>2. seen' \in [Workers -> Seq(Candidate)]
      <4>1. Append(seen[w], c) \in Seq(Candidate)
        BY <2>2, <2>3
      <4> HIDE DEF c
      <4>2. QED  BY <4>1, <2>1 DEF EngineTypes
    <3>3. stale' \in [Workers -> SUBSET Sessions]
      <4>1. stale[w] \cup {s} \in SUBSET Sessions
        BY <2>2 DEF EngineTypes
      <4> HIDE DEF s, c
      <4>2. QED  BY <4>1, <2>1 DEF EngineTypes
    <3>4. QED  BY <2>1, <3>1, <3>2, <3>3 DEF EngineTypes
  <2>5. /\ DOMAIN Tail(ids[w]) = 1..(Len(ids[w]) - 1)
        /\ \A i \in DOMAIN Tail(ids[w]) :
             /\ Tail(ids[w])[i] = ids[w][i + 1]
             /\ i + 1 \in DOMAIN ids[w]
             /\ i + 1 # 1
    BY <2>1, <2>2
  <2>6. /\ DOMAIN Append(seen[w], c) = 1..(Len(seen[w]) + 1)
        /\ \A i \in DOMAIN seen[w] : Append(seen[w], c)[i] = seen[w][i]
        /\ DOMAIN seen[w] = 1..Len(seen[w])
        /\ DOMAIN seen[w] \subseteq DOMAIN Append(seen[w], c)
        /\ Append(seen[w], c)[Len(seen[w]) + 1] = c
        /\ Len(seen[w]) \in Nat
    BY <2>2, <2>3
  <2>7. /\ \A i, j \in DOMAIN ids'[w] : i # j => ids'[w][i] # ids'[w][j]
        /\ \A i \in DOMAIN ids'[w] : ids'[w][i] # s
        /\ \A i \in DOMAIN ids'[w], j \in DOMAIN seen[w] :
             ids'[w][i] # seen[w][j].sid
    <3>1. ids'[w] = Tail(ids[w])
      BY <2>1 DEF EngineTypes
    <3>2. \A i, j \in DOMAIN Tail(ids[w]) : i # j =>
            Tail(ids[w])[i] # Tail(ids[w])[j]
      <4>1. SUFFICES ASSUME NEW i \in DOMAIN Tail(ids[w]),
                            NEW j \in DOMAIN Tail(ids[w]), i # j
                     PROVE  Tail(ids[w])[i] # Tail(ids[w])[j]
        OBVIOUS
      <4>2. i + 1 # j + 1
        BY <4>1, <2>5
      <4>3. QED  BY <4>2, <2>5 DEF EngineInv
    <3>3. \A i \in DOMAIN Tail(ids[w]) : Tail(ids[w])[i] # s
      BY <2>2, <2>5 DEF EngineInv
    <3>4. \A i \in DOMAIN Tail(ids[w]), j \in DOMAIN seen[w] :
            Tail(ids[w])[i] # seen[w][j].sid
      BY <2>5 DEF EngineInv
    <3>5. QED  BY <3>1, <3>2, <3>3, <3>4
  <2>8. \A j \in DOMAIN seen[w] : seen[w][j].sid # s
    BY <2>2 DEF EngineInv
  <2>9. /\ DOMAIN seen[w] \subseteq DOMAIN seen'[w]
        /\ \A i, j \in DOMAIN seen'[w] : i # j => seen'[w][i].sid # seen'[w][j].sid
        /\ \A i \in DOMAIN ids'[w], j \in DOMAIN seen'[w] :
             ids'[w][i] # seen'[w][j].sid
    <3>1. CASE seen' = [seen EXCEPT ![w] = Append(@, c)]
      <4>1. seen'[w] = Append(seen[w], c)
        BY <3>1 DEF EngineTypes
      <4>2. \A j \in DOMAIN seen'[w] :
              \/ j \in DOMAIN seen[w] /\ seen'[w][j] = seen[w][j]
              \/ j = Len(seen[w]) + 1 /\ seen'[w][j] = c
        BY <4>1, <2>6
      <4>3. c.sid = s
        OBVIOUS
      <4> HIDE DEF c, s
      <4>4. \A i, j \in DOMAIN seen'[w] : i # j => seen'[w][i].sid # seen'[w][j].sid
        BY <4>2, <4>3, <2>8 DEF EngineInv
      <4>5. \A i \in DOMAIN ids'[w], j \in DOMAIN seen'[w] :
              ids'[w][i] # seen'[w][j].sid
        BY <4>2, <4>3, <2>7
      <4>6. QED  BY <4>1, <4>4, <4>5, <2>6
    <3>2. CASE seen' = seen
      BY <3>2, <2>7 DEF EngineInv
    <3>3. QED  BY <2>1, <3>1, <3>2
  <2>10. EngineInv'
    <3>1. SUFFICES ASSUME NEW v \in Workers
                   PROVE  EngineInv!(v)'
      BY DEF EngineInv
    <3>2. CASE v = w
      <4>1. pc'[w] = "fetch" /\ pairs'[w] = pairs[w]
        BY <2>1
      <4>2. \A p \in pairs[w] :
              p[1] \in DOMAIN seen'[w] /\ p[2] \in DOMAIN seen'[w] /\ p[1] # p[2]
        BY <2>9 DEF EngineInv
      <4>3. QED  BY <4>1, <4>2, <2>7, <2>9, <3>2 DEF Holding
    <3>3. CASE v # w
      <4>1. ids'[v] = ids[v] /\ seen'[v] = seen[v]
        BY <2>1, <3>3 DEF EngineTypes
      <4>2. QED  BY <4>1, <2>1 DEF EngineInv
    <3>4. QED  BY <3>2, <3>3
  <2>11. QED  BY <2>4, <2>10
<1>3. CASE SweepStale(w) \/ BeginPairing(w)
  <2> DEFINE q == seen[w]
  <2>1. Resume(w, CompatiblePairs(q))
    BY <1>3 DEF SweepStale, BeginPairing, StartLoop
  <2>2. q \in Seq(Candidate)
    BY DEF EngineTypes
  <2>3. /\ CompatiblePairs(q) \in SUBSET (Nat \X Nat)
        /\ \A p \in CompatiblePairs(q) :
             p[1] \in DOMAIN q /\ p[2] \in DOMAIN q /\ p[1] # p[2]
    BY <2>2 DEF CompatiblePairs
  <2>4. QED  BY <2>1, <2>3, ResumeKeeps
<1>4. CASE ReservePair(w)
  <2>1. PICK p \in pairs[w] :
          \/ /\ cur' = [cur EXCEPT ![w] = p]
             /\ pc' = [pc EXCEPT ![w] = "check"]
             /\ UNCHANGED <<ids, seen, stale, pairs>>
          \/ Resume(w, pairs[w] \ {p})
    BY <1>4 DEF ReservePair
  <2>2. pairs[w] \in SUBSET (Nat \X Nat)
    BY DEF EngineTypes
  <2>3. CASE Resume(w, pairs[w] \ {p})
    BY <2>2, <2>3, ResumeKeeps DEF EngineInv
  <2>4. CASE /\ cur' = [cur EXCEPT ![w] = p]
             /\ pc' = [pc EXCEPT ![w] = "check"]
             /\ UNCHANGED <<ids, seen, stale, pairs>>
    <3>1. EngineTypes'
      BY <2>2, <2>4 DEF EngineTypes, Steps
    <3>2. EngineInv'
      BY <2>4 DEF EngineTypes, EngineInv
    <3>3. QED  BY <3>1, <3>2
  <2>5. QED  BY <2>1, <2>3, <2>4
<1>5. CASE \/ CheckReservation(w) \/ CommitRefused(w) \/ PublishMatch(w)
           \/ CountRoom(w) \/ MatchPairThrows(w) \/ CommitReplyLost(w)
  <2>1. pc[w] \in Holding /\ \E step \in Holding : Goto(w, step)
    BY <1>5 DEF CheckReservation, CommitRefused, PublishMatch, CountRoom,
         MatchPairThrows, CommitReplyLost, Holding
  <2>2. QED  BY <2>1, GotoKeeps
<1>6. CASE CommitMatch(w)
  <2>1. /\ pc[w] = "commit"
        /\ pc' = [pc EXCEPT ![w] = "publish"]
        /\ UNCHANGED <<ids, seen, stale, pairs, cur>>
    BY <1>6 DEF CommitMatch
  <2>2. EngineTypes'
    BY <2>1 DEF EngineTypes, Steps
  <2>3. EngineInv'
    BY <2>1 DEF EngineTypes, EngineInv, Holding
  <2>4. QED  BY <2>2, <2>3
<1>7. CASE ReleasePair(w)
  <2>1. Resume(w, Apart(cur[w], pairs[w]))
    BY <1>7 DEF ReleasePair
  <2>2. /\ Apart(cur[w], pairs[w]) \in SUBSET (Nat \X Nat)
        /\ Apart(cur[w], pairs[w]) \subseteq pairs[w]
    BY DEF Apart, EngineTypes
  <2>3. QED  BY <2>1, <2>2, ResumeKeeps DEF EngineInv
<1>8. CASE AbortCycle(w) \/ CycleLost(w)
  BY <1>8, EndCycleKeeps DEF AbortCycle, CycleLost
<1>9. CASE EngineStalls(w)
  BY <1>9 DEF EngineStalls, engineVars, EngineTypes, EngineInv
<1>10. QED
  BY <1>1, <1>2, <1>3, <1>4, <1>5, <1>6, <1>7, <1>8, <1>9
  DEF EngineStep, EngineFault

-----------------------------------------------------------------------------
(* Type correctness *)

RedisTypes ==
  /\ zset \in [Sessions -> Nat]
  /\ entry \in [Sessions -> Entry]
  /\ reservation \in [Sessions -> Workers \cup {Free, DeadToken}]
  /\ session \in [Sessions -> SessionHash]
  /\ rooms \in Seq(Room)
  /\ lastTicket \in Nat

(* The writes of the commit script are well typed. *)
LEMMA CommitKeepsTypes ==
  ASSUME IInv, NEW w \in Workers, pc[w] \in Holding, CommitWrites(w)
  PROVE  RedisTypes'
<1> DEFINE a == InitiatorOf(w)
           b == ResponderOf(w)
<1>1. /\ a \in Candidate /\ a.sid \in Sessions /\ a.ticket \in Nat
      /\ b \in Candidate /\ b.sid \in Sessions /\ b.ticket \in Nat
  BY ReservedPair
<1>2. /\ zset' = [zset EXCEPT ![a.sid] = 0, ![b.sid] = 0]
      /\ entry' = [entry EXCEPT ![a.sid] = NoEntry, ![b.sid] = NoEntry]
      /\ rooms' = Append(rooms, NewRoom(w))
      /\ session' = [session EXCEPT ![a.sid] = Matched(a.sid),
                                    ![b.sid] = Matched(b.sid)]
      /\ UNCHANGED <<reservation, lastTicket>>
  BY DEF CommitWrites, Consumed
<1>3. NewRoom(w) \in Room
  <2>1. entry[a.sid].ticket \in Nat /\ entry[b.sid].ticket \in Nat
    BY <1>1 DEF IInv, TypeOK, Entry
  <2>2. NewRoom(w) = [members |-> <<a.sid, b.sid>>,
                      seen    |-> <<a.ticket, b.ticket>>,
                      used    |-> <<entry[a.sid].ticket, entry[b.sid].ticket>>]
    BY DEF NewRoom
  <2> HIDE DEF a, b
  <2>3. QED  BY <1>1, <2>1, <2>2 DEF Room
<1>4. rooms \in Seq(Room) /\ Len(rooms) + 1 \in Nat
  BY DEF IInv, TypeOK
<1>5. Matched(a.sid) \in SessionHash /\ Matched(b.sid) \in SessionHash
  <2>1. ASSUME NEW s \in Sessions
        PROVE  Matched(s) \in SessionHash
    <3>1. session[s].hash \in {"none", "partial", "full"}
      BY DEF IInv, TypeOK, SessionHash
    <3>2. QED  BY <1>4, <3>1 DEF Matched, SessionHash
  <2>2. QED  BY <1>1, <2>1
<1>6. NoEntry \in Entry
  BY LevelsAssumption DEF NoEntry, Entry, Levels
<1> HIDE DEF a, b
<1>7. rooms' \in Seq(Room)
  BY <1>2, <1>3, <1>4
<1>8. session' \in [Sessions -> SessionHash]
  BY <1>1, <1>2, <1>5 DEF IInv, TypeOK
<1>9. entry' \in [Sessions -> Entry]
  BY <1>1, <1>2, <1>6 DEF IInv, TypeOK
<1>10. zset' \in [Sessions -> Nat]
  BY <1>1, <1>2 DEF IInv, TypeOK
<1>11. QED  BY <1>2, <1>7, <1>8, <1>9, <1>10 DEF IInv, TypeOK, RedisTypes

LEMMA ReleaseKeepsTypes ==
  ASSUME IInv, NEW w \in Workers, Release(w)
  PROVE  reservation' \in [Sessions -> Workers \cup {Free, DeadToken}]
BY DEF IInv, TypeOK, Release, Released

LEMMA EngineKeepsRedisTypes ==
  ASSUME IInv, NEW w \in Workers, EngineStep(w) \/ EngineFault(w)
  PROVE  RedisTypes'
<1>1. CASE CommitMatch(w) \/ CommitReplyLost(w)
  BY <1>1, CommitKeepsTypes DEF CommitMatch, CommitReplyLost, Holding
<1>2. CASE ReleasePair(w) \/ AbortCycle(w)
  BY <1>2, ReleaseKeepsTypes
  DEF ReleasePair, AbortCycle, IInv, TypeOK, RedisTypes
<1>3. CASE SweepStale(w)
  BY <1>3 DEF SweepStale, IInv, TypeOK, RedisTypes
<1>4. CASE ReservePair(w)
  <2>1. reservation' \in [Sessions -> Workers \cup {Free, DeadToken}]
    <3>1. reservation \in [Sessions -> Workers \cup {Free, DeadToken}]
      BY DEF IInv, TypeOK
    <3>2. \/ UNCHANGED reservation
          \/ \E a, b : reservation' = [reservation EXCEPT ![a] = w, ![b] = w]
      BY <1>4 DEF ReservePair
    <3>3. QED  BY <3>1, <3>2
  <2>2. QED  BY <1>4, <2>1 DEF ReservePair, IInv, TypeOK, RedisTypes
<1>5. CASE PublishMatch(w)
  BY <1>5 DEF PublishMatch, redisVars, IInv, TypeOK, RedisTypes
<1>6. CASE CountRoom(w)
  BY <1>6 DEF CountRoom, redisVars, IInv, TypeOK, RedisTypes
<1>7. CASE CycleLost(w)
  BY <1>7 DEF CycleLost, Orphaned, IInv, TypeOK, RedisTypes
<1>8. CASE EngineStalls(w)
  BY <1>8 DEF EngineStalls, IInv, TypeOK, RedisTypes
<1>9. CASE \/ Zrange(w) \/ Hgetall(w) \/ BeginPairing(w) \/ CheckReservation(w)
           \/ CommitRefused(w) \/ MatchPairThrows(w)
  BY <1>9
  DEF Zrange, Hgetall, BeginPairing, CheckReservation, CommitRefused,
      MatchPairThrows, IInv, TypeOK, RedisTypes, redisVars
<1>10. QED
  BY <1>1, <1>2, <1>3, <1>4, <1>5, <1>6, <1>7, <1>8, <1>9
  DEF EngineStep, EngineFault

(* Users, the clock and the cleanup timer leave the engines alone. *)
OtherStep ==
  \/ \E s \in Sessions : ClockStep(s) \/ SessionEnds(s)
  \/ \E s \in Sessions : Enqueue(s) \/ Dequeue(s)
  \/ CleanStaleEntries

LEMMA OthersKeepTypes ==
  ASSUME IInv, OtherStep
  PROVE  RedisTypes' /\ UNCHANGED engineVars /\ UNCHANGED faults
<1>1. ASSUME NEW s \in Sessions, Enqueue(s)
      PROVE  RedisTypes'
  <2>1. [ticket |-> lastTicket + 1, waited |-> 0] \in Entry
    BY LevelsAssumption DEF IInv, TypeOK, Entry, Levels
  <2>2. QED  BY <1>1, <2>1 DEF Enqueue, IInv, TypeOK, RedisTypes
<1>2. ASSUME NEW s \in Sessions, Dequeue(s) \/ EntryExpires(s)
      PROVE  RedisTypes'
  <2>1. NoEntry \in Entry
    BY LevelsAssumption DEF NoEntry, Entry, Levels
  <2>2. entry' = [entry EXCEPT ![s] = NoEntry]
    BY <1>2 DEF Dequeue, EntryExpires
  <2>3. entry' \in [Sessions -> Entry]
    BY <2>1, <2>2 DEF IInv, TypeOK
  <2>4. zset' \in [Sessions -> Nat]
    <3>1. zset \in [Sessions -> Nat]
      BY DEF IInv, TypeOK
    <3>2. UNCHANGED zset \/ zset' = [zset EXCEPT ![s] = 0]
      BY <1>2 DEF Dequeue, EntryExpires
    <3>3. QED  BY <3>1, <3>2
  <2>5. UNCHANGED <<reservation, session, rooms, lastTicket>>
    BY <1>2 DEF Dequeue, EntryExpires
  <2>6. QED  BY <2>3, <2>4, <2>5 DEF IInv, TypeOK, RedisTypes
<1>3. ASSUME NEW s \in Sessions, Waits(s)
      PROVE  RedisTypes'
  <2>1. [entry[s] EXCEPT !.waited = @ + 1] \in Entry
    <3>1. /\ entry[s] \in Entry
          /\ entry[s].waited < MaxLevel
          /\ MaxLevel \in Nat
      BY <1>3, LevelsAssumption DEF Waits, ThresholdLeft, IInv, TypeOK
    <3>2. entry[s].waited + 1 \in Levels
      BY <3>1 DEF Entry, Levels
    <3>3. QED  BY <3>1, <3>2 DEF Entry
  <2>2. entry' = [entry EXCEPT ![s] = [entry[s] EXCEPT !.waited = @ + 1]]
    BY <1>3 DEF Waits, IInv, TypeOK, Entry
  <2>3. QED  BY <1>3, <2>1, <2>2 DEF Waits, IInv, TypeOK, RedisTypes
<1>4. ASSUME NEW s \in Sessions, ReservationExpires(s)
      PROVE  RedisTypes'
  BY <1>4 DEF ReservationExpires, IInv, TypeOK, RedisTypes
<1>5. ASSUME NEW s \in Sessions, SessionEnds(s)
      PROVE  RedisTypes'
  BY <1>5 DEF SessionEnds, SessionHash, IInv, TypeOK, RedisTypes
<1>6. CASE CleanStaleEntries
  BY <1>6 DEF CleanStaleEntries, IInv, TypeOK, RedisTypes
<1>7. UNCHANGED engineVars /\ UNCHANGED faults
  BY DEF OtherStep, ClockStep, EntryExpires, Waits, ReservationExpires,
     SessionEnds, Enqueue, Dequeue, CleanStaleEntries
<1>8. QED
  BY <1>1, <1>2, <1>3, <1>4, <1>5, <1>6, <1>7 DEF OtherStep, ClockStep

LEMMA InitIInv == Init => IInv
<1> SUFFICES ASSUME Init PROVE IInv
  OBVIOUS
<1>1. NoEntry \in Entry
  BY LevelsAssumption DEF NoEntry, Entry, Levels
<1>2. TypeOK
  BY <1>1, BoundsAssumption DEF Init, TypeOK, Steps, SessionHash
<1>3. EngineInv
  BY DEF Init, EngineInv, Holding
<1>4. QED  BY <1>2, <1>3 DEF IInv

LEMMA NextIInv == IInv /\ [Next]_vars => IInv'
<1> SUFFICES ASSUME IInv, [Next]_vars PROVE IInv'
  OBVIOUS
<1>1. ASSUME NEW w \in Workers, EngineStep(w) \/ EngineFault(w)
      PROVE  IInv'
  <2>1. EngineTypes' /\ EngineInv' /\ RedisTypes'
    BY <1>1, EngineStepKeepsCycle, EngineKeepsRedisTypes
  <2>2. faults' \in Nat
    BY <1>1 DEF IInv, TypeOK, EngineStep, EngineFault, Zrange, Hgetall, SweepStale,
       BeginPairing, ReservePair, CheckReservation, CommitMatch, CommitRefused,
       PublishMatch, CountRoom, ReleasePair, AbortCycle, MatchPairThrows,
       CommitReplyLost, CycleLost, EngineStalls, Fault
  <2>3. QED  BY <2>1, <2>2 DEF IInv, TypeOK, EngineTypes, RedisTypes
<1>2. CASE OtherStep
  <2>1. RedisTypes' /\ UNCHANGED engineVars /\ UNCHANGED faults
    BY <1>2, OthersKeepTypes
  <2>2. EngineTypes' /\ EngineInv'
    BY <2>1 DEF IInv, TypeOK, EngineTypes, EngineInv, engineVars
  <2>3. QED
    BY <2>1, <2>2 DEF IInv, TypeOK, EngineTypes, RedisTypes
<1>3. CASE UNCHANGED vars
  BY <1>3
  DEF IInv, TypeOK, EngineInv, vars, redisVars, engineVars
<1>4. QED  BY <1>1, <1>2, <1>3 DEF Next, OtherStep

(* Every variable of the queue, of the commit script and of the engines    *)
(* stays in its type, whatever the number of sessions and engines.         *)
THEOREM TypeCorrect == Spec => []TypeOK
<1>1. Spec => []IInv
  BY InitIInv, NextIInv, PTL DEF Spec
<1>2. IInv => TypeOK
  BY DEF IInv
<1>3. QED  BY <1>1, <1>2, PTL

-----------------------------------------------------------------------------
(* Every enqueue is matched at most once *)

(* Tickets are never reused: a live ticket is held by one session, was     *)
(* handed out by the clock, and no room has used it up.                    *)
TicketInv ==
  /\ \A s \in Sessions : entry[s].ticket <= lastTicket
  /\ \A s, t \in Sessions :
       s # t /\ IsInQueue(s) => entry[s].ticket # entry[t].ticket
  /\ \A i \in DOMAIN rooms :
       /\ Tickets(rooms[i]) \subseteq 1..lastTicket
       /\ \A s \in Sessions : entry[s].ticket \notin Tickets(rooms[i])

(* The steps that hand out, withdraw or keep tickets, and make no room *)
TicketsKept ==
  /\ UNCHANGED <<rooms, lastTicket>>
  /\ \A s \in Sessions :
       entry'[s].ticket = entry[s].ticket \/ entry'[s].ticket = 0

(* The two ways: every ticket stays, or one session gives its ticket up. *)
TicketsSame ==
  /\ UNCHANGED <<rooms, lastTicket>>
  /\ \A s \in Sessions : entry'[s].ticket = entry[s].ticket

Withdrawn(s) ==
  /\ UNCHANGED <<rooms, lastTicket>>
  /\ entry' = [entry EXCEPT ![s] = NoEntry]

LEMMA SameOrWithdrawn ==
  ASSUME IInv, TicketsSame \/ \E s \in Sessions : Withdrawn(s)
  PROVE  TicketsKept
<1>1. CASE TicketsSame
  BY <1>1 DEF TicketsSame, TicketsKept
<1>2. ASSUME NEW s \in Sessions, Withdrawn(s)
      PROVE  TicketsKept
  <2>1. entry \in [Sessions -> Entry]
    BY DEF IInv, TypeOK
  <2>2. \A t \in Sessions :
          entry'[t].ticket = entry[t].ticket \/ entry'[t].ticket = 0
    BY <1>2, <2>1 DEF Withdrawn, NoEntry
  <2>3. QED  BY <1>2, <2>2 DEF Withdrawn, TicketsKept
<1>3. QED  BY <1>1, <1>2

LEMMA KeptTickets ==
  ASSUME IInv, TicketInv, TicketMatchedOnce, TicketsKept
  PROVE  TicketInv' /\ TicketMatchedOnce'
<1>1. \A s \in Sessions : entry[s].ticket \in Nat
  BY DEF IInv, TypeOK, Entry
<1>2. TicketInv'
  <2>1. \A s \in Sessions : entry'[s].ticket <= lastTicket
    <3>1. lastTicket \in Nat
      BY DEF IInv, TypeOK
    <3>2. QED  BY <1>1, <3>1 DEF TicketsKept, TicketInv
  <2>2. \A s, t \in Sessions :
          s # t /\ entry'[s].ticket # 0 => entry'[s].ticket # entry'[t].ticket
    BY DEF TicketsKept, TicketInv, IsInQueue
  <2>3. ASSUME NEW i \in DOMAIN rooms, NEW s \in Sessions
        PROVE  entry'[s].ticket \notin Tickets(rooms[i])
    <3>1. 0 \notin Tickets(rooms[i]) /\ entry[s].ticket \notin Tickets(rooms[i])
      BY DEF TicketInv, IInv, TypeOK
    <3>2. QED  BY <3>1 DEF TicketsKept
  <2>4. QED
    BY <2>1, <2>2, <2>3 DEF TicketsKept, TicketInv, IsInQueue, Tickets
<1>3. TicketMatchedOnce'
  BY DEF TicketsKept, TicketMatchedOnce, Tickets
<1>4. QED  BY <1>2, <1>3

LEMMA EnqueueTickets ==
  ASSUME IInv, TicketInv, TicketMatchedOnce, NEW s \in Sessions, Enqueue(s)
  PROVE  TicketInv' /\ TicketMatchedOnce'
<1>1. /\ entry' = [entry EXCEPT ![s] = [ticket |-> lastTicket + 1, waited |-> 0]]
      /\ lastTicket' = lastTicket + 1
      /\ rooms' = rooms
      /\ lastTicket \in Nat
      /\ entry \in [Sessions -> Entry]
  BY DEF Enqueue, IInv, TypeOK
<1>2. \A t \in Sessions : entry[t].ticket \in Nat /\ entry[t].ticket <= lastTicket
  BY <1>1 DEF TicketInv, Entry
<1>3. /\ entry'[s].ticket = lastTicket + 1
      /\ \A t \in Sessions \ {s} : entry'[t] = entry[t]
  BY <1>1
<1>4. \A t, u \in Sessions :
        t # u /\ entry'[t].ticket # 0 => entry'[t].ticket # entry'[u].ticket
  <2>1. SUFFICES ASSUME NEW t \in Sessions, NEW u \in Sessions, t # u,
                        entry'[t].ticket # 0
                 PROVE  entry'[t].ticket # entry'[u].ticket
    OBVIOUS
  <2>2. CASE t = s
    BY <1>1, <1>2, <1>3, <2>1, <2>2
  <2>3. CASE u = s
    BY <1>1, <1>2, <1>3, <2>1, <2>3
  <2>4. CASE t # s /\ u # s
    BY <1>3, <2>1, <2>4 DEF TicketInv, IsInQueue
  <2>5. QED  BY <2>2, <2>3, <2>4
<1>5. ASSUME NEW i \in DOMAIN rooms
      PROVE  /\ Tickets(rooms[i]) \subseteq 1..(lastTicket + 1)
             /\ \A t \in Sessions : entry'[t].ticket \notin Tickets(rooms[i])
  <2>1. /\ Tickets(rooms[i]) \subseteq 1..lastTicket
        /\ \A t \in Sessions : entry[t].ticket \notin Tickets(rooms[i])
    BY DEF TicketInv
  <2>2. lastTicket + 1 \notin Tickets(rooms[i])
    BY <1>1, <2>1
  <2>3. QED  BY <1>1, <1>3, <2>1, <2>2
<1>6. TicketInv'
  BY <1>1, <1>2, <1>3, <1>4, <1>5 DEF TicketInv, IsInQueue, Tickets
<1>7. TicketMatchedOnce'
  BY <1>1 DEF TicketMatchedOnce, Tickets
<1>8. QED  BY <1>6, <1>7

LEMMA CommitTickets ==
  ASSUME IInv, TicketInv, TicketMatchedOnce, NEW w \in Workers,
         pc[w] = "commit", CommitAllowed(w), CommitWrites(w)
  PROVE  TicketInv' /\ TicketMatchedOnce'
<1> DEFINE a == InitiatorOf(w).sid
           b == ResponderOf(w).sid
           n == Len(rooms) + 1
           new == {entry[a].ticket, entry[b].ticket}
<1>1. a \in Sessions /\ b \in Sessions /\ a # b
  BY ReservedPair DEF Holding
<1>2. /\ entry' = [entry EXCEPT ![a] = NoEntry, ![b] = NoEntry]
      /\ rooms' = Append(rooms, NewRoom(w))
      /\ lastTicket' = lastTicket
  BY DEF CommitWrites, Consumed
<1>3. entry[a].ticket # 0 /\ entry[b].ticket # 0
  BY DEF CommitAllowed, IsInQueue
<1>4. /\ rooms \in Seq(Room) /\ lastTicket \in Nat
      /\ entry \in [Sessions -> Entry]
      /\ \A s \in Sessions : entry[s].ticket \in Nat
  BY DEF IInv, TypeOK, Entry
<1>5. /\ \A s \in Sessions \ {a, b} : entry'[s] = entry[s]
      /\ entry'[a].ticket = 0 /\ entry'[b].ticket = 0
  BY <1>1, <1>2, <1>4 DEF NoEntry
<1>6. Tickets(NewRoom(w)) = new
  BY DEF Tickets, NewRoom
<1>7. NewRoom(w) \in Room
  <2>1. /\ InitiatorOf(w).ticket \in Nat /\ ResponderOf(w).ticket \in Nat
        /\ NewRoom(w) = [members |-> <<a, b>>,
                         seen    |-> <<InitiatorOf(w).ticket, ResponderOf(w).ticket>>,
                         used    |-> <<entry[a].ticket, entry[b].ticket>>]
    BY ReservedPair DEF NewRoom, Holding
  <2> HIDE DEF a, b
  <2>2. QED  BY <1>1, <1>4, <2>1 DEF Room
<1> HIDE DEF a, b
<1>8. /\ DOMAIN rooms = 1..Len(rooms) /\ Len(rooms) \in Nat
      /\ DOMAIN rooms' = 1..n
      /\ \A i \in DOMAIN rooms : rooms'[i] = rooms[i]
      /\ rooms'[n] = NewRoom(w)
  BY <1>2, <1>4, <1>7
<1>9. new \subseteq 1..lastTicket
  BY <1>1, <1>3, <1>4 DEF TicketInv
<1>10. \A i \in DOMAIN rooms : Tickets(rooms[i]) \cap new = {}
  BY <1>1 DEF TicketInv
<1>11. \A s \in Sessions : entry'[s].ticket \notin new
  <2>1. ASSUME NEW s \in Sessions \ {a, b}
        PROVE  entry[s].ticket \notin new
    BY <1>1, <1>3, <2>1 DEF TicketInv, IsInQueue
  <2>2. QED  BY <1>3, <1>5, <2>1
<1> HIDE DEF new
<1>12. \A i \in DOMAIN rooms' :
         \/ i \in DOMAIN rooms /\ Tickets(rooms'[i]) = Tickets(rooms[i])
         \/ i = n /\ Tickets(rooms'[i]) = new
  BY <1>6, <1>8
<1>13. TicketMatchedOnce'
  <2>1. \A i, j \in DOMAIN rooms' :
          i # j => Tickets(rooms'[i]) \cap Tickets(rooms'[j]) = {}
    BY <1>10, <1>12 DEF TicketMatchedOnce
  <2>2. QED  BY <2>1 DEF TicketMatchedOnce, Tickets
<1>14. \A s \in Sessions : entry'[s].ticket = entry[s].ticket \/ entry'[s].ticket = 0
  BY <1>5
<1>15. ASSUME NEW i \in DOMAIN rooms'
       PROVE  /\ Tickets(rooms'[i]) \subseteq 1..lastTicket
              /\ \A s \in Sessions : entry'[s].ticket \notin Tickets(rooms'[i])
  <2>1. CASE i \in DOMAIN rooms /\ Tickets(rooms'[i]) = Tickets(rooms[i])
    <3>1. 0 \notin Tickets(rooms[i])
      BY <2>1, <1>4 DEF TicketInv
    <3>2. QED  BY <2>1, <3>1, <1>14 DEF TicketInv
  <2>2. CASE i = n /\ Tickets(rooms'[i]) = new
    BY <2>2, <1>9, <1>11
  <2>3. QED  BY <2>1, <2>2, <1>12
<1>16. \A s, t \in Sessions :
         s # t /\ entry'[s].ticket # 0 => entry'[s].ticket # entry'[t].ticket
  BY <1>14 DEF TicketInv, IsInQueue
<1>17. \A s \in Sessions : entry'[s].ticket <= lastTicket
  BY <1>4, <1>14 DEF TicketInv
<1>18. TicketInv'
  BY <1>2, <1>15, <1>16, <1>17 DEF TicketInv, IsInQueue, Tickets
<1>19. QED  BY <1>13, <1>18

(* Every other step leaves the tickets as they are or withdraws one. *)
LEMMA OtherStepsKeepTickets ==
  ASSUME IInv, Next
  PROVE  \/ \E s \in Sessions : Enqueue(s)
         \/ \E w \in Workers :
              pc[w] = "commit" /\ CommitAllowed(w) /\ CommitWrites(w)
         \/ \E s \in Sessions : Withdrawn(s)
         \/ TicketsSame
<1>1. ASSUME NEW w \in Workers, EngineStep(w) \/ EngineFault(w),
             ~(CommitMatch(w) \/ CommitReplyLost(w))
      PROVE  TicketsSame
  <2>1. UNCHANGED <<entry, rooms, lastTicket>>
    BY <1>1
    DEF EngineStep, EngineFault, Zrange, Hgetall, SweepStale, BeginPairing,
        ReservePair, CheckReservation, CommitRefused, PublishMatch, CountRoom,
        ReleasePair, AbortCycle, MatchPairThrows, CycleLost,
        EngineStalls, redisVars
  <2>2. QED  BY <2>1 DEF TicketsSame
<1>2. ASSUME NEW s \in Sessions, Dequeue(s) \/ EntryExpires(s)
      PROVE  Withdrawn(s)
  BY <1>2 DEF Dequeue, EntryExpires, Withdrawn
<1>3. ASSUME NEW s \in Sessions,
             Waits(s) \/ ReservationExpires(s) \/ SessionEnds(s)
      PROVE  TicketsSame
  <2>1. UNCHANGED <<rooms, lastTicket>>
    BY <1>3 DEF Waits, ReservationExpires, SessionEnds
  <2>2. CASE entry' = [entry EXCEPT ![s].waited = @ + 1]
    <3>1. entry \in [Sessions -> Entry]
      BY DEF IInv, TypeOK
    <3>2. entry'[s].ticket = entry[s].ticket
      BY <2>2, <3>1 DEF Entry
    <3>3. QED  BY <2>1, <2>2, <3>1, <3>2 DEF TicketsSame
  <2>3. CASE entry' = entry
    BY <2>1, <2>3 DEF TicketsSame
  <2>4. QED
    BY <1>3, <2>2, <2>3 DEF Waits, ReservationExpires, SessionEnds
<1>4. ASSUME CleanStaleEntries
      PROVE  TicketsSame
  BY <1>4 DEF CleanStaleEntries, TicketsSame
<1>5. QED
  BY <1>1, <1>2, <1>3, <1>4 DEF Next, ClockStep, CommitMatch, CommitReplyLost

(* However many engines race over however many sessions, crash, stall or   *)
(* lose replies, no enqueue ends up in two rooms.                          *)
THEOREM MatchedOnce == Spec => []TicketMatchedOnce
<1>1. Init => TicketInv /\ TicketMatchedOnce
  BY DEF Init, TicketInv, TicketMatchedOnce, NoEntry, IsInQueue
<1>2. IInv /\ TicketInv /\ TicketMatchedOnce /\ [Next]_vars
        => TicketInv' /\ TicketMatchedOnce'
  <2> SUFFICES ASSUME IInv, TicketInv, TicketMatchedOnce, [Next]_vars
               PROVE  TicketInv' /\ TicketMatchedOnce'
    OBVIOUS
  <2>1. CASE Next
    BY <2>1, OtherStepsKeepTickets, EnqueueTickets, CommitTickets, KeptTickets,
       SameOrWithdrawn
  <2>2. CASE UNCHANGED vars
    BY <2>2, KeptTickets DEF vars, redisVars, TicketsKept
  <2>3. QED  BY <2>1, <2>2
<1>3. QED  BY <1>1, <1>2, InitIInv, NextIInv, PTL DEF Spec

-----------------------------------------------------------------------------
(* The queue implements the abstract Pairing *)

LEMMA CommitPairs ==
  ASSUME IInv, NEW w \in Workers,
         pc[w] = "commit", CommitAllowed(w), CommitWrites(w)
  PROVE  \E s, t \in Sessions : Promise!Pair(s, t)
<1>1. PICK a \in Sessions, b \in Sessions :
        a = InitiatorOf(w).sid /\ b = ResponderOf(w).sid /\ a # b
  BY ReservedPair DEF Holding
<1> DEFINE new == {entry[a].ticket, entry[b].ticket}
<1>2. /\ entry' = [entry EXCEPT ![a] = NoEntry, ![b] = NoEntry]
      /\ rooms' = Append(rooms, NewRoom(w))
      /\ lastTicket' = lastTicket
      /\ rooms \in Seq(Room)
      /\ entry \in [Sessions -> Entry]
  BY <1>1 DEF CommitWrites, Consumed, IInv, TypeOK
<1>3. entry[a].ticket # 0 /\ entry[b].ticket # 0
  BY <1>1 DEF CommitAllowed, IsInQueue
<1>4. Tickets(NewRoom(w)) = new
  BY <1>1 DEF Tickets, NewRoom
<1> HIDE DEF new
<1>5. {Tickets(rooms'[i]) : i \in DOMAIN rooms'}
        = {Tickets(rooms[i]) : i \in DOMAIN rooms} \cup {new}
  <2>1. /\ DOMAIN rooms = 1..Len(rooms) /\ Len(rooms) \in Nat
        /\ DOMAIN rooms' = 1..(Len(rooms) + 1)
        /\ \A i \in DOMAIN rooms : rooms'[i] = rooms[i]
        /\ rooms'[Len(rooms) + 1] = NewRoom(w)
    BY <1>2
  <2>2. \A i \in DOMAIN rooms' :
          \/ i \in DOMAIN rooms /\ Tickets(rooms'[i]) = Tickets(rooms[i])
          \/ Tickets(rooms'[i]) = new
    BY <1>4, <2>1
  <2>3. \A i \in DOMAIN rooms :
          i \in DOMAIN rooms' /\ Tickets(rooms'[i]) = Tickets(rooms[i])
    BY <2>1
  <2>4. \E i \in DOMAIN rooms' : Tickets(rooms'[i]) = new
    BY <1>4, <2>1
  <2>5. QED  BY <2>2, <2>3, <2>4
<1>6. [s \in Sessions |-> entry'[s].ticket]
        = [[s \in Sessions |-> entry[s].ticket] EXCEPT ![a] = 0, ![b] = 0]
  BY <1>1, <1>2 DEF NoEntry
<1>7. Promise!Pair(a, b)
  <2>1. {Tickets(rooms'[i]) : i \in DOMAIN rooms'}
          = {Tickets(rooms[i]) : i \in DOMAIN rooms}
              \cup {{entry[a].ticket, entry[b].ticket}}
    BY <1>5 DEF new
  <2>2. QED  BY <1>1, <1>2, <1>3, <1>6, <2>1 DEF Promise!Pair, Tickets
<1>8. QED  BY <1>7

LEMMA EnqueueEnters ==
  ASSUME IInv, NEW s \in Sessions, Enqueue(s)
  PROVE  Promise!Enter(s)
<1>1. /\ entry' = [entry EXCEPT ![s] = [ticket |-> lastTicket + 1, waited |-> 0]]
      /\ lastTicket' = lastTicket + 1
      /\ rooms' = rooms
      /\ entry[s].ticket = 0
      /\ entry \in [Sessions -> Entry]
  BY DEF Enqueue, MayEnqueue, IsInQueue, IInv, TypeOK
<1>2. [t \in Sessions |-> entry'[t].ticket]
        = [[t \in Sessions |-> entry[t].ticket] EXCEPT ![s] = lastTicket + 1]
  BY <1>1
<1>3. QED  BY <1>1, <1>2 DEF Promise!Enter, Tickets

LEMMA WithdrawnWithdraws ==
  ASSUME IInv, NEW s \in Sessions, Withdrawn(s)
  PROVE  Promise!Withdraw(s) \/ UNCHANGED Promise!vars
<1>1. [t \in Sessions |-> entry'[t].ticket]
        = [[t \in Sessions |-> entry[t].ticket] EXCEPT ![s] = 0]
  BY DEF Withdrawn, NoEntry, IInv, TypeOK
<1>2. CASE entry[s].ticket = 0
  <2>1. [t \in Sessions |-> entry'[t].ticket] = [t \in Sessions |-> entry[t].ticket]
    BY <1>1, <1>2
  <2>2. QED  BY <2>1 DEF Withdrawn, Promise!vars, Tickets
<1>3. CASE entry[s].ticket # 0
  BY <1>1, <1>3 DEF Withdrawn, Promise!Withdraw, Tickets
<1>4. QED  BY <1>2, <1>3

(* Whatever the engines, the scripts, the clock and the faults do, it is   *)
(* one of the three things that the abstract queue may do to tickets, or   *)
(* it does nothing to them.                                                *)
THEOREM ImplementsPairing == Spec => KeepsPromise
<1>1. Init => Promise!Init
  BY DEF Init, Promise!Init, NoEntry
<1>2. IInv /\ [Next]_vars => [Promise!Next]_(Promise!vars)
  <2> SUFFICES ASSUME IInv, [Next]_vars
               PROVE  [Promise!Next]_(Promise!vars)
    OBVIOUS
  <2>1. CASE \E s \in Sessions : Enqueue(s)
    BY <2>1, EnqueueEnters DEF Promise!Next
  <2>2. CASE \E w \in Workers :
               pc[w] = "commit" /\ CommitAllowed(w) /\ CommitWrites(w)
    BY <2>2, CommitPairs DEF Promise!Next
  <2>3. CASE \E s \in Sessions : Withdrawn(s)
    BY <2>3, WithdrawnWithdraws DEF Promise!Next
  <2>4. CASE TicketsSame
    BY <2>4 DEF TicketsSame, Promise!vars, Tickets
  <2>5. CASE UNCHANGED vars
    BY <2>5 DEF vars, redisVars, Promise!vars, Tickets
  <2>6. QED  BY <2>1, <2>2, <2>3, <2>4, <2>5, OtherStepsKeepTickets
<1>3. QED
  BY <1>1, <1>2, InitIInv, NextIInv, PTL DEF Spec, KeepsPromise, Promise!Spec

-----------------------------------------------------------------------------
(* The reservations *)

(* A token is taken from its owner by the owner alone, or by time.         *)
LEMMA TokensKept ==
  ASSUME IInv, [Next]_vars, NEW s \in Sessions, NEW w \in Workers,
         reservation[s] = w, reservation'[s] # w
  PROVE  pc' = pc \/ pc'[w] # pc[w]
<1>1. w # Free /\ w # DeadToken
  BY TokensAssumption
<1>2. /\ reservation \in [Sessions -> Workers \cup {Free, DeadToken}]
      /\ pc \in [Workers -> Steps]
  BY DEF IInv, TypeOK
<1>3. ASSUME NEW v \in Workers, ReservePair(v)
      PROVE  FALSE
  <2>1. CASE UNCHANGED reservation
    BY <2>1
  <2>2. CASE \E p \in pairs[v] :
               /\ Reservable(seen[v][p[1]].sid, seen[v][p[2]].sid)
               /\ reservation' = [reservation EXCEPT ![seen[v][p[1]].sid] = v,
                                                     ![seen[v][p[2]].sid] = v]
    BY <1>1, <1>2, <2>2 DEF Reservable
  <2>3. QED  BY <1>3, <2>1, <2>2 DEF ReservePair
<1>4. ASSUME NEW v \in Workers, ReleasePair(v) \/ AbortCycle(v)
      PROVE  pc'[w] # pc[w]
  <2>1. v = w
    BY <1>2, <1>4 DEF ReleasePair, AbortCycle, Release, Released
  <2>2. CASE AbortCycle(v)
    BY <1>2, <2>1, <2>2 DEF AbortCycle, EndCycle
  <2>3. CASE ReleasePair(v)
    BY <1>2, <2>1, <2>3 DEF ReleasePair, Resume, EndCycle
  <2>4. QED  BY <1>4, <2>2, <2>3
<1>5. ASSUME NEW v \in Workers, CycleLost(v)
      PROVE  pc'[w] # pc[w]
  <2>1. v = w
    BY <1>5 DEF CycleLost, Orphaned
  <2>2. QED  BY <1>2, <1>5, <2>1 DEF CycleLost, EndCycle
<1>6. ASSUME NEW v \in Workers, EngineStalls(v)
      PROVE  pc' = pc
  BY <1>6 DEF EngineStalls, engineVars
<1>7. ASSUME NEW t \in Sessions,
             ClockStep(t) \/ SessionEnds(t) \/ Enqueue(t) \/ Dequeue(t)
      PROVE  pc' = pc
  BY <1>7
  DEF ClockStep, EntryExpires, Waits, ReservationExpires, SessionEnds, Enqueue,
      Dequeue, engineVars
<1>8. ASSUME NEW v \in Workers,
             \/ Zrange(v) \/ Hgetall(v) \/ SweepStale(v) \/ BeginPairing(v)
             \/ CheckReservation(v) \/ CommitMatch(v) \/ CommitRefused(v)
             \/ PublishMatch(v) \/ CountRoom(v) \/ MatchPairThrows(v)
             \/ CommitReplyLost(v)
      PROVE  FALSE
  BY <1>8
  DEF Zrange, Hgetall, SweepStale, BeginPairing, CheckReservation, CommitMatch,
      CommitRefused, PublishMatch, CountRoom, MatchPairThrows,
      CommitReplyLost, CommitWrites, redisVars
<1>9. CASE CleanStaleEntries \/ UNCHANGED vars
  BY <1>9 DEF CleanStaleEntries, vars, engineVars
<1>10. QED
  BY <1>3, <1>4, <1>5, <1>6, <1>7, <1>8, <1>9 DEF Next, EngineStep, EngineFault

(* No engine's step takes another engine's reservation away, whatever the   *)
(* TTLs did in the meantime.                                                *)
THEOREM ReservationsSafe == Spec => ReservationSafe
<1>1. IInv /\ [Next]_vars =>
        [\A s \in Sessions, w \in Workers :
           reservation[s] = w /\ reservation'[s] # w => pc' = pc \/ pc'[w] # pc[w]]_vars
  BY TokensKept
<1>2. QED  BY <1>1, InitIInv, NextIInv, PTL DEF Spec, ReservationSafe

(* A room comes from the commit script alone, and it has compared the token *)
(* of the engine that ran it for both sessions.                             *)
LEMMA RoomsNeedTokens ==
  ASSUME IInv, [Next]_vars, NEW w \in Workers, Len(rooms') > Len(rooms), pc'[w] # pc[w]
  PROVE  /\ rooms' = Append(rooms, NewRoom(w))
         /\ HoldsBoth(w)
         /\ pc[w] = "commit"
<1>1. rooms' # rooms
  BY DEF IInv, TypeOK
<1>2. pc \in [Workers -> Steps]
  BY DEF IInv, TypeOK
<1>3. PICK v \in Workers : CommitMatch(v) \/ CommitReplyLost(v)
  <2>1. ASSUME NEW v \in Workers, EngineStep(v) \/ EngineFault(v),
               ~(CommitMatch(v) \/ CommitReplyLost(v))
        PROVE  rooms' = rooms
    BY <2>1
    DEF EngineStep, EngineFault, Zrange, Hgetall, SweepStale, BeginPairing,
        ReservePair, CheckReservation, CommitRefused, PublishMatch, CountRoom,
        ReleasePair, AbortCycle, MatchPairThrows, CycleLost,
        EngineStalls, redisVars
  <2>2. ASSUME NEW t \in Sessions,
               ClockStep(t) \/ SessionEnds(t) \/ Enqueue(t) \/ Dequeue(t)
        PROVE  rooms' = rooms
    BY <2>2
    DEF ClockStep, EntryExpires, Waits, ReservationExpires, SessionEnds, Enqueue,
        Dequeue
  <2>3. CASE CleanStaleEntries \/ UNCHANGED vars
    BY <2>3, <1>1 DEF CleanStaleEntries, vars, redisVars
  <2>4. QED  BY <1>1, <2>1, <2>2, <2>3 DEF Next
<1>4. /\ pc[v] = "commit" /\ CommitAllowed(v) /\ CommitWrites(v)
      /\ \E step \in Steps : pc' = [pc EXCEPT ![v] = step]
  BY <1>3 DEF CommitMatch, CommitReplyLost, Goto, Steps
<1>5. v = w
  BY <1>2, <1>4
<1>6. QED  BY <1>4, <1>5 DEF CommitAllowed, CommitWrites

(* The comment of matchPair, for any number of engines: a pair A:B and a    *)
(* pair B:C that are reserved by two of them are never both made.           *)
THEOREM NeverOverlaps == Spec => NoOverlap
<1>1. IInv /\ [Next]_vars =>
        [\A w \in Workers :
           Len(rooms') > Len(rooms) /\ pc'[w] # pc[w] =>
             \A s \in Sessions, v \in Workers \ {w} :
               reservation[s] = v =>
                 s \notin {rooms'[Len(rooms')].members[1],
                           rooms'[Len(rooms')].members[2]}]_vars
  <2> SUFFICES ASSUME IInv, [Next]_vars, NEW w \in Workers,
                      Len(rooms') > Len(rooms), pc'[w] # pc[w],
                      NEW s \in Sessions, NEW v \in Workers \ {w}, reservation[s] = v
               PROVE  s \notin {rooms'[Len(rooms')].members[1],
                                rooms'[Len(rooms')].members[2]}
    OBVIOUS
  <2>1. /\ rooms' = Append(rooms, NewRoom(w))
        /\ HoldsBoth(w)
        /\ rooms \in Seq(Room)
    BY RoomsNeedTokens DEF IInv, TypeOK
  <2>2. /\ NewRoom(w).members[1] = InitiatorOf(w).sid
        /\ NewRoom(w).members[2] = ResponderOf(w).sid
    BY DEF NewRoom
  <2>3. rooms'[Len(rooms')] = NewRoom(w)
    BY <2>1
  <2>4. s # InitiatorOf(w).sid /\ s # ResponderOf(w).sid
    BY <2>1 DEF HoldsBoth
  <2>5. QED  BY <2>2, <2>3, <2>4
<1>2. QED  BY <1>1, InitIInv, NextIInv, PTL DEF Spec, NoOverlap
-----------------------------------------------------------------------------
(* The two halves of an entry *)

(* The scripts write the sorted set and the entry together, and the cleanup *)
(* script looks again: only getCandidates removes what it looked up before. *)
THEOREM DetachedBySweepAlone == Spec => DetachedOnlyBySweep
<1>1. IInv /\ [Next]_vars =>
        [\A s \in Sessions :
           s \in Members /\ IsInQueue(s) /\ s \notin Members' /\ IsInQueue(s)' =>
             \E w \in Workers : pc[w] = "fetch" /\ s \in stale[w]]_vars
  <2> SUFFICES ASSUME IInv, [Next]_vars, NEW s \in Sessions,
                      s \in Members, s \notin Members', IsInQueue(s)'
               PROVE  \E w \in Workers : pc[w] = "fetch" /\ s \in stale[w]
    OBVIOUS
  <2>1. /\ zset \in [Sessions -> Nat]
        /\ entry \in [Sessions -> Entry]
        /\ lastTicket \in Nat
        /\ zset[s] # 0 /\ zset'[s] = 0 /\ entry'[s].ticket # 0
    BY DEF IInv, TypeOK, Members, IsInQueue
  <2>2. ASSUME NEW t \in Sessions, Enqueue(t) \/ Dequeue(t)
        PROVE  FALSE
    <3>1. CASE Enqueue(t)
      BY <2>1, <3>1 DEF Enqueue
    <3>2. CASE Dequeue(t)
      <4>1. zset' = [zset EXCEPT ![t] = 0] /\ entry' = [entry EXCEPT ![t] = NoEntry]
        BY <3>2 DEF Dequeue
      <4>2. t = s
        BY <2>1, <4>1
      <4>3. QED  BY <2>1, <4>1, <4>2 DEF NoEntry
    <3>3. QED  BY <2>2, <3>1, <3>2
  <2>3. ASSUME NEW w \in Workers, CommitAllowed(w), CommitWrites(w), pc[w] = "commit"
        PROVE  FALSE
    <3> DEFINE a == InitiatorOf(w).sid
               b == ResponderOf(w).sid
    <3>1. a \in Sessions /\ b \in Sessions
      BY <2>3, ReservedPair DEF Holding
    <3>2. /\ zset' = [zset EXCEPT ![a] = 0, ![b] = 0]
          /\ entry' = [entry EXCEPT ![a] = NoEntry, ![b] = NoEntry]
      BY <2>3 DEF CommitWrites, Consumed
    <3> HIDE DEF a, b
    <3>3. s = a \/ s = b
      BY <2>1, <3>1, <3>2
    <3>4. QED  BY <2>1, <3>1, <3>2, <3>3 DEF NoEntry
  <2>4. ASSUME CleanStaleEntries
        PROVE  FALSE
    <3>1. entry'[s] = entry[s] /\ entry[s].ticket = 0
      BY <2>1, <2>4 DEF CleanStaleEntries, Sweepable, IsInQueue
    <3>2. QED  BY <2>1, <3>1
  <2>5. ASSUME NEW w \in Workers, SweepStale(w)
        PROVE  \E v \in Workers : pc[v] = "fetch" /\ s \in stale[v]
    BY <2>1, <2>5 DEF SweepStale, Dropped
  <2>6. CASE UNCHANGED zset
    BY <2>1, <2>6
  <2>7. ASSUME NEW w \in Workers, EngineStep(w) \/ EngineFault(w),
               ~SweepStale(w), ~CommitMatch(w), ~CommitReplyLost(w)
        PROVE  UNCHANGED zset
    BY <2>7
    DEF EngineStep, EngineFault, Zrange, Hgetall, BeginPairing, ReservePair,
        CheckReservation, CommitRefused, PublishMatch, CountRoom, ReleasePair,
        AbortCycle, MatchPairThrows, CycleLost, EngineStalls, redisVars
  <2>8. ASSUME NEW t \in Sessions, ClockStep(t) \/ SessionEnds(t)
        PROVE  UNCHANGED zset
    BY <2>8 DEF ClockStep, EntryExpires, Waits, ReservationExpires, SessionEnds
  <2>9. CASE UNCHANGED vars
    BY <2>6, <2>9 DEF vars, redisVars
  <2>10. QED
    BY <2>2, <2>3, <2>4, <2>5, <2>6, <2>7, <2>8, <2>9
    DEF Next, CommitMatch, CommitReplyLost
<1>2. QED  BY <1>1, InitIInv, NextIInv, PTL DEF Spec, DetachedOnlyBySweep
==============================================================================
