------------------------------- MODULE Moderation -------------------------------
(***************************************************************************)
(* Reports, automatic bans and the counters that limit requests: the       *)
(* handlers of controllers/report.controller.ts, session.controller.ts and *)
(* sockets/report.handler.ts over services/moderation.service.ts,          *)
(* services/session.service.ts and middlewares/.                           *)
(*                                                                         *)
(* Grain: one command to Redis or MongoDB.  A request is a job; any of its *)
(* commands may fail, and then the handler gives up where it stands.  Time *)
(* is a tick; what an EXPIRE or a Date sets lasts a number of ticks.  IP   *)
(* hash and fingerprint hash belong to a user.                             *)
(***************************************************************************)
EXTENDS Naturals, FiniteSets

CONSTANTS
  Users, Sessions,
  Owner,          \* whose session each id becomes
  Reportable,     \* bound: what reports are about; a POST may name anything
  Connecting,     \* bound: the sessions that open a socket
  Perishable,     \* bound: the sessions that end
  InitMax, ReportMax,                   \* RATE_LIMIT_*_MAX
  InitWindow, ReportWindow,             \* RATE_LIMIT_*_WINDOW, in ticks
  BanThreshold, CountWindow, BanTime,   \* AUTO_BAN_*
  MaxJobs,        \* bound: requests being served at once
  MaxReports,     \* bound: requests to report
  MaxTopics,      \* bound: what they are about at once
  MaxBans,        \* bound: automatic bans in force at once
  MaxFaults       \* bound: commands that fail

ASSUME OwnerAssumption ==
  Owner \in [Sessions -> Users] /\ Connecting \cup Perishable \subseteq Sessions

(* A reporter may spend the last report of one window and all of the next  *)
(* within one count window: the defaults 5 and 10 keep this below the      *)
(* threshold.                                                              *)
ASSUME LimitsAssumption ==
  /\ {InitMax, ReportMax, BanThreshold, MaxJobs, MaxReports, MaxTopics, MaxBans, MaxFaults}
       \subseteq Nat
  /\ {InitWindow, ReportWindow, CountWindow, BanTime} \subseteq Nat \ {0}
  /\ 2 * ReportMax - 1 < BanThreshold /\ CountWindow + 1 < ReportWindow

VARIABLES
  state,   \* each session id: new, live (its hash is in Redis) or gone
  conn,    \* the sessions with an authenticated socket
  jobs,    \* requests being served
  count,   \* Redis: the counters, [n, ttl]; without a ttl a key stays
  bans,    \* MongoDB: ban documents
  cached,  \* Redis: ban keys, by their ttl
  voters,  \* history: who was counted in the current window
  made,    \* requests to report so far
  faults

vars == <<state, conn, jobs, count, bans, cached, voters, made, faults>>

Ip(u) == <<"ip", u>>
Fp(u) == <<"fingerprint", u>>
Unknown    == {<<"ip", "unknown">>, <<"fingerprint", "unknown">>}
PreSession == <<"session", "pre-session">>
Id(s)      == <<"session", s>>

Targets ==
  {Id(s) : s \in Sessions} \cup {Ip(u) : u \in Users} \cup {Fp(u) : u \in Users}
    \cup Unknown \cup {PreSession} \cup Reportable

Counters ==
  ({"init"} \X Users) \cup ({"report"} \X Sessions) \cup ({"reported"} \X Reportable)

Limit(c) ==
  CASE c[1] = "init" -> InitMax [] c[1] = "report" -> ReportMax [] OTHER -> BanThreshold
Window(c) ==
  CASE c[1] = "init" -> InitWindow [] c[1] = "report" -> ReportWindow [] OTHER -> CountWindow

Nobody == <<>>

(* kind: init, http (a report by POST) or socket (a report by event)       *)
Job == [kind : {"init", "http", "socket"}, from : Users \cup Sessions,
        about : Reportable \cup {Nobody},
        at : {"limit", "window", "save", "count", "countWindow", "ban", "cache",
              "check", "checkIp", "checkFp", "find", "keep", "open"},
        by : SUBSET Sessions, aged : BOOLEAN]

TypeOK ==
  /\ state \in [Sessions -> {"new", "live", "gone"}]
  /\ conn \subseteq {s \in Sessions : state[s] # "new"}
  /\ jobs \subseteq Job
  /\ DOMAIN count = Counters
  /\ \A c \in Counters : count[c].n \in Nat /\ count[c].ttl \in 0..Window(c)
  /\ bans \subseteq [ban : 1..MaxBans, target : Targets, ttl : 1..BanTime, by : SUBSET Sessions]
  /\ DOMAIN cached = Targets /\ \A t \in Targets : cached[t] \in Nat
  /\ voters \in [Reportable -> SUBSET Sessions]
  /\ made \in 0..MaxReports /\ faults \in 0..MaxFaults

Init ==
  /\ state = [s \in Sessions |-> "new"]
  /\ conn = {} /\ jobs = {} /\ bans = {} /\ made = 0 /\ faults = 0
  /\ count = [c \in Counters |-> [n |-> 0, ttl |-> 0]]
  /\ cached = [t \in Targets |-> 0]
  /\ voters = [s \in Reportable |-> {}]

-----------------------------------------------------------------------------
(* Counters *)

Incr(c) == count' = [count EXCEPT ![c].n = @ + 1]

(* EXPIRE finds the key: without a ttl it cannot have gone. *)
Expire(c) == count' = [count EXCEPT ![c].ttl = Window(c)]

(* The Lua script: INCR, and EXPIRE if that made it 1, in one step. *)
AtomicRateLimit(c) ==
  count' = [count EXCEPT ![c] = [n |-> @.n + 1, ttl |-> IF @.n = 0 THEN Window(c) ELSE @.ttl]]

Allowed(c) == count[c].n < Limit(c)    \* this request is the next

Second(n) == n = 2                     \* mutant: the window opens one late

First(n) == n = 1

(* Bound: requests past the limit are refused alike, one is enough. *)
Interesting(c) == count[c].n <= Limit(c)

LimiterOf(j) == <<"report", j.from>>

(* The job goes on as next, or ends.  Bound: requests that are alike in    *)
(* everything take turns, so that no two of them become one.               *)
Becomes(j, next) ==
  /\ next \cap jobs = {}
  /\ jobs' = (jobs \ {j}) \cup next

Goes(j, at) == Becomes(j, {[j EXCEPT !.at = at]})
Bans(j, v)  == Becomes(j, {[j EXCEPT !.at = "ban", !.by = v]})
Ends(j)     == Becomes(j, {})

(* The first request sends an EXPIRE too; above the limit it is refused.   *)
Limited(j) ==
  LET c == LimiterOf(j)
      n == count[c].n + 1
  IN /\ j.at = "limit" /\ Incr(c)
     /\ IF First(n) THEN Goes(j, "window") ELSE IF Allowed(c) THEN Goes(j, "save") ELSE Ends(j)
     /\ UNCHANGED <<state, conn, bans, cached, voters, made, faults>>

WindowOpens(j) ==
  /\ j.at = "window" /\ Expire(LimiterOf(j))
  /\ IF ReportMax > 0 THEN Goes(j, "save") ELSE Ends(j)
  /\ UNCHANGED <<state, conn, bans, cached, voters, made, faults>>

-----------------------------------------------------------------------------
(* Sessions *)

(* isBanned of the session hash: false when the hash is created, and       *)
(* nothing writes it afterwards.                                           *)
Flagged(s) == FALSE

TokenSigned(s) == ~Flagged(s)          \* mutant: the hash is not looked up

(* authMiddleware and socketAuthMiddleware: validateToken finds the hash *)
Admitted(s) == state[s] = "live" /\ ~Flagged(s)

Serves(j) ==
  /\ Cardinality(jobs) < MaxJobs
  /\ j \notin jobs /\ jobs' = jobs \cup {j}

(* POST /session/init, as far as its limiter *)
InitSession(u) ==
  LET c == <<"init", u>>
  IN /\ Interesting(c) /\ AtomicRateLimit(c)
     /\ IF Allowed(c)
        THEN Serves([kind |-> "init", from |-> u, about |-> Nobody, at |-> "check",
                     by |-> {}, aged |-> FALSE])
        ELSE UNCHANGED jobs
     /\ UNCHANGED <<state, conn, bans, cached, voters, made, faults>>

(* What isBanned asks for; the first is the same word for everybody. *)
Asked(j) ==
  CASE j.at = "check" -> PreSession [] j.at = "checkIp" -> Ip(j.from) [] OTHER -> Fp(j.from)

After(at) ==
  CASE at = "check" -> "checkIp" [] at = "checkIp" -> "checkFp" [] OTHER -> "find"

(* The fast path: a key at a time *)
CheckKey(j) ==
  /\ j.at \in {"check", "checkIp", "checkFp"}
  /\ IF cached[Asked(j)] > 0 THEN Ends(j) ELSE Goes(j, After(j.at))
  /\ UNCHANGED <<state, conn, count, bans, cached, voters, made, faults>>

(* The slow path *)
FindBan(j) ==
  LET banned == \E b \in bans : b.target \in {PreSession, Ip(j.from), Fp(j.from)}
  IN /\ j.at = "find"
     /\ Goes(j, IF banned THEN "keep" ELSE "open")
     /\ UNCHANGED <<state, conn, count, bans, cached, voters, made, faults>>

(* What it has found is kept under the session id, for five minutes. *)
KeepBan(j) ==
  /\ j.at = "keep"
  /\ cached' = [cached EXCEPT ![PreSession] = 1]
  /\ Ends(j)
  /\ UNCHANGED <<state, conn, count, bans, voters, made, faults>>

CreateSession(j) ==
  /\ j.at = "open"
  /\ \E s \in Sessions :
       /\ state[s] = "new" /\ Owner[s] = j.from
       /\ state' = [state EXCEPT ![s] = "live"]
  /\ Ends(j)
  /\ UNCHANGED <<conn, count, bans, cached, voters, made, faults>>

Authenticate(s) ==
  /\ Admitted(s)
  /\ s \in Connecting \ conn /\ conn' = conn \cup {s}
  /\ UNCHANGED <<state, jobs, count, bans, cached, voters, made, faults>>

(* The socket breaks, or the server drops it. *)
CloseSocket(s) ==
  /\ s \in conn /\ conn' = conn \ {s}
  /\ UNCHANGED <<state, jobs, count, bans, cached, voters, made, faults>>

(* The grace period of its last socket ends, or its TTL does: whether a    *)
(* new one has come meanwhile was asked several awaits ago.                *)
DestroySession(s) ==
  /\ s \in Perishable /\ state[s] = "live"
  /\ state' = [state EXCEPT ![s] = "gone"]
  /\ UNCHANGED <<conn, jobs, count, bans, cached, voters, made, faults>>

-----------------------------------------------------------------------------
(* Reports, which are counted in two commands *)

(* What is being reported or counted *)
Topics ==
  {r \in Reportable : count[<<"reported", r>>].n > 0 \/ \E j \in jobs : j.about = r}

(* A POST names what it likes, a socket its session's peer. *)
SubmitReport(kind, s, about) ==
  /\ Admitted(s) /\ Cardinality(Topics \cup {about}) <= MaxTopics
  /\ kind = "socket" => s \in conn /\ about \in {Id(x) : x \in Sessions}
  /\ LET j == [kind |-> kind, from |-> s, about |-> about, at |-> "limit",
               by |-> {}, aged |-> FALSE]
     IN Interesting(LimiterOf(j)) /\ Serves(j)
  /\ made < MaxReports /\ made' = made + 1
  /\ UNCHANGED <<state, conn, count, bans, cached, voters, faults>>

AnyReport(j) == TRUE                   \* mutant: a socket's report is saved too

(* Report.create: reporterIpHash is required, and nothing puts the IP hash *)
(* into the data of a socket.                                              *)
Valid(j) == j.kind = "http"

(* It refuses what is not valid, and what a POST says in the wrong words.  *)
SaveReport(j) ==
  /\ j.at = "save"
  /\ (Valid(j) /\ Goes(j, "count")) \/ Ends(j)
  /\ UNCHANGED <<state, conn, count, bans, cached, voters, made, faults>>

(* mutant: the threshold is off by one *)
BelowThreshold(n) == n + 1 >= BanThreshold

Excessive(n) == n >= BanThreshold

(* The ban follows from the answer to INCR, after the EXPIRE if there is one. *)
CountReport(j) ==
  LET c == <<"reported", j.about>>
      n == count[c].n + 1
      v == voters[j.about] \cup {j.from}
  IN /\ j.at = "count" /\ Interesting(c) /\ Incr(c)
     /\ voters' = [voters EXCEPT ![j.about] = v]
     /\ IF First(n) THEN Goes(j, "countWindow")
        ELSE IF Excessive(n) THEN Bans(j, v)
        ELSE Ends(j)
     /\ UNCHANGED <<state, conn, bans, cached, made, faults>>

CountWindowOpens(j) ==
  /\ j.at = "countWindow" /\ Expire(<<"reported", j.about>>)
  /\ IF Excessive(1) THEN Bans(j, {j.from}) ELSE Ends(j)
  /\ UNCHANGED <<state, conn, bans, cached, voters, made, faults>>

(* What a report names of the reported: the POST knows the id only; a      *)
(* socket knows its peer's hashes, and hashes the fingerprint's once more. *)
Named(j) ==
  IF j.kind = "http" THEN {j.about} \cup Unknown
  ELSE {j.about, <<"fingerprint", "unknown">>}
         \cup {Ip(Owner[s]) : s \in {x \in Sessions : Id(x) = j.about}}

(* Ban.create: a document for each *)
SavedFor(j, targets) ==
  \E n \in 1..MaxBans :
    /\ \A b \in bans : b.ban # n
    /\ bans' = bans \cup {[ban |-> n, target |-> t, ttl |-> BanTime, by |-> j.by] : t \in targets}

SaveBan(j) ==
  /\ j.at = "ban"
  /\ SavedFor(j, Named(j))
  /\ Goes(j, "cache")
  /\ UNCHANGED <<state, conn, count, cached, voters, made, faults>>

CachedOn(keys) == cached' = [t \in Targets |-> IF t \in keys THEN BanTime ELSE cached[t]]

(* Mutant: the ban of the session is not cached. *)
CachedForUser(j) == Named(j) \ {j.about}

Keys(j) == Named(j)

CacheBan(j) ==
  /\ j.at = "cache"
  /\ CachedOn(Keys(j))
  /\ Ends(j)
  /\ UNCHANGED <<state, conn, count, bans, voters, made, faults>>

-----------------------------------------------------------------------------
(* Failures, administration, time *)

(* The handler throws.  The three documents of a ban are sent together,    *)
(* and so are its three SETEX: some of them may have come through.         *)
CommandFails(j) ==
  /\ faults < MaxFaults /\ faults' = faults + 1
  /\ Ends(j)
  /\ \/ j.at = "ban" /\ (\E targets \in SUBSET Named(j) : SavedFor(j, targets)) /\ UNCHANGED cached
     \/ j.at = "cache" /\ (\E keys \in SUBSET Named(j) : CachedOn(keys)) /\ UNCHANGED bans
     \/ UNCHANGED <<bans, cached>>
  /\ UNCHANGED <<state, conn, count, voters, made>>

(* MongoDB is disconnected: the slow path is not taken. *)
SkipDocuments(j) ==
  /\ faults < MaxFaults /\ faults' = faults + 1
  /\ j.at = "find" /\ Goes(j, "open")
  /\ UNCHANGED <<state, conn, count, bans, cached, voters, made>>

(* DELETE /admin/bans/:id: one document.  An administrator's ban_temp or   *)
(* ban_perm (actionReport) marks the report only: it passes no target.     *)
LiftBan(b) ==
  /\ bans' = bans \ {b}
  /\ UNCHANGED <<state, conn, jobs, count, cached, voters, made, faults>>

Older(ttl) == IF ttl = 0 THEN 0 ELSE ttl - 1

(* A request is served within a tick: it sees one pass at most. *)
Tick ==
  /\ \A j \in jobs : ~j.aged
  /\ jobs' = {[j EXCEPT !.aged = TRUE] : j \in jobs}
  /\ count' = [c \in Counters |->
                 IF count[c].ttl = 1 THEN [n |-> 0, ttl |-> 0]
                 ELSE [count[c] EXCEPT !.ttl = Older(@)]]
  /\ voters' = [s \in Reportable |->
                  IF count[<<"reported", s>>].ttl = 1 THEN {} ELSE voters[s]]
  /\ bans' = {[b EXCEPT !.ttl = @ - 1] : b \in {x \in bans : x.ttl > 1}}
  /\ cached' = [t \in Targets |-> Older(cached[t])]
  /\ UNCHANGED <<state, conn, made, faults>>

Step(j) ==
  \/ Limited(j) \/ WindowOpens(j)
  \/ CheckKey(j) \/ FindBan(j) \/ KeepBan(j) \/ CreateSession(j)
  \/ SaveReport(j)
  \/ CountReport(j) \/ CountWindowOpens(j) \/ SaveBan(j) \/ CacheBan(j)

Next ==
  \/ \E u \in Users : InitSession(u)
  \/ \E s \in Sessions :
       \/ Authenticate(s) \/ CloseSocket(s) \/ DestroySession(s)
       \/ \E kind \in {"http", "socket"}, r \in Reportable : SubmitReport(kind, s, r)
  \/ \E j \in jobs : Step(j) \/ CommandFails(j) \/ SkipDocuments(j)
  \/ \E b \in bans : LiftBan(b)
  \/ Tick

Spec == Init /\ [][Next]_vars

-----------------------------------------------------------------------------
(* Properties *)

(* j is about to give c its window. *)
Owes(j, c) ==
  \/ j.at = "window" /\ LimiterOf(j) = c
  \/ j.at = "countWindow" /\ <<"reported", j.about>> = c

(* A counter that has no window and is about to get none: it would refuse  *)
(* its session for ever.                                                   *)
Endless(c) ==
  /\ count[c].n > 0 /\ count[c].ttl = 0
  /\ \A j \in jobs : ~Owes(j, c)

(* However requests of the same session interleave between INCR and        *)
(* EXPIRE, only a failed command leaves such a counter, one each; the Lua  *)
(* script of the session limiter never does.                               *)
OnlyFaultsMakeEndless ==
  /\ Cardinality({c \in Counters : Endless(c)}) <= faults
  /\ \A u \in Users : ~Endless(<<"init", u>>)

(* One session's reports never ban another: with the limits above a ban    *)
(* takes the reports of two, even around the end of the reporter's window, *)
(* unless the count of the reported has lost its window.                   *)
LoneReporterCannotBan ==
  \A b \in bans : Cardinality(b.by) > 1 \/ faults > 0

(* The ban keys in Redis see every ban of the documents, for at least as   *)
(* long, but for the moment between the two writes and for failures: the   *)
(* fast path of isBanned would do alone.  A key that the slow path itself  *)
(* writes is another matter: it may shorten the one it overtakes.          *)
FastPathSeesBans ==
  \A b \in bans :
    \/ b.target = PreSession
    \/ cached[b.target] >= b.ttl
    \/ \E j \in jobs : j.at = "cache" /\ b.target \in Named(j)
    \/ faults > 0

(* What a report names beside the word unknown, by its very name *)
Reported == Reportable \cup Unknown

(* A ban names what was reported and nothing behind it: the address and    *)
(* the fingerprint of a reported session are known to the reports that     *)
(* stop at Report.create only.  So /session/init refuses a user, and keeps *)
(* under the word for everybody what its slow path finds, only if what it  *)
(* asks for was itself reported.                                           *)
BansNameTheReported ==
  /\ \A b \in bans : b.target \in Reported
  /\ \A t \in Targets : cached[t] > 0 =>
       \/ t \in Reported
       \/ t = PreSession /\ \E u \in Users : {Ip(u), Fp(u)} \cap Reported # {}

(* session.service.ts says of validateToken that it returns null for a     *)
(* banned session: then no banned session gets a socket.                   *)
BannedIsTurnedAway ==
  [][\A s \in conn' \ conn : \A b \in bans : b.target # Id(s)]_vars

==============================================================================
