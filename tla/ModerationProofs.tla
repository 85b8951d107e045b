--------------------------- MODULE ModerationProofs ---------------------------
(***************************************************************************)
(* Proofs about Moderation, for any number of users, sessions, requests at *)
(* once, reports, bans and failures, and any limits that satisfy           *)
(* LimitsAssumption.                                                       *)
(***************************************************************************)
EXTENDS Moderation, FiniteSetTheorems, TLAPS

(* Where a request for a session may be *)
Opening == {"check", "checkIp", "checkFp", "find", "keep", "open"}

(* Every job is of the kind that its place asks for. *)
Fits(j) ==
  IF j.at \in Opening THEN j.from \in Users
  ELSE j.from \in Sessions /\ j.about \in Reportable

JobsInv == jobs \subseteq Job /\ IsFiniteSet(jobs) /\ \A j \in jobs : Fits(j)

StoreInv ==
  /\ JobsInv
  /\ count \in [Counters -> [n : Nat, ttl : Nat]]
  /\ cached \in [Targets -> Nat]
  /\ \A s \in Reportable : IsFiniteSet(voters[s])

(* A counter has a window only once it counts; who owes it one owes it     *)
(* alone.                                                                  *)
WindowInv ==
  /\ \A c \in Counters : count[c].n = 0 => count[c].ttl = 0
  /\ \A u \in Users : count[<<"init", u>>].n > 0 => count[<<"init", u>>].ttl > 0
  /\ \A j \in jobs, c \in Counters : Owes(j, c) => count[c].n > 0 /\ count[c].ttl = 0
  /\ \A i, j \in jobs, c \in Counters : Owes(i, c) /\ Owes(j, c) => i = j

EndlessOnes == {c \in Counters : Endless(c)}

EndlessInv == IsFiniteSet(EndlessOnes) /\ Cardinality(EndlessOnes) <= faults

(* Who bans has been told by two.  Nothing is counted past a limiter that  *)
(* lets nothing by.                                                        *)
ByTwo == faults = 0 =>
  /\ \A j \in jobs : j.at = "ban" => Cardinality(j.by) > 1
  /\ \A j \in jobs : j.at = "countWindow" => ReportMax > 0
  /\ \A b \in bans : Cardinality(b.by) > 1

-----------------------------------------------------------------------------
(* How often one session x can be counted against s before s's count       *)
(* expires *)

Limiter(x) == count[<<"report", x>>]
Votes(s)   == count[<<"reported", s>>]

(* The reports that x may have made in the current window of its limiter   *)
Spent(x) == IF Limiter(x).n <= ReportMax THEN Limiter(x).n ELSE ReportMax

(* The ticks that window is at least still to last *)
LimitLasts(x) == IF Limiter(x).ttl > 0 THEN Limiter(x).ttl ELSE ReportWindow

(* Reports of x about s, past the limiter and not yet counted *)
Passing == IF ReportMax > 0 THEN {"window", "save", "count"} ELSE {"save", "count"}

Passed(x, s) == {j \in jobs : j.from = x /\ j.about = s /\ j.at \in Passing}

Young(js) == {j \in js : ~j.aged}

(* The ticks that what is counted and passed is at most still to last *)
Awaited(x, s) == IF Votes(s).n > 0 THEN {j \in jobs : Owes(j, <<"reported", s>>)} ELSE Passed(x, s)

VotesLast(x, s) ==
  IF Votes(s).ttl > 0 THEN Votes(s).ttl
  ELSE IF Young(Awaited(x, s)) # {} THEN CountWindow + 1 ELSE CountWindow

Pending(x, s) == Cardinality(Passed(x, s))
Recent(x, s)  == Cardinality(Young(Passed(x, s)))
Total(x, s)   == Votes(s).n + Pending(x, s)

(* p passed reports, y of them young, in a window with n spent and r ticks *)
(* to go: those of a full window include its first.                        *)
Ledger(p, y, n, r) ==
  /\ p = 0 \/ p < n + ReportMax
  /\ n > 0 /\ p >= n => r >= ReportWindow - 1
  /\ n > 0 /\ y >= n => r >= ReportWindow

(* m reports counted or passed, l ticks to go: those of a full window go   *)
(* no later than the window.                                               *)
Tally(m, n, r, l) ==
  /\ m = 0 \/ m < n + ReportMax
  /\ n > 0 /\ m >= n => l <= r

VoteInv(x, s) ==
  /\ Ledger(Pending(x, s), Recent(x, s), Spent(x), LimitLasts(x))
  /\ voters[s] \subseteq {x} => Tally(Total(x, s), Spent(x), LimitLasts(x), VotesLast(x, s))

VotesInv == faults = 0 => \A x \in Sessions, s \in Reportable : VoteInv(x, s)

(* Only a report by POST gets past Report.create, and all it knows of the  *)
(* reported is the id; what isBanned is about to keep it has found.        *)
Late == {"count", "countWindow", "ban", "cache"}

Entitled(j) == {PreSession, Ip(j.from), Fp(j.from)} \cap Reported # {}

ReportedInv ==
  /\ \A j \in jobs : j.at \in Late => j.kind = "http"
  /\ \A j \in jobs : j.at = "keep" => Entitled(j)
  /\ BansNameTheReported

IInv ==
  /\ TypeOK /\ StoreInv /\ WindowInv /\ EndlessInv /\ FastPathSeesBans /\ ByTwo /\ VotesInv
  /\ ReportedInv

-----------------------------------------------------------------------------
(* Counters and jobs *)

Places == {"limit", "window", "save", "count", "countWindow", "ban", "cache"} \cup Opening

(* isBanned, a command at a time *)
Inquires(j) == CheckKey(j) \/ FindBan(j) \/ KeepBan(j) \/ SkipDocuments(j)

LEMMA Inquiry ==
  ASSUME NEW j, Inquires(j)
  PROVE  /\ j.at \in Opening
         /\ Ends(j) \/ \E at \in Opening : Goes(j, at)
         /\ KeepBan(j) \/ UNCHANGED cached
         /\ UNCHANGED <<state, conn, count, bans, voters, made>>
         /\ UNCHANGED faults \/ (faults < MaxFaults /\ faults' = faults + 1)
BY DEF Inquires, CheckKey, After, FindBan, KeepBan, SkipDocuments, Opening

LEMMA CounterNames ==
  /\ \A u \in Users : <<"init", u>> \in Counters /\ Window(<<"init", u>>) = InitWindow
  /\ \A x \in Sessions : <<"report", x>> \in Counters /\ Window(<<"report", x>>) = ReportWindow
  /\ \A s \in Reportable :
       <<"reported", s>> \in Counters /\ Window(<<"reported", s>>) = CountWindow
  /\ \A c \in Counters : Window(c) \in Nat \ {0}
BY LimitsAssumption DEF Counters, Window

(* What becomes of a job that goes on *)
LEMMA GoesOn ==
  ASSUME NEW j \in Job, NEW at \in Places, Goes(j, at)
  PROVE  \E k \in Job :
           /\ jobs' = (jobs \ {j}) \cup {k} /\ k \notin jobs
           /\ k.at = at /\ k.kind = j.kind /\ k.from = j.from /\ k.about = j.about
           /\ k.by = j.by /\ k.aged = j.aged
<1> DEFINE k == [j EXCEPT !.at = at]
<1>1. k \in Job /\ k.at = at /\ k.kind = j.kind /\ k.from = j.from /\ k.about = j.about
      /\ k.by = j.by /\ k.aged = j.aged
  BY DEF Job, Places, Opening
<1>2. jobs' = (jobs \ {j}) \cup {k} /\ k \notin jobs
  BY DEF Goes, Becomes
<1> QED
  BY <1>1, <1>2

(* ... or to a ban *)
LEMMA GoesToBan ==
  ASSUME NEW j \in Job, NEW v \in SUBSET Sessions,
         Bans(j, v)
  PROVE  \E k \in Job :
           /\ jobs' = (jobs \ {j}) \cup {k} /\ k \notin jobs
           /\ k.at = "ban" /\ k.kind = j.kind /\ k.from = j.from /\ k.about = j.about
           /\ k.by = v /\ k.aged = j.aged
<1> DEFINE k == [j EXCEPT !.at = "ban", !.by = v]
<1>1. k \in Job /\ k.at = "ban" /\ k.kind = j.kind /\ k.from = j.from /\ k.about = j.about
      /\ k.by = v /\ k.aged = j.aged
  BY DEF Job
<1>2. jobs' = (jobs \ {j}) \cup {k} /\ k \notin jobs
  BY DEF Bans, Becomes
<1> QED
  BY <1>1, <1>2

LEMMA Aging ==
  ASSUME NEW j \in Job
  PROVE  LET k == [j EXCEPT !.aged = TRUE]
         IN k \in Job /\ k.at = j.at /\ k.kind = j.kind /\ k.from = j.from
            /\ k.about = j.about /\ k.by = j.by /\ k.aged
BY DEF Job

LEMMA OneForOne ==
  ASSUME JobsInv, NEW j \in jobs, NEW k \in Job, jobs' = (jobs \ {j}) \cup {k}, Fits(k)
  PROVE  JobsInv'
<1>1. IsFiniteSet(jobs')
  BY FS_RemoveElement, FS_AddElement DEF JobsInv
<1>2. jobs' \subseteq Job /\ \A i \in jobs' : Fits(i)
  BY DEF JobsInv
<1> QED
  BY <1>1, <1>2 DEF JobsInv

LEMMA OneLess ==
  ASSUME JobsInv, NEW j \in jobs, Ends(j)
  PROVE  JobsInv' /\ jobs' = jobs \ {j}
<1>1. jobs' = jobs \ {j}
  BY DEF Ends, Becomes
<1>2. IsFiniteSet(jobs')
  BY <1>1, FS_RemoveElement DEF JobsInv
<1> QED
  BY <1>1, <1>2 DEF JobsInv

LEMMA OneMore ==
  ASSUME JobsInv, NEW k \in Job, Serves(k), Fits(k)
  PROVE  JobsInv' /\ jobs' = jobs \cup {k}
<1>1. jobs' = jobs \cup {k}
  BY DEF Serves
<1>2. IsFiniteSet(jobs')
  BY <1>1, FS_AddElement DEF JobsInv
<1> QED
  BY <1>1, <1>2 DEF JobsInv

(* A job that is served *)
LEMMA OneStep ==
  ASSUME JobsInv, NEW j \in jobs, NEW at \in Places, Goes(j, at),
         at \in Opening <=> j.at \in Opening
  PROVE  JobsInv'
<1>1. PICK k \in Job : jobs' = (jobs \ {j}) \cup {k} /\ k.at = at /\ k.from = j.from
                       /\ k.about = j.about
  BY GoesOn DEF JobsInv
<1>2. Fits(k)
  BY <1>1 DEF Fits, Opening, JobsInv
<1> QED
  BY <1>1, <1>2, OneForOne

LEMMA NextJobs ==
  ASSUME TypeOK, StoreInv, [Next]_vars
  PROVE  JobsInv'
<1> USE DEF StoreInv
<1>1. ASSUME NEW u \in Users, InitSession(u) PROVE JobsInv'
  <2> DEFINE k == [kind |-> "init", from |-> u, about |-> Nobody, at |-> "check",
                   by |-> {}, aged |-> FALSE]
  <2>1. k \in Job /\ Fits(k)
    BY DEF Job, Fits, Opening
  <2>2. Serves(k) \/ UNCHANGED jobs
    BY <1>1 DEF InitSession
  <2> QED
    BY <2>1, <2>2, OneMore DEF JobsInv
<1>2. ASSUME NEW s \in Sessions, NEW kind \in {"http", "socket"}, NEW r \in Reportable,
             SubmitReport(kind, s, r)
      PROVE  JobsInv'
  <2> DEFINE k == [kind |-> kind, from |-> s, about |-> r, at |-> "limit",
                   by |-> {}, aged |-> FALSE]
  <2>1. k \in Job /\ Fits(k)
    BY DEF Job, Fits, Opening
  <2>2. Serves(k)
    BY <1>2 DEF SubmitReport
  <2> QED
    BY <2>1, <2>2, OneMore
<1>3. ASSUME NEW j \in jobs, Step(j) \/ SkipDocuments(j) PROVE JobsInv'
  <2>1. CASE Limited(j)
    BY <2>1, OneStep, OneLess DEF Limited, Places, Opening
  <2>2. CASE WindowOpens(j)
    BY <2>2, OneStep, OneLess DEF WindowOpens, Places, Opening
  <2>3. CASE Inquires(j)
    BY <2>3, Inquiry, OneStep, OneLess DEF Places, Opening
  <2>4. CASE CreateSession(j)
    BY <2>4, OneLess DEF CreateSession
  <2>5. CASE SaveReport(j)
    BY <2>5, OneStep, OneLess DEF SaveReport, Places, Opening
  <2>6. CASE CountReport(j) \/ CountWindowOpens(j)
    <3>1. j \in Job /\ Fits(j) /\ j.at \in {"count", "countWindow"}
      BY <2>6 DEF JobsInv, CountReport, CountWindowOpens
    <3>2. j.from \in Sessions /\ j.about \in Reportable
      BY <3>1 DEF Fits, Opening
    <3>3. ASSUME NEW v \in SUBSET Sessions, Bans(j, v)
          PROVE  JobsInv'
      <4>1. PICK k \in Job : jobs' = (jobs \ {j}) \cup {k} /\ k.at = "ban" /\ k.from = j.from
                             /\ k.about = j.about
        BY <3>1, <3>3, GoesToBan
      <4>2. Fits(k)
        BY <3>2, <4>1 DEF Fits, Opening
      <4> QED
        BY <4>1, <4>2, OneForOne
    <3>4. voters[j.about] \cup {j.from} \in SUBSET Sessions /\ {j.from} \in SUBSET Sessions
      BY <3>2 DEF TypeOK
    <3>5. CASE Goes(j, "countWindow")
      BY <3>1, <3>5, OneStep DEF Places, Opening
    <3>6. CASE Ends(j)
      BY <3>6, OneLess
    <3> QED
      BY <2>6, <3>3, <3>4, <3>5, <3>6 DEF CountReport, CountWindowOpens
  <2>7. CASE SaveBan(j)
    BY <2>7, OneStep DEF SaveBan, Places, Opening
  <2>8. CASE CacheBan(j)
    BY <2>8, OneLess DEF CacheBan
  <2> QED
    BY <1>3, <2>1, <2>2, <2>3, <2>4, <2>5, <2>6, <2>7, <2>8 DEF Step, Inquires
<1>4. ASSUME NEW j \in jobs, CommandFails(j) PROVE JobsInv'
  BY <1>4, OneLess DEF CommandFails
<1>5. CASE Tick
  <2>1. jobs' = {[j EXCEPT !.aged = TRUE] : j \in jobs}
    BY <1>5 DEF Tick
  <2>2. IsFiniteSet(jobs')
    <3> DEFINE f == [j \in jobs |-> [j EXCEPT !.aged = TRUE]]
    <3>1. f \in Surjection(jobs, jobs')
      BY <2>1 DEF Surjection
    <3> QED
      BY <3>1, FS_Surjection DEF JobsInv
  <2>3. \A j \in jobs' : j \in Job /\ Fits(j)
    <3> SUFFICES ASSUME NEW k \in jobs' PROVE k \in Job /\ Fits(k)
      OBVIOUS
    <3>1. PICK j \in jobs : k = [j EXCEPT !.aged = TRUE]
      BY <2>1
    <3>2. j \in Job /\ Fits(j)
      BY DEF JobsInv
    <3>3. k \in Job /\ k.at = j.at /\ k.from = j.from /\ k.about = j.about
      BY <3>1, <3>2, Aging
    <3> QED
      BY <3>2, <3>3 DEF Fits, Opening
  <2> QED
    BY <2>2, <2>3 DEF JobsInv
<1>6. CASE UNCHANGED jobs
  BY <1>6 DEF JobsInv
<1>7. ASSUME NEW s \in Sessions, Authenticate(s) \/ CloseSocket(s) \/ DestroySession(s)
      PROVE  UNCHANGED jobs
  BY <1>7 DEF Authenticate, CloseSocket, DestroySession
<1>8. ASSUME NEW b \in bans, LiftBan(b) PROVE UNCHANGED jobs
  BY <1>8 DEF LiftBan
<1> QED
  BY <1>1, <1>2, <1>3, <1>4, <1>5, <1>6, <1>7, <1>8 DEF Next, vars

-----------------------------------------------------------------------------
(* What the commands do to the counters *)

CountType == count \in [Counters -> [n : Nat, ttl : Nat]]

LEMMA IncrCounts ==
  ASSUME CountType, NEW c \in Counters, Incr(c)
  PROVE  /\ CountType'
         /\ count'[c].n = count[c].n + 1 /\ count'[c].ttl = count[c].ttl
         /\ \A d \in Counters : d # c => count'[d] = count[d]
<1> DEFINE v == [count[c] EXCEPT !.n = @ + 1]
<1>1. count[c] \in [n : Nat, ttl : Nat]
  BY DEF CountType
<1>2. v \in [n : Nat, ttl : Nat] /\ v.n = count[c].n + 1 /\ v.ttl = count[c].ttl
  BY <1>1
<1>3. count' = [count EXCEPT ![c] = v]
  BY DEF Incr
<1> HIDE DEF v
<1> QED
  BY <1>2, <1>3 DEF CountType

LEMMA ExpireOpens ==
  ASSUME CountType, NEW c \in Counters, Expire(c)
  PROVE  /\ CountType'
         /\ count'[c].n = count[c].n /\ count'[c].ttl = Window(c)
         /\ \A d \in Counters : d # c => count'[d] = count[d]
<1> DEFINE v == [count[c] EXCEPT !.ttl = Window(c)]
<1>1. count[c] \in [n : Nat, ttl : Nat] /\ Window(c) \in Nat
  BY CounterNames DEF CountType
<1>2. v \in [n : Nat, ttl : Nat] /\ v.n = count[c].n /\ v.ttl = Window(c)
  BY <1>1
<1>3. count' = [count EXCEPT ![c] = v]
  BY DEF Expire
<1> HIDE DEF v
<1> QED
  BY <1>2, <1>3 DEF CountType

LEMMA ScriptCounts ==
  ASSUME CountType, NEW c \in Counters, AtomicRateLimit(c)
  PROVE  /\ CountType'
         /\ count'[c].n = count[c].n + 1
         /\ count'[c].ttl = IF count[c].n = 0 THEN Window(c) ELSE count[c].ttl
         /\ \A d \in Counters : d # c => count'[d] = count[d]
<1> DEFINE v == [n |-> count[c].n + 1, ttl |-> IF count[c].n = 0 THEN Window(c) ELSE count[c].ttl]
<1>1. count[c] \in [n : Nat, ttl : Nat] /\ Window(c) \in Nat
  BY CounterNames DEF CountType
<1>2. /\ v \in [n : Nat, ttl : Nat] /\ v.n = count[c].n + 1
      /\ v.ttl = IF count[c].n = 0 THEN Window(c) ELSE count[c].ttl
  BY <1>1
<1>3. count' = [count EXCEPT ![c] = v]
  BY DEF AtomicRateLimit
<1> HIDE DEF v
<1> QED
  BY <1>2, <1>3 DEF CountType

LEMMA TickCounts ==
  ASSUME CountType, Tick
  PROVE  /\ CountType'
         /\ \A c \in Counters :
              IF count[c].ttl = 1 THEN count'[c].n = 0 /\ count'[c].ttl = 0
              ELSE count'[c].n = count[c].n /\ count'[c].ttl = Older(count[c].ttl)
<1> DEFINE v(c) == IF count[c].ttl = 1 THEN [n |-> 0, ttl |-> 0]
                   ELSE [count[c] EXCEPT !.ttl = Older(@)]
<1>1. count' = [c \in Counters |-> v(c)]
  BY DEF Tick
<1>2. ASSUME NEW c \in Counters
      PROVE  /\ v(c) \in [n : Nat, ttl : Nat]
             /\ IF count[c].ttl = 1 THEN v(c).n = 0 /\ v(c).ttl = 0
                ELSE v(c).n = count[c].n /\ v(c).ttl = Older(count[c].ttl)
  <2>1. count[c] \in [n : Nat, ttl : Nat]
    BY DEF CountType
  <2>2. Older(count[c].ttl) \in Nat
    BY <2>1 DEF Older
  <2> QED
    BY <2>1, <2>2
<1> HIDE DEF v
<1> QED
  BY <1>1, <1>2 DEF CountType

LEMMA CountedJobs ==
  ASSUME JobsInv, NEW j \in jobs
  PROVE  /\ j.at = "limit" \/ j.at = "window" => LimiterOf(j) \in Counters
         /\ j.at = "count" \/ j.at = "countWindow" => <<"reported", j.about>> \in Counters
BY CounterNames DEF JobsInv, Fits, Opening, LimiterOf

LEMMA NextCount ==
  ASSUME TypeOK, StoreInv, [Next]_vars
  PROVE  CountType' /\ \A c \in Counters : count'[c].ttl \in 0..Window(c)
<1>0. CountType /\ JobsInv /\ \A c \in Counters : count[c].n \in Nat /\ count[c].ttl \in 0..Window(c)
  BY DEF StoreInv, CountType, TypeOK
<1>1. ASSUME NEW u \in Users, InitSession(u)
      PROVE  CountType' /\ \A c \in Counters : count'[c].ttl \in 0..Window(c)
  BY <1>0, <1>1, ScriptCounts, CounterNames DEF InitSession
<1>2. ASSUME NEW j \in jobs, Limited(j) \/ CountReport(j)
      PROVE  CountType' /\ \A c \in Counters : count'[c].ttl \in 0..Window(c)
  BY <1>0, <1>2, IncrCounts, CountedJobs DEF Limited, CountReport
<1>3. ASSUME NEW j \in jobs, WindowOpens(j) \/ CountWindowOpens(j)
      PROVE  CountType' /\ \A c \in Counters : count'[c].ttl \in 0..Window(c)
  BY <1>0, <1>3, ExpireOpens, CountedJobs, CounterNames DEF WindowOpens, CountWindowOpens
<1>4. CASE Tick
  <2>1. CountType' /\ \A c \in Counters :
              IF count[c].ttl = 1 THEN count'[c].n = 0 /\ count'[c].ttl = 0
              ELSE count'[c].n = count[c].n /\ count'[c].ttl = Older(count[c].ttl)
    BY <1>0, <1>4, TickCounts
  <2> QED
    BY <1>0, <2>1, CounterNames DEF Older
<1>5. CASE UNCHANGED count
  BY <1>0, <1>5 DEF CountType
<1>6. ASSUME NEW j \in jobs,
             \/ Inquires(j) \/ CreateSession(j) \/ SaveReport(j) \/ SaveBan(j) \/ CacheBan(j)
             \/ CommandFails(j)
      PROVE  UNCHANGED count
  BY <1>6, Inquiry DEF CreateSession, SaveReport, SaveBan, CacheBan, CommandFails
<1>7. ASSUME NEW s \in Sessions,
             \/ Authenticate(s) \/ CloseSocket(s) \/ DestroySession(s)
             \/ \E kind \in {"http", "socket"}, r \in Reportable : SubmitReport(kind, s, r)
      PROVE  UNCHANGED count
  BY <1>7 DEF Authenticate, CloseSocket, DestroySession, SubmitReport
<1>8. ASSUME NEW b \in bans, LiftBan(b) PROVE UNCHANGED count
  BY <1>8 DEF LiftBan
<1> QED
  BY <1>1, <1>2, <1>3, <1>4, <1>5, <1>6, <1>7, <1>8 DEF Next, Step, Inquires, vars

-----------------------------------------------------------------------------
(* The other stores *)

BanType == [ban : 1..MaxBans, target : Targets, ttl : 1..BanTime, by : SUBSET Sessions]

LEMMA NamedTargets ==
  ASSUME NEW j \in Job, Fits(j), j.at \in {"ban", "cache"}
  PROVE  Named(j) \subseteq Targets
BY OwnerAssumption DEF Fits, Opening, Named, Targets, Id, Ip, Unknown

(* A day later *)
LEMMA BanTicks ==
  ASSUME bans \subseteq BanType, Tick
  PROVE  \A b \in bans' : \E x \in bans :
           b \in BanType /\ b.target = x.target /\ b.by = x.by /\ b.ttl = x.ttl - 1
<1> SUFFICES ASSUME NEW b \in bans'
             PROVE  \E x \in bans : b \in BanType /\ b.target = x.target /\ b.by = x.by
                                    /\ b.ttl = x.ttl - 1
  OBVIOUS
<1>1. bans' = {[x EXCEPT !.ttl = @ - 1] : x \in {y \in bans : y.ttl > 1}}
  BY DEF Tick
<1>2. PICK x \in {y \in bans : y.ttl > 1} : b = [x EXCEPT !.ttl = @ - 1]
  BY <1>1
<1>3. x \in BanType /\ x.ttl > 1 /\ BanTime \in Nat
  BY LimitsAssumption
<1>4. x.ttl - 1 \in 1..BanTime
  BY <1>3 DEF BanType
<1>5. b \in BanType /\ b.target = x.target /\ b.by = x.by /\ b.ttl = x.ttl - 1
  BY <1>2, <1>3, <1>4 DEF BanType
<1> QED
  BY <1>5

(* The documents of a new ban, all of them or some *)
LEMMA BanSaved ==
  ASSUME JobsInv, NEW j \in jobs, j.at = "ban",
         NEW targets \in SUBSET Named(j), SavedFor(j, targets)
  PROVE  \A b \in bans' \ bans :
           b \in BanType /\ b.target \in targets /\ b.by = j.by
<1>1. j \in Job /\ Fits(j) /\ j.at = "ban"
  BY DEF JobsInv, Opening
<1>2. Named(j) \subseteq Targets /\ j.by \in SUBSET Sessions /\ BanTime \in 1..BanTime
  BY <1>1, NamedTargets, LimitsAssumption DEF Job
<1>3. PICK n \in 1..MaxBans :
        bans' = bans \cup {[ban |-> n, target |-> t, ttl |-> BanTime, by |-> j.by] : t \in targets}
  BY DEF SavedFor
<1> QED
  BY <1>2, <1>3 DEF BanType

LEMMA NextBans ==
  ASSUME TypeOK, StoreInv, [Next]_vars
  PROVE  bans' \subseteq BanType
<1>0. bans \subseteq BanType /\ JobsInv
  BY DEF TypeOK, BanType, StoreInv
<1>1. ASSUME NEW j \in jobs, SaveBan(j) PROVE bans' \subseteq BanType
  BY <1>0, <1>1, BanSaved DEF SaveBan
<1>7. ASSUME NEW j \in jobs, CommandFails(j) PROVE bans' \subseteq BanType
  BY <1>0, <1>7, BanSaved DEF CommandFails
<1>2. ASSUME NEW b \in bans, LiftBan(b) PROVE bans' \subseteq bans
  BY <1>2 DEF LiftBan
<1>3. CASE Tick
  BY <1>0, <1>3, BanTicks
<1>4. ASSUME NEW j \in jobs, Step(j) \/ SkipDocuments(j) PROVE SaveBan(j) \/ UNCHANGED bans
  BY <1>4, Inquiry DEF Step, Inquires, Limited, WindowOpens, CreateSession, SaveReport, CountReport,
              CountWindowOpens, CacheBan
<1>5. ASSUME NEW s \in Sessions,
             \/ Authenticate(s) \/ CloseSocket(s) \/ DestroySession(s)
             \/ \E kind \in {"http", "socket"}, r \in Reportable : SubmitReport(kind, s, r)
      PROVE  UNCHANGED bans
  BY <1>5 DEF Authenticate, CloseSocket, DestroySession, SubmitReport
<1>6. ASSUME NEW u \in Users, InitSession(u) PROVE UNCHANGED bans
  BY <1>6 DEF InitSession
<1> QED
  BY <1>0, <1>1, <1>2, <1>3, <1>4, <1>5, <1>6, <1>7 DEF Next, vars

LEMMA NextCached ==
  ASSUME TypeOK, StoreInv, [Next]_vars
  PROVE  cached' \in [Targets -> Nat]
<1>0. cached \in [Targets -> Nat] /\ BanTime \in Nat
  BY LimitsAssumption DEF StoreInv
<1>1. ASSUME NEW j \in jobs, KeepBan(j) PROVE cached' \in [Targets -> Nat]
  BY <1>0, <1>1 DEF KeepBan
<1>2. ASSUME NEW keys, CachedOn(keys) PROVE cached' \in [Targets -> Nat]
  BY <1>0, <1>2 DEF CachedOn
<1>3. ASSUME NEW j \in jobs, Step(j) \/ SkipDocuments(j) \/ CommandFails(j)
      PROVE  KeepBan(j) \/ (\E keys : CachedOn(keys)) \/ UNCHANGED cached
  BY <1>3, Inquiry DEF Step, Inquires, Limited, WindowOpens, CreateSession, SaveReport, CountReport,
              CountWindowOpens, SaveBan, CacheBan, CommandFails
<1>4. CASE Tick
  BY <1>0, <1>4 DEF Tick, Older
<1>5. ASSUME NEW s \in Sessions,
             \/ Authenticate(s) \/ CloseSocket(s) \/ DestroySession(s)
             \/ \E kind \in {"http", "socket"}, r \in Reportable : SubmitReport(kind, s, r)
      PROVE  UNCHANGED cached
  BY <1>5 DEF Authenticate, CloseSocket, DestroySession, SubmitReport
<1>6. ASSUME NEW u \in Users, InitSession(u) PROVE UNCHANGED cached
  BY <1>6 DEF InitSession
<1>7. ASSUME NEW b \in bans, LiftBan(b) PROVE UNCHANGED cached
  BY <1>7 DEF LiftBan
<1> QED
  BY <1>0, <1>1, <1>2, <1>3, <1>4, <1>5, <1>6, <1>7 DEF Next, vars

(* Who has been counted *)
LEMMA NextVoters ==
  ASSUME TypeOK, StoreInv, [Next]_vars
  PROVE  /\ voters' \in [Reportable -> SUBSET Sessions]
         /\ \A s \in Reportable : IsFiniteSet(voters'[s])
<1>0. voters \in [Reportable -> SUBSET Sessions] /\ JobsInv /\ \A s \in Reportable : IsFiniteSet(voters[s])
  BY DEF TypeOK, StoreInv
<1>1. ASSUME NEW j \in jobs, CountReport(j)
      PROVE  /\ voters' \in [Reportable -> SUBSET Sessions]
             /\ \A s \in Reportable : IsFiniteSet(voters'[s])
  <2>1. j.about \in Reportable /\ j.from \in Sessions
    BY <1>0, <1>1 DEF CountReport, JobsInv, Fits, Opening
  <2>2. voters' = [voters EXCEPT ![j.about] = voters[j.about] \cup {j.from}]
    BY <1>1 DEF CountReport
  <2>3. IsFiniteSet(voters[j.about] \cup {j.from})
    BY <1>0, <2>1, FS_AddElement
  <2> QED
    BY <1>0, <2>1, <2>2, <2>3
<1>2. CASE Tick
  BY <1>0, <1>2, FS_EmptySet DEF Tick
<1>3. CASE UNCHANGED voters
  BY <1>0, <1>3
<1>4. ASSUME NEW j \in jobs, Step(j) \/ SkipDocuments(j) \/ CommandFails(j)
      PROVE  CountReport(j) \/ UNCHANGED voters
  BY <1>4, Inquiry DEF Step, Inquires, Limited, WindowOpens, CreateSession, SaveReport,
              CountWindowOpens, SaveBan, CacheBan, CommandFails
<1>5. ASSUME NEW s \in Sessions,
             \/ Authenticate(s) \/ CloseSocket(s) \/ DestroySession(s)
             \/ \E kind \in {"http", "socket"}, r \in Reportable : SubmitReport(kind, s, r)
      PROVE  UNCHANGED voters
  BY <1>5 DEF Authenticate, CloseSocket, DestroySession, SubmitReport
<1>6. ASSUME NEW u \in Users, InitSession(u) PROVE UNCHANGED voters
  BY <1>6 DEF InitSession
<1>7. ASSUME NEW b \in bans, LiftBan(b) PROVE UNCHANGED voters
  BY <1>7 DEF LiftBan
<1> QED
  BY <1>1, <1>2, <1>3, <1>4, <1>5, <1>6, <1>7 DEF Next, vars

(* Sessions and the bounds *)
LEMMA NextSessions ==
  ASSUME TypeOK, [Next]_vars
  PROVE  /\ state' \in [Sessions -> {"new", "live", "gone"}]
         /\ conn' \subseteq {s \in Sessions : state'[s] # "new"}
         /\ made' \in 0..MaxReports /\ faults' \in 0..MaxFaults
         /\ faults' >= faults
<1>0. MaxReports \in Nat /\ MaxFaults \in Nat
  BY LimitsAssumption
<1>1. ASSUME NEW j \in jobs, CreateSession(j) \/ SkipDocuments(j) \/ CommandFails(j)
      PROVE  /\ state' \in [Sessions -> {"new", "live", "gone"}]
             /\ conn' \subseteq {s \in Sessions : state'[s] # "new"}
             /\ made' \in 0..MaxReports /\ faults' \in 0..MaxFaults
             /\ faults' >= faults
  BY <1>0, <1>1 DEF TypeOK, CreateSession, SkipDocuments, CommandFails
<1>2. ASSUME NEW s \in Sessions,
             \/ Authenticate(s) \/ CloseSocket(s) \/ DestroySession(s)
             \/ \E kind \in {"http", "socket"}, r \in Reportable : SubmitReport(kind, s, r)
      PROVE  /\ state' \in [Sessions -> {"new", "live", "gone"}]
             /\ conn' \subseteq {x \in Sessions : state'[x] # "new"}
             /\ made' \in 0..MaxReports /\ faults' \in 0..MaxFaults
             /\ faults' >= faults
  <2>1. CASE CloseSocket(s) \/ DestroySession(s)
    BY <1>0, <2>1 DEF TypeOK, CloseSocket, DestroySession
  <2>2. CASE Authenticate(s)
    BY <1>0, <2>2 DEF TypeOK, Authenticate, Admitted
  <2>3. CASE \E kind \in {"http", "socket"}, r \in Reportable : SubmitReport(kind, s, r)
    BY <1>0, <2>3 DEF TypeOK, SubmitReport
  <2> QED
    BY <1>2, <2>1, <2>2, <2>3
<1>3. CASE UNCHANGED <<state, conn, made, faults>>
  BY <1>0, <1>3 DEF TypeOK
<1>4. ASSUME NEW j \in jobs, Step(j)
      PROVE  CreateSession(j) \/ UNCHANGED <<state, conn, made, faults>>
  BY <1>4 DEF Step, CheckKey, FindBan, KeepBan, Limited, WindowOpens, SaveReport, CountReport,
              CountWindowOpens, SaveBan, CacheBan
<1>5. ASSUME NEW u \in Users, InitSession(u) PROVE UNCHANGED <<state, conn, made, faults>>
  BY <1>5 DEF InitSession
<1>6. ASSUME NEW b \in bans, LiftBan(b) PROVE UNCHANGED <<state, conn, made, faults>>
  BY <1>6 DEF LiftBan
<1>7. CASE Tick
  BY <1>3, <1>7 DEF Tick
<1> QED
  BY <1>1, <1>2, <1>3, <1>4, <1>5, <1>6, <1>7 DEF Next, vars

LEMMA NextTypes ==
  ASSUME TypeOK, StoreInv, [Next]_vars
  PROVE  TypeOK' /\ StoreInv'
<1>1. /\ JobsInv'
      /\ CountType' /\ \A c \in Counters : count'[c].ttl \in 0..Window(c)
      /\ bans' \subseteq BanType
      /\ cached' \in [Targets -> Nat]
      /\ voters' \in [Reportable -> SUBSET Sessions]
      /\ \A s \in Reportable : IsFiniteSet(voters'[s])
      /\ state' \in [Sessions -> {"new", "live", "gone"}]
      /\ conn' \subseteq {s \in Sessions : state'[s] # "new"}
      /\ made' \in 0..MaxReports /\ faults' \in 0..MaxFaults
  BY NextJobs, NextCount, NextBans, NextCached, NextVoters, NextSessions
<1>2. DOMAIN count' = Counters /\ \A c \in Counters : count'[c].n \in Nat
  BY <1>1 DEF CountType
<1>3. StoreInv'
  BY <1>1 DEF StoreInv, CountType
<1>4. TypeOK'
  BY <1>1, <1>2 DEF TypeOK, BanType, JobsInv
<1> QED
  BY <1>3, <1>4

-----------------------------------------------------------------------------
(* Windows: who owes one, and who will never get one *)

(* The jobs that owe a window, but for some, are what they were. *)
SameDebtorsBut(js) ==
  \A i : i.at \in {"window", "countWindow"} /\ i \notin js => (i \in jobs <=> i \in jobs')

LEMMA Debts ==
  /\ \A j, c : Owes(j, c) => j.at \in {"window", "countWindow"}
  /\ \A j, c, d : Owes(j, c) /\ Owes(j, d) => c = d
BY DEF Owes

LEMMA IncrementKeepsWindows ==
  ASSUME StoreInv, WindowInv, NEW j \in jobs, NEW c \in Counters, Incr(c),
         \A u \in Users : c # <<"init", u>>,
         j.at \notin {"window", "countWindow"},
         \/ count[c].n > 0 /\ SameDebtorsBut({})
         \/ /\ count[c].n = 0
            /\ \E k \in Job : /\ jobs' = (jobs \ {j}) \cup {k}
                              /\ \A d : Owes(k, d) <=> d = c
  PROVE  WindowInv' /\ EndlessOnes' \subseteq EndlessOnes
<1>0. /\ CountType /\ CountType'
      /\ count'[c].n = count[c].n + 1 /\ count'[c].ttl = count[c].ttl
      /\ \A d \in Counters : d # c => count'[d] = count[d]
  BY IncrCounts DEF StoreInv, CountType
<1>1. \A d \in Counters : count[d].n \in Nat /\ count[d].ttl \in Nat
  BY <1>0 DEF CountType
<1>2. (\A d \in Counters : count[d].n = 0 => count[d].ttl = 0)'
  BY <1>0, <1>1 DEF WindowInv
<1>3. (\A u \in Users : count[<<"init", u>>].n > 0 => count[<<"init", u>>].ttl > 0)'
  BY <1>0, CounterNames DEF WindowInv
<1>4. CASE count[c].n > 0 /\ SameDebtorsBut({})
  <2>1. \A i, d : Owes(i, d) => (i \in jobs <=> i \in jobs')
    BY <1>4, Debts DEF SameDebtorsBut
  <2>2. WindowInv'
    BY <1>0, <1>1, <1>2, <1>3, <1>4, <2>1 DEF WindowInv
  <2>3. \A d \in Counters : Endless(d)' => Endless(d)
    BY <1>0, <1>1, <1>4, <2>1 DEF Endless
  <2> QED
    BY <2>2, <2>3 DEF EndlessOnes
<1>5. ASSUME count[c].n = 0, NEW k \in Job, jobs' = (jobs \ {j}) \cup {k},
             \A d : Owes(k, d) <=> d = c
      PROVE  WindowInv' /\ EndlessOnes' \subseteq EndlessOnes
  <2>1. \A i, d : Owes(i, d) /\ d \in Counters => (i \in jobs' <=> i \in jobs \/ (i = k /\ d = c))
    BY <1>5, Debts
  <2>2. count[c].ttl = 0 /\ \A i \in jobs : ~Owes(i, c)
    BY <1>1, <1>5 DEF WindowInv
  <2>3. (\A i \in jobs, d \in Counters : Owes(i, d) => count[d].n > 0 /\ count[d].ttl = 0)'
    BY <1>0, <1>1, <2>1, <2>2 DEF WindowInv
  <2>4. (\A h, i \in jobs, d \in Counters : Owes(h, d) /\ Owes(i, d) => h = i)'
    BY <2>1, <2>2 DEF WindowInv
  <2>5. \A d \in Counters : Endless(d)' => Endless(d)
    BY <1>0, <1>5, <2>1, <2>2 DEF Endless
  <2> QED
    BY <1>2, <1>3, <2>3, <2>4, <2>5 DEF WindowInv, EndlessOnes
<1> QED
  BY <1>4, <1>5

LEMMA ExpireKeepsWindows ==
  ASSUME StoreInv, WindowInv, NEW j \in jobs, NEW c \in Counters, Expire(c),
         Owes(j, c), j \notin jobs', SameDebtorsBut({j})
  PROVE  WindowInv' /\ EndlessOnes' \subseteq EndlessOnes
<1>0. /\ CountType /\ CountType'
      /\ count'[c].n = count[c].n /\ count'[c].ttl = Window(c)
      /\ \A d \in Counters : d # c => count'[d] = count[d]
  BY ExpireOpens DEF StoreInv, CountType
<1>1. Window(c) > 0 /\ \A d \in Counters : count[d].n \in Nat /\ count[d].ttl \in Nat
  BY <1>0, CounterNames DEF CountType
<1>2. \A i, d : Owes(i, d) /\ d \in Counters => (i \in jobs' <=> i \in jobs /\ i # j)
  BY Debts DEF SameDebtorsBut
<1>3. count[c].n > 0 /\ \A i \in jobs : Owes(i, c) => i = j
  BY DEF WindowInv
<1>4. (\A d \in Counters : count[d].n = 0 => count[d].ttl = 0)'
  BY <1>0, <1>1, <1>3 DEF WindowInv
<1>5. (\A u \in Users : count[<<"init", u>>].n > 0 => count[<<"init", u>>].ttl > 0)'
  BY <1>0, <1>1, CounterNames DEF WindowInv
<1>6. (\A i \in jobs, d \in Counters : Owes(i, d) => count[d].n > 0 /\ count[d].ttl = 0)'
  BY <1>0, <1>2, <1>3 DEF WindowInv
<1>7. (\A h, i \in jobs, d \in Counters : Owes(h, d) /\ Owes(i, d) => h = i)'
  BY <1>2 DEF WindowInv
<1>8. \A d \in Counters : Endless(d)' => Endless(d)
  <2> SUFFICES ASSUME NEW d \in Counters, Endless(d)' PROVE Endless(d)
    OBVIOUS
  <2>1. d # c
    BY <1>0, <1>1 DEF Endless
  <2>2. \A i \in jobs : Owes(i, d) => i # j
    BY <2>1, Debts
  <2> QED
    BY <1>0, <1>2, <2>1, <2>2 DEF Endless
<1> QED
  BY <1>4, <1>5, <1>6, <1>7, <1>8 DEF WindowInv, EndlessOnes

LEMMA ScriptKeepsWindows ==
  ASSUME StoreInv, WindowInv, NEW u \in Users, AtomicRateLimit(<<"init", u>>), SameDebtorsBut({})
  PROVE  WindowInv' /\ EndlessOnes' \subseteq EndlessOnes
<1> DEFINE c == <<"init", u>>
<1>0. /\ c \in Counters /\ CountType /\ CountType'
      /\ count'[c].n = count[c].n + 1
      /\ count'[c].ttl = IF count[c].n = 0 THEN Window(c) ELSE count[c].ttl
      /\ \A d \in Counters : d # c => count'[d] = count[d]
  BY ScriptCounts, CounterNames DEF StoreInv, CountType
<1>1. Window(c) > 0 /\ \A d \in Counters : count[d].n \in Nat /\ count[d].ttl \in Nat
  BY <1>0, CounterNames DEF CountType
<1>2. \A i, d : Owes(i, d) => (i \in jobs <=> i \in jobs')
  BY Debts DEF SameDebtorsBut
<1>3. \A i : ~Owes(i, c)
  BY DEF Owes, LimiterOf
<1>4. count'[c].n > 0 /\ count'[c].ttl > 0
  BY <1>0, <1>1 DEF WindowInv
<1>5. WindowInv'
  BY <1>0, <1>2, <1>3, <1>4, CounterNames DEF WindowInv
<1>6. \A d \in Counters : Endless(d)' => Endless(d)
  BY <1>0, <1>2, <1>4 DEF Endless
<1> QED
  BY <1>5, <1>6 DEF EndlessOnes

LEMMA TickKeepsWindows ==
  ASSUME StoreInv, WindowInv, Tick
  PROVE  WindowInv' /\ EndlessOnes' \subseteq EndlessOnes
<1>0. /\ CountType /\ CountType'
      /\ \A c \in Counters :
              IF count[c].ttl = 1 THEN count'[c].n = 0 /\ count'[c].ttl = 0
              ELSE count'[c].n = count[c].n /\ count'[c].ttl = Older(count[c].ttl)
  BY TickCounts DEF StoreInv, CountType
<1>1. \A d \in Counters : count[d].n \in Nat /\ count[d].ttl \in Nat
  BY <1>0 DEF CountType
<1>2. jobs' = {[j EXCEPT !.aged = TRUE] : j \in jobs}
  BY DEF Tick
<1>3. \A i \in jobs' : \E j \in jobs : i = [j EXCEPT !.aged = TRUE] /\ \A c : Owes(i, c) <=> Owes(j, c)
  <2> SUFFICES ASSUME NEW i \in jobs'
               PROVE  \E j \in jobs : i = [j EXCEPT !.aged = TRUE] /\ \A c : Owes(i, c) <=> Owes(j, c)
    OBVIOUS
  <2>1. PICK j \in jobs : i = [j EXCEPT !.aged = TRUE]
    BY <1>2
  <2>2. i.at = j.at /\ i.from = j.from /\ i.about = j.about
    BY <2>1, Aging DEF StoreInv, JobsInv
  <2> QED
    BY <2>1, <2>2 DEF Owes, LimiterOf
<1>4. \A j \in jobs : \E i \in jobs' : \A c : Owes(i, c) <=> Owes(j, c)
  <2> SUFFICES ASSUME NEW j \in jobs PROVE \E i \in jobs' : \A c : Owes(i, c) <=> Owes(j, c)
    OBVIOUS
  <2> DEFINE i == [j EXCEPT !.aged = TRUE]
  <2>1. i \in jobs'
    BY <1>2
  <2>2. i.at = j.at /\ i.from = j.from /\ i.about = j.about
    BY Aging DEF StoreInv, JobsInv
  <2>3. \A c : Owes(i, c) <=> Owes(j, c)
    BY <2>2 DEF Owes, LimiterOf
  <2> QED
    BY <2>1, <2>3
<1>5. (\A c \in Counters : count[c].n = 0 => count[c].ttl = 0)'
  BY <1>0, <1>1 DEF WindowInv, Older
<1>6. (\A u \in Users : count[<<"init", u>>].n > 0 => count[<<"init", u>>].ttl > 0)'
  BY <1>0, <1>1, CounterNames DEF WindowInv, Older
<1>7. (\A i \in jobs, c \in Counters : Owes(i, c) => count[c].n > 0 /\ count[c].ttl = 0)'
  BY <1>0, <1>1, <1>3 DEF WindowInv, Older
<1>8. (\A h, i \in jobs, c \in Counters : Owes(h, c) /\ Owes(i, c) => h = i)'
  <2> SUFFICES ASSUME NEW h \in jobs', NEW i \in jobs', NEW c \in Counters, Owes(h, c), Owes(i, c)
               PROVE  h = i
    OBVIOUS
  <2>1. PICK j \in jobs : h = [j EXCEPT !.aged = TRUE] /\ Owes(j, c)
    BY <1>3
  <2>2. PICK k \in jobs : i = [k EXCEPT !.aged = TRUE] /\ Owes(k, c)
    BY <1>3
  <2>3. j = k
    BY <2>1, <2>2 DEF WindowInv
  <2> QED
    BY <2>1, <2>2, <2>3
<1>9. \A c \in Counters : Endless(c)' => Endless(c)
  BY <1>0, <1>1, <1>4 DEF Endless, Older
<1> QED
  BY <1>5, <1>6, <1>7, <1>8, <1>9 DEF WindowInv, EndlessOnes

LEMMA RestKeepsWindows ==
  ASSUME WindowInv, UNCHANGED count, SameDebtorsBut({})
  PROVE  WindowInv' /\ EndlessOnes' \subseteq EndlessOnes
<1>1. \A i, d : Owes(i, d) => (i \in jobs <=> i \in jobs')
  BY Debts DEF SameDebtorsBut
<1> QED
  BY <1>1 DEF WindowInv, EndlessOnes, Endless

(* The commands that neither count nor open a window *)
LEMMA RestKeepsDebtors ==
  ASSUME StoreInv, NEW j \in jobs,
         \/ Inquires(j) \/ CreateSession(j) \/ SaveReport(j) \/ SaveBan(j) \/ CacheBan(j)
  PROVE  UNCHANGED count /\ SameDebtorsBut({})
<1>0. j \in Job
  BY DEF StoreInv, JobsInv
<1>1. /\ j.at \notin {"window", "countWindow"}
      /\ Ends(j) \/ \E at \in Opening \cup {"count", "cache"} : Goes(j, at)
      /\ UNCHANGED count
  BY Inquiry DEF CreateSession, SaveReport, SaveBan, CacheBan, Opening
<1>2. CASE Ends(j)
  BY <1>1, <1>2 DEF Ends, Becomes, SameDebtorsBut
<1>3. ASSUME NEW at \in Opening \cup {"count", "cache"}, Goes(j, at) PROVE SameDebtorsBut({})
  <2>1. PICK k \in Job : jobs' = (jobs \ {j}) \cup {k} /\ k \notin jobs /\ k.at = at
    BY <1>0, <1>3, GoesOn DEF Places, Opening
  <2> QED
    BY <1>1, <2>1 DEF SameDebtorsBut, Opening
<1> QED
  BY <1>1, <1>2, <1>3

(* A request for the report limiter, or to be counted: INCR *)
LEMMA LimitedKeepsWindows ==
  ASSUME StoreInv, WindowInv, NEW j \in jobs, Limited(j)
  PROVE  WindowInv' /\ EndlessOnes' \subseteq EndlessOnes
<1> DEFINE c == LimiterOf(j)
<1>1. /\ j \in Job /\ j.at = "limit" /\ Incr(c) /\ c \in Counters /\ count[c].n \in Nat
      /\ \A u \in Users : c # <<"init", u>>
  BY CountedJobs DEF StoreInv, JobsInv, Limited, LimiterOf
<1>2. CASE count[c].n = 0
  <2>1. Goes(j, "window")
    BY <1>1, <1>2 DEF Limited, First
  <2>2. PICK k \in Job : jobs' = (jobs \ {j}) \cup {k} /\ k.at = "window" /\ k.from = j.from
    BY <1>1, <2>1, GoesOn DEF Places
  <2>3. \A d : Owes(k, d) <=> d = c
    BY <2>2 DEF Owes, LimiterOf
  <2> QED
    BY <1>1, <1>2, <2>2, <2>3, IncrementKeepsWindows
<1>3. CASE count[c].n > 0
  <2>1. Goes(j, "save") \/ Ends(j)
    BY <1>1, <1>3 DEF Limited, First
  <2>2. SameDebtorsBut({})
    <3>1. CASE Ends(j)
      BY <1>1, <3>1 DEF Ends, Becomes, SameDebtorsBut
    <3>2. CASE Goes(j, "save")
      <4>1. PICK k \in Job : jobs' = (jobs \ {j}) \cup {k} /\ k \notin jobs /\ k.at = "save"
        BY <1>1, <3>2, GoesOn DEF Places
      <4> QED
        BY <1>1, <4>1 DEF SameDebtorsBut
    <3> QED
      BY <2>1, <3>1, <3>2
  <2> QED
    BY <1>1, <1>3, <2>2, IncrementKeepsWindows
<1> QED
  BY <1>1, <1>2, <1>3

LEMMA CountKeepsWindows ==
  ASSUME TypeOK, StoreInv, WindowInv, NEW j \in jobs, CountReport(j)
  PROVE  WindowInv' /\ EndlessOnes' \subseteq EndlessOnes
<1> DEFINE c == <<"reported", j.about>>
           v == voters[j.about] \cup {j.from}
<1>1. /\ j \in Job /\ j.at = "count" /\ Incr(c) /\ c \in Counters /\ count[c].n \in Nat
      /\ \A u \in Users : c # <<"init", u>>
  BY CountedJobs DEF StoreInv, JobsInv, CountReport
<1>2. v \in SUBSET Sessions
  BY <1>1 DEF StoreInv, JobsInv, Fits, Opening, TypeOK
<1>3. CASE count[c].n = 0
  <2>1. Goes(j, "countWindow")
    BY <1>1, <1>3 DEF CountReport, First
  <2>2. PICK k \in Job : jobs' = (jobs \ {j}) \cup {k} /\ k.at = "countWindow" /\ k.about = j.about
    BY <1>1, <2>1, GoesOn DEF Places
  <2>3. \A d : Owes(k, d) <=> d = c
    BY <2>2 DEF Owes
  <2> QED
    BY <1>1, <1>3, <2>2, <2>3, IncrementKeepsWindows
<1>4. CASE count[c].n > 0
  <2>1. Bans(j, v) \/ Ends(j)
    BY <1>1, <1>4 DEF CountReport, First
  <2>2. SameDebtorsBut({})
    <3>1. CASE Ends(j)
      BY <1>1, <3>1 DEF Ends, Becomes, SameDebtorsBut
    <3>2. CASE Bans(j, v)
      <4>1. PICK k \in Job : jobs' = (jobs \ {j}) \cup {k} /\ k \notin jobs /\ k.at = "ban"
        BY <1>1, <1>2, <3>2, GoesToBan
      <4> QED
        BY <1>1, <4>1 DEF SameDebtorsBut
    <3> QED
      BY <2>1, <3>1, <3>2
  <2> QED
    BY <1>1, <1>4, <2>2, IncrementKeepsWindows
<1> QED
  BY <1>1, <1>3, <1>4

(* EXPIRE *)
LEMMA OpeningKeepsWindows ==
  ASSUME TypeOK, StoreInv, WindowInv, NEW j \in jobs, WindowOpens(j) \/ CountWindowOpens(j)
  PROVE  WindowInv' /\ EndlessOnes' \subseteq EndlessOnes
<1>1. j \in Job /\ Fits(j)
  BY DEF StoreInv, JobsInv
<1>2. CASE WindowOpens(j)
  <2>1. j.at = "window" /\ Expire(LimiterOf(j)) /\ (Goes(j, "save") \/ Ends(j))
        /\ LimiterOf(j) \in Counters /\ Owes(j, LimiterOf(j))
    BY <1>2, CountedJobs DEF WindowOpens, StoreInv, Owes
  <2>2. j \notin jobs' /\ SameDebtorsBut({j})
    <3>1. CASE Ends(j)
      BY <3>1 DEF Ends, Becomes, SameDebtorsBut
    <3>2. CASE Goes(j, "save")
      <4>1. PICK k \in Job : jobs' = (jobs \ {j}) \cup {k} /\ k \notin jobs /\ k.at = "save"
        BY <1>1, <3>2, GoesOn DEF Places
      <4> QED
        BY <2>1, <4>1 DEF SameDebtorsBut
    <3> QED
      BY <2>1, <3>1, <3>2
  <2> QED
    BY <2>1, <2>2, ExpireKeepsWindows
<1>3. CASE CountWindowOpens(j)
  <2> DEFINE c == <<"reported", j.about>>
  <2>1. j.at = "countWindow" /\ Expire(c) /\ c \in Counters /\ Owes(j, c)
        /\ (Bans(j, {j.from}) \/ Ends(j))
    BY <1>3, CountedJobs DEF CountWindowOpens, StoreInv, Owes
  <2>2. j \notin jobs' /\ SameDebtorsBut({j})
    <3>1. CASE Ends(j)
      BY <3>1 DEF Ends, Becomes, SameDebtorsBut
    <3>2. CASE Bans(j, {j.from})
      <4>1. {j.from} \in SUBSET Sessions
        BY <1>1, <2>1 DEF Fits, Opening
      <4>2. PICK k \in Job : jobs' = (jobs \ {j}) \cup {k} /\ k \notin jobs /\ k.at = "ban"
        BY <1>1, <3>2, <4>1, GoesToBan
      <4> QED
        BY <2>1, <4>2 DEF SameDebtorsBut
    <3> QED
      BY <2>1, <3>1, <3>2
  <2> QED
    BY <2>1, <2>2, ExpireKeepsWindows
<1> QED
  BY <1>2, <1>3

(* A failure leaves at most the counter without a window that the job owed *)
(* one.                                                                    *)
LEMMA FailureEndsOneWindow ==
  ASSUME StoreInv, WindowInv, NEW j \in jobs, CommandFails(j)
  PROVE  WindowInv' /\ \E c : EndlessOnes' \subseteq EndlessOnes \cup {c}
<1>1. jobs' = jobs \ {j} /\ UNCHANGED count
  BY DEF CommandFails, Ends, Becomes
<1>2. WindowInv'
  BY <1>1 DEF WindowInv
<1>3. PICK c : \A d : Owes(j, d) => d = c
  BY Debts
<1>4. \A d \in Counters : Endless(d)' => Endless(d) \/ d = c
  BY <1>1, <1>3 DEF Endless
<1> QED
  BY <1>2, <1>4 DEF EndlessOnes

LEMMA NextWindows ==
  ASSUME TypeOK, StoreInv, WindowInv, EndlessInv, [Next]_vars
  PROVE  WindowInv' /\ EndlessInv'
<1>0. faults \in Nat /\ faults' \in Nat /\ faults' >= faults
  BY NextSessions DEF TypeOK
<1>1. ASSUME EndlessOnes' \subseteq EndlessOnes PROVE EndlessInv'
  <2>1. IsFiniteSet(EndlessOnes') /\ Cardinality(EndlessOnes') <= Cardinality(EndlessOnes)
    BY <1>1, FS_Subset DEF EndlessInv
  <2>2. Cardinality(EndlessOnes) \in Nat /\ Cardinality(EndlessOnes') \in Nat
    BY <2>1, FS_CardinalityType DEF EndlessInv
  <2> QED
    BY <1>0, <2>1, <2>2 DEF EndlessInv
<1>2. ASSUME NEW j \in jobs, CommandFails(j) PROVE WindowInv' /\ EndlessInv'
  <2>1. WindowInv' /\ \E c : EndlessOnes' \subseteq EndlessOnes \cup {c}
    BY <1>2, FailureEndsOneWindow
  <2>2. PICK c : EndlessOnes' \subseteq EndlessOnes \cup {c}
    BY <2>1
  <2>3. PICK e : e = EndlessOnes'
    OBVIOUS
  <2>4. IsFiniteSet(EndlessOnes \cup {c})
        /\ Cardinality(EndlessOnes \cup {c}) <= Cardinality(EndlessOnes) + 1
        /\ Cardinality(EndlessOnes) \in Nat
    <3>1. IsFiniteSet(EndlessOnes) /\ Cardinality(EndlessOnes) \in Nat
      BY FS_CardinalityType DEF EndlessInv
    <3> QED
      BY <3>1, FS_AddElement
  <2>5. IsFiniteSet(e) /\ Cardinality(e) <= Cardinality(EndlessOnes \cup {c})
        /\ Cardinality(e) \in Nat /\ Cardinality(EndlessOnes \cup {c}) \in Nat
    BY <2>2, <2>3, <2>4, FS_Subset, FS_CardinalityType
  <2>6. faults' = faults + 1
    BY <1>2 DEF CommandFails
  <2>7. Cardinality(e) <= faults'
    BY <1>0, <2>4, <2>5, <2>6 DEF EndlessInv
  <2> QED
    BY <2>1, <2>3, <2>5, <2>7 DEF EndlessInv
<1>3. ASSUME NEW u \in Users, InitSession(u) PROVE WindowInv' /\ EndlessOnes' \subseteq EndlessOnes
  <2>1. AtomicRateLimit(<<"init", u>>) /\ SameDebtorsBut({})
    BY <1>3 DEF InitSession, Serves, SameDebtorsBut
  <2> QED
    BY <2>1, ScriptKeepsWindows
<1>4. ASSUME NEW s \in Sessions,
             \/ Authenticate(s) \/ CloseSocket(s) \/ DestroySession(s)
             \/ \E kind \in {"http", "socket"}, r \in Reportable : SubmitReport(kind, s, r)
      PROVE  UNCHANGED count /\ SameDebtorsBut({})
  <2>1. CASE Authenticate(s) \/ CloseSocket(s) \/ DestroySession(s)
    BY <2>1 DEF Authenticate, CloseSocket, DestroySession, SameDebtorsBut
  <2>2. ASSUME NEW kind \in {"http", "socket"}, NEW r \in Reportable, SubmitReport(kind, s, r)
        PROVE  UNCHANGED count /\ SameDebtorsBut({})
    <3>1. PICK k : k.at = "limit" /\ jobs' = jobs \cup {k}
      BY <2>2 DEF SubmitReport, Serves
    <3> QED
      BY <2>2, <3>1 DEF SubmitReport, SameDebtorsBut
  <2> QED
    BY <1>4, <2>1, <2>2
<1>5. ASSUME NEW j \in jobs, Step(j) \/ SkipDocuments(j)
      PROVE  WindowInv' /\ EndlessOnes' \subseteq EndlessOnes
  BY <1>5, LimitedKeepsWindows, CountKeepsWindows, OpeningKeepsWindows, RestKeepsWindows,
     RestKeepsDebtors DEF Step, Inquires
<1>6. ASSUME UNCHANGED <<count, jobs>> PROVE UNCHANGED count /\ SameDebtorsBut({})
  BY <1>6 DEF SameDebtorsBut
<1>7. ASSUME NEW b \in bans, LiftBan(b) PROVE UNCHANGED <<count, jobs>>
  BY <1>7 DEF LiftBan
<1>8. CASE Tick
  BY <1>1, <1>8, TickKeepsWindows
<1> QED
  BY <1>1, <1>2, <1>3, <1>4, <1>5, <1>6, <1>7, <1>8, RestKeepsWindows DEF Next, vars

-----------------------------------------------------------------------------
(* Bans and their keys *)

(* A ban is seen by its key, or is about to be. *)
Seen(b) ==
  \/ b.target = PreSession
  \/ cached[b.target] >= b.ttl
  \/ \E j \in jobs : j.at = "cache" /\ b.target \in Named(j)

LEMMA SeenStill ==
  ASSUME TypeOK, StoreInv, StoreInv', NEW b \in bans, Seen(b),
         \A t \in Targets \ {PreSession} : cached'[t] >= cached[t],
         \A j \in jobs : j.at = "cache" => j \in jobs'
  PROVE  Seen(b)'
<1>1. b \in BanType
  BY DEF TypeOK, BanType
<1>2. b.target \in Targets /\ b.ttl \in Nat
  BY <1>1 DEF BanType
<1>3. cached[b.target] \in Nat /\ cached'[b.target] \in Nat
  BY <1>2 DEF StoreInv
<1> QED
  BY <1>2, <1>3 DEF Seen

LEMMA SavedIsSeen ==
  ASSUME TypeOK, StoreInv, StoreInv', NEW j \in jobs, SaveBan(j), \A b \in bans : Seen(b)
  PROVE  \A b \in bans' : Seen(b)'
<1>1. j \in Job /\ j.at = "ban" /\ Goes(j, "cache") /\ UNCHANGED cached
  BY DEF SaveBan, StoreInv, JobsInv
<1>2. PICK k \in Job : /\ jobs' = (jobs \ {j}) \cup {k} /\ k.at = "cache"
                       /\ k.kind = j.kind /\ k.about = j.about
  BY <1>1, GoesOn DEF Places
<1>3. Named(k) = Named(j)
  BY <1>2 DEF Named
<1>4. \A b \in bans' \ bans : Seen(b)'
  BY <1>2, <1>3, BanSaved DEF Seen, StoreInv, SaveBan
<1>5. \A b \in bans : Seen(b)'
  <2>1. \A t \in Targets : cached'[t] >= cached[t]
    BY <1>1 DEF StoreInv
  <2>2. \A i \in jobs : i.at = "cache" => i \in jobs'
    BY <1>1, <1>2
  <2> QED
    BY <2>1, <2>2, SeenStill
<1> QED
  BY <1>4, <1>5

LEMMA CachedIsSeen ==
  ASSUME TypeOK, StoreInv, StoreInv', NEW j \in jobs, CacheBan(j), \A b \in bans : Seen(b)
  PROVE  \A b \in bans' : Seen(b)'
<1>1. /\ UNCHANGED bans /\ jobs' = jobs \ {j}
      /\ cached' = [t \in Targets |-> IF t \in Named(j) THEN BanTime ELSE cached[t]]
  BY DEF CacheBan, CachedOn, Keys, Ends, Becomes
<1> SUFFICES ASSUME NEW b \in bans PROVE Seen(b)'
  BY <1>1
<1>2. b.target \in Targets /\ b.ttl <= BanTime /\ b.ttl \in Nat /\ BanTime \in Nat
  BY LimitsAssumption DEF TypeOK
<1>3. CASE b.target \in Named(j)
  BY <1>1, <1>2, <1>3 DEF Seen
<1>4. CASE b.target \notin Named(j)
  <2>1. cached'[b.target] = cached[b.target]
    BY <1>1, <1>2, <1>4
  <2>2. \A i \in jobs : b.target \in Named(i) => i \in jobs'
    BY <1>1, <1>4
  <2> QED
    BY <2>1, <2>2 DEF Seen
<1> QED
  BY <1>3, <1>4

LEMMA TickedIsSeen ==
  ASSUME TypeOK, StoreInv, Tick, \A b \in bans : Seen(b)
  PROVE  \A b \in bans' : Seen(b)'
<1> SUFFICES ASSUME NEW b \in bans' PROVE Seen(b)'
  OBVIOUS
<1>1. PICK x \in bans : b \in BanType /\ b.target = x.target /\ b.ttl = x.ttl - 1
  BY BanTicks DEF TypeOK, BanType
<1>2. x.target \in Targets /\ x.ttl \in 1..BanTime /\ BanTime \in Nat
  BY LimitsAssumption DEF TypeOK
<1>3. cached'[b.target] = Older(cached[x.target]) /\ cached[x.target] \in Nat
  BY <1>1, <1>2 DEF Tick, StoreInv
<1>4. CASE cached[x.target] >= x.ttl
  <2>1. Older(cached[x.target]) >= x.ttl - 1
    BY <1>2, <1>3, <1>4 DEF Older
  <2> QED
    BY <1>1, <1>3, <2>1 DEF Seen
<1>5. ASSUME NEW j \in jobs, j.at = "cache", x.target \in Named(j) PROVE Seen(b)'
  <2> DEFINE k == [j EXCEPT !.aged = TRUE]
  <2>1. k \in jobs'
    BY DEF Tick
  <2>2. k.at = "cache" /\ k.kind = j.kind /\ k.about = j.about
    BY <1>5, Aging DEF StoreInv, JobsInv
  <2>3. Named(k) = Named(j)
    BY <2>2 DEF Named
  <2> QED
    BY <1>1, <1>5, <2>1, <2>2, <2>3 DEF Seen
<1>6. CASE x.target = PreSession
  BY <1>1, <1>6 DEF Seen
<1> QED
  BY <1>4, <1>5, <1>6 DEF Seen

(* What the slow path keeps is the key of no other ban. *)
LEMMA InquiryRaises ==
  ASSUME StoreInv, NEW j \in jobs, Inquires(j)
  PROVE  \A t \in Targets \ {PreSession} : cached'[t] >= cached[t]
<1>1. CASE UNCHANGED cached
  BY <1>1 DEF StoreInv
<1>2. CASE KeepBan(j)
  BY <1>2 DEF StoreInv, KeepBan
<1> QED
  BY <1>1, <1>2, Inquiry

LEMMA NextFastPath ==
  ASSUME TypeOK, StoreInv, StoreInv', FastPathSeesBans, [Next]_vars
  PROVE  FastPathSeesBans'
<1>0. faults \in Nat /\ faults' \in Nat /\ faults' >= faults
  BY NextSessions DEF TypeOK
<1> SUFFICES ASSUME faults' = 0 PROVE \A b \in bans' : Seen(b)'
  BY <1>0 DEF FastPathSeesBans, Seen
<1>1. \A b \in bans : Seen(b)
  BY <1>0 DEF FastPathSeesBans, Seen
<1>2. ASSUME \A t \in Targets \ {PreSession} : cached'[t] >= cached[t],
             \A j \in jobs : j.at = "cache" => j \in jobs',
             bans' \subseteq bans
      PROVE  \A b \in bans' : Seen(b)'
  BY <1>1, <1>2, SeenStill
<1>3. ASSUME UNCHANGED cached PROVE \A t \in Targets \ {PreSession} : cached'[t] >= cached[t]
  BY <1>3 DEF StoreInv
<1>4. ASSUME NEW j \in jobs, Step(j) \/ SkipDocuments(j) PROVE \A b \in bans' : Seen(b)'
  <2>1. CASE SaveBan(j) \/ CacheBan(j)
    BY <1>1, <2>1, SavedIsSeen, CachedIsSeen
  <2>2. CASE \/ Limited(j) \/ WindowOpens(j) \/ Inquires(j) \/ CreateSession(j)
             \/ SaveReport(j) \/ CountReport(j) \/ CountWindowOpens(j)
    <3>1. bans' \subseteq bans /\ j.at # "cache" /\ (Inquires(j) \/ UNCHANGED cached)
      BY <2>2, Inquiry DEF Limited, WindowOpens, CreateSession, SaveReport, CountReport,
                  CountWindowOpens, Opening
    <3>2. jobs \ {j} \subseteq jobs'
      BY <2>2, Inquiry DEF Limited, WindowOpens, CreateSession, SaveReport, CountReport,
                  CountWindowOpens, Goes, Bans, Ends, Becomes
    <3> QED
      BY <1>2, <1>3, <3>1, <3>2, InquiryRaises
  <2> QED
    BY <1>4, <2>1, <2>2 DEF Step, Inquires
<1>5. ASSUME NEW j \in jobs PROVE ~CommandFails(j)
  BY <1>0 DEF CommandFails
<1>6. ASSUME NEW s \in Sessions,
             \/ Authenticate(s) \/ CloseSocket(s) \/ DestroySession(s)
             \/ \E kind \in {"http", "socket"}, r \in Reportable : SubmitReport(kind, s, r)
      PROVE  UNCHANGED <<bans, cached>> /\ jobs \subseteq jobs'
  BY <1>6 DEF Authenticate, CloseSocket, DestroySession, SubmitReport, Serves
<1>7. ASSUME NEW u \in Users, InitSession(u)
      PROVE  UNCHANGED <<bans, cached>> /\ jobs \subseteq jobs'
  BY <1>7 DEF InitSession, Serves
<1>8. ASSUME NEW b \in bans, LiftBan(b) PROVE bans' \subseteq bans /\ UNCHANGED <<cached, jobs>>
  BY <1>8 DEF LiftBan
<1>9. CASE Tick
  BY <1>1, <1>9, TickedIsSeen
<1> QED
  BY <1>2, <1>3, <1>4, <1>5, <1>6, <1>7, <1>8, <1>9 DEF Next, vars

-----------------------------------------------------------------------------
(* Arithmetic of one session's reports about another *)

LEMMA Limits ==
  /\ ReportMax \in Nat /\ ReportWindow \in Nat /\ CountWindow \in Nat \ {0}
  /\ ReportWindow >= CountWindow + 2
BY LimitsAssumption

LEMMA LedgerLess ==
  ASSUME NEW p \in Nat, NEW y \in Nat, NEW n \in Nat, NEW r \in Nat,
         NEW p2 \in Nat, NEW y2 \in Nat, NEW r2 \in Nat,
         p2 <= p, y2 <= y, r2 >= r, Ledger(p, y, n, r)
  PROVE  Ledger(p2, y2, n, r2)
BY Limits DEF Ledger

LEMMA TallyLess ==
  ASSUME NEW m \in Nat, NEW n \in Nat, NEW r \in Nat, NEW l \in Nat,
         NEW m2 \in Nat, NEW r2 \in Nat, NEW l2 \in Nat,
         m2 <= m, l2 <= l, r2 >= r, Tally(m, n, r, l)
  PROVE  Tally(m2, n, r2, l2)
BY Limits DEF Tally

(* The first report of a window *)
LEMMA LedgerFirst ==
  ASSUME NEW p \in Nat, NEW y \in Nat, NEW r \in Nat, NEW p2 \in Nat, NEW y2 \in Nat,
         NEW m \in Nat, NEW l \in Nat, NEW m2 \in Nat, NEW l2 \in Nat,
         ReportMax > 0, p2 <= p + 1, m2 <= m + 1, l2 <= CountWindow + 1
  PROVE  /\ Ledger(p, y, 0, r) => Ledger(p2, y2, 1, ReportWindow)
         /\ Tally(m, 0, r, l) => Tally(m2, 1, ReportWindow, l2)
BY Limits DEF Ledger, Tally

(* Another one.  Where nothing is counted yet, the time starts anew: but   *)
(* then the window is young as well.                                       *)
LEMMA LedgerPass ==
  ASSUME NEW p \in Nat, NEW y \in Nat, NEW n \in Nat, NEW r \in Nat,
         NEW p2 \in Nat, NEW y2 \in Nat,
         NEW m \in Nat, NEW l \in Nat, NEW m2 \in Nat, NEW l2 \in Nat,
         n > 0, p2 <= p + 1, y2 <= y + 1, m2 <= m + 1, Ledger(p, y, n, r)
  PROVE  /\ Ledger(p2, y2, n + 1, r)
         /\ Tally(m, n, r, l) /\ (l2 <= l \/ (m = p /\ l2 <= CountWindow + 1))
              => Tally(m2, n + 1, r, l2)
BY Limits DEF Ledger, Tally

(* The clock.  All that is passed is young, and nothing is any more. *)
LEMMA LedgerTick ==
  ASSUME NEW p \in Nat, NEW n \in Nat, NEW r \in Nat, NEW p2 \in Nat, NEW r2 \in Nat,
         p2 <= p, r2 >= r - 1, Ledger(p, p, n, r)
  PROVE  Ledger(p2, 0, n, r2)
BY Limits DEF Ledger

LEMMA TallyTick ==
  ASSUME NEW p \in Nat, NEW n \in Nat, NEW r \in Nat, NEW p2 \in Nat, NEW r2 \in Nat,
         NEW m \in Nat, NEW l \in Nat, NEW m2 \in Nat, NEW l2 \in Nat,
         p2 <= p, r2 >= r - 1, Ledger(p, p, n, r),
         \/ m2 = p2 /\ l2 <= CountWindow
         \/ m2 <= m /\ Tally(m, n, r, l) /\ (m > 0 => l2 <= l - 1)
  PROVE  Tally(m2, n, r2, l2)
BY Limits DEF Ledger, Tally

(* The window of the limiter ends. *)
LEMMA LedgerEnds ==
  ASSUME NEW p \in Nat, NEW n \in 0..ReportMax, NEW p2 \in Nat, NEW r2 \in Nat,
         NEW m \in Nat, NEW l \in Nat, NEW m2 \in Nat, NEW l2 \in Nat,
         n > 0 \/ ReportMax = 0, p2 <= p, Ledger(p, p, n, 1)
  PROVE  /\ Ledger(p2, 0, 0, r2)
         /\ \/ m2 = p2
            \/ m2 <= m /\ Tally(m, n, 1, l) /\ (m > 0 => l > 1)
            => Tally(m2, 0, r2, l2)
BY Limits DEF Ledger, Tally

-----------------------------------------------------------------------------
(* How many reports are passed *)

LEMMA Fewer ==
  ASSUME NEW A, IsFiniteSet(A), NEW B \in SUBSET A
  PROVE  /\ Cardinality(A) \in Nat /\ Cardinality(Young(A)) \in Nat
         /\ Cardinality(Young(A)) <= Cardinality(A)
         /\ IsFiniteSet(B) /\ Cardinality(B) \in Nat /\ Cardinality(Young(B)) \in Nat
         /\ Cardinality(B) <= Cardinality(A) /\ Cardinality(Young(B)) <= Cardinality(Young(A))
<1>1. Young(A) \in SUBSET A /\ Young(B) \in SUBSET Young(A)
  BY DEF Young
<1>2. IsFiniteSet(Young(A)) /\ IsFiniteSet(B)
  BY <1>1, FS_Subset
<1>3. IsFiniteSet(Young(B))
  BY <1>1, <1>2, FS_Subset
<1> QED
  BY <1>1, <1>2, <1>3, FS_Subset, FS_CardinalityType

LEMMA OneMorePassed ==
  ASSUME NEW A, IsFiniteSet(A), NEW k, NEW B \in SUBSET (A \cup {k})
  PROVE  /\ Cardinality(B) <= Cardinality(A) + 1
         /\ Cardinality(Young(B)) <= Cardinality(Young(A)) + 1
<1>1. /\ IsFiniteSet(A \cup {k}) /\ Cardinality(A) \in Nat /\ Cardinality(Young(A)) \in Nat
      /\ Cardinality(A \cup {k}) <= Cardinality(A) + 1
  <2>1. Cardinality(A) \in Nat /\ Cardinality(Young(A)) \in Nat
    BY Fewer
  <2> QED
    BY <2>1, FS_AddElement
<1>2. /\ Cardinality(B) \in Nat /\ Cardinality(B) <= Cardinality(A \cup {k})
      /\ Cardinality(A \cup {k}) \in Nat /\ Cardinality(Young(B)) \in Nat
  BY <1>1, Fewer
<1>3. IsFiniteSet(Young(A)) /\ Young(B) \subseteq Young(A) \cup {k}
  BY FS_Subset DEF Young
<1>4. IsFiniteSet(Young(A) \cup {k}) /\ Cardinality(Young(A) \cup {k}) <= Cardinality(Young(A)) + 1
      /\ Cardinality(Young(A) \cup {k}) \in Nat
  <2>1. /\ IsFiniteSet(Young(A) \cup {k})
        /\ Cardinality(Young(A) \cup {k}) =
             IF k \in Young(A) THEN Cardinality(Young(A)) ELSE Cardinality(Young(A)) + 1
    BY <1>3, FS_AddElement
  <2> QED
    BY <1>1, <2>1
<1>5. Cardinality(Young(B)) <= Cardinality(Young(A) \cup {k})
  BY <1>3, <1>4, FS_Subset
<1> QED
  BY <1>1, <1>2, <1>4, <1>5

(* One report takes the place of another of the same age. *)
LEMMA AsManyPassed ==
  ASSUME NEW A, IsFiniteSet(A), NEW j \in A, NEW k, k.aged = j.aged,
         NEW B \in SUBSET ((A \ {j}) \cup {k})
  PROVE  Cardinality(B) <= Cardinality(A) /\ Cardinality(Young(B)) <= Cardinality(Young(A))
<1>1. /\ IsFiniteSet(A \ {j}) /\ Cardinality(A \ {j}) = Cardinality(A) - 1
      /\ Cardinality(A) \in Nat /\ Cardinality(B) \in Nat
  <2>1. IsFiniteSet(A \ {j}) /\ Cardinality(A \ {j}) = Cardinality(A) - 1
    BY FS_RemoveElement
  <2>2. IsFiniteSet((A \ {j}) \cup {k})
    BY <2>1, FS_AddElement
  <2> QED
    BY <2>1, <2>2, Fewer
<1>2. Cardinality(B) <= Cardinality(A \ {j}) + 1
  BY <1>1, OneMorePassed
<1>3. IsFiniteSet(Young(A)) /\ Cardinality(Young(A)) \in Nat
  <2>1. Young(A) \in SUBSET A
    BY DEF Young
  <2> QED
    BY <2>1, FS_Subset, Fewer
<1>4. CASE j.aged
  <2>1. Young(B) \in SUBSET Young(A)
    BY <1>4 DEF Young
  <2>2. Cardinality(Young(B)) <= Cardinality(Young(A))
    BY <1>3, <2>1, FS_Subset
  <2> QED
    BY <1>1, <1>2, <2>2
<1>5. CASE ~j.aged
  <2>1. Young(A \ {j}) = Young(A) \ {j} /\ j \in Young(A)
    BY <1>5 DEF Young
  <2>2. Cardinality(Young(A \ {j})) = Cardinality(Young(A)) - 1
    BY <1>3, <2>1, FS_RemoveElement
  <2>3. Cardinality(Young(B)) <= Cardinality(Young(A \ {j})) + 1
    BY <1>1, OneMorePassed
  <2>4. IsFiniteSet((A \ {j}) \cup {k})
    BY <1>1, FS_AddElement
  <2>5. Cardinality(Young(B)) \in Nat
    BY <2>4, Fewer
  <2> QED
    BY <1>1, <1>2, <1>3, <2>2, <2>3, <2>5
<1> QED
  BY <1>4, <1>5

PassedRanges ==
  \A x, s : /\ IsFiniteSet(Passed(x, s)) /\ IsFiniteSet(Young(Passed(x, s)))
            /\ Pending(x, s) \in Nat /\ Recent(x, s) \in Nat
            /\ Recent(x, s) <= Pending(x, s)
            /\ Young(Passed(x, s)) # {} <=> Recent(x, s) > 0
            /\ Passed(x, s) # {} <=> Pending(x, s) > 0

LEMMA PassedFinite == JobsInv => PassedRanges
<1> SUFFICES ASSUME JobsInv, NEW x, NEW s
             PROVE  /\ IsFiniteSet(Passed(x, s)) /\ IsFiniteSet(Young(Passed(x, s)))
                    /\ Pending(x, s) \in Nat /\ Recent(x, s) \in Nat
                    /\ Recent(x, s) <= Pending(x, s)
                    /\ Young(Passed(x, s)) # {} <=> Recent(x, s) > 0
                    /\ Passed(x, s) # {} <=> Pending(x, s) > 0
  BY DEF PassedRanges
<1>1. Passed(x, s) \in SUBSET jobs /\ Young(Passed(x, s)) \in SUBSET jobs
  BY DEF Passed, Young
<1>2. IsFiniteSet(Passed(x, s)) /\ IsFiniteSet(Young(Passed(x, s)))
  BY <1>1, FS_Subset DEF JobsInv
<1>3. Pending(x, s) \in Nat /\ Recent(x, s) \in Nat /\ Recent(x, s) <= Pending(x, s)
  BY <1>2, Fewer DEF Pending, Recent
<1> QED
  BY <1>2, <1>3, FS_EmptySet DEF Pending, Recent

(* A job that is past the limiter goes on, or ends. *)
LEMMA PassedGoesOn ==
  ASSUME JobsInv, NEW j \in jobs, NEW k, jobs' \subseteq (jobs \ {j}) \cup {k},
         k.from = j.from, k.about = j.about, k.aged = j.aged,
         k.at \in Passing => j.at \in Passing
  PROVE  \A x, s : Pending(x, s)' <= Pending(x, s) /\ Recent(x, s)' <= Recent(x, s)
<1> SUFFICES ASSUME NEW x, NEW s
             PROVE  Pending(x, s)' <= Pending(x, s) /\ Recent(x, s)' <= Recent(x, s)
  OBVIOUS
<1>1. PICK B : B = Passed(x, s)'
  OBVIOUS
<1>2. B = {i \in jobs' : i.from = x /\ i.about = s /\ i.at \in Passing}
  BY <1>1 DEF Passed
<1>3. IsFiniteSet(Passed(x, s))
  BY PassedFinite DEF PassedRanges
<1>4. CASE j \in Passed(x, s)
  <2>1. B \in SUBSET ((Passed(x, s) \ {j}) \cup {k})
    BY <1>2 DEF Passed
  <2> QED
    BY <1>1, <1>3, <1>4, <2>1, AsManyPassed DEF Pending, Recent
<1>5. CASE j \notin Passed(x, s)
  <2>1. B \in SUBSET Passed(x, s)
    BY <1>2, <1>5 DEF Passed
  <2> QED
    BY <1>1, <1>3, <2>1, Fewer DEF Pending, Recent
<1> QED
  BY <1>4, <1>5

LEMMA PassedShrinks ==
  ASSUME JobsInv, NEW x, NEW s,
         \A i \in jobs' \ jobs : i.at \in Passing => i.from # x \/ i.about # s
  PROVE  Pending(x, s)' <= Pending(x, s) /\ Recent(x, s)' <= Recent(x, s)
<1>1. PICK B : B = Passed(x, s)'
  OBVIOUS
<1>2. B \in SUBSET Passed(x, s)
  BY <1>1 DEF Passed
<1> QED
  BY <1>1, <1>2, PassedFinite, Fewer DEF PassedRanges, Pending, Recent

LEMMA PassedGrows ==
  ASSUME JobsInv, NEW k, \A i \in jobs' : i \in jobs \/ i = k
  PROVE  \A x, s : Pending(x, s)' <= Pending(x, s) + 1 /\ Recent(x, s)' <= Recent(x, s) + 1
<1> SUFFICES ASSUME NEW x, NEW s
             PROVE  Pending(x, s)' <= Pending(x, s) + 1 /\ Recent(x, s)' <= Recent(x, s) + 1
  OBVIOUS
<1>1. PICK B : B = Passed(x, s)'
  OBVIOUS
<1>2. B \in SUBSET (Passed(x, s) \cup {k})
  BY <1>1 DEF Passed
<1> QED
  BY <1>1, <1>2, PassedFinite, OneMorePassed DEF PassedRanges, Pending, Recent

(* A report that is counted was passed. *)
LEMMA PassedIsCounted ==
  ASSUME JobsInv, NEW j \in jobs, j.at \in Passing, j \notin jobs',
         \A i \in jobs' \ jobs : i.at \notin Passing
  PROVE  Pending(j.from, j.about)' <= Pending(j.from, j.about) - 1
         /\ Pending(j.from, j.about)' \in Nat
<1> DEFINE A == Passed(j.from, j.about)
<1>1. PICK B : B = Passed(j.from, j.about)'
  OBVIOUS
<1>2. B \in SUBSET (A \ {j}) /\ j \in A
  BY <1>1 DEF Passed
<1>3. IsFiniteSet(A \ {j}) /\ Cardinality(A \ {j}) = Cardinality(A) - 1
  BY <1>2, PassedFinite, FS_RemoveElement DEF PassedRanges
<1>4. Cardinality(B) <= Cardinality(A \ {j}) /\ Cardinality(B) \in Nat
  BY <1>2, <1>3, Fewer
<1> QED
  BY <1>1, <1>3, <1>4 DEF Pending

-----------------------------------------------------------------------------
(* The reports of one session about another, step by step *)

VoteRanges ==
  \A x \in Sessions, s \in Reportable :
    /\ Limiter(x).n \in Nat /\ Limiter(x).ttl \in 0..ReportWindow
    /\ Votes(s).n \in Nat /\ Votes(s).ttl \in 0..CountWindow
    /\ Spent(x) \in Nat /\ Spent(x) <= ReportMax
    /\ LimitLasts(x) \in Nat /\ LimitLasts(x) <= ReportWindow
    /\ VotesLast(x, s) \in Nat /\ VotesLast(x, s) <= CountWindow + 1
    /\ Pending(x, s) \in Nat /\ Recent(x, s) \in Nat /\ Total(x, s) \in Nat

LEMMA VoteTypes == TypeOK /\ StoreInv => VoteRanges
<1> SUFFICES ASSUME TypeOK, StoreInv, NEW x \in Sessions, NEW s \in Reportable
             PROVE  /\ Limiter(x).n \in Nat /\ Limiter(x).ttl \in 0..ReportWindow
                    /\ Votes(s).n \in Nat /\ Votes(s).ttl \in 0..CountWindow
                    /\ Spent(x) \in Nat /\ Spent(x) <= ReportMax
                    /\ LimitLasts(x) \in Nat /\ LimitLasts(x) <= ReportWindow
                    /\ VotesLast(x, s) \in Nat /\ VotesLast(x, s) <= CountWindow + 1
                    /\ Pending(x, s) \in Nat /\ Recent(x, s) \in Nat /\ Total(x, s) \in Nat
  BY DEF VoteRanges
<1>1. /\ Limiter(x).n \in Nat /\ Limiter(x).ttl \in 0..ReportWindow
      /\ Votes(s).n \in Nat /\ Votes(s).ttl \in 0..CountWindow
  BY CounterNames DEF TypeOK, Limiter, Votes
<1>2. Pending(x, s) \in Nat /\ Recent(x, s) \in Nat
  BY PassedFinite DEF PassedRanges, StoreInv
<1> QED
  BY <1>1, <1>2, Limits DEF Spent, LimitLasts, VotesLast, Total

LEMMA NextRanges ==
  ASSUME TypeOK', StoreInv'
  PROVE  VoteRanges' /\ PassedRanges'
<1>1. VoteRanges'
  BY VoteTypes, PTL
<1>2. JobsInv'
  BY DEF StoreInv
<1>3. PassedRanges'
  BY <1>2, PassedFinite, PTL
<1> QED
  BY <1>1, <1>3

(* Nothing passes, and what is passed or counted lasts no longer. *)
LEMMA VoteLess ==
  ASSUME TypeOK, StoreInv, TypeOK', StoreInv', NEW x \in Sessions, NEW s \in Reportable,
         VoteInv(x, s),
         Spent(x)' = Spent(x), LimitLasts(x)' >= LimitLasts(x),
         Pending(x, s)' <= Pending(x, s), Recent(x, s)' <= Recent(x, s),
         (voters[s] \subseteq {x})' =>
           /\ voters[s] \subseteq {x}
           /\ Total(x, s)' <= Total(x, s) /\ VotesLast(x, s)' <= VotesLast(x, s)
  PROVE  VoteInv(x, s)'
<1>1. /\ Spent(x) \in Nat /\ LimitLasts(x) \in Nat /\ VotesLast(x, s) \in Nat
      /\ Pending(x, s) \in Nat /\ Recent(x, s) \in Nat /\ Total(x, s) \in Nat
  BY VoteTypes DEF VoteRanges
<1>2. /\ LimitLasts(x)' \in Nat /\ VotesLast(x, s)' \in Nat
      /\ Pending(x, s)' \in Nat /\ Recent(x, s)' \in Nat /\ Total(x, s)' \in Nat
  BY NextRanges DEF VoteRanges
<1>3. Ledger(Pending(x, s)', Recent(x, s)', Spent(x)', LimitLasts(x)')
  BY <1>1, <1>2, LedgerLess DEF VoteInv
<1>4. (voters[s] \subseteq {x})'
        => Tally(Total(x, s)', Spent(x)', LimitLasts(x)', VotesLast(x, s)')
  BY <1>1, <1>2, TallyLess DEF VoteInv
<1> QED
  BY <1>3, <1>4 DEF VoteInv

(* Those who owe the count of s its window are what they were. *)
SameAwaited(s) == \A i : Owes(i, <<"reported", s>>) => (i \in jobs <=> i \in jobs')

(* Votes that stay last no longer, while nobody more is awaited. *)
LEMMA LastNoLonger ==
  ASSUME TypeOK, StoreInv, TypeOK', StoreInv', NEW x \in Sessions, NEW s \in Reportable,
         Votes(s)' = Votes(s), SameAwaited(s),
         Votes(s).n > 0 \/ Recent(x, s)' <= Recent(x, s)
  PROVE  VotesLast(x, s)' <= VotesLast(x, s)
<1>1. /\ Votes(s).n \in Nat /\ Votes(s).ttl \in Nat
      /\ Recent(x, s) \in Nat /\ (Young(Passed(x, s)) # {} <=> Recent(x, s) > 0)
  BY VoteTypes, PassedFinite DEF StoreInv, VoteRanges, PassedRanges
<1>3. Recent(x, s)' \in Nat /\ (Young(Passed(x, s)') # {} <=> Recent(x, s)' > 0)
  BY NextRanges DEF PassedRanges
<1>4. CASE Votes(s).n > 0
  <2> DEFINE c == <<"reported", s>>
  <2>1. {j \in jobs : Owes(j, c)} = {j \in jobs' : Owes(j, c)}
    BY DEF SameAwaited
  <2>2. Awaited(x, s)' = Awaited(x, s)
    BY <1>4, <2>1 DEF Awaited
  <2>3. (VotesLast(x, s))' = VotesLast(x, s)
    BY <2>2 DEF VotesLast
  <2> QED
    BY <2>3, VoteTypes DEF VoteRanges
<1>5. CASE Votes(s).n = 0
  <2>1. Awaited(x, s) = Passed(x, s) /\ Awaited(x, s)' = Passed(x, s)'
    BY <1>1, <1>5 DEF Awaited
  <2>2. Young(Awaited(x, s)') # {} => Young(Awaited(x, s)) # {}
    <3>1. Recent(x, s)' > 0 => Recent(x, s) > 0
      BY <1>1, <1>3, <1>5
    <3> QED
      BY <1>1, <1>3, <2>1, <3>1
  <2>3. CountWindow + 1 >= CountWindow /\ CountWindow \in Nat
    BY Limits
  <2> QED
    BY <1>1, <2>2, <2>3 DEF VotesLast
<1> QED
  BY <1>1, <1>4, <1>5

LEMMA VotesUndisturbed ==
  ASSUME TypeOK, StoreInv, TypeOK', StoreInv', NEW x \in Sessions, NEW s \in Reportable,
         VoteInv(x, s),
         Spent(x)' = Spent(x), LimitLasts(x)' >= LimitLasts(x), Votes(s)' = Votes(s),
         SameAwaited(s),
         Pending(x, s)' <= Pending(x, s), Recent(x, s)' <= Recent(x, s), voters'[s] = voters[s]
  PROVE  VoteInv(x, s)'
<1>1. Total(x, s)' <= Total(x, s)
  <2>1. Votes(s).n \in Nat /\ Pending(x, s) \in Nat /\ Pending(x, s)' \in Nat
    BY VoteTypes, NextRanges DEF VoteRanges
  <2> QED
    BY <2>1 DEF Total
<1>2. VotesLast(x, s)' <= VotesLast(x, s)
  BY LastNoLonger
<1> QED
  BY <1>1, <1>2, VoteLess

(* What is new owes s no window. *)
LEMMA NobodyAwaited ==
  ASSUME NEW j \in jobs, NEW s, jobs \ {j} \subseteq jobs', ~Owes(j, <<"reported", s>>),
         \A i \in jobs' \ jobs : ~Owes(i, <<"reported", s>>)
  PROVE  SameAwaited(s)
BY DEF SameAwaited

LEMMA LimitedVotes ==
  ASSUME TypeOK, StoreInv, TypeOK', StoreInv', WindowInv, NEW j \in jobs, Limited(j),
         NEW x \in Sessions, NEW s \in Reportable, VoteInv(x, s)
  PROVE  VoteInv(x, s)'
<1> DEFINE c == LimiterOf(j)
           n == count[c].n
<1>1. /\ j \in Job /\ j.at = "limit" /\ j.from \in Sessions /\ Incr(c)
      /\ c \in Counters /\ c = <<"report", j.from>> /\ n \in Nat /\ Limit(c) = ReportMax
  BY CountedJobs DEF StoreInv, JobsInv, Fits, Opening, Limited, LimiterOf, TypeOK, Limit
<1>2. /\ count'[c].n = n + 1 /\ count'[c].ttl = count[c].ttl
      /\ \A d \in Counters : d # c => count'[d] = count[d]
  BY <1>1, IncrCounts DEF StoreInv, CountType
<1>3. Votes(s)' = Votes(s) /\ voters'[s] = voters[s]
  BY <1>1, <1>2, CounterNames DEF Votes, Limited
<1>4. VoteRanges /\ VoteRanges' /\ JobsInv
  BY VoteTypes, NextRanges DEF StoreInv
<1>5. /\ jobs \ {j} \subseteq jobs' /\ \E k : \A i \in jobs' : i \in jobs \/ i = k
      /\ \A i \in jobs' \ jobs :
           /\ i.from = j.from
           /\ (i.at = "window" /\ n = 0) \/ (i.at = "save" /\ n > 0 /\ n < ReportMax)
  <2>1. CASE Goes(j, "window") /\ First(n + 1)
    <3>1. PICK k \in Job : /\ jobs' = (jobs \ {j}) \cup {k}
                           /\ k.at = "window" /\ k.from = j.from
      BY <1>1, <2>1, GoesOn DEF Places
    <3> QED
      BY <1>1, <2>1, <3>1 DEF First
  <2>2. CASE Goes(j, "save") /\ ~First(n + 1) /\ Allowed(c)
    <3>1. PICK k \in Job : /\ jobs' = (jobs \ {j}) \cup {k}
                           /\ k.at = "save" /\ k.from = j.from
      BY <1>1, <2>2, GoesOn DEF Places
    <3> QED
      BY <1>1, <2>2, <3>1 DEF First, Allowed
  <2>3. CASE Ends(j)
    BY <2>3 DEF Ends, Becomes
  <2> QED
    BY <2>1, <2>2, <2>3 DEF Limited
<1>6. SameAwaited(s)
  BY <1>1, <1>5, NobodyAwaited DEF Owes, LimiterOf
<1>7. CASE x # j.from \/ ~(n < ReportMax)
  <2>1. Pending(x, s)' <= Pending(x, s) /\ Recent(x, s)' <= Recent(x, s)
    <3>1. \A i \in jobs' \ jobs : i.at \in Passing => i.from # x \/ i.about # s
      BY <1>1, <1>5, <1>7, Limits DEF Passing
    <3> QED
      BY <1>4, <3>1, PassedShrinks
  <2>2. Spent(x)' = Spent(x) /\ LimitLasts(x)' >= LimitLasts(x)
    <3>1. CASE x # j.from
      <4>1. Limiter(x)' = Limiter(x)
        BY <1>1, <1>2, <3>1, CounterNames DEF Limiter
      <4> QED
        BY <1>4, <4>1, Limits DEF Spent, LimitLasts, VoteRanges
    <3>2. CASE x = j.from /\ ~(n < ReportMax)
      <4>1. Limiter(x).n = n /\ (Limiter(x)').n = n + 1 /\ (Limiter(x)').ttl = Limiter(x).ttl
        BY <1>1, <1>2, <3>2 DEF Limiter
      <4> QED
        BY <1>1, <1>4, <3>2, <4>1, Limits DEF Spent, LimitLasts, VoteRanges
    <3> QED
      BY <1>7, <3>1, <3>2
  <2> QED
    BY <1>3, <1>6, <2>1, <2>2, VotesUndisturbed
<1>8. CASE x = j.from /\ n < ReportMax
  <2>1. /\ Pending(x, s)' <= Pending(x, s) + 1 /\ Recent(x, s)' <= Recent(x, s) + 1
        /\ Total(x, s)' <= Total(x, s) + 1
    <3>1. Pending(x, s)' <= Pending(x, s) + 1 /\ Recent(x, s)' <= Recent(x, s) + 1
      BY <1>4, <1>5, PassedGrows
    <3>2. Votes(s).n \in Nat /\ Pending(x, s) \in Nat /\ Pending(x, s)' \in Nat
      BY <1>4 DEF VoteRanges
    <3> QED
      BY <1>3, <3>1, <3>2 DEF Total
  <2>2. Limiter(x).n = n /\ (Limiter(x)').n = n + 1 /\ (Limiter(x)').ttl = Limiter(x).ttl
    BY <1>1, <1>2, <1>8 DEF Limiter
  <2>3. /\ Spent(x) = n /\ Spent(x)' = n + 1 /\ LimitLasts(x)' = LimitLasts(x)
        /\ n = 0 => LimitLasts(x) = ReportWindow
    <3>1. n = 0 => Limiter(x).ttl = 0
      BY <1>1, <1>8 DEF WindowInv, Limiter
    <3> QED
      BY <1>1, <1>8, <2>2, <3>1, Limits DEF Spent, LimitLasts
  <2>4. VotesLast(x, s)' <= VotesLast(x, s)
        \/ (Total(x, s) = Pending(x, s) /\ VotesLast(x, s)' <= CountWindow + 1)
    <3>1. CASE Votes(s).n > 0
      BY <1>3, <1>6, <3>1, LastNoLonger
    <3>2. CASE Votes(s).n = 0
      BY <1>4, <3>2 DEF Total, VoteRanges
    <3> QED
      BY <1>4, <3>1, <3>2 DEF VoteRanges
  <2>5. /\ Pending(x, s) \in Nat /\ Recent(x, s) \in Nat /\ Total(x, s) \in Nat
        /\ VotesLast(x, s) \in Nat /\ LimitLasts(x) \in Nat
        /\ Pending(x, s)' \in Nat /\ Recent(x, s)' \in Nat /\ Total(x, s)' \in Nat
        /\ VotesLast(x, s)' \in Nat /\ VotesLast(x, s)' <= CountWindow + 1
    BY <1>4 DEF VoteRanges
  <2>6. /\ Ledger(Pending(x, s), Recent(x, s), n, LimitLasts(x))
        /\ voters[s] \subseteq {x} => Tally(Total(x, s), n, LimitLasts(x), VotesLast(x, s))
    BY <2>3 DEF VoteInv
  <2>7. /\ Ledger(Pending(x, s)', Recent(x, s)', n + 1, LimitLasts(x))
        /\ voters[s] \subseteq {x} => Tally(Total(x, s)', n + 1, LimitLasts(x), VotesLast(x, s)')
    <3>1. CASE n = 0
      <4>1. /\ Ledger(Pending(x, s), Recent(x, s), 0, LimitLasts(x))
            /\ voters[s] \subseteq {x} => Tally(Total(x, s), 0, LimitLasts(x), VotesLast(x, s))
        BY <2>6, <3>1
      <4>2. /\ Ledger(Pending(x, s)', Recent(x, s)', 1, ReportWindow)
            /\ voters[s] \subseteq {x}
                 => Tally(Total(x, s)', 1, ReportWindow, VotesLast(x, s)')
        BY <1>8, <2>1, <2>5, <3>1, <4>1, LedgerFirst
      <4> QED
        BY <2>3, <3>1, <4>2
    <3>2. CASE n > 0
      BY <1>1, <2>1, <2>4, <2>5, <2>6, <3>2, LedgerPass
    <3> QED
      BY <1>1, <3>1, <3>2
  <2> QED
    BY <1>3, <2>3, <2>7 DEF VoteInv
<1> QED
  BY <1>7, <1>8

LEMMA OpeningVotes ==
  ASSUME TypeOK, StoreInv, TypeOK', StoreInv', WindowInv, NEW j \in jobs, WindowOpens(j),
         NEW x \in Sessions, NEW s \in Reportable, VoteInv(x, s)
  PROVE  VoteInv(x, s)'
<1> DEFINE c == LimiterOf(j)
<1>1. /\ j \in Job /\ j.at = "window" /\ j.from \in Sessions /\ Expire(c)
      /\ c \in Counters /\ c = <<"report", j.from>> /\ Window(c) = ReportWindow
  BY CountedJobs, CounterNames DEF StoreInv, JobsInv, Fits, Opening, WindowOpens, LimiterOf
<1>2. /\ count'[c].n = count[c].n /\ count'[c].ttl = ReportWindow
      /\ \A d \in Counters : d # c => count'[d] = count[d]
  BY <1>1, ExpireOpens DEF StoreInv, CountType
<1>3. Votes(s)' = Votes(s) /\ voters'[s] = voters[s]
  BY <1>1, <1>2, CounterNames DEF Votes, WindowOpens
<1>4. Spent(x)' = Spent(x) /\ LimitLasts(x)' >= LimitLasts(x)
  <2>1. Limiter(x).ttl \in Nat /\ LimitLasts(x) \in Nat /\ LimitLasts(x) <= ReportWindow
    BY VoteTypes DEF VoteRanges
  <2>2. CASE x = j.from
    BY <1>1, <1>2, <2>1, <2>2, Limits DEF Spent, LimitLasts, Limiter
  <2>3. CASE x # j.from
    <3>1. Limiter(x)' = Limiter(x)
      BY <1>1, <1>2, <2>3, CounterNames DEF Limiter
    <3> QED
      BY <2>1, <3>1 DEF Spent, LimitLasts
  <2> QED
    BY <2>2, <2>3
<1>5. /\ Pending(x, s)' <= Pending(x, s) /\ Recent(x, s)' <= Recent(x, s)
      /\ SameAwaited(s)
  <2>1. CASE ReportMax > 0
    <3>1. PICK k \in Job : /\ jobs' = (jobs \ {j}) \cup {k} /\ k.at = "save"
                           /\ k.from = j.from /\ k.about = j.about /\ k.aged = j.aged
      BY <1>1, <2>1, GoesOn DEF WindowOpens, Places
    <3>2. j.at \in Passing
      BY <1>1, <2>1 DEF Passing
    <3>3. SameAwaited(s)
      BY <1>1, <3>1, NobodyAwaited DEF Owes, LimiterOf
    <3> QED
      BY <3>1, <3>2, <3>3, PassedGoesOn DEF StoreInv
  <2>2. CASE ~(ReportMax > 0)
    <3>1. jobs' = jobs \ {j}
      BY <2>2 DEF WindowOpens, Ends, Becomes
    <3>2. SameAwaited(s)
      BY <1>1, <3>1, NobodyAwaited DEF Owes, LimiterOf
    <3> QED
      BY <3>1, <3>2, PassedShrinks DEF StoreInv
  <2> QED
    BY <2>1, <2>2
<1> QED
  BY <1>3, <1>4, <1>5, VotesUndisturbed

(* What a report at the counter becomes is not passed any more. *)
LEMMA CountedIsPast ==
  ASSUME TypeOK, StoreInv, NEW j \in jobs, CountReport(j) \/ CountWindowOpens(j)
  PROVE  /\ jobs \ {j} \subseteq jobs' /\ j \notin jobs'
         /\ \A i \in jobs' \ jobs :
              /\ i.about = j.about /\ i.aged = j.aged
              /\ \/ i.at = "countWindow" /\ CountReport(j) /\ Votes(j.about).n = 0
                 \/ i.at = "ban"
<1> DEFINE v == voters[j.about] \cup {j.from}
<1>1. /\ j \in Job /\ j.at \in {"count", "countWindow"}
      /\ v \in SUBSET Sessions /\ {j.from} \in SUBSET Sessions /\ Votes(j.about).n \in Nat
  BY CounterNames DEF StoreInv, JobsInv, Fits, Opening, TypeOK, CountReport, CountWindowOpens, Votes
<1>2. CASE CountReport(j) /\ Votes(j.about).n = 0
  <2>1. j.at = "count" /\ Goes(j, "countWindow")
    BY <1>2 DEF CountReport, First, Votes
  <2>2. PICK k \in Job : /\ jobs' = (jobs \ {j}) \cup {k} /\ k \notin jobs /\ k.at = "countWindow"
                         /\ k.about = j.about /\ k.aged = j.aged
    BY <1>1, <2>1, GoesOn DEF Places
  <2> QED
    BY <1>2, <2>1, <2>2
<1>3. ASSUME NEW w \in SUBSET Sessions, Bans(j, w)
      PROVE  /\ jobs \ {j} \subseteq jobs' /\ j \notin jobs'
             /\ \A i \in jobs' \ jobs : i.about = j.about /\ i.aged = j.aged /\ i.at = "ban"
  <2>1. PICK k \in Job : /\ jobs' = (jobs \ {j}) \cup {k} /\ k \notin jobs /\ k.at = "ban"
                         /\ k.about = j.about /\ k.aged = j.aged
    BY <1>1, <1>3, GoesToBan
  <2> QED
    BY <1>1, <2>1
<1>4. CASE Ends(j)
  BY <1>4 DEF Ends, Becomes
<1>5. Ends(j) \/ Bans(j, v) \/ Bans(j, {j.from}) \/ (CountReport(j) /\ Votes(j.about).n = 0)
  <2>1. CASE CountReport(j)
    <3>1. First(Votes(j.about).n + 1) => Votes(j.about).n = 0
      BY <1>1 DEF First
    <3> QED
      BY <2>1, <3>1 DEF CountReport, Votes
  <2>2. CASE CountWindowOpens(j)
    BY <2>2 DEF CountWindowOpens
  <2> QED
    BY <2>1, <2>2
<1> QED
  BY <1>1, <1>2, <1>3, <1>4, <1>5

LEMMA CountOpeningVotes ==
  ASSUME TypeOK, StoreInv, TypeOK', StoreInv', WindowInv, NEW j \in jobs, CountWindowOpens(j),
         NEW x \in Sessions, NEW s \in Reportable, VoteInv(x, s)
  PROVE  VoteInv(x, s)'
<1> DEFINE c == <<"reported", j.about>>
<1>1. /\ j \in Job /\ j.at = "countWindow" /\ j.about \in Reportable /\ Expire(c)
      /\ c \in Counters /\ Window(c) = CountWindow /\ Owes(j, c)
  BY CountedJobs, CounterNames DEF StoreInv, JobsInv, Fits, Opening, CountWindowOpens, Owes
<1>2. /\ count'[c].n = count[c].n /\ count'[c].ttl = CountWindow
      /\ \A d \in Counters : d # c => count'[d] = count[d]
  BY <1>1, ExpireOpens DEF StoreInv, CountType
<1>3. Limiter(x)' = Limiter(x) /\ voters'[s] = voters[s]
  BY <1>1, <1>2, CounterNames DEF Limiter, CountWindowOpens
<1>4. Spent(x)' = Spent(x) /\ LimitLasts(x)' = LimitLasts(x) /\ VoteRanges /\ VoteRanges'
  BY <1>3, VoteTypes, NextRanges DEF Spent, LimitLasts
<1>5. Pending(x, s)' <= Pending(x, s) /\ Recent(x, s)' <= Recent(x, s)
  <2>1. \A i \in jobs' \ jobs : i.at \notin Passing
    BY CountedIsPast DEF Passing, CountReport, CountWindowOpens
  <2> QED
    BY <2>1, PassedShrinks DEF StoreInv
<1>6. CASE s # j.about
  <2>1. Votes(s)' = Votes(s)
    BY <1>1, <1>2, <1>6, CounterNames DEF Votes
  <2>2. SameAwaited(s)
    BY <1>6, CountedIsPast, NobodyAwaited DEF Owes, LimiterOf, CountWindowOpens
  <2> QED
    BY <1>3, <1>4, <1>5, <2>1, <2>2, VotesUndisturbed DEF VoteRanges
<1>7. CASE s = j.about
  <2>1. Votes(s).ttl = 0 /\ (Votes(s)').ttl = CountWindow /\ (Votes(s)').n = Votes(s).n
    BY <1>1, <1>2, <1>7 DEF WindowInv, Votes
  <2>2. Total(x, s)' <= Total(x, s)
    BY <1>4, <1>5, <2>1 DEF Total, VoteRanges
  <2>3. VotesLast(x, s)' <= VotesLast(x, s)
    BY <2>1, Limits DEF VotesLast
  <2> QED
    BY <1>3, <1>4, <1>5, <2>2, <2>3, VoteLess DEF VoteRanges
<1> QED
  BY <1>6, <1>7

(* The first report that is counted has the rest of its tick to open the   *)
(* window, as it had before it was.                                        *)
LEMMA FirstCounted ==
  ASSUME TypeOK, StoreInv, WindowInv, NEW j \in jobs, CountReport(j),
         Votes(j.about).n = 0, (Votes(j.about)').n = 1, (Votes(j.about)').ttl = 0
  PROVE  VotesLast(j.from, j.about)' <= VotesLast(j.from, j.about)
<1> DEFINE c == <<"reported", j.about>>
           x == j.from
           s == j.about
<1>1. j.at = "count" /\ s \in Reportable /\ c \in Counters /\ Votes(s).ttl = 0
  BY CountedJobs DEF StoreInv, JobsInv, Fits, Opening, CountReport, WindowInv, Votes
<1>2. \A i \in jobs : ~Owes(i, c)
  BY <1>1 DEF WindowInv, Votes
<1>3. j \in Passed(x, s)
  BY <1>1 DEF Passed, Passing
<1>4. Awaited(x, s) = Passed(x, s)
  BY DEF Awaited
<1>5. PICK w : w = Awaited(x, s)'
  OBVIOUS
<1>6. w = {i \in jobs' : Owes(i, c)}
  BY <1>5 DEF Awaited
<1>7. \A i \in w : i.aged = j.aged
  BY <1>2, <1>6, CountedIsPast
<1>8. Young(w) # {} => Young(Awaited(x, s)) # {}
  BY <1>3, <1>4, <1>7 DEF Young
<1>9. CountWindow + 1 >= CountWindow /\ CountWindow \in Nat
  BY Limits
<1> QED
  BY <1>1, <1>5, <1>8, <1>9 DEF VotesLast

LEMMA CountVotes ==
  ASSUME TypeOK, StoreInv, TypeOK', StoreInv', WindowInv, NEW j \in jobs, CountReport(j),
         NEW x \in Sessions, NEW s \in Reportable, VoteInv(x, s)
  PROVE  VoteInv(x, s)'
<1> DEFINE c == <<"reported", j.about>>
<1>1. /\ j \in Job /\ j.at = "count" /\ j.about \in Reportable /\ Incr(c) /\ c \in Counters
      /\ voters' = [voters EXCEPT ![j.about] = voters[j.about] \cup {j.from}]
      /\ voters \in [Reportable -> SUBSET Sessions]
  BY CountedJobs DEF StoreInv, JobsInv, Fits, Opening, CountReport, TypeOK
<1>2. /\ count'[c].n = count[c].n + 1 /\ count'[c].ttl = count[c].ttl
      /\ \A d \in Counters : d # c => count'[d] = count[d]
  BY <1>1, IncrCounts DEF StoreInv, CountType
<1>3. Limiter(x)' = Limiter(x)
  BY <1>1, <1>2, CounterNames DEF Limiter
<1>4. Spent(x)' = Spent(x) /\ LimitLasts(x)' = LimitLasts(x) /\ VoteRanges /\ VoteRanges'
  BY <1>3, VoteTypes, NextRanges DEF Spent, LimitLasts
<1>5. \A i \in jobs' \ jobs : i.at \notin Passing
  BY CountedIsPast DEF Passing
<1>6. Pending(x, s)' <= Pending(x, s) /\ Recent(x, s)' <= Recent(x, s)
  BY <1>5, PassedShrinks DEF StoreInv
<1>7. CASE s # j.about
  <2>1. Votes(s)' = Votes(s) /\ voters'[s] = voters[s]
    BY <1>1, <1>2, <1>7, CounterNames DEF Votes
  <2>2. SameAwaited(s)
    BY <1>7, CountedIsPast, NobodyAwaited DEF Owes, LimiterOf, CountReport
  <2> QED
    BY <1>4, <1>6, <2>1, <2>2, VotesUndisturbed DEF VoteRanges
<1>8. CASE s = j.about
  <2>1. (Votes(s)').n = Votes(s).n + 1 /\ (Votes(s)').ttl = Votes(s).ttl
        /\ voters'[s] = voters[s] \cup {j.from}
    BY <1>1, <1>2, <1>8 DEF Votes
  <2>2. CASE x # j.from
    <3>1. ~(voters[s] \subseteq {x})'
      BY <2>1, <2>2
    <3> QED
      BY <1>4, <1>6, <3>1, VoteLess DEF VoteRanges
  <2>3. CASE x = j.from
    <3>1. Total(x, s)' <= Total(x, s)
      <4>1. Pending(x, s)' <= Pending(x, s) - 1
        BY <1>1, <1>5, <1>8, <2>3, CountedIsPast, PassedIsCounted DEF Passing, StoreInv
      <4> QED
        BY <1>4, <2>1, <4>1 DEF Total, VoteRanges
    <3>2. VotesLast(x, s)' <= VotesLast(x, s)
      <4>1. CASE Votes(s).n = 0
        <5>1. Votes(s).ttl = 0
          BY <1>1, <1>8, <4>1 DEF WindowInv, Votes
        <5> QED
          BY <1>8, <2>1, <2>3, <4>1, <5>1, FirstCounted
      <4>2. CASE Votes(s).n > 0
        <5>1. \A i : Owes(i, c) => (i \in jobs <=> i \in jobs')
          BY <1>1, <1>8, <4>2, CountedIsPast DEF Owes, LimiterOf
        <5>2. {i \in jobs : Owes(i, c)} = {i \in jobs' : Owes(i, c)}
          BY <5>1
        <5>3. (Votes(s)').n > 0
          BY <1>4, <2>1 DEF VoteRanges
        <5>4. Awaited(x, s)' = Awaited(x, s)
          BY <1>8, <4>2, <5>2, <5>3 DEF Awaited
        <5>5. (VotesLast(x, s))' = VotesLast(x, s)
          BY <2>1, <5>4 DEF VotesLast
        <5> QED
          BY <1>4, <5>5 DEF VoteRanges
      <4> QED
        BY <1>4, <4>1, <4>2 DEF VoteRanges
    <3> QED
      BY <1>4, <1>6, <2>1, <2>3, <3>1, <3>2, VoteLess DEF VoteRanges
  <2> QED
    BY <2>2, <2>3
<1> QED
  BY <1>7, <1>8

(* A counter that counts and has no window waits for one. *)
LEMMA SomebodyAwaited ==
  ASSUME TypeOK, StoreInv, EndlessInv, faults = 0, NEW s \in Reportable,
         Votes(s).n > 0, Votes(s).ttl = 0
  PROVE  \E j \in jobs : Owes(j, <<"reported", s>>)
<1>1. Cardinality(EndlessOnes) = 0
  BY FS_CardinalityType DEF EndlessInv
<1>2. EndlessOnes = {}
  BY <1>1, FS_EmptySet DEF EndlessInv
<1> QED
  BY <1>2, CounterNames DEF EndlessOnes, Endless, Votes

LEMMA JobsAged == ASSUME JobsInv, Tick PROVE \A i \in jobs' : i.aged
<1> SUFFICES ASSUME NEW j \in jobs PROVE [j EXCEPT !.aged = TRUE].aged
  BY DEF Tick
<1> QED
  BY Aging DEF JobsInv

(* Everything was passed in this tick, and nothing in the next. *)
LEMMA PassedAges ==
  ASSUME JobsInv, Tick, NEW x, NEW s
  PROVE  /\ Recent(x, s) = Pending(x, s) /\ Recent(x, s)' = 0
         /\ Pending(x, s)' <= Pending(x, s)
<1>1. /\ \A j \in jobs : j \in Job /\ ~j.aged
      /\ jobs' = {[j EXCEPT !.aged = TRUE] : j \in jobs}
  BY DEF Tick, JobsInv
<1>2. \A i \in jobs' : i.aged
  BY JobsAged
<1>3. Young(Passed(x, s)) = Passed(x, s)
  BY <1>1 DEF Young, Passed
<1>4. PICK B : B = Passed(x, s)'
  OBVIOUS
<1>5. B = {i \in jobs' : i.from = x /\ i.about = s /\ i.at \in Passing}
  BY <1>4 DEF Passed
<1>6. Young(B) = {}
  BY <1>2, <1>5 DEF Young
<1>7. IsFiniteSet(Passed(x, s)) /\ Cardinality(B) <= Cardinality(Passed(x, s))
  <2> DEFINE f == [j \in Passed(x, s) |-> [j EXCEPT !.aged = TRUE]]
  <2>1. \A j \in Passed(x, s) : [j EXCEPT !.aged = TRUE] \in B
    BY <1>1, <1>5, Aging DEF Passed
  <2>2. \A i \in B : \E j \in Passed(x, s) : i = [j EXCEPT !.aged = TRUE]
    <3> SUFFICES ASSUME NEW i \in B PROVE \E j \in Passed(x, s) : i = [j EXCEPT !.aged = TRUE]
      OBVIOUS
    <3>1. PICK j \in jobs : i = [j EXCEPT !.aged = TRUE]
      BY <1>1, <1>5
    <3>2. j.from = i.from /\ j.about = i.about /\ j.at = i.at
      BY <1>1, <3>1, Aging
    <3> QED
      BY <1>5, <3>1, <3>2 DEF Passed
  <2>3. f \in Surjection(Passed(x, s), B)
    BY <2>1, <2>2 DEF Surjection
  <2> QED
    BY <2>3, PassedFinite, FS_Surjection DEF PassedRanges
<1> QED
  BY <1>3, <1>4, <1>6, <1>7, FS_EmptySet DEF Recent, Pending

LEMMA TickVotes ==
  ASSUME TypeOK, StoreInv, TypeOK', StoreInv', WindowInv, EndlessInv, faults = 0, Tick,
         NEW x \in Sessions, NEW s \in Reportable, VoteInv(x, s)
  PROVE  VoteInv(x, s)'
<1> DEFINE p == Pending(x, s)
           m == Total(x, s)
           l == VotesLast(x, s)
<1>1. VoteRanges /\ VoteRanges' /\ Recent(x, s) = p /\ Recent(x, s)' = 0 /\ Pending(x, s)' <= p
  BY VoteTypes, NextRanges, PassedAges DEF StoreInv
<1>2. /\ p \in Nat /\ m \in Nat /\ l \in Nat /\ Spent(x) \in Nat /\ LimitLasts(x) \in Nat
      /\ Spent(x) <= ReportMax
      /\ Limiter(x).n \in Nat /\ Limiter(x).ttl \in Nat /\ Votes(s).n \in Nat /\ Votes(s).ttl \in Nat
      /\ Pending(x, s)' \in Nat /\ Total(x, s)' \in Nat /\ VotesLast(x, s)' \in Nat
      /\ Spent(x)' \in Nat /\ LimitLasts(x)' \in Nat
      /\ (Votes(s)').n \in Nat
  BY <1>1 DEF VoteRanges
<1>3. Ledger(p, p, Spent(x), LimitLasts(x))
  BY <1>1 DEF VoteInv
<1>4. \A c \in Counters :
        IF count[c].ttl = 1 THEN count'[c].n = 0 /\ count'[c].ttl = 0
        ELSE count'[c].n = count[c].n /\ count'[c].ttl = Older(count[c].ttl)
  BY TickCounts DEF StoreInv, CountType
<1>5. /\ IF Limiter(x).ttl = 1 THEN (Limiter(x)').n = 0 /\ (Limiter(x)').ttl = 0
         ELSE (Limiter(x)').n = Limiter(x).n /\ (Limiter(x)').ttl = Older(Limiter(x).ttl)
      /\ IF Votes(s).ttl = 1 THEN (Votes(s)').n = 0 /\ (Votes(s)').ttl = 0
         ELSE (Votes(s)').n = Votes(s).n /\ (Votes(s)').ttl = Older(Votes(s).ttl)
  BY <1>4, CounterNames DEF Limiter, Votes
<1>6. /\ Limiter(x).n = 0 => Limiter(x).ttl = 0
      /\ Votes(s).n = 0 => Votes(s).ttl = 0
  BY CounterNames DEF WindowInv, Limiter, Votes
<1>7. voters'[s] = IF Votes(s).ttl = 1 THEN {} ELSE voters[s]
  BY DEF Tick, Votes
(* What was counted or passed *)
<1>8. (voters[s] \subseteq {x})' =>
        \/ Total(x, s)' = Pending(x, s)' /\ VotesLast(x, s)' <= CountWindow
        \/ /\ Total(x, s)' <= m /\ Tally(m, Spent(x), LimitLasts(x), l)
           /\ m > 0 => VotesLast(x, s)' <= l - 1 /\ l > 1
  <2>1. CASE Votes(s).ttl = 1 \/ Votes(s).n = 0
    <3>1. (Votes(s)').n = 0 /\ (Votes(s)').ttl = 0
      BY <1>2, <1>5, <1>6, <2>1 DEF Older
    <3>2. Total(x, s)' = Pending(x, s)'
      BY <1>2, <3>1 DEF Total
    <3>3. Awaited(x, s)' = Passed(x, s)'
      BY <3>1 DEF Awaited
    <3>4. Young(Passed(x, s)') = {}
      BY <1>1, NextRanges DEF PassedRanges
    <3>5. VotesLast(x, s)' = CountWindow
      BY <3>1, <3>3, <3>4 DEF VotesLast
    <3> QED
      BY <3>2, <3>5, Limits
  <2>2. CASE Votes(s).ttl # 1 /\ Votes(s).n > 0
    <3>1. (Votes(s)').n = Votes(s).n /\ (Votes(s)').ttl = Older(Votes(s).ttl)
          /\ voters'[s] = voters[s]
      BY <1>5, <1>7, <2>2
    <3>2. Total(x, s)' <= m
      BY <1>1, <1>2, <3>1 DEF Total
    <3>3. CASE Votes(s).ttl = 0
      <4>1. PICK j \in jobs : Owes(j, <<"reported", s>>)
        BY <2>2, <3>3, SomebodyAwaited
      <4>2. j \in Young(Awaited(x, s))
        BY <2>2, <4>1 DEF Young, Awaited, Tick
      <4>3. l = CountWindow + 1
        BY <3>3, <4>2 DEF VotesLast
      <4>4. \A i \in jobs' : i.aged
        BY JobsAged DEF StoreInv
      <4>5. Young(Awaited(x, s)') = {}
        BY <4>4 DEF Young, Awaited, Passed
      <4>6. VotesLast(x, s)' = CountWindow
        BY <3>1, <3>3, <4>5 DEF VotesLast, Older
      <4> QED
        BY <3>1, <3>2, <4>3, <4>6, Limits DEF VoteInv
    <3>4. CASE Votes(s).ttl > 1
      <4>1. l = Votes(s).ttl /\ VotesLast(x, s)' = Votes(s).ttl - 1
        BY <1>2, <3>1, <3>4 DEF VotesLast, Older
      <4> QED
        BY <1>2, <3>1, <3>2, <3>4, <4>1 DEF VoteInv
    <3> QED
      BY <1>2, <2>2, <3>3, <3>4
  <2> QED
    BY <1>2, <2>1, <2>2
(* The limiter *)
<1>9. CASE Limiter(x).ttl = 1
  <2>1. LimitLasts(x) = 1 /\ Spent(x)' = 0 /\ (Spent(x) > 0 \/ ReportMax = 0)
    BY <1>2, <1>5, <1>6, <1>9, Limits DEF LimitLasts, Spent
  <2>2. Ledger(p, p, Spent(x), 1)
    BY <1>3, <2>1
  <2>3. (voters[s] \subseteq {x})' =>
          \/ Total(x, s)' = Pending(x, s)'
          \/ /\ Total(x, s)' <= m /\ Tally(m, Spent(x), 1, l)
             /\ m > 0 => l > 1
    BY <1>8, <2>1
  <2>4. Spent(x) \in 0..ReportMax
    BY <1>2, Limits
  <2>5. /\ Ledger(Pending(x, s)', 0, 0, LimitLasts(x)')
        /\ (voters[s] \subseteq {x})'
             => Tally(Total(x, s)', 0, LimitLasts(x)', VotesLast(x, s)')
    BY <1>1, <1>2, <2>1, <2>2, <2>3, <2>4, LedgerEnds
  <2> QED
    BY <1>1, <2>1, <2>5 DEF VoteInv
<1>10. CASE Limiter(x).ttl # 1
  <2>1. Spent(x)' = Spent(x) /\ LimitLasts(x)' >= LimitLasts(x) - 1
    BY <1>2, <1>5, <1>10, Limits DEF LimitLasts, Spent, Older
  <2>2. /\ Ledger(Pending(x, s)', 0, Spent(x), LimitLasts(x)')
        /\ (voters[s] \subseteq {x})'
             => Tally(Total(x, s)', Spent(x), LimitLasts(x)', VotesLast(x, s)')
    BY <1>1, <1>2, <1>3, <1>8, <2>1, LedgerTick, TallyTick
  <2> QED
    BY <1>1, <2>1, <2>2 DEF VoteInv
<1> QED
  BY <1>9, <1>10

(* What neither counts nor lets anybody by *)
LEMMA RestVotes ==
  ASSUME TypeOK, StoreInv, TypeOK', StoreInv', NEW x \in Sessions, NEW s \in Reportable,
         VoteInv(x, s),
         Limiter(x)' = Limiter(x), Votes(s)' = Votes(s), voters'[s] = voters[s],
         SameAwaited(s), Pending(x, s)' <= Pending(x, s), Recent(x, s)' <= Recent(x, s)
  PROVE  VoteInv(x, s)'
<1>1. Spent(x)' = Spent(x) /\ LimitLasts(x)' = LimitLasts(x)
  BY DEF Spent, LimitLasts
<1>2. LimitLasts(x) \in Nat
  BY VoteTypes DEF VoteRanges
<1> QED
  BY <1>1, <1>2, VotesUndisturbed

LEMMA RestPasses ==
  ASSUME StoreInv, NEW j \in jobs,
         \/ Inquires(j) \/ CreateSession(j) \/ SaveReport(j) \/ SaveBan(j) \/ CacheBan(j)
  PROVE  \A x \in Sessions, s \in Reportable :
           Pending(x, s)' <= Pending(x, s) /\ Recent(x, s)' <= Recent(x, s)
<1>0. JobsInv /\ j \in Job
  BY DEF StoreInv, JobsInv
<1>1. CASE Ends(j)
  BY <1>0, <1>1, PassedShrinks DEF Ends, Becomes
<1>2. ASSUME NEW at \in Opening \cup {"cache"}, Goes(j, at)
      PROVE  \A i \in jobs' \ jobs : i.at \notin Passing
  <2>1. PICK k \in Job : jobs' = (jobs \ {j}) \cup {k} /\ k.at = at
    BY <1>0, <1>2, GoesOn DEF Places, Opening
  <2> QED
    BY <2>1 DEF Passing, Opening
<1>3. ASSUME j.at = "save", Goes(j, "count")
      PROVE  \A x, s : Pending(x, s)' <= Pending(x, s) /\ Recent(x, s)' <= Recent(x, s)
  <2>1. PICK k \in Job : /\ jobs' = (jobs \ {j}) \cup {k} /\ k.at = "count"
                         /\ k.from = j.from /\ k.about = j.about /\ k.aged = j.aged
    BY <1>0, <1>3, GoesOn DEF Places
  <2>2. j.at \in Passing
    BY <1>3 DEF Passing
  <2> QED
    BY <1>0, <2>1, <2>2, PassedGoesOn
<1>4. Ends(j) \/ (\E at \in Opening \cup {"cache"} : Goes(j, at)) \/ (j.at = "save" /\ Goes(j, "count"))
  BY Inquiry DEF CreateSession, SaveReport, SaveBan, CacheBan
<1> QED
  BY <1>0, <1>1, <1>2, <1>3, <1>4, PassedShrinks

LEMMA NextVotes ==
  ASSUME TypeOK, StoreInv, TypeOK', StoreInv', WindowInv, EndlessInv, VotesInv, [Next]_vars
  PROVE  VotesInv'
<1>0. faults \in Nat /\ faults' \in Nat /\ faults' >= faults
  BY NextSessions DEF TypeOK
<1> SUFFICES ASSUME faults' = 0, NEW x \in Sessions, NEW s \in Reportable PROVE VoteInv(x, s)'
  BY DEF VotesInv
<1>1. faults = 0 /\ VoteInv(x, s) /\ JobsInv
  BY <1>0 DEF VotesInv, StoreInv
<1>2. ASSUME UNCHANGED <<count, voters>>, SameDebtorsBut({}),
             Pending(x, s)' <= Pending(x, s), Recent(x, s)' <= Recent(x, s)
      PROVE  VoteInv(x, s)'
  <2>1. SameAwaited(s)
    BY <1>2, Debts DEF SameDebtorsBut, SameAwaited
  <2>2. Limiter(x)' = Limiter(x) /\ Votes(s)' = Votes(s)
    BY <1>2 DEF Limiter, Votes
  <2> QED
    BY <1>1, <1>2, <2>1, <2>2, RestVotes
<1>3. ASSUME NEW u \in Users, InitSession(u) PROVE VoteInv(x, s)'
  <2>1. SameDebtorsBut({}) /\ UNCHANGED voters /\ AtomicRateLimit(<<"init", u>>)
    BY <1>3 DEF InitSession, Serves, SameDebtorsBut
  <2>2. \A i \in jobs' \ jobs : i.at \notin Passing
    BY <1>3 DEF InitSession, Serves, Passing
  <2>3. \A d \in Counters : d # <<"init", u>> => count'[d] = count[d]
    BY <2>1, ScriptCounts, CounterNames DEF StoreInv, CountType
  <2>4. Limiter(x)' = Limiter(x) /\ Votes(s)' = Votes(s)
    BY <2>3, CounterNames DEF Limiter, Votes
  <2>5. SameAwaited(s)
    BY <2>1, Debts DEF SameDebtorsBut, SameAwaited
  <2> QED
    BY <1>1, <2>1, <2>2, <2>4, <2>5, PassedShrinks, RestVotes
<1>4. ASSUME NEW r \in Sessions, Authenticate(r) \/ CloseSocket(r) \/ DestroySession(r)
      PROVE  UNCHANGED <<count, voters, jobs>>
  BY <1>4 DEF Authenticate, CloseSocket, DestroySession
<1>5. ASSUME NEW r \in Sessions, NEW kind \in {"http", "socket"}, NEW about \in Reportable,
             SubmitReport(kind, r, about)
      PROVE  VoteInv(x, s)'
  <2>1. PICK k : k.at = "limit" /\ jobs' = jobs \cup {k} /\ UNCHANGED <<count, voters>>
    BY <1>5 DEF SubmitReport, Serves
  <2>2. SameDebtorsBut({}) /\ \A i \in jobs' \ jobs : i.at \notin Passing
    BY <2>1 DEF SameDebtorsBut, Passing
  <2> QED
    BY <1>1, <1>2, <2>1, <2>2, PassedShrinks
<1>6. ASSUME NEW j \in jobs, Step(j) \/ SkipDocuments(j) PROVE VoteInv(x, s)'
  <2>1. CASE \/ Inquires(j) \/ CreateSession(j) \/ SaveReport(j) \/ SaveBan(j) \/ CacheBan(j)
    <3>1. UNCHANGED voters
      BY <2>1, Inquiry DEF CreateSession, SaveReport, SaveBan, CacheBan
    <3> QED
      BY <1>2, <2>1, <3>1, RestKeepsDebtors, RestPasses
  <2> QED
    BY <1>1, <1>6, <2>1, LimitedVotes, OpeningVotes, CountVotes, CountOpeningVotes
        DEF Step, Inquires
<1>7. ASSUME NEW j \in jobs PROVE ~CommandFails(j)
  BY <1>0 DEF CommandFails
<1>8. ASSUME NEW b \in bans, LiftBan(b) PROVE UNCHANGED <<count, voters, jobs>>
  BY <1>8 DEF LiftBan
<1>9. CASE Tick
  BY <1>1, <1>9, TickVotes
<1>10. CASE UNCHANGED <<count, voters, jobs>>
  <2>1. SameDebtorsBut({}) /\ \A i \in jobs' \ jobs : i.at \notin Passing
    BY <1>10 DEF SameDebtorsBut
  <2> QED
    BY <1>1, <1>2, <1>10, <2>1, PassedShrinks
<1> QED
  BY <1>3, <1>4, <1>5, <1>6, <1>7, <1>8, <1>9, <1>10 DEF Next, vars

-----------------------------------------------------------------------------
(* Nobody is banned by one *)

(* A report that is counted was passed by the limiter. *)
LEMMA CountedIsLimited ==
  ASSUME TypeOK, StoreInv, NEW j \in jobs, j.at = "count", VoteInv(j.from, j.about)
  PROVE  /\ ReportMax > 0
         /\ voters[j.about] \subseteq {j.from} => Votes(j.about).n + 1 < BanThreshold
<1> DEFINE x == j.from
           s == j.about
<1>1. x \in Sessions /\ s \in Reportable
  BY DEF StoreInv, JobsInv, Fits, Opening
<1>2. /\ Pending(x, s) \in Nat /\ Pending(x, s) > 0 /\ Votes(s).n \in Nat
      /\ Spent(x) \in Nat /\ Spent(x) <= ReportMax
  <2>1. j \in Passed(x, s)
    BY DEF Passed, Passing
  <2>2. Pending(x, s) > 0
    BY <2>1, PassedFinite DEF PassedRanges, StoreInv
  <2> QED
    BY <1>1, <2>2, VoteTypes DEF VoteRanges
<1>3. ReportMax \in Nat /\ 2 * ReportMax - 1 < BanThreshold /\ BanThreshold \in Nat
  BY LimitsAssumption
<1>4. ReportMax > 0
  BY <1>2, <1>3 DEF VoteInv, Ledger
<1>5. ASSUME voters[s] \subseteq {x} PROVE Votes(s).n + 1 < BanThreshold
  <2>1. Tally(Total(x, s), Spent(x), LimitLasts(x), VotesLast(x, s))
    BY <1>5 DEF VoteInv
  <2>2. Total(x, s) = Votes(s).n + Pending(x, s)
    BY DEF Total
  <2>3. Total(x, s) = 0 \/ Total(x, s) < Spent(x) + ReportMax
    BY <2>1 DEF Tally
  <2> QED
    BY <1>2, <1>3, <2>2, <2>3
<1> QED
  BY <1>4, <1>5

(* Whoever is counted is not alone where there are two. *)
LEMMA TwoVoters ==
  ASSUME StoreInv, NEW s \in Reportable, NEW x, ~(voters[s] \subseteq {x})
  PROVE  Cardinality(voters[s] \cup {x}) > 1
<1> DEFINE v == voters[s] \cup {x}
<1>1. PICK y : y \in v /\ y # x /\ x \in v
  OBVIOUS
<1>2. IsFiniteSet(v)
  BY FS_AddElement DEF StoreInv
<1>3. IsFiniteSet(v \ {x}) /\ Cardinality(v \ {x}) = Cardinality(v) - 1
  BY <1>1, <1>2, FS_RemoveElement
<1>4. Cardinality(v \ {x}) # 0 /\ Cardinality(v \ {x}) \in Nat /\ Cardinality(v) \in Nat
  BY <1>1, <1>2, <1>3, FS_EmptySet, FS_CardinalityType
<1> QED
  BY <1>3, <1>4

LEMMA CountByTwo ==
  ASSUME TypeOK, StoreInv, ByTwo, VotesInv, faults = 0, faults' = 0, NEW j \in jobs, CountReport(j)
  PROVE  ByTwo'
<1> DEFINE v == voters[j.about] \cup {j.from}
<1>1. /\ j \in Job /\ j.at = "count" /\ j.from \in Sessions /\ j.about \in Reportable
      /\ v \in SUBSET Sessions /\ bans' = bans /\ Votes(j.about).n \in Nat
  BY CounterNames DEF CountReport, StoreInv, JobsInv, Fits, Opening, TypeOK, Votes
<1>2. /\ ReportMax > 0
      /\ voters[j.about] \subseteq {j.from} => Votes(j.about).n + 1 < BanThreshold
  BY <1>1, CountedIsLimited DEF VotesInv
<1>3. \A i \in jobs' \ jobs : i.at = "ban" => Cardinality(i.by) > 1
  <2>1. CASE Goes(j, "countWindow")
    <3>1. PICK k \in Job : jobs' = (jobs \ {j}) \cup {k} /\ k.at = "countWindow"
      BY <1>1, <2>1, GoesOn DEF Places
    <3> QED
      BY <3>1
  <2>2. CASE Excessive(Votes(j.about).n + 1) /\ Bans(j, v)
    <3>1. PICK k \in Job : jobs' = (jobs \ {j}) \cup {k} /\ k.at = "ban" /\ k.by = v
      BY <1>1, <2>2, GoesToBan
    <3>2. ~(voters[j.about] \subseteq {j.from})
      BY <1>1, <1>2, <2>2, LimitsAssumption DEF Excessive
    <3> QED
      BY <1>1, <3>1, <3>2, TwoVoters
  <2>3. CASE Ends(j)
    BY <2>3 DEF Ends, Becomes
  <2> QED
    BY <2>1, <2>2, <2>3 DEF CountReport, Votes
<1> QED
  BY <1>1, <1>2, <1>3 DEF ByTwo

LEMMA NextByTwo ==
  ASSUME TypeOK, StoreInv, ByTwo, VotesInv, [Next]_vars
  PROVE  ByTwo'
<1>0. faults \in Nat /\ faults' \in Nat /\ faults' >= faults
  BY NextSessions DEF TypeOK
<1> SUFFICES ASSUME faults = 0, faults' = 0 PROVE ByTwo'
  BY <1>0 DEF ByTwo
<1>1. ASSUME bans' \subseteq bans, \A i \in jobs' \ jobs : i.at \notin {"ban", "countWindow"}
      PROVE  ByTwo'
  BY <1>1 DEF ByTwo
<1>2. ASSUME NEW j \in jobs, NEW at \in Places, Goes(j, at), at \notin {"ban", "countWindow"}
      PROVE  \A i \in jobs' \ jobs : i.at \notin {"ban", "countWindow"}
  <2>1. j \in Job
    BY DEF StoreInv, JobsInv
  <2>2. PICK k \in Job : jobs' = (jobs \ {j}) \cup {k} /\ k.at = at
    BY <1>2, <2>1, GoesOn
  <2> QED
    BY <1>2, <2>2
<1>3. ASSUME NEW j \in jobs, Ends(j) PROVE jobs' \subseteq jobs
  BY <1>3 DEF Ends, Becomes
<1>4. ASSUME NEW u \in Users, InitSession(u) PROVE ByTwo'
  <2>1. \A i \in jobs' \ jobs : i.at = "check"
    BY <1>4 DEF InitSession, Serves
  <2> QED
    BY <1>1, <1>4, <2>1 DEF InitSession
<1>5. ASSUME NEW r \in Sessions, Authenticate(r) \/ CloseSocket(r) \/ DestroySession(r)
      PROVE  UNCHANGED <<bans, jobs>>
  BY <1>5 DEF Authenticate, CloseSocket, DestroySession
<1>6. ASSUME NEW r \in Sessions, NEW kind \in {"http", "socket"}, NEW about \in Reportable,
             SubmitReport(kind, r, about)
      PROVE  ByTwo'
  <2>1. \A i \in jobs' \ jobs : i.at = "limit"
    BY <1>6 DEF SubmitReport, Serves
  <2> QED
    BY <1>1, <1>6, <2>1 DEF SubmitReport
<1>7. ASSUME NEW j \in jobs, Step(j) \/ SkipDocuments(j) PROVE ByTwo'
  <2>1. CASE \/ Limited(j) \/ WindowOpens(j) \/ Inquires(j) \/ CreateSession(j)
             \/ SaveReport(j) \/ CacheBan(j)
    <3>1. /\ Ends(j) \/ \E at \in Opening \cup {"window", "save", "count"} : Goes(j, at)
          /\ UNCHANGED bans
      BY <2>1, Inquiry DEF Limited, WindowOpens, CreateSession, SaveReport, CacheBan
    <3> QED
      BY <1>1, <1>2, <1>3, <3>1 DEF Places, Opening
  <2>2. CASE CountReport(j)
    BY <2>2, CountByTwo
  <2>3. CASE CountWindowOpens(j)
    <3>1. ~Excessive(1)
      BY <2>3, LimitsAssumption DEF CountWindowOpens, ByTwo, Excessive
    <3> QED
      BY <1>1, <1>3, <2>3, <3>1 DEF CountWindowOpens
  <2>4. CASE SaveBan(j)
    <3>1. \A b \in bans' : b \in bans \/ b.by = j.by
      BY <2>4 DEF SaveBan, SavedFor
    <3>2. \A i \in jobs' \ jobs : i.at \notin {"ban", "countWindow"}
      BY <1>2, <2>4 DEF SaveBan, Places
    <3>3. j.at = "ban"
      BY <2>4 DEF SaveBan
    <3> QED
      BY <3>1, <3>2, <3>3 DEF ByTwo
  <2> QED
    BY <1>7, <2>1, <2>2, <2>3, <2>4 DEF Step, Inquires
<1>8. ASSUME NEW j \in jobs PROVE ~CommandFails(j)
  BY <1>0 DEF CommandFails
<1>9. ASSUME NEW b \in bans, LiftBan(b) PROVE bans' \subseteq bans /\ UNCHANGED jobs
  BY <1>9 DEF LiftBan
<1>10. CASE Tick
  <2>1. \A i \in jobs' : \E j \in jobs : i.at = j.at /\ i.by = j.by
    <3> SUFFICES ASSUME NEW k \in jobs
                 PROVE  LET i == [k EXCEPT !.aged = TRUE]
                        IN \E j \in jobs : i.at = j.at /\ i.by = j.by
      BY <1>10 DEF Tick
    <3> QED
      BY Aging DEF StoreInv, JobsInv
  <2>2. \A b \in bans' : \E x \in bans : b.by = x.by
    BY <1>10, BanTicks DEF TypeOK, BanType
  <2> QED
    BY <2>1, <2>2 DEF ByTwo
<1> QED
  BY <1>1, <1>4, <1>5, <1>6, <1>7, <1>8, <1>9, <1>10 DEF Next, vars

-----------------------------------------------------------------------------
(* Whom bans are about *)

(* What the key of t may rest on *)
Founded(t) ==
  t \in Reported \/ (t = PreSession /\ \E u \in Users : {Ip(u), Fp(u)} \cap Reported # {})

LEMMA PostsNameTheReported ==
  ASSUME NEW j \in Job, Fits(j), j.at \in {"ban", "cache"}, j.kind = "http"
  PROVE  Named(j) \subseteq Reported
BY DEF Fits, Named, Reported, Opening

LEMMA NextReported ==
  ASSUME TypeOK, StoreInv, ReportedInv, [Next]_vars
  PROVE  ReportedInv'
<1>0. /\ JobsInv /\ cached \in [Targets -> Nat] /\ BanTime \in Nat
      /\ \A t \in Targets : cached[t] > 0 => Founded(t)
      /\ \A b \in bans : b.target \in Reported
  BY LimitsAssumption DEF StoreInv, ReportedInv, BansNameTheReported, Founded
<1>1. ASSUME \A i \in jobs' \ jobs : i.at \in Late => i.kind = "http",
             \A i \in jobs' \ jobs : i.at = "keep" => Entitled(i),
             \A b \in bans' \ bans : b.target \in Reported,
             \A t \in Targets : cached'[t] > 0 => Founded(t)
      PROVE  ReportedInv'
  BY <1>1 DEF ReportedInv, BansNameTheReported, Founded
<1>2. ASSUME UNCHANGED cached PROVE \A t \in Targets : cached'[t] > 0 => Founded(t)
  BY <1>0, <1>2
<1>3. ASSUME NEW keys, keys \subseteq Reported, CachedOn(keys)
      PROVE  \A t \in Targets : cached'[t] > 0 => Founded(t)
  BY <1>0, <1>3 DEF CachedOn, Founded
<1>4. ASSUME NEW j \in jobs, NEW at \in Places, Goes(j, at), at \in Late => j.kind = "http",
             at = "keep" => Entitled(j)
      PROVE  \A i \in jobs' \ jobs : /\ i.at \in Late => i.kind = "http"
                                     /\ i.at = "keep" => Entitled(i)
  <2>1. PICK k \in Job : jobs' = (jobs \ {j}) \cup {k} /\ k.at = at /\ k.kind = j.kind
                         /\ k.from = j.from
    BY <1>0, <1>4, GoesOn DEF JobsInv
  <2> QED
    BY <1>4, <2>1 DEF Entitled
<1>5. ASSUME NEW j \in jobs, NEW v \in SUBSET Sessions, Bans(j, v), j.kind = "http"
      PROVE  \A i \in jobs' \ jobs : i.at # "keep" /\ i.kind = "http"
  <2>1. PICK k \in Job : jobs' = (jobs \ {j}) \cup {k} /\ k.kind = j.kind /\ k.at = "ban"
    BY <1>0, <1>5, GoesToBan DEF JobsInv
  <2> QED
    BY <1>5, <2>1
<1>6. ASSUME NEW j \in jobs, Ends(j) PROVE jobs' \subseteq jobs
  BY <1>6 DEF Ends, Becomes
<1>7. ASSUME NEW u \in Users, InitSession(u) PROVE ReportedInv'
  <2>1. \A i \in jobs' \ jobs : i.at = "check"
    BY <1>7 DEF InitSession, Serves
  <2> QED
    BY <1>1, <1>2, <1>7, <2>1 DEF InitSession, Late
<1>8. ASSUME NEW s \in Sessions, Authenticate(s) \/ CloseSocket(s) \/ DestroySession(s)
      PROVE  UNCHANGED <<jobs, bans, cached>>
  BY <1>8 DEF Authenticate, CloseSocket, DestroySession
<1>9. ASSUME NEW s \in Sessions, NEW kind \in {"http", "socket"}, NEW r \in Reportable,
             SubmitReport(kind, s, r)
      PROVE  ReportedInv'
  <2>1. \A i \in jobs' \ jobs : i.at = "limit"
    BY <1>9 DEF SubmitReport, Serves
  <2> QED
    BY <1>1, <1>2, <1>9, <2>1 DEF SubmitReport, Late
<1>10. ASSUME NEW j \in jobs, Step(j) \/ SkipDocuments(j) PROVE ReportedInv'
  <2>0. j \in Job /\ Fits(j) /\ (j.at \in Late => j.kind = "http")
    BY <1>0 DEF JobsInv, ReportedInv
  <2>1. CASE Limited(j) \/ WindowOpens(j) \/ CreateSession(j)
    <3>1. /\ Ends(j) \/ \E at \in {"window", "save"} : Goes(j, at)
          /\ UNCHANGED <<bans, cached>>
      BY <2>1 DEF Limited, WindowOpens, CreateSession
    <3> QED
      BY <1>1, <1>2, <1>4, <1>6, <3>1 DEF Places, Late
  <2>6. CASE CheckKey(j) \/ SkipDocuments(j)
    <3>1. /\ Ends(j) \/ \E at \in Opening \ {"keep"} : Goes(j, at)
          /\ UNCHANGED <<bans, cached>>
      BY <2>6 DEF CheckKey, After, SkipDocuments, Opening
    <3> QED
      BY <1>1, <1>2, <1>4, <1>6, <3>1 DEF Places, Opening, Late
  <2>7. CASE FindBan(j)
    <3>1. /\ Goes(j, "open") \/ (Goes(j, "keep") /\ Entitled(j))
          /\ UNCHANGED <<bans, cached>>
      BY <1>0, <2>7 DEF FindBan, Entitled
    <3> QED
      BY <1>1, <1>2, <1>4, <3>1 DEF Places, Opening, Late
  <2>8. CASE KeepBan(j)
    <3>1. Founded(PreSession)
      BY <2>0, <2>8 DEF KeepBan, Fits, Opening, ReportedInv, Entitled, Founded
    <3>2. \A t \in Targets : cached'[t] > 0 => Founded(t)
      BY <1>0, <2>8, <3>1 DEF KeepBan
    <3> QED
      BY <1>1, <1>6, <2>8, <3>2 DEF KeepBan
  <2>2. CASE SaveReport(j)
    <3>1. /\ Ends(j) \/ (Goes(j, "count") /\ j.kind = "http")
          /\ UNCHANGED <<bans, cached>>
      BY <2>2 DEF SaveReport, Valid
    <3> QED
      BY <1>1, <1>2, <1>4, <1>6, <3>1 DEF Places, Late
  <2>3. CASE CountReport(j) \/ CountWindowOpens(j)
    <3>1. j.kind = "http" /\ UNCHANGED <<bans, cached>>
      BY <2>0, <2>3 DEF CountReport, CountWindowOpens, Late
    <3>2. voters[j.about] \cup {j.from} \in SUBSET Sessions /\ {j.from} \in SUBSET Sessions
      BY <2>0, <2>3 DEF TypeOK, Fits, Opening, CountReport, CountWindowOpens
    <3>3. Ends(j) \/ Goes(j, "countWindow") \/ \E v \in SUBSET Sessions : Bans(j, v)
      BY <2>3, <3>2 DEF CountReport, CountWindowOpens
    <3> QED
      BY <1>1, <1>2, <1>4, <1>5, <1>6, <3>1, <3>3 DEF Places, Late
  <2>4. CASE SaveBan(j)
    <3>1. /\ j.kind = "http" /\ j.at = "ban" /\ Goes(j, "cache") /\ UNCHANGED cached
      BY <2>0, <2>4 DEF SaveBan, Late
    <3>2. \A b \in bans' \ bans : b.target \in Reported
      BY <1>0, <2>0, <2>4, <3>1, BanSaved, PostsNameTheReported DEF SaveBan
    <3> QED
      BY <1>1, <1>2, <1>4, <3>1, <3>2 DEF Places, Late
  <2>5. CASE CacheBan(j)
    <3>1. /\ j.kind = "http" /\ j.at = "cache" /\ CachedOn(Named(j)) /\ Ends(j) /\ UNCHANGED bans
      BY <2>0, <2>5 DEF CacheBan, Keys, Late
    <3> QED
      BY <1>1, <1>3, <1>6, <2>0, <3>1, PostsNameTheReported
  <2> QED
    BY <1>10, <2>1, <2>2, <2>3, <2>4, <2>5, <2>6, <2>7, <2>8 DEF Step
<1>11. ASSUME NEW j \in jobs, CommandFails(j) PROVE ReportedInv'
  <2>1. j \in Job /\ Fits(j) /\ (j.at \in Late => j.kind = "http") /\ Ends(j)
    BY <1>0, <1>11 DEF JobsInv, ReportedInv, CommandFails
  <2>2. CASE j.at = "ban" /\ (\E targets \in SUBSET Named(j) : SavedFor(j, targets)) /\ UNCHANGED cached
    <3>1. Named(j) \subseteq Reported
      BY <2>1, <2>2, PostsNameTheReported DEF Late
    <3>2. \A b \in bans' \ bans : b.target \in Reported
      BY <1>0, <2>2, <3>1, BanSaved
    <3> QED
      BY <1>1, <1>2, <1>6, <2>1, <2>2, <3>2
  <2>3. CASE j.at = "cache" /\ (\E keys \in SUBSET Named(j) : CachedOn(keys)) /\ UNCHANGED bans
    <3>1. Named(j) \subseteq Reported
      BY <2>1, <2>3, PostsNameTheReported DEF Late
    <3> QED
      BY <1>1, <1>3, <1>6, <2>1, <2>3, <3>1
  <2>4. CASE UNCHANGED <<bans, cached>>
    BY <1>1, <1>2, <1>6, <2>1, <2>4
  <2> QED
    BY <1>11, <2>2, <2>3, <2>4 DEF CommandFails
<1>12. ASSUME NEW b \in bans, LiftBan(b) PROVE bans' \subseteq bans /\ UNCHANGED <<jobs, cached>>
  BY <1>12 DEF LiftBan
<1>13. CASE Tick
  <2>1. \A i \in jobs' : \E j \in jobs : i.at = j.at /\ i.kind = j.kind /\ i.from = j.from
    <3> SUFFICES ASSUME NEW k \in jobs
                 PROVE  LET i == [k EXCEPT !.aged = TRUE]
                        IN \E j \in jobs : i.at = j.at /\ i.kind = j.kind /\ i.from = j.from
      BY <1>13 DEF Tick
    <3> QED
      BY <1>0, Aging DEF JobsInv
  <2>2. \A b \in bans' : \E x \in bans : b.target = x.target
    BY <1>13, BanTicks DEF TypeOK, BanType
  <2>3. \A t \in Targets : cached'[t] > 0 => Founded(t)
    BY <1>0, <1>13 DEF Tick, Older
  <2>4. /\ \A j \in jobs' : j.at \in Late => j.kind = "http"
        /\ \A j \in jobs' : j.at = "keep" => Entitled(j)
    BY <2>1 DEF ReportedInv, Entitled
  <2>5. \A b \in bans' : b.target \in Reported
    BY <1>0, <2>2
  <2>6. BansNameTheReported'
    BY <2>3, <2>5 DEF BansNameTheReported, Founded
  <2> QED
    BY <2>4, <2>6 DEF ReportedInv
<1> QED
  BY <1>1, <1>2, <1>7, <1>8, <1>9, <1>10, <1>11, <1>12, <1>13 DEF Next, vars

-----------------------------------------------------------------------------
(* The invariant *)

LEMMA InitIInv == Init => IInv
<1> SUFFICES ASSUME Init PROVE IInv
  OBVIOUS
<1>1. /\ jobs = {} /\ bans = {} /\ conn = {} /\ made = 0 /\ faults = 0
      /\ count = [c \in Counters |-> [n |-> 0, ttl |-> 0]]
      /\ \A c \in Counters : count[c].n = 0 /\ count[c].ttl = 0
      /\ IsFiniteSet({}) /\ Cardinality({}) = 0
  BY FS_EmptySet DEF Init
<1>2. TypeOK
  BY <1>1, CounterNames, LimitsAssumption DEF Init, TypeOK
<1>3. StoreInv
  BY <1>1 DEF Init, StoreInv, JobsInv
<1>4. WindowInv
  BY <1>1, CounterNames DEF WindowInv
<1>5. EndlessInv
  <2>1. EndlessOnes = {}
    BY <1>1 DEF EndlessOnes, Endless
  <2> QED
    BY <1>1, <2>1 DEF EndlessInv
<1>6. FastPathSeesBans /\ ByTwo
  BY <1>1 DEF FastPathSeesBans, ByTwo
<1>7. VotesInv
  <2> SUFFICES ASSUME NEW x \in Sessions, NEW s \in Reportable PROVE VoteInv(x, s)
    BY DEF VotesInv
  <2>1. Passed(x, s) = {} /\ Young(Passed(x, s)) = {}
    BY <1>1 DEF Passed, Young
  <2>2. Pending(x, s) = 0 /\ Recent(x, s) = 0 /\ Limiter(x).n = 0 /\ Votes(s).n = 0
    BY <1>1, <2>1, CounterNames DEF Pending, Recent, Limiter, Votes
  <2>3. Spent(x) = 0 /\ Total(x, s) = 0
    BY <2>2, Limits DEF Spent, Total
  <2> QED
    BY <2>2, <2>3 DEF VoteInv, Ledger, Tally
<1>8. ReportedInv
  BY <1>1 DEF Init, ReportedInv, BansNameTheReported
<1> QED
  BY <1>2, <1>3, <1>4, <1>5, <1>6, <1>7, <1>8 DEF IInv

LEMMA NextIInv == IInv /\ [Next]_vars => IInv'
<1> SUFFICES ASSUME IInv, [Next]_vars PROVE IInv'
  OBVIOUS
<1> USE DEF IInv
<1>1. TypeOK' /\ StoreInv'
  BY NextTypes
<1>2. WindowInv' /\ EndlessInv'
  BY NextWindows
<1>3. FastPathSeesBans'
  BY <1>1, NextFastPath
<1>4. ByTwo'
  BY NextByTwo
<1>5. VotesInv'
  BY <1>1, NextVotes
<1>6. ReportedInv'
  BY NextReported
<1> QED
  BY <1>1, <1>2, <1>3, <1>4, <1>5, <1>6

LEMMA Invariance == Spec => []IInv
BY InitIInv, NextIInv, PTL DEF Spec

-----------------------------------------------------------------------------
(* Every store and every request keeps its type, and no socket belongs to  *)
(* a session that was never made.                                          *)
THEOREM TypeCorrect == Spec => []TypeOK
<1>1. IInv => TypeOK
  BY DEF IInv
<1> QED
  BY Invariance, <1>1, PTL

(* However INCR and EXPIRE of different requests interleave, there are no  *)
(* more counters that stay for ever than commands that failed, and the Lua *)
(* script of the session limiter never leaves one.                         *)
THEOREM FaultsMakeEndless == Spec => []OnlyFaultsMakeEndless
<1>1. IInv => OnlyFaultsMakeEndless
  <2> SUFFICES ASSUME IInv PROVE OnlyFaultsMakeEndless
    OBVIOUS
  <2>1. Cardinality({c \in Counters : Endless(c)}) <= faults
    BY DEF IInv, EndlessInv, EndlessOnes
  <2>2. \A u \in Users : ~Endless(<<"init", u>>)
    <3> SUFFICES ASSUME NEW u \in Users, Endless(<<"init", u>>) PROVE FALSE
      OBVIOUS
    <3>1. count[<<"init", u>>].n > 0 /\ count[<<"init", u>>].ttl = 0
      BY DEF Endless
    <3>2. count[<<"init", u>>].ttl > 0
      BY <3>1 DEF IInv, WindowInv
    <3> QED
      BY <3>1, <3>2
  <2> QED
    BY <2>1, <2>2 DEF OnlyFaultsMakeEndless
<1> QED
  BY Invariance, <1>1, PTL

(* The reports of one session alone ban nobody, for all limits that        *)
(* LimitsAssumption allows and however the windows of the reporter's       *)
(* limiter and of the reported's count overlap.                            *)
THEOREM OneReporterBansNobody == Spec => []LoneReporterCannotBan
<1>1. IInv => LoneReporterCannotBan
  BY DEF IInv, TypeOK, ByTwo, LoneReporterCannotBan
<1> QED
  BY Invariance, <1>1, PTL

(* What a ban document forbids a ban key forbids at least as long, except  *)
(* between the two writes and after a failure.                             *)
THEOREM KeysSeeBans == Spec => []FastPathSeesBans
<1>1. IInv => FastPathSeesBans
  BY DEF IInv
<1> QED
  BY Invariance, <1>1, PTL

(* Neither a ban nor a ban key is about a user whom no report names by an  *)
(* address or a fingerprint, and what session init keeps for everybody     *)
(* rests on such a report or on one that names "pre-session" itself: for   *)
(* any users, sessions and reports, whatever fails, is saved in part or is *)
(* lifted in between.                                                      *)
THEOREM BansNameOnlyTheReported == Spec => []BansNameTheReported
<1>1. IInv => BansNameTheReported
  BY DEF IInv, ReportedInv
<1> QED
  BY Invariance, <1>1, PTL
=============================================================================
