---------------------------- MODULE ChatClientProofs ----------------------------
(***************************************************************************)
(* Proofs about ChatClient, for any number of visits, skips, matches and   *)
(* troubles of every kind.                                                 *)
(***************************************************************************)
EXTENDS ChatClient, TLAPS

(* The events that decide what the tab shows, and what a queue of events   *)
(* will come to.                                                           *)
Deciding == {"joined", "match", "left"}

Has(s, e)    == \E i \in DOMAIN s : s[i] = e
Undecided(s) == \A i \in DOMAIN s : s[i] \notin Deciding
Decided(s, e) ==
  \E i \in DOMAIN s : s[i] = e /\ \A j \in DOMAIN s : j > i => s[j] \notin Deciding

(* What holds whatever went wrong: the server knows a socket only while it *)
(* is up, and only a tab with a session has a socket or a connection.      *)
BaseInv ==
  /\ reachable => Up
  /\ ready => reachable
  /\ ack => ready
  /\ mine => ready
  /\ ~Up => toServer = <<>> /\ toClient = <<>>
  /\ sock # "none" => session = "ready"
  /\ session # "ready" => pc = "none"
  /\ session = "loading" => phase = "idle"

(* The rest is about a tab to which nothing unhandled has happened. *)

(* A tab that is about to connect joins, or is back in its call. *)
FreshInv ==
  /\ session = "loading" => status = "idle"
  /\ session = "ready" /\ ~Up => status # "searching" /\ (status = "idle" => phase = "idle")
  /\ session = "ready" /\ phase = "matched" => ShowsCall

InCall(asked) == srv = "room" \/ (srv = "queued" /\ asked)

(* What the last deciding event on its way says is so. *)
EventInv ==
  Up => /\ Decided(toClient, "joined") => srv = "queued"
        /\ Decided(toClient, "match") => InCall(ack)

(* A call on the screen is one, unless it was given up in time: then       *)
(* QUEUE_JOINED is due, or the server has yet to learn of a lost socket.   *)
CallInv ==
  session = "ready" /\ ShowsCall /\ Undecided(toClient) => InCall(ack \/ notice # "none")

(* A search on the screen is one, or was asked for by a skip. *)
SearchInv ==
  Up /\ status = "searching" /\ Undecided(toClient) => srv = "queued" \/ Has(toServer, "next")

(* An idle tab that is connected is queued, has asked to be, hears that it *)
(* may not yet, or will ask.                                               *)
IdleInv ==
  Up /\ status = "idle" =>
    \/ srv = "queued"
    \/ Has(toServer, "join") \/ Has(toServer, "next")
    \/ Has(toClient, "limited") \/ Has(toClient, "match") \/ Has(toClient, "joined")
    \/ phase = "idle" /\ (seen # Deps \/ ~online \/ retry # "none")

Smooth == FreshInv /\ EventInv /\ CallInv /\ SearchInv /\ IdleInv

IInv == TypeOK /\ BaseInv /\ (~snag => Smooth)

-----------------------------------------------------------------------------
(* Queues of events and requests *)

LEMMA EmptyQueue ==
  ASSUME NEW e
  PROVE  Undecided(<<>>) /\ ~Decided(<<>>, e) /\ ~Has(<<>>, e)
BY DEF Undecided, Decided, Has

(* Deciding or not: the last deciding event counts. *)
LEMMA UndecidedOrDecided ==
  ASSUME NEW s \in Seq(Events), NEW e \in Deciding
  PROVE  ~(Undecided(s) /\ Decided(s, e))
BY DEF Undecided, Decided

LEMMA DecidedOnce ==
  ASSUME NEW s \in Seq(Events), NEW e \in Deciding, NEW d \in Deciding, d # e,
         Decided(s, e)
  PROVE  ~Decided(s, d)
<1>1. PICK i \in DOMAIN s : s[i] = e /\ \A j \in DOMAIN s : j > i => s[j] \notin Deciding
  BY DEF Decided
<1>2. SUFFICES ASSUME NEW k \in DOMAIN s, s[k] = d,
                      \A j \in DOMAIN s : j > k => s[j] \notin Deciding
               PROVE  FALSE
  BY DEF Decided
<1>3. i > k \/ k > i
  BY <1>1, <1>2
<1> QED
  BY <1>1, <1>2, <1>3

LEMMA HasAppend ==
  ASSUME NEW S, NEW s \in Seq(S), NEW x \in S, NEW e
  PROVE  Has(Append(s, x), e) <=> (Has(s, e) \/ e = x)
<1> DEFINE t == Append(s, x)
<1>1. /\ DOMAIN t = 1..Len(s) + 1 /\ DOMAIN s = 1..Len(s) /\ Len(s) \in Nat
      /\ \A i \in 1..Len(s) : t[i] = s[i]
      /\ t[Len(s) + 1] = x
  OBVIOUS
<1> HIDE DEF t
<1>2. \A i \in 1..Len(s) + 1 : i \in 1..Len(s) \/ i = Len(s) + 1
  BY <1>1
<1>3. 1..Len(s) \subseteq 1..Len(s) + 1 /\ Len(s) + 1 \in 1..Len(s) + 1
  BY <1>1
<1>4. Has(t, e) <=> (Has(s, e) \/ e = x)
  BY <1>1, <1>2, <1>3, Zenon DEF Has
<1> QED
  BY <1>4 DEF t

LEMMA HasTail ==
  ASSUME NEW S, NEW s \in Seq(S), s # <<>>, NEW e
  PROVE  Has(s, e) <=> (Head(s) = e \/ Has(Tail(s), e))
<1> DEFINE t == Tail(s)
<1>1. /\ DOMAIN t = 1..Len(s) - 1 /\ DOMAIN s = 1..Len(s) /\ Len(s) \in Nat \ {0}
      /\ \A i \in 1..Len(s) - 1 : t[i] = s[i + 1]
      /\ s[1] = Head(s)
  OBVIOUS
<1> HIDE DEF t
<1>2. ASSUME Has(s, e), Head(s) # e PROVE Has(t, e)
  <2>1. PICK i \in 1..Len(s) : s[i] = e
    BY <1>1, <1>2 DEF Has
  <2>2. i # 1
    BY <1>1, <1>2, <2>1
  <2>3. i - 1 \in 1..Len(s) - 1 /\ (i - 1) + 1 = i
    BY <1>1, <2>2
  <2>4. t[i - 1] = e
    BY <1>1, <2>1, <2>3
  <2> QED
    BY <1>1, <2>3, <2>4 DEF Has
<1>3. ASSUME Has(t, e) PROVE Has(s, e)
  <2>1. PICK i \in 1..Len(s) - 1 : t[i] = e
    BY <1>1, <1>3 DEF Has
  <2>2. i + 1 \in 1..Len(s) /\ s[i + 1] = e
    BY <1>1, <2>1
  <2> QED
    BY <1>1, <2>2 DEF Has
<1>4. ASSUME Head(s) = e PROVE Has(s, e)
  <2>1. 1 \in 1..Len(s)
    BY <1>1
  <2> QED
    BY <1>1, <1>4, <2>1 DEF Has
<1> QED
  BY <1>2, <1>3, <1>4 DEF t

(* An event that decides nothing changes nothing at the end of a queue ... *)
LEMMA AppendUndeciding ==
  ASSUME NEW s \in Seq(Events), NEW x \in Events \ Deciding
  PROVE  /\ Undecided(Append(s, x)) <=> Undecided(s)
         /\ \A e \in Deciding : Decided(Append(s, x), e) <=> Decided(s, e)
BY DEF Undecided, Decided

(* ... one that does settles the matter. *)
LEMMA AppendDeciding ==
  ASSUME NEW s \in Seq(Events), NEW x \in Events \cap Deciding
  PROVE  /\ ~Undecided(Append(s, x))
         /\ \A e \in Deciding : Decided(Append(s, x), e) <=> e = x
BY DEF Undecided, Decided

(* At the front: what is left is undecided or decided as before, unless    *)
(* the event that leaves was the last one that decided.                    *)
LEMMA TailDecides ==
  ASSUME NEW s \in Seq(Events), s # <<>>
  PROVE  /\ Undecided(s) <=> Head(s) \notin Deciding /\ Undecided(Tail(s))
         /\ \A e \in Deciding : Decided(s, e) <=>
              (Decided(Tail(s), e) \/ (Head(s) = e /\ Undecided(Tail(s))))
<1> DEFINE t == Tail(s)
<1>1. /\ DOMAIN t = 1..Len(s) - 1 /\ DOMAIN s = 1..Len(s) /\ Len(s) \in Nat \ {0}
      /\ \A i \in 1..Len(s) - 1 : t[i] = s[i + 1]
      /\ s[1] = Head(s)
  OBVIOUS
<1> HIDE DEF t
<1>2. /\ \A i \in 1..Len(s) : i = 1 \/ i - 1 \in 1..Len(s) - 1
      /\ \A i \in 1..Len(s) - 1 : i + 1 \in 1..Len(s)
      /\ 1 \in 1..Len(s)
      /\ \A i \in 1..Len(s) : i # 1 => s[i] = t[i - 1]
  BY <1>1
<1>3. Undecided(s) <=> Head(s) \notin Deciding /\ Undecided(t)
  BY <1>1, <1>2 DEF Undecided
<1>4. ASSUME NEW e \in Deciding
      PROVE  Decided(s, e) <=> (Decided(t, e) \/ (Head(s) = e /\ Undecided(t)))
  <2>1. ASSUME Decided(t, e) PROVE Decided(s, e)
    <3>1. PICK i \in 1..Len(s) - 1 :
            t[i] = e /\ \A j \in 1..Len(s) - 1 : j > i => t[j] \notin Deciding
      BY <1>1, <2>1 DEF Decided
    <3>2. i + 1 \in 1..Len(s) /\ s[i + 1] = e
      BY <1>1, <1>2, <3>1
    <3>3. \A j \in 1..Len(s) : j > i + 1 => s[j] \notin Deciding
      <4> SUFFICES ASSUME NEW j \in 1..Len(s), j > i + 1 PROVE s[j] \notin Deciding
        OBVIOUS
      <4>1. j - 1 \in 1..Len(s) - 1 /\ j - 1 > i /\ s[j] = t[j - 1]
        BY <1>1, <1>2
      <4> QED
        BY <3>1, <4>1
    <3> QED
      BY <1>1, <3>2, <3>3 DEF Decided
  <2>2. ASSUME Head(s) = e, Undecided(t) PROVE Decided(s, e)
    <3>1. \A j \in 1..Len(s) : j > 1 => s[j] \notin Deciding
      <4> SUFFICES ASSUME NEW j \in 1..Len(s), j > 1 PROVE s[j] \notin Deciding
        OBVIOUS
      <4>1. j - 1 \in 1..Len(s) - 1 /\ s[j] = t[j - 1]
        BY <1>1, <1>2
      <4> QED
        BY <1>1, <2>2, <4>1 DEF Undecided
    <3> QED
      BY <1>1, <1>2, <2>2, <3>1 DEF Decided
  <2>3. ASSUME Decided(s, e) PROVE Decided(t, e) \/ (Head(s) = e /\ Undecided(t))
    <3>1. PICK i \in 1..Len(s) :
            s[i] = e /\ \A j \in 1..Len(s) : j > i => s[j] \notin Deciding
      BY <1>1, <2>3 DEF Decided
    <3>2. ASSUME NEW j \in 1..Len(s) - 1, j + 1 > i PROVE t[j] \notin Deciding
      BY <1>1, <1>2, <3>1, <3>2
    <3>3. CASE i = 1
      BY <1>1, <3>1, <3>2, <3>3 DEF Undecided
    <3>4. CASE i # 1
      <4>1. i - 1 \in 1..Len(s) - 1 /\ t[i - 1] = e
        BY <1>1, <1>2, <3>1, <3>4
      <4>2. \A j \in 1..Len(s) - 1 : j > i - 1 => t[j] \notin Deciding
        BY <3>2
      <4> QED
        BY <1>1, <4>1, <4>2 DEF Decided
    <3> QED
      BY <3>3, <3>4
  <2> QED
    BY <2>1, <2>2, <2>3
<1> QED
  BY <1>3, <1>4 DEF t

-----------------------------------------------------------------------------
(* Types, and what holds whatever went wrong *)

Queues == toServer \in Seq(Requests) /\ toClient \in Seq(Events)
Flags  == {online, mine, reachable, ready, ack, grace, cooldown, snag} \subseteq BOOLEAN

Places ==
  /\ session \in {"away", "loading", "ready", "limited", "error"}
  /\ sock \in {"none", "opening", "up", "dead"}
  /\ phase \in {"idle", "joining", "searching", "matched"}
  /\ status \in Statuses
  /\ pc \in {"none", "setup", "open", "lost"}
  /\ seen \in BOOLEAN \X BOOLEAN \X Statuses
  /\ retry \in {"none", "armed", "stale"}
  /\ srv \in {"none", "idle", "queued", "room", "deserted"}
  /\ notice \in {"none", "drop", "leave"}
  /\ Up => session = "ready"

LEMMA Typing == TypeOK <=> Queues /\ Flags /\ Places
BY DEF TypeOK, Queues, Flags, Places, Up

LEMMA QueueSteps ==
  ASSUME Queues
  PROVE  /\ \A r \in Requests : Append(toServer, r) \in Seq(Requests)
         /\ toServer # <<>> => Tail(toServer) \in Seq(Requests) /\ Head(toServer) \in Requests
         /\ <<>> \in Seq(Requests) /\ <<>> \in Seq(Events)
         /\ \A e \in Events : Append(toClient, e) \in Seq(Events)
         /\ toClient # <<>> => Tail(toClient) \in Seq(Events) /\ Head(toClient) \in Events
BY DEF Queues

LEMMA Names ==
  /\ {"join", "next"} \subseteq Requests
  /\ {"joined", "match", "left", "silent", "limited", "error"} \subseteq Events
BY DEF Requests, Events

LEMMA NextQueues ==
  ASSUME Queues, [Next]_vars
  PROVE  Queues'
<1> USE DEF Queues, tabVars, wireVars, serverVars, boundVars
<1>1. CASE OpenChatRoom
  BY <1>1 DEF OpenChatRoom
<1>2. CASE KeepSession
  BY <1>2 DEF KeepSession
<1>3. CASE CreateSession
  BY <1>3 DEF CreateSession, RequestRejected, Suffer
<1>4. CASE SessionRefused
  BY <1>4 DEF SessionRefused, RequestRejected, Suffer
<1>5. CASE SocketConnects
  BY <1>5 DEF SocketConnects
<1>6. CASE SocketGivesUp
  BY <1>6 DEF SocketGivesUp, Suffer
<1>7. CASE SocketDrops
  BY <1>7 DEF SocketDrops, Suffer, PhaseAfterDrop
<1>8. CASE NetworkChanges
  BY <1>8 DEF NetworkChanges, Suffer
<1>9. ASSUME NEW button \in BOOLEAN, LeaveChatRoom(button) PROVE Queues'
  BY <1>9 DEF LeaveChatRoom, SocketClosed
<1>10. CASE SkipPartner
  BY <1>10, QueueSteps, Names DEF SkipPartner, MaySkip
<1>11. CASE AutoJoin
  BY <1>11, QueueSteps, Names DEF AutoJoin, Deps, MayJoin
<1>12. CASE RetryFires
  BY <1>12, QueueSteps, Names DEF RetryFires
<1>13. CASE OnQueueJoined
  BY <1>13 DEF OnQueueJoined, Hear
<1>14. CASE OnMatchFound
  BY <1>14 DEF OnMatchFound, Hear
<1>15. CASE OnPeerLeft
  BY <1>15 DEF OnPeerLeft, Hear, StatusAfterLeft
<1>16. CASE OnSessionError
  BY <1>16 DEF OnSessionError, Hear, PhaseAfterError
<1>17. CASE RegisterHandlers
  BY <1>17 DEF RegisterHandlers
<1>18. CASE ServeJoin
  BY <1>18, QueueSteps, Names DEF ServeJoin, Receive, Emit, InRoom, Suffer
<1>19. CASE ServeNext
  BY <1>19, QueueSteps, Names DEF ServeNext, Receive, Emit, Suffer
<1>20. CASE CooldownEnds
  BY <1>20 DEF CooldownEnds
<1>21. CASE AckJoin
  BY <1>21, QueueSteps, Names DEF AckJoin, Emit
<1>22. CASE HandleDisconnect
  BY <1>22 DEF HandleDisconnect, InRoom
<1>23. CASE GraceEnds
  BY <1>23 DEF GraceEnds
<1>24. CASE LostBeforeReady
  BY <1>24 DEF LostBeforeReady, Suffer
<1>25. CASE MatchCommitted
  BY <1>25, QueueSteps, Names DEF MatchCommitted, Emit
<1>26. CASE PartnerParts
  BY <1>26, QueueSteps, Names DEF PartnerParts, Emit
<1>27. CASE PartnerVanishes
  BY <1>27, QueueSteps, Names DEF PartnerVanishes, Emit, Suffer
<1>28. CASE StrayPeerLeft
  BY <1>28, QueueSteps, Names DEF StrayPeerLeft, Emit, Suffer
<1>29. CASE EntryExpires
  BY <1>29 DEF EntryExpires, Suffer
<1>30. CASE PeerConnects
  BY <1>30 DEF PeerConnects
<1>31. CASE PeerDisconnects
  BY <1>31 DEF PeerDisconnects, Suffer
<1>32. CASE PeerFails
  BY <1>32 DEF PeerFails, Suffer
<1>33. CASE JoinSessionRoom
  BY <1>33 DEF JoinSessionRoom
<1>34. CASE UNCHANGED vars
  BY <1>34 DEF vars
<1> QED
  BY <1>1, <1>2, <1>3, <1>4, <1>5, <1>6, <1>7, <1>8, <1>9, <1>10, <1>11, <1>12,
     <1>13, <1>14, <1>15, <1>16, <1>17, <1>18, <1>19, <1>20, <1>21, <1>22,
     <1>23, <1>24, <1>25, <1>26, <1>27, <1>28, <1>29, <1>30, <1>31, <1>32,
     <1>33, <1>34 DEF Next, TabEvent, ServerStep

LEMMA NextFlags ==
  ASSUME Flags, Places, [Next]_vars
  PROVE  Flags'
<1> USE DEF Flags, Up, tabVars, wireVars, serverVars, boundVars
<1>1. CASE OpenChatRoom
  BY <1>1 DEF OpenChatRoom
<1>2. CASE KeepSession
  BY <1>2 DEF KeepSession
<1>3. CASE CreateSession
  BY <1>3 DEF CreateSession, RequestRejected, Suffer
<1>4. CASE SessionRefused
  BY <1>4 DEF SessionRefused, RequestRejected, Suffer
<1>5. CASE SocketConnects
  BY <1>5 DEF SocketConnects
<1>6. CASE SocketGivesUp
  BY <1>6 DEF SocketGivesUp, Suffer
<1>7. CASE SocketDrops
  BY <1>7 DEF SocketDrops, Suffer, PhaseAfterDrop
<1>8. CASE NetworkChanges
  BY <1>8 DEF NetworkChanges, Suffer
<1>9. ASSUME NEW button \in BOOLEAN, LeaveChatRoom(button) PROVE Flags'
  BY <1>9 DEF LeaveChatRoom, SocketClosed
<1>10. CASE SkipPartner
  BY <1>10 DEF SkipPartner, MaySkip
<1>11. CASE AutoJoin
  BY <1>11 DEF AutoJoin, Deps, MayJoin
<1>12. CASE RetryFires
  BY <1>12 DEF RetryFires
<1>13. CASE OnQueueJoined
  BY <1>13 DEF OnQueueJoined, Hear
<1>14. CASE OnMatchFound
  BY <1>14 DEF OnMatchFound, Hear
<1>15. CASE OnPeerLeft
  BY <1>15 DEF OnPeerLeft, Hear, StatusAfterLeft
<1>16. CASE OnSessionError
  BY <1>16 DEF OnSessionError, Hear, PhaseAfterError
<1>17. CASE RegisterHandlers
  BY <1>17 DEF RegisterHandlers
<1>18. CASE ServeJoin
  BY <1>18 DEF ServeJoin, Receive, Emit, InRoom, Suffer
<1>19. CASE ServeNext
  BY <1>19 DEF ServeNext, Receive, Emit, Suffer
<1>20. CASE CooldownEnds
  BY <1>20 DEF CooldownEnds
<1>21. CASE AckJoin
  BY <1>21 DEF AckJoin, Emit
<1>22. CASE HandleDisconnect
  BY <1>22 DEF HandleDisconnect, InRoom
<1>23. CASE GraceEnds
  BY <1>23 DEF GraceEnds
<1>24. CASE LostBeforeReady
  BY <1>24 DEF LostBeforeReady, Suffer
<1>25. CASE MatchCommitted
  BY <1>25 DEF MatchCommitted, Emit
<1>26. CASE PartnerParts
  BY <1>26 DEF PartnerParts, Emit
<1>27. CASE PartnerVanishes
  BY <1>27 DEF PartnerVanishes, Emit, Suffer
<1>28. CASE StrayPeerLeft
  BY <1>28 DEF StrayPeerLeft, Emit, Suffer
<1>29. CASE EntryExpires
  BY <1>29 DEF EntryExpires, Suffer
<1>30. CASE PeerConnects
  BY <1>30 DEF PeerConnects
<1>31. CASE PeerDisconnects
  BY <1>31 DEF PeerDisconnects, Suffer
<1>32. CASE PeerFails
  BY <1>32 DEF PeerFails, Suffer
<1>33. CASE JoinSessionRoom
  BY <1>33 DEF JoinSessionRoom
<1>34. CASE UNCHANGED vars
  BY <1>34 DEF vars
<1> QED
  BY <1>1, <1>2, <1>3, <1>4, <1>5, <1>6, <1>7, <1>8, <1>9, <1>10, <1>11, <1>12,
     <1>13, <1>14, <1>15, <1>16, <1>17, <1>18, <1>19, <1>20, <1>21, <1>22,
     <1>23, <1>24, <1>25, <1>26, <1>27, <1>28, <1>29, <1>30, <1>31, <1>32,
     <1>33, <1>34 DEF Next, TabEvent, ServerStep

LEMMA NextPlaces ==
  ASSUME Places, Flags, BaseInv, [Next]_vars
  PROVE  Places' /\ BaseInv'
<1> USE DEF Places, Flags, BaseInv, Statuses, Up, tabVars, wireVars, serverVars, boundVars
<1>1. CASE OpenChatRoom
  BY <1>1 DEF OpenChatRoom
<1>2. CASE KeepSession
  BY <1>2 DEF KeepSession
<1>3. CASE CreateSession
  BY <1>3 DEF CreateSession, RequestRejected, Suffer
<1>4. CASE SessionRefused
  BY <1>4 DEF SessionRefused, RequestRejected, Suffer
<1>5. CASE SocketConnects
  BY <1>5 DEF SocketConnects
<1>6. CASE SocketGivesUp
  BY <1>6 DEF SocketGivesUp, Suffer
<1>7. CASE SocketDrops
  BY <1>7 DEF SocketDrops, Suffer, PhaseAfterDrop
<1>8. CASE NetworkChanges
  BY <1>8 DEF NetworkChanges, Suffer
<1>9. ASSUME NEW button \in BOOLEAN, LeaveChatRoom(button) PROVE Places' /\ BaseInv'
  BY <1>9 DEF LeaveChatRoom, SocketClosed
<1>10. CASE SkipPartner
  BY <1>10 DEF SkipPartner, MaySkip
<1>11. CASE AutoJoin
  BY <1>11 DEF AutoJoin, Deps, MayJoin
<1>12. CASE RetryFires
  BY <1>12 DEF RetryFires
<1>13. CASE OnQueueJoined
  BY <1>13 DEF OnQueueJoined, Hear
<1>14. CASE OnMatchFound
  BY <1>14 DEF OnMatchFound, Hear
<1>15. CASE OnPeerLeft
  BY <1>15 DEF OnPeerLeft, Hear, StatusAfterLeft
<1>16. CASE OnSessionError
  BY <1>16 DEF OnSessionError, Hear, PhaseAfterError
<1>17. CASE RegisterHandlers
  BY <1>17 DEF RegisterHandlers
<1>18. CASE ServeJoin
  BY <1>18 DEF ServeJoin, Receive, Emit, InRoom, Suffer
<1>19. CASE ServeNext
  BY <1>19 DEF ServeNext, Receive, Emit, Suffer
<1>20. CASE CooldownEnds
  BY <1>20 DEF CooldownEnds
<1>21. CASE AckJoin
  BY <1>21 DEF AckJoin, Emit
<1>22. CASE HandleDisconnect
  BY <1>22 DEF HandleDisconnect, InRoom
<1>23. CASE GraceEnds
  BY <1>23 DEF GraceEnds
<1>24. CASE LostBeforeReady
  BY <1>24 DEF LostBeforeReady, Suffer
<1>25. CASE MatchCommitted
  BY <1>25 DEF MatchCommitted, Emit
<1>26. CASE PartnerParts
  BY <1>26 DEF PartnerParts, Emit
<1>27. CASE PartnerVanishes
  BY <1>27 DEF PartnerVanishes, Emit, Suffer
<1>28. CASE StrayPeerLeft
  BY <1>28 DEF StrayPeerLeft, Emit, Suffer
<1>29. CASE EntryExpires
  BY <1>29 DEF EntryExpires, Suffer
<1>30. CASE PeerConnects
  BY <1>30 DEF PeerConnects
<1>31. CASE PeerDisconnects
  BY <1>31 DEF PeerDisconnects, Suffer
<1>32. CASE PeerFails
  BY <1>32 DEF PeerFails, Suffer
<1>33. CASE JoinSessionRoom
  BY <1>33 DEF JoinSessionRoom
<1>34. CASE UNCHANGED vars
  BY <1>34 DEF vars
<1> QED
  BY <1>1, <1>2, <1>3, <1>4, <1>5, <1>6, <1>7, <1>8, <1>9, <1>10, <1>11, <1>12,
     <1>13, <1>14, <1>15, <1>16, <1>17, <1>18, <1>19, <1>20, <1>21, <1>22,
     <1>23, <1>24, <1>25, <1>26, <1>27, <1>28, <1>29, <1>30, <1>31, <1>32,
     <1>33, <1>34 DEF Next, TabEvent, ServerStep

-----------------------------------------------------------------------------
(* A tab to which nothing unhandled happened *)

LEMMA WireSteps ==
  ASSUME Queues
  PROVE  /\ \A x \in Events \ Deciding : Undecided(Append(toClient, x)) <=> Undecided(toClient)
         /\ \A x \in Events \ Deciding : \A e \in Deciding :
              Decided(Append(toClient, x), e) <=> Decided(toClient, e)
         /\ \A x \in Deciding : ~Undecided(Append(toClient, x))
         /\ \A x, e \in Deciding : Decided(Append(toClient, x), e) <=> e = x
         /\ \A x \in Events : \A e : Has(Append(toClient, x), e) <=> (Has(toClient, e) \/ e = x)
         /\ \A x \in Requests : \A e : Has(Append(toServer, x), e) <=> (Has(toServer, e) \/ e = x)
BY HasAppend, AppendUndeciding, AppendDeciding DEF Queues, Deciding, Events, Requests

LEMMA WireTails ==
  ASSUME Queues
  PROVE  /\ toClient # <<>> =>
              /\ Undecided(toClient) <=> Head(toClient) \notin Deciding /\ Undecided(Tail(toClient))
              /\ \A e \in Deciding : Decided(toClient, e) <=>
                   (Decided(Tail(toClient), e) \/ (Head(toClient) = e /\ Undecided(Tail(toClient))))
              /\ \A e : Has(toClient, e) <=> (Head(toClient) = e \/ Has(Tail(toClient), e))
         /\ toServer # <<>> =>
              \A e : Has(toServer, e) <=> (Head(toServer) = e \/ Has(Tail(toServer), e))
BY HasTail, TailDecides DEF Queues

LEMMA WireMeaning ==
  ASSUME Queues
  PROVE  /\ \A e \in Deciding : ~(Undecided(toClient) /\ Decided(toClient, e))
         /\ \A d, e \in Deciding : Decided(toClient, e) /\ Decided(toClient, d) => d = e
         /\ Undecided(<<>>) /\ \A e : ~Decided(<<>>, e) /\ ~Has(<<>>, e)
         
BY UndecidedOrDecided, DecidedOnce, EmptyQueue DEF Queues

LEMMA NextSmooth ==
  ASSUME Queues, Flags, Places, BaseInv, ~snag => Smooth, ~snag', [Next]_vars
  PROVE  Smooth'
<1> USE DEF Flags, Places, BaseInv, Smooth, FreshInv, EventInv, CallInv, SearchInv,
            IdleInv, InCall, ShowsCall, InRoom, Up, Deps, Rendered, Statuses,
            Deciding, tabVars, wireVars, serverVars, boundVars
<1>1. CASE OpenChatRoom
  BY <1>1 DEF OpenChatRoom
<1>2. CASE KeepSession
  BY <1>2 DEF KeepSession
<1>3. CASE CreateSession
  BY <1>3 DEF CreateSession, RequestRejected, Suffer
<1>4. CASE SessionRefused
  BY <1>4 DEF SessionRefused, RequestRejected, Suffer
<1>5. CASE SocketConnects
  <2>1. toClient' = toClient /\ toServer' = toServer
    BY <1>5 DEF SocketConnects
  <2> QED
    BY <1>5, <2>1, WireMeaning DEF SocketConnects
<1>6. CASE SocketGivesUp
  BY <1>6 DEF SocketGivesUp, Suffer
<1>7. CASE SocketDrops
  BY <1>7 DEF SocketDrops, Suffer, PhaseAfterDrop
<1>8. CASE NetworkChanges
  BY <1>8 DEF NetworkChanges, Suffer
<1>9. ASSUME NEW button \in BOOLEAN, LeaveChatRoom(button) PROVE Smooth'
  BY <1>9 DEF LeaveChatRoom, SocketClosed
<1>10. CASE SkipPartner
  BY <1>10, Names, WireSteps DEF SkipPartner, MaySkip
<1>11. CASE AutoJoin
  <2>1. CASE online /\ status = "idle" /\ MayJoin
    <3>1. toServer' = Append(toServer, "join") /\ toClient' = toClient
      BY <1>11, <2>1 DEF AutoJoin
    <3>2. Has(toServer', "join") /\ (Has(toServer, "next") => Has(toServer', "next"))
      BY <3>1, Names, WireSteps
    <3> QED
      BY <1>11, <2>1, <3>1, <3>2 DEF AutoJoin, MayJoin
  <2>2. CASE ~(online /\ status = "idle" /\ MayJoin)
    <3>1. toServer' = toServer /\ toClient' = toClient /\ phase' = phase
      BY <1>11, <2>2 DEF AutoJoin
    <3>2. IdleInv'
      BY <1>11, <2>2, <3>1 DEF AutoJoin, MayJoin
    <3> QED
      BY <1>11, <3>1, <3>2 DEF AutoJoin
  <2> QED
    BY <2>1, <2>2
<1>12. CASE RetryFires
  <2>1. CASE Up /\ status = "idle" /\ (phase = "idle" \/ retry = "stale")
    <3>1. toServer' = Append(toServer, "join") /\ toClient' = toClient
      BY <1>12, <2>1 DEF RetryFires
    <3>2. Has(toServer', "join") /\ (Has(toServer, "next") => Has(toServer', "next"))
      BY <3>1, Names, WireSteps
    <3> QED
      BY <1>12, <2>1, <3>1, <3>2 DEF RetryFires
  <2>2. CASE ~(Up /\ status = "idle" /\ (phase = "idle" \/ retry = "stale"))
    <3>1. toServer' = toServer /\ toClient' = toClient /\ phase' = phase
      BY <1>12, <2>2 DEF RetryFires
    <3> QED
      BY <1>12, <2>2, <3>1 DEF RetryFires
  <2> QED
    BY <2>1, <2>2
<1>13. CASE OnQueueJoined
  BY <1>13, WireTails DEF OnQueueJoined, Hear
<1>14. CASE OnMatchFound
  BY <1>14, WireTails, WireMeaning DEF OnMatchFound, Hear
<1>15. CASE OnPeerLeft
  BY <1>15, WireTails DEF OnPeerLeft, Hear, StatusAfterLeft
<1>16. CASE OnSessionError
  BY <1>16, WireTails DEF OnSessionError, Hear, PhaseAfterError
<1>17. CASE RegisterHandlers
  BY <1>17 DEF RegisterHandlers
<1>18. CASE ServeJoin
  <2>1. /\ toServer' = Tail(toServer) /\ Up /\ ready'
        /\ Has(toServer, "next") => Has(toServer', "next")
    BY <1>18, WireTails DEF ServeJoin, Receive
  <2>2. UNCHANGED <<tabVars, notice>> /\ ~snag
    BY <1>18 DEF ServeJoin
  <2>3. CASE srv' = "queued" /\ toClient' = toClient
    <3>1. srv \in {"idle", "queued"} /\ ack'
      BY <1>18, <2>3 DEF ServeJoin, Emit
    <3> QED
      BY <2>1, <2>2, <2>3, <3>1
  <2>4. CASE srv # "queued" /\ srv' = srv /\ Emit("limited")
    <3>1. toClient' = Append(toClient, "limited")
      BY <2>1, <2>4 DEF Emit
    <3>2. /\ Undecided(toClient') <=> Undecided(toClient)
          /\ \A e \in Deciding : Decided(toClient', e) <=> Decided(toClient, e)
          /\ Has(toClient', "limited")
      BY <3>1, Names, WireSteps
    <3> QED
      BY <2>1, <2>2, <2>4, <3>2
  <2> QED
    BY <1>18, <2>3, <2>4 DEF ServeJoin
<1>19. CASE ServeNext
  <2>1. srv' = "queued" /\ toClient' = toClient /\ Up /\ toServer' = Tail(toServer)
    BY <1>19 DEF ServeNext, Receive
  <2>2. UNCHANGED <<tabVars, notice>> /\ ~snag
    BY <1>19 DEF ServeNext
  <2>3. srv # "queued" => ack'
    BY <1>19 DEF ServeNext
  <2>4. ack => ack'
    BY <1>19 DEF ServeNext
  <2> QED
    BY <2>1, <2>2, <2>3, <2>4
<1>20. CASE CooldownEnds
  BY <1>20 DEF CooldownEnds
<1>21. CASE AckJoin
  BY <1>21, WireSteps DEF AckJoin, Emit
<1>22. CASE HandleDisconnect
  BY <1>22 DEF HandleDisconnect, InRoom
<1>23. CASE GraceEnds
  BY <1>23 DEF GraceEnds
<1>24. CASE LostBeforeReady
  BY <1>24 DEF LostBeforeReady, Suffer
<1>25. CASE MatchCommitted
  <2>1. Up /\ toClient' = Append(toClient, "match")
    BY <1>25 DEF MatchCommitted, Emit
  <2>2. /\ ~Undecided(toClient')
        /\ \A e \in Deciding : Decided(toClient', e) <=> e = "match"
        /\ \A e : Has(toClient', e) <=> (Has(toClient, e) \/ e = "match")
    BY <2>1, Names, WireSteps
  <2>3. UNCHANGED <<tabVars, toServer, ack, notice>>
    BY <1>25 DEF MatchCommitted, Suffer
  <2> QED
    BY <1>25, <2>1, <2>2, <2>3 DEF MatchCommitted
<1>26. CASE PartnerParts
  <2>1. Up /\ toClient' = Append(toClient, "left")
    BY <1>26 DEF PartnerParts, Emit
  <2>2. /\ ~Undecided(toClient')
        /\ \A e \in Deciding : Decided(toClient', e) <=> e = "left"
        /\ \A e : Has(toClient', e) <=> (Has(toClient, e) \/ e = "left")
    BY <2>1, Names, WireSteps
  <2>3. UNCHANGED <<tabVars, toServer, ack, notice>>
    BY <1>26 DEF PartnerParts, Suffer
  <2> QED
    BY <1>26, <2>1, <2>2, <2>3 DEF PartnerParts
<1>27. CASE PartnerVanishes
  <2>1. Up /\ toClient' = Append(toClient, "left")
    BY <1>27 DEF PartnerVanishes, Emit
  <2>2. /\ ~Undecided(toClient')
        /\ \A e \in Deciding : Decided(toClient', e) <=> e = "left"
        /\ \A e : Has(toClient', e) <=> (Has(toClient, e) \/ e = "left")
    BY <2>1, Names, WireSteps
  <2>3. UNCHANGED <<tabVars, toServer, ack, notice>>
    BY <1>27 DEF PartnerVanishes, Suffer
  <2> QED
    BY <1>27, <2>1, <2>2, <2>3 DEF PartnerVanishes
<1>28. CASE StrayPeerLeft
  BY <1>28, Names, WireSteps DEF StrayPeerLeft, Emit, Suffer
<1>29. CASE EntryExpires
  BY <1>29 DEF EntryExpires, Suffer
<1>30. CASE PeerConnects
  BY <1>30 DEF PeerConnects
<1>31. CASE PeerDisconnects
  BY <1>31 DEF PeerDisconnects, Suffer
<1>32. CASE PeerFails
  BY <1>32 DEF PeerFails, Suffer
<1>33. CASE JoinSessionRoom
  BY <1>33 DEF JoinSessionRoom
<1>34. CASE UNCHANGED vars
  BY <1>34 DEF vars
<1> QED
  BY <1>1, <1>2, <1>3, <1>4, <1>5, <1>6, <1>7, <1>8, <1>9, <1>10, <1>11, <1>12,
     <1>13, <1>14, <1>15, <1>16, <1>17, <1>18, <1>19, <1>20, <1>21, <1>22,
     <1>23, <1>24, <1>25, <1>26, <1>27, <1>28, <1>29, <1>30, <1>31, <1>32,
     <1>33, <1>34 DEF Next, TabEvent, ServerStep

-----------------------------------------------------------------------------
(* The inductive invariant, and what follows from it *)

LEMMA InitIInv == Init => IInv
<1> SUFFICES ASSUME Init PROVE IInv
  OBVIOUS
<1>1. Queues
  BY DEF Init, Queues
<1>2. Flags /\ Places /\ BaseInv
  BY DEF Init, Flags, Places, BaseInv, Up, Statuses
<1>3. Smooth
  BY DEF Init, Smooth, FreshInv, EventInv, CallInv, SearchInv, IdleInv, Up
<1> QED
  BY <1>1, <1>2, <1>3, Typing DEF IInv

LEMMA NextIInv == IInv /\ [Next]_vars => IInv'
<1> SUFFICES ASSUME IInv, [Next]_vars PROVE IInv'
  OBVIOUS
<1>1. Queues /\ Flags /\ Places /\ BaseInv /\ (~snag => Smooth)
  BY Typing DEF IInv
<1>2. Queues' /\ Flags' /\ Places' /\ BaseInv'
  BY <1>1, NextQueues, NextFlags, NextPlaces
<1>3. (Queues /\ Flags /\ Places => TypeOK)'
  BY Typing, PTL
<1>4. ~snag' => Smooth'
  BY <1>1, NextSmooth
<1> QED
  BY <1>2, <1>3, <1>4 DEF IInv

LEMMA Invariance == Spec => []IInv
BY InitIInv, NextIInv, PTL DEF Spec

(* Every variable of the tab, of its connection and of the server's view   *)
(* of the session stays in its range, and a socket is up only in a tab     *)
(* that has a session.                                                     *)
THEOREM TypeCorrect == Spec => []TypeOK
<1>1. IInv => TypeOK
  BY DEF IInv
<1> QED
  BY Invariance, <1>1, PTL

(* Whoever looks at the search, with nothing under way, is in the queue,   *)
(* unless one of the events marked as a snag happened since the last       *)
(* match: the phase machine of useSession and the handlers of the server   *)
(* lose no request of their own accord.                                    *)
THEOREM SearchersAreQueued == Spec => []SearchIsReal
<1>1. IInv => SearchIsReal
  <2> SUFFICES ASSUME IInv, Quiet, ShowsSearch, ~snag PROVE srv = "queued"
    BY DEF SearchIsReal
  <2>1. Queues /\ SearchInv /\ IdleInv
    BY Typing DEF IInv, Smooth
  <2>2. Undecided(toClient) /\ \A e : ~Has(toClient, e) /\ ~Has(toServer, e)
    BY <2>1, WireMeaning DEF Quiet
  <2> QED
    BY <2>1, <2>2 DEF SearchInv, IdleInv, Quiet, ShowsSearch
<1> QED
  BY Invariance, <1>1, PTL

(* Whoever looks at a call, with nothing under way, shares a room with a   *)
(* partner who is still there, under the same exception.                   *)
THEOREM CallersHaveARoom == Spec => []CallIsReal
<1>1. IInv => CallIsReal
  <2> SUFFICES ASSUME IInv, Quiet, ShowsCall, ~snag PROVE srv = "room"
    BY DEF CallIsReal
  <2>1. Queues /\ CallInv /\ session = "ready"
    BY Typing DEF IInv, Smooth, Places, Quiet
  <2>2. Undecided(toClient)
    BY <2>1, WireMeaning DEF Quiet
  <2> QED
    BY <2>1, <2>2 DEF CallInv, InCall, Quiet
<1> QED
  BY Invariance, <1>1, PTL
=============================================================================
