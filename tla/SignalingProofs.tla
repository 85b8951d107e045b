---------------------------- MODULE SignalingProofs ----------------------------
(***************************************************************************)
(* Proofs about Signaling, for any number of tabs, matches, reconnections  *)
(* and signals under way.                                                  *)
(***************************************************************************)
EXTENDS Signaling, TLAPS

(* Where a signal is, it comes from a member of the room it names: in      *)
(* front of the relay from the tab itself, behind it from the other side.  *)
Own(p) == {s \in Signal : s.room \in DOMAIN rooms /\ s.from = p /\ p \in Members(s.room)}

Bound(q) ==
  {e \in Event : /\ e.room \in DOMAIN rooms /\ q \in Members(e.room)
                 /\ e.kind \in {"offer", "answer", "ice"} => e.from \in Members(e.room) \ {q}}

(* What a tab may take in *)
Fit(p) ==
  {s \in Signal : /\ match[p] \in DOMAIN rooms /\ p \in Members(match[p])
                  /\ s.room = match[p] /\ s.from \in Members(match[p]) \ {p}}

FitIce(p) == {s \in Fit(p) : s.kind = "ice"}

RoomsInv ==
  /\ rooms \in Seq(Room)
  /\ \A r \in DOMAIN rooms : rooms[r].init # rooms[r].resp

ServerInv ==
  /\ stored \in [Peers -> Nat]
  /\ \A p \in Peers : stored[p] # 0 => stored[p] \in DOMAIN rooms /\ p \in Members(stored[p])
  /\ engaged \subseteq {p \in Peers : stored[p] # 0}
  /\ cache \in [Peers -> [room : Nat, peer : Nat]]
  /\ \A p \in Peers : cache[p].room # 0 => cache[p].room \in DOMAIN rooms
  /\ looking \subseteq [signal : Signal, known : BOOLEAN]
  /\ \A l \in looking : l.signal \in Own(l.signal.from)

UplinkInv == uplink \in [Peers -> Seq(Signal)] /\ \A p \in Peers : uplink[p] \in Seq(Own(p))
InboxInv  == inbox \in [Peers -> Seq(Event)] /\ \A p \in Peers : inbox[p] \in Seq(Bound(p))
SockInv   == sock \in [Peers -> 1..MaxReconnects + 1] /\ missed \subseteq DOMAIN rooms

PcType ==
  [room : Nat, local : BOOLEAN, remote : SUBSET Signal, cands : SUBSET Signal,
   gathered : BOOLEAN]

StepType == {"none", "fetching", "offering", "answering", "listening"}

(* A peer connection is for the match on the screen or closed; what it has *)
(* taken in fits; candidates and descriptions come in the order of the     *)
(* set-up's steps.                                                         *)
TabOk(p) ==
  /\ match[p] # 0 => match[p] \in DOMAIN rooms /\ p \in Members(match[p])
  /\ step[p] # "none" <=> match[p] # 0
  /\ pc[p].room = 0 => pc[p] = NoPc
  /\ pc[p].room # 0 => pc[p].room = match[p]
  /\ pc[p].remote \subseteq Fit(p) \ FitIce(p)
  /\ pc[p].cands \subseteq FitIce(p)
  /\ early[p] \in Seq(FitIce(p))
  /\ step[p] = "fetching" => pc[p] = NoPc /\ early[p] = <<>>
  /\ step[p] = "offering" => pc[p].room = match[p] /\ pc[p].remote = {} /\ early[p] = <<>>
  /\ step[p] = "answering" /\ pc[p].room # 0 => pc[p].remote # {}
  /\ pc[p].cands # {} => pc[p].remote # {}
  /\ pc[p].remote # {} /\ step[p] = "listening" => early[p] = <<>>

TabInv ==
  /\ match \in [Peers -> Nat]
  /\ step \in [Peers -> StepType]
  /\ pc \in [Peers -> PcType]
  /\ early \in [Peers -> Seq(Signal)]
  /\ \A p \in Peers : TabOk(p)

IInv == RoomsInv /\ ServerInv /\ SockInv /\ UplinkInv /\ InboxInv /\ TabInv

-----------------------------------------------------------------------------
(* Sequences, rooms, and the other member *)

LEMMA SeqFacts ==
  ASSUME NEW S, NEW s \in Seq(S)
  PROVE  /\ \A e \in S : Append(s, e) \in Seq(S)
         /\ s # <<>> => Head(s) \in S /\ Tail(s) \in Seq(S)
         /\ <<>> \in Seq(S)
         /\ ToSet(s) \subseteq S
BY DEF ToSet

LEMMA SeqSubset ==
  ASSUME NEW S, NEW T, S \subseteq T, NEW s \in Seq(S)
  PROVE  s \in Seq(T)
OBVIOUS

LEMMA ReplacedInSeq ==
  ASSUME NEW S, NEW q \in Seq(S), NEW i \in DOMAIN q, NEW e \in S
  PROVE  [q EXCEPT ![i] = e] \in Seq(S) /\ DOMAIN [q EXCEPT ![i] = e] = DOMAIN q
OBVIOUS

LEMMA RoomType ==
  ASSUME RoomsInv, NEW r \in DOMAIN rooms
  PROVE  rooms[r] \in Room /\ Members(r) \subseteq Peers /\ r \in Nat /\ r # 0
<1>1. rooms[r] \in Room /\ r \in 1..Len(rooms)
  BY DEF RoomsInv
<1>2. QED  BY <1>1 DEF Room, Members, RoomsInv

LEMMA OtherMember ==
  ASSUME RoomsInv, NEW r \in DOMAIN rooms, NEW p \in Members(r)
  PROVE  /\ Other(r, p) \in Members(r) /\ Other(r, p) # p /\ Other(r, p) \in Peers
         /\ \A q \in Members(r) : q # p => q = Other(r, p)
<1>1. \E q \in Members(r) : q # p
  BY DEF RoomsInv, Members
<1>2. Other(r, p) \in Members(r) /\ Other(r, p) # p
  BY <1>1 DEF Other
<1>3. Members(r) \subseteq Peers
  BY RoomType
<1>4. \A q \in Members(r) : q # p => q = Other(r, p)
  BY <1>2 DEF Members
<1>5. QED  BY <1>2, <1>3, <1>4

(* Rooms are added and closed, never changed in who is in them. *)
RoomsKept ==
  /\ DOMAIN rooms \subseteq DOMAIN rooms'
  /\ \A r \in DOMAIN rooms : Members(r)' = Members(r)

LEMMA AddressesKept ==
  ASSUME RoomsKept, NEW p
  PROVE  /\ Own(p) \subseteq Own(p)'
         /\ Bound(p) \subseteq Bound(p)'
         /\ match'[p] = match[p] => Fit(p) \subseteq Fit(p)' /\ FitIce(p) \subseteq FitIce(p)'
BY DEF RoomsKept, Own, Bound, Fit, FitIce

LEMMA SameRooms ==
  ASSUME rooms' = rooms
  PROVE  RoomsKept /\ \A r : Members(r)' = Members(r) /\ \A p : Other(r, p)' = Other(r, p)
BY DEF RoomsKept, Members, Other

(* A tab that keeps its own state is not disturbed by what becomes of rooms. *)
LEMMA TabKept ==
  ASSUME RoomsKept, NEW p, TabOk(p), match'[p] = match[p], step'[p] = step[p],
         pc'[p] = pc[p], early'[p] = early[p]
  PROVE  TabOk(p)'
<1>1. Fit(p) \subseteq Fit(p)' /\ FitIce(p) \subseteq FitIce(p)'
  BY AddressesKept
<1>2. early'[p] \in Seq(FitIce(p)')
  BY <1>1, SeqSubset DEF TabOk
<1>3. pc'[p].remote \subseteq Fit(p)' \ FitIce(p)' /\ pc'[p].cands \subseteq FitIce(p)'
  BY <1>1 DEF TabOk, FitIce
<1>4. (match[p] # 0 => match[p] \in DOMAIN rooms /\ p \in Members(match[p]))'
  BY DEF TabOk, RoomsKept
<1>5. QED  BY <1>2, <1>3, <1>4 DEF TabOk

LEMMA OneTabChanges ==
  ASSUME RoomsKept, TabInv, NEW p \in Peers,
         match' \in [Peers -> Nat], step' \in [Peers -> StepType],
         pc' \in [Peers -> PcType], early' \in [Peers -> Seq(Signal)],
         \A q \in Peers \ {p} : /\ match'[q] = match[q] /\ step'[q] = step[q]
                                /\ pc'[q] = pc[q] /\ early'[q] = early[q],
         TabOk(p)'
  PROVE  TabInv'
<1>1. ASSUME NEW q \in Peers PROVE TabOk(q)'
  <2>1. CASE q = p
    BY <2>1
  <2>2. CASE q # p
    BY <2>2, TabKept DEF TabInv
  <2>3. QED  BY <2>1, <2>2
<1>2. QED  BY <1>1 DEF TabInv

-----------------------------------------------------------------------------
(* The queues of the two connections *)

LEMMA ServerKept ==
  ASSUME RoomsInv, ServerInv, RoomsKept, UNCHANGED <<stored, engaged, cache, looking>>
  PROVE  ServerInv'
<1>1. \A l \in looking : l.signal \in Own(l.signal.from)'
  BY AddressesKept DEF ServerInv
<1>2. QED  BY <1>1 DEF ServerInv, RoomsKept

LEMMA UplinkKept ==
  ASSUME UplinkInv, RoomsKept, UNCHANGED uplink
  PROVE  UplinkInv'
<1>1. ASSUME NEW p \in Peers PROVE uplink[p] \in Seq(Own(p)')
  BY AddressesKept, SeqSubset DEF UplinkInv
<1>2. QED  BY <1>1 DEF UplinkInv

LEMMA UplinkTakes ==
  ASSUME UplinkInv, UNCHANGED rooms, NEW p \in Peers, uplink[p] # <<>>,
         uplink' = [uplink EXCEPT ![p] = Tail(@)]
  PROVE  UplinkInv' /\ Head(uplink[p]) \in Own(p)
<1>1. Head(uplink[p]) \in Own(p) /\ Tail(uplink[p]) \in Seq(Own(p))
  BY SeqFacts DEF UplinkInv
<1>2. \A q \in Peers : Own(q)' = Own(q)
  BY SameRooms DEF Own
<1>3. Tail(uplink[p]) \in Seq(Signal)
  BY SeqFacts DEF UplinkInv
<1>4. QED  BY <1>1, <1>2, <1>3 DEF UplinkInv

LEMMA EmitKeeps ==
  ASSUME UplinkInv, RoomsInv, UNCHANGED rooms, NEW p \in Peers, NEW kind \in {"offer", "answer", "ice"},
         match[p] \in DOMAIN rooms, p \in Members(match[p]), Emit(p, kind)
  PROVE  UplinkInv'
<1> DEFINE e == [kind |-> kind, room |-> match[p], from |-> p]
<1>1. e \in Own(p) /\ e \in Signal
  BY RoomType DEF Own, Signal
<1>2. \A q \in Peers : Own(q)' = Own(q)
  BY SameRooms DEF Own
<1>3. Append(uplink[p], e) \in Seq(Own(p)) /\ Append(uplink[p], e) \in Seq(Signal)
  BY <1>1, SeqFacts DEF UplinkInv
<1>4. uplink' = [uplink EXCEPT ![p] = Append(uplink[p], e)]
  BY DEF Emit
<1> HIDE DEF e
<1>5. QED  BY <1>2, <1>3, <1>4 DEF UplinkInv

LEMMA InboxGrows ==
  ASSUME InboxInv, RoomsKept, inbox' = [q \in Peers |-> inbox'[q]],
         \A q \in Peers : \/ inbox'[q] = inbox[q]
                          \/ \E e \in Bound(q)' : inbox'[q] = Append(inbox[q], e)
  PROVE  InboxInv'
<1>1. ASSUME NEW q \in Peers PROVE inbox'[q] \in Seq(Bound(q)') /\ inbox'[q] \in Seq(Event)
  <2>1. inbox[q] \in Seq(Bound(q)') /\ inbox[q] \in Seq(Event)
    BY AddressesKept, SeqSubset DEF InboxInv
  <2>2. ASSUME NEW e \in Bound(q)', inbox'[q] = Append(inbox[q], e)
        PROVE  inbox'[q] \in Seq(Bound(q)') /\ inbox'[q] \in Seq(Event)
    <3>1. e \in Event
      BY DEF Bound
    <3>2. Append(inbox[q], e) \in Seq(Bound(q)')
      BY <2>1, <2>2, SeqFacts
    <3>3. Append(inbox[q], e) \in Seq(Event)
      BY <2>1, <3>1, SeqFacts
    <3>4. QED  BY <2>2, <3>2, <3>3
  <2>3. QED  BY <2>1, <2>2
<1>2. QED  BY <1>1 DEF InboxInv

LEMMA SentKeeps ==
  ASSUME InboxInv, RoomsKept, NEW q \in Peers, NEW socket, NEW e, e \in Bound(q)',
         inbox' = Sent(q, socket, e)
  PROVE  InboxInv'
<1>1. inbox' = [inbox EXCEPT ![q] = IF sock[q] = socket THEN Append(inbox[q], e) ELSE inbox[q]]
  BY DEF Sent
<1>2. inbox' = [x \in Peers |-> inbox'[x]]
  BY <1>1 DEF InboxInv
<1>3. ASSUME NEW x \in Peers
      PROVE  inbox'[x] = inbox[x] \/ \E f \in Bound(x)' : inbox'[x] = Append(inbox[x], f)
  BY <1>1 DEF InboxInv
<1>4. QED  BY <1>2, <1>3, InboxGrows

LEMMA InboxTakes ==
  ASSUME InboxInv, UNCHANGED rooms, NEW p \in Peers, inbox[p] # <<>>,
         inbox' = [inbox EXCEPT ![p] = Tail(@)]
  PROVE  InboxInv' /\ Head(inbox[p]) \in Bound(p)
<1>1. Head(inbox[p]) \in Bound(p) /\ Tail(inbox[p]) \in Seq(Bound(p))
  BY SeqFacts DEF InboxInv
<1>2. \A q \in Peers : Bound(q)' = Bound(q)
  BY SameRooms DEF Bound
<1>3. Tail(inbox[p]) \in Seq(Event)
  BY SeqFacts DEF InboxInv
<1>4. QED  BY <1>1, <1>2, <1>3 DEF InboxInv

(* A signal that the relay passes on reaches the member that did not send it. *)
LEMMA RelayedIsBound ==
  ASSUME RoomsInv, NEW s \in Signal, s \in Own(s.from), NEW q \in Peers,
         q = Other(s.room, s.from)
  PROVE  s \in Bound(q)
<1>1. s.room \in DOMAIN rooms /\ s.from \in Members(s.room)
  BY DEF Own
<1>2. q \in Members(s.room) /\ q # s.from
  BY <1>1, OtherMember
<1>3. QED  BY <1>1, <1>2 DEF Bound, Event

-----------------------------------------------------------------------------
(* Every step keeps the invariant: matches come and go *)

LEMMA MatchKeeps ==
  ASSUME IInv, NEW p \in Peers, NEW q \in Peers, Match(p, q)
  PROVE  IInv'
<1>0. PICK r \in Nat : r = Len(rooms) + 1
  BY DEF IInv, RoomsInv
<1> DEFINE
           new == [init |-> p, resp |-> q, sock |-> sock, open |-> TRUE]
           cp == [room |-> r, peer |-> sock[q]]
           cq == [room |-> r, peer |-> sock[p]]
<1> USE DEF IInv
<1>1. p # q /\ rooms \in Seq(Room) /\ r \in Nat /\ r # 0
  BY <1>0 DEF Match, RoomsInv
<1>2. new \in Room /\ sock[p] \in Nat /\ sock[q] \in Nat
  BY BoundsAssumption DEF Room, SockInv
<1>3. rooms' = Append(rooms, new)
  BY DEF Match
<1> HIDE DEF new
<1>4. /\ rooms' \in Seq(Room) /\ Len(rooms') = r /\ rooms'[r] = new
      /\ \A x \in DOMAIN rooms : rooms'[x] = rooms[x]
      /\ DOMAIN rooms' = DOMAIN rooms \cup {r}
  BY <1>0, <1>1, <1>2, <1>3
<1>5. RoomsInv'
  <2>1. new.init # new.resp
    BY <1>1 DEF new
  <2>2. QED  BY <1>4, <2>1 DEF RoomsInv
<1>6. RoomsKept
  BY <1>4 DEF RoomsKept, Members
<1>7. (r \in DOMAIN rooms /\ p \in Members(r) /\ q \in Members(r))'
  BY <1>4 DEF Members, new
<1>8. ServerInv'
  <2>1. stored' = [stored EXCEPT ![p] = r, ![q] = r]
    BY <1>0 DEF Match
  <2>2. stored' \in [Peers -> Nat]
    BY <1>1, <2>1 DEF ServerInv
  <2>3. (\A x \in Peers : stored[x] # 0 => stored[x] \in DOMAIN rooms /\ x \in Members(stored[x]))'
    BY <1>6, <1>7, <2>1 DEF ServerInv, RoomsKept
  <2>4. cache' = [cache EXCEPT ![p] = cp, ![q] = cq]
    BY <1>0 DEF Match
  <2>5. cp \in [room : Nat, peer : Nat] /\ cq \in [room : Nat, peer : Nat] /\ cp.room = r /\ cq.room = r
    BY <1>1, <1>2
  <2> HIDE DEF cp, cq
  <2>6. cache' \in [Peers -> [room : Nat, peer : Nat]]
    BY <2>4, <2>5 DEF ServerInv
  <2>7. (\A x \in Peers : cache[x].room # 0 => cache[x].room \in DOMAIN rooms)'
    BY <1>4, <2>4, <2>5 DEF ServerInv
  <2>8. looking' = looking
    BY DEF Match
  <2>9. (\A l \in looking : l.signal \in Own(l.signal.from))'
    BY <1>6, <2>8, AddressesKept DEF ServerInv
  <2>10. (engaged \subseteq {x \in Peers : stored[x] # 0})'
    <3>1. engaged' = engaged \cup {p, q}
      BY DEF Match
    <3>2. QED  BY <1>1, <2>1, <3>1 DEF ServerInv
  <2>11. QED  BY <2>2, <2>3, <2>6, <2>7, <2>8, <2>9, <2>10 DEF ServerInv
<1>9. SockInv' /\ UplinkInv'
  BY <1>6, UplinkKept DEF Match, SockInv, RoomsKept, tabVars
<1>10. InboxInv'
  <2>1. ASSUME NEW x \in {p, q}
        PROVE  [kind |-> "match", room |-> r, from |-> x] \in Bound(x)'
    BY <1>1, <1>7 DEF Bound, Event
  <2>2. inbox' = [x \in Peers |->
                    IF x \in {p, q}
                    THEN Append(inbox[x], [kind |-> "match", room |-> r, from |-> x])
                    ELSE inbox[x]]
    BY <1>0 DEF Match
  <2>3. QED  BY <1>6, <2>1, <2>2, InboxGrows
<1>11. TabInv'
  BY <1>6, TabKept DEF Match, tabVars, TabInv
<1>12. QED  BY <1>5, <1>8, <1>9, <1>10, <1>11

LEMMA RoomCloses ==
  ASSUME RoomsInv, NEW r \in DOMAIN rooms, rooms' = [rooms EXCEPT ![r].open = FALSE]
  PROVE  RoomsInv' /\ RoomsKept
<1>1. rooms[r] \in Room
  BY RoomType
<1> DEFINE shut == [rooms[r] EXCEPT !.open = FALSE]
<1>2. shut \in Room /\ shut.init = rooms[r].init /\ shut.resp = rooms[r].resp
  BY <1>1 DEF Room
<1>3. rooms' = [rooms EXCEPT ![r] = shut]
  OBVIOUS
<1> HIDE DEF shut
<1>4. rooms' \in Seq(Room) /\ DOMAIN rooms' = DOMAIN rooms
  <2>1. rooms \in Seq(Room) /\ shut \in Room
    BY <1>2 DEF RoomsInv
  <2>2. [rooms EXCEPT ![r] = shut] \in Seq(Room)
        /\ DOMAIN [rooms EXCEPT ![r] = shut] = DOMAIN rooms
    BY <2>1, ReplacedInSeq
  <2>3. QED  BY <1>3, <2>2, Zenon
<1>5. \A x \in DOMAIN rooms : rooms'[x].init = rooms[x].init /\ rooms'[x].resp = rooms[x].resp
  BY <1>2, <1>3
<1>6. QED  BY <1>4, <1>5 DEF RoomsInv, RoomsKept, Members

LEMMA TornDownTab ==
  ASSUME TabInv, NEW p \in Peers, TornDown(p), RoomsKept
  PROVE  TabInv'
<1>1. NoPc \in PcType /\ NoPc.room = 0 /\ NoPc.remote = {} /\ NoPc.cands = {}
  BY DEF NoPc, PcType
<1>2. /\ match'[p] = 0 /\ step'[p] = "none" /\ pc'[p] = NoPc /\ early'[p] = <<>>
      /\ match' \in [Peers -> Nat] /\ step' \in [Peers -> StepType]
      /\ pc' \in [Peers -> PcType] /\ early' \in [Peers -> Seq(Signal)]
      /\ \A q \in Peers \ {p} : /\ match'[q] = match[q] /\ step'[q] = step[q]
                                /\ pc'[q] = pc[q] /\ early'[q] = early[q]
  BY <1>1 DEF TornDown, TabInv, StepType
<1>3. TabOk(p)'
  BY <1>1, <1>2 DEF TabOk
<1>4. QED  BY <1>2, <1>3, OneTabChanges

LEMMA PartKeeps ==
  ASSUME IInv, NEW p \in Peers, Part(p)
  PROVE  IInv'
<1> USE DEF IInv
<1>0. PICK r : r = stored[p]
  OBVIOUS
<1>1. PICK q : q = Other(r, p)
  OBVIOUS
<1>2. r \in DOMAIN rooms /\ p \in Members(r)
  BY <1>0 DEF Part, ServerInv
<1>3. q \in Members(r) /\ q # p /\ q \in Peers /\ r \in Nat
  BY <1>1, <1>2, OtherMember, RoomType
<1>4. RoomsInv' /\ RoomsKept
  BY <1>0, <1>2, RoomCloses DEF Part
<1>5. ServerInv'
  <2>1. UNCHANGED <<stored, cache, looking>> /\ engaged' = engaged \ {p}
    BY DEF Part
  <2>2. stored' \in [Peers -> Nat] /\ (engaged \subseteq {x \in Peers : stored[x] # 0})'
    BY <2>1 DEF ServerInv
  <2>3. (\A x \in Peers : stored[x] # 0 => stored[x] \in DOMAIN rooms /\ x \in Members(stored[x]))'
    BY <1>4, <2>1 DEF ServerInv, RoomsKept
  <2>4. (\A x \in Peers : cache[x].room # 0 => cache[x].room \in DOMAIN rooms)'
    BY <1>4, <2>1 DEF ServerInv, RoomsKept
  <2>5. (\A l \in looking : l.signal \in Own(l.signal.from))'
    BY <1>4, <2>1, AddressesKept DEF ServerInv
  <2>6. QED  BY <2>1, <2>2, <2>3, <2>4, <2>5 DEF ServerInv
<1>6. SockInv' /\ UplinkInv'
  BY <1>4, UplinkKept DEF Part, SockInv, RoomsKept
<1>7. InboxInv'
  <2>1. [kind |-> "left", room |-> r, from |-> p] \in Bound(q)'
    BY <1>2, <1>3, <1>4 DEF Bound, Event, RoomsKept
  <2>2. inbox' = Sent(q, rooms[r].sock[q], [kind |-> "left", room |-> r, from |-> p])
    BY <1>0, <1>1 DEF Part, GoodbyeSent, Goodbye
  <2>3. QED  BY <1>3, <1>4, <2>1, <2>2, SentKeeps
<1>8. TabInv'
  BY <1>4, TornDownTab DEF Part
<1>9. QED  BY <1>4, <1>5, <1>6, <1>7, <1>8

LEMMA ReconnectKeeps ==
  ASSUME IInv, NEW p \in Peers, Reconnect(p)
  PROVE  IInv'
<1> USE DEF IInv
<1>1. RoomsInv' /\ RoomsKept
  BY SameRooms DEF Reconnect, RoomsInv
<1>2. TabInv'
  BY <1>1, TabKept DEF Reconnect, tabVars, TabInv
<1>3. SockInv'
  BY BoundsAssumption DEF Reconnect, NewSocket, SockInv, tabVars
<1>4. UplinkInv'
  <2>1. uplink' = [uplink EXCEPT ![p] = <<>>]
    BY DEF Reconnect, NewSocket
  <2>2. \A q \in Peers : Own(q)' = Own(q)
    BY SameRooms DEF Own, Reconnect
  <2>3. QED  BY <2>1, <2>2 DEF UplinkInv
<1>5. InboxInv'
  <2>1. inbox' = [inbox EXCEPT ![p] = <<>>]
    BY DEF Reconnect
  <2>2. \A q \in Peers : Bound(q)' = Bound(q)
    BY SameRooms DEF Bound, Reconnect
  <2>3. QED  BY <2>1, <2>2 DEF InboxInv
<1>6. ServerInv'
  <2>1. stored[p] # 0 => stored[p] \in DOMAIN rooms /\ rooms[stored[p]].sock[Other(stored[p], p)] \in Nat
    <3>1. SUFFICES ASSUME stored[p] # 0
                   PROVE  stored[p] \in DOMAIN rooms /\ rooms[stored[p]].sock[Other(stored[p], p)] \in Nat
      OBVIOUS
    <3>2. stored[p] \in DOMAIN rooms /\ p \in Members(stored[p])
      BY <3>1 DEF ServerInv
    <3>3. rooms[stored[p]] \in Room /\ Other(stored[p], p) \in Peers
      BY <3>2, RoomType, OtherMember
    <3>4. QED  BY <3>2, <3>3 DEF Room
  <2>2. PICK c : /\ cache' = [cache EXCEPT ![p] = c]
                 /\ \/ stored[p] # 0 /\ c = [room |-> stored[p], peer |-> rooms[stored[p]].sock[Other(stored[p], p)]]
                    \/ c = [room |-> 0, peer |-> 0]
    <3>1. p \in engaged => stored[p] # 0
      BY DEF ServerInv
    <3>2. QED  BY <3>1 DEF Reconnect, NoAddress
  <2>3. c \in [room : Nat, peer : Nat] /\ (c.room # 0 => c.room \in DOMAIN rooms)
    BY <2>1, <2>2 DEF ServerInv
  <2>4. cache' \in [Peers -> [room : Nat, peer : Nat]]
        /\ \A x \in Peers : cache'[x].room # 0 => cache'[x].room \in DOMAIN rooms
    BY <2>2, <2>3 DEF ServerInv
  <2>5. UNCHANGED <<rooms, stored, engaged, looking>>
    BY DEF Reconnect
  <2>6. (\A x \in Peers : stored[x] # 0 => stored[x] \in DOMAIN rooms /\ x \in Members(stored[x]))'
    BY <2>5, SameRooms DEF ServerInv
  <2>7. (\A l \in looking : l.signal \in Own(l.signal.from))'
    BY <1>1, <2>5, AddressesKept DEF ServerInv
  <2>8. QED  BY <2>4, <2>5, <2>6, <2>7 DEF ServerInv
<1>7. QED  BY <1>1, <1>2, <1>3, <1>4, <1>5, <1>6

LEMMA VanishKeeps ==
  ASSUME IInv, NEW p \in Peers, Vanish(p)
  PROVE  IInv'
<1> USE DEF IInv
<1>0. PICK r : r = stored[p]
  OBVIOUS
<1>1. PICK q : q = Other(r, p)
  OBVIOUS
<1>2. r \in DOMAIN rooms /\ p \in Members(r)
  BY <1>0 DEF Vanish, ServerInv
<1>3. q \in Members(r) /\ q # p /\ q \in Peers /\ r \in Nat
  BY <1>1, <1>2, OtherMember, RoomType
<1>4. RoomsInv' /\ RoomsKept /\ rooms' = rooms
  BY SameRooms DEF Vanish, RoomsInv
<1>5. TabInv'
  BY <1>4, TornDownTab DEF Vanish
<1>6. SockInv'
  BY BoundsAssumption DEF Vanish, NewSocket, SockInv
<1>7. UplinkInv'
  <2>1. uplink' = [uplink EXCEPT ![p] = <<>>]
    BY DEF Vanish, NewSocket
  <2>2. \A x \in Peers : Own(x)' = Own(x)
    BY SameRooms DEF Own, Vanish
  <2>3. QED  BY <2>1, <2>2 DEF UplinkInv
<1>8. InboxInv'
  <2> DEFINE e == [kind |-> "left", room |-> r, from |-> p]
             grown == Sent(q, rooms[r].sock[q], e)
  <2>1. e \in Bound(q) /\ e \in Event
    BY <1>2, <1>3 DEF Bound, Event
  <2>2. inbox' = [grown EXCEPT ![p] = <<>>]
    BY <1>0, <1>1 DEF Vanish, GoodbyeSent, Goodbye
  <2> HIDE DEF e
  <2>3. grown \in [Peers -> Seq(Event)] /\ \A x \in Peers : grown[x] \in Seq(Bound(x))
    BY <1>3, <2>1 DEF Sent, InboxInv
  <2> HIDE DEF grown
  <2>4. inbox' \in [Peers -> Seq(Event)] /\ \A x \in Peers : inbox'[x] \in Seq(Bound(x))
    BY <2>2, <2>3
  <2>5. \A x \in Peers : Bound(x)' = Bound(x)
    BY SameRooms, <1>4 DEF Bound
  <2>6. QED  BY <2>4, <2>5 DEF InboxInv
<1>9. ServerInv'
  <2>1. /\ UNCHANGED looking
        /\ stored' = [stored EXCEPT ![p] = 0] /\ engaged' = engaged \ {p}
        /\ cache' = [cache EXCEPT ![p] = [room |-> 0, peer |-> 0]]
    BY DEF Vanish, NoAddress
  <2>2. stored' \in [Peers -> Nat] /\ (engaged \subseteq {x \in Peers : stored[x] # 0})'
    BY <2>1 DEF ServerInv
  <2>3. (\A x \in Peers : stored[x] # 0 => stored[x] \in DOMAIN rooms /\ x \in Members(stored[x]))'
    BY <1>4, <2>1 DEF ServerInv, RoomsKept
  <2>4. cache' \in [Peers -> [room : Nat, peer : Nat]]
        /\ (\A x \in Peers : cache[x].room # 0 => cache[x].room \in DOMAIN rooms)'
    BY <1>4, <2>1 DEF ServerInv
  <2>5. (\A l \in looking : l.signal \in Own(l.signal.from))'
    BY <1>4, <2>1, AddressesKept DEF ServerInv
  <2>6. QED  BY <2>1, <2>2, <2>3, <2>4, <2>5 DEF ServerInv
<1>10. QED  BY <1>4, <1>5, <1>6, <1>7, <1>8, <1>9

-----------------------------------------------------------------------------
(* The relay *)

LEMMA LostRooms ==
  ASSUME RoomsInv, SockInv, NEW x, NEW s \in Own(x), Lost(s)
  PROVE  missed' \subseteq DOMAIN rooms
BY DEF Lost, SockInv, Own

LEMMA TabsKept ==
  ASSUME TabInv, RoomsKept, UNCHANGED <<match, step, pc, early>>
  PROVE  TabInv'
BY TabKept DEF TabInv

LEMMA RelayKeeps ==
  ASSUME IInv, NEW p \in Peers, Relay(p)
  PROVE  IInv'
<1> USE DEF IInv
<1>1. rooms' = rooms /\ sock' = sock /\ UNCHANGED <<match, step, pc, early>>
  BY DEF Relay, RelayCached, RelayLooksUp, RelayRefuses, serverVars, tabVars
<1>2. RoomsInv' /\ RoomsKept /\ TabInv'
  BY <1>1, SameRooms, TabsKept DEF RoomsInv
<1>3. uplink[p] # <<>> /\ uplink' = [uplink EXCEPT ![p] = Tail(@)]
  BY DEF Relay, RelayCached, RelayLooksUp, RelayRefuses
<1>4. UplinkInv' /\ Head(uplink[p]) \in Own(p)
  BY <1>1, <1>3, UplinkTakes
<1>41. SockInv'
  <2>1. missed' \subseteq DOMAIN rooms
    BY <1>4, LostRooms DEF Relay, RelayCached, RelayLooksUp, RelayRefuses, SockInv, tabVars
  <2>2. QED  BY <1>1, <2>1 DEF SockInv
<1>5. PICK s : s = Head(uplink[p])
  OBVIOUS
<1>6. s \in Signal /\ s.from = p /\ s \in Own(s.from) /\ s.room \in DOMAIN rooms /\ p \in Members(s.room)
  BY <1>4, <1>5 DEF Own
<1>7. CASE RelayCached(p)
  <2>1. ServerInv'
    BY <1>7, <1>2, ServerKept DEF RelayCached, serverVars
  <2>2. cache[p].room = s.room
    BY <1>5, <1>7 DEF RelayCached, Cached
  <2>3. inbox' = [q \in Peers |->
                    IF q = Other(cache[p].room, p) /\ sock[q] = cache[p].peer
                    THEN Append(inbox[q], s) ELSE inbox[q]]
    BY <1>5, <1>7 DEF RelayCached
  <2>4. ASSUME NEW q \in Peers, q = Other(cache[p].room, p) PROVE s \in Bound(q)'
    <3>1. s \in Bound(q)
      BY <1>6, <2>2, <2>4, RelayedIsBound
    <3>2. QED  BY <1>2, <3>1, AddressesKept
  <2>5. InboxInv'
    BY <1>2, <2>3, <2>4, InboxGrows
  <2>6. QED  BY <1>2, <1>4, <1>41, <2>1, <2>5
<1>8. CASE RelayLooksUp(p)
  <2>1. looking' = looking \cup {[signal |-> s, known |-> s.kind = "ice"]}
        /\ UNCHANGED <<stored, engaged, cache, inbox>>
    BY <1>5, <1>8 DEF RelayLooksUp
  <2>2. looking' \subseteq [signal : Signal, known : BOOLEAN]
    <3>1. (s.kind = "ice") \in BOOLEAN
      OBVIOUS
    <3>2. \A known \in BOOLEAN : [signal |-> s, known |-> known] \in [signal : Signal, known : BOOLEAN]
      BY <1>6
    <3>3. QED  BY <2>1, <3>1, <3>2, Zenon DEF ServerInv
  <2>3. (\A l \in looking : l.signal \in Own(l.signal.from))'
    BY <1>2, <1>6, <2>1, AddressesKept DEF ServerInv
  <2>4. ServerInv'
    BY <1>2, <2>1, <2>2, <2>3 DEF ServerInv, RoomsKept
  <2>5. InboxInv'
    BY <1>2, <2>1, InboxGrows DEF InboxInv
  <2>6. QED  BY <1>2, <1>4, <1>41, <2>4, <2>5
<1>9. CASE RelayRefuses(p)
  <2>1. ServerInv' /\ InboxInv'
    BY <1>2, <1>9, ServerKept, InboxGrows DEF RelayRefuses, serverVars, InboxInv
  <2>2. QED  BY <1>2, <1>4, <1>41, <2>1
<1>10. QED  BY <1>7, <1>8, <1>9 DEF Relay

LEMMA LookupKeeps ==
  ASSUME IInv, NEW l \in looking, Lookup(l)
  PROVE  IInv'
<1> USE DEF IInv
<1>1. rooms' = rooms /\ UNCHANGED <<sock, uplink, stored, engaged, cache, match, step, pc, early>>
  BY DEF Lookup, LookupMember, LookupPeer, LookupFails, wireVars, tabVars
<1>2. RoomsInv' /\ RoomsKept /\ TabInv' /\ UplinkInv'
  BY <1>1, SameRooms, TabsKept, UplinkKept DEF RoomsInv
<1>3. l.signal \in Signal /\ l \in [signal : Signal, known : BOOLEAN] /\ l.signal \in Own(l.signal.from)
  BY DEF ServerInv
<1>31. SockInv'
  <2>1. missed' \subseteq DOMAIN rooms
    BY <1>3, LostRooms DEF Lookup, LookupMember, LookupPeer, LookupFails, SockInv, tabVars
  <2>2. QED  BY <1>1, <2>1 DEF SockInv
<1>4. looking' \subseteq (looking \ {l}) \cup {[l EXCEPT !.known = TRUE]}
  BY DEF Lookup, LookupMember, LookupPeer, LookupFails
<1>5. [l EXCEPT !.known = TRUE] \in [signal : Signal, known : BOOLEAN]
      /\ [l EXCEPT !.known = TRUE].signal = l.signal
  BY <1>3
<1>6. ServerInv'
  <2>1. \A m \in looking' : m \in [signal : Signal, known : BOOLEAN] /\ m.signal \in Own(m.signal.from)
    BY <1>3, <1>4, <1>5 DEF ServerInv
  <2>2. (\A m \in looking : m.signal \in Own(m.signal.from))'
    BY <1>2, <2>1, AddressesKept
  <2>3. QED  BY <1>1, <1>2, <2>1, <2>2 DEF ServerInv, RoomsKept
<1>7. InboxInv'
  <2>1. CASE UNCHANGED inbox
    BY <1>2, <2>1, InboxGrows DEF InboxInv
  <2>2. CASE Deliver(l.signal)
    <3>1. PICK q : q = Other(l.signal.room, l.signal.from)
      OBVIOUS
    <3>2. q \in Peers
      BY <1>3, <3>1, OtherMember DEF Own
    <3>3. l.signal \in Bound(q)'
      BY <1>2, <1>3, <3>1, <3>2, RelayedIsBound, AddressesKept
    <3>4. inbox' = Sent(q, rooms[l.signal.room].sock[q], l.signal)
      BY <2>2, <3>1 DEF Deliver
    <3>5. QED  BY <1>2, <3>2, <3>3, <3>4, SentKeeps
  <2>3. QED  BY <2>1, <2>2 DEF Lookup, LookupMember, LookupPeer, LookupFails, wireVars
<1>8. QED  BY <1>2, <1>31, <1>6, <1>7

-----------------------------------------------------------------------------
(* The set-up in the tab *)

(* The steps of one tab, which leave the server alone. *)
LEMMA TabStepKeeps ==
  ASSUME IInv, NEW p \in Peers, UNCHANGED <<serverVars, sock>>,
         UplinkInv', InboxInv', missed' \subseteq DOMAIN rooms,
         NEW m \in Nat, match' = [match EXCEPT ![p] = m],
         NEW t \in StepType, step' = [step EXCEPT ![p] = t],
         NEW c \in PcType, pc' = [pc EXCEPT ![p] = c],
         NEW e \in Seq(Signal), early' = [early EXCEPT ![p] = e],
         TabOk(p)'
  PROVE  IInv'
<1> USE DEF IInv
<1>1. RoomsInv' /\ RoomsKept /\ SockInv' /\ ServerInv'
  BY SameRooms, ServerKept DEF serverVars, RoomsInv, SockInv
<1>2. TabInv'
  BY <1>1, OneTabChanges DEF TabInv
<1>3. QED  BY <1>1, <1>2

LEMMA FitsKept ==
  ASSUME rooms' = rooms, NEW p, match'[p] = match[p]
  PROVE  Fit(p)' = Fit(p) /\ FitIce(p)' = FitIce(p)
BY SameRooms DEF Fit, FitIce

LEMMA CreatePcKeeps ==
  ASSUME IInv, NEW p \in Peers, CreatePc(p)
  PROVE  IInv'
<1> DEFINE c == [NoPc EXCEPT !.room = match[p]]
           t == IF rooms[match[p]].init = p THEN "offering" ELSE "listening"
<1>1. step[p] = "fetching" /\ UNCHANGED <<serverVars, sock, uplink, inbox, match, early, missed>>
  BY DEF CreatePc, IceServersReady, wireVars
<1>2. TabOk(p) /\ match[p] # 0 /\ match[p] \in Nat /\ early[p] = <<>>
  BY <1>1 DEF IInv, TabInv, TabOk
<1>3. /\ c \in PcType /\ c.room = match[p] /\ c.remote = {} /\ c.cands = {}
  BY <1>2 DEF NoPc, PcType
<1>4. pc' = [pc EXCEPT ![p] = c] /\ step' = [step EXCEPT ![p] = t]
  BY DEF CreatePc
<1>5. t \in {"offering", "listening"} /\ t \in StepType
  BY DEF StepType
<1> HIDE DEF c, t
<1>6. pc'[p] = c /\ step'[p] = t /\ match'[p] = match[p] /\ early'[p] = <<>>
  BY <1>1, <1>2, <1>4 DEF IInv, TabInv
<1>7. TabOk(p)'
  <2>1. Members(match[p])' = Members(match[p]) /\ rooms' = rooms
    BY <1>1, SameRooms DEF serverVars
  <2>2. (match[p] # 0 => match[p] \in DOMAIN rooms /\ p \in Members(match[p]))'
    BY <1>1, <1>2, <2>1 DEF TabOk, Members
  <2>3. QED  BY <1>2, <1>3, <1>5, <1>6, <2>2 DEF TabOk
<1>8. UplinkInv' /\ InboxInv'
  BY <1>1, SameRooms, UplinkKept, InboxGrows DEF serverVars, IInv, InboxInv
<1>9. match' = [match EXCEPT ![p] = match[p]] /\ early' = [early EXCEPT ![p] = <<>>]
      /\ missed' \subseteq DOMAIN rooms /\ <<>> \in Seq(Signal)
  BY <1>1, <1>2 DEF IInv, TabInv, SockInv
<1>10. QED  BY <1>1, <1>2, <1>3, <1>4, <1>5, <1>7, <1>8, <1>9, TabStepKeeps

LEMMA SendOfferKeeps ==
  ASSUME IInv, NEW p \in Peers, SendOffer(p)
  PROVE  IInv'
<1> DEFINE c == [pc[p] EXCEPT !.local = TRUE]
<1>1. step[p] = "offering" /\ UNCHANGED <<serverVars, sock, inbox, match, early, missed>>
  BY DEF SendOffer
<1>2. TabOk(p) /\ match[p] # 0 /\ match[p] \in Nat /\ pc[p] \in PcType
  BY <1>1 DEF IInv, TabInv, TabOk
<1>3. /\ c \in PcType /\ c.room = pc[p].room /\ c.remote = pc[p].remote /\ c.cands = pc[p].cands
  BY <1>2 DEF PcType
<1>4. pc' = [pc EXCEPT ![p] = c] /\ step' = [step EXCEPT ![p] = "listening"]
  BY DEF SendOffer
<1> HIDE DEF c
<1>5. pc'[p] = c /\ step'[p] = "listening" /\ match'[p] = match[p] /\ early'[p] = early[p]
  BY <1>1, <1>4 DEF IInv, TabInv
<1>6. TabOk(p)'
  <2>1. rooms' = rooms /\ Fit(p)' = Fit(p) /\ FitIce(p)' = FitIce(p)
    BY <1>1, <1>5, FitsKept DEF serverVars
  <2>2. (match[p] # 0 => match[p] \in DOMAIN rooms /\ p \in Members(match[p]))'
    BY <1>5, <1>2, <2>1 DEF TabOk, Members
  <2>3. QED  BY <1>1, <1>2, <1>3, <1>5, <2>1, <2>2 DEF TabOk
<1>7. UplinkInv' /\ InboxInv'
  <2>1. Emit(p, "offer") /\ rooms' = rooms
    BY <1>1 DEF SendOffer, serverVars
  <2>2. UplinkInv'
    BY <1>2, <2>1, EmitKeeps DEF IInv, TabOk
  <2>3. QED  BY <1>1, <2>1, <2>2, SameRooms, InboxGrows DEF IInv, InboxInv
<1>8. match' = [match EXCEPT ![p] = match[p]] /\ early' = [early EXCEPT ![p] = early[p]]
      /\ missed' \subseteq DOMAIN rooms /\ early[p] \in Seq(Signal) /\ "listening" \in StepType
  BY <1>1 DEF IInv, TabInv, SockInv, StepType
<1>9. QED  BY <1>1, <1>2, <1>3, <1>4, <1>6, <1>7, <1>8, TabStepKeeps

LEMMA SendCandidatesKeeps ==
  ASSUME IInv, NEW p \in Peers, SendCandidates(p)
  PROVE  IInv'
<1> DEFINE c == [pc[p] EXCEPT !.gathered = TRUE]
<1>1. pc[p].local /\ UNCHANGED <<serverVars, sock, inbox, match, step, early, missed>>
  BY DEF SendCandidates
<1>2. TabOk(p) /\ match[p] \in Nat /\ pc[p] \in PcType
  BY DEF IInv, TabInv
<1>3. pc[p].room # 0 /\ match[p] # 0
  BY <1>1, <1>2 DEF TabOk, NoPc
<1>4. /\ c \in PcType /\ c.room = pc[p].room /\ c.remote = pc[p].remote /\ c.cands = pc[p].cands
  BY <1>2 DEF PcType
<1>5. pc' = [pc EXCEPT ![p] = c]
  BY DEF SendCandidates
<1> HIDE DEF c
<1>6. pc'[p] = c /\ step'[p] = step[p] /\ match'[p] = match[p] /\ early'[p] = early[p]
  BY <1>1, <1>5 DEF IInv, TabInv
<1>7. TabOk(p)'
  <2>1. rooms' = rooms /\ Fit(p)' = Fit(p) /\ FitIce(p)' = FitIce(p)
    BY <1>1, <1>6, FitsKept DEF serverVars
  <2>2. (match[p] # 0 => match[p] \in DOMAIN rooms /\ p \in Members(match[p]))'
    BY <1>2, <1>6, <2>1 DEF TabOk, Members
  <2>3. step[p] # "fetching"
    BY <1>2, <1>3 DEF TabOk, NoPc
  <2>4. QED  BY <1>2, <1>3, <1>4, <1>6, <2>1, <2>2, <2>3 DEF TabOk
<1>8. UplinkInv' /\ InboxInv'
  <2>1. Emit(p, "ice") /\ rooms' = rooms
    BY <1>1 DEF SendCandidates, serverVars
  <2>2. UplinkInv'
    BY <1>2, <1>3, <2>1, EmitKeeps DEF IInv, TabOk
  <2>3. QED  BY <1>1, <2>1, <2>2, SameRooms, InboxGrows DEF IInv, InboxInv
<1>9. /\ match' = [match EXCEPT ![p] = match[p]] /\ early' = [early EXCEPT ![p] = early[p]]
      /\ step' = [step EXCEPT ![p] = step[p]] /\ step[p] \in StepType
      /\ missed' \subseteq DOMAIN rooms /\ early[p] \in Seq(Signal)
  BY <1>1 DEF IInv, TabInv, SockInv
<1>10. QED  BY <1>1, <1>2, <1>4, <1>5, <1>7, <1>8, <1>9, TabStepKeeps

(* processIceQueue takes the candidates that waited for the offer. *)
LEMMA SendAnswerKeeps ==
  ASSUME IInv, NEW p \in Peers, SendAnswer(p)
  PROVE  IInv'
<1> DEFINE c == [pc[p] EXCEPT !.cands = pc[p].cands \cup ToSet(early[p]), !.local = TRUE]
<1>1. step[p] = "answering" /\ pc[p].room # 0 /\ UNCHANGED <<serverVars, sock, inbox, match, missed>>
  BY DEF SendAnswer, Open
<1>2. TabOk(p) /\ match[p] # 0 /\ match[p] \in Nat /\ pc[p] \in PcType
      /\ early[p] \in Seq(Signal) /\ early[p] \in Seq(FitIce(p))
  BY <1>1 DEF IInv, TabInv, TabOk
<1>3. ToSet(early[p]) \subseteq FitIce(p) /\ ToSet(early[p]) \subseteq Signal
  BY <1>2, SeqFacts DEF FitIce, Fit
<1>4. /\ c \in PcType /\ c.room = pc[p].room /\ c.remote = pc[p].remote
      /\ c.cands = pc[p].cands \cup ToSet(early[p])
  BY <1>2, <1>3 DEF PcType
<1>5. /\ pc' = [pc EXCEPT ![p] = c] /\ step' = [step EXCEPT ![p] = "listening"]
      /\ early' = [early EXCEPT ![p] = <<>>]
  BY DEF SendAnswer, EarlyAdded
<1> HIDE DEF c
<1>6. pc'[p] = c /\ step'[p] = "listening" /\ match'[p] = match[p] /\ early'[p] = <<>>
  BY <1>1, <1>5 DEF IInv, TabInv
<1>7. TabOk(p)'
  <2>1. rooms' = rooms /\ Fit(p)' = Fit(p) /\ FitIce(p)' = FitIce(p)
    BY <1>1, <1>6, FitsKept DEF serverVars
  <2>2. (match[p] # 0 => match[p] \in DOMAIN rooms /\ p \in Members(match[p]))'
    BY <1>6, <1>2, <2>1 DEF TabOk, Members
  <2>3. c.cands \subseteq FitIce(p) /\ pc[p].remote # {}
    BY <1>1, <1>2, <1>3, <1>4 DEF TabOk
  <2>4. QED  BY <1>1, <1>2, <1>4, <1>6, <2>1, <2>2, <2>3 DEF TabOk
<1>8. UplinkInv' /\ InboxInv'
  <2>1. Emit(p, "answer") /\ rooms' = rooms
    BY <1>1 DEF SendAnswer, serverVars
  <2>2. UplinkInv'
    BY <1>2, <2>1, EmitKeeps DEF IInv, TabOk
  <2>3. QED  BY <1>1, <2>1, <2>2, SameRooms, InboxGrows DEF IInv, InboxInv
<1>9. match' = [match EXCEPT ![p] = match[p]] /\ <<>> \in Seq(Signal)
      /\ missed' \subseteq DOMAIN rooms /\ "listening" \in StepType
  BY <1>1 DEF IInv, TabInv, SockInv, StepType
<1>10. QED  BY <1>1, <1>2, <1>4, <1>5, <1>7, <1>8, <1>9, TabStepKeeps

-----------------------------------------------------------------------------
(* What the tab hears *)

LEMMA HearTakes ==
  ASSUME IInv, NEW p \in Peers, NEW kind, Hear(p, kind)
  PROVE  /\ InboxInv' /\ UNCHANGED <<serverVars, sock>> /\ rooms' = rooms
         /\ Head(inbox[p]) \in Bound(p) /\ Head(inbox[p]).kind = kind
<1>1. UNCHANGED <<serverVars, sock>> /\ rooms' = rooms
  BY DEF Hear, serverVars
<1>2. inbox[p] # <<>> /\ inbox' = [inbox EXCEPT ![p] = Tail(@)] /\ Head(inbox[p]).kind = kind
  BY DEF Hear
<1>3. InboxInv' /\ Head(inbox[p]) \in Bound(p)
  BY <1>1, <1>2, InboxTakes DEF IInv
<1>4. QED  BY <1>1, <1>2, <1>3

(* The comparison of rooms in Concerns is what keeps strangers out.        *)
LEMMA ConcernsFits ==
  ASSUME IInv, NEW p \in Peers, NEW s, s \in Bound(p), s.kind \in {"offer", "answer", "ice"},
         Concerns(p, s)
  PROVE  s \in Fit(p) /\ s \in Signal /\ Listens(p) /\ (s.kind = "ice" => s \in FitIce(p))
<1>1. s \in Signal
  BY DEF Bound, Event
<1>2. s.room = match[p] /\ Listens(p)
  BY DEF Concerns
<1>3. QED  BY <1>1, <1>2 DEF Bound, Fit, FitIce

(* The events after which only the peer connection, the step and the early *)
(* candidates may differ.                                                  *)
LEMMA SignalKeeps ==
  ASSUME IInv, NEW p \in Peers, NEW kind, Hear(p, kind), UNCHANGED <<uplink, match>>,
         missed' \subseteq DOMAIN rooms,
         NEW t \in StepType, step' = [step EXCEPT ![p] = t],
         NEW c \in PcType, pc' = [pc EXCEPT ![p] = c],
         NEW e \in Seq(Signal), early' = [early EXCEPT ![p] = e],
         c.room = 0 => c = NoPc,
         c.room # 0 => c.room = match[p],
         c.remote \subseteq Fit(p) \ FitIce(p), c.cands \subseteq FitIce(p), e \in Seq(FitIce(p)),
         t # "none" <=> match[p] # 0,
         t = "fetching" => c = NoPc /\ e = <<>>,
         t = "offering" => c.room = match[p] /\ c.remote = {} /\ e = <<>>,
         t = "answering" /\ c.room # 0 => c.remote # {},
         c.cands # {} => c.remote # {},
         c.remote # {} /\ t = "listening" => e = <<>>
  PROVE  IInv'
<1>1. InboxInv' /\ UNCHANGED <<serverVars, sock>> /\ rooms' = rooms
  BY HearTakes
<1>2. UplinkInv'
  BY <1>1, SameRooms, UplinkKept DEF IInv
<1>3. match' = [match EXCEPT ![p] = match[p]] /\ match[p] \in Nat
  BY DEF IInv, TabInv
<1>4. pc'[p] = c /\ step'[p] = t /\ match'[p] = match[p] /\ early'[p] = e
  BY DEF IInv, TabInv
<1>5. TabOk(p)'
  <2>1. Fit(p)' = Fit(p) /\ FitIce(p)' = FitIce(p)
    BY <1>1, <1>4, FitsKept
  <2>2. (match[p] # 0 => match[p] \in DOMAIN rooms /\ p \in Members(match[p]))'
    BY <1>1, <1>4 DEF IInv, TabInv, TabOk, Members
  <2>3. QED  BY <1>4, <2>1, <2>2 DEF TabOk
<1>6. QED  BY <1>1, <1>2, <1>3, <1>5, TabStepKeeps

LEMMA OnMatchKeeps ==
  ASSUME IInv, NEW p \in Peers, OnMatch(p)
  PROVE  IInv'
<1>0. PICK m : m = Head(inbox[p])
  OBVIOUS
<1>1. UNCHANGED <<serverVars, sock, uplink, missed>> /\ rooms' = rooms
  BY DEF OnMatch, serverVars
<1>2. InboxInv' /\ m \in Bound(p)
  BY <1>0, <1>1, InboxTakes DEF OnMatch, IInv
<1>3. m.room \in DOMAIN rooms /\ p \in Members(m.room) /\ m.room \in Nat /\ m.room # 0
  BY <1>2, RoomType DEF Bound, IInv
<1>4. /\ match' = [match EXCEPT ![p] = m.room] /\ step' = [step EXCEPT ![p] = "fetching"]
      /\ pc' = [pc EXCEPT ![p] = NoPc] /\ early' = [early EXCEPT ![p] = <<>>]
  BY <1>0 DEF OnMatch
<1>5. /\ NoPc \in PcType /\ NoPc.room = 0 /\ NoPc.remote = {} /\ NoPc.cands = {}
      /\ "fetching" \in StepType /\ <<>> \in Seq(Signal) /\ <<>> \in Seq(FitIce(p)')
  BY DEF NoPc, PcType, StepType
<1>6. match'[p] = m.room /\ step'[p] = "fetching" /\ pc'[p] = NoPc /\ early'[p] = <<>>
  BY <1>4 DEF IInv, TabInv
<1>7. TabOk(p)'
  <2>1. (match[p] # 0 => match[p] \in DOMAIN rooms /\ p \in Members(match[p]))'
    BY <1>1, <1>3, <1>6 DEF Members
  <2>2. QED  BY <1>3, <1>5, <1>6, <2>1 DEF TabOk
<1>8. UplinkInv' /\ missed' \subseteq DOMAIN rooms
  BY <1>1, SameRooms, UplinkKept DEF IInv, SockInv
<1>9. QED  BY <1>1, <1>2, <1>3, <1>4, <1>5, <1>7, <1>8, TabStepKeeps

LEMMA IgnoreKeeps ==
  ASSUME IInv, NEW p \in Peers, Ignore(p)
  PROVE  IInv'
<1>1. PICK kind \in {"offer", "answer", "ice"} :
        Hear(p, kind) /\ missed' = IF kind = "offer" THEN missed \cup {Head(inbox[p]).room} ELSE missed
  BY DEF Ignore
<1>2. UNCHANGED <<uplink, match, step, pc, early>>
  BY DEF Ignore
<1>3. Head(inbox[p]) \in Bound(p)
  BY <1>1, HearTakes
<1>4. missed' \subseteq DOMAIN rooms
  BY <1>1, <1>3 DEF IInv, SockInv, Bound
<1>5. InboxInv' /\ UNCHANGED <<serverVars, sock>> /\ rooms' = rooms
  BY <1>1, HearTakes
<1>6. RoomsKept /\ RoomsInv' /\ UplinkInv' /\ SockInv'
  BY <1>2, <1>4, <1>5, SameRooms, UplinkKept DEF IInv, RoomsInv, SockInv
<1>7. ServerInv' /\ TabInv'
  BY <1>2, <1>5, <1>6, ServerKept, TabsKept DEF IInv, serverVars
<1>8. QED  BY <1>5, <1>6, <1>7 DEF IInv

LEMMA OnOfferKeeps ==
  ASSUME IInv, NEW p \in Peers, OnOffer(p)
  PROVE  IInv'
<1>0. PICK s : s = Head(inbox[p])
  OBVIOUS
<1> DEFINE c == [pc[p] EXCEPT !.remote = pc[p].remote \cup {s}]
<1>1. Hear(p, "offer") /\ Concerns(p, s) /\ pc[p].room # 0 /\ UNCHANGED <<uplink, match, early, missed>>
  BY <1>0 DEF OnOffer, Open
<1>2. s \in Fit(p) /\ s \in Signal /\ s \notin FitIce(p)
  <2>1. s \in Bound(p) /\ s.kind = "offer"
    BY <1>0, <1>1, HearTakes
  <2>2. QED  BY <1>1, <2>1, ConcernsFits DEF FitIce
<1>3. TabOk(p) /\ match[p] # 0 /\ pc[p] \in PcType /\ early[p] \in Seq(Signal)
  BY <1>1 DEF IInv, TabInv, TabOk
<1>4. c \in PcType /\ c.room = pc[p].room /\ c.remote = pc[p].remote \cup {s} /\ c.cands = pc[p].cands
  BY <1>2, <1>3 DEF PcType
<1>5. /\ pc' = [pc EXCEPT ![p] = c] /\ step' = [step EXCEPT ![p] = "answering"]
      /\ early' = [early EXCEPT ![p] = early[p]] /\ missed' \subseteq DOMAIN rooms
      /\ "answering" \in StepType
  BY <1>0, <1>1 DEF OnOffer, IInv, TabInv, SockInv, StepType
<1> HIDE DEF c
<1>6. /\ c.remote \subseteq Fit(p) \ FitIce(p) /\ c.remote # {}
      /\ c.cands \subseteq FitIce(p) /\ early[p] \in Seq(FitIce(p))
      /\ c.room = match[p] /\ c.room # 0
  BY <1>1, <1>2, <1>3, <1>4 DEF TabOk
<1>7. QED  BY <1>1, <1>3, <1>4, <1>5, <1>6, SignalKeeps

LEMMA OnAnswerKeeps ==
  ASSUME IInv, NEW p \in Peers, OnAnswer(p)
  PROVE  IInv'
<1>0. PICK s : s = Head(inbox[p])
  OBVIOUS
<1>1. Hear(p, "answer") /\ Concerns(p, s) /\ pc[p].room # 0 /\ UNCHANGED <<uplink, match, step, missed>>
  BY <1>0 DEF OnAnswer, Open
<1>2. s \in Fit(p) /\ s \in Signal /\ s \notin FitIce(p) /\ Listens(p)
  <2>1. s \in Bound(p) /\ s.kind = "answer"
    BY <1>0, <1>1, HearTakes
  <2>2. QED  BY <1>1, <2>1, ConcernsFits DEF FitIce
<1>3. TabOk(p) /\ pc[p] \in PcType /\ early[p] \in Seq(Signal) /\ step[p] \in StepType
      /\ step' = [step EXCEPT ![p] = step[p]] /\ missed' \subseteq DOMAIN rooms
  BY <1>1 DEF IInv, TabInv, SockInv
<1>4. CASE HasLocalOffer(p)
  <2> DEFINE c == [pc[p] EXCEPT !.remote = {s}, !.cands = pc[p].cands \cup ToSet(early[p])]
  <2>1. ToSet(early[p]) \subseteq FitIce(p) /\ ToSet(early[p]) \subseteq Signal
    BY <1>3, SeqFacts DEF TabOk, FitIce, Fit
  <2>2. /\ c \in PcType /\ c.room = pc[p].room /\ c.remote = {s}
        /\ c.cands = pc[p].cands \cup ToSet(early[p])
    BY <1>2, <1>3, <2>1 DEF PcType
  <2>3. pc' = [pc EXCEPT ![p] = c] /\ early' = [early EXCEPT ![p] = <<>>]
    BY <1>0, <1>4 DEF OnAnswer, EarlyAdded
  <2> HIDE DEF c
  <2>4. /\ c.remote \subseteq Fit(p) \ FitIce(p) /\ c.remote # {} /\ c.cands \subseteq FitIce(p)
        /\ c.room = match[p] /\ c.room # 0
        /\ step[p] # "none" <=> match[p] # 0
    BY <1>1, <1>2, <1>3, <2>1, <2>2 DEF TabOk
  <2>5. step[p] \notin {"fetching", "offering"}
    BY <1>2 DEF Listens
  <2>6. <<>> \in Seq(Signal) /\ <<>> \in Seq(FitIce(p))
    OBVIOUS
  <2>7. QED  BY <1>1, <1>3, <2>2, <2>3, <2>4, <2>5, <2>6, SignalKeeps
<1>5. CASE ~HasLocalOffer(p)
  <2>1. pc' = [pc EXCEPT ![p] = pc[p]] /\ early' = [early EXCEPT ![p] = early[p]]
    BY <1>5 DEF OnAnswer, IInv, TabInv
  <2>2. QED  BY <1>1, <1>3, <2>1, SignalKeeps DEF TabOk
<1>6. QED  BY <1>4, <1>5

LEMMA OnIceKeeps ==
  ASSUME IInv, NEW p \in Peers, OnIce(p)
  PROVE  IInv'
<1>0. PICK s : s = Head(inbox[p])
  OBVIOUS
<1>1. Hear(p, "ice") /\ Concerns(p, s) /\ pc[p].room # 0 /\ UNCHANGED <<uplink, match, step, missed>>
  BY <1>0 DEF OnIce, Open
<1>2. s \in FitIce(p) /\ s \in Signal /\ Listens(p)
  <2>1. s \in Bound(p) /\ s.kind = "ice"
    BY <1>0, <1>1, HearTakes
  <2>2. QED  BY <1>1, <2>1, ConcernsFits
<1>3. TabOk(p) /\ pc[p] \in PcType /\ early[p] \in Seq(Signal) /\ step[p] \in StepType
      /\ step' = [step EXCEPT ![p] = step[p]] /\ missed' \subseteq DOMAIN rooms
  BY <1>1 DEF IInv, TabInv, SockInv
<1>4. step[p] \notin {"fetching", "offering"} /\ (step[p] # "none" <=> match[p] # 0)
  BY <1>2, <1>3 DEF Listens, TabOk
<1>5. CASE HasRemote(p)
  <2> DEFINE c == [pc[p] EXCEPT !.cands = pc[p].cands \cup {s}]
  <2>1. c \in PcType /\ c.room = pc[p].room /\ c.remote = pc[p].remote /\ c.cands = pc[p].cands \cup {s}
    BY <1>2, <1>3 DEF PcType
  <2>2. pc' = [pc EXCEPT ![p] = c] /\ early' = [early EXCEPT ![p] = early[p]]
    BY <1>0, <1>5 DEF OnIce, IInv, TabInv
  <2> HIDE DEF c
  <2>3. /\ c.remote \subseteq Fit(p) \ FitIce(p) /\ c.remote # {} /\ c.cands \subseteq FitIce(p)
        /\ c.room = match[p] /\ c.room # 0 /\ early[p] \in Seq(FitIce(p))
        /\ step[p] = "listening" => early[p] = <<>>
    BY <1>1, <1>2, <1>3, <1>5, <2>1 DEF TabOk, HasRemote
  <2>4. QED  BY <1>1, <1>3, <1>4, <2>1, <2>2, <2>3, SignalKeeps
<1>6. CASE ~HasRemote(p)
  <2>1. pc' = [pc EXCEPT ![p] = pc[p]] /\ early' = [early EXCEPT ![p] = Append(early[p], s)]
    BY <1>0, <1>6 DEF OnIce, IInv, TabInv
  <2>2. Append(early[p], s) \in Seq(Signal) /\ Append(early[p], s) \in Seq(FitIce(p))
    BY <1>2, <1>3, SeqFacts DEF TabOk
  <2>3. pc[p].remote = {}
    BY <1>6 DEF HasRemote
  <2>4. QED  BY <1>1, <1>3, <1>4, <2>1, <2>2, <2>3, SignalKeeps DEF TabOk
<1>7. QED  BY <1>5, <1>6

LEMMA OnLeftKeeps ==
  ASSUME IInv, NEW p \in Peers, OnLeft(p)
  PROVE  IInv'
<1> DEFINE c == IF Listens(p) THEN NoPc ELSE pc[p]
<1>1. Hear(p, "left") /\ UNCHANGED <<uplink, match, step, early, missed>>
  BY DEF OnLeft
<1>2. TabOk(p) /\ pc[p] \in PcType /\ early[p] \in Seq(Signal) /\ step[p] \in StepType
      /\ step' = [step EXCEPT ![p] = step[p]] /\ missed' \subseteq DOMAIN rooms
      /\ early' = [early EXCEPT ![p] = early[p]] /\ pc' = [pc EXCEPT ![p] = c]
  BY <1>1 DEF OnLeft, IInv, TabInv, SockInv
<1>3. NoPc \in PcType /\ NoPc.room = 0 /\ NoPc.remote = {} /\ NoPc.cands = {}
  BY DEF NoPc, PcType
<1>4. c \in PcType /\ (c = pc[p] \/ (c = NoPc /\ step[p] \in {"answering", "listening"}))
  <2>1. CASE Listens(p)
    <3>1. c = NoPc
      BY <2>1
    <3>2. step[p] \in {"answering", "listening"}
      BY <2>1 DEF Listens
    <3> HIDE DEF c
    <3>3. QED  BY <1>3, <3>1, <3>2
  <2>2. CASE ~Listens(p)
    BY <1>2, <2>2
  <2>3. QED  BY <2>1, <2>2
<1> HIDE DEF c
<1>5. CASE c = pc[p]
  BY <1>1, <1>2, <1>4, <1>5, SignalKeeps DEF TabOk
<1>6. CASE c = NoPc /\ step[p] \in {"answering", "listening"}
  <2>1. early[p] \in Seq(FitIce(p)) /\ match[p] # 0
    BY <1>2, <1>6 DEF TabOk
  <2>2. QED  BY <1>1, <1>2, <1>3, <1>4, <1>6, <2>1, SignalKeeps
<1>7. QED  BY <1>4, <1>5, <1>6

(* Only a set-up that listens has a remote description. *)
LEMMA RemoteListens ==
  ASSUME IInv, NEW p \in Peers, pc[p].remote # {}
  PROVE  Listens(p)
<1>1. TabOk(p) /\ step[p] \in StepType
  BY DEF IInv, TabInv
<1>2. match[p] # 0
  BY <1>1, OtherMember DEF IInv, TabOk, Fit, RoomsInv
<1>3. pc[p].room # 0 /\ NoPc.remote = {}
  BY <1>1 DEF TabOk, NoPc
<1>4. step[p] # "none"
  BY <1>1, <1>2 DEF TabOk
<1>5. QED  BY <1>1, <1>3, <1>4 DEF TabOk, StepType, Listens

LEMMA PcFailsKeeps ==
  ASSUME IInv, NEW p \in Peers, PcFails(p)
  PROVE  IInv'
<1>1. /\ UNCHANGED <<serverVars, sock, uplink, inbox, match, step, early, missed>>
      /\ rooms' = rooms /\ pc' = [pc EXCEPT ![p] = NoPc] /\ pc[p].remote # {}
  BY DEF PcFails, HasRemote, serverVars, wireVars
<1>2. NoPc \in PcType /\ NoPc.room = 0 /\ NoPc.remote = {} /\ NoPc.cands = {}
  BY DEF NoPc, PcType
<1>3. TabOk(p) /\ step[p] \in {"answering", "listening"} /\ match[p] \in Nat
      /\ step[p] \in StepType /\ early[p] \in Seq(Signal)
  BY <1>1, RemoteListens DEF Listens, IInv, TabInv
<1>4. TabOk(p)'
  <2>1. Fit(p)' = Fit(p) /\ FitIce(p)' = FitIce(p) /\ Members(match[p])' = Members(match[p])
    BY <1>1, FitsKept, SameRooms
  <2>2. pc'[p] = NoPc
    BY <1>1 DEF IInv, TabInv
  <2>3. QED  BY <1>1, <1>2, <1>3, <2>1, <2>2 DEF TabOk
<1>5. UplinkInv' /\ InboxInv' /\ missed' \subseteq DOMAIN rooms
  BY <1>1, SameRooms, UplinkKept, InboxGrows DEF IInv, InboxInv, SockInv
<1>6. /\ match' = [match EXCEPT ![p] = match[p]] /\ step' = [step EXCEPT ![p] = step[p]]
      /\ early' = [early EXCEPT ![p] = early[p]]
  BY <1>1 DEF IInv, TabInv
<1>7. QED  BY <1>1, <1>2, <1>3, <1>4, <1>5, <1>6, TabStepKeeps

-----------------------------------------------------------------------------
(* The theorems *)

LEMMA InitIInv == Init => IInv
<1> SUFFICES ASSUME Init PROVE IInv
  OBVIOUS
<1>1. RoomsInv /\ ServerInv
  BY DEF Init, RoomsInv, ServerInv
<1>2. SockInv
  BY BoundsAssumption DEF Init, SockInv
<1>3. UplinkInv /\ InboxInv
  BY DEF Init, UplinkInv, InboxInv
<1>4. NoPc \in PcType /\ NoPc.room = 0 /\ NoPc.remote = {} /\ NoPc.cands = {}
  BY DEF NoPc, PcType
<1>5. TabInv
  BY <1>4 DEF Init, TabInv, TabOk, StepType
<1>6. QED  BY <1>1, <1>2, <1>3, <1>5 DEF IInv

LEMMA NextIInv == IInv /\ [Next]_vars => IInv'
<1> SUFFICES ASSUME IInv, [Next]_vars PROVE IInv'
  OBVIOUS
<1>1. CASE UNCHANGED vars
  <2>1. UNCHANGED <<serverVars, wireVars, tabVars>> /\ rooms' = rooms
    BY <1>1 DEF vars, serverVars
  <2>2. RoomsKept /\ RoomsInv' /\ SockInv' /\ ServerInv' /\ TabInv' /\ UplinkInv'
    BY <2>1, SameRooms, ServerKept, UplinkKept, TabsKept
       DEF IInv, RoomsInv, SockInv, serverVars, wireVars, tabVars
  <2>3. InboxInv'
    BY <2>1, <2>2, InboxGrows DEF wireVars, IInv, InboxInv
  <2>4. QED  BY <2>2, <2>3 DEF IInv
<1>2. ASSUME NEW p \in Peers, Setup(p) \/ SendCandidates(p) \/ OnEvent(p) \/ PcFails(p)
      PROVE  IInv'
  BY <1>2, PcFailsKeeps, CreatePcKeeps, SendOfferKeeps, SendAnswerKeeps, SendCandidatesKeeps, OnMatchKeeps,
     IgnoreKeeps, OnOfferKeeps, OnAnswerKeeps, OnIceKeeps, OnLeftKeeps DEF Setup, OnEvent
<1>3. CASE Next
  BY <1>2, <1>3, MatchKeeps, PartKeeps, ReconnectKeeps, VanishKeeps, RelayKeeps, LookupKeeps DEF Next
<1>4. QED  BY <1>1, <1>3

LEMMA Invariance == Spec => []IInv
BY InitIInv, NextIInv, PTL DEF Spec

(* Server, connections and tabs keep their types: no signal under way      *)
(* names a room that was never made, and descriptions and candidates are   *)
(* kept apart.                                                             *)
THEOREM TypeCorrect == Spec => []TypeOK
<1>1. ASSUME IInv PROVE TypeOK
  <2>1. ASSUME NEW p \in Peers
        PROVE  /\ cache[p] \in [room : 0..Len(rooms), peer : Nat]
               /\ {stored[p], match[p], pc[p].room} \subseteq 0..Len(rooms)
               /\ sock[p] \in 1..MaxReconnects + 1
    <3>1. rooms \in Seq(Room) /\ DOMAIN rooms \subseteq 0..Len(rooms) /\ 0 \in 0..Len(rooms)
      BY <1>1 DEF IInv, RoomsInv
    <3>2. cache[p] \in [room : Nat, peer : Nat] /\ cache[p].room \in 0..Len(rooms)
      BY <1>1, <3>1 DEF IInv, ServerInv
    <3>3. {stored[p], match[p], pc[p].room} \subseteq 0..Len(rooms)
      BY <1>1, <3>1 DEF IInv, ServerInv, TabInv, TabOk
    <3>4. QED  BY <1>1, <3>2, <3>3 DEF IInv, SockInv
  <2>2. ASSUME NEW p \in Peers
        PROVE  /\ uplink[p] \in Seq(Signal) /\ inbox[p] \in Seq(Event)
               /\ step[p] \in StepType
               /\ \A s \in pc[p].remote : s \in Signal /\ s.kind # "ice"
               /\ \A s \in pc[p].cands \cup ToSet(early[p]) : s \in Signal /\ s.kind = "ice"
    <3>1. ToSet(early[p]) \subseteq FitIce(p) /\ pc[p].cands \subseteq FitIce(p)
          /\ pc[p].remote \subseteq Fit(p) \ FitIce(p)
      BY <1>1, SeqFacts DEF IInv, TabInv, TabOk
    <3>2. QED  BY <1>1, <3>1 DEF IInv, UplinkInv, InboxInv, TabInv, Fit, FitIce
  <2>3. QED  BY <1>1, <2>1, <2>2 DEF TypeOK, IInv, RoomsInv, ServerInv, SockInv, StepType
<1>2. QED  BY <1>1, Invariance, PTL

(* Whatever is late, overtaken, relayed from a stale cache or left over    *)
(* from an earlier room of the same pair: a peer connection takes in what  *)
(* its own room's other member sent, and nothing else.                     *)
THEOREM PartnersOnly == Spec => []NegotiatesWithPartner
<1>1. ASSUME IInv PROVE NegotiatesWithPartner
  <2>1. SUFFICES ASSUME NEW p \in Peers, Open(p)
                 PROVE  /\ pc[p].room = match[p]
                        /\ \A s \in pc[p].remote \cup pc[p].cands \cup ToSet(early[p]) :
                             s.room = pc[p].room /\ s.from = Other(pc[p].room, p)
    BY DEF NegotiatesWithPartner
  <2>2. TabOk(p) /\ pc[p].room # 0 /\ pc[p].room = match[p]
    BY <1>1, <2>1 DEF IInv, TabInv, TabOk, Open
  <2>3. ToSet(early[p]) \subseteq FitIce(p) /\ pc[p].cands \subseteq FitIce(p) /\ pc[p].remote \subseteq Fit(p)
    BY <2>2, SeqFacts DEF TabOk
  <2>4. \A s \in Fit(p) : s.room = match[p] /\ s.from = Other(match[p], p)
    BY <1>1, OtherMember DEF IInv, Fit
  <2>5. QED  BY <2>2, <2>3, <2>4 DEF FitIce
<1>2. QED  BY <1>1, Invariance, PTL

(* However candidates and descriptions overtake each other at the relay, a *)
(* candidate is added after its description and none stays in the queue.   *)
THEOREM IceInOrder == Spec => []CandidatesInOrder
<1>1. IInv => CandidatesInOrder
  BY DEF IInv, TabInv, TabOk, CandidatesInOrder
<1>2. QED  BY <1>1, Invariance, PTL

-----------------------------------------------------------------------------
(* That the negotiation goes on.  The room knows the socket p is on. *)
Reached(r, p) == rooms[r].open /\ p \in Members(r) /\ sock[p] = rooms[r].sock[p]

(* The addresses: rooms hold sockets that were current once, a tab is      *)
(* reached by one open room at most and its session says which, and a      *)
(* cached address is the one the room holds.                               *)
AddressInv ==
  /\ \A r \in DOMAIN rooms, p \in Peers : rooms[r].sock[p] <= sock[p]
  /\ \A r \in DOMAIN rooms : \A p \in Members(r) :
       Reached(r, p) => stored[p] = r /\ p \in engaged
  /\ \A p \in Peers : cache[p].room # 0 =>
       /\ p \in Members(cache[p].room)
       /\ cache[p].peer = rooms[cache[p].room].sock[Other(cache[p].room, p)]

(* Offers come from initiators. *)
ByInit(s) == s.kind = "offer" => s.from = rooms[s.room].init

SidesInv ==
  /\ \A p \in Peers : \A s \in ToSet(uplink[p]) \cup ToSet(inbox[p]) : ByInit(s)
  /\ \A l \in looking : ByInit(l.signal)
  /\ \A p \in Peers : /\ step[p] = "offering" => rooms[match[p]].init = p
                      /\ step[p] = "answering" => rooms[match[p]].init # p

(* Goodbyes may come at any time: they do not change the match. *)
Plain(e) == e.kind # "match"
Quiet(s) == \A i \in DOMAIN s : Plain(s[i])
Calls(s, r, p) ==
  \E i \in DOMAIN s :
    /\ s[i] = [kind |-> "match", room |-> r, from |-> p]
    /\ \A j \in DOMAIN s : /\ j > i => Plain(s[j])
                           /\ j < i /\ s[j].kind = "match" => s[j].room # r

(* It is in the match, or the match event is on its way; no later match is *)
(* that could take it out again.                                           *)
Told(r, p) == \/ match[p] = r /\ Quiet(inbox[p])
              \/ match[p] # r /\ Calls(inbox[p], r, p)

ToldInv == \A r \in DOMAIN rooms : \A p \in Peers : Reached(r, p) => Told(r, p)

(* On its way from x to y *)
OnWay(s, x, y) ==
  s \in ToSet(uplink[x]) \/ s \in ToSet(inbox[y]) \/ \E l \in looking : l.signal = s

Sig(kind, r, p) == [kind |-> kind, room |-> r, from |-> p]

(* How far the negotiation of i and q has come in r *)
Answering(i, q, r) ==
  /\ match[q] = r /\ pc[q].remote # {}
  /\ step[q] = "answering" \/ OnWay(Sig("answer", r, q), q, i) \/ pc[i].remote # {}

HungIn(x, r) == match[x] = r /\ Hung(x)

Going(i, q, r) ==
  \/ match[i] # r \/ step[i] \in {"fetching", "offering"}
  \/ /\ step[i] = "listening" /\ pc[i].local
     /\ OnWay(Sig("offer", r, i), i, q) \/ Answering(i, q, r)

Stage(i, q, r) == HungIn(i, r) \/ HungIn(q, r) \/ Going(i, q, r)

StageInv ==
  \A r \in DOMAIN rooms \ missed :
    Reached(r, rooms[r].init) /\ Reached(r, rooms[r].resp) =>
      Stage(rooms[r].init, rooms[r].resp, r)

GInv == AddressInv /\ SidesInv /\ ToldInv /\ StageInv

-----------------------------------------------------------------------------
(* Sequences of events *)

LEMMA InSeq ==
  ASSUME NEW S, NEW s \in Seq(S)
  PROVE  /\ \A e \in S : ToSet(Append(s, e)) = ToSet(s) \cup {e}
         /\ s # <<>> => ToSet(s) = {Head(s)} \cup ToSet(Tail(s))
         /\ ToSet(<<>>) = {}
<1>1. ASSUME NEW e \in S PROVE ToSet(Append(s, e)) = ToSet(s) \cup {e}
  <2>1. DOMAIN Append(s, e) = DOMAIN s \cup {Len(s) + 1} /\ Append(s, e)[Len(s) + 1] = e
        /\ \A i \in DOMAIN s : Append(s, e)[i] = s[i]
    OBVIOUS
  <2>2. QED  BY <2>1 DEF ToSet
<1>2. ASSUME s # <<>> PROVE ToSet(s) = {Head(s)} \cup ToSet(Tail(s))
  <2>1. /\ \A i \in DOMAIN Tail(s) : i + 1 \in DOMAIN s /\ Tail(s)[i] = s[i + 1]
        /\ \A i \in DOMAIN s : i = 1 \/ (i - 1 \in DOMAIN Tail(s) /\ Tail(s)[i - 1] = s[i])
        /\ 1 \in DOMAIN s /\ Head(s) = s[1]
    BY <1>2
  <2>2. ToSet(s) \subseteq {Head(s)} \cup ToSet(Tail(s))
    BY <2>1 DEF ToSet
  <2>3. {Head(s)} \cup ToSet(Tail(s)) \subseteq ToSet(s)
    BY <2>1 DEF ToSet
  <2>4. QED  BY <2>2, <2>3
<1>3. ToSet(<<>>) = {}
  BY DEF ToSet
<1>4. QED  BY <1>1, <1>2, <1>3

LEMMA AppendPlain ==
  ASSUME NEW s \in Seq(Event), NEW e \in Event, Plain(e), NEW r, NEW p
  PROVE  /\ Quiet(s) => Quiet(Append(s, e))
         /\ Calls(s, r, p) => Calls(Append(s, e), r, p)
<1>1. /\ DOMAIN Append(s, e) = DOMAIN s \cup {Len(s) + 1} /\ Append(s, e)[Len(s) + 1] = e
      /\ \A i \in DOMAIN s : Append(s, e)[i] = s[i] /\ i \in Nat /\ i < Len(s) + 1
      /\ Len(s) \in Nat
  OBVIOUS
<1>2. QED  BY <1>1 DEF Quiet, Calls

LEMMA AppendCall ==
  ASSUME NEW s \in Seq(Event), NEW r \in Nat, NEW p \in Peers,
         \A e \in ToSet(s) : e.room # r
  PROVE  Calls(Append(s, [kind |-> "match", room |-> r, from |-> p]), r, p)
<1>1. PICK e : e = [kind |-> "match", room |-> r, from |-> p]
  OBVIOUS
<1>2. /\ DOMAIN Append(s, e) = DOMAIN s \cup {Len(s) + 1} /\ Append(s, e)[Len(s) + 1] = e
      /\ \A i \in DOMAIN s : Append(s, e)[i] = s[i] /\ i \in Nat /\ i < Len(s) + 1
      /\ Len(s) \in Nat
  BY <1>1 DEF Event
<1>3. \A i \in DOMAIN s : s[i].room # r
  BY DEF ToSet
<1>4. QED  BY <1>1, <1>2, <1>3 DEF Calls

LEMMA TailTold ==
  ASSUME NEW s \in Seq(Event), s # <<>>, NEW r, NEW p
  PROVE  /\ Quiet(s) => Plain(Head(s)) /\ Quiet(Tail(s))
         /\ Calls(s, r, p) =>
              \/ Head(s).kind = "match" /\ Head(s).room = r /\ Quiet(Tail(s))
              \/ (Head(s).kind = "match" => Head(s).room # r) /\ Calls(Tail(s), r, p)
<1>1. /\ \A i \in DOMAIN Tail(s) : i \in Nat /\ i >= 1 /\ i + 1 \in DOMAIN s /\ Tail(s)[i] = s[i + 1]
      /\ \A i \in DOMAIN s : i \in Nat /\ (i = 1 \/ (i > 1 /\ i - 1 \in DOMAIN Tail(s) /\ Tail(s)[i - 1] = s[i]))
      /\ 1 \in DOMAIN s /\ Head(s) = s[1]
  OBVIOUS
<1>2. Quiet(s) => Plain(Head(s)) /\ Quiet(Tail(s))
  BY <1>1 DEF Quiet
<1>3. ASSUME Calls(s, r, p)
      PROVE  \/ Head(s).kind = "match" /\ Head(s).room = r /\ Quiet(Tail(s))
             \/ (Head(s).kind = "match" => Head(s).room # r) /\ Calls(Tail(s), r, p)
  <2>1. PICK i \in DOMAIN s :
          /\ s[i] = [kind |-> "match", room |-> r, from |-> p]
          /\ \A j \in DOMAIN s : /\ j > i => Plain(s[j])
                                 /\ j < i /\ s[j].kind = "match" => s[j].room # r
    BY <1>3 DEF Calls
  <2>2. CASE i = 1
    <3>1. \A k \in DOMAIN Tail(s) : Plain(Tail(s)[k])
      BY <1>1, <2>1, <2>2
    <3>2. QED  BY <1>1, <2>1, <2>2, <3>1 DEF Quiet
  <2>3. CASE i > 1
    <3>1. i - 1 \in DOMAIN Tail(s) /\ Tail(s)[i - 1] = [kind |-> "match", room |-> r, from |-> p]
      BY <1>1, <2>1, <2>3
    <3>2. \A k \in DOMAIN Tail(s) : /\ k > i - 1 => Plain(Tail(s)[k])
                                    /\ k < i - 1 /\ Tail(s)[k].kind = "match" => Tail(s)[k].room # r
      BY <1>1, <2>1, <2>3
    <3>3. Calls(Tail(s), r, p)
      BY <3>1, <3>2 DEF Calls
    <3>4. QED  BY <1>1, <2>1, <2>3, <3>3
  <2>4. QED  BY <1>1, <2>2, <2>3
<1>4. QED  BY <1>2, <1>3

-----------------------------------------------------------------------------
(* Addresses *)

LEMMA MatchMakes ==
  ASSUME IInv, NEW p \in Peers, NEW q \in Peers, Match(p, q)
  PROVE  \E r \in Nat :
           /\ r = Len(rooms) + 1 /\ r \notin DOMAIN rooms /\ DOMAIN rooms' = DOMAIN rooms \cup {r}
           /\ rooms'[r] = [init |-> p, resp |-> q, sock |-> sock, open |-> TRUE]
           /\ Members(r)' = {p, q} /\ Other(r, p)' = q /\ Other(r, q)' = p /\ r # 0
           /\ \A x \in DOMAIN rooms : /\ rooms'[x] = rooms[x] /\ Members(x)' = Members(x)
                                      /\ \A y : Other(x, y)' = Other(x, y)
<1>1. PICK r \in Nat : r = Len(rooms) + 1
  BY DEF IInv, RoomsInv
<1>2. PICK new : new = [init |-> p, resp |-> q, sock |-> sock, open |-> TRUE]
  OBVIOUS
<1>3. rooms \in Seq(Room) /\ new \in Room /\ rooms' = Append(rooms, new) /\ p # q
  BY <1>2, BoundsAssumption DEF IInv, RoomsInv, Match, Room, SockInv
<1>4. /\ r \notin DOMAIN rooms /\ DOMAIN rooms' = DOMAIN rooms \cup {r} /\ rooms'[r] = new
      /\ \A x \in DOMAIN rooms : rooms'[x] = rooms[x]
      /\ r # 0
  BY <1>1, <1>3
<1>5. Members(r)' = {p, q}
  BY <1>2, <1>4 DEF Members
<1>6. Other(r, p)' = q /\ Other(r, q)' = p
  BY <1>3, <1>5 DEF Other
<1>7. \A x \in DOMAIN rooms : Members(x)' = Members(x) /\ \A y : Other(x, y)' = Other(x, y)
  BY <1>4 DEF Members, Other
<1>8. QED  BY <1>1, <1>2, <1>4, <1>5, <1>6, <1>7

(* What parting leaves of the rooms *)
LEMMA PartCloses ==
  ASSUME IInv, NEW p \in Peers, Part(p)
  PROVE  /\ stored[p] \in DOMAIN rooms /\ p \in Members(stored[p])
         /\ DOMAIN rooms' = DOMAIN rooms /\ ~rooms'[stored[p]].open
         /\ \A x \in DOMAIN rooms : /\ x # stored[p] => rooms'[x] = rooms[x]
                                    /\ rooms'[x].sock = rooms[x].sock
                                    /\ rooms'[x].init = rooms[x].init /\ rooms'[x].resp = rooms[x].resp
                                    /\ Members(x)' = Members(x)
                                    /\ \A y : Other(x, y)' = Other(x, y)
<1>1. PICK r : r = stored[p]
  OBVIOUS
<1>2. r \in DOMAIN rooms /\ p \in Members(r) /\ rooms' = [rooms EXCEPT ![r].open = FALSE]
  BY <1>1 DEF Part, IInv, ServerInv
<1>3. rooms[r] \in Room /\ rooms \in Seq(Room)
  BY <1>2, RoomType DEF IInv, RoomsInv
<1>4. PICK shut : shut = [rooms[r] EXCEPT !.open = FALSE]
  OBVIOUS
<1>5. shut \in Room /\ ~shut.open /\ shut.init = rooms[r].init /\ shut.resp = rooms[r].resp /\ shut.sock = rooms[r].sock
  BY <1>3, <1>4 DEF Room
<1>6. rooms' = [rooms EXCEPT ![r] = shut]
  BY <1>2, <1>4
<1>7. DOMAIN rooms' = DOMAIN rooms
  BY <1>6
<1>8. rooms'[r] = shut /\ \A x \in DOMAIN rooms : x # r => rooms'[x] = rooms[x]
  BY <1>2, <1>6
<1>9. \A x \in DOMAIN rooms : /\ rooms'[x].sock = rooms[x].sock
                              /\ rooms'[x].init = rooms[x].init /\ rooms'[x].resp = rooms[x].resp
  BY <1>5, <1>8
<1>10. \A x \in DOMAIN rooms : Members(x)' = Members(x)
  BY <1>9 DEF Members
<1>11. \A x \in DOMAIN rooms : \A y : Other(x, y)' = Other(x, y)
  BY <1>10 DEF Other
<1>12. QED  BY <1>1, <1>2, <1>5, <1>7, <1>8, <1>9, <1>10, <1>11

LEMMA SockType ==
  ASSUME IInv
  PROVE  /\ \A p \in Peers : sock[p] \in Nat
         /\ \A r \in DOMAIN rooms, p \in Peers : rooms[r].sock[p] \in Nat
<1>1. \A p \in Peers : sock[p] \in Nat
  BY BoundsAssumption DEF IInv, SockInv
<1>2. \A r \in DOMAIN rooms : rooms[r] \in Room
  BY RoomType DEF IInv
<1>3. QED  BY <1>1, <1>2 DEF Room

LEMMA AddressMatch ==
  ASSUME IInv, AddressInv, NEW p \in Peers, NEW q \in Peers, Match(p, q)
  PROVE  AddressInv'
<1>1. PICK r \in Nat :
           /\ r = Len(rooms) + 1 /\ r \notin DOMAIN rooms /\ DOMAIN rooms' = DOMAIN rooms \cup {r}
           /\ rooms'[r] = [init |-> p, resp |-> q, sock |-> sock, open |-> TRUE]
           /\ Members(r)' = {p, q} /\ Other(r, p)' = q /\ Other(r, q)' = p /\ r # 0
           /\ \A x \in DOMAIN rooms : /\ rooms'[x] = rooms[x] /\ Members(x)' = Members(x)
                                      /\ \A y : Other(x, y)' = Other(x, y)
  BY MatchMakes
<1>2. /\ stored' = [stored EXCEPT ![p] = r, ![q] = r] /\ sock' = sock /\ ~Busy(p) /\ ~Busy(q) /\ p # q
      /\ engaged' = engaged \cup {p, q}
      /\ cache' = [cache EXCEPT ![p] = [room |-> r, peer |-> sock[q]],
                                ![q] = [room |-> r, peer |-> sock[p]]]
  BY <1>1 DEF Match
<1>3. (\A x \in DOMAIN rooms, y \in Peers : rooms[x].sock[y] <= sock[y])'
  <2>1. \A y \in Peers : rooms'[r].sock[y] <= sock'[y]
    BY <1>1, <1>2, SockType
  <2>2. QED  BY <1>1, <1>2, <2>1 DEF AddressInv
<1>4. (\A x \in DOMAIN rooms : \A y \in Members(x) : Reached(x, y) => stored[y] = x /\ y \in engaged)'
  <2>1. ASSUME NEW x \in DOMAIN rooms, NEW y \in Members(x), Reached(x, y)'
        PROVE  stored'[y] = x /\ y \in engaged'
    <3>1. Reached(x, y) /\ rooms[x].open
      BY <1>1, <1>2, <2>1 DEF Reached
    <3>2. y \in Peers /\ stored[y] = x /\ y \in engaged
      BY <3>1, RoomType DEF IInv, AddressInv
    <3>3. y # p /\ y # q
      BY <1>2, <3>1, <3>2 DEF Busy
    <3>4. QED  BY <1>2, <3>2, <3>3 DEF IInv, ServerInv
  <2>2. stored'[p] = r /\ stored'[q] = r /\ p \in engaged' /\ q \in engaged'
    BY <1>2 DEF IInv, ServerInv
  <2>3. QED  BY <1>1, <2>1, <2>2
<1>5. (\A y \in Peers : cache[y].room # 0 =>
        /\ y \in Members(cache[y].room)
        /\ cache[y].peer = rooms[cache[y].room].sock[Other(cache[y].room, y)])'
  <2>1. ASSUME NEW y \in Peers, NEW c, c = cache'[y], c.room # 0
        PROVE  y \in Members(c.room)' /\ c.peer = rooms'[c.room].sock[Other(c.room, y)']
    <3>1. CASE y \in {p, q}
      <4>1. c.room = r /\ c.peer = sock[Other(r, y)']
        BY <1>1, <1>2, <2>1, <3>1 DEF IInv, ServerInv
      <4>2. y \in Members(r)' /\ rooms'[r].sock = sock
        BY <1>1, <3>1
      <4>3. QED  BY <4>1, <4>2
    <3>2. CASE y \notin {p, q}
      <4>1. c = cache[y] /\ c.room \in DOMAIN rooms
        BY <1>2, <2>1, <3>2 DEF IInv, ServerInv
      <4>2. QED  BY <1>1, <2>1, <4>1 DEF AddressInv
    <3>3. QED  BY <3>1, <3>2
  <2>2. QED  BY <2>1
<1>6. QED  BY <1>3, <1>4, <1>5 DEF AddressInv

LEMMA AddressPart ==
  ASSUME IInv, AddressInv, NEW p \in Peers, Part(p)
  PROVE  AddressInv'
<1>1. /\ stored[p] \in DOMAIN rooms /\ p \in Members(stored[p])
      /\ DOMAIN rooms' = DOMAIN rooms /\ ~rooms'[stored[p]].open
      /\ \A x \in DOMAIN rooms : /\ x # stored[p] => rooms'[x] = rooms[x]
                                 /\ rooms'[x].sock = rooms[x].sock
                                 /\ Members(x)' = Members(x)
                                 /\ \A y : Other(x, y)' = Other(x, y)
  BY PartCloses
<1>2. stored' = stored /\ engaged' = engaged \ {p} /\ sock' = sock /\ cache' = cache
  BY DEF Part
<1>3. (\A x \in DOMAIN rooms, y \in Peers : rooms[x].sock[y] <= sock[y])'
  BY <1>1, <1>2 DEF AddressInv
<1>4. (\A x \in DOMAIN rooms : \A y \in Members(x) : Reached(x, y) => stored[y] = x /\ y \in engaged)'
  <2>1. ASSUME NEW x \in DOMAIN rooms, NEW y \in Members(x), Reached(x, y)'
        PROVE  stored'[y] = x /\ y \in engaged'
    <3>1. x # stored[p] /\ Reached(x, y)
      BY <1>1, <1>2, <2>1 DEF Reached
    <3>2. stored[y] = x /\ y \in engaged
      BY <3>1 DEF AddressInv
    <3>3. QED  BY <1>2, <3>1, <3>2
  <2>2. QED  BY <1>1, <2>1
<1>5. (\A y \in Peers : cache[y].room # 0 =>
        /\ y \in Members(cache[y].room)
        /\ cache[y].peer = rooms[cache[y].room].sock[Other(cache[y].room, y)])'
  <2>1. ASSUME NEW y \in Peers, NEW c, c = cache'[y], c.room # 0
        PROVE  y \in Members(c.room)' /\ c.peer = rooms'[c.room].sock[Other(c.room, y)']
    <3>1. c = cache[y] /\ c.room \in DOMAIN rooms
      BY <1>2, <2>1 DEF IInv, ServerInv
    <3>2. QED  BY <1>1, <2>1, <3>1 DEF AddressInv
  <2>2. QED  BY <2>1
<1>6. QED  BY <1>3, <1>4, <1>5 DEF AddressInv

(* A room does not reach a socket that was given up. *)
LEMMA SocketGone ==
  ASSUME IInv, AddressInv, NEW p \in Peers, NewSocket(p), rooms' = rooms
  PROVE  /\ (\A x \in DOMAIN rooms, y \in Peers : rooms[x].sock[y] <= sock[y])'
         /\ \A x \in DOMAIN rooms : ~Reached(x, p)'
         /\ \A x \in DOMAIN rooms : \A y \in Peers : Reached(x, y)' => Reached(x, y) /\ y # p
<1>1. sock' = [sock EXCEPT ![p] = sock[p] + 1]
  BY DEF NewSocket
<1>2. \A y \in Peers : sock'[y] = IF y = p THEN sock[p] + 1 ELSE sock[y]
  BY <1>1 DEF IInv, SockInv
<1>3. (\A x \in DOMAIN rooms, y \in Peers : rooms[x].sock[y] <= sock[y])'
  BY <1>2, SockType DEF AddressInv
<1>4. \A x \in DOMAIN rooms : sock'[p] # rooms[x].sock[p]
  BY <1>2, SockType DEF AddressInv
<1>5. \A x \in DOMAIN rooms : ~Reached(x, p)'
  BY <1>4 DEF Reached
<1>6. \A x \in DOMAIN rooms : \A y \in Peers : Reached(x, y)' => Reached(x, y) /\ y # p
  BY <1>2, <1>5, SameRooms DEF Reached
<1>7. QED  BY <1>3, <1>5, <1>6

LEMMA AddressNewSocket ==
  ASSUME IInv, AddressInv, NEW p \in Peers, NewSocket(p), rooms' = rooms,
         \A y \in Peers \ {p} : stored'[y] = stored[y] /\ (y \in engaged => y \in engaged'),
         NEW c, cache' = [cache EXCEPT ![p] = c],
         c.room # 0 => p \in Members(c.room) /\ c.peer = rooms[c.room].sock[Other(c.room, p)]
  PROVE  AddressInv'
<1>1. \A r : Members(r)' = Members(r) /\ \A y : Other(r, y)' = Other(r, y)
  BY SameRooms
<1>2. (\A x \in DOMAIN rooms : \A y \in Members(x) : Reached(x, y) => stored[y] = x /\ y \in engaged)'
  <2>1. ASSUME NEW x \in DOMAIN rooms, NEW y \in Members(x), Reached(x, y)'
        PROVE  stored'[y] = x /\ y \in engaged'
    <3>1. y \in Peers
      BY RoomType DEF IInv
    <3>2. Reached(x, y) /\ y # p
      BY <2>1, <3>1, SocketGone
    <3>3. QED  BY <3>1, <3>2 DEF AddressInv
  <2>2. QED  BY <1>1, <2>1
<1>3. (\A y \in Peers : cache[y].room # 0 =>
        /\ y \in Members(cache[y].room)
        /\ cache[y].peer = rooms[cache[y].room].sock[Other(cache[y].room, y)])'
  <2>1. \A y \in Peers : (y = p /\ cache'[y] = c) \/ cache'[y] = cache[y]
    BY DEF IInv, ServerInv
  <2>2. QED  BY <1>1, <2>1 DEF AddressInv
<1>4. QED  BY <1>2, <1>3, SocketGone DEF AddressInv

LEMMA AddressReconnect ==
  ASSUME IInv, AddressInv, NEW p \in Peers, Reconnect(p) \/ Vanish(p)
  PROVE  AddressInv'
<1>1. NewSocket(p) /\ rooms' = rooms
  BY DEF Reconnect, Vanish
<1>2. CASE Reconnect(p)
  <2>1. PICK c : /\ cache' = [cache EXCEPT ![p] = c]
                 /\ \/ stored[p] # 0 /\ c = [room |-> stored[p], peer |-> rooms[stored[p]].sock[Other(stored[p], p)]]
                    \/ c = [room |-> 0, peer |-> 0]
    <3>1. p \in engaged => stored[p] # 0
      BY DEF IInv, ServerInv
    <3>2. QED  BY <1>2, <3>1 DEF Reconnect, NoAddress
  <2>2. c.room # 0 => p \in Members(c.room) /\ c.peer = rooms[c.room].sock[Other(c.room, p)]
    BY <2>1 DEF IInv, ServerInv
  <2>3. stored' = stored /\ engaged' = engaged
    BY <1>2 DEF Reconnect
  <2>4. QED  BY <1>1, <2>1, <2>2, <2>3, AddressNewSocket
<1>3. CASE Vanish(p)
  <2>1. /\ stored' = [stored EXCEPT ![p] = 0] /\ engaged' = engaged \ {p}
        /\ cache' = [cache EXCEPT ![p] = NoAddress] /\ NoAddress.room = 0
    BY <1>3 DEF Vanish, NoAddress
  <2>2. \A y \in Peers \ {p} : stored'[y] = stored[y] /\ (y \in engaged => y \in engaged')
    BY <2>1 DEF IInv, ServerInv
  <2>3. QED  BY <1>1, <2>1, <2>2, AddressNewSocket
<1>4. QED  BY <1>2, <1>3

LEMMA AddressKept ==
  ASSUME AddressInv, UNCHANGED <<rooms, sock, stored, engaged, cache>>
  PROVE  AddressInv'
BY SameRooms DEF AddressInv, Reached

-----------------------------------------------------------------------------
(* What the steps do to the signals under way *)

LEMMA Placed ==
  ASSUME IInv, NEW p \in Peers
  PROVE  /\ uplink[p] \in Seq(Signal) /\ ToSet(uplink[p]) \subseteq Own(p)
         /\ inbox[p] \in Seq(Event) /\ ToSet(inbox[p]) \subseteq Bound(p)
         /\ TabOk(p) /\ step[p] \in StepType /\ pc[p] \in PcType
<1>1. uplink[p] \in Seq(Own(p)) /\ inbox[p] \in Seq(Bound(p))
  BY DEF IInv, UplinkInv, InboxInv
<1>2. ToSet(uplink[p]) \subseteq Own(p) /\ ToSet(inbox[p]) \subseteq Bound(p)
  BY <1>1, SeqFacts
<1>3. QED  BY <1>2 DEF IInv, UplinkInv, InboxInv, TabInv

LEMMA EmitAdds ==
  ASSUME IInv, NEW p \in Peers, NEW kind \in {"offer", "answer", "ice"},
         match[p] \in DOMAIN rooms, Emit(p, kind)
  PROVE  /\ ToSet(uplink'[p]) = ToSet(uplink[p]) \cup {[kind |-> kind, room |-> match[p], from |-> p]}
         /\ \A x \in Peers \ {p} : uplink'[x] = uplink[x]
<1>1. PICK s : s = [kind |-> kind, room |-> match[p], from |-> p]
  OBVIOUS
<1>2. match[p] \in Nat
  BY DEF IInv, TabInv
<1>3. s \in Signal
  BY <1>1, <1>2 DEF Signal
<1>4. uplink' = [uplink EXCEPT ![p] = Append(uplink[p], s)]
  BY <1>1 DEF Emit
<1>5. uplink'[p] = Append(uplink[p], s) /\ \A x \in Peers \ {p} : uplink'[x] = uplink[x]
  BY <1>4 DEF IInv, UplinkInv
<1>6. ToSet(Append(uplink[p], s)) = ToSet(uplink[p]) \cup {s}
  BY <1>3, Placed, InSeq
<1>7. QED  BY <1>1, <1>5, <1>6

LEMMA UplinkMoves ==
  ASSUME IInv, NEW p \in Peers, uplink[p] # <<>>, uplink' = [uplink EXCEPT ![p] = Tail(@)]
  PROVE  /\ ToSet(uplink[p]) = {Head(uplink[p])} \cup ToSet(uplink'[p])
         /\ \A x \in Peers \ {p} : uplink'[x] = uplink[x]
         /\ Head(uplink[p]) \in Own(p)
<1>1. uplink'[p] = Tail(uplink[p]) /\ \A x \in Peers \ {p} : uplink'[x] = uplink[x]
  BY DEF IInv, UplinkInv
<1>2. ToSet(uplink[p]) = {Head(uplink[p])} \cup ToSet(Tail(uplink[p]))
  BY Placed, InSeq
<1>3. Head(uplink[p]) \in Own(p)
  BY <1>2, Placed
<1>4. QED  BY <1>1, <1>2, <1>3

LEMMA InboxMoves ==
  ASSUME IInv, NEW p \in Peers, inbox[p] # <<>>, inbox' = [inbox EXCEPT ![p] = Tail(@)]
  PROVE  /\ inbox'[p] = Tail(inbox[p])
         /\ ToSet(inbox[p]) = {Head(inbox[p])} \cup ToSet(inbox'[p])
         /\ \A x \in Peers \ {p} : inbox'[x] = inbox[x]
         /\ Head(inbox[p]) \in Bound(p)
<1>1. inbox'[p] = Tail(inbox[p]) /\ \A x \in Peers \ {p} : inbox'[x] = inbox[x]
  BY DEF IInv, InboxInv
<1>2. ToSet(inbox[p]) = {Head(inbox[p])} \cup ToSet(Tail(inbox[p]))
  BY Placed, InSeq
<1>3. Head(inbox[p]) \in Bound(p)
  BY <1>2, Placed
<1>4. QED  BY <1>1, <1>2, <1>3

(* An event sent lies in the inbox of a tab on that very socket. *)
LEMMA SentLies ==
  ASSUME IInv, NEW q \in Peers, NEW socket, NEW e \in Event, inbox' = Sent(q, socket, e)
  PROVE  /\ \A x \in Peers \ {q} : inbox'[x] = inbox[x]
         /\ sock[q] = socket => inbox'[q] = Append(inbox[q], e) /\ ToSet(inbox'[q]) = ToSet(inbox[q]) \cup {e}
         /\ sock[q] # socket => inbox'[q] = inbox[q]
         /\ \A x \in Peers : inbox'[x] = inbox[x] \/ (x = q /\ inbox'[x] = Append(inbox[x], e))
         /\ \A x \in Peers : /\ ToSet(inbox'[x]) \subseteq ToSet(inbox[x]) \cup {e}
                           /\ ToSet(inbox[x]) \subseteq ToSet(inbox'[x])
<1>1. inbox' = [inbox EXCEPT ![q] = IF sock[q] = socket THEN Append(inbox[q], e) ELSE inbox[q]]
  BY DEF Sent
<1>2. ToSet(Append(inbox[q], e)) = ToSet(inbox[q]) \cup {e}
  BY Placed, InSeq
<1>3. /\ \A x \in Peers \ {q} : inbox'[x] = inbox[x]
      /\ inbox'[q] = IF sock[q] = socket THEN Append(inbox[q], e) ELSE inbox[q]
  BY <1>1 DEF IInv, InboxInv
<1>4. ASSUME NEW x \in Peers
      PROVE  /\ ToSet(inbox'[x]) \subseteq ToSet(inbox[x]) \cup {e}
             /\ ToSet(inbox[x]) \subseteq ToSet(inbox'[x])
  BY <1>2, <1>3
<1>5. QED  BY <1>2, <1>3, <1>4

(* The relay by the cached address: the room's other member hears it, if   *)
(* it is still on the socket that the room knows.                          *)
LEMMA CachedReaches ==
  ASSUME IInv, AddressInv, NEW p \in Peers, RelayCached(p)
  PROVE  \E s \in Own(p) : \E q \in Peers :
           /\ s = Head(uplink[p]) /\ q = Other(s.room, p) /\ s \in Signal
           /\ ToSet(uplink[p]) = {s} \cup ToSet(uplink'[p])
           /\ \A x \in Peers \ {p} : uplink'[x] = uplink[x]
           /\ inbox' = Sent(q, rooms[s.room].sock[q], s)
           /\ looking' = looking
<1>1. PICK s : s = Head(uplink[p])
  OBVIOUS
<1>2. /\ uplink[p] # <<>> /\ uplink' = [uplink EXCEPT ![p] = Tail(@)] /\ cache[p].room = s.room
      /\ looking' = looking
      /\ inbox' = [x \in Peers |-> IF x = Other(cache[p].room, p) /\ sock[x] = cache[p].peer
                                   THEN Append(inbox[x], s) ELSE inbox[x]]
  BY <1>1 DEF RelayCached, Cached, serverVars
<1>3. /\ s \in Own(p) /\ ToSet(uplink[p]) = {s} \cup ToSet(uplink'[p])
      /\ \A x \in Peers \ {p} : uplink'[x] = uplink[x]
  BY <1>1, <1>2, UplinkMoves
<1>4. s \in Signal /\ s.room \in DOMAIN rooms /\ p \in Members(s.room) /\ s.room # 0
  BY <1>3, RoomType DEF Own, IInv
<1>5. PICK q : q = Other(s.room, p)
  OBVIOUS
<1>6. q \in Peers
  BY <1>4, <1>5, OtherMember DEF IInv
<1>7. cache[p].peer = rooms[s.room].sock[q]
  BY <1>2, <1>4, <1>5 DEF AddressInv
<1>8. inbox' = [x \in Peers |-> IF x = q /\ sock[x] = rooms[s.room].sock[q] THEN Append(inbox[x], s) ELSE inbox[x]]
  BY <1>2, <1>5, <1>7
<1>9. inbox' = Sent(q, rooms[s.room].sock[q], s)
  BY <1>6, <1>8 DEF Sent, IInv, InboxInv
<1>10. QED  BY <1>1, <1>2, <1>3, <1>4, <1>5, <1>6, <1>9

LEMMA LooksUp ==
  ASSUME IInv, NEW p \in Peers, RelayLooksUp(p)
  PROVE  \E s \in Own(p) :
           /\ s = Head(uplink[p])
           /\ ToSet(uplink[p]) = {s} \cup ToSet(uplink'[p])
           /\ \A x \in Peers \ {p} : uplink'[x] = uplink[x]
           /\ looking \subseteq looking' /\ \E l \in looking' : l.signal = s
           /\ \A l \in looking' : l \in looking \/ l.signal = s
           /\ inbox' = inbox
<1>1. PICK s : s = Head(uplink[p])
  OBVIOUS
<1>2. /\ uplink[p] # <<>> /\ uplink' = [uplink EXCEPT ![p] = Tail(@)] /\ inbox' = inbox
      /\ looking' = looking \cup {[signal |-> s, known |-> s.kind = "ice"]}
  BY <1>1 DEF RelayLooksUp
<1>3. /\ s \in Own(p) /\ ToSet(uplink[p]) = {s} \cup ToSet(uplink'[p])
      /\ \A x \in Peers \ {p} : uplink'[x] = uplink[x]
  BY <1>1, <1>2, UplinkMoves
<1>4. PICK l : l = [signal |-> s, known |-> s.kind = "ice"]
  OBVIOUS
<1>5. l.signal = s
  <2>1. \A b : [signal |-> s, known |-> b].signal = s
    OBVIOUS
  <2>2. QED  BY <1>4, <2>1, Zenon
<1>6. looking' = looking \cup {l}
  BY <1>2, <1>4, Zenon
<1>7. QED  BY <1>1, <1>2, <1>3, <1>5, <1>6

LEMMA LookupReaches ==
  ASSUME IInv, NEW l \in looking, Lookup(l)
  PROVE  LET s == l.signal
             q == Other(s.room, s.from)
         IN /\ s \in Signal /\ s \in Own(s.from) /\ q \in Peers
            /\ \A m \in looking : m # l => m \in looking'
            /\ \A m \in looking' : m \in looking \/ m.signal = s
            /\ \/ /\ inbox' = inbox
                  /\ \/ ~rooms[s.room].open \/ s.kind = "ice" \/ s.room \in missed'
                     \/ \E m \in looking' : m.signal = s
               \/ inbox' = Sent(q, rooms[s.room].sock[q], s)
<1>1. PICK s, q : s = l.signal /\ q = Other(s.room, s.from)
  OBVIOUS
<1>2. l \in [signal : Signal, known : BOOLEAN] /\ s \in Signal /\ s \in Own(s.from)
  BY <1>1 DEF IInv, ServerInv
<1>3. q \in Peers
  BY <1>1, <1>2, OtherMember DEF Own, IInv
<1>4. PICK k : k = [l EXCEPT !.known = TRUE]
  OBVIOUS
<1>5. k.signal = s
  BY <1>1, <1>2, <1>4
<1>6. CASE LookupMember(l)
  <2>1. inbox' = inbox /\ looking' = (looking \ {l}) \cup (IF rooms[s.room].open THEN {k} ELSE {})
    BY <1>1, <1>4, <1>6 DEF LookupMember, wireVars
  <2>2. QED  BY <1>1, <1>2, <1>3, <1>5, <2>1
<1>7. CASE LookupPeer(l)
  <2>1. looking' = looking \ {l}
        /\ (inbox' = Sent(q, rooms[s.room].sock[q], s) \/ (inbox' = inbox /\ ~rooms[s.room].open))
    BY <1>1, <1>7 DEF LookupPeer, Deliver
  <2>2. QED  BY <1>1, <1>2, <1>3, <2>1
<1>8. CASE LookupFails(l)
  <2>1. looking' = looking \ {l} /\ inbox' = inbox /\ (s.kind = "ice" \/ s.room \in missed')
    BY <1>1, <1>8 DEF LookupFails, Lost, wireVars
  <2>2. QED  BY <1>1, <1>2, <1>3, <2>1
<1>9. QED  BY <1>6, <1>7, <1>8 DEF Lookup

-----------------------------------------------------------------------------
(* Who offers *)

LEMMA SidesStep ==
  ASSUME IInv, SidesInv,
         \A r \in DOMAIN rooms : rooms'[r].init = rooms[r].init,
         \A p \in Peers : \A s \in ToSet(uplink'[p]) : s \in ToSet(uplink[p]) \/ ByInit(s)',
         \A p \in Peers : \A s \in ToSet(inbox'[p]) : s \in ToSet(inbox[p]) \/ ByInit(s)',
         \A l \in looking' : (\E m \in looking : m.signal = l.signal) \/ ByInit(l.signal)',
         \A p \in Peers : \/ step'[p] = step[p] /\ match'[p] = match[p]
                          \/ step'[p] \notin {"offering", "answering"}
                          \/ /\ step'[p] = "offering" => rooms'[match'[p]].init = p
                             /\ step'[p] = "answering" => rooms'[match'[p]].init # p
  PROVE  SidesInv'
<1>1. \A s : s.room \in DOMAIN rooms /\ ByInit(s) => ByInit(s)'
  BY DEF ByInit
<1>2. ASSUME NEW p \in Peers, NEW s \in ToSet(uplink'[p]) \cup ToSet(inbox'[p]) PROVE ByInit(s)'
  <2>1. CASE s \in ToSet(uplink[p]) \cup ToSet(inbox[p])
    <3>1. s.room \in DOMAIN rooms /\ ByInit(s)
      BY <2>1, Placed DEF Own, Bound, SidesInv
    <3>2. QED  BY <1>1, <3>1
  <2>2. QED  BY <1>2, <2>1
<1>3. ASSUME NEW l \in looking' PROVE ByInit(l.signal)'
  <2>1. ASSUME NEW m \in looking, m.signal = l.signal PROVE ByInit(l.signal)'
    <3>1. m.signal.room \in DOMAIN rooms /\ ByInit(m.signal)
      BY DEF IInv, ServerInv, Own, SidesInv
    <3>2. ByInit(m.signal)'
      BY <1>1, <3>1
    <3>3. QED  BY <2>1, <3>2 DEF ByInit
  <2>2. CASE ByInit(l.signal)'
    BY <2>2
  <2>3. QED  BY <1>3, <2>1, <2>2
<1>4. ASSUME NEW p \in Peers
      PROVE  /\ step'[p] = "offering" => rooms'[match'[p]].init = p
             /\ step'[p] = "answering" => rooms'[match'[p]].init # p
  <2>1. CASE step'[p] = step[p] /\ match'[p] = match[p]
    <3>1. step[p] \in {"offering", "answering"} => match[p] \in DOMAIN rooms
      BY Placed DEF TabOk
    <3>2. QED  BY <2>1, <3>1 DEF SidesInv
  <2>2. QED  BY <2>1
<1>5. QED  BY <1>2, <1>3, <1>4 DEF SidesInv

LEMMA SidesMatch ==
  ASSUME IInv, SidesInv, NEW p \in Peers, NEW q \in Peers, Match(p, q)
  PROVE  SidesInv'
<1>1. \A r \in DOMAIN rooms : rooms'[r].init = rooms[r].init
  BY MatchMakes
<1>2. uplink' = uplink /\ looking' = looking /\ step' = step /\ match' = match
  BY DEF Match, tabVars
<1>3. ASSUME NEW x \in Peers, NEW s \in ToSet(inbox'[x]) PROVE s \in ToSet(inbox[x]) \/ ByInit(s)'
  <2>1. PICK e : e = [kind |-> "match", room |-> Len(rooms) + 1, from |-> x]
    OBVIOUS
  <2>2. e \in Event /\ ByInit(e)'
    <3>1. Len(rooms) + 1 \in Nat
      BY DEF IInv, RoomsInv
    <3>2. QED  BY <2>1, <3>1 DEF Event, ByInit
  <2>3. inbox'[x] = inbox[x] \/ inbox'[x] = Append(inbox[x], e)
    BY <2>1 DEF Match
  <2>4. ToSet(Append(inbox[x], e)) = ToSet(inbox[x]) \cup {e}
    BY <2>2, Placed, InSeq
  <2>5. QED  BY <1>3, <2>2, <2>3, <2>4
<1>4. QED  BY <1>1, <1>2, <1>3, SidesStep

LEMMA SidesPart ==
  ASSUME IInv, SidesInv, NEW p \in Peers, Part(p)
  PROVE  SidesInv'
<1>1. PICK r, q : r = stored[p] /\ q = Other(r, p)
  OBVIOUS
<1>2. r \in DOMAIN rooms /\ p \in Members(r) /\ q \in Peers /\ r \in Nat
      /\ \A x \in DOMAIN rooms : rooms'[x].init = rooms[x].init
  BY <1>1, PartCloses, OtherMember, RoomType DEF IInv
<1>3. PICK e : e = [kind |-> "left", room |-> r, from |-> p]
  OBVIOUS
<1>4. e \in Event /\ ByInit(e)' /\ inbox' = Sent(q, rooms[r].sock[q], e)
  BY <1>1, <1>2, <1>3 DEF Part, GoodbyeSent, Goodbye, Event, ByInit
<1>5. \A x \in Peers : \A s \in ToSet(inbox'[x]) : s \in ToSet(inbox[x]) \/ ByInit(s)'
  <2>1. \A x \in Peers : ToSet(inbox'[x]) \subseteq ToSet(inbox[x]) \cup {e}
    BY <1>2, <1>4, SentLies
  <2>2. QED  BY <1>4, <2>1
<1>6. uplink' = uplink /\ looking' = looking
  BY DEF Part
<1>7. \A x \in Peers : (step'[x] = step[x] /\ match'[x] = match[x]) \/ step'[x] = "none"
  BY DEF Part, TornDown, IInv, TabInv
<1>8. QED  BY <1>2, <1>5, <1>6, <1>7, SidesStep

LEMMA SidesReconnect ==
  ASSUME IInv, SidesInv, NEW p \in Peers, Reconnect(p)
  PROVE  SidesInv'
<1>1. /\ rooms' = rooms /\ looking' = looking /\ step' = step /\ match' = match
      /\ uplink' = [uplink EXCEPT ![p] = <<>>] /\ inbox' = [inbox EXCEPT ![p] = <<>>]
  BY DEF Reconnect, NewSocket, tabVars
<1>2. \A x \in Peers : /\ uplink'[x] = uplink[x] \/ uplink'[x] = <<>>
                       /\ inbox'[x] = inbox[x] \/ inbox'[x] = <<>>
  BY <1>1 DEF IInv, UplinkInv, InboxInv
<1>3. ToSet(<<>>) = {}
  BY DEF ToSet
<1>4. QED  BY <1>1, <1>2, <1>3, SidesStep

(* What a vanishing leaves in the inboxes *)
LEMMA VanishSends ==
  ASSUME IInv, NEW p \in Peers, Vanish(p)
  PROVE  \E e \in Event :
           /\ e.kind = "left" /\ inbox'[p] = <<>>
           /\ \A x \in Peers \ {p} : inbox'[x] = inbox[x] \/ inbox'[x] = Append(inbox[x], e)
<1>1. PICK r, q : r = stored[p] /\ q = Other(r, p)
  OBVIOUS
<1>2. r \in DOMAIN rooms /\ p \in Members(r) /\ q \in Peers /\ r \in Nat
  <2>1. r \in DOMAIN rooms /\ p \in Members(r)
    BY <1>1 DEF Vanish, IInv, ServerInv
  <2>2. QED  BY <1>1, <2>1, OtherMember, RoomType DEF IInv
<1>3. PICK e : e = [kind |-> "left", room |-> r, from |-> p]
  OBVIOUS
<1>4. e \in Event /\ e.kind = "left"
  BY <1>2, <1>3 DEF Event
<1>5. PICK grown : grown = Sent(q, rooms[r].sock[q], e)
  OBVIOUS
<1>6. inbox' = [grown EXCEPT ![p] = <<>>]
  BY <1>1, <1>3, <1>5 DEF Vanish, GoodbyeSent, Goodbye
<1>7. /\ DOMAIN grown = Peers
      /\ \A x \in Peers : grown[x] = inbox[x] \/ grown[x] = Append(inbox[x], e)
  BY <1>2, <1>5 DEF Sent, IInv, InboxInv
<1>8. QED  BY <1>4, <1>6, <1>7

LEMMA SidesVanish ==
  ASSUME IInv, SidesInv, NEW p \in Peers, Vanish(p)
  PROVE  SidesInv'
<1>1. /\ rooms' = rooms /\ looking' = looking /\ uplink' = [uplink EXCEPT ![p] = <<>>]
  BY DEF Vanish, NewSocket
<1>2. PICK e \in Event :
        /\ e.kind = "left" /\ inbox'[p] = <<>>
        /\ \A x \in Peers \ {p} : inbox'[x] = inbox[x] \/ inbox'[x] = Append(inbox[x], e)
  BY VanishSends
<1>3. ToSet(<<>>) = {} /\ ByInit(e)'
  BY <1>2 DEF ToSet, ByInit
<1>4. \A x \in Peers : uplink'[x] = uplink[x] \/ uplink'[x] = <<>>
  BY <1>1 DEF IInv, UplinkInv
<1>5. \A x \in Peers : \A s \in ToSet(inbox'[x]) : s \in ToSet(inbox[x]) \/ ByInit(s)'
  <2>1. \A x \in Peers : ToSet(Append(inbox[x], e)) = ToSet(inbox[x]) \cup {e}
    BY <1>2, Placed, InSeq
  <2>2. \A x \in Peers : \/ ToSet(inbox'[x]) = {} \/ ToSet(inbox'[x]) = ToSet(inbox[x])
                        \/ ToSet(inbox'[x]) = ToSet(inbox[x]) \cup {e}
    BY <1>2, <1>3, <2>1
  <2>3. QED  BY <1>3, <2>2
<1>6. \A x \in Peers : (step'[x] = step[x] /\ match'[x] = match[x]) \/ step'[x] = "none"
  BY DEF Vanish, TornDown, IInv, TabInv
<1>7. QED  BY <1>1, <1>3, <1>4, <1>5, <1>6, SidesStep

LEMMA SidesRelay ==
  ASSUME IInv, SidesInv, AddressInv, NEW p \in Peers, Relay(p)
  PROVE  SidesInv'
<1>1. rooms' = rooms /\ step' = step /\ match' = match
  BY DEF Relay, RelayCached, RelayLooksUp, RelayRefuses, serverVars, tabVars
<1>2. \A s : ByInit(s)' = ByInit(s)
  BY <1>1 DEF ByInit
<1>3. CASE RelayCached(p)
  <2>1. PICK s \in Own(p), q \in Peers :
           /\ s = Head(uplink[p]) /\ q = Other(s.room, p) /\ s \in Signal
           /\ ToSet(uplink[p]) = {s} \cup ToSet(uplink'[p])
           /\ \A x \in Peers \ {p} : uplink'[x] = uplink[x]
           /\ inbox' = Sent(q, rooms[s.room].sock[q], s)
           /\ looking' = looking
    BY <1>3, CachedReaches
  <2>2. ByInit(s) /\ s \in Event
    BY <2>1 DEF SidesInv, Event
  <2>3. \A x \in Peers : ToSet(inbox'[x]) \subseteq ToSet(inbox[x]) \cup {s}
    BY <2>1, <2>2, SentLies
  <2>4. QED  BY <1>1, <1>2, <2>1, <2>2, <2>3, SidesStep
<1>4. CASE RelayLooksUp(p)
  <2>1. PICK s \in Own(p) :
           /\ s = Head(uplink[p])
           /\ ToSet(uplink[p]) = {s} \cup ToSet(uplink'[p])
           /\ \A x \in Peers \ {p} : uplink'[x] = uplink[x]
           /\ looking \subseteq looking' /\ \E l \in looking' : l.signal = s
           /\ \A l \in looking' : l \in looking \/ l.signal = s
           /\ inbox' = inbox
    BY <1>4, LooksUp
  <2>2. ByInit(s)
    BY <2>1 DEF SidesInv
  <2>3. QED  BY <1>1, <1>2, <2>1, <2>2, SidesStep
<1>5. CASE RelayRefuses(p)
  <2>1. looking' = looking /\ inbox' = inbox /\ uplink[p] # <<>> /\ uplink' = [uplink EXCEPT ![p] = Tail(@)]
    BY <1>5 DEF RelayRefuses, serverVars
  <2>2. \A x \in Peers : ToSet(uplink'[x]) \subseteq ToSet(uplink[x])
    <3>1. ToSet(Tail(uplink[p])) \subseteq ToSet(uplink[p])
      BY <2>1, Placed, InSeq
    <3>2. QED  BY <2>1, <3>1 DEF IInv, UplinkInv
  <2>3. QED  BY <1>1, <1>2, <2>1, <2>2, SidesStep
<1>6. QED  BY <1>3, <1>4, <1>5 DEF Relay

LEMMA SidesLookup ==
  ASSUME IInv, SidesInv, NEW l \in looking, Lookup(l)
  PROVE  SidesInv'
<1>1. rooms' = rooms /\ step' = step /\ match' = match /\ uplink' = uplink
  BY DEF Lookup, LookupMember, LookupPeer, LookupFails, wireVars, tabVars
<1>2. \A s : ByInit(s)' = ByInit(s)
  BY <1>1 DEF ByInit
<1>3. PICK s, q : s = l.signal /\ q = Other(s.room, s.from)
  OBVIOUS
<1>4. /\ s \in Signal /\ q \in Peers /\ \A m \in looking' : m \in looking \/ m.signal = s
      /\ inbox' = inbox \/ inbox' = Sent(q, rooms[s.room].sock[q], s)
  BY <1>3, LookupReaches
<1>5. ByInit(s) /\ s \in Event
  BY <1>3, <1>4 DEF SidesInv, Event
<1>6. \A x \in Peers : ToSet(inbox'[x]) \subseteq ToSet(inbox[x]) \cup {s}
  BY <1>4, <1>5, SentLies
<1>7. QED  BY <1>1, <1>2, <1>3, <1>4, <1>5, <1>6, SidesStep

LEMMA SidesSetup ==
  ASSUME IInv, SidesInv, NEW p \in Peers, Setup(p) \/ SendCandidates(p)
  PROVE  SidesInv'
<1>1. rooms' = rooms /\ looking' = looking /\ inbox' = inbox /\ match' = match
      /\ \A x \in Peers \ {p} : step'[x] = step[x]
  BY DEF Setup, CreatePc, SendOffer, SendAnswer, SendCandidates, serverVars, wireVars, IInv, TabInv
<1>2. \A s : ByInit(s)' = ByInit(s)
  BY <1>1 DEF ByInit
<1>3. step'[p] = step[p] \/ step'[p] = "listening" \/ (step'[p] = "offering" /\ rooms[match[p]].init = p)
  BY DEF Setup, CreatePc, SendOffer, SendAnswer, SendCandidates, IInv, TabInv
<1>4. \A x \in Peers : \A s \in ToSet(uplink'[x]) : s \in ToSet(uplink[x]) \/ ByInit(s)
  <2>1. ASSUME NEW kind \in {"offer", "answer", "ice"}, Emit(p, kind), match[p] \in DOMAIN rooms,
               kind = "offer" => rooms[match[p]].init = p
        PROVE  \A x \in Peers : \A s \in ToSet(uplink'[x]) : s \in ToSet(uplink[x]) \/ ByInit(s)
    <3>1. PICK e : e = [kind |-> kind, room |-> match[p], from |-> p]
      OBVIOUS
    <3>2. ByInit(e)
      BY <2>1, <3>1 DEF ByInit
    <3>3. QED  BY <2>1, <3>1, <3>2, EmitAdds
  <2>2. CASE CreatePc(p)
    BY <2>2 DEF CreatePc, wireVars
  <2>3. CASE SendOffer(p)
    <3>1. step[p] = "offering" /\ Emit(p, "offer")
      BY <2>3 DEF SendOffer
    <3>2. match[p] \in DOMAIN rooms /\ rooms[match[p]].init = p
      BY <3>1, Placed DEF TabOk, SidesInv
    <3>3. QED  BY <2>1, <3>1, <3>2
  <2>4. CASE SendAnswer(p)
    <3>1. step[p] = "answering" /\ Emit(p, "answer")
      BY <2>4 DEF SendAnswer
    <3>2. match[p] \in DOMAIN rooms
      BY <3>1, Placed DEF TabOk
    <3>3. QED  BY <2>1, <3>1, <3>2
  <2>5. CASE SendCandidates(p)
    <3>1. pc[p].local /\ Emit(p, "ice")
      BY <2>5 DEF SendCandidates
    <3>2. match[p] \in DOMAIN rooms
      <4>1. TabOk(p) /\ match[p] \in Nat
        BY Placed DEF IInv, TabInv
      <4>2. pc[p].room # 0
        BY <3>1, <4>1 DEF TabOk, NoPc
      <4>3. QED  BY <4>1, <4>2 DEF TabOk
    <3>3. QED  BY <2>1, <3>1, <3>2
  <2>6. QED  BY <2>2, <2>3, <2>4, <2>5 DEF Setup
<1>5. QED  BY <1>1, <1>2, <1>3, <1>4, SidesStep

LEMMA SidesFails ==
  ASSUME IInv, SidesInv, NEW p \in Peers, PcFails(p)
  PROVE  SidesInv'
BY DEF PcFails, serverVars, wireVars, SidesInv, ByInit

LEMMA SidesOnEvent ==
  ASSUME IInv, SidesInv, NEW p \in Peers, OnEvent(p)
  PROVE  SidesInv'
<1>1. rooms' = rooms /\ looking' = looking /\ uplink' = uplink
      /\ inbox[p] # <<>> /\ inbox' = [inbox EXCEPT ![p] = Tail(@)]
  BY DEF OnEvent, OnMatch, Ignore, OnOffer, OnAnswer, OnIce, OnLeft, Hear, serverVars
<1>2. /\ ToSet(inbox[p]) = {Head(inbox[p])} \cup ToSet(inbox'[p])
      /\ \A x \in Peers \ {p} : inbox'[x] = inbox[x]
      /\ Head(inbox[p]) \in Bound(p) /\ ByInit(Head(inbox[p]))
  BY <1>1, InboxMoves DEF SidesInv
<1>3. \A x \in Peers \ {p} : step'[x] = step[x] /\ match'[x] = match[x]
  BY DEF OnEvent, OnMatch, Ignore, OnOffer, OnAnswer, OnIce, OnLeft, IInv, TabInv
<1>4. \/ step'[p] = step[p] /\ match'[p] = match[p]
      \/ step'[p] = "fetching"
      \/ step'[p] = "answering" /\ rooms[match'[p]].init # p
  <2>1. CASE OnOffer(p)
    <3>1. /\ Head(inbox[p]).kind = "offer" /\ Head(inbox[p]).room = match[p]
          /\ match' = match /\ step'[p] = "answering"
      BY <2>1 DEF OnOffer, Hear, Concerns, IInv, TabInv
    <3>2. QED  BY <1>2, <3>1 DEF ByInit, Bound
  <2>2. CASE OnMatch(p)
    BY <2>2 DEF OnMatch, IInv, TabInv
  <2>3. QED  BY <2>1, <2>2 DEF OnEvent, Ignore, OnAnswer, OnIce, OnLeft
<1>5. QED  BY <1>1, <1>2, <1>3, <1>4, SidesStep

-----------------------------------------------------------------------------
(* Who is told of the match *)

LEMMA ToldStep ==
  ASSUME IInv, ToldInv,
         \A r \in DOMAIN rooms' : \A p \in Peers : Reached(r, p)' =>
           \/ Told(r, p)'
           \/ /\ r \in DOMAIN rooms /\ Reached(r, p) /\ match'[p] = match[p]
              /\ inbox'[p] = inbox[p] \/ \E e \in Event : Plain(e) /\ inbox'[p] = Append(inbox[p], e)
  PROVE  ToldInv'
<1>1. SUFFICES ASSUME NEW r \in DOMAIN rooms', NEW p \in Peers, Reached(r, p)'
               PROVE  Told(r, p)'
  BY DEF ToldInv
<1>2. ASSUME r \in DOMAIN rooms, Reached(r, p), match'[p] = match[p],
             inbox'[p] = inbox[p] \/ \E e \in Event : Plain(e) /\ inbox'[p] = Append(inbox[p], e)
      PROVE  Told(r, p)'
  <2>1. Told(r, p) /\ inbox[p] \in Seq(Event)
    BY <1>2, Placed DEF ToldInv
  <2>2. CASE inbox'[p] = inbox[p]
    BY <1>2, <2>1, <2>2 DEF Told
  <2>3. ASSUME NEW e \in Event, Plain(e), inbox'[p] = Append(inbox[p], e) PROVE Told(r, p)'
    BY <1>2, <2>1, <2>3, AppendPlain DEF Told
  <2>4. QED  BY <1>2, <2>2, <2>3
<1>3. QED  BY <1>1, <1>2

LEMMA ToldMatch ==
  ASSUME IInv, AddressInv, ToldInv, NEW p \in Peers, NEW q \in Peers, Match(p, q)
  PROVE  ToldInv'
<1>1. PICK r \in Nat :
           /\ r = Len(rooms) + 1 /\ r \notin DOMAIN rooms /\ DOMAIN rooms' = DOMAIN rooms \cup {r}
           /\ Members(r)' = {p, q} /\ r # 0
           /\ \A x \in DOMAIN rooms : rooms'[x] = rooms[x] /\ Members(x)' = Members(x)
  BY MatchMakes
<1>2. /\ sock' = sock /\ match' = match /\ ~Busy(p) /\ ~Busy(q)
      /\ \A x \in Peers : inbox'[x] = IF x \in {p, q}
                                      THEN Append(inbox[x], [kind |-> "match", room |-> r, from |-> x])
                                      ELSE inbox[x]
  BY <1>1 DEF Match, tabVars
<1>3. ASSUME NEW x \in {p, q} PROVE Told(r, x)'
  <2>1. \A e \in ToSet(inbox[x]) : e.room # r
    BY <1>1, Placed DEF Bound
  <2>2. inbox'[x] = Append(inbox[x], [kind |-> "match", room |-> r, from |-> x])
    BY <1>2
  <2>3. Calls(inbox'[x], r, x)
    BY <2>1, <2>2, AppendCall, Placed
  <2>4. match[x] # r
    BY <1>1, Placed DEF TabOk
  <2>5. QED  BY <1>2, <2>3, <2>4 DEF Told
<1>4. ASSUME NEW y \in DOMAIN rooms, NEW x \in Peers, Reached(y, x)'
      PROVE  Reached(y, x) /\ inbox'[x] = inbox[x]
  <2>1. Reached(y, x)
    BY <1>1, <1>2, <1>4 DEF Reached
  <2>2. x \notin {p, q}
    <3>1. stored[x] = y /\ x \in engaged /\ rooms[y].open
      BY <2>1 DEF Reached, AddressInv
    <3>2. QED  BY <1>2, <3>1 DEF Busy
  <2>3. QED  BY <1>2, <2>1, <2>2
<1>5. \A x \in Peers : Reached(r, x)' => x \in {p, q}
  BY <1>1 DEF Reached
<1>6. QED  BY <1>1, <1>2, <1>3, <1>4, <1>5, ToldStep

(* Who is reached after a goodbye was reached before; a goodbye may have   *)
(* been added to its inbox.                                                *)
Spared(r, x) ==
  /\ r \in DOMAIN rooms /\ Reached(r, x)
  /\ rooms'[r].init = rooms[r].init /\ rooms'[r].resp = rooms[r].resp
  /\ match'[x] = match[x] /\ step'[x] = step[x] /\ pc'[x] = pc[x] /\ uplink'[x] = uplink[x]
  /\ inbox'[x] = inbox[x] \/ \E e \in Event : e.kind = "left" /\ inbox'[x] = Append(inbox[x], e)

LEMMA PartSpares ==
  ASSUME IInv, AddressInv, NEW p \in Peers, Part(p),
         NEW r \in DOMAIN rooms', NEW x \in Peers, Reached(r, x)'
  PROVE  Spared(r, x)
<1>1. PICK o, q : o = stored[p] /\ q = Other(o, p)
  OBVIOUS
<1>2. /\ o \in DOMAIN rooms /\ p \in Members(o)
      /\ r \in DOMAIN rooms /\ r # o /\ rooms'[r] = rooms[r] /\ sock' = sock
      /\ Members(r)' = Members(r)
  BY <1>1, PartCloses DEF Reached, Part
<1>3. Reached(r, x)
  BY <1>2 DEF Reached
<1>4. q \in Members(o) /\ q \in Peers
  BY <1>1, <1>2, OtherMember DEF IInv
<1>5. x # p
  BY <1>1, <1>2, <1>3 DEF AddressInv, Reached
<1>6. PICK e : e = [kind |-> "left", room |-> o, from |-> p]
  OBVIOUS
<1>7. inbox' = Sent(q, rooms[o].sock[q], e) /\ o \in Nat
  BY <1>1, <1>2, <1>6, RoomType DEF Part, GoodbyeSent, Goodbye, IInv
<1>8. e \in Event /\ e.kind = "left"
  BY <1>6, <1>7 DEF Event
<1>9. inbox'[x] = inbox[x] \/ inbox'[x] = Append(inbox[x], e)
  BY <1>4, <1>7, <1>8, SentLies
<1>10. match'[x] = match[x] /\ step'[x] = step[x] /\ pc'[x] = pc[x] /\ uplink' = uplink
  BY <1>5 DEF Part, TornDown, IInv, TabInv
<1>11. QED  BY <1>2, <1>3, <1>8, <1>9, <1>10 DEF Spared

LEMMA ReconnectSpares ==
  ASSUME IInv, AddressInv, NEW p \in Peers, Reconnect(p) \/ Vanish(p),
         NEW r \in DOMAIN rooms', NEW x \in Peers, Reached(r, x)'
  PROVE  Spared(r, x) /\ rooms' = rooms /\ x # p
<1>1. NewSocket(p) /\ rooms' = rooms /\ uplink' = [uplink EXCEPT ![p] = <<>>]
  BY DEF Reconnect, Vanish, NewSocket
<1>2. Reached(r, x) /\ x # p
  BY <1>1, SocketGone
<1>3. match'[x] = match[x] /\ step'[x] = step[x] /\ pc'[x] = pc[x] /\ uplink'[x] = uplink[x]
  BY <1>1, <1>2 DEF Reconnect, Vanish, TornDown, tabVars, IInv, TabInv, UplinkInv
<1>4. CASE Reconnect(p)
  <2>1. inbox'[x] = inbox[x]
    BY <1>2, <1>4 DEF Reconnect, IInv, InboxInv
  <2>2. QED  BY <1>1, <1>2, <1>3, <2>1 DEF Spared
<1>5. CASE Vanish(p)
  <2>1. inbox'[x] = inbox[x] \/ \E e \in Event : e.kind = "left" /\ inbox'[x] = Append(inbox[x], e)
    BY <1>2, <1>5, VanishSends
  <2>2. QED  BY <1>1, <1>2, <1>3, <2>1 DEF Spared
<1>6. QED  BY <1>4, <1>5

LEMMA ToldPart ==
  ASSUME IInv, AddressInv, ToldInv, NEW p \in Peers, Part(p) \/ Reconnect(p) \/ Vanish(p)
  PROVE  ToldInv'
<1>1. \A r \in DOMAIN rooms' : \A x \in Peers : Reached(r, x)' => Spared(r, x)
  BY PartSpares, ReconnectSpares
<1>2. QED  BY <1>1, ToldStep DEF Spared, Plain

LEMMA ReachedSame ==
  ASSUME UNCHANGED <<rooms, sock>>, NEW r, NEW p
  PROVE  Reached(r, p)' = Reached(r, p)
BY SameRooms DEF Reached

LEMMA ToldRelay ==
  ASSUME IInv, AddressInv, ToldInv, NEW p \in Peers, Relay(p)
  PROVE  ToldInv'
<1>1. rooms' = rooms /\ sock' = sock /\ match' = match
  BY DEF Relay, RelayCached, RelayLooksUp, RelayRefuses, serverVars, tabVars
<1>2. CASE RelayCached(p)
  <2>1. PICK s \in Own(p), q \in Peers : s \in Signal /\ inbox' = Sent(q, rooms[s.room].sock[q], s)
    BY <1>2, CachedReaches
  <2>2. s \in Event /\ Plain(s)
    BY <2>1 DEF Event, Signal, Plain
  <2>3. \A x \in Peers : inbox'[x] = inbox[x] \/ inbox'[x] = Append(inbox[x], s)
    BY <2>1, <2>2, SentLies
  <2>4. QED  BY <1>1, <2>2, <2>3, ReachedSame, ToldStep
<1>3. CASE RelayLooksUp(p) \/ RelayRefuses(p)
  <2>1. inbox' = inbox
    BY <1>3 DEF RelayLooksUp, RelayRefuses
  <2>2. QED  BY <1>1, <2>1, ReachedSame, ToldStep
<1>4. QED  BY <1>2, <1>3 DEF Relay

LEMMA ToldLookup ==
  ASSUME IInv, ToldInv, NEW l \in looking, Lookup(l)
  PROVE  ToldInv'
<1>1. rooms' = rooms /\ sock' = sock /\ match' = match
  BY DEF Lookup, LookupMember, LookupPeer, LookupFails, wireVars, tabVars
<1>2. PICK s, q : s = l.signal /\ q = Other(s.room, s.from)
  OBVIOUS
<1>3. /\ s \in Signal /\ q \in Peers
      /\ inbox' = inbox \/ inbox' = Sent(q, rooms[s.room].sock[q], s)
  BY <1>2, LookupReaches
<1>4. s \in Event /\ Plain(s)
  BY <1>3 DEF Event, Signal, Plain
<1>5. \A x \in Peers : inbox'[x] = inbox[x] \/ inbox'[x] = Append(inbox[x], s)
  BY <1>3, <1>4, SentLies
<1>6. QED  BY <1>1, <1>4, <1>5, ReachedSame, ToldStep

LEMMA ToldSetup ==
  ASSUME IInv, ToldInv, NEW p \in Peers, Setup(p) \/ SendCandidates(p) \/ PcFails(p)
  PROVE  ToldInv'
<1>1. rooms' = rooms /\ sock' = sock /\ inbox' = inbox /\ match' = match
  BY DEF Setup, CreatePc, SendOffer, SendAnswer, SendCandidates, PcFails, serverVars, wireVars
<1>2. QED  BY <1>1, ReachedSame, ToldStep

(* What a tab finds at the head of its inbox, as long as the room reaches it *)
LEMMA HeadTold ==
  ASSUME IInv, ToldInv, NEW p \in Peers, OnEvent(p), NEW r \in DOMAIN rooms, Reached(r, p)
  PROVE  /\ Told(r, p)'
         /\ match[p] = r => Plain(Head(inbox[p])) /\ match'[p] = r
<1>1. inbox[p] # <<>> /\ inbox' = [inbox EXCEPT ![p] = Tail(@)]
  BY DEF OnEvent, OnMatch, Ignore, OnOffer, OnAnswer, OnIce, OnLeft, Hear
<1>2. inbox'[p] = Tail(inbox[p]) /\ inbox[p] \in Seq(Event)
  BY <1>1, InboxMoves, Placed
<1>3. /\ Head(inbox[p]).kind = "match" => match'[p] = Head(inbox[p]).room
      /\ Head(inbox[p]).kind # "match" => match'[p] = match[p]
  BY DEF OnEvent, OnMatch, Ignore, OnOffer, OnAnswer, OnIce, OnLeft, Hear, IInv, TabInv
<1>4. Told(r, p)
  BY DEF ToldInv
<1>5. CASE match[p] = r /\ Quiet(inbox[p])
  <2>1. Plain(Head(inbox[p])) /\ Quiet(Tail(inbox[p]))
    BY <1>1, <1>2, <1>5, TailTold
  <2>2. QED  BY <1>2, <1>3, <1>5, <2>1 DEF Told, Plain
<1>6. CASE match[p] # r /\ Calls(inbox[p], r, p)
  <2>1. \/ Head(inbox[p]).kind = "match" /\ Head(inbox[p]).room = r /\ Quiet(Tail(inbox[p]))
        \/ (Head(inbox[p]).kind = "match" => Head(inbox[p]).room # r) /\ Calls(Tail(inbox[p]), r, p)
    BY <1>1, <1>2, <1>6, TailTold
  <2>2. QED  BY <1>2, <1>3, <1>6, <2>1 DEF Told
<1>7. QED  BY <1>4, <1>5, <1>6 DEF Told

LEMMA ToldOnEvent ==
  ASSUME IInv, ToldInv, NEW p \in Peers, OnEvent(p)
  PROVE  ToldInv'
<1>1. rooms' = rooms /\ sock' = sock /\ inbox[p] # <<>> /\ inbox' = [inbox EXCEPT ![p] = Tail(@)]
  BY DEF OnEvent, OnMatch, Ignore, OnOffer, OnAnswer, OnIce, OnLeft, Hear, serverVars
<1>2. \A x \in Peers \ {p} : inbox'[x] = inbox[x] /\ match'[x] = match[x]
  BY DEF OnEvent, OnMatch, Ignore, OnOffer, OnAnswer, OnIce, OnLeft, Hear, IInv, TabInv, InboxInv
<1>3. \A r \in DOMAIN rooms : Reached(r, p) => Told(r, p)'
  BY HeadTold
<1>4. QED  BY <1>1, <1>2, <1>3, ReachedSame, ToldStep

-----------------------------------------------------------------------------
(* How far the negotiation has come *)

LEMMA Pair ==
  ASSUME RoomsInv, NEW r \in DOMAIN rooms, NEW i, i = rooms[r].init, NEW q, q = rooms[r].resp
  PROVE  /\ i \in Peers /\ q \in Peers /\ i # q /\ Members(r) = {i, q}
         /\ Other(r, i) = q /\ Other(r, q) = i /\ r # 0
<1>1. Members(r) = {i, q} /\ i # q
  BY DEF Members, RoomsInv
<1>2. QED  BY <1>1, RoomType, OtherMember

LEMMA GoingKept ==
  ASSUME NEW i, NEW q, NEW r, Going(i, q, r),
         match'[i] = match[i], step'[i] = step[i], pc'[i] = pc[i],
         match'[q] = match[q], step'[q] = step[q], pc'[q] = pc[q],
         OnWay(Sig("offer", r, i), i, q) => OnWay(Sig("offer", r, i), i, q)',
         OnWay(Sig("answer", r, q), q, i) => OnWay(Sig("answer", r, q), q, i)'
  PROVE  Going(i, q, r)'
BY DEF Going, Answering, Sig

LEMMA StageKept ==
  ASSUME NEW i, NEW q, NEW r, Stage(i, q, r),
         match'[i] = match[i], step'[i] = step[i], pc'[i] = pc[i],
         match'[q] = match[q], step'[q] = step[q], pc'[q] = pc[q],
         OnWay(Sig("offer", r, i), i, q) => OnWay(Sig("offer", r, i), i, q)',
         OnWay(Sig("answer", r, q), q, i) => OnWay(Sig("answer", r, q), q, i)'
  PROVE  Stage(i, q, r)'
BY GoingKept DEF Stage, HungIn, Hung, Listens, Open

(* Nothing is lost where nothing is taken *)
LEMMA WayGrows ==
  ASSUME NEW s, NEW x, NEW y, OnWay(s, x, y), ToSet(uplink[x]) \subseteq ToSet(uplink'[x]),
         ToSet(inbox[y]) \subseteq ToSet(inbox'[y]), looking \subseteq looking'
  PROVE  OnWay(s, x, y)'
BY DEF OnWay

LEMMA StageMatch ==
  ASSUME IInv, StageInv, NEW p \in Peers, NEW q \in Peers, Match(p, q)
  PROVE  StageInv'
<1>1. PICK r \in Nat :
           /\ r = Len(rooms) + 1 /\ r \notin DOMAIN rooms /\ DOMAIN rooms' = DOMAIN rooms \cup {r}
           /\ rooms'[r] = [init |-> p, resp |-> q, sock |-> sock, open |-> TRUE]
           /\ r # 0
           /\ \A x \in DOMAIN rooms : rooms'[x] = rooms[x] /\ Members(x)' = Members(x)
  BY MatchMakes
<1>2. /\ sock' = sock /\ UNCHANGED <<match, step, pc, missed, uplink, looking>>
      /\ \A x \in Peers : inbox'[x] = IF x \in {p, q}
                                      THEN Append(inbox[x], [kind |-> "match", room |-> r, from |-> x])
                                      ELSE inbox[x]
  BY <1>1 DEF Match, tabVars
<1>3. Stage(p, q, r)'
  <2>1. match[p] # r
    BY <1>1, Placed DEF TabOk
  <2>2. QED  BY <1>2, <2>1 DEF Stage, Going
<1>4. ASSUME NEW y \in Peers PROVE ToSet(inbox[y]) \subseteq ToSet(inbox'[y])
  <2>1. PICK e : e = [kind |-> "match", room |-> r, from |-> y]
    OBVIOUS
  <2>2. e \in Event
    BY <2>1 DEF Event
  <2>3. ToSet(Append(inbox[y], e)) = ToSet(inbox[y]) \cup {e}
    BY <2>2, Placed, InSeq
  <2>4. inbox'[y] = inbox[y] \/ inbox'[y] = Append(inbox[y], e)
    BY <1>2, <2>1
  <2>5. QED  BY <2>3, <2>4
<1>5. ASSUME NEW x \in DOMAIN rooms \ missed, NEW i, i = rooms[x].init, NEW j, j = rooms[x].resp,
             Reached(x, i)', Reached(x, j)'
      PROVE  Stage(i, j, x)'
  <2>1. Reached(x, i) /\ Reached(x, j)
    BY <1>1, <1>2, <1>5 DEF Reached
  <2>2. i \in Peers /\ j \in Peers /\ Stage(i, j, x)
    BY <1>5, <2>1, Pair DEF StageInv, IInv
  <2>3. QED  BY <1>2, <1>4, <2>2, StageKept, WayGrows
<1>6. \A x \in DOMAIN rooms : rooms'[x].init = rooms[x].init /\ rooms'[x].resp = rooms[x].resp
  BY <1>1
<1>7. ASSUME NEW x \in DOMAIN rooms' \ missed', NEW i, i = rooms'[x].init, NEW j, j = rooms'[x].resp,
             Reached(x, i)', Reached(x, j)'
      PROVE  Stage(i, j, x)'
  <2>1. CASE x = r
    BY <1>1, <1>3, <1>7, <2>1
  <2>2. CASE x \in DOMAIN rooms \ missed
    BY <1>5, <1>6, <1>7, <2>2
  <2>3. QED  BY <1>1, <1>2, <1>7, <2>1, <2>2
<1>8. QED  BY <1>7 DEF StageInv

(* The steps after which a room is as it was *)
LEMMA StageStep ==
  ASSUME IInv, StageInv,
         \A r \in DOMAIN rooms' \ missed' : \A i, q :
           /\ i = rooms'[r].init /\ q = rooms'[r].resp /\ Reached(r, i)' /\ Reached(r, q)'
           => r \in DOMAIN rooms \ missed /\ rooms'[r] = rooms[r] /\ Reached(r, i) /\ Reached(r, q),
         \A r \in DOMAIN rooms \ missed : \A i, q :
           /\ i = rooms[r].init /\ q = rooms[r].resp /\ Reached(r, i)' /\ Reached(r, q)'
           /\ r \notin missed' /\ Reached(r, i) /\ Reached(r, q) /\ Stage(i, q, r)
           => Stage(i, q, r)'
  PROVE  StageInv'
<1>1. ASSUME NEW r \in DOMAIN rooms' \ missed', NEW i, i = rooms'[r].init, NEW q, q = rooms'[r].resp,
             Reached(r, i)', Reached(r, q)'
      PROVE  Stage(i, q, r)'
  <2>1. r \in DOMAIN rooms \ missed /\ rooms'[r] = rooms[r] /\ Reached(r, i) /\ Reached(r, q)
    BY <1>1
  <2>2. i = rooms[r].init /\ q = rooms[r].resp /\ Stage(i, q, r) /\ r \notin missed'
    BY <1>1, <2>1 DEF StageInv
  <2>3. QED  BY <1>1, <2>1, <2>2
<1>2. QED  BY <1>1 DEF StageInv

LEMMA StagePart ==
  ASSUME IInv, AddressInv, StageInv, NEW p \in Peers, Part(p) \/ Reconnect(p) \/ Vanish(p)
  PROVE  StageInv'
<1>1. missed' = missed /\ looking' = looking
  BY DEF Part, Reconnect, Vanish, tabVars
<1>2. DOMAIN rooms' = DOMAIN rooms
      /\ \A r \in DOMAIN rooms : rooms'[r].init = rooms[r].init /\ rooms'[r].resp = rooms[r].resp
  <2>1. CASE Part(p)
    BY <2>1, PartCloses
  <2>2. CASE Reconnect(p) \/ Vanish(p)
    BY <2>2 DEF Reconnect, Vanish
  <2>3. QED  BY <2>1, <2>2
<1>3. \A r \in DOMAIN rooms' : \A x \in Peers : Reached(r, x)' => Spared(r, x)
  BY PartSpares, ReconnectSpares
<1>4. ASSUME NEW x \in Peers, NEW r, Spared(r, x) PROVE ToSet(inbox[x]) \subseteq ToSet(inbox'[x])
  <2>1. \A e \in Event : ToSet(Append(inbox[x], e)) = ToSet(inbox[x]) \cup {e}
    BY Placed, InSeq
  <2>2. QED  BY <1>4, <2>1 DEF Spared
<1>5. ASSUME NEW r \in DOMAIN rooms' \ missed', NEW i, i = rooms'[r].init, NEW q, q = rooms'[r].resp,
             Reached(r, i)', Reached(r, q)'
      PROVE  Stage(i, q, r)'
  <2>1. r \in DOMAIN rooms \ missed /\ i = rooms[r].init /\ q = rooms[r].resp
    BY <1>1, <1>2, <1>5
  <2>2. i \in Peers /\ q \in Peers
    BY <2>1, Pair DEF IInv
  <2>3. Spared(r, i) /\ Spared(r, q)
    BY <1>3, <1>5, <2>2
  <2>4. Stage(i, q, r)
    BY <2>1, <2>3 DEF Spared, StageInv
  <2>5. /\ match'[i] = match[i] /\ step'[i] = step[i] /\ pc'[i] = pc[i] /\ uplink'[i] = uplink[i]
        /\ match'[q] = match[q] /\ step'[q] = step[q] /\ pc'[q] = pc[q] /\ uplink'[q] = uplink[q]
        /\ ToSet(inbox[i]) \subseteq ToSet(inbox'[i]) /\ ToSet(inbox[q]) \subseteq ToSet(inbox'[q])
    BY <1>4, <2>2, <2>3 DEF Spared
  <2>6. QED  BY <1>1, <2>4, <2>5, StageKept, WayGrows
<1>6. QED  BY <1>5 DEF StageInv

(* The relay loses no description between two tabs that the room reaches,  *)
(* unless it refuses it or Redis fails.                                    *)
LEMMA RelayCarries ==
  ASSUME IInv, AddressInv, NEW p \in Peers, Relay(p),
         NEW r \in DOMAIN rooms, NEW x \in Peers, NEW y \in Peers, Members(r) = {x, y}, x # y,
         Other(r, x) = y, Reached(r, y), NEW kind, kind # "ice", r \notin missed',
         OnWay(Sig(kind, r, x), x, y)
  PROVE  OnWay(Sig(kind, r, x), x, y)'
<1>1. PICK g : g = Sig(kind, r, x)
  OBVIOUS
<1>2. g.kind # "ice" /\ g.room = r /\ g.from = x /\ OnWay(g, x, y)
  BY <1>1 DEF Sig
<1>3. CASE RelayCached(p)
  <2>1. PICK s \in Own(p), q \in Peers :
           /\ q = Other(s.room, p) /\ s \in Signal
           /\ ToSet(uplink[p]) = {s} \cup ToSet(uplink'[p])
           /\ \A z \in Peers \ {p} : uplink'[z] = uplink[z]
           /\ inbox' = Sent(q, rooms[s.room].sock[q], s)
           /\ looking' = looking
    BY <1>3, CachedReaches
  <2>2. s \in Event
    BY <2>1 DEF Event
  <2>3. \A z \in Peers : ToSet(inbox[z]) \subseteq ToSet(inbox'[z])
    BY <2>1, <2>2, SentLies
  <2>4. CASE g = s /\ p = x
    <3>1. q = y /\ sock[q] = rooms[s.room].sock[q]
      BY <1>2, <2>1, <2>4 DEF Reached
    <3>2. ToSet(inbox'[q]) = ToSet(inbox[q]) \cup {s}
      BY <2>1, <2>2, <3>1, SentLies
    <3>3. s \in ToSet(inbox'[y])
      BY <3>1, <3>2
    <3>4. QED  BY <1>1, <2>4, <3>3 DEF OnWay, Sig
  <2>5. CASE ~(g = s /\ p = x)
    <3>1. g \in ToSet(uplink[x]) => g \in ToSet(uplink'[x])
      BY <2>1, <2>5
    <3>2. OnWay(g, x, y)'
      BY <1>2, <2>1, <2>3, <3>1 DEF OnWay
    <3>3. QED  BY <1>1, <3>2 DEF Sig
  <2>6. QED  BY <2>4, <2>5
<1>4. CASE RelayLooksUp(p)
  <2>1. PICK s \in Own(p) :
           /\ ToSet(uplink[p]) = {s} \cup ToSet(uplink'[p])
           /\ \A z \in Peers \ {p} : uplink'[z] = uplink[z]
           /\ looking \subseteq looking' /\ \E l \in looking' : l.signal = s
           /\ inbox' = inbox
    BY <1>4, LooksUp
  <2>2. OnWay(g, x, y)'
    BY <1>2, <2>1 DEF OnWay
  <2>3. QED  BY <1>1, <2>2 DEF Sig
<1>5. CASE RelayRefuses(p)
  <2>1. PICK s : s = Head(uplink[p])
    OBVIOUS
  <2>2. /\ uplink[p] # <<>> /\ uplink' = [uplink EXCEPT ![p] = Tail(@)]
        /\ inbox' = inbox /\ looking' = looking
        /\ s.kind = "ice" \/ s.room \in missed'
    BY <1>5, <2>1 DEF RelayRefuses, Lost, serverVars
  <2>3. /\ ToSet(uplink[p]) = {s} \cup ToSet(uplink'[p])
        /\ \A z \in Peers \ {p} : uplink'[z] = uplink[z]
    BY <2>1, <2>2, UplinkMoves
  <2>4. g # s
    BY <1>2, <2>2
  <2>5. OnWay(g, x, y)'
    BY <1>2, <2>2, <2>3, <2>4 DEF OnWay
  <2>6. QED  BY <1>1, <2>5 DEF Sig
<1>6. QED  BY <1>3, <1>4, <1>5 DEF Relay

LEMMA LookupCarries ==
  ASSUME IInv, NEW l \in looking, Lookup(l),
         NEW r \in DOMAIN rooms, NEW x \in Peers, NEW y \in Peers,
         Other(r, x) = y, Reached(r, y), NEW kind, kind # "ice", r \notin missed',
         OnWay(Sig(kind, r, x), x, y)
  PROVE  OnWay(Sig(kind, r, x), x, y)'
<1>1. PICK g : g = Sig(kind, r, x)
  OBVIOUS
<1>2. g.kind # "ice" /\ g.room = r /\ g.from = x /\ OnWay(g, x, y)
  BY <1>1 DEF Sig
<1>3. PICK s, q : s = l.signal /\ q = Other(s.room, s.from)
  OBVIOUS
<1>4. /\ s \in Signal /\ q \in Peers
      /\ \A m \in looking : m # l => m \in looking'
      /\ \/ /\ inbox' = inbox
            /\ \/ ~rooms[s.room].open \/ s.kind = "ice" \/ s.room \in missed'
               \/ \E m \in looking' : m.signal = s
         \/ inbox' = Sent(q, rooms[s.room].sock[q], s)
  BY <1>3, LookupReaches
<1>5. s \in Event /\ uplink' = uplink
  BY <1>4 DEF Event, Lookup, LookupMember, LookupPeer, LookupFails, wireVars
<1>6. \A z \in Peers : ToSet(inbox[z]) \subseteq ToSet(inbox'[z])
  BY <1>4, <1>5, SentLies
<1>7. CASE g = s
  <2>1. q = y /\ sock[q] = rooms[s.room].sock[q] /\ rooms[s.room].open
    BY <1>2, <1>3, <1>7 DEF Reached
  <2>2. s \in ToSet(inbox'[y]) \/ \E m \in looking' : m.signal = s
    <3>1. s.kind # "ice" /\ s.room \notin missed'
      BY <1>2, <1>7
    <3>2. CASE inbox' = Sent(q, rooms[s.room].sock[q], s)
      <4>1. ToSet(inbox'[q]) = ToSet(inbox[q]) \cup {s}
        BY <1>4, <1>5, <2>1, <3>2, SentLies
      <4>2. QED  BY <2>1, <4>1
    <3>3. QED  BY <1>4, <2>1, <3>1, <3>2
  <2>3. OnWay(g, x, y)'
    BY <1>7, <2>2 DEF OnWay
  <2>4. QED  BY <1>1, <2>3 DEF Sig
<1>8. CASE g # s
  <2>1. \A m \in looking : m.signal = g => m \in looking'
    BY <1>3, <1>4, <1>8
  <2>2. OnWay(g, x, y)'
    BY <1>2, <1>5, <1>6, <2>1 DEF OnWay
  <2>3. QED  BY <1>1, <2>2 DEF Sig
<1>9. QED  BY <1>7, <1>8

LEMMA StageRelay ==
  ASSUME IInv, AddressInv, StageInv,
         (\E p \in Peers : Relay(p)) \/ (\E l \in looking : Lookup(l))
  PROVE  StageInv'
<1>1. /\ rooms' = rooms /\ sock' = sock
      /\ match' = match /\ step' = step /\ pc' = pc /\ missed \subseteq missed'
  BY DEF Relay, RelayCached, RelayLooksUp, RelayRefuses, Lookup, LookupMember, LookupPeer, LookupFails,
         Lost, serverVars, wireVars, tabVars
<1>2. ASSUME NEW r \in DOMAIN rooms, NEW i, NEW q, i = rooms[r].init, q = rooms[r].resp,
             Reached(r, i), Reached(r, q), r \notin missed', Stage(i, q, r)
      PROVE  Stage(i, q, r)'
  <2>1. /\ i \in Peers /\ q \in Peers /\ i # q /\ Members(r) = {i, q}
        /\ Other(r, i) = q /\ Other(r, q) = i
    BY <1>2, Pair DEF IInv
  <2>2. OnWay(Sig("offer", r, i), i, q) => OnWay(Sig("offer", r, i), i, q)'
    BY <1>2, <2>1, RelayCarries, LookupCarries
  <2>3. OnWay(Sig("answer", r, q), q, i) => OnWay(Sig("answer", r, q), q, i)'
    BY <1>2, <2>1, RelayCarries, LookupCarries
  <2>4. QED  BY <1>1, <1>2, <2>2, <2>3, StageKept
<1>3. QED  BY <1>1, <1>2, ReachedSame, StageStep

(* A closed connection stays closed as long as the room reaches the tab. *)
LEMMA HungStays ==
  ASSUME IInv, ToldInv, NEW p \in Peers, Setup(p) \/ SendCandidates(p) \/ OnEvent(p) \/ PcFails(p),
         NEW r \in DOMAIN rooms, NEW x \in Peers, Reached(r, x), HungIn(x, r)
  PROVE  HungIn(x, r)'
<1>1. match[x] = r /\ step[x] \in {"answering", "listening"} /\ pc[x].room = 0
  BY DEF HungIn, Hung, Listens, Open
<1>2. CASE x # p
  <2>1. match'[x] = match[x] /\ step'[x] = step[x] /\ pc'[x] = pc[x]
    BY <1>2 DEF Setup, CreatePc, SendOffer, SendAnswer, SendCandidates, PcFails, OnEvent, OnMatch, Ignore,
                OnOffer, OnAnswer, OnIce, OnLeft, wireVars, IInv, TabInv
  <2>2. QED  BY <2>1 DEF HungIn, Hung, Listens, Open
<1>3. CASE x = p
  <2>1. pc[p] = NoPc /\ ~pc[p].local /\ pc[p].remote = {}
    BY <1>1, <1>3, Placed DEF TabOk, NoPc
  <2>2. ~Setup(p) /\ ~SendCandidates(p) /\ ~PcFails(p)
    BY <1>1, <1>3, <2>1 DEF Setup, CreatePc, IceServersReady, SendOffer, SendAnswer, SendCandidates,
                            PcFails, HasRemote, Open
  <2>3. OnEvent(p) /\ Plain(Head(inbox[p]))
    BY <1>1, <1>3, <2>2, HeadTold
  <2>4. Ignore(p) \/ OnLeft(p)
    BY <1>1, <1>3, <2>3 DEF OnEvent, OnMatch, OnOffer, OnAnswer, OnIce, Hear, Plain, Open
  <2>5. match' = match /\ step' = step
    BY <2>4 DEF Ignore, OnLeft
  <2>6. pc'[p].room = 0
    BY <1>1, <1>3, <2>4 DEF Ignore, OnLeft, NoPc, IInv, TabInv
  <2>7. QED  BY <1>1, <1>3, <2>5, <2>6 DEF HungIn, Hung, Listens, Open
<1>4. QED  BY <1>2, <1>3

(* The set-up of a tab: who offers is the initiator, who answers has an    *)
(* offer, and the answer is on its way when the step is over.              *)
LEMMA SetupStage ==
  ASSUME IInv, SidesInv, NEW p \in Peers, Setup(p) \/ SendCandidates(p),
         NEW r \in DOMAIN rooms, NEW i, i = rooms[r].init, NEW q, q = rooms[r].resp, Going(i, q, r)
  PROVE  Going(i, q, r)'
<1>1. /\ i \in Peers /\ q \in Peers /\ i # q /\ r # 0
  BY Pair DEF IInv
<1>2. /\ rooms' = rooms /\ looking' = looking /\ inbox' = inbox /\ match' = match
      /\ \A x \in Peers \ {p} : step'[x] = step[x] /\ pc'[x] = pc[x]
  BY DEF Setup, CreatePc, SendOffer, SendAnswer, SendCandidates, serverVars, wireVars, IInv, TabInv
<1>3. TabOk(p) /\ match[p] \in Nat /\ pc[p] \in PcType /\ NoPc.remote = {} /\ NoPc.room = 0 /\ ~NoPc.local
  BY Placed DEF IInv, TabInv, NoPc
<1>4. ASSUME NEW kind \in {"offer", "answer", "ice"}, Emit(p, kind), match[p] # 0
      PROVE  /\ \A x \in Peers : ToSet(uplink[x]) \subseteq ToSet(uplink'[x])
             /\ Sig(kind, match[p], p) \in ToSet(uplink'[p])
  BY <1>3, <1>4, EmitAdds DEF TabOk, Sig
<1>5. CASE CreatePc(p)
  <2>1. /\ step[p] = "fetching" /\ uplink' = uplink /\ pc[p] = NoPc
        /\ step'[p] = IF rooms[match[p]].init = p THEN "offering" ELSE "listening"
    BY <1>3, <1>5 DEF CreatePc, IceServersReady, wireVars, IInv, TabInv, TabOk
  <2>2. \A s, x, y : OnWay(s, x, y)' = OnWay(s, x, y)
    BY <1>2, <2>1 DEF OnWay
  <2>3. CASE p = i
    BY <1>2, <2>1, <2>3 DEF Going
  <2>4. CASE p # i
    <3>1. match'[i] = match[i] /\ step'[i] = step[i] /\ pc'[i] = pc[i]
      BY <1>1, <1>2, <2>4
    <3>2. Answering(i, q, r) => Answering(i, q, r)'
      BY <1>1, <1>2, <1>3, <2>1, <2>2, <3>1 DEF Answering, Sig
    <3>3. QED  BY <2>2, <3>1, <3>2 DEF Going, Sig
  <2>5. QED  BY <2>3, <2>4
<1>6. CASE SendOffer(p)
  <2>1. /\ step[p] = "offering" /\ match[p] # 0 /\ Emit(p, "offer") /\ step'[p] = "listening"
        /\ pc'[p].local /\ pc'[p].remote = pc[p].remote /\ rooms[match[p]].init = p
    BY <1>3, <1>6 DEF SendOffer, IInv, TabInv, TabOk, SidesInv, PcType
  <2>2. /\ \A x \in Peers : ToSet(uplink[x]) \subseteq ToSet(uplink'[x])
        /\ Sig("offer", match[p], p) \in ToSet(uplink'[p])
    BY <1>4, <2>1
  <2>3. \A s : \A x, y \in Peers : OnWay(s, x, y) => OnWay(s, x, y)'
    BY <1>2, <2>2, WayGrows
  <2>4. CASE p = i
    <3>1. match[i] = r => OnWay(Sig("offer", r, i), i, q)'
      BY <2>2, <2>4 DEF OnWay, Sig
    <3>2. QED  BY <1>2, <2>1, <2>4, <3>1 DEF Going, Sig
  <2>5. CASE p = q
    <3>1. match[q] # r
      BY <1>1, <2>1, <2>5
    <3>2. QED  BY <1>1, <1>2, <2>3, <2>5, <3>1 DEF Going, Answering, Sig
  <2>6. CASE p \notin {i, q}
    BY <1>1, <1>2, <2>3, <2>6, GoingKept
  <2>7. QED  BY <2>4, <2>5, <2>6
<1>7. CASE SendAnswer(p)
  <2>1. /\ step[p] = "answering" /\ match[p] # 0 /\ Emit(p, "answer") /\ step'[p] = "listening"
        /\ pc'[p].remote = pc[p].remote /\ rooms[match[p]].init # p
    BY <1>3, <1>7 DEF SendAnswer, IInv, TabInv, TabOk, SidesInv, PcType
  <2>2. /\ \A x \in Peers : ToSet(uplink[x]) \subseteq ToSet(uplink'[x])
        /\ Sig("answer", match[p], p) \in ToSet(uplink'[p])
    BY <1>4, <2>1
  <2>3. \A s : \A x, y \in Peers : OnWay(s, x, y) => OnWay(s, x, y)'
    BY <1>2, <2>2, WayGrows
  <2>4. CASE p = i
    <3>1. match[i] # r
      BY <2>1, <2>4
    <3>2. QED  BY <1>2, <3>1 DEF Going
  <2>5. CASE p = q
    <3>1. match[q] = r => OnWay(Sig("answer", r, q), q, i)'
      BY <2>2, <2>5 DEF OnWay, Sig
    <3>2. Answering(i, q, r) => Answering(i, q, r)'
      BY <1>2, <2>1, <2>5, <3>1 DEF Answering, Sig
    <3>3. match'[i] = match[i] /\ step'[i] = step[i] /\ pc'[i] = pc[i]
      BY <1>1, <1>2, <2>5
    <3>4. QED  BY <1>1, <2>3, <3>2, <3>3 DEF Going, Sig
  <2>6. CASE p \notin {i, q}
    BY <1>1, <1>2, <2>3, <2>6, GoingKept
  <2>7. QED  BY <2>4, <2>5, <2>6
<1>8. CASE SendCandidates(p)
  <2>1. pc[p].local /\ Emit(p, "ice") /\ step' = step
        /\ pc'[p].local = pc[p].local /\ pc'[p].remote = pc[p].remote
    BY <1>3, <1>8 DEF SendCandidates, IInv, TabInv, PcType
  <2>2. match[p] # 0
    BY <1>3, <2>1 DEF TabOk
  <2>3. \A x \in Peers : ToSet(uplink[x]) \subseteq ToSet(uplink'[x])
    BY <1>4, <2>1, <2>2
  <2>4. \A s : \A x, y \in Peers : OnWay(s, x, y) => OnWay(s, x, y)'
    BY <1>2, <2>3, WayGrows
  <2>5. \A x \in Peers : pc'[x].local = pc[x].local /\ pc'[x].remote = pc[x].remote
    BY <1>2, <2>1
  <2>6. QED  BY <1>1, <1>2, <2>1, <2>4, <2>5 DEF Going, Answering, Sig
<1>9. QED  BY <1>5, <1>6, <1>7, <1>8 DEF Setup

LEMMA AnswerSets ==
  ASSUME IInv, NEW p \in Peers, OnAnswer(p)
  PROVE  /\ match' = match /\ step' = step /\ step[p] \in {"answering", "listening"}
         /\ pc'[p].local = pc[p].local
         /\ pc[p].local \/ pc[p].remote # {} => pc'[p].remote # {}
<1>1. match' = match /\ step' = step /\ step[p] \in {"answering", "listening"}
  BY DEF OnAnswer, Concerns, Listens
<1>2. pc \in [Peers -> PcType]
  BY DEF IInv, TabInv
<1>3. CASE HasLocalOffer(p)
  <2>1. PICK h : h = Head(inbox[p])
    OBVIOUS
  <2>2. PICK c : c = [pc[p] EXCEPT !.remote = {h}, !.cands = pc[p].cands \cup ToSet(early[p])]
    OBVIOUS
  <2>3. c.local = pc[p].local /\ c.remote = {h}
    BY <1>2, <2>2 DEF PcType
  <2>4. pc' = [pc EXCEPT ![p] = c]
    BY <1>3, <2>1, <2>2 DEF OnAnswer
  <2>5. pc'[p] = c
    BY <1>2, <2>4
  <2>6. QED  BY <1>1, <2>3, <2>5
<1>4. CASE ~HasLocalOffer(p)
  <2>1. pc' = pc
    BY <1>4 DEF OnAnswer
  <2>2. QED  BY <1>1, <1>4, <2>1 DEF HasLocalOffer
<1>5. QED  BY <1>3, <1>4

(* What a tab hears: only an offer that comes too early is lost.           *)
(* A goodbye, or a failure, leaves the negotiation as it was or closes the *)
(* connection.                                                             *)
LEMMA CloseStage ==
  ASSUME IInv, NEW p \in Peers, OnLeft(p) \/ PcFails(p),
         NEW r \in DOMAIN rooms, NEW i, i = rooms[r].init, NEW q, q = rooms[r].resp, Going(i, q, r)
  PROVE  Stage(i, q, r)'
<1>1. i \in Peers /\ q \in Peers /\ i # q
  BY Pair DEF IInv
<1>2. /\ match' = match /\ step' = step /\ looking' = looking /\ uplink' = uplink
      /\ \A x \in Peers \ {p} : pc'[x] = pc[x]
      /\ pc'[p] = pc[p] \/ (Listens(p) /\ pc'[p].room = 0)
  <2>1. NoPc.room = 0
    BY DEF NoPc
  <2>2. CASE OnLeft(p)
    BY <2>1, <2>2 DEF OnLeft, Hear, serverVars, IInv, TabInv
  <2>3. CASE PcFails(p)
    BY <2>1, <2>3, RemoteListens DEF PcFails, HasRemote, serverVars, wireVars, IInv, TabInv
  <2>4. QED  BY <2>2, <2>3
<1>3. \A y \in Peers : \A s : s \in ToSet(inbox[y]) /\ s.kind # "left" => s \in ToSet(inbox'[y])
  <2>1. CASE OnLeft(p)
    <3>1. inbox[p] # <<>> /\ Head(inbox[p]).kind = "left" /\ inbox' = [inbox EXCEPT ![p] = Tail(@)]
      BY <2>1 DEF OnLeft, Hear
    <3>2. QED  BY <3>1, InboxMoves
  <2>2. CASE PcFails(p)
    BY <2>2 DEF PcFails, wireVars
  <2>3. QED  BY <2>1, <2>2
<1>4. \A y \in Peers : \A s, x : s.kind # "left" /\ OnWay(s, x, y) => OnWay(s, x, y)'
  BY <1>2, <1>3 DEF OnWay
<1>5. /\ OnWay(Sig("offer", r, i), i, q) => OnWay(Sig("offer", r, i), i, q)'
      /\ OnWay(Sig("answer", r, q), q, i) => OnWay(Sig("answer", r, q), q, i)'
  BY <1>1, <1>4 DEF Sig
<1>6. ASSUME pc'[i] = pc[i], pc'[q] = pc[q] PROVE Stage(i, q, r)'
  <2>1. Going(i, q, r)'
    BY <1>2, <1>5, <1>6, GoingKept
  <2>2. QED  BY <2>1 DEF Stage
<1>7. ASSUME p \in {i, q}, Listens(p), pc'[p].room = 0 PROVE Stage(i, q, r)'
  <2>1. CASE match[p] = r
    BY <1>2, <1>7, <2>1 DEF Stage, HungIn, Hung, Listens, Open
  <2>2. CASE match[p] # r /\ p = i
    BY <1>2, <2>2 DEF Stage, Going
  <2>3. CASE match[p] # r /\ p = q
    <3>1. pc'[i] = pc[i] /\ ~Answering(i, q, r)
      BY <1>1, <1>2, <2>3 DEF Answering
    <3>2. Going(i, q, r)'
      BY <1>2, <1>5, <3>1 DEF Going, Sig
    <3>3. QED  BY <3>2 DEF Stage
  <2>4. QED  BY <1>7, <2>1, <2>2, <2>3
<1>8. QED  BY <1>1, <1>2, <1>6, <1>7

LEMMA EventStage ==
  ASSUME IInv, SidesInv, ToldInv, NEW p \in Peers, OnEvent(p), ~OnLeft(p),
         NEW r \in DOMAIN rooms, NEW i, i = rooms[r].init, NEW q, q = rooms[r].resp, Going(i, q, r),
         Reached(r, i), Reached(r, q), r \notin missed'
  PROVE  Going(i, q, r)'
<1>1. /\ i \in Peers /\ q \in Peers /\ i # q /\ r # 0 /\ Members(r) = {i, q}
  BY Pair DEF IInv
<1>2. PICK h : h = Head(inbox[p])
  OBVIOUS
<1>3. /\ rooms' = rooms /\ looking' = looking /\ uplink' = uplink
      /\ inbox[p] # <<>> /\ inbox' = [inbox EXCEPT ![p] = Tail(@)]
      /\ \A x \in Peers \ {p} : match'[x] = match[x] /\ step'[x] = step[x] /\ pc'[x] = pc[x]
  BY DEF OnEvent, OnMatch, Ignore, OnOffer, OnAnswer, OnIce, OnLeft, Hear, serverVars, IInv, TabInv
<1>4. /\ ToSet(inbox[p]) = {h} \cup ToSet(inbox'[p])
      /\ \A x \in Peers \ {p} : inbox'[x] = inbox[x]
      /\ h \in Bound(p) /\ ByInit(h)
  BY <1>2, <1>3, InboxMoves DEF SidesInv
<1>5. TabOk(p) /\ pc[p] \in PcType /\ NoPc.remote = {} /\ NoPc.room = 0 /\ ~NoPc.local
  BY Placed DEF NoPc
<1>6. \A s, x : \A y \in Peers : OnWay(s, x, y) /\ (y = p => s # h) => OnWay(s, x, y)'
  BY <1>3, <1>4 DEF OnWay
<1>7. p \in {i, q} /\ match[p] = r => Plain(h) /\ match'[p] = r
  BY <1>1, <1>2, HeadTold
<1>8. CASE p \notin {i, q}
  BY <1>1, <1>3, <1>6, <1>8, GoingKept
<1>9. CASE p = i
  <2>1. h # Sig("offer", r, i)
    BY <1>4, <1>9 DEF Bound, Sig
  <2>2. match'[q] = match[q] /\ step'[q] = step[q] /\ pc'[q] = pc[q]
    BY <1>1, <1>3, <1>9
  <2>3. OnWay(Sig("offer", r, i), i, q) => OnWay(Sig("offer", r, i), i, q)'
    BY <1>1, <1>6, <1>9
  <2>4. CASE match[i] # r
    <3>1. CASE OnMatch(p)
      <4>1. step'[i] = "fetching"
        BY <1>9, <3>1 DEF OnMatch, IInv, TabInv
      <4>2. QED  BY <4>1 DEF Going
    <3>2. CASE ~OnMatch(p)
      <4>1. match' = match
        BY <3>2 DEF OnEvent, Ignore, OnOffer, OnAnswer, OnIce
      <4>2. QED  BY <2>4, <4>1 DEF Going
    <3>3. QED  BY <3>1, <3>2
  <2>5. CASE match[i] = r
    <3>1. Plain(h) /\ match'[i] = r
      BY <1>7, <1>9, <2>5
    <3>2. ~OnMatch(p)
      BY <1>2, <3>1 DEF Plain, OnMatch, Hear
    <3>3. CASE Ignore(p)
      <4>1. match' = match /\ step' = step /\ pc' = pc
        BY <3>3 DEF Ignore
      <4>2. CASE step[i] = "listening" /\ pc[i].local /\ Answering(i, q, r)
        <5>1. Open(p) /\ Listens(p)
          BY <1>5, <1>9, <4>2 DEF TabOk, Open, Listens
        <5>2. h.room # r
          BY <1>2, <1>9, <2>5, <3>3, <5>1 DEF Ignore, Concerns
        <5>3. h # Sig("answer", r, q)
          BY <5>2 DEF Sig
        <5>4. QED  BY <1>1, <1>6, <2>2, <2>3, <4>1, <5>3, <4>2 DEF Going, Answering, Sig
      <4>3. CASE ~(step[i] = "listening" /\ pc[i].local /\ Answering(i, q, r))
        BY <2>3, <4>1, <4>3 DEF Going, Sig
      <4>4. QED  BY <4>2, <4>3
    <3>4. CASE OnOffer(p)
      <4>1. h.kind = "offer" /\ h.room = r
        BY <1>2, <1>9, <2>5, <3>4 DEF OnOffer, Hear, Concerns
      <4>2. QED  BY <1>4, <1>9, <4>1 DEF ByInit, Bound
    <3>5. CASE OnAnswer(p)
      <4>1. /\ match' = match /\ step' = step /\ step[i] \in {"answering", "listening"}
            /\ pc'[i].local = pc[i].local
            /\ pc[i].local => pc'[i].remote # {}
        BY <1>9, <3>5, AnswerSets
      <4>2. QED  BY <2>2, <2>3, <2>5, <4>1 DEF Going, Answering, Sig
    <3>6. CASE OnIce(p)
      <4>1. /\ match' = match /\ step' = step /\ h.kind = "ice"
            /\ pc'[i].local = pc[i].local /\ pc'[i].remote = pc[i].remote
        BY <1>2, <1>5, <1>9, <3>6 DEF OnIce, Hear, IInv, TabInv, PcType
      <4>2. h # Sig("answer", r, q)
        BY <4>1 DEF Sig
      <4>3. OnWay(Sig("answer", r, q), q, i) => OnWay(Sig("answer", r, q), q, i)'
        BY <1>1, <1>6, <4>2
      <4>4. QED  BY <2>2, <2>3, <4>1, <4>3 DEF Going, Answering, Sig
    <3>7. QED  BY <3>2, <3>3, <3>4, <3>5, <3>6 DEF OnEvent
  <2>6. QED  BY <2>4, <2>5
<1>10. CASE p = q
  <2>1. match'[i] = match[i] /\ step'[i] = step[i] /\ pc'[i] = pc[i]
    BY <1>1, <1>3, <1>10
  <2>2. OnWay(Sig("answer", r, q), q, i) => OnWay(Sig("answer", r, q), q, i)'
    BY <1>1, <1>6, <1>10
  <2>3. h # Sig("offer", r, i) => (OnWay(Sig("offer", r, i), i, q) => OnWay(Sig("offer", r, i), i, q)')
    BY <1>1, <1>6
  <2>4. CASE match[q] # r
    <3>1. ~Answering(i, q, r)
      BY <2>4 DEF Answering
    <3>2. h # Sig("offer", r, i)
      <4>1. SUFFICES ASSUME h = Sig("offer", r, i) PROVE FALSE
        OBVIOUS
      <4>2. h.kind = "offer" /\ h.room = r
        BY <4>1 DEF Sig
      <4>3. Ignore(p)
        <5>1. ~OnOffer(p)
          BY <1>2, <1>10, <2>4, <4>2 DEF OnOffer, Concerns
        <5>2. QED  BY <1>2, <4>2, <5>1 DEF OnEvent, OnMatch, OnAnswer, OnIce, OnLeft, Hear
      <4>4. r \in missed'
        BY <1>2, <4>2, <4>3 DEF Ignore, Hear
      <4>5. QED  BY <4>4
    <3>3. QED  BY <2>1, <2>3, <3>1, <3>2 DEF Going, Sig
  <2>5. CASE match[q] = r
    <3>1. Plain(h) /\ match'[q] = r
      BY <1>7, <1>10, <2>5
    <3>2. ~OnMatch(p)
      BY <1>2, <3>1 DEF Plain, OnMatch, Hear
    <3>3. CASE OnOffer(p)
      <4>1. step'[q] = "answering" /\ pc'[q].remote # {}
        BY <1>5, <1>10, <3>3 DEF OnOffer, IInv, TabInv, PcType
      <4>2. Answering(i, q, r)'
        BY <3>1, <4>1 DEF Answering
      <4>3. QED  BY <2>1, <4>2 DEF Going
    <3>4. CASE ~OnOffer(p)
      <4>1. step'[q] = step[q] /\ (pc[q].remote # {} => pc'[q].remote # {})
        <5>1. CASE OnAnswer(p)
          BY <1>10, <5>1, AnswerSets
        <5>2. CASE Ignore(p)
          BY <5>2 DEF Ignore
        <5>3. CASE OnIce(p)
          <6>1. step' = step /\ (pc' = pc \/ pc' = [pc EXCEPT ![p].cands = @ \cup {h}])
            BY <1>2, <5>3 DEF OnIce
          <6>2. pc'[p].remote = pc[p].remote
            BY <1>5, <6>1 DEF IInv, TabInv, PcType
          <6>3. QED  BY <1>10, <6>1, <6>2
        <5>4. QED  BY <3>2, <3>4, <5>1, <5>2, <5>3 DEF OnEvent
      <4>2. h # Sig("offer", r, i)
        <5>1. SUFFICES ASSUME h = Sig("offer", r, i) PROVE FALSE
          OBVIOUS
        <5>2. h.kind = "offer" /\ h.room = r
          BY <5>1 DEF Sig
        <5>3. Ignore(p)
          BY <1>2, <3>2, <3>4, <5>2 DEF OnEvent, OnAnswer, OnIce, Hear
        <5>4. r \in missed'
          BY <1>2, <5>2, <5>3 DEF Ignore, Hear
        <5>5. QED  BY <5>4
      <4>3. QED  BY <2>1, <2>2, <2>3, <3>1, <4>1, <4>2 DEF Going, Answering, Sig
    <3>5. QED  BY <3>3, <3>4
  <2>6. QED  BY <2>4, <2>5
<1>11. QED  BY <1>8, <1>9, <1>10

LEMMA StageTab ==
  ASSUME IInv, SidesInv, ToldInv, StageInv, NEW p \in Peers,
         Setup(p) \/ SendCandidates(p) \/ OnEvent(p) \/ PcFails(p)
  PROVE  StageInv'
<1>1. rooms' = rooms /\ sock' = sock /\ missed \subseteq missed'
  BY DEF Setup, CreatePc, SendOffer, SendAnswer, SendCandidates, PcFails, OnEvent, OnMatch, Ignore, OnOffer,
         OnAnswer, OnIce, OnLeft, Hear, serverVars, wireVars
<1>2. ASSUME NEW r \in DOMAIN rooms, NEW i, NEW q, i = rooms[r].init, q = rooms[r].resp,
             Reached(r, i), Reached(r, q), r \notin missed', Stage(i, q, r)
      PROVE  Stage(i, q, r)'
  <2>1. i \in Peers /\ q \in Peers
    BY <1>2, Pair DEF IInv
  <2>2. CASE HungIn(i, r) \/ HungIn(q, r)
    BY <1>2, <2>1, <2>2, HungStays DEF Stage
  <2>3. CASE Going(i, q, r)
    BY <1>2, <2>3, SetupStage, EventStage, CloseStage DEF Stage
  <2>4. QED  BY <1>2, <2>2, <2>3 DEF Stage
<1>3. QED  BY <1>1, <1>2, ReachedSame, StageStep

LEMMA InitGInv == Init => GInv
<1> SUFFICES ASSUME Init PROVE GInv
  OBVIOUS
<1>1. rooms = <<>> /\ DOMAIN rooms = {}
  BY DEF Init
<1>2. AddressInv
  BY <1>1 DEF Init, AddressInv
<1>3. SidesInv
  BY DEF Init, SidesInv, ToSet
<1>4. ToldInv /\ StageInv
  BY <1>1 DEF ToldInv, StageInv
<1>5. QED  BY <1>2, <1>3, <1>4 DEF GInv

LEMMA NextGInv == IInv /\ GInv /\ [Next]_vars => GInv'
<1> SUFFICES ASSUME IInv, GInv, [Next]_vars PROVE GInv'
  OBVIOUS
<1> USE DEF GInv
<1>1. CASE UNCHANGED vars
  <2>1. UNCHANGED <<rooms, cache, stored, engaged, looking, sock, uplink, inbox, match, step, pc, missed>>
    BY <1>1 DEF vars, serverVars, wireVars, tabVars
  <2>2. AddressInv'
    BY <2>1, AddressKept
  <2>3. SidesInv'
    BY <2>1 DEF SidesInv, ByInit
  <2>4. ToldInv'
    BY <2>1, ReachedSame, ToldStep
  <2>5. StageInv'
    <3>1. \A s, x, y : OnWay(s, x, y)' = OnWay(s, x, y)
      BY <2>1 DEF OnWay
    <3>2. \A i, q, r : Stage(i, q, r) => Stage(i, q, r)'
      BY <2>1, <3>1 DEF Stage, Going, HungIn, Hung, Listens, Open, Answering, Sig
    <3>3. QED  BY <2>1, <3>2, ReachedSame, StageStep
  <2>6. QED  BY <2>2, <2>3, <2>4, <2>5
<1>2. ASSUME NEW p \in Peers, NEW q \in Peers, Match(p, q) PROVE GInv'
  BY <1>2, AddressMatch, SidesMatch, ToldMatch, StageMatch
<1>3. ASSUME NEW p \in Peers, Part(p) PROVE GInv'
  BY <1>3, AddressPart, SidesPart, ToldPart, StagePart
<1>4. ASSUME NEW p \in Peers, Reconnect(p) \/ Vanish(p) PROVE GInv'
  BY <1>4, AddressReconnect, SidesReconnect, SidesVanish, ToldPart, StagePart
<1>5. ASSUME NEW p \in Peers, Relay(p) PROVE GInv'
  <2>1. UNCHANGED <<rooms, sock, stored, engaged, cache>>
    BY <1>5 DEF Relay, RelayCached, RelayLooksUp, RelayRefuses, serverVars
  <2>2. QED  BY <1>5, <2>1, AddressKept, SidesRelay, ToldRelay, StageRelay
<1>6. ASSUME NEW l \in looking, Lookup(l) PROVE GInv'
  <2>1. UNCHANGED <<rooms, sock, stored, engaged, cache>>
    BY <1>6 DEF Lookup, LookupMember, LookupPeer, LookupFails, wireVars
  <2>2. QED  BY <1>6, <2>1, AddressKept, SidesLookup, ToldLookup, StageRelay
<1>7. ASSUME NEW p \in Peers, Setup(p) \/ SendCandidates(p) \/ PcFails(p) PROVE GInv'
  <2>1. UNCHANGED <<rooms, sock, stored, engaged, cache>>
    BY <1>7 DEF Setup, CreatePc, SendOffer, SendAnswer, SendCandidates, PcFails, serverVars, wireVars
  <2>2. SidesInv'
    BY <1>7, SidesSetup, SidesFails
  <2>3. QED  BY <1>7, <2>1, <2>2, AddressKept, ToldSetup, StageTab
<1>8. ASSUME NEW p \in Peers, OnEvent(p) PROVE GInv'
  <2>1. UNCHANGED <<rooms, sock, stored, engaged, cache>>
    BY <1>8 DEF OnEvent, OnMatch, Ignore, OnOffer, OnAnswer, OnIce, OnLeft, Hear, serverVars
  <2>2. QED  BY <1>8, <2>1, AddressKept, SidesOnEvent, ToldOnEvent, StageTab
<1>9. QED  BY <1>1, <1>2, <1>3, <1>4, <1>5, <1>6, <1>7, <1>8 DEF Next

(* Two linked tabs are never stuck half-way as long as none of their       *)
(* descriptions was refused or came unheard and neither connection was     *)
(* closed: whatever is cached, whatever is left over from earlier rooms,   *)
(* however matches follow each other and connections are replaced, the     *)
(* offer or the answer is due or on its way, or both sides have the        *)
(* other's description.                                                    *)
THEOREM NegotiationProceeds == Spec => []NegotiationGoesOn
<1>1. ASSUME IInv, GInv PROVE NegotiationGoesOn
  <2>1. SUFFICES ASSUME NEW r \in DOMAIN rooms \ missed, Linked(r)
                 PROVE  \/ \A p \in Members(r) : HasRemote(p)
                        \/ \E p \in Members(r) : Hung(p)
                        \/ step[rooms[r].init] \in {"fetching", "offering"} \/ Travels(Offer(r))
                        \/ step[rooms[r].resp] = "answering"
                        \/ Travels(Answer(r))
    BY DEF NegotiationGoesOn
  <2>2. PICK i, q : i = rooms[r].init /\ q = rooms[r].resp
    OBVIOUS
  <2>3. /\ i \in Peers /\ q \in Peers /\ Members(r) = {i, q}
        /\ Other(r, i) = q /\ Other(r, q) = i
    BY <1>1, <2>1, <2>2, Pair DEF IInv
  <2>4. match[i] = r /\ match[q] = r /\ Reached(r, i) /\ Reached(r, q)
    BY <2>1, <2>3 DEF Linked, Reached
  <2>5. Stage(i, q, r)
    BY <1>1, <2>1, <2>2, <2>4 DEF GInv, StageInv
  <2>6. Offer(r) = Sig("offer", r, i) /\ Answer(r) = Sig("answer", r, q)
    BY <2>2 DEF Offer, Answer, Sig
  <2>7. OnWay(Sig("offer", r, i), i, q) => Travels(Offer(r))
    BY <2>3, <2>6 DEF OnWay, Travels, Sig
  <2>8. OnWay(Sig("answer", r, q), q, i) => Travels(Answer(r))
    BY <2>3, <2>6 DEF OnWay, Travels, Sig
  <2>9. QED  BY <2>2, <2>3, <2>4, <2>5, <2>7, <2>8 DEF Stage, HungIn, Going, Answering, HasRemote
<1>2. QED  BY <1>1, Invariance, InitGInv, NextGInv, PTL DEF Spec
=============================================================================
