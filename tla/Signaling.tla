------------------------------- MODULE Signaling -------------------------------
(***************************************************************************)
(* How two matched tabs negotiate their peer connection: the set-up of     *)
(* hooks/useWebRTC.ts on either side and the relay of                      *)
(* sockets/signaling.handler.ts between them, with the address it caches   *)
(* in socket.data (sockets/connection.handler.ts).                         *)
(*                                                                         *)
(* Grain: one await of the set-up, one event, one relay step.  A socket is *)
(* the number of its connection: what is sent to an earlier one is lost.   *)
(* Matching, parting and reconnecting are the environment: whoever skips   *)
(* or leaves says goodbye to the partner of its last match, of a room long *)
(* closed too, and a tab takes a goodbye for its present partner's.        *)
(***************************************************************************)
EXTENDS Naturals, Sequences, FiniteSets, SequencesExt

CONSTANTS
  Peers,
  Rounds,        \* bound: of each match in turn, the pairs it may join, initiator first
  Roaming,       \* the peers whose connection may be replaced or given up
  MaxReconnects, \* bound: new connections of each after the first
  Gathering,     \* bound: each peer and room of which candidates are followed
  Unlucky        \* bound: the peers whose signals may be refused, whose connections may fail

ASSUME BoundsAssumption == MaxReconnects \in Nat /\ Rounds \in Seq(SUBSET (Peers \X Peers))
ASSUME PeersAssumption == Roaming \cup Unlucky \subseteq Peers /\ Gathering \subseteq Peers \X Nat

VARIABLES
  (* server *)
  rooms,    \* every room; its index is the room id
  cache,    \* activeRoomId and peerSocketId of the current socket's data
  stored,   \* roomId of the session, never cleared, or 0
  engaged,  \* the peers whose session has the status matched
  looking,  \* signals whose handler awaits Redis
  (* connections *)
  sock,     \* the current socket of each tab
  uplink,   \* signals on their way to the server
  inbox,    \* events on their way to the tab
  (* tabs *)
  match,    \* matchInfo.roomId, or 0
  step,     \* how far setupPeerConnection has come for it
  pc,       \* the peer connection: what it negotiates with whom
  early,    \* iceCandidateQueue
  missed    \* rooms with a description that was refused, or came unheard

serverVars == <<rooms, cache, stored, engaged, looking>>
wireVars   == <<sock, uplink, inbox>>
tabVars    == <<match, step, pc, early, missed>>
vars       == <<serverVars, wireVars, tabVars>>

Room   == [init : Peers, resp : Peers, sock : [Peers -> Nat], open : BOOLEAN]
Signal == [kind : {"offer", "answer", "ice"}, room : Nat, from : Peers]
Event  == Signal \cup [kind : {"match", "left"}, room : Nat, from : Peers]

(* remote: the signals whose description was set; cands: those whose       *)
(* candidates were added; gathered: its own candidates are out.            *)
NoPc == [room |-> 0, local |-> FALSE, remote |-> {}, cands |-> {}, gathered |-> FALSE]

TypeOK ==
  /\ rooms \in Seq(Room)
  /\ \A p \in Peers :
       /\ cache[p] \in [room : 0..Len(rooms), peer : Nat]
       /\ {stored[p], match[p], pc[p].room} \subseteq 0..Len(rooms)
       /\ sock[p] \in 1..MaxReconnects + 1
       /\ uplink[p] \in Seq(Signal) /\ inbox[p] \in Seq(Event)
       /\ step[p] \in {"none", "fetching", "offering", "answering", "listening"}
       /\ \A s \in pc[p].remote : s \in Signal /\ s.kind # "ice"
       /\ \A s \in pc[p].cands \cup ToSet(early[p]) : s \in Signal /\ s.kind = "ice"
  /\ looking \subseteq [signal : Signal, known : BOOLEAN]
  /\ missed \subseteq DOMAIN rooms /\ engaged \subseteq {p \in Peers : stored[p] # 0}

Init ==
  /\ rooms = <<>>
  /\ cache = [p \in Peers |-> [room |-> 0, peer |-> 0]]
  /\ stored = [p \in Peers |-> 0]
  /\ engaged = {}
  /\ looking = {}
  /\ sock = [p \in Peers |-> 1]
  /\ uplink = [p \in Peers |-> <<>>]
  /\ inbox = [p \in Peers |-> <<>>]
  /\ match = [p \in Peers |-> 0]
  /\ step = [p \in Peers |-> "none"]
  /\ pc = [p \in Peers |-> NoPc]
  /\ early = [p \in Peers |-> <<>>]
  /\ missed = {}

Members(r)  == {rooms[r].init, rooms[r].resp}
Other(r, p) == CHOOSE q \in Members(r) : q # p

(* socket.to(id).emit: heard on that very socket only *)
Sent(p, socket, event) ==
  [inbox EXCEPT ![p] = IF sock[p] = socket THEN Append(@, event) ELSE @]

-----------------------------------------------------------------------------
(* Matches come and go *)

(* join_queue refuses a session that is in a room which still exists. *)
Busy(p) == p \in engaged /\ rooms[stored[p]].open

(* The relay of the match event: both tabs are told, and both sockets      *)
(* remember the room and the socket that the room holds for the other.     *)
Match(p, q) ==
  LET r == Len(rooms) + 1
  IN /\ p # q /\ ~Busy(p) /\ ~Busy(q)
     /\ r \in DOMAIN Rounds /\ <<p, q>> \in Rounds[r]
     /\ rooms' = Append(rooms, [init |-> p, resp |-> q, sock |-> sock, open |-> TRUE])
     /\ cache' = [cache EXCEPT ![p] = [room |-> r, peer |-> sock[q]],
                               ![q] = [room |-> r, peer |-> sock[p]]]
     /\ stored' = [stored EXCEPT ![p] = r, ![q] = r]
     /\ engaged' = engaged \cup {p, q}
     /\ inbox' = [x \in Peers |->
                    IF x \in {p, q}
                    THEN Append(inbox[x], [kind |-> "match", room |-> r, from |-> x])
                    ELSE inbox[x]]
     /\ UNCHANGED <<looking, sock, uplink, tabVars>>

(* The tab forgets the room: the effect is cleaned up. *)
TornDown(p) ==
  /\ match' = [match EXCEPT ![p] = 0]
  /\ step' = [step EXCEPT ![p] = "none"]
  /\ pc' = [pc EXCEPT ![p] = NoPc]
  /\ early' = [early EXCEPT ![p] = <<>>]

Goodbye(p) == [kind |-> "left", room |-> stored[p], from |-> p]

(* PEER_LEFT or PEER_NEXT, to the socket that p's partner had at the match *)
GoodbyeSent(p) ==
  LET q == Other(stored[p], p) IN Sent(q, rooms[stored[p]].sock[q], Goodbye(p))

(* bound: of the goodbyes for a closed room one waits at a time *)
Unspoken(p) == Goodbye(p) \notin ToSet(inbox[Other(stored[p], p)])

(* p skips or leaves: what its session stores is acted on whether or not   *)
(* that room is open, and stays.  Neither side's socket.data is cleared.   *)
Part(p) ==
  /\ stored[p] # 0
  /\ rooms[stored[p]].open \/ Unspoken(p)
  /\ rooms' = [rooms EXCEPT ![stored[p]].open = FALSE]
  /\ engaged' = engaged \ {p}
  /\ inbox' = GoodbyeSent(p)
  /\ TornDown(p)
  /\ UNCHANGED <<stored, cache, looking, sock, uplink, missed>>

NewSocket(p) ==
  /\ p \in Roaming /\ sock[p] <= MaxReconnects
  /\ sock' = [sock EXCEPT ![p] = @ + 1]
  /\ uplink' = [uplink EXCEPT ![p] = <<>>]

NoAddress == [room |-> 0, peer |-> 0]

(* A new socket: what was under way on the old one is lost.  Recovery      *)
(* takes the room from a matched session, unless Redis fails it.           *)
Reconnect(p) ==
  LET r == stored[p]
  IN /\ NewSocket(p)
     /\ inbox' = [inbox EXCEPT ![p] = <<>>]
     /\ \E recovered \in BOOLEAN :
          cache' = [cache EXCEPT ![p] =
                      IF recovered /\ p \in engaged
                      THEN [room |-> r, peer |-> rooms[r].sock[Other(r, p)]]
                      ELSE NoAddress]
     /\ UNCHANGED <<rooms, stored, engaged, looking, tabVars>>

(* No new socket within the grace period: the partner is told, the session *)
(* destroyed, the room left open.  Whoever opens the page again is a new   *)
(* session.                                                                *)
Vanish(p) ==
  /\ p \in engaged
  /\ NewSocket(p)
  /\ inbox' = [GoodbyeSent(p) EXCEPT ![p] = <<>>]
  /\ cache' = [cache EXCEPT ![p] = NoAddress]
  /\ stored' = [stored EXCEPT ![p] = 0]
  /\ engaged' = engaged \ {p}
  /\ TornDown(p)
  /\ UNCHANGED <<rooms, looking, missed>>

-----------------------------------------------------------------------------
(* The relay *)

Deliver(signal) ==
  LET q == Other(signal.room, signal.from)
  IN inbox' = Sent(q, rooms[signal.room].sock[q], signal)

Cached(p, signal) == cache[p].room = signal.room

(* What becomes of it for good: the tab sends no description twice. *)
Lost(signal) ==
  missed' = IF signal.kind = "ice" THEN missed ELSE missed \cup {signal.room}

(* It is larger than SDP_MAX_BYTES or ICE_CANDIDATE_MAX_BYTES allows. *)
RelayRefuses(p) ==
  /\ p \in Unlucky /\ uplink[p] # <<>>
  /\ uplink' = [uplink EXCEPT ![p] = Tail(@)]
  /\ Lost(Head(uplink[p]))
  /\ UNCHANGED <<serverVars, sock, inbox, match, step, pc, early>>

(* The address in socket.data is trusted for the room it was stored for,   *)
(* whether or not that room still exists.                                  *)
RelayCached(p) ==
  /\ uplink[p] # <<>>
  /\ Cached(p, Head(uplink[p]))
  /\ uplink' = [uplink EXCEPT ![p] = Tail(@)]
  /\ inbox' = [q \in Peers |->
                 IF q = Other(cache[p].room, p) /\ sock[q] = cache[p].peer
                 THEN Append(inbox[q], Head(uplink[p])) ELSE inbox[q]]
  /\ UNCHANGED <<serverVars, sock, tabVars>>

(* Otherwise Redis is asked, twice for a description, once for a candidate, *)
(* which may overtake it.                                                  *)
RelayLooksUp(p) ==
  /\ uplink[p] # <<>>
  /\ ~Cached(p, Head(uplink[p]))
  /\ uplink' = [uplink EXCEPT ![p] = Tail(@)]
  /\ looking' = looking \cup {[signal |-> Head(uplink[p]),
                               known  |-> Head(uplink[p]).kind = "ice"]}
  /\ UNCHANGED <<rooms, cache, stored, engaged, sock, inbox, tabVars>>

LookupMember(l) ==
  /\ ~l.known
  /\ looking' = (looking \ {l}) \cup
                  (IF rooms[l.signal.room].open THEN {[l EXCEPT !.known = TRUE]} ELSE {})
  /\ UNCHANGED <<rooms, cache, stored, engaged, wireVars, tabVars>>

LookupPeer(l) ==
  /\ l.known
  /\ looking' = looking \ {l}
  /\ IF rooms[l.signal.room].open THEN Deliver(l.signal) ELSE UNCHANGED inbox
  /\ UNCHANGED <<rooms, cache, stored, engaged, sock, uplink, tabVars>>

LookupFails(l) ==
  /\ l.signal.from \in Unlucky
  /\ looking' = looking \ {l}
  /\ Lost(l.signal)
  /\ UNCHANGED <<rooms, cache, stored, engaged, wireVars, match, step, pc, early>>

-----------------------------------------------------------------------------
(* The set-up in the tab *)

Emit(p, kind) ==
  uplink' = [uplink EXCEPT ![p] = Append(@, [kind |-> kind, room |-> match[p], from |-> p])]

(* MATCH_FOUND: the effect of the room before is cleaned up, the set-up of *)
(* the new one begins by fetching ICE servers and, if need be, media.      *)
OnMatch(p) ==
  /\ inbox[p] # <<>> /\ Head(inbox[p]).kind = "match"
  /\ inbox' = [inbox EXCEPT ![p] = Tail(@)]
  /\ match' = [match EXCEPT ![p] = Head(inbox[p]).room]
  /\ step' = [step EXCEPT ![p] = "fetching"]
  /\ pc' = [pc EXCEPT ![p] = NoPc]
  /\ early' = [early EXCEPT ![p] = <<>>]
  /\ UNCHANGED <<serverVars, sock, uplink, missed>>

(* mutant: a session that is recovered on a new socket gets no answer *)
FirstSocketOnly(p) == step[p] = "fetching" /\ sock[p] = 1

(* getIceServers answers from its cache, from the server - after one       *)
(* recovery of the session - or with its defaults: it never throws.        *)
IceServersReady(p) == step[p] = "fetching"

(* The responder listens at once, the initiator once its offer is out. *)
CreatePc(p) ==
  /\ IceServersReady(p)
  /\ pc' = [pc EXCEPT ![p] = [NoPc EXCEPT !.room = match[p]]]
  /\ step' = [step EXCEPT ![p] =
                IF rooms[match[p]].init = p THEN "offering" ELSE "listening"]
  /\ UNCHANGED <<serverVars, wireVars, match, early, missed>>

SendOffer(p) ==
  /\ step[p] = "offering"
  /\ pc' = [pc EXCEPT ![p].local = TRUE]
  /\ step' = [step EXCEPT ![p] = "listening"]
  /\ Emit(p, "offer")
  /\ UNCHANGED <<serverVars, sock, inbox, match, early, missed>>

(* onicecandidate, one for all *)
SendCandidates(p) ==
  /\ <<p, match[p]>> \in Gathering /\ pc[p].local /\ ~pc[p].gathered
  /\ pc' = [pc EXCEPT ![p].gathered = TRUE]
  /\ Emit(p, "ice")
  /\ UNCHANGED <<serverVars, sock, inbox, match, step, early, missed>>

Listens(p) == step[p] \in {"answering", "listening"}

AnySignal(p, signal) == Listens(p)     \* mutant: the room is not compared

Concerns(p, signal) == Listens(p) /\ signal.room = match[p]

(* mutant: a listener is attached to the wrong event *)
HearAny(p, kind) ==
  /\ inbox[p] # <<>> /\ Head(inbox[p]).kind \in {"offer", "answer", "ice"}
  /\ inbox' = [inbox EXCEPT ![p] = Tail(@)]
  /\ UNCHANGED <<serverVars, sock>>

Hear(p, kind) ==
  /\ inbox[p] # <<>> /\ Head(inbox[p]).kind = kind
  /\ inbox' = [inbox EXCEPT ![p] = Tail(@)]
  /\ UNCHANGED <<serverVars, sock>>

Open(p) == pc[p].room # 0

(* What nobody listens to, what names another room and what comes for a    *)
(* connection that was closed goes by.                                     *)
Ignore(p) ==
  /\ \E kind \in {"offer", "answer", "ice"} :
       /\ Hear(p, kind)
       /\ ~Concerns(p, Head(inbox[p])) \/ ~Open(p)
       /\ missed' = IF kind = "offer" THEN missed \cup {Head(inbox[p]).room} ELSE missed
  /\ UNCHANGED <<uplink, match, step, pc, early>>

(* setRemoteDescription *)
OnOffer(p) ==
  /\ Hear(p, "offer")
  /\ Concerns(p, Head(inbox[p])) /\ Open(p)
  /\ pc' = [pc EXCEPT ![p].remote = @ \cup {Head(inbox[p])}]
  /\ step' = [step EXCEPT ![p] = "answering"]
  /\ UNCHANGED <<uplink, match, early, missed>>

EarlyKept(p) == early          \* mutant: processIceQueue is not called

EarlyAdded(p) == [early EXCEPT ![p] = <<>>]

(* processIceQueue, createAnswer, setLocalDescription *)
SendAnswer(p) ==
  /\ step[p] = "answering" /\ Open(p)
  /\ pc' = [pc EXCEPT ![p].cands = @ \cup ToSet(early[p]), ![p].local = TRUE]
  /\ early' = EarlyAdded(p)
  /\ step' = [step EXCEPT ![p] = "listening"]
  /\ Emit(p, "answer")
  /\ UNCHANGED <<serverVars, sock, inbox, match, missed>>

Answered(p) == ~pc[p].local    \* mutant: the state is tested for 'stable'

(* the signalling state have-local-offer *)
HasLocalOffer(p) == pc[p].local /\ pc[p].remote = {}

OnAnswer(p) ==
  /\ Hear(p, "answer")
  /\ Concerns(p, Head(inbox[p])) /\ Open(p)
  /\ IF HasLocalOffer(p)
     THEN /\ pc' = [pc EXCEPT ![p].remote = {Head(inbox[p])},
                              ![p].cands  = @ \cup ToSet(early[p])]
          /\ early' = EarlyAdded(p)
     ELSE UNCHANGED <<pc, early>>
  /\ UNCHANGED <<uplink, match, step, missed>>

HasRemote(p) == pc[p].remote # {}

OnIce(p) ==
  /\ Hear(p, "ice")
  /\ Concerns(p, Head(inbox[p])) /\ Open(p)
  /\ IF HasRemote(p)
     THEN pc' = [pc EXCEPT ![p].cands = @ \cup {Head(inbox[p])}] /\ UNCHANGED early
     ELSE early' = [early EXCEPT ![p] = Append(@, Head(inbox[p]))] /\ UNCHANGED pc
  /\ UNCHANGED <<uplink, match, step, missed>>

(* closePc, if the set-up has got as far as listening, whoever left;       *)
(* matchInfo stays.                                                        *)
OnLeft(p) ==
  /\ Hear(p, "left")
  /\ pc' = IF Listens(p) THEN [pc EXCEPT ![p] = NoPc] ELSE pc
  /\ UNCHANGED <<uplink, match, step, early, missed>>

(* onconnectionstatechange: failed, or still disconnected after 5 s *)
PcFails(p) ==
  /\ p \in Unlucky /\ pc[p].local /\ HasRemote(p)
  /\ pc' = [pc EXCEPT ![p] = NoPc]
  /\ UNCHANGED <<serverVars, wireVars, match, step, early, missed>>

Relay(p) == RelayCached(p) \/ RelayLooksUp(p) \/ RelayRefuses(p)
Lookup(l) == LookupMember(l) \/ LookupPeer(l) \/ LookupFails(l)
Setup(p) == CreatePc(p) \/ SendOffer(p) \/ SendAnswer(p)
OnEvent(p) == OnMatch(p) \/ Ignore(p) \/ OnOffer(p) \/ OnAnswer(p) \/ OnIce(p) \/ OnLeft(p)

Next ==
  \/ \E p, q \in Peers : Match(p, q)
  \/ \E p \in Peers : Part(p) \/ Reconnect(p) \/ Vanish(p)
  \/ \E p \in Peers : Relay(p) \/ Setup(p) \/ SendCandidates(p) \/ OnEvent(p) \/ PcFails(p)
  \/ \E l \in looking : Lookup(l)

Spec == Init /\ [][Next]_vars

(* The server's event loop and each tab's serve what arrives, the set-up   *)
(* goes on between events, and Redis answers or fails; matches, their ends *)
(* and failures of connections are not promised.                           *)
Fairness ==
  /\ \A p \in Peers : WF_vars(Relay(p)) /\ WF_vars(Setup(p)) /\ WF_vars(OnEvent(p))
  /\ WF_vars(\E l \in looking : Lookup(l))

FairSpec == Spec /\ Fairness

-----------------------------------------------------------------------------
(* Properties *)

(* Whatever stale signals are under way, of earlier rooms of the same two  *)
(* tabs even, a peer connection belongs to the room on the screen and      *)
(* takes descriptions and candidates of that room's other member only.     *)
NegotiatesWithPartner ==
  \A p \in Peers : Open(p) =>
    /\ pc[p].room = match[p]
    /\ \A signal \in pc[p].remote \cup pc[p].cands \cup ToSet(early[p]) :
         signal.room = pc[p].room /\ signal.from = Other(pc[p].room, p)

(* A candidate is added after the description it belongs to, and none is   *)
(* left behind in the queue once that description is there.                *)
CandidatesInOrder ==
  \A p \in Peers :
    /\ pc[p].cands # {} => pc[p].remote # {}
    /\ Open(p) /\ pc[p].remote # {} /\ step[p] = "listening" => early[p] = <<>>

(* Who is served: both still on the sockets they were matched with.        *)
Linked(r) ==
  /\ r \in DOMAIN rooms
  /\ rooms[r].open
  /\ \A p \in Members(r) : sock[p] = rooms[r].sock[p] /\ match[p] = r

Offer(r)  == [kind |-> "offer", room |-> r, from |-> rooms[r].init]
Answer(r) == [kind |-> "answer", room |-> r, from |-> rooms[r].resp]

(* On its way from one tab of its room to the other *)
Travels(signal) ==
  \/ signal \in ToSet(uplink[signal.from])
  \/ signal \in ToSet(inbox[Other(signal.room, signal.from)])
  \/ \E l \in looking : l.signal = signal

(* Its connection was closed under the tab: by a goodbye, which names no   *)
(* room, or because it failed.                                             *)
Hung(p) == Listens(p) /\ ~Open(p)

(* The safety half of LinkedPairsNegotiate: a linked pair of which nothing *)
(* was refused, unheard or closed has negotiated, or the next step is due  *)
(* - the offer, its relay, the answer or its relay - whichever tab was     *)
(* slow, whatever is cached and whatever is left over from an earlier room.*)
NegotiationGoesOn ==
  \A r \in DOMAIN rooms \ missed : Linked(r) =>
    \/ \A p \in Members(r) : HasRemote(p)
    \/ \E p \in Members(r) : Hung(p)
    \/ step[rooms[r].init] \in {"fetching", "offering"} \/ Travels(Offer(r))
    \/ step[rooms[r].resp] = "answering"
    \/ Travels(Answer(r))

(* A linked pair negotiates to the end on both sides, unless the room ends *)
(* or one side gets a new socket, which the room does not know.  What      *)
(* strands it is a description that came before the responder listened or  *)
(* that the relay did not pass on, for nothing repeats it, and a           *)
(* connection closed by a goodbye of some partner or by its failure.       *)
LinkedPairsNegotiate ==
  \A r \in DOMAIN Rounds :
    Linked(r) ~>
      (Linked(r) => \/ r \in missed
                    \/ \E p \in Members(r) : Hung(p)
                    \/ \A p \in Members(r) : HasRemote(p))

(* queue.handler.ts says that chat:next notifies the peer and tears down   *)
(* the current room: a goodbye that ends a connection comes from the       *)
(* partner at its other end.                                               *)
(* Does not hold: README, Findings.                                        *)
OnlyPartnersHangUp ==
  [][\A p \in Peers : OnLeft(p) /\ Open(p) /\ Listens(p) =>
        Head(inbox[p]).from = Other(pc[p].room, p)]_vars

==============================================================================
