---------------------------- MODULE Compatibility ----------------------------
(***************************************************************************)
(* When two queue entries may be put into one room: isCompatible of the    *)
(* matching engine, the interest similarity it uses, and the shorter wait  *)
(* that runMatchingCycle hands to it.  The state machine is one pair of    *)
(* entries and the clock.                                                  *)
(*                                                                         *)
(* Times are seconds; joinedAt is read on whichever server the user is     *)
(* connected to, so an entry may lie in the future of the engine's clock.  *)
(***************************************************************************)
EXTENDS Integers, FiniteSets

CONSTANTS
  Countries, Languages,
  Tags,             \* interest tags as they are stored
  Lower,            \* toLowerCase, on tags
  InterestLists,    \* interests, as the sets of tags they hold
  Joins,            \* the values of joinedAt
  MaxTime           \* bound: the clock

ASSUME TagsAssumption ==
  /\ Lower \in [Tags -> Tags]
  /\ InterestLists \subseteq SUBSET Tags
  /\ \A A \in InterestLists : IsFiniteSet(A)

ASSUME TimesAssumption == Joins \subseteq Int /\ MaxTime \in Nat

VARIABLES a, b, now

vars == <<a, b, now>>

QueueEntry == [country : Countries, language : Languages,
               interests : InterestLists, joinedAt : Joins]

CountryRelax  == 5      \* MATCH_COUNTRY_RELAX_SECONDS
LangRelax     == 10     \* MATCH_LANG_RELAX_SECONDS
InterestRelax == 15     \* MATCH_INTEREST_RELAX_SECONDS

(* jaccardSimilarity as a pair: the size of the intersection and of the    *)
(* union of the two sets of lower-case tags.                               *)
Lowered(A) == {Lower[t] : t \in A}

jaccardToFirst(A, B) ==    \* mutant: the share of the first list only
  <<Cardinality(Lowered(A) \cap Lowered(B)), Cardinality(Lowered(A))>>

jaccardSimilarity(A, B) ==
  <<Cardinality(Lowered(A) \cap Lowered(B)), Cardinality(Lowered(A) \cup Lowered(B))>>

(* sim < 0.3, which the division decides exactly for sets of this size *)
TooFewShared(A, B) ==
  10 * jaccardSimilarity(A, B)[1] < 3 * jaccardSimilarity(A, B)[2]

InterestsClash(x, y) ==
  x.interests # {} /\ y.interests # {} /\ TooFewShared(x.interests, y.interests)

isCompatibleLate(x, y, minWait) ==      \* mutant: <= for <
  /\ ~ (minWait <= CountryRelax /\ x.country # y.country)
  /\ ~ (minWait <= LangRelax /\ x.language # y.language)
  /\ ~ (minWait <= InterestRelax /\ InterestsClash(x, y))

isCompatible(x, y, minWait) ==
  /\ ~ (minWait < CountryRelax /\ x.country # y.country)
  /\ ~ (minWait < LangRelax /\ x.language # y.language)
  /\ ~ (minWait < InterestRelax /\ InterestsClash(x, y))

(* The wait of the pair is that of the entry that joined last. *)
MinWait(x, y) ==
  IF x.joinedAt < y.joinedAt THEN now - y.joinedAt ELSE now - x.joinedAt

Init == a \in QueueEntry /\ b \in QueueEntry /\ now = 0

Tick == now < MaxTime /\ now' = now + 1 /\ UNCHANGED <<a, b>>

Next == Tick

Spec == Init /\ [][Next]_vars

-----------------------------------------------------------------------------
(* The reference: levels of relaxation, as MatchQueue has them *)

(* How many of the three thresholds a wait has reached *)
Level(wait) ==
  IF wait < CountryRelax THEN 0
  ELSE IF wait < LangRelax THEN 1
  ELSE IF wait < InterestRelax THEN 2
  ELSE 3

(* The level from which two entries agree: CompatibleFrom of MatchQueue *)
RequiredLevel(x, y) ==
  IF InterestsClash(x, y) THEN 3
  ELSE IF x.language # y.language THEN 2
  ELSE IF x.country # y.country THEN 1
  ELSE 0

TypeOK == a \in QueueEntry /\ b \in QueueEntry /\ now \in 0..MaxTime

(* Waiting is all it takes, and each of the two must have waited: the test *)
(* accepts a pair exactly when both entries, each by its own wait, have    *)
(* reached the one level that their differences demand.                    *)
AcceptedByLevel ==
  isCompatible(a, b, MinWait(a, b)) <=>
    /\ Level(now - a.joinedAt) >= RequiredLevel(a, b)
    /\ Level(now - b.joinedAt) >= RequiredLevel(a, b)

(* Which of the two comes first in the candidate list does not matter. *)
OrderIrrelevant ==
  isCompatible(a, b, MinWait(a, b)) <=> isCompatible(b, a, MinWait(b, a))

==============================================================================
