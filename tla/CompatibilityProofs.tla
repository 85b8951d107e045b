------------------------- MODULE CompatibilityProofs -------------------------
(***************************************************************************)
(* Proofs about Compatibility, for every set of preferences and every      *)
(* clock: relaxation is a matter of levels, and the order of a pair does   *)
(* not matter.  No cardinality is computed: the arguments only need that   *)
(* the two sides of an equation are the same set.                          *)
(***************************************************************************)
EXTENDS Compatibility, TLAPS

(* The test at one wait: isCompatible accepts exactly the waits that have  *)
(* reached the level the two entries demand.                               *)
LEMMA AcceptedAtLevel ==
  ASSUME NEW x, NEW y, NEW w \in Int
  PROVE  isCompatible(x, y, w) <=> Level(w) >= RequiredLevel(x, y)
<1> DEFINE clash == InterestsClash(x, y)
<1>1. CASE clash
  BY <1>1 DEF isCompatible, Level, RequiredLevel, CountryRelax, LangRelax, InterestRelax
<1>2. CASE ~clash
  BY <1>2 DEF isCompatible, Level, RequiredLevel, CountryRelax, LangRelax, InterestRelax
<1> QED BY <1>1, <1>2

(* The level of the shorter wait is the lower of the two levels. *)
LEMMA LevelOfShorterWait ==
  ASSUME NEW v \in Int, NEW w \in Int, v <= w
  PROVE  Level(v) \in 0..3 /\ Level(w) \in 0..3 /\ Level(v) <= Level(w)
BY DEF Level, CountryRelax, LangRelax, InterestRelax

(* Similarity does not depend on which list is read first. *)
LEMMA ClashSymmetric ==
  ASSUME NEW x, NEW y
  PROVE  InterestsClash(x, y) <=> InterestsClash(y, x)
<1> DEFINE P == Lowered(x.interests)
           Q == Lowered(y.interests)
<1>1. P \cap Q = Q \cap P /\ P \cup Q = Q \cup P
  OBVIOUS
<1>2. jaccardSimilarity(x.interests, y.interests) = jaccardSimilarity(y.interests, x.interests)
  BY <1>1 DEF jaccardSimilarity
<1>3. TooFewShared(x.interests, y.interests) <=> TooFewShared(y.interests, x.interests)
  BY <1>2 DEF TooFewShared
<1> QED BY <1>3 DEF InterestsClash

LEMMA RequiredLevelSymmetric ==
  ASSUME NEW x, NEW y
  PROVE  RequiredLevel(x, y) = RequiredLevel(y, x) /\ RequiredLevel(x, y) \in 0..3
BY ClashSymmetric DEF RequiredLevel

(* The pair and the clock keep their types. *)
THEOREM TypeCorrect == Spec => []TypeOK
<1>1. Init => TypeOK
  BY TimesAssumption DEF Init, TypeOK
<1>2. TypeOK /\ [Next]_vars => TypeOK'
  BY TimesAssumption DEF TypeOK, Next, Tick, vars
<1> QED BY <1>1, <1>2, PTL DEF Spec

(* The wait handed to isCompatible is a number, and the shorter of the two. *)
LEMMA ShorterWait ==
  ASSUME TypeOK
  PROVE  /\ now - a.joinedAt \in Int /\ now - b.joinedAt \in Int
         /\ MinWait(a, b) = MinWait(b, a)
         /\ MinWait(a, b) \in {now - a.joinedAt, now - b.joinedAt}
         /\ MinWait(a, b) <= now - a.joinedAt
         /\ MinWait(a, b) <= now - b.joinedAt
<1>1. a.joinedAt \in Joins /\ b.joinedAt \in Joins
  BY DEF TypeOK, QueueEntry
<1>2. a.joinedAt \in Int /\ b.joinedAt \in Int
  BY <1>1, TimesAssumption
<1>3. now \in Int
  BY DEF TypeOK
<1> QED BY <1>2, <1>3 DEF MinWait

(* A pair is accepted exactly when both entries, each by its own wait,     *)
(* have reached the level their differences demand: this is what lets      *)
(* MatchQueue speak of levels and forget preferences and seconds.          *)
THEOREM LevelsDecide == Spec => []AcceptedByLevel
<1>1. TypeOK => AcceptedByLevel
  <2> SUFFICES ASSUME TypeOK PROVE AcceptedByLevel
    OBVIOUS
  <2> DEFINE v == now - a.joinedAt
             w == now - b.joinedAt
             m == MinWait(a, b)
             L == RequiredLevel(a, b)
  <2>1. v \in Int /\ w \in Int /\ m \in {v, w} /\ m <= v /\ m <= w
    BY ShorterWait
  <2>2. isCompatible(a, b, m) <=> Level(m) >= L
    BY <2>1, AcceptedAtLevel
  <2>3. Level(v) \in 0..3 /\ Level(w) \in 0..3 /\ L \in 0..3 /\ Level(m) \in 0..3
    BY <2>1, LevelOfShorterWait, RequiredLevelSymmetric
  <2>4. Level(m) <= Level(v) /\ Level(m) <= Level(w)
    BY <2>1, LevelOfShorterWait
  <2>5. Level(m) = Level(v) \/ Level(m) = Level(w)
    BY <2>1
  <2>6. Level(m) >= L <=> Level(v) >= L /\ Level(w) >= L
    BY <2>3, <2>4, <2>5
  <2> QED BY <2>2, <2>6 DEF AcceptedByLevel
<1> QED BY <1>1, TypeCorrect, PTL

(* The pair (a, b) is accepted exactly when the pair (b, a) is: the order  *)
(* in which the engine lists two candidates decides nothing.               *)
THEOREM OrderDoesNotMatter == Spec => []OrderIrrelevant
<1>1. TypeOK => OrderIrrelevant
  <2> SUFFICES ASSUME TypeOK PROVE OrderIrrelevant
    OBVIOUS
  <2>1. MinWait(a, b) \in Int /\ MinWait(a, b) = MinWait(b, a)
    BY ShorterWait
  <2>2. isCompatible(a, b, MinWait(a, b)) <=> Level(MinWait(a, b)) >= RequiredLevel(a, b)
    BY <2>1, AcceptedAtLevel
  <2>3. isCompatible(b, a, MinWait(b, a)) <=> Level(MinWait(b, a)) >= RequiredLevel(b, a)
    BY <2>1, AcceptedAtLevel
  <2> QED BY <2>1, <2>2, <2>3, RequiredLevelSymmetric DEF OrderIrrelevant
<1> QED BY <1>1, TypeCorrect, PTL

==============================================================================
