SPECIFICATION FairSpec
CONSTANTS
  p1 = p1  p2 = p2  p3 = p3
  Peers = {p1, p2, p3}
  Rounds <- TwoRounds
  Roaming = {p2}
  MaxReconnects = 1
  Gathering <- OfTheFirstCall
  Unlucky = {p2}
INVARIANTS
  TypeOK
  NegotiatesWithPartner
  CandidatesInOrder
  NegotiationGoesOn
PROPERTIES
  LinkedPairsNegotiate
CHECK_DEADLOCK FALSE
