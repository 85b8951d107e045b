SPECIFICATION Spec
CONSTANTS
  Countries = {IN, US}
  Languages = {en, hi}
  Tags <- MCTags
  Lower <- MCLower
  InterestLists <- MCInterestLists
  Joins <- MCJoins
  MaxTime = 18
INVARIANTS
  AcceptedByLevel
  OrderIrrelevant
CHECK_DEADLOCK FALSE
