SPECIFICATION FairSpec
CONSTANTS
  s1 = s1  s2 = s2  s3 = s3  w1 = w1  w2 = w2
  Sessions = {s1, s2, s3}
  Workers = {w1}
  Perishable = {s2}
  BatchSize = 2
  CleanupBatch = 1
  MaxLevel = 1
  CompatibleFrom <- PartlyCompatible
  Free = Free
  DeadToken = DeadToken
  MaxTickets = 3
  MaxFaults = 1
PROPERTIES
  PairsUp
  GhostsSwept
CHECK_DEADLOCK FALSE
