SPECIFICATION Spec
CONSTANTS
  s1 = s1  s2 = s2  s3 = s3  w1 = w1  w2 = w2
  Sessions = {s1, s2, s3}
  Workers = {w1, w2}
  Perishable = {}
  BatchSize = 3
  CleanupBatch = 1
  MaxLevel = 0
  CompatibleFrom <- AllCompatible
  Free = Free
  DeadToken = DeadToken
  MaxTickets = 3
  MaxFaults = 1
SYMMETRY Symmetry
INVARIANTS
  TypeOK
  TicketMatchedOnce
PROPERTIES
  NoOverlap
  ReservationSafe
  DetachedOnlyBySweep
  KeepsPromise
CHECK_DEADLOCK FALSE
