SPECIFICATION FairSpec
CONSTANTS
  s1 = s1  s2 = s2  s3 = s3  h1 = h1  h2 = h2
  Sessions = {s1, s2}
  Slots = {h1}
  Requests = {"join"}
  Droppable = {s1}
  Expiry = FALSE
  MaxTickets = 2
  MaxSockets = 3
  MaxFaults = 0
INVARIANTS
  StoredTimerIsArmed
PROPERTIES
  NoResurrection
  AbandonedCallEnds
CHECK_DEADLOCK FALSE
