SPECIFICATION Spec
CONSTANTS
  s1 = s1  s2 = s2  s3 = s3  h1 = h1  h2 = h2
  Sessions = {s1, s2}
  Slots = {h1, h2}
  Requests = {"join", "leave_queue", "next", "leave"}
  Droppable = {}
  Expiry = TRUE
  MaxTickets = 3
  MaxSockets = 2
  MaxFaults = 1
SYMMETRY Symmetry
INVARIANTS
  TypeOK
  PeerFieldsAgree
PROPERTIES
  KeepsPromise
CHECK_DEADLOCK FALSE
