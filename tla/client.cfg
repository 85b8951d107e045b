SPECIFICATION FairSpec
CONSTANTS
  Trouble = {"drop", "early", "expire", "limit", "error", "webrtc", "stray", "vanish", "offline"}
  MaxTrouble = 1
  MaxSkips = 2
  MaxVisits = 2
  MaxRooms = 2
INVARIANTS
  TypeOK
  SearchIsReal
  CallIsReal
PROPERTIES
  SearchIsServed
CHECK_DEADLOCK FALSE
