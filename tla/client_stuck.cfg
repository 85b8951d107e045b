SPECIFICATION Spec
CONSTANTS
  Trouble = {"drop"}
  MaxTrouble = 1
  MaxSkips = 0
  MaxVisits = 1
  MaxRooms = 1
PROPERTIES
  RejoinsAfterReconnect
CHECK_DEADLOCK FALSE
