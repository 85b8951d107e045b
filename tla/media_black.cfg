SPECIFICATION Spec
CONSTANTS
  MaxTracks = 4
  MaxClicks = 2
INVARIANTS
  CameraOffIsBlack
CHECK_DEADLOCK FALSE
