SPECIFICATION FairSpec
CONSTANTS
  c1 = c1  c2 = c2
  Sockets = {c1, c2}
  MaxRetries = 2
  MaxDrops = 3
  MaxRefusals = 2
INVARIANTS
  TypeOK
  CleanExit
  NeverIdlyDeaf
PROPERTIES
  ShutdownEnds
  ReadyHears
CHECK_DEADLOCK FALSE
