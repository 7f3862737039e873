SPECIFICATION ConfigSpec
CONSTANTS
  f1 = f1
  f2 = f2
  Sources <- MCSources
  MaxContent = 4
  MaxSyncs = 1
INVARIANT ViewFollows
CHECK_DEADLOCK FALSE
