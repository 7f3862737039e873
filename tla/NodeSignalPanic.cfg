SPECIFICATION Spec
CONSTANTS
  turn = turn
  bootstrap = bootstrap
  aibox = aibox
  Others <- MCOthers
  Turn = turn
  MaxSignals = 1
INVARIANT SignalStopsCleanly
CHECK_DEADLOCK FALSE
