SPECIFICATION FairSpec
CONSTANTS
  turn = turn
  bootstrap = bootstrap
  aibox = aibox
  Others <- MCOthers
  Turn = turn
  MaxSignals = 1
PROPERTY SignalEndsNode
CHECK_DEADLOCK FALSE
