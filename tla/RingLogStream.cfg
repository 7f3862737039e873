SPECIFICATION FairSpec
CONSTANTS
  w1 = w1
  s1 = s1
  None = None
  Writers <- MCWriters
  Streams <- MCStreams
  Size = 3
  ChanCap = 2
  Last = 1
  MaxPuts = 6
  Sinces = {0, 1}
  Counts = {0, 2}
PROPERTY StreamReturns
CHECK_DEADLOCK FALSE
