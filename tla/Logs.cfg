SPECIFICATION LogsSpec
CONSTANTS
  w1 = w1
  s1 = s1
  None = None
  Writers <- MCWriters
  Streams <- MCStreams
  Size = 3
  ChanCap = 2
  Last = 1
  MaxPuts = 6
  Sinces = {0, 1}
  Counts = {0, 2}
  MaxSize = 2
  MaxBackups = 2
  Ages = {0, 1}
  Layouts = {TRUE, FALSE}
  MaxRecords = 3
  MaxStamp = 2
  MaxTwice = 0
INVARIANTS LogsTypeOK RingIsTail RegisteredOpen StreamGapFree RecordsKept ListedBounded
PROPERTIES FeedSpec PutReturns
CHECK_DEADLOCK FALSE
