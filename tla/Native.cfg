SPECIFICATION NativeSpec
CONSTANTS
  turn = turn
  bootstrap = bootstrap
  aibox = aibox
  client = client
  peer = peer
  loop1 = loop1
  loop2 = loop2
  conn1 = conn1
  conn2 = conn2
  NoOne = NoOne
  Others <- MCOthers
  Turn = turn
  MaxSignals = 2
  RegClients <- MCRegClients
  RegIds <- MCIds
  RegLoops <- MCLoops
  MaxRefresh = 1
  Links <- MCLinks
INVARIANTS NativeTypeOK RegisteredIsUp TurnReleased CancelStopsCleanly OneRowPerPeer RegisteredIsRefreshed RowsOfEvents
PROPERTIES CancelEnds RegistryCallsReturn CancelEndsRegistry
CHECK_DEADLOCK FALSE
