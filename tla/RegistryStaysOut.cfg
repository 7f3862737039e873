SPECIFICATION RegSpec
CONSTANTS
  client = client
  peer = peer
  loop1 = loop1
  loop2 = loop2
  NoOne = NoOne
  RegClients <- MCRegClients
  RegIds <- MCRegIds
  RegLoops <- MCRegLoops
  MaxRefresh = 1
INVARIANT DeregisteredStaysOut
CHECK_DEADLOCK FALSE
