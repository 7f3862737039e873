SPECIFICATION MdnsFairSpec
CONSTANTS
  c1 = c1
  c2 = c2
  n1 = n1
  n2 = n2
  None = None
  Torn = Torn
  Clients <- MCClients
  Nodes <- MCNodes
  MaxStarts = 3
  MaxStale = 1
INVARIANTS StoppedIsQuiet OneDiscovery AdvertisedIsLatest
PROPERTIES CallsReturn
