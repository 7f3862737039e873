SPECIFICATION MdnsSpec
CONSTANTS
  c1 = c1
  c2 = c2
  n1 = n1
  n2 = n2
  None = None
  Torn = Torn
  Clients <- MCClients
  Nodes <- MCNodes
  MaxStarts = 2
  MaxStale = 1
INVARIANT RunningDiscovers
