SPECIFICATION SafetySpec
CONSTANTS
  c1 = c1
  c2 = c2
  a1 = a1
  s1 = s1
  s2 = s2
  f1 = f1
  f2 = f2
  None = None
  Callers <- MCCallers
  Addrs <- MCAddrs
  Sids <- MCSids
  Sources <- MCSources
  ChanCap = 1
  MaxMsgs = 3
  MaxContent = 4
  MaxSyncs = 2
SYMMETRY Symmetry
INVARIANTS SafetyTypeOK OneSessionPerPeer StreamRegistered CloseOnce FlowOrdered LoaderCurrent
PROPERTY SetsForward
CHECK_DEADLOCK FALSE
