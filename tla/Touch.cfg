SPECIFICATION TouchSpec
CONSTANTS
  c1 = c1
  c2 = c2
  a1 = a1
  s1 = s1
  i1 = i1
  i2 = i2
  e1 = e1
  e2 = e2
  n1 = n1
  n2 = n2
  v1 = v1
  v2 = v2
  v3 = v3
  u1 = u1
  u2 = u2
  ed1 = ed1
  ed2 = ed2
  f1 = f1
  f2 = f2
  w1 = w1
  w2 = w2
  m1 = m1
  m2 = m2
  m3 = m3
  p1 = p1
  p2 = p2
  p3 = p3
  b1 = b1
  b2 = b2
  b3 = b3
  na1 = na1
  na2 = na2
  em1 = em1
  em2 = em2
  ad1 = ad1
  ad2 = ad2
  h1 = h1
  h2 = h2
  x1 = x1
  x2 = x2
  None = None
  NoNode = NoNode
  NoRow = NoRow
  NoUlid = NoUlid
  NoText = NoText
  NoSession = NoSession
  Callers <- MCCallers
  Addrs <- MCAddrs
  Sids <- MCSids
  Items <- MCItems
  Ears <- MCEars
  NodeIds <- MCNodeIds
  Objects <- MCObjects
  Updaters <- MCUpdaters
  Editors <- MCEditors
  Fields <- MCFields
  Senders <- MCSenders
  Ulids <- MCUlids
  SignUps <- MCSignUps
  AddrSets <- MCAddrSets
  Names <- MCNames
  Emails <- MCEmails
  PeerAddrs <- MCPeerAddrs
  Validators <- MCValidators
  SessionIds <- MCSessionIds
  ChanCap = 1
  MaxMsgs = 1
  PageSize = 1
  MaxItems = 3
  MaxBeats = 1
  MaxEdits = 2
  MsgLimit = 1
  MaxClock = 2
  Ttl = 1
  MaxTime = 3
INVARIANTS TouchTypeOK ListenersKeepUp WalkMissesNothing NodesAreNewest ProviderAsAsked MissedOnlyLateOrTied SignupOutcome AddressRowsMet
PROPERTIES CallersAnswered ContextEndReleases SessionsHonest
CHECK_DEADLOCK FALSE
