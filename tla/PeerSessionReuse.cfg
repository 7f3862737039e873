SPECIFICATION Spec
CONSTANTS
  c1 = c1
  c2 = c2
  a1 = a1
  s1 = s1
  s2 = s2
  None = None
  Callers <- MCCallers
  Addrs <- OneAddr
  Sids <- TwoSids
  ChanCap = 1
  MaxMsgs = 1
PROPERTY DeadSessionNotReused
