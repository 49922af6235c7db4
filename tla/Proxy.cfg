SPECIFICATION MCSpec
CONSTANTS
  Address = {a1, a2}
  Request = {r1}
  NoAddress = NoAddress
  Weight = {1}
  OutlierEnabled = TRUE
  ConsecutiveErrors = 1
  BaseEjectDuration = 1
  MaxEjectDuration = 1
  MaxEjectPercent = 50
  MaxVersion = 2
  MaxTime = 1
  MaxErrors = 2
  Sticky = TRUE
  MaxRetries = 1
  Visit = {v1, v2, v3}
  Client = {c1, c2}
  EdgeGroup = {e1}
  NoGroup = NoGroup
  MaxConns = 2
  Limits <- MCLimits
  idleBucketTTL = 1
  KeepInterval = 1
  MaxClock = 3
INVARIANTS  BoundedReplay EdgeAccounted RateBounded
PROPERTIES ProxyImplementsList 
