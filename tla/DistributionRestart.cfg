SPECIFICATION DFairSpec
CONSTANTS
  DataPlane = {d1}
  Address = {a1}
  Weight = {}
  Setting = {s0}
  DefaultSetting = s0
  Admin = {p1}
  NoSet = NoSet
  NoContent = NoContent
  ChanCap = 1
  WireCap = 1
  FailuresPossible = FALSE
  MaxChanges = 1
  MaxCrashes = 1
  MaxFaults = 1
  MaxBreaks = 0
PROPERTY CatchesUp
