SPECIFICATION DFairSpec
CONSTANTS
  DataPlane = {d1}
  Address = {a1}
  Weight = {}
  Setting = {s0}
  DefaultSetting = s0
  Admin = {p1}
  NoSet = NoSet
  NoContent = NoContent
  ChanCap = 1
  WireCap = 1
  FailuresPossible = TRUE
  MaxChanges = 2
  MaxCrashes = 1
  MaxFaults = 1
  MaxBreaks = 1
INVARIANT NoLostUpdate
PROPERTIES ImplementsRegister BackendsConverge CatchesUpOrAhead
