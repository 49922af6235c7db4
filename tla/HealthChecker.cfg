SPECIFICATION HCFairSpec
CONSTANTS
  Address = {a1, a2}
  Request = {r1}
  NoAddress = NoAddress
  Weight = {1}
  OutlierEnabled = FALSE
  ConsecutiveErrors = 1
  BaseEjectDuration = 1
  MaxEjectDuration = 1
  MaxEjectPercent = 50
  MaxVersion = 2
  MaxTime = 1
  MaxErrors = 1
  FailureThreshold = 2
  SuccessThreshold = 1
INVARIANT VerdictCurrent
PROPERTIES Hysteresis ProbesDecide ImplementsBackendList
