SPECIFICATION Spec
CONSTANTS
  Address = {a1, a2, a3}
  Request = {r1, r2}
  NoAddress = NoAddress
  Weight = {0}
  OutlierEnabled = TRUE
  ConsecutiveErrors = 1
  BaseEjectDuration = 1
  MaxEjectDuration = 2
  MaxEjectPercent = 67
  MaxVersion = 2
  MaxTime = 2
  MaxErrors = 2
SYMMETRY Symmetry
INVARIANTS RotationSound SelectionReadmits SafetyValve NoPhantomLoad
PROPERTY EjectionServed
