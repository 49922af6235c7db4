SPECIFICATION AdminSpec
CONSTANTS
  Handler = {h1, h2}
  Password = {p1, p2}
  Form <- MCForm
  NewRow <- MCNewRow
  Fold <- MCFold
  Upper <- MCUpper
  None = None
  Malformed = Malformed
  NoWeight = NoWeight
  MaxInt32 = 1000
  MaxFailures = 1
  Window = 0
  Lockout = 1
  SessionDuration = 1
  maxAuditEntries = 1
  Mixes <- MCMixes
  MaxCrashes = 1
  MaxTime = 2
SYMMETRY Symmetry
INVARIANTS
  SessionsEnd
  
  GuessesBounded
  

  
CHECK_DEADLOCK FALSE
