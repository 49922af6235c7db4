SPECIFICATION TCPFairSpec
CONSTANTS
  Conn = {c1, c2, c3}
  NoConn = NoConn
  Grace = TRUE
CHECK_DEADLOCK FALSE
INVARIANTS NoLostWakeup 
PROPERTY ShutdownCompletes
