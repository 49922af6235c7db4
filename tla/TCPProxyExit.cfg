SPECIFICATION TCPSpec
CONSTANTS
  Conn = {c1}
  NoConn = NoConn
  Grace = TRUE
CHECK_DEADLOCK FALSE
INVARIANT ExitAfterDrain
