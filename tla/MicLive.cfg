SPECIFICATION LinkSpec
CONSTANTS
  LastFd = 3
  CtrlMax = 1
  BusMax = 1
  BufMax = 1
PROPERTIES ScoServed HandshakeAdvances
CHECK_DEADLOCK FALSE
