SPECIFICATION ConnectSpec
CONSTANTS
  LastFd = 3
  CtrlMax = 1
  BusMax = 1
  BufMax = 1
INVARIANTS IdleHoldsNothing
