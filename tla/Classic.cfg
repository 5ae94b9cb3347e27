SPECIFICATION MCSpec
CONSTANTS
  Hosts = {mac}
  NoHost = NoHost
  Alt = alt
  Shift = shift
  Slash = slash
  Modifiers = {alt, shift}
  Keys = {slash}
  NoKey = NoKey
  Fds = {f1, f2}
  NoFd = NoFd
  MaxNew = 3
  IpcMax = 1
  BusMax = 1
INVARIANTS ListenerTypeOK NoGhostKeys HeldWatched QuietHostClean
PROPERTIES ImplementsLink LinkLossNoticed
