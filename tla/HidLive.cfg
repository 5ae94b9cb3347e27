SPECIFICATION FairSpec
CONSTANTS
  mac = mac
  alt = alt
  tab = tab
  Hosts = {mac}
  NoHost = NoHost
  Modifiers = {alt}
  Keys = {tab}
  NoKey = NoKey
  LastFd = 4
  IpcMax = 1
  BusMax = 1
INVARIANTS TypeOK DescriptorsOpen NoGhostKeys
PROPERTIES DeferredConnectSettles WaitingHostServed ImplementsLink
