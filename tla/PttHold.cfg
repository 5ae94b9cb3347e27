SPECIFICATION Spec
CONSTANTS
  Ptt = Ptt
  MaxQueue = 2
INVARIANTS ReleaseReleases
CHECK_DEADLOCK FALSE
