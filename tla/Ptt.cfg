SPECIFICATION Spec
CONSTANTS
  Ptt = Ptt
  MaxQueue = 2
INVARIANTS TypeOK PttFollowsEvents StopSilences
CHECK_DEADLOCK FALSE
