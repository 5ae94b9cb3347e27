SPECIFICATION MCSpec
CONSTANTS
  a = a
  b = b
  Names <- MCNames
  NoMac = NoMac
  Nearby <- MCNearby
  Points <- MCPoints
  MaxInputs = 2
  MaxChanges = 1
  MaxPending = 2
INVARIANTS TypeOK ScanFlagTruthful
PROPERTIES RemovesHostNamed ScreenSettles StatusFades
