SPECIFICATION MCSpec
CONSTANTS
  a = a
  b = b
  Names <- MCNames
  NoMac = NoMac
  Nearby <- MCNearby
  Points <- MCPoints
  MaxInputs = 1
  MaxChanges = 0
  MaxPending = 1
PROPERTIES TapActsOnShown
