SPECIFICATION ButtonSpec
CONSTANTS
  alt = alt
  gui = gui
  shift = shift
  tab = tab
  left = left
  Alt = alt
  Gui = gui
  Shift = shift
  Tab = tab
  Presets = {left}
  EventDebounce = 1
  EmitInterval = 1
  IdleReset = 1
  ReverseThreshold = 1
  AccumMax = 1
  DeltaMax = 1
  AppSwitchTimeout = 2
  ClickDebounce = 1
  HidMax = 1
  Turns = {}
  MaxInputs = 4
  MaxTime = 4
INVARIANTS KeysLeftDown DictationHeard
