SPECIFICATION KnobSpec
CONSTANTS
  alt = alt
  gui = gui
  shift = shift
  tab = tab
  left = left
  Alt = alt
  Gui = gui
  Shift = shift
  Tab = tab
  Presets = {}
  EventDebounce = 1
  EmitInterval = 2
  IdleReset = 2
  ReverseThreshold = 3
  AccumMax = 4
  DeltaMax = 2
  AppSwitchTimeout = 4
  ClickDebounce = 2
  HidMax = 2
  Turns <- Coalesced
  MaxInputs = 5
  MaxTime = 6
INVARIANTS TypeOK KeysLeftDown CommandHoldBounded NoExtraSteps
PROPERTIES StepsSpaced ReversalsSustained
