SPECIFICATION Spec
CONSTANTS
  Channels = {1, 2}
  Beat = 4
  Settings <- EditSettings
  Patterns <- OncePattern
  Expressions <- Phrases
  Tempos = {}
  PulseStep = 2
  PulseGap = 1
  MaxPosition = 8
INVARIANTS
  GateHasAnEnd
  GlobalGridIsShared
  OnsetsKept
PROPERTIES
  EqualTimingStaysTogether
