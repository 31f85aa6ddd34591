SPECIFICATION Spec
CONSTANTS
  Channels = {1}
  Beat = 4
  Settings <- PulseSettings
  Patterns <- OncePattern
  Expressions <- PlainStepOnly
  Tempos = {1}
  PulseStep = 2
  PulseGap = 1
  MaxPosition = 6
INVARIANTS
  BeatIsGridPosition
