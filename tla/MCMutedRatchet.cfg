SPECIFICATION Spec
CONSTANTS
  Channels = {1}
  Beat = 4
  Settings <- RatchetSettings
  Patterns <- OncePattern
  Expressions <- Phrases
  Tempos = {}
  PulseStep = 2
  PulseGap = 1
  MaxPosition = 6
INVARIANT
  MutedStaysLow
