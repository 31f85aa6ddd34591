SPECIFICATION Spec
CONSTANTS
  Configs <- SyncReset
  Edits = FALSE
  Buttons = {"toggle", "stop"}
  QueueSize = 1
INVARIANTS
  ShownIsPlaying
  ResetGateFollowsLevel
PROPERTIES
  ClockRespectsHeldStop
