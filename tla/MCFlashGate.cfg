SPECIFICATION Spec
CONSTANTS
  Configs <- StartStop
  Edits = FALSE
  Buttons = {"stop"}
  QueueSize = 1
PROPERTIES
  NoCommitWhilePlaying
