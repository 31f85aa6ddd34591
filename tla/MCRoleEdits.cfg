SPECIFICATION Spec
CONSTANTS
  Configs <- RunReset
  Edits = TRUE
  Buttons = {}
  QueueSize = 1
INVARIANTS
  NoStaleEdge
PROPERTIES
  RoleChangeIsSilent
