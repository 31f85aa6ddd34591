SPECIFICATION JointSpec
CONSTANTS
  p1 = p1
  p2 = p2
  g1 = g1
  clean = clean
  seeded = seeded
  s1 = s1
  s2 = s2
  n1 = n1
  Plain = {p1, p2}
  Grooves = {g1}
  Factory = p1
  Transports = {"Stopped", "Playing"}
  LastSlot = 1
  CommitDelay = 2
  OldCurrentBytes = 297
  OldPresetBytes = 313
  Outcomes = {"ok", "failed"}
  BootOutcomes = {"ok"}
  OldImages = TRUE
  None = None
INVARIANTS
  
  
  
  
  EverySchemaIsRead
  StepsAreAsEdited
PROPERTIES
  
  ImplementsAutosave
  EditsAreWritten
CHECK_DEADLOCK FALSE
