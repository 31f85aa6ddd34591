SPECIFICATION JointSpec
CONSTANTS
  Capacity = 3
  MaxEdges = 7
  None = None
INVARIANTS
  DeliveredAsPublished
  GapsAreMarked
  EditsAreHeardAndLoadable
  BoardIsTopOfHistory
  AverageOfRecentTaps
  TurnsAreCountedAtRest
  

  
CHECK_DEADLOCK FALSE
