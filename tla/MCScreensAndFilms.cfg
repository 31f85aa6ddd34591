SPECIFICATION JointSpec
CONSTANTS
  NWords = 2
  Sizes = {1, 2}
  Wrap = 4
  Values = {1}
  Erased = Erased
  Torn = Torn
  NoHeader = NoHeader
  None = None
  Malformed = Malformed
INVARIANTS
  DraftsAreOwnedAndAskedFor
  RowsShowWhatTheyEdit
  EventsKeepTimeAndOrder
  EventsSoundAsDrawn
  
  StoriesPlayAsWritten
  FailedPublishKeepsOutput
  HostPanelIsHeard
  
  StateIsFoundAgain
PROPERTIES
  ImplementsDurableImage
CHECK_DEADLOCK FALSE
