SPECIFICATION FairSpec
CONSTANTS
  Configs <- Cables
  Edits = FALSE
  Buttons = {}
  QueueSize = 1
PROPERTIES
  StopIsObeyed
  SettledRunIsShown
