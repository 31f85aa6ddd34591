SPECIFICATION Spec
CONSTANTS
  One = 65536
  TickUs = 50
  MaxHumanize = 2000
  Configurations <- Customs
  MaxSerial = 4
INVARIANT
  EventsStayInOrder
CHECK_DEADLOCK FALSE
