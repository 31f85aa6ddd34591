SPECIFICATION Spec
CONSTANTS
  MinGap = 2
  MaxGap = 4
  Window = 2
  Minute = 60
  MinBpm = 16
  MaxBpm = 28
  MicrosWrap = 6
  MaxDelay = 2
  MaxTime = 12
  None = None
INVARIANTS
  JackTapsSetATempo
CHECK_DEADLOCK FALSE
