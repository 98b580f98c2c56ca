CONSTANTS
  Sessions = {s1}
  Size = 4
  Start = 8
  MaxClock = 13
  MaxLag = 1
SPECIFICATION Spec
PROPERTY TimeoutMeansSilence
CHECK_DEADLOCK FALSE
