CONSTANTS
  Sessions = {s1}
  Size = 4
  Start = 8
  MaxClock = 17
  MaxLag = 2
SPECIFICATION Spec
INVARIANTS TypeOK OneSlot NeverLate
PROPERTY NeverEarly
CHECK_DEADLOCK FALSE
