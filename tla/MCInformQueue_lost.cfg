CONSTANTS
  Producers = {p1}
  MaxPush = 2
SPECIFICATION Spec
PROPERTY PushedIsProcessed
CHECK_DEADLOCK FALSE
