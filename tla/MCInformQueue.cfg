CONSTANTS
  Producers = {p1, p2, p3}
  MaxPush = 2
SPECIFICATION Spec
INVARIANTS TypeOK OneWakeup OnceInOrder
PROPERTIES OnlyClearStrands ImplementsChannel WakeupDrains CloseEnds
CHECK_DEADLOCK FALSE
