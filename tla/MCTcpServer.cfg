CONSTANTS
  ThreadNum = 2
  MaxConn = 4
SPECIFICATION Spec
INVARIANTS TypeOK PlacedOnce NoneForgotten SpreadEvenly NoneOutlivesServer
PROPERTY DestroyEnds
CHECK_DEADLOCK FALSE
