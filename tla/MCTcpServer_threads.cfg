CONSTANTS
  ThreadNum = 2
  MaxConn = 2
SPECIFICATION Spec
INVARIANT InLoopOnOneThread
CHECK_DEADLOCK FALSE
