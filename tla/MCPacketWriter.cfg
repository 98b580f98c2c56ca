CONSTANTS
  InitSize = 1
  MaxSize = 4
  Lengths = {0, 1, 2, 3}
  MaxPut = 9
SPECIFICATION Spec
INVARIANTS TypeOK SentInOrder WatchedWhileWaiting
PROPERTIES ImplementsQueue DropsOnlyWhenFull SentOrRemoved
