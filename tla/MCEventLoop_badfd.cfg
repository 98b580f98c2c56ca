CONSTANTS
  Sessions = {s1, s2}
  NoSession = NoSession
  MaxQueue = 2
  MaxBuf = 1
SPECIFICATION Spec
INVARIANT RegisteredIsWatched
