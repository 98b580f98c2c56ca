SPECIFICATION Spec
CONSTANTS
  MaxFd = 3
  IdCount = 5
  MaxId = 8
INVARIANTS TypeOK OwnFds AcceptorListens InterestIsCurrent ServedAsReported FoundById
