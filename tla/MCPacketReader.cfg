CONSTANTS
  InitSize = 3
  MaxSize = 12
  Packets = 4
  Header = 2
  Lengths = {2, 3, 4}
  MaxStream = 13
SPECIFICATION Spec
INVARIANTS TypeOK Framed NothingWaits RoomToRecv GivenBack
CHECK_DEADLOCK FALSE
