SPECIFICATION Spec
CONSTANTS
  Lengths = {1}
  FdsSize = 4
  SocketRoom = 1
INVARIANTS EveryStartHasItsEntry
CHECK_DEADLOCK FALSE
