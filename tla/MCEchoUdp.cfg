SPECIFICATION Spec
CONSTANTS
  Lengths = {1, 2}
  FdsSize = 2
  SocketRoom = 2
INVARIANTS TypeOK WaitingClientRetries WaitsForConnection StoppedClientIsQuiet
PROPERTIES TimeoutMeansNoReply
CHECK_DEADLOCK FALSE
