SPECIFICATION Spec
CONSTANTS
  MaxBoots = 2
  MaxPackets = 3
  MaxOther = 1
  NetRoom = 2
INVARIANTS TypeOK LossIsExact ReceiverSurvives
CHECK_DEADLOCK FALSE
