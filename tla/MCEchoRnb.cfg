SPECIFICATION Spec
CONSTANT MaxLength = 2
INVARIANTS TypeOK WaitingClientRetries NoPayloadSleeps
PROPERTIES ExchangeIsReal
