SPECIFICATION FairSpec
CONSTANTS
  Event = {e1, e2}
  NoEvent = NoEvent
  PoolSize = 4
INVARIANTS TypeOK SlotOwnership
PROPERTIES PendingEventStable ImplementsChannel AnswersAndDelivers
