SPECIFICATION FairSpec
CONSTANTS
  Second = 2
  Epoch = 1
  MaxUptime = 5
  Held = 1
INVARIANTS TypeOK ClockIsRight
PROPERTIES Synchronizes TriggerIsServed
