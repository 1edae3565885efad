SPECIFICATION FairSpec
CONSTANTS
  Delays = {0, 2}
  Slack = 2
  MaxInt = 1
  MaxCache = 1
  MaxTime = 3
  MaxAdds = 3
INVARIANTS
  TypeOK
  QueueSorted
  NothingLost
  WakeCoversHead
  NeverEarly
  IdsUnique
PROPERTIES
  EventsRun
  ImplementsTimerService
CHECK_DEADLOCK FALSE
