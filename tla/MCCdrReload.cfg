SPECIFICATION FairSpec
CONSTANTS
  Threads = {t1, t2}
  Cdrs = {c1, c2}
  BatchSizes = {1, 2}
  None = None
  MaxCommands = 1
PROPERTY
  DetachReturns
CHECK_DEADLOCK FALSE
