SPECIFICATION FairSpec
CONSTANTS
  Threads = {t1, t2}
  Cdrs = {c1, c2}
  BatchSizes = {2}
  None = None
  MaxCommands = 1
INVARIANTS
  TypeOK
  NeverTwice
  SubmissionComing
PROPERTIES
  ImplementsCdrLog
  BatchPosted
CHECK_DEADLOCK FALSE
