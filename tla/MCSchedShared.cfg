SPECIFICATION SharedSpec
CONSTANTS
  Delays = {0, 2}
  Slack = 2
  MaxInt = 1
  MaxCache = 1
  MaxTime = 3
  MaxAdds = 2
INVARIANT
  NothingLost
CHECK_DEADLOCK FALSE
