SPECIFICATION FairSpec
CONSTANTS
  Callers = {owner}
  Gens = {g1, g2}
  None = None
  MaxData = 3
PROPERTY
  DeactivateReturns
CHECK_DEADLOCK FALSE
