SPECIFICATION Spec
CONSTANTS
  Drivers = {d1, d2}
  MaxVoice = 0
  MaxTotal = 1
  Excess = 1
  MaxDtmfq = 1
  Causes = {}
  MaxQueued = 2
  MaxDigits = 2
  MaxMedia = 1
INVARIANTS
  TypeOK
  AlertMatchesQueue
  HangupLast
  DtmfInOrder
CHECK_DEADLOCK FALSE
SYMMETRY Symmetry
