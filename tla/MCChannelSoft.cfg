SPECIFICATION FairSpec
CONSTANTS
  Drivers = {d1}
  MaxVoice = 1
  MaxTotal = 1
  Excess = 0
  MaxDtmfq = 0
  Causes = {"asyncgoto", "explicit"}
  MaxQueued = 1
  MaxDigits = 0
  MaxMedia = 0
PROPERTY
  SoftHangupEndsCall
CHECK_DEADLOCK FALSE
