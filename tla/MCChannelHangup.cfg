SPECIFICATION FairSpec
CONSTANTS
  Drivers = {d1}
  MaxVoice = 1
  MaxTotal = 1
  Excess = 0
  MaxDtmfq = 0
  Causes = {"asyncgoto"}
  MaxQueued = 2
  MaxDigits = 0
  MaxMedia = 1
PROPERTIES
  HangupFrameEndsCall
  WaitHonoursMs
CHECK_DEADLOCK FALSE
