SPECIFICATION FairSpec
CONSTANTS
  a = a
  b = b
  Ends <- MCEnds
  SeqMod = 3
  MaxRetries = 2
  Writers = {b}
  Leavers = {a}
  Pingers = {b}
  MaxFrames <- MCMaxFrames
  MaxNet = 2
INVARIANTS
  TypeOK
  DeliveredInOrder
  AckedWasReceived
PROPERTIES
  DeliveredOrHungUp
  BothHangUp
CHECK_DEADLOCK FALSE
