CONSTANTS
  MaxConnects = 1
  MaxData = 1
  None = None
CHECK_DEADLOCK FALSE
SPECIFICATION FairSpec
PROPERTY DisconnectReturns
