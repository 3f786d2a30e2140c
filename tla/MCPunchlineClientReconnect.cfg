CONSTANTS
  MaxConnects = 2
  MaxData = 1
  None = None
CHECK_DEADLOCK FALSE
SPECIFICATION FairSpec
PROPERTY ConGoesOut
