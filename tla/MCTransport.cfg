\* FIFO network that loses and duplicates, and no more packages than rolling ids.
CONSTANTS
  Content = {hi}
  RollingModulus = 3
  MaxResendTries = 2
  Overtake = 0
  NoPackage = NoPackage
  MaxCreated = 3
  MaxInFlight = 2
  MaxAcks = 2
SPECIFICATION FairSpec
INVARIANTS TypeOK LinkInv
PROPERTIES ImplementsLink SendReturns
