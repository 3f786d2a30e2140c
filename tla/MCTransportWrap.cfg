CONSTANTS
  Content = {hi}
  RollingModulus = 2
  MaxResendTries = 2
  Overtake = 0
  NoPackage = NoPackage
  MaxCreated = 3
  MaxInFlight = 2
  MaxAcks = 2
SPECIFICATION Spec
INVARIANT AckedWasDelivered
