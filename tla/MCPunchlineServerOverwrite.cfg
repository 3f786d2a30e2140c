CONSTANTS
  Client = {a, b, c}
  Punchline = {p, q}
  RollingId = {0}
  TimeoutDelay = 0
  None = None
  OtherVersion = OtherVersion
  MaxInFlight = 1
SPECIFICATION Spec
SYMMETRY Interchangeable
PROPERTY RowsLeaveForAReason
