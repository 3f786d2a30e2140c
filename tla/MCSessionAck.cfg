\* Two clients are enough: the newcomer is introduced before its ack arrives.
CONSTANTS
  Client = {a, b}
  Punchline = {p}
  None = None
  MaxLinks = 1
CHECK_DEADLOCK FALSE
SPECIFICATION Spec
PROPERTY AckedConDoesNotTimeOut
