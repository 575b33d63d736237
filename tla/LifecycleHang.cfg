SPECIFICATION Spec
CONSTANTS
  Daemons = {d1}
  Commands = {c1}
  None = None
  MaxTries = 1
  MaxLogins = 1
  MaxCrashes = 0
PROPERTIES CallsReturn
CHECK_DEADLOCK FALSE
