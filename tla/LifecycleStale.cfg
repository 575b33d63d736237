SPECIFICATION Safety
CONSTANTS
  Daemons = {d1, d2, d3}
  Commands = {c1}
  None = None
  MaxTries = 1
  MaxLogins = 2
  MaxCrashes = 1
SYMMETRY Interchangeable
INVARIANTS LiveSocketKept
CHECK_DEADLOCK FALSE
