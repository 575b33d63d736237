SPECIFICATION Spec
CONSTANTS
  Daemons = {d1, d2}
  Commands = {c1, c2}
  None = None
  MaxTries = 1
  MaxLogins = 1
  MaxCrashes = 1
INVARIANTS TypeOK SoleOwner FirstStartersAgree StoppedStaysStopped
PROPERTIES StartsSucceed CommandsEnd
CHECK_DEADLOCK FALSE
