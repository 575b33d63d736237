SPECIFICATION Spec
CONSTANTS
  Low = low
  High = high
  None = None
  k1 = k1 k2 = k2
  Sends = {k1, k2}
  MaxHits = 0
PROPERTIES WrittenTextIsRead
CONSTRAINT InOrder
CHECK_DEADLOCK FALSE
