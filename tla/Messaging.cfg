SPECIFICATION Spec
CONSTANTS
  Low = low
  High = high
  None = None
  k1 = k1 k2 = k2
  Sends = {k1, k2}
  MaxHits = 2
INVARIANTS TypeOK SentMeansStored LowerDialSucceeds RevokedNeverStored
PROPERTIES FailedNotReused ImplementsDelivery SendsSettle
CONSTRAINT InOrder
ACTION_CONSTRAINT AgainUnsaved
CHECK_DEADLOCK FALSE
