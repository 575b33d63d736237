SPECIFICATION Spec
CONSTANTS
  Peers = {a, b}
  Ids = {m1, m2, m3}
  Capacity = 2
  Limits = {2}
  Nobody = Nobody
  MaxAccepted = 4
  MaxSends = 2
SYMMETRY Interchangeable
INVARIANTS LatestGlobalFound
CHECK_DEADLOCK FALSE
