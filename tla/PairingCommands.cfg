SPECIFICATION Spec
CONSTANTS
  c1 = c1 c2 = c2 p1 = p1 r1 = r1 r2 = r2
  Invites = {c1, c2}
  Pairs = {p1}
  Requests = {r1, r2}
  None = None
INVARIANTS TypeOK RequestHeard ReportsAreReal PairedWasConfirmed
PROPERTIES FirstAnswerCounts PairEnds InviteEnds
CONSTRAINT ThreeParts
CHECK_DEADLOCK FALSE
