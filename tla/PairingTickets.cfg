SPECIFICATION Safety
CONSTANTS
  s1 = s1 s2 = s2 s3 = s3 i1 = i1 j1 = j1 j2 = j2 j3 = j3
  Sessions = {s1, s2, s3}
  Invites = {i1}
  Joiners = {j1, j2, j3}
  Inviter = inviter
  TicketOf <- SharedTicket
  JoinerOf <- ThreeJoiners
  MaxAttempts = 2
  MaxCrashes = 0
CONSTRAINTS Calm ThirdStops
SYMMETRY Alike
INVARIANTS TypeOK AttemptsBounded
PROPERTIES FinishedInviteAdmitsNoMore
CHECK_DEADLOCK FALSE
