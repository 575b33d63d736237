SPECIFICATION Spec
CONSTANTS
  s1 = s1 s2 = s2 s3 = s3 i1 = i1 j1 = j1 j2 = j2 j3 = j3
  Sessions = {s1}
  Invites = {i1}
  Joiners = {j1}
  Inviter = inviter
  TicketOf <- SoleTicket
  JoinerOf <- SoleJoiner
  MaxAttempts = 1
  MaxCrashes = 2
INVARIANTS MutualConsent NoSplitVerdict UndisturbedConsentPairs
PROPERTIES ExchangesEnd ImplementsMutualTrust
CHECK_DEADLOCK FALSE
