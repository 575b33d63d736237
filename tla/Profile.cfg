SPECIFICATION Spec
CONSTANTS
  Ids <- MCIds
  Texts <- MCTexts
  Valid <- MCValid
  Names <- MCNames
  NewAliases <- MCNewAliases
  Fold <- MCFold
  Short <- MCShort
  Numbered <- MCNumbered
  StartsWith <- MCStartsWith
  LastSuffix = 4
  Limits = {1, 2}
  DefaultLimit = 2
  Missing = Missing
  MaxPairings = 3
  MaxStarts = 3
CONSTRAINTS OverlapsEarly ThirdAfterRace
INVARIANTS TypeOK AliasFindsPeer RevokedStaysOut IdentityMatchesPeers SavedIsMemory LimitInForce
PROPERTY ImplementsAddressBook
CHECK_DEADLOCK FALSE
