SPECIFICATION FairSpec
CONSTANTS
  i1 = i1
  i2 = i2
  Document = {d1, d2}
  Version = {v1, v2}
  Query = {q1}
  Instance = {i1, i2}
  Survivor = i2
  MaxTrouble = 2
  None = None
INVARIANTS RevokedIsGone ReadyIsWhole
PROPERTIES ReadyStays GivenUpStays ReadInScope BrokenScopeStays VersionSettles
CHECK_DEADLOCK FALSE
