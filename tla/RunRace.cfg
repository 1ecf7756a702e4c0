SPECIFICATION FairSpec
CONSTANTS
  i1 = i1
  i2 = i2
  Run = {r1}
  Instance = {i1, i2}
  Survivor = i2
  PageLimit = 6
  MaxTool = 1
  MaxCosts = 1
  MaxTrouble = 2
  None = None
INVARIANT StreamEndsWithDone
PROPERTIES ImplementsRunOutcome TakenOverIsFinal AnswerInTime RunEnds ReaderServed
CHECK_DEADLOCK FALSE
