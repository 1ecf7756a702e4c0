SPECIFICATION FairSpec
CONSTANTS
  i1 = i1
  i2 = i2
  w1 = w1
  w2 = w2
  Job = {j1, j2}
  Worker = {w1}
  Instance = {i1, i2}
  RunOwner = i1
  M4RecoveryEnabled = FALSE
  ProbeEnabled = FALSE
  MaxTrouble = 1
  Serves <- ServedByAll
  None = None
PROPERTIES JobEnds NoCallHangs
CHECK_DEADLOCK FALSE
