SPECIFICATION Spec
CONSTANTS
  i1 = i1
  i2 = i2
  w1 = w1
  w2 = w2
  Job = {j1}
  Worker = {w1, w2}
  Instance = {i1, i2}
  RunOwner = i1
  M4RecoveryEnabled = TRUE
  ProbeEnabled = TRUE
  MaxTrouble = 1
  Serves <- ServedByOne
  None = None
INVARIANTS NoOpenCallInherited EndTellsLedger FailedProbeStays
PROPERTIES SupersededStaysOut ImplementsDurableJob
CHECK_DEADLOCK FALSE
