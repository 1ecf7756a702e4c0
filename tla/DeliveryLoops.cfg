SPECIFICATION FairSpec
CONSTANTS
  j1 = j1
  c1 = c1
  m1 = m1
  m2 = m2
  Job = {j1}
  Consumer = {c1}
  MsgId = {m1, m2}
  MaxCopies = 2
  MaxTrouble = 2
  NoJob = NoJob
INVARIANT VerdictMeansEnded
PROPERTIES OnlySettledLeaves OrphanResumed PendingDrains
