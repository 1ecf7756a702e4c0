SPECIFICATION FairSpec
CONSTANTS
  r1 = r1
  r2 = r2
  j1 = j1
  b1 = b1
  q = q
  i1 = i1
  i2 = i2
  legacy = legacy
  answer = answer
  extract = extract
  old = old
  M3 = m3
  NoJob = NoJob
  NoBatch = NoBatch
  None = None
  Call = {answer}
  Run = {r1}
  Job = {}
  Batch = {b1}
  Sub = {q}
  Instance = {i1}
  Experiment = {m3}
  Charge <- MCAnyCharge
  Together <- MCTogether
  Serves <- MCServes
  Request <- MCRequest
  Contract <- MCContract
  Limit <- MCLimit
  SubLimit <- MCSubLimit
PROPERTY ManualHaltStays
