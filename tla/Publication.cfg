SPECIFICATION Spec
CONSTANTS
  v1 = v1
  r2 = r2
  b1 = b1
  Run = {r1, r2}
  Batch = {b1, b2}
  Version = {v1}
  Scope <- OneDocument
  Revalidate <- SecondRevalidates
  Amount <- TwoRevenues
  SourceVerdict = {"VALIDATED"}
  Earlier <- FromEarlierRun
  Extracted <- OppositeAndMargin
  MaxCandidates = 1
  MaxReports <- FirstTwice
  MaxInvalid = 1
  None = None
INVARIANT TypeOK
PROPERTIES AnswerStands DerivedFromValid LatestReportDecides
CHECK_DEADLOCK FALSE
