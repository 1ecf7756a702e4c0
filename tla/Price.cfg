SPECIFICATION Spec
CONSTANTS
    StartTime <- Boundaries
    MaxSpan = 9
    RequestBytes = {100, 101}
    OutputLimit = {512}
    Reports <- NearlyFull
    Absent = Absent
    Malformed = Malformed
CHECK_DEADLOCK FALSE
INVARIANTS OverrunMeansInput SettledAtAnyInstant CopiesAgree
