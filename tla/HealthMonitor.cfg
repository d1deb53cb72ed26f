SPECIFICATION FairSpec
CONSTANTS
  Revisions = {1, 2}
  Soft <- MCSoft
  Hard <- MCHard
  MaxTime = 3
  KeepsRuntime = FALSE
  CanHang = TRUE
  MaxFailures = 2
  Callers = {"backstop", "operator"}
  None = None
  Torn = Torn
INVARIANTS
  Inv
  ReportIsOfServed
PROPERTIES
  StopHasCause
  ExpiredNotAnswered
