SPECIFICATION Spec
CONSTANTS
  Revisions = {1, 2}
  Soft <- MCSoft
  Hard <- MCHard
  MaxTime = 3
  KeepsRuntime = TRUE
  CanHang = FALSE
  MaxFailures = 2
  Callers = {"backstop"}
  None = None
  Torn = Torn
INVARIANT
  ReportIsOfServed
