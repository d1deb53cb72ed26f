SPECIFICATION MCSpec
CONSTANTS
  p1 = p1
  p2 = p2
  p3 = p3
  Preflights = {p1, p2, p3}
SYMMETRY Alike
INVARIANTS
  CleanUnlessCut
  ImportsOnlyOwn
  PreflightLeavesNothing
CHECK_DEADLOCK FALSE
