SPECIFICATION Spec
CONSTANTS
  old = old
  new = new
  twin = twin
  forged = forged
  Snapshots = {old, new, twin, forged}
  None = None
  Revision <- MCRevision
  Trusted <- MCTrusted
  ExpiresAt <- MCExpiresAt
  MaxTime = 2
INVARIANTS
  Inv
  ServedIsBaseline
  WatchdogVerdictKept
PROPERTIES
  BaselineMovesForward
  BaselineWasBuilt
  ServiceSpec
