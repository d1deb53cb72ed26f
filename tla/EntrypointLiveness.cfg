SPECIFICATION FairSpec
CONSTANTS
  old = old
  new = new
  twin = twin
  forged = forged
  Snapshots = {old, new}
  None = None
  Revision <- MCRevision
  Trusted <- MCTrusted
  ExpiresAt <- MCExpiresAt
  MaxTime = 1
PROPERTIES
  ExpiryEndsService
  UnwatchedServiceEnds
  ShutdownHonoured
