SPECIFICATION Spec
CONSTANTS
  ExpiresAt = 9
  MaxSleep = 4
  PollSleep = 2
  Start = 0
  MaxTime = 18
  Leaps <- MCLeaps
INVARIANTS
  OverrunBounded
PROPERTIES
  StoppedNearExpiry
CHECK_DEADLOCK FALSE
