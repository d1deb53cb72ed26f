SPECIFICATION Spec
CONSTANTS
  None = None
  Torn = Torn
  a = a
  b = b
  short = short
  long = long
  huge = huge
  small = small
  full = full
  forged = forged
  odd = odd
  Names = {a, b}
  Contents = {short, long, huge}
  Size <- MCSize
  Manifests = {small, full, forged, odd}
  Lists <- MCLists
  Signed = {small, full, odd}
  WellFormed = {small, full, forged}
  Generated <- MCGenerated
  Expires <- MCExpires
  Tolerance = 1
  Times = {0, 1, 3}
  MaxBytes = 3
INVARIANTS
  Inv
  AcceptedIsSigned
  CopiesBounded
  VerdictOfStillSnapshot
