SPECIFICATION Spec
CONSTANTS
  None = None
  Other = Other
  i1 = i1
  i2 = i2
  g1 = g1
  g2 = g2
  old = old
  lacking = lacking
  broken = broken
  Inits = {i1, i2}
  Generators = {g1, g2}
  Versions = {old, lacking, broken}
  Valid = {old, lacking}
  Supporting = {old}
SYMMETRY RunSymmetry
INVARIANTS
  PublishedComplete
  PublishedSchemaSupports
  NothingLeft
  Inv
PROPERTIES
  NeverReplaced
