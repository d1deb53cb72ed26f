SPECIFICATION MCSpec
CONSTANTS
  None = None
  Names <- MCNames
  Fold <- MCFold
  Oids <- MCOids
  Means <- MCMeans
  Catalog <- MCCatalog
  Olc = {"olcaccess"}
  Ordinary = {"cn", "display", "fax", "nick", "olc", "member", "uuid", "rest"}
  SingleValued = {"display"}
  Schemas <- MCSchemas
  Requests <- MCRequests
  MaxDepth = 2
  MaxAttributes = 2
  MaxValues = 2
  NoClass = NoClass
  Yaml = "yaml"
  Sources = {"k"}
  Definitions <- MCDefinitions
  w1 = w1
  w2 = w2
  Passwords = {w1, w2}
  Large = Large
  Malformed = Malformed
  Nodes = {1, 2}
  Absent = Absent
  NoPassword = NoPassword
  NotEncrypted = NotEncrypted
  MaxVaultValues = 2
  MaxEdits = 2
  person = person
  aux = aux
  mixin = mixin
  parent = parent
  extensible = extensible
  ClassNames <- MCClassNames
  Classes = {person, aux, mixin, parent, extensible}
  ClassOf <- MCClassOf
  Kind <- MCKind
  Extensible = extensible
  Base = {"person"}
  ClassSchemas <- MCClassSchemas
  ClassRequests <- MCClassRequests
  MaxVisits = 4
  MaxClasses = 2
INVARIANTS
  OnePrivatePassword
  VaultLimits
  NothingStructuralInherited
  GeneratedKept
  Storable
  MergedIfAdmissible
PROPERTY
  InputEnds
