SPECIFICATION Spec
CONSTANTS
  Strings <- MCStrings
  Fold <- MCFold
  Uuids <- MCUuids
  BaseUuid = "base"
  container_uuid <- MCContainerUuid
  UserItems <- MCUserItems
  GroupItems <- MCGroupItems
  BindItems <- MCBindItems
  MaxItems = 2
INVARIANTS
  AcceptedIsServable
  LoginsUnambiguous
  MembershipsAsWritten
  OnlyActiveServed
