SPECIFICATION Spec
CONSTANTS
  a = a
  z = z
  x = x
  y = y
  d = d
  Circuits = {c1, c2}
  Procs = {p1, p2}
  Stps <- McStps
  label_group <- McLabelGroup
  Sdps <- McSdps
  stps_of <- McStpsOf
  Routable <- McRoutable
  Requests <- McRequests
  MaxReservations = 3
  MaxStarts = 3
SYMMETRY Symmetry
CHECK_DEADLOCK FALSE
INVARIANTS
  TypeOK
  IInv
  FreeWhenListed
  ConnectionIsForStored
PROPERTIES
  OwnVlansAreOffered
  LeftBehindOnlyByStaleForms
  KeepsTheLock
