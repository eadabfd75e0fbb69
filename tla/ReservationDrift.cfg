SPECIFICATION FromFailedCreate
CONSTANTS
  Procs = {p1}
  MaxReservations = 3
  MaxCallbacks = 4
  Ignorable = {2}
INVARIANTS
  DriftTypeOK
PROPERTIES
  VerdictIsRight
  FalseReportsAreOfChanges
CHECK_DEADLOCK FALSE
