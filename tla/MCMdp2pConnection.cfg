CONSTANTS
  Procs = {p1, p2}
  MaxReservations = 3
  MaxCallbacks = 3
SPECIFICATION Spec
SYMMETRY Symmetry
CHECK_DEADLOCK FALSE
INVARIANTS
  TypeOK
  LockExclusive
  ClosedHoldsNothing
  InSyncAgrees
  NoErrorWhileUp
  ConnectionAtHand
  IInv
  Agreement
PROPERTIES
  LeftBehindOnlyByStaleForms
  HandleKept
  TerminatedForGood
  ImplementsLedger
  KeepsTheLock
