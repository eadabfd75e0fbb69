SPECIFICATION Spec
CONSTANTS
  Stps <- McStps
  Vlans <- McVlans
  label_group <- McLabelGroup
  AggregatorReservations <- McAggregatorReservations
  UpaReservations <- McUpaReservations
CHECK_DEADLOCK FALSE
INVARIANTS
  OffersExactlyTheFree
  ReportNamesEveryHolder
