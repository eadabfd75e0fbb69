SPECIFICATION Spec
CONSTANTS
  in = in
  out = out
  Networks = {n1, n2, n3, n4}
  Stps <- MCStps
  network_of <- MCNetworkOf
  Sources <- MCSources
  Destinations <- MCDestinations
  Sdps <- MCSdps
  MaxIncluded = 3
  MaxSdps = 2
SYMMETRY Symmetry
INVARIANTS
  TypeOK
  NamesShortestRoute
  RefusesOnlyUnroutable
  ShortestFirst
  ReachedByRoute
CHECK_DEADLOCK FALSE
