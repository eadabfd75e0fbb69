SPECIFICATION FromInScope
CONSTANTS
  a = a
  m = m
  ua = ua
  um = um
  v = v
  Stps = {a, m}
  Vlans = {v}
  Upas = {ua, um}
  upa_of <- MCUpaOf
  Connections = {c1, c2}
  UpaConnections = {h1, h2}
  UpaStates <- MCUpaStates
  Paths <- MCPaths
  MaxChanges = 1
SYMMETRY Symmetry
INVARIANTS
  TypeOK
PROPERTIES
  SteadyPairsAreReported
CHECK_DEADLOCK FALSE
