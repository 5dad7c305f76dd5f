SPECIFICATION Spec
CONSTANTS
  s1 = s1
  s2 = s2
  m1 = m1
  m2 = m2
  k1 = k1
  k2 = k2
  p1 = p1
  p2 = p2
  a = a
  b = b
  c = c
  Server = {s1, s2}
  Mapping = {m1, m2}
  ServerOf <- TheServer
  Key = {k1, k2}
  MappingOf <- TheMapping
  Portal = {p1}
  Scan = {a, b, c}
  PortalOf <- OnePlan
  KeyOf <- TwoKeys
  ResultSetId = {1, 2, 3}
  Reset = Reset
  NULL = NULL
  LookupsAge = FALSE
  CloseFails = FALSE
  InvalWhileCached = FALSE
  Overlap = FALSE
  Messages = FALSE
  MaxConns = 2
  MaxInfos = 2
  MaxStmts = 3
  MaxVersion <- ServerAlter
INVARIANTS ScanTypeOK ScansUsable RowsOfOwnQuery IdleIsClean NoStaleConnection ScansConnected
SYMMETRY SameScans
