SPECIFICATION Spec
CONSTANTS
  s1 = s1
  s2 = s2
  m1 = m1
  m2 = m2
  k1 = k1
  k2 = k2
  p1 = p1
  p2 = p2
  a = a
  b = b
  c = c
  Server = {s1}
  Mapping = {m1}
  ServerOf <- TheServer
  Key = {k1}
  MappingOf <- TheMapping
  Portal = {p1}
  Scan = {a, b}
  PortalOf <- OnePlan
  KeyOf <- OneKey
  ResultSetId = {1, 2}
  Reset = Reset
  NULL = NULL
  LookupsAge = FALSE
  CloseFails = TRUE
  InvalWhileCached = TRUE
  Overlap = FALSE
  Messages = FALSE
  MaxConns = 1
  MaxInfos = 2
  MaxStmts = 3
  MaxVersion <- ServerAlter
INVARIANTS ScansUsable
