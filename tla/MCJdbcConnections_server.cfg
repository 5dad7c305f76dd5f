SPECIFICATION HashSpec
CONSTANTS
  s1 = s1
  m1 = m1
  m2 = m2
  Server = {s1}
  Mapping = {m1, m2}
  ServerOf <- OneServer
  Reset = Reset
  NULL = NULL
  LookupsAge = FALSE
  CloseFails = FALSE
  MaxConns = 2
  MaxVersion <- ServerAlter
INVARIANTS NoStaleConnection
