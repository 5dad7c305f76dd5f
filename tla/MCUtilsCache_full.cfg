SPECIFICATION CacheSpec
CONSTANTS
  s1 = s1
  s2 = s2
  m1 = m1
  m2 = m2
  k1 = k1
  k2 = k2
  Server = {s1}
  Mapping = {m1, m2}
  ServerOf <- FirstServer
  Key = {k1, k2}
  MappingOf <- OwnMapping
  Reset = Reset
  NULL = NULL
  LookupsAge = FALSE
  CloseFails = TRUE
  InvalWhileCached = TRUE
  MaxConns = 3
  MaxInfos = 2
  MaxVersion <- TwoAlter
INVARIANTS UtilsTypeOK CachedInfoLive CachedConnOpen HandedOutIsCachedOrFreed IdleHoldsNothing LiveIsHashed
PROPERTY OnlyMessagesEndReferences
