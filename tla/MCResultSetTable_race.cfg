SPECIFICATION Spec
CONSTANTS
  t1 = t1
  t2 = t2
  u1 = u1
  u2 = u2
  Thread <- TwoThreads
  MaxKey = 3
  Utils = {u1, u2}
  UtilsOf <- OwnUtils
  ResultSet = {r1, r2}
  NoThread = NoThread
  NoResultSet = NoResultSet
PROPERTIES ReturnedKeyIsFree
