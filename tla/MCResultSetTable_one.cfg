SPECIFICATION FairSpec
CONSTANTS
  t1 = t1
  t2 = t2
  u1 = u1
  u2 = u2
  Thread <- OneThread
  MaxKey = 4
  Utils = {u1, u2}
  UtilsOf <- OwnUtils
  ResultSet = {r1, r2, r3, r4, r5}
  NoThread = NoThread
  NoResultSet = NoResultSet
INVARIANTS TypeOK HeldKeysAreMine
PROPERTIES ImplementsIds FullOnlyWhenFull SearchAdvances SearchEnds
