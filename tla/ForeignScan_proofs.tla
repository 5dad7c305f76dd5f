------------------------- MODULE ForeignScan_proofs -------------------------
(***************************************************************************)
(* Theorems about ForeignScan, for every set of portals and scans and every *)
(* value of the bounds; whatever overlaps, but for UsableCorrect and         *)
(* ConnectedCorrect.                                                        *)
(***************************************************************************)
EXTENDS ForeignScan, UtilsCache_proofs

(* The callbacks use the connection cache by its operations only.            *)
THEOREM ScanUsesCache == Spec => CacheSpec
<1>1. Init => CacheInit
  BY DEF Init
<1>2. [Next]_vars => [CacheNext]_cacheVars
  <2> SUFFICES ASSUME Next PROVE CacheNext \/ UNCHANGED cacheVars
    BY DEF vars, scanVars
  <2>1. ASSUME NEW s \in Scan,
               \/ PlanForeignScan(s) \/ PlanForeignScanFails(s)
               \/ BeginForeignScan(s) \/ BeginForeignScanFails(s)
        PROVE  CacheNext
    <3>1. KeyOf[s] \in Key
      BY ScanAssumption
    <3>2. GetUtils(KeyOf[s]) \/ GetUtilsFails(KeyOf[s]) \/ UseUtilsOnce(KeyOf[s])
      BY <2>1 DEF PlanForeignScan, PlanForeignScanFails, BeginForeignScan, BeginForeignScanFails
    <3> QED
      BY <3>1, <3>2 DEF CacheNext
  <2>2. ASSUME NEW s \in Scan, EndForeignScan(s) PROVE CacheNext
    BY <2>2 DEF EndForeignScan, ReleaseJdbcUtils, Release, CacheNext
  <2>3. ASSUME NEW s \in Scan,
               \/ IterateRow(s) \/ IterateEnd(s) \/ ReScanEarly(s) \/ ReScanForeignScan(s)
               \/ ExplainForeignScan(s)
        PROVE  UNCHANGED cacheVars
    BY <2>3 DEF IterateRow, IterateEnd, ReScanEarly, ReScanForeignScan, ExplainForeignScan
  <2>4. ASSUME NEW p \in Portal, StartPortal(p) \/ PortalRunReturns(p)
        PROVE  UNCHANGED cacheVars
    BY <2>4 DEF StartPortal, PortalRunReturns
  <2>5. ASSUME NEW p \in Portal, ScanCallFails(p) \/ PortalFails(p)
        PROVE  CacheNext \/ UNCHANGED cacheVars
    BY <2>5 DEF ScanCallFails, PortalFails, ReleaseJdbcUtils, Release, CacheNext,
                cacheVars, utilsVars
  <2>6. ASSUME NEW k \in Key, JdbcExec(k) PROVE CacheNext
    BY <2>6 DEF JdbcExec, CacheNext
  <2>7. CASE EmitMessage
    BY <2>7 DEF EmitMessage, ReleaseJdbcUtils, Release, CacheNext
  <2>8. CASE XactEnd
    BY <2>8 DEF XactEnd, CacheNext
  <2>9. ASSUME NEW r \in Row \cup {Reset}, ScanInval(r) PROVE CacheNext
    BY <2>9 DEF ScanInval, CacheNext
  <2>10. CASE Environment /\ UNCHANGED scanVars
    BY <2>10 DEF CacheNext
  <2> QED
    BY <2>1, <2>2, <2>3, <2>4, <2>5, <2>6, <2>7, <2>8, <2>9, <2>10 DEF Next
<1> QED
  BY <1>1, <1>2, PTL DEF Spec, CacheSpec
-----------------------------------------------------------------------------
(* The types, in three parts: the statements, the table, the scan states.    *)
Stmt == [info : Nat, open : BOOLEAN]

LEMMA ClosedType ==
  ASSUME stmts \in Seq(Stmt), NEW S
  PROVE  Closed(S) \in Seq(Stmt) /\ DOMAIN Closed(S) = DOMAIN stmts
<1>1. stmts \in [1..Len(stmts) -> Stmt] /\ Len(stmts) \in Nat
  OBVIOUS
<1>2. Closed(S) \in [1..Len(stmts) -> Stmt]
  BY <1>1 DEF Closed, Stmt
<1> QED
  BY <1>1, <1>2

LEMMA CancelledType ==
  ASSUME stmts \in Seq(Stmt), NEW I
  PROVE  Cancelled(I) \in Seq(Stmt) /\ DOMAIN Cancelled(I) = DOMAIN stmts
BY ClosedType DEF Cancelled

(* What a new query does: a statement, an identifier nobody had, an entry of *)
(* the table, and the scan state that names them.                            *)
LEMMA Executed ==
  ASSUME ScanTypeOK, NEW s \in Scan, NEW i \in Nat, NEW new, ExecId(s, i, new),
         \/ new = NoState
         \/ new \in ScanState
  PROVE  \E id \in ResultSetId \ DOMAIN owner, st \in ScanState :
           /\ DOMAIN owner' = DOMAIN owner \cup {id}
           /\ owner'[id] = [holder |-> s, resultSet |-> Len(stmts) + 1]
           /\ \A j \in DOMAIN owner : owner'[j] = owner[j]
           /\ fsstate' = [fsstate EXCEPT ![s] = st]
           /\ st.resultSetID = id /\ st.stmt = Len(stmts) + 1 /\ ~st.eof /\ st.info = i
           /\ stmts' \in Seq(Stmt) /\ DOMAIN stmts' = DOMAIN stmts \cup {Len(stmts) + 1}
           /\ Len(stmts) + 1 \notin DOMAIN stmts /\ stmts'[Len(stmts) + 1].open
           /\ \A k \in DOMAIN stmts : stmts'[k] = stmts[k]
<1> DEFINE n == Len(stmts) + 1
<1>1. PICK id \in ResultSetId :
        /\ Ids!Acquire(s, id, n)
        /\ fsstate' = [fsstate EXCEPT ![s] =
                         [new EXCEPT !.info = i, !.resultSetID = id, !.stmt = n, !.eof = FALSE]]
  BY DEF ExecId
<1>2. /\ id \notin DOMAIN owner
      /\ owner' = [j \in DOMAIN owner \cup {id} |-> IF j = id THEN [holder |-> s, resultSet |-> n] ELSE owner[j]]
  BY <1>1 DEF Ids!Acquire
<1>3. stmts \in Seq(Stmt) /\ [info |-> i, open |-> TRUE] \in Stmt
  BY DEF ScanTypeOK, Stmt
<1>4. /\ stmts' \in Seq(Stmt) /\ DOMAIN stmts' = DOMAIN stmts \cup {n} /\ n \in Nat
      /\ n \notin DOMAIN stmts /\ stmts'[n] = [info |-> i, open |-> TRUE]
      /\ \A k \in DOMAIN stmts : stmts'[k] = stmts[k]
  BY <1>3 DEF ExecId
<1> DEFINE st == [new EXCEPT !.info = i, !.resultSetID = id, !.stmt = n, !.eof = FALSE]
<1>5. st \in ScanState /\ st.resultSetID = id /\ st.stmt = n /\ ~st.eof /\ st.info = i
  <2>1. CASE new = NoState
    BY <1>4, <2>1 DEF NoState, ScanState
  <2>2. CASE new \in ScanState
    BY <1>4, <2>2 DEF ScanState
  <2> QED
    BY <2>1, <2>2
<1> HIDE DEF st
<1>6. fsstate' = [fsstate EXCEPT ![s] = st]
  BY <1>1 DEF st
<1>7. /\ id \in ResultSetId \ DOMAIN owner
      /\ DOMAIN owner' = DOMAIN owner \cup {id}
      /\ owner'[id] = [holder |-> s, resultSet |-> n]
      /\ \A j \in DOMAIN owner : owner'[j] = owner[j]
  BY <1>2
<1>8. stmts'[n].open
  BY <1>4
<1> QED
  BY <1>4, <1>5, <1>6, <1>7, <1>8, Zenon
-----------------------------------------------------------------------------
(* RowsOfOwnQuery, also for a portal that is ending.                         *)
OwnRows ==
  \A s \in Scan :
    fsstate[s] # NULL /\ ~fsstate[s].eof =>
      LET id == fsstate[s].resultSetID IN
      id \in DOMAIN owner /\ owner[id] = [holder |-> s, resultSet |-> fsstate[s].stmt]

ScanInv == ScanTypeOK /\ OwnRows /\ IdleIsClean

LEMMA ScanInvInductive == Spec => []ScanInv
<1>1. Init => ScanInv
  <2> SUFFICES ASSUME Init PROVE ScanInv
    OBVIOUS
  <2>1. DOMAIN owner = {} /\ stmts \in Seq(Stmt)
    BY DEF Init, Ids!Init
  <2>2. fsstate = [s \in Scan |-> NULL] /\ InUse = {}
    BY DEF Init, CacheInit, InUse
  <2>3. ScanTypeOK
    BY <2>1, <2>2 DEF Init, ScanTypeOK, Stmt
  <2> QED
    BY <2>1, <2>2, <2>3 DEF ScanInv, OwnRows, IdleIsClean, OpenScans
<1>2. ScanInv /\ CacheInv /\ CacheInv' /\ [Next]_vars => ScanInv'
  <2> SUFFICES ASSUME ScanInv, CacheInv, CacheInv', [Next]_vars PROVE ScanInv'
    OBVIOUS
  <2> USE DEF ScanInv
  <2>t. /\ UtilsTypeOK /\ UtilsTypeOK' /\ (~xact_got_connection' => InUse' = {})
        /\ stmts \in Seq(Stmt)
    BY DEF CacheInv, EntriesInv, IdleHoldsNothing, ScanTypeOK, Stmt
  \* Steps that leave the table as it is, and begin no scan.
  <2>a. ASSUME UNCHANGED owner,
               portal' \in [Portal -> {"none", "open", "ending", "explain"}],
               leftCallbacks' \subseteq Portal,
               stmts' \in Seq(Stmt), DOMAIN stmts' = DOMAIN stmts,
               xact_got_connection => xact_got_connection',
               fsstate' \in [Scan -> ScanState \cup {NULL}],
               \A s \in Scan : fsstate'[s] # NULL =>
                 /\ fsstate[s] # NULL
                 /\ fsstate'[s].resultSetID = fsstate[s].resultSetID
                 /\ fsstate'[s].stmt = fsstate[s].stmt
                 /\ fsstate'[s].eof = fsstate[s].eof
        PROVE  ScanInv'
    <3>1. ScanTypeOK'
      BY <2>a DEF ScanTypeOK, Stmt
    <3>2. OwnRows'
      BY <2>a DEF OwnRows
    <3>3. IdleIsClean'
      BY <2>a, <2>t DEF IdleIsClean, OpenScans
    <3> QED
      BY <3>1, <3>2, <3>3
  \* Steps that run a query.
  <2>b. ASSUME NEW s \in Scan, NEW i \in Nat, NEW new, ExecId(s, i, new),
               new = NoState \/ new \in ScanState,
               UNCHANGED <<portal, leftCallbacks>>, xact_got_connection' = TRUE
        PROVE  ScanInv'
    <3>1. PICK id \in ResultSetId \ DOMAIN owner, st \in ScanState :
           /\ DOMAIN owner' = DOMAIN owner \cup {id}
           /\ owner'[id] = [holder |-> s, resultSet |-> Len(stmts) + 1]
           /\ \A j \in DOMAIN owner : owner'[j] = owner[j]
           /\ fsstate' = [fsstate EXCEPT ![s] = st]
           /\ st.resultSetID = id /\ st.stmt = Len(stmts) + 1 /\ ~st.eof
           /\ stmts' \in Seq(Stmt) /\ DOMAIN stmts' = DOMAIN stmts \cup {Len(stmts) + 1}
      BY <2>b, Executed
    <3>2. ScanTypeOK'
      BY <2>b, <3>1 DEF ScanTypeOK, Stmt
    <3>3. OwnRows'
      <4> SUFFICES ASSUME NEW r \in Scan, fsstate'[r] # NULL, ~fsstate'[r].eof
                   PROVE  LET j == fsstate'[r].resultSetID IN
                          j \in DOMAIN owner' /\ owner'[j] = [holder |-> r, resultSet |-> fsstate'[r].stmt]
        BY DEF OwnRows
      <4>1. CASE r = s
        <5>1. fsstate'[s] = st
          BY <3>1 DEF ScanTypeOK
        <5> QED
          BY <3>1, <4>1, <5>1
      <4>2. CASE r # s
        <5>1. fsstate'[r] = fsstate[r]
          BY <3>1, <4>2 DEF ScanTypeOK
        <5>2. LET j == fsstate[r].resultSetID IN
              j \in DOMAIN owner /\ owner[j] = [holder |-> r, resultSet |-> fsstate[r].stmt]
          BY <5>1 DEF OwnRows
        <5> QED
          BY <3>1, <5>1, <5>2
      <4> QED
        BY <4>1, <4>2
    <3> QED
      BY <2>b, <3>2, <3>3 DEF IdleIsClean
  <2>1. ASSUME NEW s \in Scan, PlanForeignScan(s) PROVE ScanInv'
    BY <2>1, <2>a, <2>t DEF PlanForeignScan, scanVars, GetUtils, ReuseUtils, ConnectUtils, ScanTypeOK
  <2>2. ASSUME NEW s \in Scan, PlanForeignScanFails(s) PROVE ScanInv'
    BY <2>2, <2>a, <2>t, CancelledType DEF PlanForeignScanFails, GetUtilsFails, ScanTypeOK
  <2>3. ASSUME NEW p \in Portal, StartPortal(p) \/ PortalRunReturns(p) PROVE ScanInv'
    BY <2>3, <2>a, <2>t DEF StartPortal, PortalRunReturns, cacheVars, utilsVars, ScanTypeOK
  <2>4. ASSUME NEW s \in Scan, BeginForeignScan(s) PROVE ScanInv'
    <3>1. KeyOf[s] \in Key
      BY ScanAssumption
    <3>2. CASE ReuseUtils(KeyOf[s])
      <4>1. jdbcUtilsInfo'[KeyOf[s]] \in DOMAIN info /\ info \in Seq(JDBCUtilsInfo)
        BY <2>t, <3>1, <3>2 DEF ReuseUtils, UtilsTypeOK
      <4> QED
        BY <2>4, <2>b, <3>2, <4>1 DEF BeginForeignScan, ReuseUtils
    <3>3. CASE ConnectUtils(KeyOf[s])
      <4>1. jdbcUtilsInfo'[KeyOf[s]] = Len(info) + 1 /\ Len(info) \in Nat
        BY <2>t, <3>1, <3>3 DEF ConnectUtils, UtilsTypeOK
      <4> QED
        BY <2>4, <2>b, <3>3, <4>1 DEF BeginForeignScan, ConnectUtils
    <3> QED
      BY <2>4, <3>2, <3>3 DEF BeginForeignScan, GetUtils
  <2>5. ASSUME NEW s \in Scan, BeginForeignScanFails(s) PROVE ScanInv'
    <3>1. stmts' \in Seq(Stmt) /\ DOMAIN stmts' = DOMAIN stmts
      BY <2>5, <2>t, CancelledType DEF BeginForeignScanFails, OthersCancelled
    <3>2. DropPortal(PortalOf[s]) /\ xact_got_connection' = TRUE
      BY <2>5 DEF BeginForeignScanFails, UseUtilsOnce, GetUtilsFails
    <3>3. PortalOf[s] \in Portal
      BY ScanAssumption
    <3> QED
      BY <2>a, <3>1, <3>2, <3>3 DEF DropPortal, Dropped, ScanTypeOK
  <2>6. ASSUME NEW s \in Scan, IterateRow(s) PROVE ScanInv'
    <3>1. fsstate[s] # NULL
      BY <2>6 DEF IterateRow, Callable, ScansOf
    <3>2. fsstate[s] \in ScanState
      BY <3>1 DEF ScanTypeOK
    <3> DEFINE st == [fsstate[s] EXCEPT !.cursor_exists = TRUE]
    <3>3. /\ st \in ScanState /\ st.resultSetID = fsstate[s].resultSetID
          /\ st.stmt = fsstate[s].stmt /\ st.eof = fsstate[s].eof
      BY <3>2 DEF ScanState
    <3>4. fsstate' = [fsstate EXCEPT ![s] = st]
      BY <2>6 DEF IterateRow
    <3> HIDE DEF st
    <3>5. UNCHANGED <<portal, owner, stmts, leftCallbacks, xact_got_connection>>
      BY <2>6 DEF IterateRow, cacheVars, utilsVars
    <3> QED
      BY <2>a, <2>t, <3>1, <3>3, <3>4, <3>5 DEF ScanTypeOK
  <2>7. ASSUME NEW s \in Scan, IterateEnd(s) PROVE ScanInv'
    <3> DEFINE id == fsstate[s].resultSetID
               st == [fsstate[s] EXCEPT !.cursor_exists = TRUE, !.eof = TRUE]
    <3>1. fsstate[s] # NULL /\ ~fsstate[s].eof
      BY <2>7 DEF IterateEnd, Callable, ScansOf
    <3>2. fsstate[s] \in ScanState
      BY <3>1 DEF ScanTypeOK
    <3>3. st \in ScanState /\ st.eof
      BY <3>2 DEF ScanState
    <3>4. fsstate' = [fsstate EXCEPT ![s] = st]
      BY <2>7 DEF IterateEnd
    <3> HIDE DEF st
    <3>5. /\ DOMAIN owner' = DOMAIN owner \ {id}
          /\ \A j \in DOMAIN owner' : owner'[j] = owner[j]
          /\ id \in DOMAIN owner
      BY <2>7 DEF IterateEnd, Ids!Restricted, ScanTypeOK
    <3>6. stmts' \in Seq(Stmt) /\ DOMAIN stmts' = DOMAIN stmts
      BY <2>7, <2>t, ClosedType DEF IterateEnd
    <3>7. UNCHANGED <<portal, leftCallbacks, xact_got_connection>>
      BY <2>7 DEF IterateEnd, cacheVars, utilsVars
    <3>8. owner[id].holder = s
      <4>1. owner[id] = [holder |-> s, resultSet |-> fsstate[s].stmt]
        BY <3>1 DEF OwnRows
      <4> QED
        BY <4>1
    <3>9. ScanTypeOK'
      BY <3>3, <3>4, <3>5, <3>6, <3>7 DEF ScanTypeOK, Stmt
    <3>10. OwnRows'
      <4> SUFFICES ASSUME NEW r \in Scan, fsstate'[r] # NULL, ~fsstate'[r].eof
                   PROVE  LET j == fsstate'[r].resultSetID IN
                          j \in DOMAIN owner' /\ owner'[j] = [holder |-> r, resultSet |-> fsstate'[r].stmt]
        BY DEF OwnRows
      <4>1. r # s /\ fsstate'[r] = fsstate[r]
        BY <3>3, <3>4 DEF ScanTypeOK
      <4>2. LET j == fsstate[r].resultSetID IN
            j \in DOMAIN owner /\ owner[j] = [holder |-> r, resultSet |-> fsstate[r].stmt]
        BY <4>1 DEF OwnRows
      <4> QED
        BY <3>5, <3>8, <4>1, <4>2
    <3>11. IdleIsClean'
      BY <3>1, <3>7 DEF IdleIsClean, OpenScans
    <3> QED
      BY <3>9, <3>10, <3>11
  <2>8. ASSUME NEW s \in Scan, ReScanEarly(s) PROVE ScanInv'
    BY <2>8, <2>a, <2>t, ScanAssumption DEF ReScanEarly, cacheVars, utilsVars, ScanTypeOK
  <2>9. ASSUME NEW s \in Scan, ReScanForeignScan(s) PROVE ScanInv'
    <3>1. fsstate[s] # NULL
      BY <2>9 DEF ReScanForeignScan, Callable, ScansOf
    <3>2. fsstate[s] \in ScanState /\ fsstate[s].info \in Nat
      BY <3>1 DEF ScanTypeOK, ScanState
    <3>3. xact_got_connection /\ xact_got_connection' = TRUE
      BY <2>9, <2>t, <3>1 DEF IdleIsClean, OpenScans, ReScanForeignScan, cacheVars, utilsVars,
                              UtilsTypeOK
    <3> QED
      BY <2>9, <2>b, <3>2, <3>3 DEF ReScanForeignScan
  <2>10. ASSUME NEW s \in Scan, EndForeignScan(s) PROVE ScanInv'
    <3>1. stmts' \in Seq(Stmt) /\ DOMAIN stmts' = DOMAIN stmts
      BY <2>10, <2>t, CancelledType DEF EndForeignScan, ReleaseJdbcUtils
    <3>2. /\ UNCHANGED <<owner, xact_got_connection>>
          /\ fsstate' = [fsstate EXCEPT ![s] = NULL]
      BY <2>10 DEF EndForeignScan
    <3>3. portal' \in [Portal -> {"none", "open", "ending", "explain"}] /\ leftCallbacks' \subseteq Portal
      BY <2>10, ScanAssumption DEF EndForeignScan, ScanTypeOK
    <3> QED
      BY <2>a, <3>1, <3>2, <3>3 DEF ScanTypeOK
  <2>11. ASSUME NEW k \in Key, JdbcExec(k) PROVE ScanInv'
    <3>1. stmts' \in Seq(Stmt) /\ DOMAIN stmts' = DOMAIN stmts
      BY <2>11, <2>t, CancelledType DEF JdbcExec, OthersCancelled
    <3>2. xact_got_connection' = TRUE
      BY <2>11 DEF JdbcExec, UseUtilsOnce, GetUtilsFails
    <3>3. UNCHANGED <<portal, fsstate, owner, leftCallbacks>>
      BY <2>11 DEF JdbcExec
    <3> QED
      BY <2>a, <3>1, <3>2, <3>3 DEF ScanTypeOK
  <2>12. CASE EmitMessage
    BY <2>12, <2>a, <2>t, CancelledType DEF EmitMessage, ReleaseJdbcUtils, ScanTypeOK
  <2>13. ASSUME NEW p \in Portal, ScanCallFails(p) \/ PortalFails(p) PROVE ScanInv'
    <3>1. stmts' \in Seq(Stmt) /\ DOMAIN stmts' = DOMAIN stmts
      BY <2>13, <2>t, CancelledType DEF ScanCallFails, PortalFails, ReleaseJdbcUtils
    <3>2. DropPortal(p) /\ xact_got_connection' = xact_got_connection
      BY <2>13 DEF ScanCallFails, PortalFails
    <3> QED
      BY <2>a, <3>1, <3>2 DEF DropPortal, Dropped, ScanTypeOK
  <2>14. CASE XactEnd
    <3>1. stmts' \in Seq(Stmt) /\ DOMAIN stmts' = DOMAIN stmts
      BY <2>14, <2>t, CancelledType DEF XactEnd
    <3>2. fsstate' = [s \in Scan |-> NULL]
      BY <2>14, ScanAssumption DEF XactEnd, Dropped
    <3>3. DOMAIN owner' = {}
      BY <2>14 DEF XactEnd, Ids!Restricted
    <3>4. portal' \in [Portal -> {"none", "open", "ending", "explain"}] /\ leftCallbacks' = {}
      BY <2>14 DEF XactEnd
    <3>5. InUse' = {}
      BY <2>14, <2>t DEF XactEnd, XactCallback
    <3>6. ScanTypeOK'
      BY <3>1, <3>2, <3>3, <3>4 DEF ScanTypeOK, Stmt
    <3> QED
      BY <3>2, <3>3, <3>5, <3>6 DEF OwnRows, IdleIsClean, OpenScans
  <2>15. ASSUME NEW r \in Row \cup {Reset}, ScanInval(r) PROVE ScanInv'
    <3> DEFINE open(n) == stmts[n].open /\ Jconn'[info[stmts[n].info].conn].open
    <3>1. stmts \in [1..Len(stmts) -> Stmt] /\ Len(stmts) \in Nat
      BY <2>t
    <3>2. stmts' = [n \in 1..Len(stmts) |-> [stmts[n] EXCEPT !.open = open(n)]]
      BY <2>15, <3>1 DEF ScanInval
    <3>3. \A n \in 1..Len(stmts) : open(n) \in BOOLEAN
      OBVIOUS
    <3> HIDE DEF open
    <3>4. stmts' \in [1..Len(stmts) -> Stmt]
      BY <3>1, <3>2, <3>3 DEF Stmt
    <3>5. stmts' \in Seq(Stmt) /\ DOMAIN stmts' = DOMAIN stmts
      BY <3>1, <3>4
    <3>6. UNCHANGED <<portal, fsstate, owner, leftCallbacks, xact_got_connection>>
      BY <2>15 DEF ScanInval, InvalCallback, InvalCallbackThrows, DropDependent
    <3> QED
      BY <2>a, <3>5, <3>6 DEF ScanTypeOK
  <2>16. CASE Environment /\ UNCHANGED scanVars
    BY <2>16, <2>a, <2>t DEF Environment, utilsVars, scanVars, ScanTypeOK
  <2>17. CASE UNCHANGED vars
    BY <2>17, <2>a, <2>t DEF vars, cacheVars, utilsVars, scanVars, ScanTypeOK
  <2>18. ASSUME NEW s \in Scan, ExplainForeignScan(s) PROVE ScanInv'
    BY <2>18, <2>a, <2>t, ScanAssumption DEF ExplainForeignScan, cacheVars, utilsVars, ScanTypeOK
  <2> QED
    BY <2>1, <2>2, <2>3, <2>4, <2>5, <2>6, <2>7, <2>8, <2>9, <2>10, <2>11, <2>12, <2>13,
       <2>14, <2>15, <2>16, <2>17, <2>18 DEF Next
<1>3. Spec => []CacheInv
  BY ScanUsesCache, CacheInvInductive, PTL
<1> QED
  BY <1>1, <1>2, <1>3, PTL DEF Spec

(* The types of the scan callbacks: what the table and a scan state point to *)
(* is a statement that was made.                                             *)
THEOREM ScanTypeCorrect == Spec => []ScanTypeOK
BY ScanInvInductive, PTL DEF ScanInv

(* A scan fetches the rows of the query it ran last, whatever portals, calls *)
(* of jdbc_exec, messages and invalidations come between.                    *)
THEOREM RowsCorrect == Spec => []RowsOfOwnQuery
<1>1. ScanInv => RowsOfOwnQuery
  BY DEF ScanInv, OwnRows, RowsOfOwnQuery, Running
<1> QED
  BY <1>1, ScanInvInductive, PTL

(* Between transactions the table, the cache and the scans are all gone.     *)
THEOREM IdleCleanCorrect == Spec => []IdleIsClean
BY ScanInvInductive, PTL DEF ScanInv
-----------------------------------------------------------------------------
(* While portals do not overlap at most one has a scan, a running scan uses  *)
(* the struct that the cache has for its key, and no two result sets of the  *)
(* table are of one statement, so that the end of a scan closes its own.     *)
OnePortal ==
  /\ \A p, q \in Portal : portal[p] # "none" /\ portal[q] # "none" => p = q
  /\ \A s \in Scan : portal[PortalOf[s]] \in {"none", "explain"} => fsstate[s] = NULL

UsesCached ==
  \A s \in Scan :
    Running(s) => KeyOf[s] \in InUse /\ fsstate[s].info = jdbcUtilsInfo[KeyOf[s]]

FetchesOpen ==
  \A s \in Scan : Running(s) /\ ~fsstate[s].eof => stmts[fsstate[s].stmt].open

OwnStatements ==
  \A i, j \in DOMAIN owner : owner[i].resultSet = owner[j].resultSet => i = j

RunInv == OnePortal /\ UsesCached /\ FetchesOpen /\ OwnStatements

(* Steps that give the statements no new result set and leave no scan        *)
(* running, as those that release the cache do.                              *)
LEMMA NobodyRuns ==
  ASSUME OwnStatements, OnePortal',
         \/ UNCHANGED owner
         \/ DOMAIN owner' = {},
         \A s \in Scan : ~Running(s)'
  PROVE  RunInv'
BY DEF RunInv, OwnStatements, UsesCached, FetchesOpen

LEMMA RunInvInductive ==
  ASSUME Overlap = FALSE, Messages = FALSE, InvalWhileCached = FALSE
  PROVE  Spec => []RunInv
<1>1. Init => RunInv
  <2> SUFFICES ASSUME Init PROVE RunInv
    OBVIOUS
  <2>1. DOMAIN owner = {} /\ fsstate = [s \in Scan |-> NULL] /\ portal = [p \in Portal |-> "none"]
    BY DEF Init, Ids!Init
  <2> QED
    BY <2>1, ScanAssumption DEF RunInv, OnePortal, UsesCached, FetchesOpen, OwnStatements, Running
<1>2. RunInv /\ ScanInv /\ CacheInv /\ [Next]_vars => RunInv'
  <2> SUFFICES ASSUME RunInv, ScanInv, CacheInv, [Next]_vars PROVE RunInv'
    OBVIOUS
  <2> USE ScanAssumption DEF RunInv
  <2>t. /\ portal \in [Portal -> {"none", "open", "ending", "explain"}]
        /\ fsstate \in [Scan -> ScanState \cup {NULL}]
        /\ \A s \in Scan : PortalOf[s] \in Portal /\ KeyOf[s] \in Key
        /\ UtilsTypeOK
    BY DEF ScanInv, ScanTypeOK, CacheInv, EntriesInv
  \* A scan that is not at its end fetches from a statement of the table.
  <2>o. \A s \in Scan :
          Running(s) /\ ~fsstate[s].eof =>
            /\ fsstate[s].resultSetID \in DOMAIN owner
            /\ owner[fsstate[s].resultSetID] = [holder |-> s, resultSet |-> fsstate[s].stmt]
            /\ fsstate[s].stmt \in DOMAIN stmts
    <3> SUFFICES ASSUME NEW s \in Scan, Running(s), ~fsstate[s].eof
                 PROVE  /\ fsstate[s].resultSetID \in DOMAIN owner
                        /\ owner[fsstate[s].resultSetID] = [holder |-> s, resultSet |-> fsstate[s].stmt]
                        /\ fsstate[s].stmt \in DOMAIN stmts
      OBVIOUS
    <3>1. /\ fsstate[s].resultSetID \in DOMAIN owner
          /\ owner[fsstate[s].resultSetID] = [holder |-> s, resultSet |-> fsstate[s].stmt]
      BY DEF ScanInv, OwnRows, Running
    <3>2. owner[fsstate[s].resultSetID].resultSet \in DOMAIN stmts
      BY <3>1 DEF ScanInv, ScanTypeOK
    <3> QED
      BY <3>1, <3>2
  \* Steps that change neither the scans nor what they use.
  <2>u. ASSUME UNCHANGED <<portal, fsstate, owner, stmts>>,
               \A k \in InUse : k \in InUse' /\ jdbcUtilsInfo'[k] = jdbcUtilsInfo[k]
        PROVE  RunInv'
    BY <2>u DEF OnePortal, UsesCached, FetchesOpen, OwnStatements, Running
  \* Steps that get an object keep the entries there are.
  <2>g. ASSUME NEW k \in Key, GetUtils(k)
        PROVE  /\ k \in InUse'
               /\ \A l \in InUse : l \in InUse' /\ jdbcUtilsInfo'[l] = jdbcUtilsInfo[l]
    <3>1. CASE ReuseUtils(k)
      BY <3>1 DEF ReuseUtils, InUse
    <3>2. CASE ConnectUtils(k)
      <4>1. jdbcUtilsInfo' = [jdbcUtilsInfo EXCEPT ![k] = Len(info) + 1] /\ k \notin InUse
        BY <3>2 DEF ConnectUtils, InUse
      <4>2. Len(info) + 1 # NULL
        BY <2>t, RowsAssumption DEF UtilsTypeOK
      <4> QED
        BY <2>t, <4>1, <4>2 DEF InUse, UtilsTypeOK
    <3> QED
      BY <2>g, <3>1, <3>2 DEF GetUtils
  \* A portal that is dropped, and had the only scans.
  <2>d. ASSUME NEW p \in Portal, portal[p] # "none", DropPortal(p) PROVE RunInv'
    <3>1. /\ portal' = [portal EXCEPT ![p] = "none"] /\ UNCHANGED owner
          /\ fsstate' = [s \in Scan |-> IF PortalOf[s] = p THEN NULL ELSE fsstate[s]]
      BY <2>d DEF DropPortal, Dropped
    <3>2. \A q \in Portal : portal'[q] = "none"
      BY <2>t, <2>d, <3>1 DEF OnePortal
    <3>3. OnePortal'
      BY <2>t, <3>1, <3>2 DEF OnePortal
    <3>4. \A s \in Scan : ~Running(s)'
      BY <2>t, <3>2 DEF Running
    <3> QED
      BY <3>1, <3>3, <3>4, NobodyRuns
  \* Between queries nothing is running, whatever is released.
  <2>n. ASSUME Alone, UNCHANGED <<portal, fsstate, owner>> PROVE RunInv'
    <3>1. \A p \in Portal : portal'[p] = "none"
      BY <2>n DEF Alone
    <3>2. \A s \in Scan : ~Running(s)'
      BY <2>t, <3>1 DEF Running
    <3>3. OnePortal'
      BY <2>n DEF OnePortal
    <3> QED
      BY <2>n, <3>2, <3>3, NobodyRuns
  \* A query is run on the struct the cache has.
  <2>x. ASSUME NEW s \in Scan, NEW i \in Nat, NEW new, ExecId(s, i, new),
               new = NoState \/ new \in ScanState,
               portal[PortalOf[s]] = "open", UNCHANGED portal,
               KeyOf[s] \in InUse', i = jdbcUtilsInfo'[KeyOf[s]],
               \A l \in InUse : l \in InUse' /\ jdbcUtilsInfo'[l] = jdbcUtilsInfo[l]
        PROVE  RunInv'
    <3> DEFINE n == Len(stmts) + 1
    <3>1. PICK id \in ResultSetId \ DOMAIN owner, st \in ScanState :
           /\ DOMAIN owner' = DOMAIN owner \cup {id}
           /\ owner'[id] = [holder |-> s, resultSet |-> n]
           /\ \A j \in DOMAIN owner : owner'[j] = owner[j]
           /\ fsstate' = [fsstate EXCEPT ![s] = st]
           /\ st.resultSetID = id /\ st.stmt = n /\ ~st.eof /\ st.info = i
           /\ stmts' \in Seq(Stmt) /\ DOMAIN stmts' = DOMAIN stmts \cup {n}
           /\ n \notin DOMAIN stmts /\ stmts'[n].open
           /\ \A k \in DOMAIN stmts : stmts'[k] = stmts[k]
      <4>1. ScanTypeOK
        BY DEF ScanInv
      <4> QED
        BY <2>x, <4>1, Executed, Zenon
    <3> HIDE DEF n
    <3>2. fsstate'[s] = st /\ \A r \in Scan \ {s} : fsstate'[r] = fsstate[r]
      BY <2>t, <3>1
    <3>3. OnePortal'
      BY <2>x, <3>2 DEF OnePortal
    <3>4. \A r \in Scan \ {s} : Running(r)' => Running(r)
      BY <2>x, <3>2 DEF Running
    <3>5. UsesCached'
      BY <2>x, <3>1, <3>2, <3>4 DEF UsesCached
    <3>6. FetchesOpen'
      <4> SUFFICES ASSUME NEW r \in Scan, Running(r)', ~fsstate'[r].eof
                   PROVE  stmts'[fsstate'[r].stmt].open
        BY DEF FetchesOpen
      <4>1. CASE r = s
        BY <3>1, <3>2, <4>1
      <4>2. CASE r # s
        <5>1. Running(r) /\ fsstate'[r] = fsstate[r]
          BY <3>2, <3>4, <4>2
        <5>2. fsstate[r].stmt \in DOMAIN stmts /\ stmts[fsstate[r].stmt].open
          BY <2>o, <5>1 DEF FetchesOpen
        <5> QED
          BY <3>1, <5>1, <5>2
      <4> QED
        BY <4>1, <4>2
    <3>7. OwnStatements'
      <4>1. owner'[id].resultSet = n
        BY <3>1
      <4>2. \A j \in DOMAIN owner : owner'[j].resultSet \in DOMAIN stmts
        BY <3>1 DEF ScanInv, ScanTypeOK
      <4> QED
        BY <3>1, <4>1, <4>2 DEF OwnStatements
    <3> QED
      BY <3>3, <3>5, <3>6, <3>7
  <2>1. ASSUME NEW s \in Scan, PlanForeignScan(s) PROVE RunInv'
    BY <2>1, <2>n DEF PlanForeignScan, scanVars
  <2>2. ASSUME NEW s \in Scan, PlanForeignScanFails(s) PROVE RunInv'
    BY <2>2, <2>n DEF PlanForeignScanFails
  <2>3. ASSUME NEW p \in Portal, StartPortal(p) PROVE RunInv'
    <3>1. /\ \A q \in Portal : portal[q] = "none"
          /\ portal' = [portal EXCEPT ![p] = "open"]
          /\ UNCHANGED <<fsstate, owner>>
      BY <2>3 DEF StartPortal, Alone
    <3>2. \A s \in Scan : fsstate'[s] = NULL
      BY <2>t, <3>1 DEF OnePortal
    <3>3. OnePortal'
      BY <2>t, <3>1, <3>2 DEF OnePortal
    <3> QED
      BY <3>1, <3>2, <3>3, NobodyRuns DEF Running
  <2>4. ASSUME NEW p \in Portal, PortalRunReturns(p) PROVE RunInv'
    <3>1. /\ UNCHANGED <<fsstate, owner, stmts, jdbcUtilsInfo>>
          /\ portal' = [portal EXCEPT ![p] = IF @ = "explain" THEN "none" ELSE @]
      BY <2>4 DEF PortalRunReturns, cacheVars, utilsVars
    <3>2. \A q \in Portal : \/ portal'[q] = portal[q]
                            \/ portal[q] = "explain" /\ portal'[q] = "none"
      <4>1. CASE portal[p] = "explain"
        <5>1. portal' = [portal EXCEPT ![p] = "none"]
          BY <3>1, <4>1
        <5> QED
          BY <2>t, <4>1, <5>1
      <4>2. CASE portal[p] # "explain"
        <5>1. portal' = portal
          BY <2>t, <3>1, <4>2
        <5> QED
          BY <5>1
      <4> QED
        BY <4>1, <4>2
    <3>3. OnePortal'
      BY <2>t, <3>1, <3>2 DEF OnePortal
    <3>4. \A s \in Scan : Running(s)' => Running(s)
      BY <2>t, <3>1, <3>2 DEF Running
    <3> QED
      BY <3>1, <3>3, <3>4 DEF UsesCached, FetchesOpen, OwnStatements, InUse
  <2>5. ASSUME NEW s \in Scan, BeginForeignScan(s) PROVE RunInv'
    <3>1. /\ KeyOf[s] \in InUse'
          /\ \A l \in InUse : l \in InUse' /\ jdbcUtilsInfo'[l] = jdbcUtilsInfo[l]
      BY <2>5, <2>g, <2>t DEF BeginForeignScan
    <3>2. jdbcUtilsInfo'[KeyOf[s]] \in Nat
      <4>1. CASE ReuseUtils(KeyOf[s])
        BY <2>t, <4>1 DEF ReuseUtils, UtilsTypeOK
      <4>2. CASE ConnectUtils(KeyOf[s])
        <5>1. jdbcUtilsInfo'[KeyOf[s]] = Len(info) + 1
          BY <2>t, <4>2 DEF ConnectUtils, UtilsTypeOK
        <5> QED
          BY <2>t, <5>1 DEF UtilsTypeOK
      <4> QED
        BY <2>5, <4>1, <4>2 DEF BeginForeignScan, GetUtils
    <3> QED
      BY <2>5, <2>x, <3>1, <3>2 DEF BeginForeignScan
  <2>6. ASSUME NEW s \in Scan, BeginForeignScanFails(s) PROVE RunInv'
    BY <2>6, <2>d, <2>t DEF BeginForeignScanFails
  <2>7. ASSUME NEW s \in Scan, IterateRow(s) PROVE RunInv'
    <3>1. fsstate[s] \in ScanState
      BY <2>7, <2>t DEF IterateRow, Callable, ScansOf
    <3>2. /\ UNCHANGED <<portal, owner, stmts, jdbcUtilsInfo>>
          /\ fsstate' = [fsstate EXCEPT ![s].cursor_exists = TRUE]
          /\ portal[PortalOf[s]] = "open"
      BY <2>7 DEF IterateRow, Callable, cacheVars, utilsVars
    <3>3. \A r \in Scan :
            /\ Running(r)' => Running(r)
            /\ fsstate[r] = NULL => fsstate'[r] = NULL
            /\ Running(r) => /\ fsstate'[r].info = fsstate[r].info
                             /\ fsstate'[r].stmt = fsstate[r].stmt
                             /\ fsstate'[r].eof = fsstate[r].eof
      <4> SUFFICES ASSUME NEW r \in Scan
                   PROVE  /\ Running(r)' => Running(r)
                          /\ fsstate[r] = NULL => fsstate'[r] = NULL
                          /\ Running(r) => /\ fsstate'[r].info = fsstate[r].info
                                           /\ fsstate'[r].stmt = fsstate[r].stmt
                                           /\ fsstate'[r].eof = fsstate[r].eof
        OBVIOUS
      <4>1. CASE r = s
        BY <2>7, <2>t, <3>1, <3>2, <4>1 DEF Running, ScanState, IterateRow, Callable, ScansOf
      <4>2. CASE r # s
        BY <2>t, <3>2, <4>2 DEF Running
      <4> QED
        BY <4>1, <4>2
    <3> QED
      BY <3>2, <3>3 DEF OnePortal, UsesCached, FetchesOpen, OwnStatements, InUse
  <2>8. ASSUME NEW s \in Scan, IterateEnd(s) PROVE RunInv'
    <3> DEFINE id == fsstate[s].resultSetID
    <3>1. /\ fsstate[s] \in ScanState /\ fsstate[s] # NULL /\ ~fsstate[s].eof
          /\ portal[PortalOf[s]] = "open"
      BY <2>8, <2>t DEF IterateEnd, Callable, ScansOf
    <3>2. /\ UNCHANGED <<portal, jdbcUtilsInfo>>
          /\ fsstate' = [fsstate EXCEPT ![s].cursor_exists = TRUE, ![s].eof = TRUE]
          /\ stmts' = Closed({owner[id].resultSet})
      BY <2>8 DEF IterateEnd, cacheVars, utilsVars
    <3>3. /\ DOMAIN owner' = DOMAIN owner \ {id}
          /\ \A j \in DOMAIN owner' : owner'[j] = owner[j]
      BY <2>8 DEF IterateEnd, Ids!Restricted
    <3>4. fsstate'[s].info = fsstate[s].info /\ fsstate'[s].eof
      BY <2>t, <3>1, <3>2 DEF ScanState
    <3>5. \A r \in Scan \ {s} : fsstate'[r] = fsstate[r]
      BY <2>t, <3>2
    <3>6. OnePortal'
      BY <2>t, <3>1, <3>2, <3>5 DEF OnePortal
    <3>7. \A r \in Scan : Running(r)' => Running(r)
      BY <3>1, <3>2, <3>5 DEF Running
    <3>8. UsesCached'
      <4>1. \A r \in Scan : fsstate'[r].info = fsstate[r].info
        BY <3>4, <3>5
      <4> QED
        BY <3>2, <3>7, <4>1 DEF UsesCached, InUse
    <3>9. FetchesOpen'
      <4> SUFFICES ASSUME NEW r \in Scan, Running(r)', ~fsstate'[r].eof
                   PROVE  stmts'[fsstate'[r].stmt].open
        BY DEF FetchesOpen
      <4>1. r # s /\ Running(r) /\ fsstate'[r] = fsstate[r] /\ ~fsstate[r].eof
        BY <3>4, <3>5, <3>7
      <4>2. Running(s)
        BY <3>1 DEF Running
      <4> DEFINE ir == fsstate[r].resultSetID
      <4>3. /\ ir \in DOMAIN owner /\ owner[ir].holder = r /\ owner[ir].resultSet = fsstate[r].stmt
            /\ fsstate[r].stmt \in DOMAIN stmts
        <5>1. /\ ir \in DOMAIN owner /\ fsstate[r].stmt \in DOMAIN stmts
              /\ owner[ir] = [holder |-> r, resultSet |-> fsstate[r].stmt]
          BY <2>o, <4>1, Zenon
        <5> QED
          BY <5>1
      <4>4. id \in DOMAIN owner /\ owner[id].holder = s
        <5>1. id \in DOMAIN owner /\ owner[id] = [holder |-> s, resultSet |-> fsstate[s].stmt]
          BY <2>o, <3>1, <4>2, Zenon
        <5> QED
          BY <5>1
      <4>5. owner[ir].resultSet # owner[id].resultSet
        BY <4>1, <4>3, <4>4 DEF OwnStatements
      <4>6. stmts[fsstate[r].stmt].open
        BY <4>1 DEF FetchesOpen
      <4>7. stmts[fsstate[r].stmt] \in Stmt
        <5>1. stmts \in Seq(Stmt)
          BY DEF ScanInv, ScanTypeOK, Stmt
        <5> QED
          BY <4>3, <5>1
      <4> HIDE DEF id, ir
      <4> QED
        BY <3>2, <4>1, <4>3, <4>5, <4>6, <4>7 DEF Closed, Stmt, id
    <3>10. OwnStatements'
      BY <3>3 DEF OwnStatements
    <3> QED
      BY <3>6, <3>8, <3>9, <3>10
  <2>9. ASSUME NEW s \in Scan, ReScanEarly(s) PROVE RunInv'
    BY <2>9, <2>u DEF ReScanEarly, cacheVars, utilsVars, InUse
  <2>10. ASSUME NEW s \in Scan, ReScanForeignScan(s) PROVE RunInv'
    <3>1. fsstate[s] \in ScanState /\ fsstate[s] # NULL /\ portal[PortalOf[s]] = "open"
      BY <2>10, <2>t DEF ReScanForeignScan, Callable, ScansOf
    <3>2. UNCHANGED <<portal, jdbcUtilsInfo>> /\ ExecId(s, fsstate[s].info, fsstate[s])
      BY <2>10 DEF ReScanForeignScan, cacheVars, utilsVars
    <3>3. KeyOf[s] \in InUse /\ fsstate[s].info = jdbcUtilsInfo[KeyOf[s]]
      BY <3>1 DEF UsesCached, Running
    <3>4. fsstate[s].info \in Nat
      BY <3>1 DEF ScanState
    <3>5. InUse' = InUse
      BY <3>2 DEF InUse
    <3> QED
      BY <2>x, <3>1, <3>2, <3>3, <3>4, <3>5
  <2>11. ASSUME NEW s \in Scan, EndForeignScan(s) PROVE RunInv'
    <3> DEFINE p == PortalOf[s]
    <3>1. /\ portal[p] # "none" /\ UNCHANGED owner
          /\ fsstate' = [fsstate EXCEPT ![s] = NULL]
          /\ portal' = [portal EXCEPT ![p] =
                          IF OpenScans \cap ScansOf(p) = {s} THEN "none" ELSE "ending"]
      BY <2>11 DEF EndForeignScan
    <3>2. \A q \in Portal \ {p} : portal'[q] = "none"
      BY <2>t, <3>1 DEF OnePortal
    <3>3. portal'[p] = IF OpenScans \cap ScansOf(p) = {s} THEN "none" ELSE "ending"
      BY <2>t, <3>1
    <3>4. OnePortal'
      <4>1. \A q1, q2 \in Portal : portal'[q1] # "none" /\ portal'[q2] # "none" => q1 = q2
        BY <3>2
      <4>2. ASSUME NEW r \in Scan, portal'[PortalOf[r]] \in {"none", "explain"}
            PROVE  fsstate'[r] = NULL
        <5>1. CASE PortalOf[r] = p
          <6>1. OpenScans \cap ScansOf(p) = {s}
            BY <3>3, <4>2, <5>1
          <6>2. r = s \/ fsstate[r] = NULL
            BY <5>1, <6>1 DEF OpenScans, ScansOf
          <6> QED
            BY <2>t, <3>1, <6>2
        <5>2. CASE PortalOf[r] # p
          <6>1. portal[PortalOf[r]] = "none"
            BY <2>t, <3>1, <5>2 DEF OnePortal
          <6> QED
            BY <2>t, <3>1, <6>1 DEF OnePortal
        <5> QED
          BY <5>1, <5>2
      <4> QED
        BY <4>1, <4>2 DEF OnePortal
    <3>5. \A r \in Scan : ~Running(r)'
      BY <2>t, <3>2, <3>3 DEF Running
    <3> QED
      BY <3>1, <3>4, <3>5, NobodyRuns
  <2>12. ASSUME NEW k \in Key, JdbcExec(k) PROVE RunInv'
    BY <2>12, <2>n DEF JdbcExec
  <2>13. CASE EmitMessage
    BY <2>13 DEF EmitMessage
  <2>14. ASSUME NEW p \in Portal, ScanCallFails(p) \/ PortalFails(p) PROVE RunInv'
    BY <2>14, <2>d DEF ScanCallFails, PortalFails
  <2>15. CASE XactEnd
    <3>1. /\ portal' = [p \in Portal |-> "none"] /\ fsstate' = [s \in Scan |-> NULL]
          /\ DOMAIN owner' = {}
      BY <2>15 DEF XactEnd, Dropped, Ids!Restricted
    <3>2. OnePortal' /\ \A s \in Scan : ~Running(s)'
      BY <3>1 DEF OnePortal, Running
    <3> QED
      BY <3>1, <3>2, NobodyRuns
  <2>16. ASSUME NEW r \in Row \cup {Reset}, ScanInval(r) PROVE RunInv'
    <3>1. UNCHANGED <<portal, fsstate, owner>> /\ InUse = {}
      BY <2>16 DEF ScanInval, InvalCallback, InvalCallbackThrows, DropDependent
    <3>2. OnePortal' /\ \A s \in Scan : ~Running(s)'
      BY <3>1 DEF OnePortal, UsesCached, Running
    <3> QED
      BY <3>1, <3>2, NobodyRuns
  <2>17. CASE Environment /\ UNCHANGED scanVars
    BY <2>17, <2>u DEF Environment, scanVars, utilsVars, InUse
  <2>18. CASE UNCHANGED vars
    BY <2>18, <2>u DEF vars, cacheVars, utilsVars, scanVars, InUse
  <2>19. ASSUME NEW s \in Scan, ExplainForeignScan(s) PROVE RunInv'
    <3>1. /\ \A q \in Portal : portal[q] = "none"
          /\ portal' = [portal EXCEPT ![PortalOf[s]] = "explain"]
          /\ UNCHANGED <<fsstate, owner>>
      BY <2>19 DEF ExplainForeignScan, Alone
    <3>2. \A r \in Scan : fsstate'[r] = NULL
      BY <2>t, <3>1 DEF OnePortal
    <3>3. OnePortal'
      BY <2>t, <3>1, <3>2 DEF OnePortal
    <3> QED
      BY <3>1, <3>2, <3>3, NobodyRuns DEF Running
  <2> QED
    BY <2>1, <2>2, <2>3, <2>4, <2>5, <2>6, <2>7, <2>8, <2>9, <2>10, <2>11, <2>12, <2>13,
       <2>14, <2>15, <2>16, <2>17, <2>18, <2>19 DEF Next
<1>3. Spec => []CacheInv
  BY ScanUsesCache, CacheInvInductive, PTL
<1> QED
  BY <1>1, <1>2, <1>3, ScanInvInductive, PTL DEF Spec

(* Where queries follow each other, none emits a message and none is         *)
(* overtaken by an invalidation, a running scan can always be called, however *)
(* many scans its plan has and whatever fails before or in between.          *)
THEOREM UsableCorrect ==
  ASSUME Overlap = FALSE, Messages = FALSE, InvalWhileCached = FALSE
  PROVE  Spec => []ScansUsable
<1>1. RunInv /\ CacheInv /\ CachedRefUsable => ScansUsable
  BY DEF RunInv, UsesCached, FetchesOpen, CacheInv, EntriesInv, CachedInfoLive, CachedRefUsable,
         ScansUsable, Usable
<1>2. Spec => [](CacheInv /\ CachedRefUsable)
  BY ScanUsesCache, CacheInvInductive, CachedRefs, PTL
<1> QED
  BY <1>1, <1>2, RunInvInductive, PTL

(* The connection of a running scan is the one JDBCConnection.java would     *)
(* hand out for its user mapping, open and up to date: the theorems about    *)
(* the hash, the cache and the scans put together.                           *)
THEOREM ConnectedCorrect ==
  ASSUME Overlap = FALSE, Messages = FALSE, InvalWhileCached = FALSE,
         ~LookupsAge, ~CloseFails, OneMappingPerServer
  PROVE  Spec => []ScansConnected
<1>1. RunInv /\ CacheInv /\ NoStaleConnection => ScansConnected
  <2> SUFFICES ASSUME RunInv, CacheInv, NoStaleConnection, NEW s \in Scan, Running(s)
               PROVE  LET m == MappingOf[KeyOf[s]]
                      IN  /\ info[fsstate[s].info].conn = ConnectionHash[m]
                          /\ Cached(m) /\ Jconn[ConnectionHash[m]].open
                          /\ UpToDate(m) \/ PendingFor(m)
    BY DEF ScansConnected
  <2> DEFINE k == KeyOf[s]
             m == MappingOf[k]
             c == info[jdbcUtilsInfo[k]].conn
  <2>1. k \in InUse /\ k \in Key /\ m \in Mapping /\ fsstate[s].info = jdbcUtilsInfo[k]
    BY ScanAssumption, MappingOfAssumption DEF RunInv, UsesCached
  <2>2. c \in DOMAIN Jconn /\ Jconn[c].mapping = m /\ ~Jconn[c].invalidate
    BY <2>1 DEF CacheInv, EntriesConnected
  <2>3. ConnectionHash[m] = c /\ Jconn[c].open
    BY <2>2 DEF CacheInv, HashInv, LiveIsHashed, ValidIsOpen
  <2>4. c # NULL
    BY <2>2, RowsAssumption DEF CacheInv, HashInv, HashTypeOK
  <2>5. Cached(m)
    BY <2>2, <2>3, <2>4 DEF Cached
  <2>6. UpToDate(m) \/ PendingFor(m)
    BY <2>1, <2>5 DEF NoStaleConnection
  <2> QED
    BY <2>1, <2>3, <2>5, <2>6
<1>2. Spec => []NoStaleConnection
  BY ScanUsesCache, CacheUsesHash, Fresh, PTL
<1>3. Spec => []CacheInv
  BY ScanUsesCache, CacheInvInductive, PTL
<1> QED
  BY <1>1, <1>2, <1>3, RunInvInductive, PTL
=============================================================================
