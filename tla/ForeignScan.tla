----------------------------- MODULE ForeignScan ----------------------------
(***************************************************************************)
(* The scan callbacks of jdbc_fdw.c and jdbc_exec over the connection      *)
(* cache of UtilsCache and the result-set identifiers of ResultSetIds, in  *)
(* the hands of an executor that runs portals: each portal begins all its  *)
(* foreign scans, iterates and rescans them, and ends them, or is dropped  *)
(* by an error.  Portals are open at the same time when a cursor is left   *)
(* open or when a query runs inside a function another query calls.        *)
(*                                                                         *)
(* Using a freed struct or a dead JNI reference is undefined behaviour.    *)
(* No action below models it: the actions that use a struct are enabled    *)
(* only while it is usable, and ScansUsable says that it always is.        *)
(***************************************************************************)
EXTENDS UtilsCache

CONSTANTS
  Portal,     \* portals (executor runs)
  Scan,       \* ForeignScan nodes
  PortalOf,   \* PortalOf[s]: the portal whose plan has node s
  KeyOf,      \* KeyOf[s]: the (server, user) pair s connects as
  ResultSetId,\* identifiers the result-set table gives out
  Overlap,    \* TRUE: portals and jdbc_exec calls may overlap
  Messages,   \* TRUE: a query may emit a NOTICE or WARNING
  MaxStmts    \* bound: Statement objects created in a behaviour

ASSUME ScanAssumption ==
  PortalOf \in [Scan -> Portal] /\ KeyOf \in [Scan -> Key]
ASSUME ScanRegimeAssumption ==
  Overlap \in BOOLEAN /\ Messages \in BOOLEAN /\ MaxStmts \in Nat
ASSUME ResultSetIdAssumption == 0 \notin ResultSetId

VARIABLES
  portal,         \* portal[p]: "none", "open", "ending", or "explain"
  fsstate,        \* fsstate[s]: the jdbcFdwScanState of node s, or NULL
  owner,          \* resultSetInfoMap: the scan an identifier was given to and
                  \* the index of its statement
  stmts,          \* java.sql.Statement objects: creating struct, open or not
  leftCallbacks   \* running portals with a forgotten error context callback

scanVars == <<portal, fsstate, owner, stmts, leftCallbacks>>
vars == <<cacheVars, scanVars>>

Ids == INSTANCE ResultSetIds WITH Holder <- Scan, Id <- ResultSetId, ResultSet <- Nat

ScanState == [info : Nat, resultSetID : ResultSetId, stmt : Nat,
              cursor_exists : BOOLEAN, eof : BOOLEAN]

ScanTypeOK ==
  /\ portal \in [Portal -> {"none", "open", "ending", "explain"}]
  /\ fsstate \in [Scan -> ScanState \cup {NULL}]
  /\ DOMAIN owner \subseteq ResultSetId
  /\ \A i \in DOMAIN owner :
       owner[i] \in [holder : Scan, resultSet : DOMAIN stmts]
  /\ stmts \in Seq([info : Nat, open : BOOLEAN])
  /\ leftCallbacks \subseteq Portal

Init ==
  /\ CacheInit
  /\ portal = [p \in Portal |-> "none"]
  /\ fsstate = [s \in Scan |-> NULL]
  /\ Ids!Init
  /\ stmts = <<>>
  /\ leftCallbacks = {}
-----------------------------------------------------------------------------
(* Without overlap, one query is over before the next is planned.            *)
Alone == Overlap \/ \A p \in Portal : portal[p] = "none"

ScansOf(p) == {s \in Scan : PortalOf[s] = p}
OpenScans == {s \in Scan : fsstate[s] # NULL}

Usable(i) == Jenv /\ info[i].ref /\ ~info[i].freed

(* closeStatement: cancel() closes tmpStmt, the last statement its object    *)
(* created.  jq_cancel does nothing when the thread is detached.             *)
TmpStmts(I) ==
  {n \in DOMAIN stmts : /\ stmts[n].info \in I
                        /\ \A n2 \in DOMAIN stmts : stmts[n2].info = stmts[n].info => n2 <= n}
Closed(S) == [n \in DOMAIN stmts |-> [stmts[n] EXCEPT !.open = @ /\ n \notin S]]
Cancelled(I) == IF Jenv THEN Closed(TmpStmts({i \in I : info[i].ref})) ELSE stmts

(* When the object of k has just made a statement that is closed or was never *)
(* opened, that one is its tmpStmt, and the one before it stays open.         *)
OthersCancelled(k) == Cancelled(PointersOf(InUse \ {k}))

(* jdbc_release_jdbc_utils_obj, the statements included. *)
ReleaseJdbcUtils ==
  /\ ReleaseAll
  /\ stmts' = Cancelled(PointersOf(InUse))

(* An error drops a portal: the executor state goes, no callback is called.  *)
Dropped(P) == [s \in Scan |-> IF PortalOf[s] \in P THEN NULL ELSE fsstate[s]]

\* Faulty (see ResultSetTable on these): the identifier is not stored.
ExecIdNotStored(s, i, new) ==
  /\ Len(stmts) < MaxStmts
  /\ stmts' = Append(stmts, [info |-> i, open |-> TRUE])
  /\ \E id \in ResultSetId : Ids!Acquire(s, id, Len(stmts) + 1)
  /\ fsstate' = [fsstate EXCEPT ![s] =
                   [new EXCEPT !.info = i, !.stmt = Len(stmts) + 1, !.eof = FALSE]]

(* jq_exec_id: createStatementID makes a statement, gets an identifier for   *)
(* its result set and enters it in the table.                                *)
ExecId(s, i, new) ==
  /\ Len(stmts) < MaxStmts
  /\ stmts' = Append(stmts, [info |-> i, open |-> TRUE])
  /\ \E id \in ResultSetId :
       /\ Ids!Acquire(s, id, Len(stmts) + 1)
       /\ fsstate' = [fsstate EXCEPT ![s] =
                        [new EXCEPT !.info = i, !.resultSetID = id,
                                    !.stmt = Len(stmts) + 1, !.eof = FALSE]]
-----------------------------------------------------------------------------
(* The planner: GetForeignRelSize and GetForeignPlan get the JDBCUtils        *)
(* object for its quote character; nothing gives it back before execution.    *)
PlanForeignScan(s) ==
  /\ portal[PortalOf[s]] = "none"
  /\ Alone
  /\ GetUtils(KeyOf[s])
  /\ UNCHANGED scanVars

PlanForeignScanFails(s) ==
  /\ portal[PortalOf[s]] = "none"
  /\ Alone
  /\ GetUtilsFails(KeyOf[s])
  /\ stmts' = Cancelled(PointersOf(InUse))
  /\ UNCHANGED <<portal, fsstate, owner, leftCallbacks>>

StartPortal(p) ==
  /\ portal[p] = "none"
  /\ Alone
  /\ portal' = [portal EXCEPT ![p] = "open"]
  /\ UNCHANGED <<cacheVars, fsstate, owner, stmts, leftCallbacks>>

(* EXPLAIN: ExecutorStart begins every scan, which returns early and leaves   *)
(* its error context callback behind; nothing is run, and EndForeignScan has  *)
(* nothing to do without an fsstate.                                          *)
ExplainForeignScan(s) ==
  /\ portal[PortalOf[s]] = "none"
  /\ Alone
  /\ portal' = [portal EXCEPT ![PortalOf[s]] = "explain"]
  /\ leftCallbacks' = leftCallbacks \cup {PortalOf[s]}
  /\ UNCHANGED <<cacheVars, fsstate, owner, stmts>>

NoState == [info |-> 0, resultSetID |-> 0, stmt |-> 0,
            cursor_exists |-> FALSE, eof |-> FALSE]

BeginForeignScan(s) ==
  /\ portal[PortalOf[s]] = "open"
  /\ fsstate[s] = NULL
  /\ GetUtils(KeyOf[s])
  /\ Usable(jdbcUtilsInfo[KeyOf[s]])'
  /\ ExecId(s, jdbcUtilsInfo'[KeyOf[s]], NoState)
  /\ UNCHANGED <<portal, leftCallbacks>>

(* ExecutorRun calls a node only after every node of the plan has begun, and  *)
(* not again after the end of its data.                                       *)
Callable(s) ==
  /\ portal[PortalOf[s]] = "open"
  /\ \A r \in ScansOf(PortalOf[s]) : fsstate[r] # NULL
  /\ Usable(fsstate[s].info)

IterateRow(s) ==
  /\ Callable(s)
  /\ ~fsstate[s].eof
  /\ fsstate[s].resultSetID \in DOMAIN owner
  /\ fsstate' = [fsstate EXCEPT ![s].cursor_exists = TRUE]
  /\ UNCHANGED <<cacheVars, portal, owner, stmts, leftCallbacks>>

\* Faulty: what is closed is tmpStmt.
IterateEndClosesTmp(s) ==
  LET id == fsstate[s].resultSetID IN
  /\ Callable(s)
  /\ ~fsstate[s].eof
  /\ id \in DOMAIN owner
  /\ fsstate' = [fsstate EXCEPT ![s].cursor_exists = TRUE, ![s].eof = TRUE]
  /\ stmts' = Closed(TmpStmts({fsstate[s].info}))
  /\ owner' = Ids!Restricted({id})
  /\ UNCHANGED <<cacheVars, portal, leftCallbacks>>

(* getResultSet at the end: the statement of the result set is closed and its *)
(* identifier given back; fsstate keeps the identifier.                       *)
IterateEnd(s) ==
  LET id == fsstate[s].resultSetID IN
  /\ Callable(s)
  /\ ~fsstate[s].eof
  /\ id \in DOMAIN owner
  /\ fsstate' = [fsstate EXCEPT ![s].cursor_exists = TRUE, ![s].eof = TRUE]
  /\ stmts' = Closed({owner[id].resultSet})
  /\ owner' = Ids!Restricted({id})
  /\ UNCHANGED <<cacheVars, portal, leftCallbacks>>

(* ReScan before the first row returns early, past the removal of its error   *)
(* context callback ...                                                       *)
ReScanEarly(s) ==
  /\ Callable(s)
  /\ ~fsstate[s].cursor_exists
  /\ leftCallbacks' = leftCallbacks \cup {PortalOf[s]}
  /\ UNCHANGED <<cacheVars, portal, fsstate, owner, stmts>>

\* Faulty: the rescan goes on with the identifier it has.
ReScanKeepsResultSet(s) ==
  /\ Callable(s)
  /\ fsstate[s].cursor_exists
  /\ fsstate' = [fsstate EXCEPT ![s].eof = FALSE]
  /\ UNCHANGED <<cacheVars, portal, owner, stmts, leftCallbacks>>

(* ... later it runs the query again, and leaves the old result set behind.   *)
ReScanForeignScan(s) ==
  /\ Callable(s)
  /\ fsstate[s].cursor_exists
  /\ ExecId(s, fsstate[s].info, fsstate[s])
  /\ UNCHANGED <<cacheVars, portal, leftCallbacks>>

\* Faulty: the end of a scan clears the result-set table.
EndForeignScanClearsTable(s) ==
  /\ portal[PortalOf[s]] \in {"open", "ending"}
  /\ fsstate[s] # NULL
  /\ ReleaseJdbcUtils
  /\ fsstate' = [fsstate EXCEPT ![s] = NULL]
  /\ portal' = [portal EXCEPT ![PortalOf[s]] =
                  IF OpenScans \cap ScansOf(PortalOf[s]) = {s} THEN "none" ELSE "ending"]
  /\ owner' = Ids!Restricted(DOMAIN owner)
  /\ UNCHANGED <<hashVars, xact_got_connection, leftCallbacks>>

(* ExecutorEnd: once one scan of the portal has ended the others follow.      *)
EndForeignScan(s) ==
  LET p == PortalOf[s] IN
  /\ portal[p] \in {"open", "ending"}
  /\ fsstate[s] # NULL
  /\ \A r \in ScansOf(p) : portal[p] = "open" => fsstate[r] # NULL
  /\ ReleaseJdbcUtils
  /\ fsstate' = [fsstate EXCEPT ![s] = NULL]
  /\ portal' = [portal EXCEPT ![p] =
                  IF OpenScans \cap ScansOf(p) = {s} THEN "none" ELSE "ending"]
  /\ leftCallbacks' = leftCallbacks \ {p}
  /\ UNCHANGED <<hashVars, xact_got_connection, owner>>

(* PortalRun returns, as at the end of a FETCH or of EXPLAIN: it restores the *)
(* error context stack it found.                                              *)
PortalRunReturns(p) ==
  /\ p \in leftCallbacks
  /\ leftCallbacks' = leftCallbacks \ {p}
  /\ portal' = [portal EXCEPT ![p] = IF @ = "explain" THEN "none" ELSE @]
  /\ UNCHANGED <<cacheVars, fsstate, owner, stmts>>

(* jdbc_exec, from the connection to its PG_FINALLY block: its own result set *)
(* and statement come and go within the call, whether it succeeds or not.  An *)
(* error in it also fails the portal that called it (PortalFails).            *)
JdbcExec(k) ==
  /\ Alone
  /\ ResultSetId \ DOMAIN owner # {}
  /\ \/ UseUtilsOnce(k) /\ stmts' = OthersCancelled(k)
     \/ GetUtilsFails(k) /\ stmts' = Cancelled(PointersOf(InUse))
  /\ UNCHANGED <<portal, fsstate, owner, leftCallbacks>>
-----------------------------------------------------------------------------
(* A message goes out while a forgotten callback is on the error context      *)
(* stack: it need not be an error for the callback to be called.              *)
EmitMessage ==
  /\ Messages
  /\ leftCallbacks # {}
  /\ ReleaseJdbcUtils
  /\ UNCHANGED <<hashVars, xact_got_connection,
                 portal, fsstate, owner, leftCallbacks>>

DropPortal(p) ==
  /\ portal' = [portal EXCEPT ![p] = "none"]
  /\ fsstate' = Dropped({p})
  /\ leftCallbacks' = leftCallbacks \ {p}
  /\ UNCHANGED owner

(* A scan that has begun raises an error, as when the remote server does;     *)
(* its error context callback releases everything.  The error is caught by a  *)
(* PL exception block, so that the transaction goes on without the portal.    *)
ScanCallFails(p) ==
  /\ portal[p] = "open"
  /\ ReleaseJdbcUtils
  /\ DropPortal(p)
  /\ UNCHANGED <<hashVars, xact_got_connection>>

(* The connection of a scan about to begin fails, or its query does.          *)
BeginForeignScanFails(s) ==
  /\ portal[PortalOf[s]] = "open"
  /\ fsstate[s] = NULL
  /\ \/ GetUtilsFails(KeyOf[s]) /\ stmts' = Cancelled(PointersOf(InUse))
     \/ UseUtilsOnce(KeyOf[s]) /\ stmts' = OthersCancelled(KeyOf[s])
  /\ DropPortal(PortalOf[s])

(* The error comes from elsewhere in the query.                               *)
PortalFails(p) ==
  /\ portal[p] \in {"open", "explain"}
  /\ IF leftCallbacks # {} THEN ReleaseJdbcUtils
     ELSE UNCHANGED <<jdbcUtilsInfo, info, Jenv, stmts>>
  /\ DropPortal(p)
  /\ UNCHANGED <<hashVars, xact_got_connection>>

\* Faulty: the table is left as it is.
XactEndKeepsTable ==
  /\ XactCallback
  /\ stmts' = Cancelled(PointersOf(InUse))
  /\ portal' = [p \in Portal |-> "none"]
  /\ fsstate' = Dropped(Portal)
  /\ leftCallbacks' = {}
  /\ UNCHANGED owner

(* The end of the transaction.  A commit finds the portals ended, an abort    *)
(* drops them; then the xact callback releases the cache and clears the table.*)
XactEnd ==
  /\ XactCallback
  /\ stmts' = Cancelled(PointersOf(InUse))
  /\ portal' = [p \in Portal |-> "none"]
  /\ fsstate' = Dropped(Portal)
  /\ leftCallbacks' = {}
  /\ owner' = Ids!Restricted(DOMAIN owner)

(* A message from another session is processed; a connection that is closed   *)
(* closes its statements.                                                     *)
ScanInval(r) ==
  /\ InvalCallback(r) \/ InvalCallbackThrows(r)
  /\ stmts' = [n \in DOMAIN stmts |->
                 [stmts[n] EXCEPT !.open = @ /\ Jconn'[info[stmts[n].info].conn].open]]
  /\ UNCHANGED <<portal, fsstate, owner, leftCallbacks>>
-----------------------------------------------------------------------------
Next ==
  \/ \E p \in Portal :
       StartPortal(p) \/ PortalRunReturns(p) \/ ScanCallFails(p) \/ PortalFails(p)
  \/ \E s \in Scan :
       \/ PlanForeignScan(s) \/ PlanForeignScanFails(s) \/ ExplainForeignScan(s)
       \/ BeginForeignScan(s) \/ BeginForeignScanFails(s)
       \/ IterateRow(s) \/ IterateEnd(s)
       \/ ReScanEarly(s) \/ ReScanForeignScan(s) \/ EndForeignScan(s)
  \/ \E k \in Key : JdbcExec(k)
  \/ EmitMessage
  \/ XactEnd
  \/ \E r \in Row \cup {Reset} : ScanInval(r)
  \/ Environment /\ UNCHANGED scanVars

Spec == Init /\ [][Next]_vars
-----------------------------------------------------------------------------
Running(s) == fsstate[s] # NULL /\ portal[PortalOf[s]] = "open"

(* The struct a running scan got in BeginForeignScan is still allocated and   *)
(* its JNI reference still alive whenever the executor may call the scan, and *)
(* the statement it fetches from has not been closed under its hands.         *)
ScansUsable ==
  \A s \in Scan :
    Running(s) =>
      /\ Usable(fsstate[s].info)
      /\ fsstate[s].eof \/ stmts[fsstate[s].stmt].open

(* The rows a scan fetches are those of the query it ran last, over rescans,  *)
(* ends of data, identifiers used again, and other scans.                     *)
RowsOfOwnQuery ==
  \A s \in Scan :
    Running(s) /\ ~fsstate[s].eof =>
      LET id == fsstate[s].resultSetID IN
      id \in DOMAIN owner /\ owner[id] = [holder |-> s, resultSet |-> fsstate[s].stmt]

(* A running scan fetches over the connection that the hash has for the user *)
(* mapping of its own server and user, which is valid and open, and was made *)
(* with the options that are current or a message about them is on its way:  *)
(* connection.c, jq.c and JDBCConnection.java each find what belongs to it   *)
(* by a key of their own, over errors and invalidations of other queries.    *)
ScansConnected ==
  \A s \in Scan :
    Running(s) =>
      LET m == MappingOf[KeyOf[s]]
      IN  /\ info[fsstate[s].info].conn = ConnectionHash[m]
          /\ Cached(m) /\ Jconn[ConnectionHash[m]].open
          /\ UpToDate(m) \/ PendingFor(m)

(* Between transactions nothing is left: no result set in the table of the    *)
(* JVM, no struct in the cache, no scan.                                      *)
IdleIsClean ==
  ~xact_got_connection => DOMAIN owner = {} /\ InUse = {} /\ OpenScans = {}

(* jdbcEndForeignScan: "Finish scanning foreign table and dispose objects     *)
(* used for this scan".  Ending a scan frees nothing that a running scan of   *)
(* another portal uses.                                                       *)
EndDisposesOwnObjects ==
  [][\A s, r \in Scan :
        EndForeignScan(s) /\ Running(r) /\ Running(r)' /\ Usable(fsstate[r].info)
        => Usable(fsstate[r].info)']_vars
=============================================================================
