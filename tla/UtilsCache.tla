----------------------------- MODULE UtilsCache -----------------------------
(***************************************************************************)
(* connection.c with the parts of jq.c it calls: the per-thread cache of   *)
(* JDBCUtils objects, keyed by (server, user), over the process-wide JDBC  *)
(* connections of JdbcConnections.                                         *)
(*                                                                         *)
(* A cache entry points to a JDBCUtilsInfo allocated in TopMemoryContext,  *)
(* which holds a JNI local reference to the Java object.  Local references *)
(* die when the thread detaches from the JVM (jdbc_detach_jvm); Jenv is    *)
(* NULL exactly while the thread is detached.  Freed structs stay in the   *)
(* model, marked, so that a pointer kept to one can be seen to dangle.     *)
(*                                                                         *)
(* One backend with one thread.  Failures of JNI itself (a class or method *)
(* that is missing, attaching, memory) are left out.                       *)
(***************************************************************************)
EXTENDS JdbcConnections

CONSTANTS
  Key,                \* (server, user) pairs
  MappingOf,          \* MappingOf[k]: the user mapping that serves k (users
                      \* without one of their own share the PUBLIC mapping)
  InvalWhileCached,   \* TRUE: a message may be processed while entries are in use
  MaxInfos            \* bound: JDBCUtilsInfo structs allocated in a behaviour

ASSUME MappingOfAssumption == MappingOf \in [Key -> Mapping]
ASSUME CacheRegimeAssumption == InvalWhileCached \in BOOLEAN /\ MaxInfos \in Nat

VARIABLES
  jdbcUtilsInfo,        \* jdbcUtilsInfo[k]: pointer in the entry of k, or NULL
  info,                 \* the structs, in the order they were allocated
  Jenv,                 \* TRUE: the thread is attached to the JVM
  xact_got_connection   \* the transaction has asked for a connection

utilsVars == <<jdbcUtilsInfo, info, Jenv, xact_got_connection>>
cacheVars == <<hashVars, utilsVars>>

\* conn: the JDBCConnection of the Java object; ref: the local reference is
\* valid; cached: the struct was handed to the cache; freed: pfree was called.
JDBCUtilsInfo ==
  [key : Key, conn : Nat, ref : BOOLEAN, cached : BOOLEAN, freed : BOOLEAN]

UtilsTypeOK ==
  /\ info \in Seq(JDBCUtilsInfo)
  /\ jdbcUtilsInfo \in [Key -> DOMAIN info \cup {NULL}]
  /\ Jenv \in BOOLEAN
  /\ xact_got_connection \in BOOLEAN

CacheInit ==
  /\ HashInit
  /\ jdbcUtilsInfo = [k \in Key |-> NULL]
  /\ info = <<>>
  /\ Jenv = FALSE
  /\ xact_got_connection = FALSE
-----------------------------------------------------------------------------
InUse == {k \in Key : jdbcUtilsInfo[k] # NULL}
PointersOf(K) == {jdbcUtilsInfo[k] : k \in K}

\* Faulty (see ResultSetTable on these): an entry keeps its pointer.
ClearedNot(K) == jdbcUtilsInfo

Cleared(K) == [k \in Key |-> IF k \in K THEN NULL ELSE jdbcUtilsInfo[k]]

\* Faulty: nothing is freed.
FreedNot(I, detach) == [i \in DOMAIN info |-> [info[i] EXCEPT !.ref = @ /\ ~detach]]

(* pfree of the structs in I; detaching ends every local reference.          *)
Freed(I, detach) ==
  [i \in DOMAIN info |->
     [info[i] EXCEPT !.freed = @ \/ i \in I, !.ref = @ /\ ~detach]]

\* Faulty: the loop over the entries ends after one.
ReleaseOne ==
  \E K \in {{k} : k \in InUse} \cup {{}} :
    /\ K = {} => InUse = {}
    /\ jdbcUtilsInfo' = Cleared(K)
    /\ info' = Freed(PointersOf(K), TRUE)
    /\ Jenv' = FALSE

(* jdbc_release_jdbc_utils_obj frees the structs of all entries, whoever     *)
(* asked for them, and detaches the thread.                                  *)
ReleaseAll ==
  /\ jdbcUtilsInfo' = Cleared(InUse)
  /\ info' = Freed(PointersOf(InUse), TRUE)
  /\ Jenv' = FALSE

(* jdbc_get_jdbc_utils_obj, entry in use: only jdbc_jvm_init is called, which *)
(* attaches the thread if it has to.                                          *)
ReuseUtils(k) ==
  /\ jdbcUtilsInfo[k] # NULL
  /\ xact_got_connection' = TRUE
  /\ Jenv' = TRUE
  /\ UNCHANGED <<hashVars, jdbcUtilsInfo, info>>

\* Faulty: the connection is read before getConnection has made it.
NewInfoEarly(k, cached) ==
  [key |-> k, conn |-> ConnectionHash[MappingOf[k]], ref |-> cached,
   cached |-> cached, freed |-> FALSE]

NewInfo(k, cached) ==
  [key |-> k, conn |-> ConnectionHash'[MappingOf[k]], ref |-> cached,
   cached |-> cached, freed |-> FALSE]

(* Entry empty: connect_jdbc_server allocates a struct and connects.          *)
ConnectUtils(k) ==
  /\ jdbcUtilsInfo[k] = NULL
  /\ Len(info) < MaxInfos
  /\ GetConnection(MappingOf[k])
  /\ info' = Append(info, NewInfo(k, TRUE))
  /\ jdbcUtilsInfo' = [jdbcUtilsInfo EXCEPT ![k] = Len(info) + 1]
  /\ Jenv' = TRUE
  /\ xact_got_connection' = TRUE

GetUtils(k) == ReuseUtils(k) \/ ConnectUtils(k)

(* connect_jdbc_server throws: before it allocates (no password, no JVM), or  *)
(* after, when the connection or its identifier quote cannot be had.  Its     *)
(* PG_CATCH does not know the struct yet.  Every caller then releases the     *)
(* whole cache, in its error context callback or its PG_FINALLY block.        *)
GetUtilsFails(k) ==
  /\ jdbcUtilsInfo[k] = NULL
  /\ options[MappingOf[k]] # NULL
  /\ jdbcUtilsInfo' = Cleared(InUse)
  /\ Jenv' = FALSE
  /\ xact_got_connection' = TRUE
  /\ \/ info' = Freed(PointersOf(InUse), TRUE) /\ UNCHANGED hashVars
     \/ /\ Len(info) < MaxInfos
        /\ GetConnection(MappingOf[k]) \/ (~Cached(MappingOf[k]) /\ UNCHANGED hashVars)
        /\ info' = Append(Freed(PointersOf(InUse), TRUE),
                          [NewInfo(k, FALSE) EXCEPT !.conn = 0])

(* A call that gets the object of k, uses it and releases the whole cache     *)
(* before it ends, as jdbc_exec does and a callback that fails after it got   *)
(* the object.  A struct made on the way does not outlive the call.           *)
UseUtilsOnce(k) ==
  /\ \/ jdbcUtilsInfo[k] # NULL /\ info[jdbcUtilsInfo[k]].ref /\ UNCHANGED hashVars
     \/ jdbcUtilsInfo[k] = NULL /\ GetConnection(MappingOf[k])
  /\ ReleaseAll
  /\ xact_got_connection' = TRUE

(* jdbc_release_jdbc_utils_obj as the callbacks of jdbc_fdw.c call it.        *)
Release == ReleaseAll /\ UNCHANGED <<hashVars, xact_got_connection>>
-----------------------------------------------------------------------------
\* Faulty: the hash value of the server is not compared.
DependentOnMapping(r) == {k \in InUse : r \in {Reset, MappingOf[k]}}

(* jdbc_fdw_inval_callback: the entries that depend on the row are freed,    *)
(* then the Java side finalizes its connections and the thread detaches --   *)
(* unless a close() throws, which skips the detaching.  The reset message    *)
(* has hashvalue 0.                                                          *)
Dependent(r) ==
  {k \in InUse : r \in {Reset, MappingOf[k], ServerOf[MappingOf[k]]}}

DropDependent(r, detach) ==
  /\ InvalWhileCached \/ InUse = {}
  /\ jdbcUtilsInfo' = Cleared(Dependent(r))
  /\ info' = Freed(PointersOf(Dependent(r)), detach)
  /\ UNCHANGED xact_got_connection

InvalCallback(r) ==
  /\ ProcessInval(r)
  /\ DropDependent(r, TRUE)
  /\ Jenv' = FALSE

InvalCallbackThrows(r) ==
  /\ ProcessInvalThrows(r)
  /\ DropDependent(r, FALSE)
  /\ Jenv' = TRUE

\* Faulty: the flag is reset, the cache left.
XactCallbackFlagOnly ==
  /\ xact_got_connection
  /\ xact_got_connection' = FALSE
  /\ UNCHANGED <<hashVars, jdbcUtilsInfo, info, Jenv>>

(* jdbcfdw_xact_callback at COMMIT or ABORT; PREPARE and the pre-commit      *)
(* events pass through it without effect.                                    *)
XactCallback ==
  /\ xact_got_connection
  /\ ReleaseAll
  /\ xact_got_connection' = FALSE
  /\ UNCHANGED hashVars
-----------------------------------------------------------------------------
(* What happens outside of connection.c. *)
Environment ==
  /\ \/ \E r \in Row : AlterRow(r)
     \/ InvalQueueOverflow
     \/ \E m \in Mapping : LookupOptions(m) \/ ForgetOptions(m)
  /\ UNCHANGED utilsVars

CacheNext ==
  \/ \E k \in Key : GetUtils(k) \/ GetUtilsFails(k) \/ UseUtilsOnce(k)
  \/ Release
  \/ \E r \in Row \cup {Reset} : InvalCallback(r) \/ InvalCallbackThrows(r)
  \/ XactCallback
  \/ Environment

CacheSpec == CacheInit /\ [][CacheNext]_cacheVars
-----------------------------------------------------------------------------
(* No entry points to a struct that has been freed, so that the next caller  *)
(* does not get it and nobody frees it again; no two entries share one.      *)
CachedInfoLive ==
  /\ \A k \in InUse : ~info[jdbcUtilsInfo[k]].freed /\ info[jdbcUtilsInfo[k]].key = k
  /\ \A k, l \in InUse : jdbcUtilsInfo[k] = jdbcUtilsInfo[l] => k = l

(* A cached JDBCUtils object always has a connection that is still open: the *)
(* C side and the Java side agree about which connections a message ends,    *)
(* although each goes by hash values of its own and the Java side stops at   *)
(* the first match.                                                          *)
CachedConnOpen ==
  \A k \in InUse :
    /\ info[jdbcUtilsInfo[k]].conn \in DOMAIN Jconn
    /\ Jconn[info[jdbcUtilsInfo[k]].conn].open

(* A struct that was ever handed out is freed on every path that takes it    *)
(* out of the cache.                                                         *)
HandedOutIsCachedOrFreed ==
  \A i \in DOMAIN info : info[i].cached /\ ~info[i].freed => i \in PointersOf(InUse)

(* Between transactions the cache is empty: what the flag lets the callback  *)
(* skip is never there.                                                      *)
IdleHoldsNothing == ~xact_got_connection => InUse = {}

(* Detaching the thread ends the references of all entries.  Whoever does it *)
(* drops them all, but for jq_inval_callback: an entry that is kept loses its *)
(* reference only by a message about a row that it does not depend on.        *)
OnlyMessagesEndReferences ==
  [][\A k \in InUse :
       info[jdbcUtilsInfo[k]].ref /\ jdbcUtilsInfo'[k] # NULL
         /\ ~info'[jdbcUtilsInfo[k]].ref =>
       \E r \in Row : InvalCallback(r) /\ k \notin Dependent(r)]_cacheVars
=============================================================================
