--------------------------- MODULE JdbcConnections --------------------------
(***************************************************************************)
(* JDBCConnection.java: the process-wide cache of JDBC connections, one    *)
(* per user mapping, together with the catalog rows the connections are    *)
(* made from and the invalidation messages PostgreSQL delivers to the      *)
(* backend when such a row changes.                                        *)
(*                                                                         *)
(* The options of a row are abstracted to a version number.  A caller      *)
(* reads the rows of a server and a user mapping (GetForeignServer,        *)
(* GetUserMapping) into structs it holds for as long as it likes -- the    *)
(* planner keeps them from GetForeignRelSize to GetForeignPlan -- and      *)
(* connects with what the structs say.                                     *)
(***************************************************************************)
EXTENDS Integers, Sequences

CONSTANTS
  Server,       \* rows of pg_foreign_server
  Mapping,      \* rows of pg_user_mapping; its OID is the key of the hash
  ServerOf,     \* ServerOf[m]: the server mapping m belongs to
  Reset,        \* the cache-reset message (hashvalue 0)
  NULL,         \* no cached connection; no options read
  LookupsAge,   \* TRUE: a message may arrive while a caller holds options
  CloseFails,   \* TRUE: Connection.close() may throw
  MaxConns,     \* bound: JDBC connections made in a behaviour
  MaxVersion    \* bound: MaxVersion[r] is the number of ALTERs of row r

ASSUME ServerOfAssumption == ServerOf \in [Mapping -> Server]
ASSUME RowsAssumption ==
  /\ Server \cap Mapping = {}
  /\ Reset \notin Server \cup Mapping
  /\ NULL \notin Nat /\ NULL \notin [srv : Nat, map : Nat]
ASSUME RegimeAssumption == LookupsAge \in BOOLEAN /\ CloseFails \in BOOLEAN
ASSUME BoundsAssumption ==
  MaxConns \in Nat /\ MaxVersion \in [Server \cup Mapping -> Nat]

VARIABLES
  version,          \* version[r]: committed options of row r
  syscache,         \* syscache[r]: the options this backend has been told of
  inval,            \* invalidation messages not yet processed
  options,          \* options[m]: what the caller about to use m has read, or NULL
  ConnectionHash,   \* ConnectionHash[m]: index of the connection cached for m, or NULL
  Jconn             \* the JDBCConnection objects, in the order they were made

hashVars == <<version, syscache, inval, options, ConnectionHash, Jconn>>

Row == Server \cup Mapping
Options == [srv : Nat, map : Nat]
JDBCConnection ==
  [mapping : Mapping, options : Options, invalidate : BOOLEAN, open : BOOLEAN]

HashTypeOK ==
  /\ version \in [Row -> Nat]
  /\ syscache \in [Row -> Nat]
  /\ inval \subseteq Row \cup {Reset}
  /\ options \in [Mapping -> Options \cup {NULL}]
  /\ Jconn \in Seq(JDBCConnection)
  /\ ConnectionHash \in [Mapping -> DOMAIN Jconn \cup {NULL}]

HashInit ==
  /\ version = [r \in Row |-> 0]
  /\ syscache = [r \in Row |-> 0]
  /\ inval = {}
  /\ options = [m \in Mapping |-> NULL]
  /\ ConnectionHash = [m \in Mapping |-> NULL]
  /\ Jconn = <<>>
-----------------------------------------------------------------------------
(* Other sessions, and the catalog caches of this one.                      *)

(* ALTER SERVER or ALTER USER MAPPING commits. *)
AlterRow(r) ==
  /\ version[r] < MaxVersion[r]
  /\ version' = [version EXCEPT ![r] = @ + 1]
  /\ inval' = inval \cup {r}
  /\ UNCHANGED <<syscache, options, ConnectionHash, Jconn>>

(* The message queue overflows: what is pending becomes one cache reset. *)
InvalQueueOverflow ==
  /\ inval \notin {{}, {Reset}}
  /\ inval' = {Reset}
  /\ UNCHANGED <<version, syscache, options, ConnectionHash, Jconn>>

(* GetForeignServer and GetUserMapping: a row not in the catalog cache is    *)
(* read afresh, one that is there is as old as the last message about it.    *)
LookupOptions(m) ==
  /\ \E s \in {syscache[ServerOf[m]], version[ServerOf[m]]},
        u \in {syscache[m], version[m]} :
       options' = [options EXCEPT ![m] = [srv |-> s, map |-> u]]
  /\ UNCHANGED <<version, syscache, inval, ConnectionHash, Jconn>>

(* The caller is done with the structs. *)
ForgetOptions(m) ==
  /\ options[m] # NULL
  /\ options' = [options EXCEPT ![m] = NULL]
  /\ UNCHANGED <<version, syscache, inval, ConnectionHash, Jconn>>
-----------------------------------------------------------------------------
(* getConnection: the cached connection while it is not marked invalid, ... *)
Cached(m) == ConnectionHash[m] # NULL /\ ~Jconn[ConnectionHash[m]].invalidate

\* Faulty (see ResultSetTable on these): the hash keeps a connection it has.
CreateConnectionIfAbsent(m) ==
  /\ ~Cached(m)
  /\ Len(Jconn) < MaxConns
  /\ Jconn' = Append(Jconn, [mapping |-> m, options |-> options[m],
                             invalidate |-> FALSE, open |-> TRUE])
  /\ ConnectionHash' = [ConnectionHash EXCEPT ![m] = IF @ = NULL THEN Len(Jconn) + 1 ELSE @]

(* ... else createConnection with the options the caller passes, which then  *)
(* replaces what the hash held.                                              *)
CreateConnection(m) ==
  /\ ~Cached(m)
  /\ Len(Jconn) < MaxConns
  /\ Jconn' = Append(Jconn, [mapping |-> m, options |-> options[m],
                             invalidate |-> FALSE, open |-> TRUE])
  /\ ConnectionHash' = [ConnectionHash EXCEPT ![m] = Len(Jconn) + 1]

GetConnection(m) ==
  /\ options[m] # NULL
  /\ \/ Cached(m) /\ UNCHANGED <<ConnectionHash, Jconn>>
     \/ CreateConnection(m)
  /\ UNCHANGED <<version, syscache, inval, options>>
-----------------------------------------------------------------------------
(* finalizeAllConns, finalizeAllServerConns, finalizeAllUserMapingConns.     *)
Hashed == {ConnectionHash[m] : m \in Mapping} \ {NULL}

(* Mark the connections of S invalid and close them; when the close of one   *)
(* throws, that one stays open.                                              *)
Finalized(S, unclosed) ==
  [c \in DOMAIN Jconn |->
     IF c \in S THEN [Jconn[c] EXCEPT !.invalidate = TRUE,
                                      !.open = @ /\ c \in unclosed]
     ELSE Jconn[c]]

\* Faulty: only the hash value of the user mapping is compared.
ConnsOfMapping(r) == {c \in Hashed : r = Jconn[c].mapping}

(* The cached connections whose stored hash value is that of the row. *)
ConnsOf(r) == {c \in Hashed : r \in {Jconn[c].mapping, ServerOf[Jconn[c].mapping]}}

(* One call of a finalize method that returns.  finalizeAllServerConns and   *)
(* finalizeAllUserMapingConns stop at the first match, in an order that the  *)
(* hash map does not specify.                                                *)
Finalize(r) ==
  \/ r = Reset /\ Jconn' = Finalized(Hashed, {})
  \/ r # Reset /\ \E c \in ConnsOf(r) : Jconn' = Finalized({c}, {})
  \/ r # Reset /\ ConnsOf(r) = {} /\ UNCHANGED Jconn

(* One call that ends with the exception of a close(): the connections the   *)
(* loop of finalizeAllConns has not come to keep their state.                *)
FinalizeThrows(r) ==
  /\ CloseFails
  /\ \E S \in SUBSET Hashed : \E c \in S :
       /\ Jconn[c].open
       /\ r # Reset => S = {c} /\ c \in ConnsOf(r)
       /\ Jconn' = Finalized(S, {c})

(* A message is taken from the queue: the catalog cache drops the row before *)
(* the syscache callbacks run.                                               *)
ReceiveInval(r) ==
  /\ r \in inval
  /\ LookupsAge \/ \A m \in Mapping : options[m] = NULL
  /\ inval' = inval \ {r}
  /\ syscache' = IF r = Reset THEN version ELSE [syscache EXCEPT ![r] = version[r]]
  /\ UNCHANGED <<version, options, ConnectionHash>>

ProcessInval(r) == ReceiveInval(r) /\ Finalize(r)
ProcessInvalThrows(r) == ReceiveInval(r) /\ FinalizeThrows(r)
-----------------------------------------------------------------------------
HashNext ==
  \/ \E r \in Row : AlterRow(r)
  \/ InvalQueueOverflow
  \/ \E m \in Mapping : LookupOptions(m) \/ ForgetOptions(m) \/ GetConnection(m)
  \/ \E r \in Row \cup {Reset} : ProcessInval(r) \/ ProcessInvalThrows(r)

HashSpec == HashInit /\ [][HashNext]_hashVars
-----------------------------------------------------------------------------
PendingFor(m) == {m, ServerOf[m], Reset} \cap inval # {}

UpToDate(m) ==
  Jconn[ConnectionHash[m]].options = [srv |-> version[ServerOf[m]], map |-> version[m]]

(* The comment of jdbc_fdw_inval_callback and of jq_inval_callback: after a  *)
(* change to a catalog entry the connections depending on it are remade.  A  *)
(* connection that getConnection would hand out again was made with the      *)
(* options that are current, or a message about them is still on its way.    *)
NoStaleConnection == \A m \in Mapping : Cached(m) => UpToDate(m) \/ PendingFor(m)

(* No connection is lost: one that has not been marked invalid is in the     *)
(* hash, where the next invalidation finds it.                               *)
LiveIsHashed ==
  \A c \in DOMAIN Jconn :
    ~Jconn[c].invalidate => ConnectionHash[Jconn[c].mapping] = c
=============================================================================
