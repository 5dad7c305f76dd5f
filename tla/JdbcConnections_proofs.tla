----------------------- MODULE JdbcConnections_proofs -----------------------
(***************************************************************************)
(* Theorems about JdbcConnections, for every set of servers and mappings   *)
(* and without the bounds of the runs.                                     *)
(***************************************************************************)
EXTENDS JdbcConnections, TLAPS

(* The records one finalize call leaves are the records it found, with some *)
(* marked invalid and some closed.                                          *)
LEMMA FinalizedType ==
  ASSUME Jconn \in Seq(JDBCConnection), NEW S, NEW unclosed
  PROVE  /\ Finalized(S, unclosed) \in Seq(JDBCConnection)
         /\ DOMAIN Finalized(S, unclosed) = DOMAIN Jconn
         /\ Len(Finalized(S, unclosed)) = Len(Jconn)
         /\ \A c \in DOMAIN Jconn :
              /\ Finalized(S, unclosed)[c].mapping = Jconn[c].mapping
              /\ Finalized(S, unclosed)[c].options = Jconn[c].options
              /\ Finalized(S, unclosed)[c].invalidate = (Jconn[c].invalidate \/ c \in S)
              /\ Jconn[c].invalidate => Finalized(S, unclosed)[c].invalidate
              /\ c \in S => Finalized(S, unclosed)[c].invalidate
              /\ c \notin S => Finalized(S, unclosed)[c] = Jconn[c]
<1> DEFINE F == Finalized(S, unclosed)
<1>1. Jconn \in [1..Len(Jconn) -> JDBCConnection] /\ Len(Jconn) \in Nat
  OBVIOUS
<1>2. F \in [1..Len(Jconn) -> JDBCConnection]
  BY <1>1 DEF Finalized, JDBCConnection
<1>3. \A c \in DOMAIN Jconn :
        /\ F[c].mapping = Jconn[c].mapping
        /\ F[c].options = Jconn[c].options
        /\ F[c].invalidate = (Jconn[c].invalidate \/ c \in S)
        /\ Jconn[c].invalidate => F[c].invalidate
        /\ c \in S => F[c].invalidate
        /\ c \notin S => F[c] = Jconn[c]
  BY <1>1 DEF Finalized, JDBCConnection
<1> QED
  BY <1>1, <1>2, <1>3

(* What one call of the three methods does, whether or not it throws.        *)
LEMMA ProcessedBy ==
  ASSUME HashTypeOK, NEW r \in Row \cup {Reset}, ProcessInval(r) \/ ProcessInvalThrows(r)
  PROVE  \E S, unclosed : Jconn' = Finalized(S, unclosed) /\ S \subseteq Hashed
<1>1. Jconn = Finalized({}, {})
  BY DEF HashTypeOK, Finalized
<1>2. CASE ProcessInval(r)
  <2>1. CASE r = Reset
    BY <1>2, <2>1 DEF ProcessInval, Finalize
  <2>2. ASSUME NEW c \in ConnsOf(r), Jconn' = Finalized({c}, {})
        PROVE  {c} \subseteq Hashed
    BY DEF ConnsOf
  <2>3. CASE UNCHANGED Jconn
    BY <1>1, <2>3
  <2> QED
    BY <1>2, <2>1, <2>2, <2>3 DEF ProcessInval, Finalize
<1>3. CASE ProcessInvalThrows(r)
  BY <1>3 DEF ProcessInvalThrows, FinalizeThrows
<1> QED
  BY <1>2, <1>3

(* The types of the model: in particular the hash never holds an index of no *)
(* connection.                                                               *)
THEOREM HashTypeCorrect == HashSpec => []HashTypeOK
<1>1. HashInit => HashTypeOK
  BY DEF HashInit, HashTypeOK, Row
<1>2. HashTypeOK /\ [HashNext]_hashVars => HashTypeOK'
  <2> SUFFICES ASSUME HashTypeOK, [HashNext]_hashVars PROVE HashTypeOK'
    OBVIOUS
  <2>1. ASSUME NEW r \in Row, AlterRow(r) PROVE HashTypeOK'
    BY <2>1 DEF HashTypeOK, AlterRow, Row
  <2>2. CASE InvalQueueOverflow
    BY <2>2 DEF HashTypeOK, InvalQueueOverflow
  <2>3. ASSUME NEW m \in Mapping, LookupOptions(m) PROVE HashTypeOK'
    <3>1. PICK o \in Options : options' = [options EXCEPT ![m] = o]
      BY <2>3, ServerOfAssumption DEF HashTypeOK, LookupOptions, Row, Options
    <3> QED
      BY <2>3, <3>1 DEF HashTypeOK, LookupOptions
  <2>4. ASSUME NEW m \in Mapping, ForgetOptions(m) PROVE HashTypeOK'
    BY <2>4 DEF HashTypeOK, ForgetOptions
  <2>5. ASSUME NEW m \in Mapping, GetConnection(m) PROVE HashTypeOK'
    <3>1. CASE CreateConnection(m)
      <4>1. options[m] \in Options
        BY <2>5 DEF GetConnection, HashTypeOK
      <4> DEFINE new == [mapping |-> m, options |-> options[m],
                         invalidate |-> FALSE, open |-> TRUE]
      <4>2. new \in JDBCConnection
        BY <4>1 DEF JDBCConnection
      <4>3. Jconn' = Append(Jconn, new)
        BY <3>1 DEF CreateConnection
      <4> HIDE DEF new
      <4>4. Jconn' \in Seq(JDBCConnection) /\ DOMAIN Jconn' = 1..Len(Jconn) + 1
        BY <4>2, <4>3 DEF HashTypeOK
      <4>5. DOMAIN Jconn = 1..Len(Jconn) /\ Len(Jconn) \in Nat
        BY DEF HashTypeOK
      <4>6. ConnectionHash' \in [Mapping -> DOMAIN Jconn' \cup {NULL}]
        BY <3>1, <4>4, <4>5 DEF HashTypeOK, CreateConnection
      <4> QED
        BY <2>5, <4>4, <4>6 DEF HashTypeOK, GetConnection
    <3> QED
      BY <2>5, <3>1 DEF HashTypeOK, GetConnection
  <2>6. ASSUME NEW r \in Row \cup {Reset}, ProcessInval(r) \/ ProcessInvalThrows(r)
        PROVE  HashTypeOK'
    <3>1. Jconn' \in Seq(JDBCConnection) /\ DOMAIN Jconn' = DOMAIN Jconn
      BY <2>6, ProcessedBy, FinalizedType DEF HashTypeOK
    <3>2. ReceiveInval(r)
      BY <2>6 DEF ProcessInval, ProcessInvalThrows
    <3> QED
      BY <3>1, <3>2 DEF HashTypeOK, ReceiveInval, Row
  <2>7. CASE UNCHANGED hashVars
    BY <2>7 DEF HashTypeOK, hashVars
  <2> QED
    BY <2>1, <2>2, <2>3, <2>4, <2>5, <2>6, <2>7 DEF HashNext
<1> QED
  BY <1>1, <1>2, PTL DEF HashSpec
-----------------------------------------------------------------------------
(* What the hash holds for a mapping is a connection of that mapping, ...    *)
HashedOwn ==
  \A m \in Mapping :
    ConnectionHash[m] # NULL => Jconn[ConnectionHash[m]].mapping = m

(* ... what is closed is always marked invalid, whatever close() does, ...   *)
ValidIsOpen == \A c \in DOMAIN Jconn : ~Jconn[c].invalidate => Jconn[c].open

(* ... and the hash holds every connection that is not marked invalid.       *)
HashInv == HashTypeOK /\ HashedOwn /\ ValidIsOpen /\ LiveIsHashed

LEMMA HashInvInductive == HashSpec => []HashInv
<1>1. HashInit => HashedOwn /\ ValidIsOpen /\ LiveIsHashed
  BY DEF HashInit, HashedOwn, ValidIsOpen, LiveIsHashed
<1>2. HashInv /\ HashTypeOK' /\ [HashNext]_hashVars => HashInv'
  <2> SUFFICES ASSUME HashInv, HashTypeOK', [HashNext]_hashVars
               PROVE  HashedOwn' /\ ValidIsOpen' /\ LiveIsHashed'
    BY DEF HashInv
  <2> USE DEF HashInv
  <2>1. CASE UNCHANGED <<ConnectionHash, Jconn>>
    BY <2>1 DEF HashedOwn, ValidIsOpen, LiveIsHashed
  <2>2. ASSUME NEW m \in Mapping, CreateConnection(m) PROVE HashedOwn' /\ ValidIsOpen' /\ LiveIsHashed'
    <3> DEFINE n == Len(Jconn) + 1
    <3>1. /\ DOMAIN Jconn = 1..Len(Jconn) /\ DOMAIN Jconn' = 1..n /\ Len(Jconn) \in Nat
          /\ Jconn'[n].mapping = m /\ Jconn'[n].open
          /\ \A c \in DOMAIN Jconn : Jconn'[c] = Jconn[c]
      BY <2>2 DEF HashTypeOK, CreateConnection
    <3>2. ConnectionHash' = [ConnectionHash EXCEPT ![m] = n] /\ ~Cached(m)
      BY <2>2 DEF CreateConnection
    <3>3. HashedOwn'
      BY <3>1, <3>2 DEF HashedOwn, HashTypeOK
    <3>4. ASSUME NEW c \in DOMAIN Jconn, ~Jconn[c].invalidate
          PROVE  Jconn[c].mapping # m /\ Jconn[c].mapping \in Mapping
      <4>1. Jconn[c] \in JDBCConnection
        BY DEF HashTypeOK
      <4>2. ConnectionHash[Jconn[c].mapping] = c /\ c # NULL
        BY <3>1, <3>4, RowsAssumption DEF LiveIsHashed
      <4> QED
        BY <3>2, <3>4, <4>1, <4>2 DEF Cached, JDBCConnection
    <3>5. ASSUME NEW c \in DOMAIN Jconn', ~Jconn'[c].invalidate
          PROVE  ConnectionHash'[Jconn'[c].mapping] = c
      <4>1. CASE c = n
        BY <3>1, <3>2, <4>1 DEF HashTypeOK
      <4>2. CASE c \in DOMAIN Jconn
        BY <3>1, <3>2, <3>4, <3>5, <4>2 DEF LiveIsHashed, HashTypeOK
      <4> QED
        BY <3>1, <4>1, <4>2
    <3>6. ValidIsOpen'
      BY <3>1 DEF ValidIsOpen
    <3> QED
      BY <3>3, <3>5, <3>6 DEF LiveIsHashed
  <2>3. ASSUME NEW r \in Row \cup {Reset}, ProcessInval(r) \/ ProcessInvalThrows(r)
        PROVE  HashedOwn' /\ ValidIsOpen' /\ LiveIsHashed'
    <3>1. PICK S, unclosed : Jconn' = Finalized(S, unclosed) /\ S \subseteq Hashed
      BY <2>3, ProcessedBy
    <3>2. /\ DOMAIN Jconn' = DOMAIN Jconn
          /\ \A c \in DOMAIN Jconn :
               /\ Jconn'[c].mapping = Jconn[c].mapping
               /\ Jconn'[c].invalidate = (Jconn[c].invalidate \/ c \in S)
               /\ c \notin S => Jconn'[c] = Jconn[c]
      BY <3>1, FinalizedType DEF HashTypeOK
    <3>3. ConnectionHash' = ConnectionHash
      BY <2>3 DEF ProcessInval, ProcessInvalThrows, ReceiveInval
    <3> QED
      BY <3>2, <3>3 DEF HashedOwn, ValidIsOpen, LiveIsHashed, HashTypeOK
  <2> QED
    BY <2>1, <2>2, <2>3
       DEF HashNext, hashVars, AlterRow, InvalQueueOverflow, LookupOptions, ForgetOptions,
           GetConnection
<1> QED
  BY <1>1, <1>2, HashTypeCorrect, PTL DEF HashSpec, HashInv

(* No connection is lost: createConnection replaces only what was marked     *)
(* invalid, so that every connection still valid can be found and closed.    *)
THEOREM LiveHashed == HashSpec => []LiveIsHashed
BY HashInvInductive, PTL DEF HashInv

(* getConnection hands out a valid connection of the mapping and keeps all   *)
(* the others as they are.                                                   *)
LEMMA Connected ==
  ASSUME HashInv, HashInv', NEW m \in Mapping, GetConnection(m)
  PROVE  /\ ConnectionHash'[m] \in DOMAIN Jconn'
         /\ Jconn'[ConnectionHash'[m]].mapping = m
         /\ ~Jconn'[ConnectionHash'[m]].invalidate
         /\ \A d \in DOMAIN Jconn : d \in DOMAIN Jconn' /\ Jconn'[d] = Jconn[d]
<1>1. CASE Cached(m) /\ UNCHANGED <<ConnectionHash, Jconn>>
  BY <1>1 DEF Cached, HashInv, HashTypeOK, HashedOwn
<1>2. CASE CreateConnection(m)
  BY <1>2 DEF CreateConnection, HashInv, HashTypeOK
<1> QED
  BY <1>1, <1>2 DEF GetConnection

(* A message about a row leaves the connections it is not about untouched.   *)
LEMMA OthersKept ==
  ASSUME HashInv, NEW r \in Row \cup {Reset}, ProcessInval(r) \/ ProcessInvalThrows(r),
         NEW c \in DOMAIN Jconn,
         r \notin {Reset, Jconn[c].mapping, ServerOf[Jconn[c].mapping]}
  PROVE  c \in DOMAIN Jconn' /\ Jconn'[c] = Jconn[c]
<1>1. PICK S, unclosed : Jconn' = Finalized(S, unclosed) /\ c \notin S
  <2>1. c \notin ConnsOf(r)
    BY DEF ConnsOf
  <2>2. CASE ProcessInval(r)
    <3>1. CASE \E d \in ConnsOf(r) : Jconn' = Finalized({d}, {})
      BY <2>1, <3>1
    <3>2. CASE UNCHANGED Jconn
      <4>1. Jconn = Finalized({}, {})
        BY DEF HashInv, HashTypeOK, Finalized
      <4> QED
        BY <3>2, <4>1
    <3> QED
      BY <2>2, <3>1, <3>2 DEF ProcessInval, Finalize
  <2>3. CASE ProcessInvalThrows(r)
    BY <2>1, <2>3 DEF ProcessInvalThrows, FinalizeThrows
  <2> QED
    BY <2>2, <2>3
<1> QED
  BY <1>1, FinalizedType DEF HashInv, HashTypeOK
-----------------------------------------------------------------------------
(* Freshness.  A row whose change this backend has not been told of has a    *)
(* message on its way, and so have options read from before the change.      *)
Told ==
  \A r \in Row : syscache[r] = version[r] \/ {r, Reset} \cap inval # {}

OptionsFresh ==
  \A m \in Mapping :
    options[m] = NULL \/ PendingFor(m)
    \/ options[m] = [srv |-> version[ServerOf[m]], map |-> version[m]]

FreshInv == HashInv /\ Told /\ OptionsFresh /\ NoStaleConnection

OneMappingPerServer ==
  \A m, n \in Mapping : ServerOf[m] = ServerOf[n] => m = n

(* A message about row r leaves no connection of the mappings it is about.   *)
LEMMA FinalizedRow ==
  ASSUME HashInv, OneMappingPerServer, NEW r \in Row \cup {Reset}, ProcessInval(r),
         NEW m \in Mapping, r \in {m, ServerOf[m], Reset}
  PROVE  ~Cached(m)'
<1> SUFFICES ASSUME ConnectionHash[m] # NULL
             PROVE  Jconn'[ConnectionHash[m]].invalidate
  BY DEF Cached, ProcessInval, ReceiveInval
<1> DEFINE c == ConnectionHash[m]
<1>1. c \in DOMAIN Jconn /\ c \in Hashed /\ Jconn[c].mapping = m
  BY DEF HashInv, HashTypeOK, HashedOwn, Hashed
<1>2. CASE r = Reset
  <2>1. Jconn' = Finalized(Hashed, {})
    BY <1>2, RowsAssumption DEF ProcessInval, Finalize
  <2> QED
    BY <1>1, <2>1, FinalizedType DEF HashInv, HashTypeOK
<1>3. CASE r # Reset
  <2>1. c \in ConnsOf(r)
    BY <1>1, <1>3 DEF ConnsOf
  <2>2. PICK d \in ConnsOf(r) : Jconn' = Finalized({d}, {})
    BY <1>3, <2>1 DEF ProcessInval, Finalize
  <2>3. PICK n \in Mapping : d = ConnectionHash[n] /\ d # NULL
    BY DEF ConnsOf, Hashed
  <2>4. Jconn[d].mapping = n
    BY <2>3 DEF HashInv, HashedOwn
  <2>5. n = m
    BY <1>3, <2>4, RowsAssumption, ServerOfAssumption DEF ConnsOf, OneMappingPerServer
  <2> QED
    BY <1>1, <2>2, <2>3, <2>5, FinalizedType DEF HashInv, HashTypeOK
<1> QED
  BY <1>2, <1>3

LEMMA FreshInductive ==
  ASSUME ~LookupsAge, ~CloseFails, OneMappingPerServer
  PROVE  HashSpec => []FreshInv
<1>1. HashInit => Told /\ OptionsFresh /\ NoStaleConnection
  BY DEF HashInit, Told, OptionsFresh, NoStaleConnection, Cached
<1>2. FreshInv /\ HashInv' /\ [HashNext]_hashVars => FreshInv'
  <2> SUFFICES ASSUME FreshInv, HashInv', [HashNext]_hashVars
               PROVE  Told' /\ OptionsFresh' /\ NoStaleConnection'
    BY DEF FreshInv
  <2> USE DEF FreshInv
  <2>t. /\ \A m \in Mapping : ServerOf[m] \in Row /\ m \in Row
        /\ version \in [Row -> Nat] /\ syscache \in [Row -> Nat]
        /\ options \in [Mapping -> Options \cup {NULL}]
    BY ServerOfAssumption DEF Row, HashInv, HashTypeOK
  <2>1. ASSUME NEW r \in Row, AlterRow(r)
        PROVE  Told' /\ OptionsFresh' /\ NoStaleConnection'
    <3>1. /\ version' = [version EXCEPT ![r] = @ + 1] /\ inval' = inval \cup {r}
          /\ UNCHANGED <<syscache, options, ConnectionHash, Jconn>>
      BY <2>1 DEF AlterRow
    <3>2. Told'
      BY <3>1, <2>t DEF Told
    <3>3. OptionsFresh'
      BY <3>1, <2>t DEF OptionsFresh, PendingFor
    <3>4. NoStaleConnection'
      BY <3>1, <2>t DEF NoStaleConnection, PendingFor, Cached, UpToDate
    <3> QED
      BY <3>2, <3>3, <3>4
  <2>2. CASE InvalQueueOverflow
    BY <2>2 DEF InvalQueueOverflow, Told, OptionsFresh, NoStaleConnection, PendingFor, Cached
  <2>3. ASSUME NEW m \in Mapping, LookupOptions(m)
        PROVE  Told' /\ OptionsFresh' /\ NoStaleConnection'
    <3>1. UNCHANGED <<version, syscache, inval, ConnectionHash, Jconn>>
      BY <2>3 DEF LookupOptions
    <3>2. PICK s \in {syscache[ServerOf[m]], version[ServerOf[m]]},
               u \in {syscache[m], version[m]} :
            options' = [options EXCEPT ![m] = [srv |-> s, map |-> u]]
      BY <2>3 DEF LookupOptions
    <3>3. PendingFor(m) \/ (s = version[ServerOf[m]] /\ u = version[m])
      BY <2>t DEF Told, PendingFor
    <3>4. OptionsFresh'
      BY <3>1, <3>2, <3>3, <2>t DEF OptionsFresh, PendingFor
    <3> QED
      BY <3>1, <3>4 DEF Told, NoStaleConnection, PendingFor, Cached, UpToDate
  <2>4. ASSUME NEW m \in Mapping, ForgetOptions(m)
        PROVE  Told' /\ OptionsFresh' /\ NoStaleConnection'
    BY <2>4, <2>t
       DEF ForgetOptions, Told, OptionsFresh, NoStaleConnection, PendingFor, Cached, UpToDate
  <2>5. ASSUME NEW m \in Mapping, GetConnection(m)
        PROVE  Told' /\ OptionsFresh' /\ NoStaleConnection'
    <3>1. UNCHANGED <<version, syscache, inval, options>> /\ options[m] # NULL
      BY <2>5 DEF GetConnection
    <3>2. Told' /\ OptionsFresh'
      BY <3>1 DEF Told, OptionsFresh, PendingFor
    <3>3. CASE UNCHANGED <<ConnectionHash, Jconn>>
      BY <3>1, <3>2, <3>3 DEF NoStaleConnection, PendingFor, Cached, UpToDate
    <3>4. CASE CreateConnection(m)
      <4> DEFINE c == Len(Jconn) + 1
      <4>1. /\ DOMAIN Jconn = 1..Len(Jconn) /\ Len(Jconn) \in Nat
            /\ Jconn'[c].options = options[m]
            /\ \A d \in DOMAIN Jconn : Jconn'[d] = Jconn[d]
            /\ ConnectionHash' = [ConnectionHash EXCEPT ![m] = c]
            /\ ConnectionHash \in [Mapping -> DOMAIN Jconn \cup {NULL}]
        BY <3>4 DEF CreateConnection, HashInv, HashTypeOK
      <4>2. ASSUME NEW n \in Mapping, n # m, Cached(n)'
            PROVE  (UpToDate(n) \/ PendingFor(n))'
        BY <3>1, <4>1, <4>2 DEF NoStaleConnection, PendingFor, Cached, UpToDate
      <4>3. (UpToDate(m) \/ PendingFor(m))'
        BY <3>1, <4>1 DEF OptionsFresh, PendingFor, UpToDate
      <4> QED
        BY <3>2, <4>2, <4>3 DEF NoStaleConnection
    <3> QED
      BY <2>5, <3>2, <3>3, <3>4 DEF GetConnection
  <2>6. ASSUME NEW r \in Row \cup {Reset}, ProcessInval(r)
        PROVE  Told' /\ OptionsFresh' /\ NoStaleConnection'
    <3>1. /\ r \in inval /\ inval' = inval \ {r}
          /\ syscache' = IF r = Reset THEN version ELSE [syscache EXCEPT ![r] = version[r]]
          /\ UNCHANGED <<version, options, ConnectionHash>>
          /\ \A m \in Mapping : options[m] = NULL
      BY <2>6 DEF ProcessInval, ReceiveInval
    <3>2. Told' /\ OptionsFresh'
      BY <3>1, <2>t, RowsAssumption DEF Told, OptionsFresh
    <3>3. ASSUME NEW m \in Mapping, Cached(m)'
          PROVE  (UpToDate(m) \/ PendingFor(m))'
      <4>1. r \notin {m, ServerOf[m], Reset}
        BY <2>6, <3>3, FinalizedRow
      <4>2. PICK S, unclosed : Jconn' = Finalized(S, unclosed) /\ S \subseteq Hashed
        BY <2>6, ProcessedBy DEF HashInv
      <4>3. ConnectionHash[m] \in DOMAIN Jconn
        BY <3>1, <3>3 DEF Cached, HashInv, HashTypeOK
      <4>4. /\ Jconn'[ConnectionHash[m]].options = Jconn[ConnectionHash[m]].options
            /\ Jconn[ConnectionHash[m]].invalidate => Jconn'[ConnectionHash[m]].invalidate
        BY <4>2, <4>3, FinalizedType DEF HashInv, HashTypeOK
      <4> QED
        BY <3>1, <3>3, <4>1, <4>4 DEF NoStaleConnection, PendingFor, Cached, UpToDate
    <3> QED
      BY <3>2, <3>3 DEF NoStaleConnection
  <2>7. CASE UNCHANGED hashVars
    BY <2>7 DEF hashVars, Told, OptionsFresh, NoStaleConnection, PendingFor, Cached, UpToDate
  <2> QED
    BY <2>1, <2>2, <2>3, <2>4, <2>5, <2>6, <2>7
       DEF HashNext, ProcessInvalThrows, FinalizeThrows
<1> QED
  BY <1>1, <1>2, HashInvInductive, PTL DEF HashSpec, FreshInv

(* A connection getConnection would hand out again was made with the current *)
(* options, or a message is on its way: where no close() throws, nobody      *)
(* holds options over a message, and no server has two user mappings.        *)
THEOREM Fresh ==
  ASSUME ~LookupsAge, ~CloseFails, OneMappingPerServer
  PROVE  HashSpec => []NoStaleConnection
BY FreshInductive, PTL DEF FreshInv
=============================================================================
