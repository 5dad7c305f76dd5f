-------------------------- MODULE UtilsCache_proofs -------------------------
(***************************************************************************)
(* Theorems about UtilsCache, for every set of users, mappings and servers  *)
(* and every value of the bounds, in every regime.                           *)
(***************************************************************************)
EXTENDS UtilsCache, JdbcConnections_proofs

(* Every operation of the cache uses the connection hash by its operations   *)
(* only, so that what holds of the hash alone holds below the cache.         *)
THEOREM CacheUsesHash == CacheSpec => HashSpec
<1>1. CacheInit => HashInit
  BY DEF CacheInit
<1>2. [CacheNext]_cacheVars => [HashNext]_hashVars
  <2> SUFFICES ASSUME CacheNext PROVE HashNext \/ UNCHANGED hashVars
    BY DEF cacheVars
  <2>1. ASSUME NEW k \in Key, GetUtils(k) \/ GetUtilsFails(k) \/ UseUtilsOnce(k)
        PROVE  HashNext \/ UNCHANGED hashVars
    <3>1. MappingOf[k] \in Mapping
      BY MappingOfAssumption
    <3>2. GetConnection(MappingOf[k]) \/ UNCHANGED hashVars
      BY <2>1 DEF GetUtils, ReuseUtils, ConnectUtils, GetUtilsFails, UseUtilsOnce
    <3> QED
      BY <3>1, <3>2 DEF HashNext
  <2>2. CASE Release \/ XactCallback
    BY <2>2 DEF Release, XactCallback
  <2>3. ASSUME NEW r \in Row \cup {Reset}, InvalCallback(r) \/ InvalCallbackThrows(r)
        PROVE  HashNext
    BY <2>3 DEF InvalCallback, InvalCallbackThrows, HashNext
  <2>4. CASE Environment
    BY <2>4 DEF Environment, HashNext
  <2> QED
    BY <2>1, <2>2, <2>3, <2>4 DEF CacheNext
<1> QED
  BY <1>1, <1>2, PTL DEF CacheSpec, HashSpec

-----------------------------------------------------------------------------
(* Taking entries out of the cache and freeing their structs, detached or    *)
(* not, keeps the other entries and structs as they are.                     *)
EntriesInv == UtilsTypeOK /\ CachedInfoLive /\ HandedOutIsCachedOrFreed

LEMMA FreedType ==
  ASSUME UtilsTypeOK, NEW I, NEW detach \in BOOLEAN
  PROVE  /\ Freed(I, detach) \in Seq(JDBCUtilsInfo)
         /\ DOMAIN Freed(I, detach) = DOMAIN info
         /\ Len(Freed(I, detach)) = Len(info)
         /\ \A i \in DOMAIN info :
              /\ Freed(I, detach)[i].key = info[i].key
              /\ Freed(I, detach)[i].conn = info[i].conn
              /\ Freed(I, detach)[i].cached = info[i].cached
              /\ Freed(I, detach)[i].freed = (info[i].freed \/ i \in I)
<1> DEFINE F == Freed(I, detach)
<1>1. info \in [1..Len(info) -> JDBCUtilsInfo] /\ Len(info) \in Nat
  BY DEF UtilsTypeOK
<1>2. F \in [1..Len(info) -> JDBCUtilsInfo]
  BY <1>1 DEF Freed, JDBCUtilsInfo
<1>3. \A i \in DOMAIN info :
        /\ F[i].key = info[i].key /\ F[i].conn = info[i].conn
        /\ F[i].cached = info[i].cached /\ F[i].freed = (info[i].freed \/ i \in I)
  BY <1>1 DEF Freed, JDBCUtilsInfo
<1> QED
  BY <1>1, <1>2, <1>3

LEMMA EntriesDropped ==
  ASSUME EntriesInv, NEW K \in SUBSET InUse, NEW detach \in BOOLEAN,
         jdbcUtilsInfo' = Cleared(K), info' = Freed(PointersOf(K), detach),
         Jenv' \in BOOLEAN, xact_got_connection' \in BOOLEAN
  PROVE  /\ EntriesInv'
         /\ InUse' = InUse \ K
         /\ \A k \in InUse' : /\ jdbcUtilsInfo'[k] = jdbcUtilsInfo[k]
                             /\ info'[jdbcUtilsInfo[k]].conn = info[jdbcUtilsInfo[k]].conn
<1> USE DEF EntriesInv
<1>1. /\ info' \in Seq(JDBCUtilsInfo) /\ DOMAIN info' = DOMAIN info
      /\ \A i \in DOMAIN info :
           /\ info'[i].key = info[i].key /\ info'[i].conn = info[i].conn
           /\ info'[i].cached = info[i].cached
           /\ info'[i].freed = (info[i].freed \/ i \in PointersOf(K))
  BY FreedType
<1>2. UtilsTypeOK'
  BY <1>1 DEF UtilsTypeOK, Cleared
<1>3. InUse' = InUse \ K /\ \A k \in InUse' : jdbcUtilsInfo'[k] = jdbcUtilsInfo[k]
  BY DEF InUse, Cleared
<1>4. \A k \in InUse' : jdbcUtilsInfo[k] \in DOMAIN info /\ jdbcUtilsInfo[k] \notin PointersOf(K)
  <2>1. \A k \in InUse : jdbcUtilsInfo[k] \in DOMAIN info
    BY DEF InUse, UtilsTypeOK
  <2>2. \A k \in InUse \ K : jdbcUtilsInfo[k] \notin PointersOf(K)
    BY DEF CachedInfoLive, PointersOf
  <2> QED
    BY <1>3, <2>1, <2>2
<1>5. CachedInfoLive'
  <2>1. \A k \in InUse' : k \in InUse /\ jdbcUtilsInfo'[k] = jdbcUtilsInfo[k]
    BY <1>3
  <2>2. \A k \in InUse' : ~info'[jdbcUtilsInfo[k]].freed /\ info'[jdbcUtilsInfo[k]].key = k
    BY <1>1, <1>4, <2>1 DEF CachedInfoLive
  <2>3. \A k, l \in InUse' : jdbcUtilsInfo'[k] = jdbcUtilsInfo'[l] => k = l
    BY <2>1 DEF CachedInfoLive
  <2> QED
    BY <2>1, <2>2, <2>3 DEF CachedInfoLive
<1>6. HandedOutIsCachedOrFreed'
  <2> SUFFICES ASSUME NEW i \in DOMAIN info, info[i].cached, ~info[i].freed, i \notin PointersOf(K)
               PROVE  i \in PointersOf(InUse)'
    BY <1>1 DEF HandedOutIsCachedOrFreed
  <2>1. PICK k \in InUse \ K : jdbcUtilsInfo[k] = i
    BY DEF HandedOutIsCachedOrFreed, PointersOf
  <2> QED
    BY <1>3, <2>1 DEF PointersOf
<1> QED
  BY <1>1, <1>2, <1>3, <1>4, <1>5, <1>6
-----------------------------------------------------------------------------
(* A cached object has a valid connection of the mapping that serves its key.*)
EntriesConnected ==
  \A k \in InUse :
    LET c == info[jdbcUtilsInfo[k]].conn IN
    c \in DOMAIN Jconn /\ Jconn[c].mapping = MappingOf[k] /\ ~Jconn[c].invalidate

CacheInv == HashInv /\ EntriesInv /\ IdleHoldsNothing /\ EntriesConnected

LEMMA CacheInvInductive == CacheSpec => []CacheInv
<1>1. CacheInit => EntriesInv /\ IdleHoldsNothing /\ EntriesConnected
  <2> SUFFICES ASSUME CacheInit PROVE EntriesInv /\ IdleHoldsNothing /\ EntriesConnected
    OBVIOUS
  <2>1. UtilsTypeOK
    <3>1. info \in Seq(JDBCUtilsInfo) /\ jdbcUtilsInfo \in [Key -> DOMAIN info \cup {NULL}]
      BY DEF CacheInit
    <3> QED
      BY <3>1 DEF CacheInit, UtilsTypeOK
  <2>2. InUse = {} /\ DOMAIN info = {}
    BY DEF CacheInit, InUse
  <2> QED
    BY <2>1, <2>2 DEF EntriesInv, CachedInfoLive, HandedOutIsCachedOrFreed,
                      IdleHoldsNothing, EntriesConnected
<1>2. CacheInv /\ HashInv' /\ [CacheNext]_cacheVars => CacheInv'
  <2> SUFFICES ASSUME CacheInv, HashInv', [CacheNext]_cacheVars
               PROVE  EntriesInv' /\ IdleHoldsNothing' /\ EntriesConnected'
    BY DEF CacheInv
  <2> USE DEF CacheInv
  <2> DEFINE Goal == EntriesInv' /\ IdleHoldsNothing' /\ EntriesConnected'
  <2>t. /\ InUse \in SUBSET InUse /\ TRUE \in BOOLEAN /\ FALSE \in BOOLEAN
        /\ xact_got_connection \in BOOLEAN /\ Jenv \in BOOLEAN
    BY DEF EntriesInv, UtilsTypeOK
  \* Nothing but the flags and the rows moves.
  <2>1. ASSUME UNCHANGED <<jdbcUtilsInfo, info, ConnectionHash, Jconn>>,
               Jenv' \in BOOLEAN, xact_got_connection' \in BOOLEAN,
               xact_got_connection => xact_got_connection'
        PROVE  Goal
    BY <2>1 DEF EntriesInv, UtilsTypeOK, CachedInfoLive, HandedOutIsCachedOrFreed,
         IdleHoldsNothing, EntriesConnected, InUse, PointersOf
  \* All entries go.
  <2>2. ASSUME ReleaseAll, xact_got_connection' \in BOOLEAN PROVE Goal
    <3>1. EntriesInv' /\ InUse' = {}
      BY <2>2, <2>t, EntriesDropped DEF ReleaseAll
    <3> QED
      BY <3>1 DEF IdleHoldsNothing, EntriesConnected
  <2>3. ASSUME NEW k \in Key, ReuseUtils(k) PROVE Goal
    BY <2>1, <2>3 DEF ReuseUtils, hashVars
  <2>4. ASSUME NEW k \in Key, ConnectUtils(k) PROVE Goal
    <3> DEFINE n == Len(info) + 1
               new == NewInfo(k, TRUE)
    <3>1. /\ MappingOf[k] \in Mapping /\ ConnectionHash'[MappingOf[k]] \in Nat
          /\ ConnectionHash'[MappingOf[k]] \in DOMAIN Jconn'
          /\ Jconn'[ConnectionHash'[MappingOf[k]]].mapping = MappingOf[k]
          /\ ~Jconn'[ConnectionHash'[MappingOf[k]]].invalidate
          /\ \A d \in DOMAIN Jconn : d \in DOMAIN Jconn' /\ Jconn'[d] = Jconn[d]
      BY <2>4, MappingOfAssumption, Connected DEF ConnectUtils, HashInv, HashTypeOK
    <3>2. /\ new \in JDBCUtilsInfo /\ new.key = k /\ new.cached /\ ~new.freed
          /\ new.conn = ConnectionHash'[MappingOf[k]]
      BY <3>1 DEF NewInfo, JDBCUtilsInfo
    <3>3. info' = Append(info, new) /\ jdbcUtilsInfo' = [jdbcUtilsInfo EXCEPT ![k] = n]
      BY <2>4 DEF ConnectUtils
    <3> HIDE DEF new
    <3>4. /\ info' \in Seq(JDBCUtilsInfo) /\ DOMAIN info = 1..Len(info) /\ DOMAIN info' = 1..n
          /\ Len(info) \in Nat /\ info'[n] = new /\ n \notin DOMAIN info /\ n # NULL
          /\ \A i \in DOMAIN info : info'[i] = info[i]
      BY <3>2, <3>3, RowsAssumption DEF EntriesInv, UtilsTypeOK
    <3>5. /\ jdbcUtilsInfo \in [Key -> DOMAIN info \cup {NULL}]
          /\ InUse' = InUse \cup {k} /\ k \notin InUse
          /\ \A l \in InUse : jdbcUtilsInfo[l] \in DOMAIN info /\ jdbcUtilsInfo'[l] = jdbcUtilsInfo[l]
          /\ jdbcUtilsInfo'[k] = n
      BY <2>4, <3>3, <3>4 DEF ConnectUtils, InUse, EntriesInv, UtilsTypeOK
    <3>6. UtilsTypeOK'
      <4>1. jdbcUtilsInfo' \in [Key -> DOMAIN info' \cup {NULL}]
        BY <3>3, <3>4, <3>5
      <4>2. Jenv' = TRUE /\ xact_got_connection' = TRUE
        BY <2>4 DEF ConnectUtils
      <4> QED
        BY <3>4, <4>1, <4>2 DEF UtilsTypeOK
    <3>7. CachedInfoLive'
      BY <3>2, <3>4, <3>5 DEF CachedInfoLive, EntriesInv
    <3>8. HandedOutIsCachedOrFreed'
      BY <3>4, <3>5 DEF HandedOutIsCachedOrFreed, EntriesInv, PointersOf
    <3>9. EntriesConnected'
      BY <3>1, <3>2, <3>4, <3>5 DEF EntriesConnected
    <3> QED
      BY <2>4, <3>6, <3>7, <3>8, <3>9 DEF EntriesInv, IdleHoldsNothing, ConnectUtils
  <2>5. ASSUME NEW k \in Key, GetUtilsFails(k) PROVE Goal
    <3>1. InUse' = {} /\ jdbcUtilsInfo' = Cleared(InUse) /\ xact_got_connection' = TRUE /\ Jenv' = FALSE
      BY <2>5 DEF GetUtilsFails, InUse, Cleared
    <3>2. CASE info' = Freed(PointersOf(InUse), TRUE)
      <4>1. EntriesInv'
        BY <2>5, <3>1, <3>2, <2>t, EntriesDropped DEF GetUtilsFails
      <4> QED
        BY <3>1, <4>1 DEF IdleHoldsNothing, EntriesConnected
    <3>3. CASE info' # Freed(PointersOf(InUse), TRUE)
      <4> DEFINE new == [NewInfo(k, FALSE) EXCEPT !.conn = 0]
      <4>1. new \in JDBCUtilsInfo /\ ~new.cached
        BY DEF NewInfo, JDBCUtilsInfo
      <4>2. PICK detach \in BOOLEAN : info' = Append(Freed(PointersOf(InUse), detach), new)
        BY <2>5, <3>3 DEF GetUtilsFails
      <4> DEFINE F == Freed(PointersOf(InUse), detach)
      <4>3. /\ F \in Seq(JDBCUtilsInfo) /\ DOMAIN F = DOMAIN info
            /\ \A i \in DOMAIN info : F[i].cached = info[i].cached
            /\ \A i \in DOMAIN info : F[i].freed = (info[i].freed \/ i \in PointersOf(InUse))
            /\ info' = Append(F, new)
        BY <4>2, FreedType DEF EntriesInv
      <4> HIDE DEF F, new
      <4>4. /\ info' \in Seq(JDBCUtilsInfo) /\ DOMAIN info' = DOMAIN F \cup {Len(F) + 1}
            /\ info'[Len(F) + 1] = new /\ \A i \in DOMAIN F : info'[i] = F[i]
        BY <4>1, <4>3
      <4>5. UtilsTypeOK'
        <5>1. jdbcUtilsInfo' = [k2 \in Key |-> NULL]
          BY <3>1 DEF Cleared, InUse
        <5>2. jdbcUtilsInfo' \in [Key -> DOMAIN info' \cup {NULL}]
          BY <5>1
        <5> QED
          BY <3>1, <4>4, <5>2 DEF UtilsTypeOK
      <4>6. HandedOutIsCachedOrFreed'
        BY <4>1, <4>3, <4>4 DEF HandedOutIsCachedOrFreed, EntriesInv
      <4> QED
        BY <3>1, <4>5, <4>6 DEF EntriesInv, CachedInfoLive, IdleHoldsNothing, EntriesConnected
    <3> QED
      BY <3>2, <3>3
  <2>6. CASE Release \/ XactCallback \/ \E k \in Key : UseUtilsOnce(k)
    BY <2>2, <2>6, <2>t DEF UseUtilsOnce, Release, XactCallback
  <2>7. ASSUME NEW r \in Row \cup {Reset}, InvalCallback(r) \/ InvalCallbackThrows(r)
        PROVE  Goal
    <3>1. PICK detach \in BOOLEAN : DropDependent(r, detach) /\ Jenv' \in BOOLEAN
      BY <2>7, <2>t DEF InvalCallback, InvalCallbackThrows
    <3>2. Dependent(r) \in SUBSET InUse
      BY DEF Dependent
    <3>3. /\ EntriesInv' /\ InUse' = InUse \ Dependent(r)
          /\ \A k \in InUse' : /\ jdbcUtilsInfo'[k] = jdbcUtilsInfo[k]
                              /\ info'[jdbcUtilsInfo[k]].conn = info[jdbcUtilsInfo[k]].conn
      BY <3>1, <3>2, <2>t, EntriesDropped DEF DropDependent
    <3>4. IdleHoldsNothing'
      BY <3>1, <3>3 DEF IdleHoldsNothing, DropDependent
    <3>5. ProcessInval(r) \/ ProcessInvalThrows(r)
      BY <2>7 DEF InvalCallback, InvalCallbackThrows
    <3>6. ASSUME NEW k \in InUse \ Dependent(r)
          PROVE  LET c == info[jdbcUtilsInfo[k]].conn IN
                 c \in DOMAIN Jconn' /\ Jconn'[c] = Jconn[c]
      <4>1. r \notin {Reset, MappingOf[k], ServerOf[MappingOf[k]]}
        BY DEF Dependent
      <4> QED
        BY <3>5, <4>1, OthersKept DEF EntriesConnected
    <3>7. EntriesConnected'
      BY <3>3, <3>6 DEF EntriesConnected
    <3> QED
      BY <3>3, <3>4, <3>7
  <2>8. CASE Environment
    BY <2>1, <2>8, <2>t
       DEF Environment, utilsVars, AlterRow, InvalQueueOverflow, LookupOptions, ForgetOptions
  <2>9. CASE UNCHANGED cacheVars
    BY <2>1, <2>9, <2>t DEF cacheVars, hashVars, utilsVars
  <2> QED
    BY <2>3, <2>4, <2>5, <2>6, <2>7, <2>8, <2>9 DEF CacheNext, GetUtils
<1>3. CacheSpec => []HashInv
  BY CacheUsesHash, HashInvInductive, PTL
<1> QED
  BY <1>1, <1>2, <1>3, PTL DEF CacheSpec, CacheInv

(* The type invariant of the cache.                                          *)
THEOREM UtilsTypeCorrect == CacheSpec => []UtilsTypeOK
BY CacheInvInductive, PTL DEF CacheInv, EntriesInv

(* No entry of the cache points to a struct that was freed, and no two to    *)
(* the same one: nobody is handed a dangling pointer, nothing is freed twice.*)
THEOREM CachedInfoCorrect == CacheSpec => []CachedInfoLive
BY CacheInvInductive, PTL DEF CacheInv, EntriesInv

(* A struct that was handed out is freed whenever it leaves the cache.       *)
THEOREM HandedOutCorrect == CacheSpec => []HandedOutIsCachedOrFreed
BY CacheInvInductive, PTL DEF CacheInv, EntriesInv

(* The flag of the transaction callback never hides an entry from it.        *)
THEOREM IdleCorrect == CacheSpec => []IdleHoldsNothing
BY CacheInvInductive, PTL DEF CacheInv

(* The connection of a cached object is open: an invalidation that closes it *)
(* also takes the entry out, though the two sides match rows on their own.   *)
THEOREM CachedConnCorrect == CacheSpec => []CachedConnOpen
<1>1. CacheInv => CachedConnOpen
  BY DEF CacheInv, EntriesConnected, CachedConnOpen, HashInv, ValidIsOpen
<1> QED
  BY <1>1, CacheInvInductive, PTL

(* For ForeignScan, whose scans are usable in one regime only: the thread is *)
(* attached and the references are alive as long as no message is processed  *)
(* while there are entries.                                                  *)
CachedRefUsable == \A k \in InUse : Jenv /\ info[jdbcUtilsInfo[k]].ref

LEMMA CachedRefs ==
  ASSUME InvalWhileCached = FALSE
  PROVE  CacheSpec => []CachedRefUsable
<1>1. CacheInit => CachedRefUsable
  BY DEF CacheInit, CachedRefUsable, InUse
<1>2. CacheInv /\ CacheInv' /\ CachedRefUsable /\ [CacheNext]_cacheVars => CachedRefUsable'
  <2> SUFFICES ASSUME CacheInv, CacheInv', CachedRefUsable, [CacheNext]_cacheVars
               PROVE  CachedRefUsable'
    OBVIOUS
  <2>1. \A k \in InUse : jdbcUtilsInfo[k] \in DOMAIN info
    BY DEF CacheInv, EntriesInv, UtilsTypeOK, InUse
  <2>2. ASSUME NEW K, InUse \subseteq K, jdbcUtilsInfo' = Cleared(K) PROVE InUse' = {}
    BY <2>2 DEF InUse, Cleared
  <2>3. ASSUME NEW k \in Key, ReuseUtils(k) PROVE CachedRefUsable'
    BY <2>3 DEF ReuseUtils, CachedRefUsable, InUse
  <2>4. ASSUME NEW k \in Key, ConnectUtils(k) PROVE CachedRefUsable'
    <3> DEFINE n == Len(info) + 1
               new == NewInfo(k, TRUE)
    <3>1. MappingOf[k] \in Mapping /\ ConnectionHash'[MappingOf[k]] \in Nat
      BY <2>4, MappingOfAssumption, Connected DEF ConnectUtils, CacheInv, HashInv, HashTypeOK
    <3>2. new \in JDBCUtilsInfo /\ new.ref
      BY <3>1 DEF NewInfo, JDBCUtilsInfo
    <3>3. info' = Append(info, new) /\ jdbcUtilsInfo' = [jdbcUtilsInfo EXCEPT ![k] = n] /\ Jenv'
      BY <2>4 DEF ConnectUtils
    <3>4. info \in Seq(JDBCUtilsInfo) /\ jdbcUtilsInfo \in [Key -> DOMAIN info \cup {NULL}]
      BY DEF CacheInv, EntriesInv, UtilsTypeOK
    <3> HIDE DEF new
    <3>5. info'[n] = new /\ \A i \in DOMAIN info : info'[i] = info[i]
      BY <3>2, <3>3, <3>4
    <3>6. /\ jdbcUtilsInfo'[k] = n
          /\ \A l \in InUse' : l = k \/ (l \in InUse /\ jdbcUtilsInfo'[l] = jdbcUtilsInfo[l])
      BY <3>3, <3>4 DEF InUse
    <3> QED BY <2>1, <3>2, <3>3, <3>5, <3>6 DEF CachedRefUsable
  <2>5. CASE \/ \E k \in Key : GetUtilsFails(k) \/ UseUtilsOnce(k)
             \/ Release \/ XactCallback
    BY <2>2, <2>5 DEF GetUtilsFails, UseUtilsOnce, Release, XactCallback, ReleaseAll,
                      CachedRefUsable
  <2>6. ASSUME NEW r \in Row \cup {Reset}, InvalCallback(r) \/ InvalCallbackThrows(r)
        PROVE  CachedRefUsable'
    <3>1. InUse = {} /\ jdbcUtilsInfo' = Cleared(Dependent(r))
      BY <2>6 DEF InvalCallback, InvalCallbackThrows, DropDependent
    <3> QED BY <2>2, <3>1 DEF CachedRefUsable
  <2>7. CASE Environment \/ UNCHANGED cacheVars
    BY <2>7 DEF Environment, utilsVars, cacheVars, CachedRefUsable, InUse
  <2> QED BY <2>3, <2>4, <2>5, <2>6, <2>7 DEF CacheNext, GetUtils
<1> QED
  BY <1>1, <1>2, CacheInvInductive, PTL DEF CacheSpec

(* The references of entries that stay in the cache are ended by messages     *)
(* only, in jq_inval_callback: whatever else detaches the thread, the release *)
(* after a scan, a failed connect, jdbc_exec or the transaction's end, has    *)
(* emptied the cache.                                                         *)
THEOREM ReferencesCorrect == CacheSpec => OnlyMessagesEndReferences
<1> DEFINE Kept(k) ==
      info[jdbcUtilsInfo[k]].ref /\ jdbcUtilsInfo'[k] # NULL
        /\ ~info'[jdbcUtilsInfo[k]].ref =>
      \E r \in Row : InvalCallback(r) /\ k \notin Dependent(r)
<1>1. CacheInv /\ [CacheNext]_cacheVars => [\A k \in InUse : Kept(k)]_cacheVars
  <2> SUFFICES ASSUME CacheInv, CacheNext, NEW k \in InUse PROVE Kept(k)
    BY DEF cacheVars
  <2>1. /\ info \in Seq(JDBCUtilsInfo)
        /\ jdbcUtilsInfo[k] \in DOMAIN info /\ k \in Key
    BY DEF CacheInv, EntriesInv, UtilsTypeOK, InUse
  <2>2. ASSUME NEW K, k \in K, jdbcUtilsInfo' = Cleared(K) PROVE Kept(k)
    BY <2>1, <2>2 DEF Cleared
  <2>3. ASSUME NEW l \in Key, GetUtils(l) PROVE Kept(k)
    <3>1. CASE ReuseUtils(l)
      BY <3>1 DEF ReuseUtils
    <3>2. CASE ConnectUtils(l)
      <4> DEFINE new == NewInfo(l, TRUE)
      <4>1. info' = Append(info, new)
        BY <3>2 DEF ConnectUtils
      <4> HIDE DEF new
      <4> QED BY <2>1, <4>1
    <3> QED BY <2>3, <3>1, <3>2 DEF GetUtils
  <2>4. CASE \/ \E l \in Key : GetUtilsFails(l) \/ UseUtilsOnce(l)
             \/ Release \/ XactCallback
    BY <2>2, <2>4 DEF GetUtilsFails, UseUtilsOnce, Release, XactCallback, ReleaseAll
  <2>5. ASSUME NEW r \in Row \cup {Reset}, InvalCallback(r) PROVE Kept(k)
    <3>1. jdbcUtilsInfo' = Cleared(Dependent(r))
      BY <2>5 DEF InvalCallback, DropDependent
    <3>2. CASE k \in Dependent(r)
      BY <2>2, <3>1, <3>2
    <3>3. CASE k \notin Dependent(r)
      BY <2>5, <3>3 DEF Dependent
    <3> QED BY <3>2, <3>3
  <2>6. ASSUME NEW r \in Row \cup {Reset}, InvalCallbackThrows(r) PROVE Kept(k)
    <3>1. info' = Freed(PointersOf(Dependent(r)), FALSE)
      BY <2>6 DEF InvalCallbackThrows, DropDependent
    <3>2. info \in [1..Len(info) -> JDBCUtilsInfo]
      BY <2>1
    <3>3. info'[jdbcUtilsInfo[k]].ref = (info[jdbcUtilsInfo[k]].ref /\ TRUE)
      BY <2>1, <3>1, <3>2 DEF Freed, JDBCUtilsInfo
    <3> QED BY <3>3
  <2>7. CASE Environment
    BY <2>7 DEF Environment, utilsVars
  <2> QED BY <2>3, <2>4, <2>5, <2>6, <2>7 DEF CacheNext
<1> QED
  BY <1>1, CacheInvInductive, PTL DEF CacheSpec, OnlyMessagesEndReferences
=============================================================================
