------------------------ MODULE ResultSetTable_proofs -----------------------
(***************************************************************************)
(* Theorems about ResultSetTable, for every MaxKey.  Type correctness holds *)
(* for any set of threads; the others are about a process with one thread, *)
(* and fail with two (the run MCResultSetTable_race).                      *)
(***************************************************************************)
EXTENDS ResultSetTable, TLAPS

(* A call has its result set from the moment it searches for a key.          *)
TypeInv ==
  /\ TypeOK
  /\ \A t \in Thread :
       pc[t] \in {"probe", "advance", "take", "put"} => tmpResultSet[t] \in ResultSet

LEMMA TypeInvInductive == Spec => []TypeInv
<1>1. Init => TypeInv
  BY MaxKeyAssumption DEF Init, TypeInv, TypeOK, Key, Label
<1>2. TypeInv /\ [Next]_vars => TypeInv'
  <2> SUFFICES ASSUME TypeInv, [Next]_vars PROVE TypeInv'
    OBVIOUS
  <2> USE DEF TypeInv, TypeOK, Key, Label, Goto
  <2>1. ASSUME NEW t \in Thread, EnterInitResultSetKey(t) PROVE TypeInv'
    <3>1. PICK r \in ResultSet : tmpResultSet' = [tmpResultSet EXCEPT ![t] = r]
      BY <2>1 DEF EnterInitResultSetKey, NewResultSets
    <3> QED
      BY <2>1, <3>1, UtilsAssumption DEF EnterInitResultSetKey
  <2>2. ASSUME NEW t \in Thread, Probe(t) PROVE TypeInv'
    BY <2>2 DEF Probe
  <2>3. ASSUME NEW t \in Thread, SearchOn(t) PROVE TypeInv'
    BY <2>3, MaxKeyAssumption DEF SearchOn, NextKey
  <2>4. ASSUME NEW t \in Thread, ResultSetKeyIsFull(t) PROVE TypeInv'
    BY <2>4, MaxKeyAssumption DEF ResultSetKeyIsFull, NextKey
  <2>5. ASSUME NEW t \in Thread, ReturnKey(t) PROVE TypeInv'
    BY <2>5 DEF ReturnKey
  <2>6. ASSUME NEW t \in Thread, PutResultSet(t) PROVE TypeInv'
    <3>1. tmpResultSet[t] \in ResultSet /\ key[t] \in Key
      BY <2>6 DEF PutResultSet
    <3> QED
      BY <2>6, <3>1 DEF PutResultSet
  <2>7. ASSUME NEW t \in Thread, ClearResultSetID(t) PROVE TypeInv'
    BY <2>7 DEF ClearResultSetID, Without
  <2>8. ASSUME NEW t \in Thread, EndOfScan(t) \/ EndOfJdbcExec(t) PROVE TypeInv'
    <3>1. PICK h \in held[t], next \in {"idle", "finally"} : EndOfData(t, h, next)
      BY <2>8 DEF EndOfScan, EndOfJdbcExec
    <3>2. h.key \in Key
      OBVIOUS
    <3> QED
      BY <3>1, <3>2 DEF EndOfData, Without
  <2>9. ASSUME NEW t \in Thread, JdbcExecFails(t) PROVE TypeInv'
    BY <2>9 DEF JdbcExecFails
  <2>10. ASSUME NEW t \in Thread, FinalizeAllResultSet(t) PROVE TypeInv'
    BY <2>10 DEF FinalizeAllResultSet
  <2>11. CASE UNCHANGED vars
    BY <2>11 DEF vars
  <2> QED
    BY <2>1, <2>2, <2>3, <2>4, <2>5, <2>6, <2>7, <2>8, <2>9, <2>10, <2>11 DEF Next, Step
<1> QED
  BY <1>1, <1>2, PTL DEF Spec

(* The types of the model: the search position, the keys and the positions  *)
(* a search notes never leave 1..MaxKey, whatever the threads do.           *)
THEOREM TypeCorrect == Spec => []TypeOK
BY TypeInvInductive, PTL DEF TypeInv
-----------------------------------------------------------------------------
(* What a thread knows between the steps of a call: a key about to be       *)
(* returned is free, one about to be entered is free, one about to be       *)
(* cleared is not held any more.                                            *)
KeyInv ==
  \A t \in Thread :
    /\ pc[t] = "take" => resultSetKey \notin DOMAIN resultSetInfoMap
    /\ pc[t] = "put" => key[t] \notin DOMAIN resultSetInfoMap
    /\ pc[t] = "finally" => \A h \in held[t] : h.key # key[t]
    /\ \A h \in held[t] :
         /\ h.key \in DOMAIN resultSetInfoMap
         /\ resultSetInfoMap[h.key] = [holder |-> t, resultSet |-> h.resultSet]

(* A thread holds no key twice: each names one result set only.              *)
LEMMA HeldKeysDiffer ==
  ASSUME TypeOK, KeyInv, NEW t \in Thread, NEW h \in held[t], NEW g \in held[t] \ {h}
  PROVE  g.key # h.key
<1>1. h \in [key : Key, resultSet : ResultSet] /\ g \in [key : Key, resultSet : ResultSet]
  BY DEF TypeOK
<1>2. h.key # g.key \/ h.resultSet # g.resultSet
  BY <1>1
<1>3. /\ resultSetInfoMap[h.key] = [holder |-> t, resultSet |-> h.resultSet]
      /\ resultSetInfoMap[g.key] = [holder |-> t, resultSet |-> g.resultSet]
  BY DEF KeyInv
<1> QED
  BY <1>2, <1>3

(* What a search knows: every key between its start and its position, over  *)
(* the wrap-around from MaxKey to 2, is in use.                             *)
SearchInv ==
  \A t \in Thread :
    /\ pc[t] = "advance" => resultSetKey \in DOMAIN resultSetInfoMap
    /\ pc[t] \in {"probe", "advance"} =>
         \A k \in Key :
           Searched(datum[t], k) => k \in DOMAIN resultSetInfoMap

IInv == TypeInv /\ KeyInv /\ SearchInv

LEMMA OneThreadInductive ==
  ASSUME NEW th, Thread = {th}
  PROVE  Spec => []IInv
<1>1. Init => IInv
  <2> SUFFICES ASSUME Init PROVE IInv
    OBVIOUS
  <2>1. TypeInv
    BY MaxKeyAssumption DEF Init, TypeInv, TypeOK, Key, Label
  <2>2. KeyInv /\ SearchInv
    BY DEF Init, KeyInv, SearchInv
  <2> QED
    BY <2>1, <2>2 DEF IInv
<1>2. IInv /\ TypeInv' /\ [Next]_vars => IInv'
  <2> SUFFICES ASSUME IInv, TypeInv', [Next]_vars PROVE KeyInv' /\ SearchInv'
    BY DEF IInv
  <2> USE DEF IInv, TypeInv, TypeOK, KeyInv, SearchInv, Searched, Key, Label, Goto
  <2>1. ASSUME EnterInitResultSetKey(th) PROVE KeyInv' /\ SearchInv'
    BY <2>1 DEF EnterInitResultSetKey
  <2>2. ASSUME Probe(th) PROVE KeyInv' /\ SearchInv'
    BY <2>2 DEF Probe
  <2>3. ASSUME SearchOn(th) PROVE KeyInv' /\ SearchInv'
    <3>1. KeyInv'
      BY <2>3 DEF SearchOn
    <3>2. CASE resultSetKey = MaxKey
      BY <2>3, <3>2, MaxKeyAssumption DEF SearchOn, NextKey
    <3>3. CASE resultSetKey # MaxKey
      BY <2>3, <3>3, MaxKeyAssumption DEF SearchOn, NextKey
    <3> QED
      BY <3>1, <3>2, <3>3
  <2>4. ASSUME ResultSetKeyIsFull(th) PROVE KeyInv' /\ SearchInv'
    BY <2>4 DEF ResultSetKeyIsFull
  <2>5. ASSUME ReturnKey(th) PROVE KeyInv' /\ SearchInv'
    BY <2>5 DEF ReturnKey
  <2>6. ASSUME PutResultSet(th) PROVE KeyInv' /\ SearchInv'
    BY <2>6 DEF PutResultSet
  <2>7. ASSUME ClearResultSetID(th) PROVE KeyInv' /\ SearchInv'
    BY <2>7 DEF ClearResultSetID, Without
  <2>8. ASSUME EndOfScan(th) \/ EndOfJdbcExec(th)
        PROVE  KeyInv' /\ SearchInv'
    <3>1. PICK h \in held[th], next \in {"idle", "finally"} : EndOfData(th, h, next)
      BY <2>8 DEF EndOfScan, EndOfJdbcExec
    <3>2. \A g \in held[th] \ {h} : g.key # h.key
      BY HeldKeysDiffer
    <3>3. KeyInv'
      BY <3>1, <3>2 DEF EndOfData, Without
    <3> QED
      BY <3>1, <3>3 DEF EndOfData, Without
  <2>9. ASSUME JdbcExecFails(th) PROVE KeyInv' /\ SearchInv'
    <3>1. PICK h \in held[th] :
            /\ held' = [held EXCEPT ![th] = @ \ {h}] /\ key' = [key EXCEPT ![th] = h.key]
            /\ Goto(th, "finally")
            /\ UNCHANGED <<resultSetKey, resultSetInfoMap, monitor, datum, tmpResultSet>>
      BY <2>9 DEF JdbcExecFails
    <3>2. \A g \in held[th] \ {h} : g.key # h.key
      BY HeldKeysDiffer
    <3> QED
      BY <3>1, <3>2
  <2>10. ASSUME FinalizeAllResultSet(th) PROVE KeyInv' /\ SearchInv'
    BY <2>10 DEF FinalizeAllResultSet
  <2>11. CASE UNCHANGED vars
    BY <2>11 DEF vars
  <2> QED
    BY <2>1, <2>2, <2>3, <2>4, <2>5, <2>6, <2>7, <2>8, <2>9, <2>10, <2>11 DEF Next, Step
<1> QED
  BY <1>1, <1>2, TypeInvInductive, PTL DEF Spec

(* A thread's keys name its own open result sets for as long as it uses      *)
(* them, although jdbc_exec clears a key a second time and every key is      *)
(* searched for from a shared position.                                      *)
THEOREM HeldKeysCorrect ==
  ASSUME NEW th, Thread = {th}
  PROVE  Spec => []HeldKeysAreMine
<1>1. IInv => HeldKeysAreMine
  BY DEF IInv, KeyInv, HeldKeysAreMine
<1> QED
  BY <1>1, OneThreadInductive, PTL

(* The key initResultSetKey returned is still free when createStatementID    *)
(* puts the result set under it.                                             *)
THEOREM ReturnedKeyCorrect ==
  ASSUME NEW th, Thread = {th}
  PROVE  Spec => ReturnedKeyIsFree
<1> DEFINE Free == \A t \in Thread :
             pc[t] = "put" /\ pc'[t] = "idle" => key[t] \notin DOMAIN resultSetInfoMap
<1>1. IInv => [Free]_vars
  BY DEF IInv, KeyInv
<1> QED
  BY <1>1, OneThreadInductive, PTL DEF ReturnedKeyIsFree

(* "resultSetKey is full" is thrown only when each of 2..MaxKey is in use:   *)
(* the test against the starting position is not one position early.         *)
THEOREM FullCorrect ==
  ASSUME NEW th, Thread = {th}
  PROVE  Spec => FullOnlyWhenFull
<1> DEFINE Full == \A t \in Thread :
             pc[t] = "advance" /\ pc'[t] = "idle" => 2..MaxKey \subseteq DOMAIN resultSetInfoMap
<1>1. IInv /\ [Next]_vars => [Full]_vars
  <2> SUFFICES ASSUME IInv, Next, pc[th] = "advance", pc'[th] = "idle"
               PROVE  2..MaxKey \subseteq DOMAIN resultSetInfoMap
    BY DEF vars
  <2>1. ResultSetKeyIsFull(th)
    BY DEF Next, Step, IInv, TypeInv, TypeOK, Label, Goto, EnterInitResultSetKey, Probe, SearchOn,
           ReturnKey, PutResultSet, ClearResultSetID, EndOfScan, EndOfJdbcExec, EndOfData,
           JdbcExecFails, FinalizeAllResultSet
  <2>2. \A k \in 2..MaxKey : k = resultSetKey \/ Searched(datum[th], k)
    BY <2>1, MaxKeyAssumption
       DEF ResultSetKeyIsFull, NextKey, Searched, IInv, TypeInv, TypeOK, Key
  <2> QED
    BY <2>2, MaxKeyAssumption DEF IInv, SearchInv, TypeInv, TypeOK, Key
<1> QED
  BY <1>1, OneThreadInductive, PTL DEF Spec, FullOnlyWhenFull
-----------------------------------------------------------------------------
(* The position 1 is where the table begins, and never come back to.  While  *)
(* the search stands there nothing but key 1 can be in use, so a search that *)
(* began there goes one step at most.                                        *)
StartInv ==
  /\ resultSetKey = 1 => DOMAIN resultSetInfoMap \subseteq {1}
  /\ \A t \in Thread :
       /\ pc[t] = "put" => key[t] = resultSetKey
       /\ pc[t] \in {"probe", "advance"} /\ resultSetKey = 1 => datum[t] = 1
       /\ pc[t] = "advance" /\ datum[t] = 1 => resultSetKey = 1
       /\ pc[t] = "probe" /\ datum[t] = 1 =>
            \/ resultSetKey = 1
            \/ resultSetKey = 2 /\ DOMAIN resultSetInfoMap \subseteq {1}

LEMMA StartInvInductive ==
  ASSUME NEW th, Thread = {th}
  PROVE  Spec => []StartInv
<1>1. Init => StartInv
  BY DEF Init, StartInv
<1>2. StartInv /\ TypeInv /\ [Next]_vars => StartInv'
  <2> SUFFICES ASSUME StartInv, TypeInv, [Next]_vars PROVE StartInv'
    OBVIOUS
  <2> USE DEF StartInv, TypeInv, TypeOK, Key, Label, Goto
  <2>1. CASE EnterInitResultSetKey(th)
    BY <2>1 DEF EnterInitResultSetKey
  <2>2. CASE Probe(th)
    BY <2>2 DEF Probe
  <2>3. CASE SearchOn(th)
    BY <2>3, MaxKeyAssumption DEF SearchOn, NextKey
  <2>4. CASE ResultSetKeyIsFull(th)
    BY <2>4, MaxKeyAssumption DEF ResultSetKeyIsFull, NextKey
  <2>5. CASE ReturnKey(th)
    BY <2>5 DEF ReturnKey
  <2>6. CASE PutResultSet(th)
    BY <2>6 DEF PutResultSet
  <2>7. CASE ClearResultSetID(th)
    BY <2>7 DEF ClearResultSetID, Without
  <2>8. CASE EndOfScan(th) \/ EndOfJdbcExec(th)
    <3>1. PICK h \in held[th], next \in {"idle", "finally"} : EndOfData(th, h, next)
      BY <2>8 DEF EndOfScan, EndOfJdbcExec
    <3> QED
      BY <3>1 DEF EndOfData, Without
  <2>9. CASE JdbcExecFails(th)
    BY <2>9 DEF JdbcExecFails
  <2>10. CASE FinalizeAllResultSet(th)
    BY <2>10 DEF FinalizeAllResultSet
  <2>11. CASE UNCHANGED vars
    BY <2>11 DEF vars
  <2> QED
    BY <2>1, <2>2, <2>3, <2>4, <2>5, <2>6, <2>7, <2>8, <2>9, <2>10, <2>11 DEF Next, Step
<1> QED
  BY <1>1, <1>2, TypeInvInductive, PTL DEF Spec

(* No search looks at a key twice: with MaxKey keys it ends after MaxKey     *)
(* steps at most.  SearchEnds follows from this and from the fairness of     *)
(* Step, which is left to TLC.                                               *)
THEOREM SearchCorrect ==
  ASSUME NEW th, Thread = {th}
  PROVE  Spec => SearchAdvances
<1> DEFINE Advances == \A t \in Thread :
             pc[t] = "advance" /\ pc'[t] = "probe" =>
               LET passed == {k \in Key : Searched(datum[t], k)}
               IN  /\ resultSetKey \notin passed
                   /\ passed' = passed \cup {resultSetKey}
<1>1. StartInv /\ TypeInv /\ [Next]_vars => [Advances]_vars
  <2> DEFINE passed(t) == {k \in Key : Searched(datum[t], k)}
  <2> SUFFICES ASSUME StartInv, TypeInv, Next, pc[th] = "advance", pc'[th] = "probe"
               PROVE  resultSetKey \notin passed(th) /\ passed(th)' = passed(th) \cup {resultSetKey}
    BY DEF vars
  <2>1. SearchOn(th)
    BY DEF Next, Step, TypeInv, TypeOK, Label, Goto, EnterInitResultSetKey, Probe, ResultSetKeyIsFull,
           ReturnKey, PutResultSet, ClearResultSetID, EndOfScan, EndOfJdbcExec, EndOfData,
           JdbcExecFails, FinalizeAllResultSet
  <2>2. /\ resultSetKey \in Key /\ datum[th] \in Key /\ datum'[th] = datum[th]
        /\ resultSetKey' = NextKey(resultSetKey) /\ resultSetKey' # datum[th]
        /\ resultSetKey = 1 <=> datum[th] = 1
    BY <2>1 DEF SearchOn, StartInv, TypeInv, TypeOK
  <2>3. resultSetKey \notin passed(th)
    BY <2>2 DEF Searched, Key
  <2>4. ASSUME NEW k \in Key
        PROVE  Searched(datum[th], k)' <=> Searched(datum[th], k) \/ k = resultSetKey
    BY <2>2, MaxKeyAssumption DEF Searched, NextKey, Key
  <2>5. passed(th)' = passed(th) \cup {resultSetKey}
    BY <2>2, <2>4
  <2> QED
    BY <2>3, <2>5
<1> QED
  BY <1>1, StartInvInductive, TypeInvInductive, PTL DEF Spec, SearchAdvances
-----------------------------------------------------------------------------
(* The table implements the abstract allocator: entering a result set only   *)
(* ever acquires an identifier that nobody holds.                            *)
THEOREM Implementation ==
  ASSUME NEW th, Thread = {th}
  PROVE  Spec => ImplementsIds
<1>1. Init => Ids!Init
  BY DEF Init, Ids!Init
<1>2. IInv /\ [Next]_vars => [Ids!Next]_resultSetInfoMap
  <2> SUFFICES ASSUME IInv, Next, resultSetInfoMap' # resultSetInfoMap PROVE Ids!Next
    BY DEF vars
  <2> USE DEF IInv, TypeInv, TypeOK, KeyInv, Key
  <2>1. CASE PutResultSet(th)
    <3>1. Ids!Acquire(th, key[th], tmpResultSet[th]) /\ tmpResultSet[th] \in ResultSet
      BY <2>1 DEF PutResultSet, Ids!Acquire
    <3> QED
      BY <3>1 DEF Ids!Next
  <2>2. ASSUME EndOfScan(th) \/ EndOfJdbcExec(th) PROVE Ids!Next
    <3>1. PICK k \in Key : Ids!Release(th, {k})
      BY <2>2 DEF EndOfScan, EndOfJdbcExec, EndOfData, Without, Ids!Release, Ids!Restricted
    <3> QED
      BY <3>1 DEF Ids!Next
  <2>3. CASE ClearResultSetID(th)
    <3>1. Ids!Release(th, {key[th]})
      BY <2>3 DEF ClearResultSetID, Without, Ids!Release, Ids!Restricted
    <3> QED
      BY <3>1 DEF Ids!Next
  <2>4. CASE FinalizeAllResultSet(th)
    <3>1. Ids!Release(th, Key)
      BY <2>4 DEF FinalizeAllResultSet, Ids!Release, Ids!Restricted
    <3> QED
      BY <3>1 DEF Ids!Next
  <2> QED
    BY <2>1, <2>2, <2>3, <2>4
       DEF Next, Step, EnterInitResultSetKey, Probe, SearchOn, ResultSetKeyIsFull,
           ReturnKey, JdbcExecFails
<1> QED
  BY <1>1, <1>2, OneThreadInductive, PTL DEF Spec, ImplementsIds, Ids!Spec
=============================================================================
