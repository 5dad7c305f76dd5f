--------------------------- MODULE ResultSetTable ---------------------------
(***************************************************************************)
(* The static result-set table of JDBCUtils.java: resultSetInfoMap, a      *)
(* process-wide map from an int key to the open result set or prepared     *)
(* statement, and resultSetKey, the search position from which             *)
(* initResultSetKey looks for a free key.                                  *)
(*                                                                         *)
(* Both are static, the C side keeps one JDBCUtils object per thread (the  *)
(* cache of connection.c is __thread), and initResultSetKey is             *)
(* synchronized on the object.  The body of initResultSetKey is therefore  *)
(* cut at its accesses to the static state, and the put of its caller is a *)
(* step of its own.  The read-modify-write of one loop iteration is kept   *)
(* whole; splitting it adds interleavings only to runs of several threads. *)
(***************************************************************************)
EXTENDS Integers

CONSTANTS
  Thread,   \* threads of the process that call into the JVM
  MaxKey,   \* Integer.MAX_VALUE
  Utils,    \* JDBCUtils objects
  UtilsOf,  \* UtilsOf[t]: the object thread t calls
  ResultSet,   \* bound: result sets that can be told apart at a time
  NoThread,    \* nobody is inside the monitor
  NoResultSet  \* no call of createStatementID is under way

ASSUME MaxKeyAssumption == MaxKey \in Nat /\ MaxKey >= 2
ASSUME UtilsAssumption  == UtilsOf \in [Thread -> Utils]
ASSUME NoThreadAssumption == NoThread \notin Thread
ASSUME NoResultSetAssumption == NoResultSet \notin ResultSet

VARIABLES
  resultSetKey,       \* static int resultSetKey
  resultSetInfoMap,   \* static map: key -> result set, and the thread that opened it
  monitor,            \* monitor[u]: the thread inside a synchronized method of u
  pc,                 \* where each thread stands
  datum,              \* local of initResultSetKey: where the search began
  key,                \* the key a thread works on after the search
  tmpResultSet,       \* local of createStatementID: the result set it has opened
  held                \* held[t]: the keys in the hands of the C code of t, each
                      \* with the result set it was returned for

vars == <<resultSetKey, resultSetInfoMap, monitor, pc, datum, key, tmpResultSet, held>>

Key == 1..MaxKey
Label == {"idle", "probe", "advance", "take", "put", "finally"}

TypeOK ==
  /\ resultSetKey \in Key
  /\ DOMAIN resultSetInfoMap \subseteq Key
  /\ \A k \in DOMAIN resultSetInfoMap :
       resultSetInfoMap[k] \in [holder : Thread, resultSet : ResultSet]
  /\ monitor \in [Utils -> Thread \cup {NoThread}]
  /\ pc \in [Thread -> Label]
  /\ datum \in [Thread -> Key]
  /\ key \in [Thread -> Key]
  /\ tmpResultSet \in [Thread -> ResultSet \cup {NoResultSet}]
  /\ held \in [Thread -> SUBSET [key : Key, resultSet : ResultSet]]

Init ==
  /\ resultSetKey = 1
  /\ resultSetInfoMap = [k \in {} |-> k]
  /\ monitor = [u \in Utils |-> NoThread]
  /\ pc = [t \in Thread |-> "idle"]
  /\ datum = [t \in Thread |-> 1]
  /\ key = [t \in Thread |-> 1]
  /\ tmpResultSet = [t \in Thread |-> NoResultSet]
  /\ held = [t \in Thread |-> {}]

Without(k) == [j \in DOMAIN resultSetInfoMap \ {k} |-> resultSetInfoMap[j]]

Goto(t, label) == pc' = [pc EXCEPT ![t] = label]

(* A result set that is new: none that is open, about to be entered or still *)
(* in somebody's hands.                                                      *)
NewResultSets ==
  {r \in ResultSet :
     /\ \A k \in DOMAIN resultSetInfoMap : resultSetInfoMap[k].resultSet # r
     /\ \A t \in Thread : tmpResultSet[t] # r /\ \A h \in held[t] : h.resultSet # r}

(* The operators whose comment begins with "Faulty" are not part of the     *)
(* model.  Each is a plausible mistake in the operator it stands before;    *)
(* put in its place, it breaks a property that holds of the code.           *)

\* Faulty: the search notes its second position as its start.
EnterNotesSecond(t) ==
  /\ pc[t] = "idle"
  /\ monitor[UtilsOf[t]] = NoThread
  /\ monitor' = [monitor EXCEPT ![UtilsOf[t]] = t]
  /\ datum' = [datum EXCEPT ![t] = IF resultSetKey = MaxKey THEN 2 ELSE resultSetKey + 1]
  /\ \E r \in NewResultSets : tmpResultSet' = [tmpResultSet EXCEPT ![t] = r]
  /\ Goto(t, "probe")
  /\ UNCHANGED <<resultSetKey, resultSetInfoMap, key, held>>

\* Faulty: the start of the search is taken to be the initial position.
EnterNotesOne(t) ==
  /\ pc[t] = "idle"
  /\ monitor[UtilsOf[t]] = NoThread
  /\ monitor' = [monitor EXCEPT ![UtilsOf[t]] = t]
  /\ datum' = [datum EXCEPT ![t] = 1]
  /\ \E r \in NewResultSets : tmpResultSet' = [tmpResultSet EXCEPT ![t] = r]
  /\ Goto(t, "probe")
  /\ UNCHANGED <<resultSetKey, resultSetInfoMap, key, held>>

(* createStatementID and createPreparedStatement, once they have opened a  *)
(* result set, enter initResultSetKey and note where the search begins.    *)
EnterInitResultSetKey(t) ==
  /\ pc[t] = "idle"
  /\ monitor[UtilsOf[t]] = NoThread
  /\ monitor' = [monitor EXCEPT ![UtilsOf[t]] = t]
  /\ datum' = [datum EXCEPT ![t] = resultSetKey]
  /\ \E r \in NewResultSets : tmpResultSet' = [tmpResultSet EXCEPT ![t] = r]
  /\ Goto(t, "probe")
  /\ UNCHANGED <<resultSetKey, resultSetInfoMap, key, held>>

\* Faulty: the current key is taken to be free.
ProbeNothing(t) ==
  /\ pc[t] = "probe"
  /\ Goto(t, "take")
  /\ UNCHANGED <<resultSetKey, resultSetInfoMap, monitor, datum, key, tmpResultSet, held>>

(* The loop condition: is the current key in use? *)
Probe(t) ==
  /\ pc[t] = "probe"
  /\ Goto(t, IF resultSetKey \in DOMAIN resultSetInfoMap THEN "advance" ELSE "take")
  /\ UNCHANGED <<resultSetKey, resultSetInfoMap, monitor, datum, key, tmpResultSet, held>>

\* Faulty: no wrap-around.
NextKeyUnbounded(k) == k + 1

(* The key the loop body moves on to: after MaxKey comes 2, never 1. *)
NextKey(k) == IF k = MaxKey THEN 2 ELSE k + 1

(* The loop body: move on, and give up when the search is back where it began. *)
SearchOn(t) ==
  /\ pc[t] = "advance"
  /\ NextKey(resultSetKey) # datum[t]
  /\ resultSetKey' = NextKey(resultSetKey)
  /\ Goto(t, "probe")
  /\ UNCHANGED <<resultSetInfoMap, monitor, datum, key, tmpResultSet, held>>

ResultSetKeyIsFull(t) ==
  /\ pc[t] = "advance"
  /\ NextKey(resultSetKey) = datum[t]
  /\ resultSetKey' = NextKey(resultSetKey)
  /\ monitor' = [monitor EXCEPT ![UtilsOf[t]] = NoThread]
  /\ tmpResultSet' = [tmpResultSet EXCEPT ![t] = NoResultSet]
  /\ Goto(t, "idle")
  /\ UNCHANGED <<resultSetInfoMap, datum, key, held>>

\* Faulty: the position the search began at is returned.
ReturnDatum(t) ==
  /\ pc[t] = "take"
  /\ key' = [key EXCEPT ![t] = datum[t]]
  /\ monitor' = [monitor EXCEPT ![UtilsOf[t]] = NoThread]
  /\ Goto(t, "put")
  /\ UNCHANGED <<resultSetKey, resultSetInfoMap, datum, tmpResultSet, held>>

(* The return statement reads the static key again and leaves the monitor. *)
ReturnKey(t) ==
  /\ pc[t] = "take"
  /\ key' = [key EXCEPT ![t] = resultSetKey]
  /\ monitor' = [monitor EXCEPT ![UtilsOf[t]] = NoThread]
  /\ Goto(t, "put")
  /\ UNCHANGED <<resultSetKey, resultSetInfoMap, datum, tmpResultSet, held>>

(* The caller enters the result set under the key and returns it to C. *)
PutResultSet(t) ==
  /\ pc[t] = "put"
  /\ resultSetInfoMap' =
       [k \in DOMAIN resultSetInfoMap \cup {key[t]} |->
          IF k = key[t] THEN [holder |-> t, resultSet |-> tmpResultSet[t]]
          ELSE resultSetInfoMap[k]]
  /\ held' = [held EXCEPT ![t] = @ \cup {[key |-> key[t], resultSet |-> tmpResultSet[t]]}]
  /\ tmpResultSet' = [tmpResultSet EXCEPT ![t] = NoResultSet]
  /\ Goto(t, "idle")
  /\ UNCHANGED <<resultSetKey, monitor, datum, key>>

(* getResultSet finds no more rows: it closes the statement and removes the *)
(* key.  A scan forgets about it; jdbc_exec goes on to its PG_FINALLY block. *)
EndOfData(t, h, next) ==
  /\ pc[t] = "idle"
  /\ h \in held[t] /\ h.key \in DOMAIN resultSetInfoMap
  /\ resultSetInfoMap' = Without(h.key)
  /\ held' = [held EXCEPT ![t] = @ \ {h}]
  /\ key' = [key EXCEPT ![t] = h.key]
  /\ Goto(t, next)
  /\ UNCHANGED <<resultSetKey, monitor, datum, tmpResultSet>>

EndOfScan(t) == \E h \in held[t] : EndOfData(t, h, "idle")
EndOfJdbcExec(t) == \E h \in held[t] : EndOfData(t, h, "finally")

(* jdbc_exec failed on its result set and goes to PG_FINALLY. *)
JdbcExecFails(t) ==
  \E h \in held[t] :
    /\ pc[t] = "idle"
    /\ held' = [held EXCEPT ![t] = @ \ {h}]
    /\ key' = [key EXCEPT ![t] = h.key]
    /\ Goto(t, "finally")
    /\ UNCHANGED <<resultSetKey, resultSetInfoMap, monitor, datum, tmpResultSet>>

(* PG_FINALLY of jdbc_exec calls clearResultSetID, also when the end of the *)
(* data has already removed the key.                                        *)
ClearResultSetID(t) ==
  /\ pc[t] = "finally"
  /\ resultSetInfoMap' = Without(key[t])
  /\ Goto(t, "idle")
  /\ UNCHANGED <<resultSetKey, monitor, datum, key, tmpResultSet, held>>

(* End of the thread's transaction: the whole table is cleared. *)
FinalizeAllResultSet(t) ==
  /\ pc[t] = "idle"
  /\ resultSetInfoMap' = [k \in {} |-> k]
  /\ held' = [held EXCEPT ![t] = {}]
  /\ UNCHANGED <<resultSetKey, monitor, pc, datum, key, tmpResultSet>>

Step(t) ==
  \/ Probe(t)
  \/ SearchOn(t)
  \/ ResultSetKeyIsFull(t)
  \/ ReturnKey(t)
  \/ PutResultSet(t)
  \/ ClearResultSetID(t)

Next ==
  \E t \in Thread :
    \/ EnterInitResultSetKey(t)
    \/ Step(t)
    \/ EndOfScan(t) \/ EndOfJdbcExec(t) \/ JdbcExecFails(t)
    \/ FinalizeAllResultSet(t)

Spec == Init /\ [][Next]_vars

(* A call that has begun runs on: nothing in it waits for another thread's *)
(* goodwill.  Beginning a call is up to the executor.                      *)
FairSpec == Spec /\ \A t \in Thread : WF_vars(Step(t))
-----------------------------------------------------------------------------
(* An identifier is only ever given out for one open result set at a time:  *)
(* entering a result set in createStatementID never displaces another one,  *)
(* and no call removes an entry of another thread.                          *)
Ids == INSTANCE ResultSetIds WITH Holder <- Thread, Id <- Key, owner <- resultSetInfoMap
ImplementsIds == Ids!Spec

(* What the comment of initResultSetKey promises ("Avoid race case."): the *)
(* key a search returned is still free when its caller enters the result   *)
(* set under it.                                                           *)
ReturnedKeyIsFree ==
  [][\A t \in Thread :
        pc[t] = "put" /\ pc'[t] = "idle" => key[t] \notin DOMAIN resultSetInfoMap]_vars

(* initResultSetKey throws "resultSetKey is full" only when every key it    *)
(* can ever come back to (2..MaxKey: the wrap-around skips 1) is in use.    *)
FullOnlyWhenFull ==
  [][\A t \in Thread :
        pc[t] = "advance" /\ pc'[t] = "idle" => 2..MaxKey \subseteq DOMAIN resultSetInfoMap]_vars

(* The keys a thread was given and still uses name the result sets they were *)
(* returned for: no other one was entered over them and nobody removed them. *)
HeldKeysAreMine ==
  \A t \in Thread : \A h \in held[t] :
    /\ h.key \in DOMAIN resultSetInfoMap
    /\ resultSetInfoMap[h.key] = [holder |-> t, resultSet |-> h.resultSet]

(* A search that began at d has passed k on its way to resultSetKey, perhaps *)
(* over the wrap-around from MaxKey to 2.                                   *)
Searched(d, k) ==
  IF d <= resultSetKey THEN d <= k /\ k < resultSetKey
                       ELSE d <= k \/ (2 <= k /\ k < resultSetKey)

(* Every step of a search passes a key it had not passed before: none is    *)
(* looked at twice, so that a search takes no more steps than there are     *)
(* keys.  A search that began at 1 would never be back where it began; but  *)
(* while the position is still 1 nothing but key 1 can be in use, and the   *)
(* search does not come to the wrap-around.                                 *)
SearchAdvances ==
  [][\A t \in Thread :
        pc[t] = "advance" /\ pc'[t] = "probe" =>
          LET passed == {k \in Key : Searched(datum[t], k)}
          IN  /\ resultSetKey \notin passed
              /\ passed' = passed \cup {resultSetKey}]_vars

(* Every search for a key comes to an end: the wrap-around at MaxKey and    *)
(* the test against datum leave no way to go round for ever, although the   *)
(* position 1 is never visited again.                                       *)
SearchEnds ==
  \A t \in Thread : pc[t] = "probe" ~> pc[t] \in {"put", "idle"}
=============================================================================
