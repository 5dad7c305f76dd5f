----------------------- MODULE ForeignModify_refinement -----------------------
(***************************************************************************)
(* ForeignModify implements RowModify when no BEFORE ROW trigger changes a *)
(* column the UPDATE does not assign: a call that succeeds changes just    *)
(* the row it is about, to just the row asked for, for every table.        *)
(***************************************************************************)
EXTENDS ForeignModify_proofs

(* The remote table: its key identifies its rows, and dropped columns, which *)
(* it does not have, are null.                                               *)
TableRight ==
  /\ rel.keys \cap rel.dropped = {}
  /\ remote \in [RowId -> LiveRow \cup {Absent}]
  /\ PrimaryKey(remote)

(* An UPDATE or DELETE is planned for a table with a key only; an INSERT has  *)
(* no rows to change, and before a statement runs there are none.            *)
StatementRight ==
  /\ pc # "idle" /\ stmt.op # "INSERT" => rel.keys # {}
  /\ pc \in {"idle", "plan"} \/ stmt.op = "INSERT" => DOMAIN scan = {}

(* The rows the subplan has yet to give are as they were fetched: the calls  *)
(* so far were about other rows.                                             *)
ScanCurrent ==
  \A id \in DOMAIN scan : id \in Rows /\ scan[id] = remote[id]

(* A call is about a row as it was fetched, and asks for columns of its own. *)
CallRight ==
  pc = "bind" =>
    /\ cur \in RowId \ DOMAIN scan
    /\ slot \in LiveRow
    /\ stmt.op = "INSERT" => cur \notin Rows
    /\ stmt.op # "INSERT" => cur \in Rows /\ planSlot = remote[cur]
    /\ stmt.op = "UPDATE" => \A c \in Column \ stmt.cols : slot[c] = planSlot[c]

ChangeInv == TableRight /\ StatementRight /\ ScanCurrent /\ CallRight
-----------------------------------------------------------------------------
(* The statement text and the parameters as they are when it is executed.    *)
LEMMA TextAndParameters ==
  ASSUME ModifyInv, ExecPrepared
  PROVE  /\ \A n \in DOMAIN sql.sets : params[n] = slot[sql.sets[n]]
         /\ \A n \in DOMAIN sql.wheres : params[Len(sql.sets) + n] = planSlot[sql.wheres[n]]
         /\ \A c \in Column : c \in TargetAttrs <=> \E n \in DOMAIN sql.sets : sql.sets[n] = c
         /\ \A c \in Column : c \in CondAttrs <=> \E n \in DOMAIN sql.wheres : sql.wheres[n] = c
<1>1. /\ sql.sets \in Seq(Column) /\ sql.wheres \in Seq(Column)
      /\ Len(sql.sets) \in Nat /\ Len(sql.wheres) \in Nat
  BY DEF ModifyInv, Types
<1>2. \A p \in 1..NPlaceholders : params[p] = Meant(p)
  BY DEF ExecPrepared, ModifyInv, BindInv
<1>a. \A m, k \in Nat :
        /\ \A n \in 1..m : n <= m /\ n \in 1..(m + k)
        /\ \A n \in 1..k : n \in Nat /\ n > 0 /\ m + n \in Nat /\ m + n \in 1..(m + k)
  OBVIOUS
<1>d. DOMAIN sql.sets = 1..Len(sql.sets) /\ DOMAIN sql.wheres = 1..Len(sql.wheres)
  BY <1>1
<1>3. \A n \in DOMAIN sql.sets : params[n] = slot[sql.sets[n]]
  <2> SUFFICES ASSUME NEW n \in DOMAIN sql.sets PROVE params[n] = slot[sql.sets[n]]
    OBVIOUS
  <2>1. n <= Len(sql.sets) /\ n \in 1..NPlaceholders
    BY <1>1, <1>a, <1>d, Zenon DEF NPlaceholders
  <2>2. Meant(n) = slot[sql.sets[n]]
    BY <2>1 DEF Meant
  <2> QED
    BY <1>2, <2>1, <2>2, Zenon
<1>4. \A n \in DOMAIN sql.wheres : params[Len(sql.sets) + n] = planSlot[sql.wheres[n]]
  <2> SUFFICES ASSUME NEW n \in DOMAIN sql.wheres
               PROVE  params[Len(sql.sets) + n] = planSlot[sql.wheres[n]]
    OBVIOUS
  <2>1. n \in Nat /\ n > 0
    BY <1>1, <1>a, <1>d, Zenon
  <2>2. Len(sql.sets) + n \in Nat /\ Len(sql.sets) + n \in 1..NPlaceholders
    BY <1>1, <1>a, <1>d, Zenon DEF NPlaceholders
  <2>3. Meant(Len(sql.sets) + n) = planSlot[sql.wheres[n]]
    BY <1>1, <2>1, <2>2, MeantKey, Zenon
  <2> QED
    BY <1>2, <2>2, <2>3, Zenon
<1>5. /\ {c \in TargetAttrs : c <= UpTo} \cap Column = TargetAttrs \cap Column
      /\ {c \in CondAttrs : c <= UpTo} \cap Column = CondAttrs \cap Column
  BY NAttsAssumption DEF ExecPrepared, UpTo, Column
<1>6. /\ Lists(sql.sets, {c \in TargetAttrs : c <= UpTo})
      /\ Lists(sql.wheres, {c \in CondAttrs : c <= UpTo})
  BY DEF ExecPrepared, ModifyInv, PlanInv
<1>7. \A c \in Column : c \in TargetAttrs <=> \E n \in DOMAIN sql.sets : sql.sets[n] = c
  BY <1>5, <1>6, Zenon DEF Lists
<1>8. \A c \in Column : c \in CondAttrs <=> \E n \in DOMAIN sql.wheres : sql.wheres[n] = c
  BY <1>5, <1>6, Zenon DEF Lists
<1> QED
  BY <1>3, <1>4, <1>7, <1>8

(* SET and VALUES give their columns the values of the new row.              *)
LEMMA AssignsNewValues ==
  ASSUME ModifyInv, ExecPrepared, NEW r
  PROVE  Assigned(r) = [c \in Column |-> IF c \in TargetAttrs THEN slot[c] ELSE r[c]]
<1> SUFFICES ASSUME NEW c \in Column
             PROVE  Assigned(r)[c] = IF c \in TargetAttrs THEN slot[c] ELSE r[c]
  BY DEF Assigned
<1>1. c \in TargetAttrs <=> \E n \in DOMAIN sql.sets : sql.sets[n] = c
  BY TextAndParameters, Zenon
<1>2. CASE c \in TargetAttrs
  <2> DEFINE m == CHOOSE n \in DOMAIN sql.sets : sql.sets[n] = c
  <2>1. m \in DOMAIN sql.sets /\ sql.sets[m] = c
    BY <1>1, <1>2, Zenon
  <2>2. Assigned(r)[c] = params[m]
    BY <1>1, <1>2 DEF Assigned
  <2> HIDE DEF m
  <2>3. params[m] = slot[c]
    BY <2>1, TextAndParameters, Zenon
  <2> QED
    BY <1>2, <2>2, <2>3
<1>3. CASE c \notin TargetAttrs
  BY <1>1, <1>3 DEF Assigned
<1> QED
  BY <1>2, <1>3

(* The WHERE clause asks for the key the row had when it was fetched, and the  *)
(* table has one row with that key.                                          *)
LEMMA MatchesOneRow ==
  ASSUME ModifyInv, ChangeInv, ExecPrepared, stmt.op # "INSERT", NEW id \in Rows
  PROVE  Matches(remote[id]) <=> id = cur
<1>1. /\ CondAttrs = rel.keys /\ rel.keys \subseteq Column /\ rel.keys # {}
      /\ sql.wheres \in Seq(Column)
  BY DEF ModifyInv, Types, CondAttrs, ChangeInv, StatementRight, ExecPrepared
<1>2. cur \in Rows /\ planSlot = remote[cur]
  BY DEF ChangeInv, CallRight, ExecPrepared
<1>3. Matches(remote[id]) <=> \A c \in rel.keys : remote[id][c] # NULL /\ remote[id][c] = planSlot[c]
  <2>1. \A n \in DOMAIN sql.wheres : params[Len(sql.sets) + n] = planSlot[sql.wheres[n]]
    BY TextAndParameters, Zenon
  <2>2. \A c \in Column : c \in rel.keys <=> \E n \in DOMAIN sql.wheres : sql.wheres[n] = c
    BY <1>1, TextAndParameters, Zenon
  <2>3. \A n \in DOMAIN sql.wheres : sql.wheres[n] \in Column
    BY <1>1
  <2>4. ASSUME Matches(remote[id]), NEW c \in rel.keys
        PROVE  remote[id][c] # NULL /\ remote[id][c] = planSlot[c]
    <3>1. PICK n \in DOMAIN sql.wheres : sql.wheres[n] = c
      BY <1>1, <2>2, Zenon
    <3>2. /\ remote[id][sql.wheres[n]] # NULL
          /\ remote[id][sql.wheres[n]] = params[Len(sql.sets) + n]
      BY <2>4, Zenon DEF Matches
    <3> QED
      BY <2>1, <3>1, <3>2
  <2>5. ASSUME \A c \in rel.keys : remote[id][c] # NULL /\ remote[id][c] = planSlot[c]
        PROVE  Matches(remote[id])
    BY <2>1, <2>2, <2>3, <2>5, Zenon DEF Matches
  <2> QED
    BY <2>4, <2>5
<1>4. PrimaryKey(remote)
  BY DEF ChangeInv, TableRight
<1>5. id = cur => Matches(remote[id])
  BY <1>2, <1>3, <1>4 DEF PrimaryKey, Rows
<1>6. Matches(remote[id]) => id = cur
  BY <1>1, <1>2, <1>3, <1>4 DEF PrimaryKey, Rows
<1> QED
  BY <1>5, <1>6

(* A call that succeeds changes the row it is about to the one asked for.    *)
LEMMA ChangesTheRow ==
  ASSUME ModifyInv, ChangeInv, ExecPrepared
  PROVE  remote' = [remote EXCEPT ![cur] = pending.row]
<1>1. /\ pc = "bind" /\ remote' = Executed /\ cur \in RowId /\ slot \in LiveRow
      /\ remote \in [RowId -> LiveRow \cup {Absent}]
      /\ stmt.op \in {"INSERT", "UPDATE", "DELETE"}
      /\ pending.row = IF stmt.op = "DELETE" THEN Absent ELSE slot
  BY DEF ExecPrepared, ChangeInv, CallRight, TableRight, ModifyInv, Types, pending
<1>2. slot = [c \in Column |-> slot[c]]
  BY <1>1 DEF LiveRow, Row
<1>3. CASE stmt.op = "INSERT"
  <2>1. \A c \in Column : c \notin TargetAttrs => slot[c] = NULL
    BY <1>1, <1>3 DEF TargetAttrs, Live, LiveRow
  <2>2. Assigned(NullRow) = slot
    <3>1. Assigned(NullRow) = [c \in Column |-> IF c \in TargetAttrs THEN slot[c] ELSE NullRow[c]]
      BY AssignsNewValues
    <3> QED
      BY <1>2, <2>1, <3>1 DEF NullRow
  <2> QED
    BY <1>1, <1>3, <2>2 DEF Executed
<1>4. CASE stmt.op = "UPDATE"
  <2>1. Assigned(remote[cur]) = slot
    <3>1. Assigned(remote[cur]) =
            [c \in Column |-> IF c \in TargetAttrs THEN slot[c] ELSE remote[cur][c]]
      BY AssignsNewValues
    <3>2. \A c \in Column : c \notin TargetAttrs => slot[c] = remote[cur][c]
      BY <1>1, <1>4 DEF TargetAttrs, ChangeInv, CallRight
    <3> QED
      BY <1>2, <3>1, <3>2
  <2>2. \A id \in RowId : id \in Rows /\ Matches(remote[id]) <=> id = cur
    BY <1>1, <1>4, MatchesOneRow DEF ChangeInv, CallRight
  <2>3. remote' = [id \in RowId |-> IF id \in Rows /\ Matches(remote[id])
                                     THEN Assigned(remote[id]) ELSE remote[id]]
    BY <1>1, <1>4 DEF Executed
  <2> QED
    BY <1>1, <1>4, <2>1, <2>2, <2>3
<1>5. CASE stmt.op = "DELETE"
  <2>1. \A id \in RowId : id \in Rows /\ Matches(remote[id]) <=> id = cur
    BY <1>1, <1>5, MatchesOneRow DEF ChangeInv, CallRight
  <2>2. remote' = [id \in RowId |-> IF id \in Rows /\ Matches(remote[id])
                                     THEN Absent ELSE remote[id]]
    BY <1>1, <1>5 DEF Executed
  <2> QED
    BY <1>1, <1>5, <2>1, <2>2
<1> QED
  BY <1>1, <1>3, <1>4, <1>5
-----------------------------------------------------------------------------
LEMMA ChangeInvInductive ==
  ASSUME BeforeRowTriggers = FALSE
  PROVE  Spec => []ChangeInv
<1>1. Init => ChangeInv
  BY DEF Init, ChangeInv, TableRight, StatementRight, ScanCurrent, CallRight
<1>2. ModifyInv /\ ChangeInv /\ [Next]_vars => ChangeInv'
  <2> SUFFICES ASSUME ModifyInv, ChangeInv, [Next]_vars PROVE ChangeInv'
    OBVIOUS
  \* Every action but the execution leaves the table alone.
  <2>t. ASSUME UNCHANGED <<rel, remote>> PROVE TableRight' /\ Rows' = Rows /\ LiveRow' = LiveRow
    BY <2>t DEF ChangeInv, TableRight, PrimaryKey, LiveRow, Rows
  <2>1. CASE StartStatement
    <3>1. StatementRight'
      BY <2>1 DEF StartStatement, ChangeInv, StatementRight
    <3>2. UNCHANGED <<rel, remote, scan>> /\ pc' = "plan"
      BY <2>1 DEF StartStatement
    <3> QED
      BY <2>t, <3>1, <3>2 DEF ChangeInv, ScanCurrent, CallRight
  <2>2. CASE PlanColumn
    BY <2>2, <2>t DEF PlanColumn, ChangeInv, StatementRight, ScanCurrent, CallRight
  <2>3. CASE BeginForeignModify
    <3>1. ScanCurrent'
      BY <2>3, <2>t DEF BeginForeignModify, ScanCurrent
    <3> QED
      BY <2>3, <2>t, <3>1 DEF BeginForeignModify, ChangeInv, StatementRight, CallRight
  <2>4. CASE InsertRow
    <3>1. /\ UNCHANGED <<rel, remote, stmt, scan>> /\ pc = "run" /\ pc' = "bind"
          /\ stmt.op = "INSERT"
      BY <2>4 DEF InsertRow, EnterExec
    <3>2. CallRight'
      BY <2>4, <2>t, <3>1 DEF InsertRow, CallRight, ChangeInv, ScanCurrent
    <3> QED
      BY <2>t, <3>1, <3>2 DEF ChangeInv, StatementRight, ScanCurrent
  <2>5. ASSUME NEW id \in RowId, ModifyRow(id) PROVE ChangeInv'
    <3>1. /\ UNCHANGED <<rel, remote, stmt>> /\ pc = "run" /\ pc' = "bind" /\ id \in DOMAIN scan
          /\ cur' = id /\ planSlot' = scan[id]
          /\ scan' = [i \in DOMAIN scan \ {id} |-> scan[i]]
          /\ slot' \in IF stmt.op = "UPDATE" THEN NewRows(scan[id]) ELSE {scan[id]}
      BY <2>5 DEF ModifyRow, EnterExec
    <3>2. ScanCurrent' /\ cur' \in RowId \ DOMAIN scan' /\ cur' \in Rows
          /\ planSlot' = remote[cur'] /\ scan[id] = remote[id] /\ remote[id] \in LiveRow
      BY <2>t, <3>1 DEF ChangeInv, ScanCurrent, TableRight, Rows
    <3>3. slot' \in LiveRow
      BY <3>1, <3>2 DEF NewRows
    <3>4. stmt.op = "UPDATE" => \A c \in Column \ stmt.cols : slot'[c] = planSlot'[c]
      BY <3>1 DEF NewRows
    <3>5. stmt.op # "INSERT"
      BY <3>1 DEF ChangeInv, StatementRight
    <3>6. CallRight'
      BY <2>t, <3>1, <3>2, <3>3, <3>4, <3>5 DEF CallRight
    <3> QED
      BY <2>t, <3>1, <3>2, <3>5, <3>6 DEF ChangeInv, StatementRight
  <2>6. CASE BindTarget \/ BindJunkColumn
    BY <2>6, <2>t DEF BindTarget, BindJunkColumn, ChangeInv, StatementRight, ScanCurrent, CallRight
  <2>7. CASE ExecPrepared
    <3>1. /\ remote' = [remote EXCEPT ![cur] = pending.row]
          /\ pending.row \in LiveRow \cup {Absent} /\ cur \in RowId \ DOMAIN scan
      BY <2>7, ChangesTheRow DEF ExecPrepared, pending, ChangeInv, CallRight
    <3>2. PrimaryKey(remote)' /\ UNCHANGED <<rel, stmt, scan>> /\ pc' = "run" /\ pc = "bind"
      BY <2>7 DEF ExecPrepared, PrimaryKey
    <3>3. LiveRow' = LiveRow
      BY <3>2 DEF LiveRow
    <3>4. TableRight'
      BY <3>1, <3>2, <3>3 DEF ChangeInv, TableRight
    <3>5. ScanCurrent'
      BY <3>1, <3>2 DEF ChangeInv, ScanCurrent, TableRight, Rows
    <3> QED
      BY <3>2, <3>4, <3>5 DEF ChangeInv, StatementRight, CallRight
  <2>8. CASE StatementFails \/ EndForeignModify
    BY <2>8, <2>t DEF StatementFails, EndForeignModify, StatementOver, ChangeInv,
                      StatementRight, ScanCurrent, CallRight
  <2>9. CASE UNCHANGED vars
    BY <2>9, <2>t DEF vars, ChangeInv, StatementRight, ScanCurrent, CallRight
  <2> QED
    BY <2>1, <2>2, <2>3, <2>4, <2>5, <2>6, <2>7, <2>8, <2>9 DEF Next
<1> QED
  BY <1>1, <1>2, ModifyInvInductive, PTL DEF Spec

(* INSERT, UPDATE and DELETE do what the executor expects of them, row by    *)
(* row: entering a call asks for the change, executing the statement makes   *)
(* it, an error makes none, and no other step touches the table.             *)
THEOREM Implementation ==
  ASSUME BeforeRowTriggers = FALSE
  PROVE  Spec => ImplementsRowModify
<1>1. Init => Abstract!Init
  BY DEF Init, Abstract!Init, pending, LiveRow
<1>2. ModifyInv /\ ChangeInv /\ [Next]_vars => [Abstract!Next]_(Abstract!vars)
  <2> SUFFICES ASSUME ModifyInv, ChangeInv, [Next]_vars
               PROVE  Abstract!Next \/ UNCHANGED Abstract!vars
    OBVIOUS
  <2>q. ASSUME pc # "bind", pc' # "bind", UNCHANGED remote PROVE UNCHANGED Abstract!vars
    BY <2>q DEF Abstract!vars, pending
  <2>n. pc = "bind" => pending # Nothing /\ pending.id = cur
    BY NothingAssumption DEF pending, ModifyInv, Types, ChangeInv, CallRight
  <2>e. ASSUME pc = "run", EnterExec, cur' \in RowId, slot' \in Row, UNCHANGED <<remote, stmt>>
        PROVE  Abstract!Next
    <3>1. pending = Nothing /\ pending' = [id |-> cur', row |-> IF stmt.op = "DELETE" THEN Absent ELSE slot']
      BY <2>e DEF pending, EnterExec
    <3>2. Abstract!Request(cur', IF stmt.op = "DELETE" THEN Absent ELSE slot')
      BY <2>e, <3>1 DEF Abstract!Request
    <3>3. (IF stmt.op = "DELETE" THEN Absent ELSE slot') \in Row \cup {Absent}
      BY <2>e
    <3> QED
      BY <2>e, <3>2, <3>3 DEF Abstract!Next
  <2>1. CASE StartStatement \/ PlanColumn \/ BeginForeignModify
    BY <2>1, <2>q DEF StartStatement, PlanColumn, BeginForeignModify
  <2>2. CASE InsertRow
    BY <2>2, <2>e DEF InsertRow, EnterExec, LiveRow
  <2>3. ASSUME NEW id \in RowId, ModifyRow(id) PROVE Abstract!Next
    <3>1. slot' \in Row
      BY <2>3 DEF ModifyRow, NewRows, LiveRow, ModifyInv, Types
    <3> QED
      BY <2>3, <2>e, <3>1 DEF ModifyRow, EnterExec
  <2>4. CASE BindTarget \/ BindJunkColumn
    BY <2>4 DEF BindTarget, BindJunkColumn, Abstract!vars, pending
  <2>5. CASE ExecPrepared
    <3>1. pending' = Nothing /\ pc = "bind"
      BY <2>5 DEF ExecPrepared, pending
    <3>2. Abstract!Respond
      BY <2>5, <2>n, <3>1, ChangesTheRow DEF Abstract!Respond
    <3> QED
      BY <3>2 DEF Abstract!Next
  <2>6. CASE StatementFails \/ EndForeignModify
    <3>1. pc' = "idle" /\ UNCHANGED remote /\ pending' = Nothing
      BY <2>6 DEF StatementFails, EndForeignModify, StatementOver, pending
    <3>2. CASE pc = "bind"
      BY <2>n, <3>1, <3>2 DEF Abstract!Next, Abstract!Fail
    <3> QED
      BY <2>q, <3>1, <3>2
  <2>7. CASE UNCHANGED vars
    BY <2>7 DEF vars, Abstract!vars, pending
  <2> QED
    BY <2>1, <2>2, <2>3, <2>4, <2>5, <2>6, <2>7 DEF Next
<1> QED
  BY <1>1, <1>2, ModifyInvInductive, ChangeInvInductive, PTL DEF Spec, ImplementsRowModify, Abstract!Spec
=============================================================================
