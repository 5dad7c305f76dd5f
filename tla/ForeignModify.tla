--------------------------- MODULE ForeignModify ---------------------------
(***************************************************************************)
(* INSERT, UPDATE and DELETE of jdbc_fdw.c on one foreign table: the plan   *)
(* fixes the text of the remote statement, a list of columns for its        *)
(* placeholders; for each row the values are bound to the placeholders by   *)
(* position, one call of JDBCUtils at a time, and the statement is executed.*)
(* The loops over the attributes of the table are cut at each iteration:    *)
(* the plan and the executor walk the attributes on their own, and their    *)
(* positions must agree.                                                    *)
(*                                                                          *)
(* Columns with OPTIONS (key 'true') are the primary key of the remote      *)
(* table, as the documentation requires; the remote server enforces it.     *)
(* Nobody else writes to the table, and a plan gives a row at most once.    *)
(***************************************************************************)
EXTENDS Integers, Sequences

CONSTANTS
  NAtts,     \* natts of the table, dropped columns included
  RowId,     \* identities of remote rows
  Value,     \* values of a column
  NULL,      \* the SQL null value
  Absent,    \* no remote row with this identity
  Nothing,   \* no call under way, and about no row
  BeforeRowTriggers   \* TRUE: BEFORE ROW triggers may change any column

ASSUME NAttsAssumption == NAtts \in Nat
ASSUME NULLAssumption == NULL \notin Value
ASSUME TriggersAssumption == BeforeRowTriggers \in BOOLEAN

Column == 1..NAtts
Datum == Value \cup {NULL}
Row == [Column -> Datum]

ASSUME AbsentAssumption == Absent \notin Row
ASSUME NothingAssumption ==
  Nothing \notin [id : RowId, row : Row \cup {Absent}]

VARIABLES
  rel,       \* the foreign table: its dropped columns and its key columns
  remote,    \* the rows of the remote table
  pc,        \* "idle", or what the statement is doing: "plan", "run", "bind"
  stmt,      \* the local statement: its operation and, for UPDATE, the columns
             \* assigned (updatedCols and extraUpdatedCols)
  sql,       \* the remote text: columns of the placeholders of SET or VALUES,
             \* which are also target_attrs, and of those of WHERE
  scan,      \* rows the subplan has yet to give, as they were fetched
  cur,       \* identity of the row the call is about
  slot,      \* the new row
  planSlot,  \* the row of the subplan with the resjunk columns
  att,       \* loop variable of the loops over the attributes
  bindnum,   \* placeholders the call has bound
  params,    \* parameters set in the java.sql.PreparedStatement
  is_prepared

vars == <<rel, remote, pc, stmt, sql, scan, cur, slot, planSlot, att, bindnum,
          params, is_prepared>>

NPlaceholders == Len(sql.sets) + Len(sql.wheres)

TypeOK ==
  /\ rel \in [dropped : SUBSET Column, keys : SUBSET Column]
  /\ remote \in [RowId -> Row \cup {Absent}]
  /\ pc \in {"idle", "plan", "run", "bind"}
  /\ stmt \in [op : {"INSERT", "UPDATE", "DELETE"}, cols : SUBSET Column]
  /\ sql \in [sets : Seq(Column), wheres : Seq(Column)]
  /\ DOMAIN scan \subseteq RowId /\ \A id \in DOMAIN scan : scan[id] \in Row
  /\ cur \in RowId \cup {Nothing}
  /\ slot \in Row /\ planSlot \in Row
  /\ att \in 1..NAtts + 1
  /\ bindnum \in 0..NPlaceholders
  /\ DOMAIN params \subseteq 1..NPlaceholders
  /\ \A p \in DOMAIN params : params[p] \in Datum
  /\ is_prepared \in BOOLEAN

NoParams == [p \in {} |-> NULL]
NullRow == [c \in Column |-> NULL]
Rows == {id \in RowId : remote[id] # Absent}

Live == Column \ rel.dropped
LiveRow == {r \in Row : \A c \in rel.dropped : r[c] = NULL}

(* The primary key, on the remote side. *)
PrimaryKey(t) ==
  /\ \A id \in RowId : t[id] # Absent => \A c \in rel.keys : t[id][c] # NULL
  /\ \A i, j \in RowId :
       t[i] # Absent /\ t[j] # Absent /\ i # j /\ rel.keys # {} =>
         \E c \in rel.keys : t[i][c] # t[j][c]

Init ==
  /\ \E dropped \in SUBSET Column : \E keys \in SUBSET (Column \ dropped) :
       rel = [dropped |-> dropped, keys |-> keys]
  /\ remote \in [RowId -> LiveRow \cup {Absent}]
  /\ PrimaryKey(remote)
  /\ pc = "idle"
  /\ stmt = [op |-> "INSERT", cols |-> {}]
  /\ sql = [sets |-> <<>>, wheres |-> <<>>]
  /\ scan = [id \in {} |-> NullRow]
  /\ cur = Nothing
  /\ slot = NullRow
  /\ planSlot = NullRow
  /\ att = 1
  /\ bindnum = 0
  /\ params = NoParams
  /\ is_prepared = FALSE
-----------------------------------------------------------------------------
(* A statement is planned.  AddForeignUpdateTargets refuses an UPDATE or      *)
(* DELETE of a table without key columns.                                     *)
StartStatement ==
  /\ pc = "idle"
  /\ \E op \in {"INSERT", "UPDATE", "DELETE"}, cols \in SUBSET Live :
       /\ op # "INSERT" => rel.keys # {}
       /\ cols # {} <=> op = "UPDATE"
       /\ stmt' = [op |-> op, cols |-> cols]
  /\ pc' = "plan"
  /\ sql' = [sets |-> <<>>, wheres |-> <<>>]
  /\ att' = 1
  /\ UNCHANGED <<rel, remote, scan, cur, slot, planSlot, bindnum, params, is_prepared>>

(* The columns transmitted: targetAttrs of PlanForeignModify. *)
TargetAttrs ==
  CASE stmt.op = "INSERT" -> Live
    [] stmt.op = "UPDATE" -> stmt.cols
    [] stmt.op = "DELETE" -> {}

AppendIf(s, c, condition) == IF condition THEN Append(s, c) ELSE s

\* Faulty: only the first key column is put into the WHERE clause.
PlanColumnFirstKey ==
  /\ pc = "plan"
  /\ att <= NAtts
  /\ sql' = [sets   |-> AppendIf(sql.sets, att, att \in TargetAttrs),
             wheres |-> AppendIf(sql.wheres, att,
                          att \in rel.keys /\ stmt.op # "INSERT" /\ sql.wheres = <<>>)]
  /\ att' = att + 1
  /\ UNCHANGED <<rel, remote, pc, stmt, scan, cur, slot, planSlot, bindnum, params, is_prepared>>

(* PlanForeignModify: the loops that collect targetAttrs and condAttr, from    *)
(* which the statement text is written in the same order.                      *)
PlanColumn ==
  /\ pc = "plan"
  /\ att <= NAtts
  /\ sql' = [sets   |-> AppendIf(sql.sets, att, att \in TargetAttrs),
             wheres |-> AppendIf(sql.wheres, att, att \in rel.keys /\ stmt.op # "INSERT")]
  /\ att' = att + 1
  /\ UNCHANGED <<rel, remote, pc, stmt, scan, cur, slot, planSlot, bindnum, params, is_prepared>>

(* The plan is executed; the subplan is the scan of the rows to change. *)
BeginForeignModify ==
  /\ pc = "plan"
  /\ att = NAtts + 1
  /\ pc' = "run"
  /\ \E S \in SUBSET Rows :
       /\ stmt.op = "INSERT" => S = {}
       /\ scan' = [id \in S |-> remote[id]]
  /\ is_prepared' = FALSE
  /\ UNCHANGED <<rel, remote, stmt, sql, cur, slot, planSlot, att, bindnum, params>>
-----------------------------------------------------------------------------
(* The new rows an UPDATE can ask for, the BEFORE ROW triggers included. *)
NewRows(old) ==
  {r \in LiveRow : BeforeRowTriggers \/ \A c \in Column \ stmt.cols : r[c] = old[c]}

\* Faulty: the position is not reset.
EnterExecKeepsBindnum ==
  /\ pc' = "bind"
  /\ is_prepared' = TRUE
  /\ params' = IF is_prepared THEN params ELSE NoParams
  /\ att' = 1
  /\ UNCHANGED <<rel, remote, stmt, sql, bindnum>>

(* ExecForeignInsert, -Update or -Delete is called, and prepares the statement *)
(* if it is the first call.                                                    *)
EnterExec ==
  /\ pc' = "bind"
  /\ is_prepared' = TRUE
  /\ params' = IF is_prepared THEN params ELSE NoParams
  /\ att' = 1
  /\ bindnum' = 0
  /\ UNCHANGED <<rel, remote, stmt, sql>>

InsertRow ==
  /\ pc = "run"
  /\ stmt.op = "INSERT"
  /\ cur' \in RowId \ Rows
  /\ slot' \in LiveRow
  /\ planSlot' = slot'
  /\ EnterExec
  /\ UNCHANGED scan

(* The subplan gives a row: the key columns of planSlot are the old ones. *)
ModifyRow(id) ==
  /\ pc = "run"
  /\ id \in DOMAIN scan
  /\ cur' = id
  /\ planSlot' = scan[id]
  /\ slot' \in IF stmt.op = "UPDATE" THEN NewRows(scan[id]) ELSE {scan[id]}
  /\ scan' = [i \in DOMAIN scan \ {id} |-> scan[i]]
  /\ EnterExec

(* jq_bind_sql_var: sets the parameter after those bound so far. *)
Bind(value) ==
  /\ params' = [p \in DOMAIN params \cup {bindnum + 1} |->
                  IF p = bindnum + 1 THEN value ELSE params[p]]
  /\ bindnum' = bindnum + 1

BindTarget ==
  /\ pc = "bind"
  /\ bindnum < Len(sql.sets)
  /\ Bind(slot[sql.sets[bindnum + 1]])
  /\ UNCHANGED <<rel, remote, pc, stmt, sql, scan, cur, slot, planSlot, att, is_prepared>>

\* Faulty: the key is taken from the new row.
BindJunkColumnFromSlot ==
  /\ pc = "bind"
  /\ stmt.op # "INSERT"
  /\ bindnum >= Len(sql.sets)
  /\ att <= NAtts
  /\ IF att \in rel.keys THEN Bind(slot[att]) ELSE UNCHANGED <<params, bindnum>>
  /\ att' = att + 1
  /\ UNCHANGED <<rel, remote, pc, stmt, sql, scan, cur, slot, planSlot, is_prepared>>

(* jdbc_bind_junk_column_value: junk_idx is set for the key columns, which     *)
(* AddForeignUpdateTargets has added to the subplan.                           *)
BindJunkColumn ==
  /\ pc = "bind"
  /\ stmt.op # "INSERT"
  /\ bindnum >= Len(sql.sets)
  /\ att <= NAtts
  /\ IF att \in rel.keys THEN Bind(planSlot[att]) ELSE UNCHANGED <<params, bindnum>>
  /\ att' = att + 1
  /\ UNCHANGED <<rel, remote, pc, stmt, sql, scan, cur, slot, planSlot, is_prepared>>
-----------------------------------------------------------------------------
(* The remote server executes the statement with its parameters. *)
Matches(r) ==
  \A n \in DOMAIN sql.wheres :
    r[sql.wheres[n]] # NULL /\ r[sql.wheres[n]] = params[Len(sql.sets) + n]

Assigned(r) ==
  [c \in Column |->
     IF \E n \in DOMAIN sql.sets : sql.sets[n] = c
     THEN params[CHOOSE n \in DOMAIN sql.sets : sql.sets[n] = c]
     ELSE r[c]]

Executed ==
  CASE stmt.op = "INSERT" -> [remote EXCEPT ![cur] = Assigned(NullRow)]
    [] stmt.op = "UPDATE" ->
         [id \in RowId |-> IF id \in Rows /\ Matches(remote[id]) THEN Assigned(remote[id])
                           ELSE remote[id]]
    [] stmt.op = "DELETE" ->
         [id \in RowId |-> IF id \in Rows /\ Matches(remote[id]) THEN Absent
                           ELSE remote[id]]

(* The local variables of a call are gone. *)
CallOver ==
  /\ cur' = Nothing
  /\ slot' = NullRow
  /\ planSlot' = NullRow
  /\ att' = 1

(* The executor state of the statement is gone, its modify state included. *)
StatementOver ==
  /\ pc' = "idle"
  /\ CallOver
  /\ scan' = [id \in {} |-> NullRow]
  /\ sql' = [sets |-> <<>>, wheres |-> <<>>]
  /\ bindnum' = 0
  /\ params' = NoParams
  /\ is_prepared' = FALSE
  /\ UNCHANGED <<rel, remote, stmt>>

(* execPreparedStatement: it needs every parameter, and clears them. *)
ExecPrepared ==
  /\ pc = "bind"
  /\ bindnum >= Len(sql.sets)
  /\ stmt.op = "INSERT" \/ att = NAtts + 1
  /\ DOMAIN params = 1..NPlaceholders
  /\ PrimaryKey(Executed)
  /\ remote' = Executed
  /\ params' = NoParams
  /\ pc' = "run"
  /\ CallOver
  /\ UNCHANGED <<rel, stmt, sql, scan, bindnum, is_prepared>>

(* A call raises an error, as when a type cannot be bound or the server        *)
(* rejects the row; the statement is over.  What it has done so far stays: the *)
(* connection commits each statement by itself.                                *)
StatementFails ==
  /\ pc # "idle"
  /\ StatementOver

EndForeignModify ==
  /\ pc = "run"
  /\ DOMAIN scan = {}
  /\ StatementOver
-----------------------------------------------------------------------------
Next ==
  \/ StartStatement \/ PlanColumn \/ BeginForeignModify
  \/ InsertRow
  \/ \E id \in RowId : ModifyRow(id)
  \/ BindTarget \/ BindJunkColumn \/ ExecPrepared
  \/ StatementFails \/ EndForeignModify

Spec == Init /\ [][Next]_vars
-----------------------------------------------------------------------------
(* The value a placeholder is for: that of its own column, in the new row for  *)
(* SET and VALUES, in the row as it was fetched for WHERE.                     *)
Meant(p) ==
  IF p <= Len(sql.sets) THEN slot[sql.sets[p]]
  ELSE planSlot[sql.wheres[p - Len(sql.sets)]]

(* The loops of PlanForeignModify and those of ExecForeignUpdate and           *)
(* jdbc_bind_junk_column_value number the columns alike: each parameter bound  *)
(* has a placeholder and is the value meant for it, and when the loops have    *)
(* ended every placeholder has one.                                            *)
BoundInOrder ==
  pc = "bind" =>
    /\ bindnum <= NPlaceholders
    /\ \A p \in 1..bindnum : p \in DOMAIN params /\ params[p] = Meant(p)
    /\ bindnum >= Len(sql.sets) /\ (stmt.op = "INSERT" \/ att = NAtts + 1) =>
         bindnum = NPlaceholders

(* Each call that succeeds changes the row it is about to the new row, and no  *)
(* other row, also when key columns are assigned; a call that fails changes    *)
(* nothing.                                                                    *)
pending ==
  IF pc = "bind" THEN [id |-> cur, row |-> IF stmt.op = "DELETE" THEN Absent ELSE slot]
  ELSE Nothing
Abstract == INSTANCE RowModify WITH table <- remote, pending <- pending
ImplementsRowModify == Abstract!Spec
=============================================================================
