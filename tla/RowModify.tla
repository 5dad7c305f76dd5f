------------------------------ MODULE RowModify ------------------------------
(***************************************************************************)
(* What the executor expects of ExecForeignInsert, ExecForeignUpdate and   *)
(* ExecForeignDelete: each call is about one row of the remote table, and  *)
(* when it succeeds, that row has become what the executor asked for, and  *)
(* no other row has changed.                                               *)
(***************************************************************************)
CONSTANTS
  RowId,    \* identities of rows, whatever their values
  Row,      \* contents
  Absent,   \* no row with this identity
  Nothing   \* no call under way

VARIABLES
  table,    \* the remote table
  pending   \* the change asked for

vars == <<table, pending>>

Init ==
  /\ table \in [RowId -> Row \cup {Absent}]
  /\ pending = Nothing

Request(id, row) ==
  /\ pending = Nothing
  /\ pending' = [id |-> id, row |-> row]
  /\ UNCHANGED table

Respond ==
  /\ pending # Nothing
  /\ table' = [table EXCEPT ![pending.id] = pending.row]
  /\ pending' = Nothing

(* The call raises an error: nothing happened to the table. *)
Fail ==
  /\ pending # Nothing
  /\ pending' = Nothing
  /\ UNCHANGED table

Next ==
  \/ \E id \in RowId, row \in Row \cup {Absent} : Request(id, row)
  \/ Respond
  \/ Fail

Spec == Init /\ [][Next]_vars
=============================================================================
