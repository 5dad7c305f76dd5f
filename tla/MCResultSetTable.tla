-------------------------- MODULE MCResultSetTable --------------------------
(* Instances of ResultSetTable: every thread calls its own JDBCUtils object. *)
EXTENDS ResultSetTable

CONSTANTS t1, t2, u1, u2

OneThread  == {t1}
TwoThreads == {t1, t2}
OwnUtils   == [t \in Thread |-> IF t = t1 THEN u1 ELSE u2]
=============================================================================
