---------------------------- MODULE ResultSetIds ----------------------------
(***************************************************************************)
(* What the C code expects of JDBCUtils.createStatementID and its kin: an  *)
(* identifier that nobody else holds, which keeps naming the result set it *)
(* was given out for until its holder gives it back.  jdbc_fdw.c stores    *)
(* the identifier in resultSetID of a scan, a modify state or a jdbc_exec  *)
(* call and passes it to every later call.                                 *)
(***************************************************************************)
CONSTANTS
  Holder,    \* who can be given an identifier
  Id,        \* the identifiers
  ResultSet  \* what an identifier can name

VARIABLE owner   \* the identifiers in use: holder and result set of each

Init == owner = [i \in {} |-> i]

Restricted(S) == [i \in DOMAIN owner \ S |-> owner[i]]

(* h gets an identifier for r, and it is not one in use. *)
Acquire(h, i, r) ==
  /\ i \in Id \ DOMAIN owner
  /\ owner' = [j \in DOMAIN owner \cup {i} |->
                 IF j = i THEN [holder |-> h, resultSet |-> r] ELSE owner[j]]

(* h gives back identifiers it holds: at the end of the data, at the end of *)
(* jdbc_exec, or all of them at the end of the transaction.                 *)
Release(h, S) ==
  /\ \A i \in S : i \in DOMAIN owner => owner[i].holder = h
  /\ owner' = Restricted(S)

Next ==
  \E h \in Holder :
    \/ \E i \in Id, r \in ResultSet : Acquire(h, i, r)
    \/ \E S \in SUBSET Id : Release(h, S)

Spec == Init /\ [][Next]_owner
=============================================================================
