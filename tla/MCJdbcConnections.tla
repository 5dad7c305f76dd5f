-------------------------- MODULE MCJdbcConnections -------------------------
(* An instance of JdbcConnections: two user mappings of one server, whose    *)
(* row is altered.                                                           *)
EXTENDS JdbcConnections

CONSTANTS s1, m1, m2

OneServer == [m \in Mapping |-> s1]
ServerAlter == [r \in Row |-> IF r = s1 THEN 1 ELSE 0]
=============================================================================
