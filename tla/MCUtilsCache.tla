---------------------------- MODULE MCUtilsCache ----------------------------
(* An instance of UtilsCache: two users of one server, each with a user      *)
(* mapping of its own.                                                       *)
EXTENDS UtilsCache

CONSTANTS s1, s2, m1, m2, k1, k2

FirstServer == [m \in Mapping |-> s1]
OwnMapping  == [k \in Key |-> IF k = k1 THEN m1 ELSE m2]

\* One ALTER of the server and one of a mapping that belongs to it.
TwoAlter == [r \in Row |-> IF r \in {s1, m1} THEN 1 ELSE 0]
=============================================================================
