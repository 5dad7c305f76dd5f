---------------------------- MODULE MCForeignScan ---------------------------
(* Instances of ForeignScan: scans as one user of one server, and of two. *)
(* In OnePlan all belong to one portal, as in a join; in TwoPlans each has *)
(* its own.                                                                   *)
EXTENDS ForeignScan, TLC

CONSTANTS s1, s2, m1, m2, k1, k2, p1, p2, a, b, c

TheServer == [m \in Mapping |-> IF m = m1 THEN s1 ELSE s2]
TheMapping == [k \in Key |-> IF k = k1 THEN m1 ELSE m2]
OnePlan == [s \in Scan |-> p1]
TwoPlans == [s \in Scan |-> IF s = a THEN p1 ELSE p2]
OneKey == [s \in Scan |-> k1]
TwoKeys == [s \in Scan |-> IF s = c THEN k2 ELSE k1]
(* a and b are scans of one portal with one key: none is told from the other. *)
SameScans == Permutations({a, b})
NoAlter == [r \in Row |-> 0]
ServerAlter == [r \in Row |-> IF r = s1 THEN 1 ELSE 0]
=============================================================================
