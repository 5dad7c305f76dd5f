----------------------------- MODULE Collations -----------------------------
(***************************************************************************)
(* How jdbc_foreign_expr_walker (deparse.c) follows collations up an        *)
(* expression: each subexpression merges what it has found into the state   *)
(* of its parent, and the parent compares the outcome with the collation    *)
(* that PostgreSQL has chosen for its inputs.  What is at stake is that the *)
(* remote server, which sees columns but no collations, compares with the   *)
(* same one.                                                                *)
(***************************************************************************)
EXTENDS Integers, Sequences

InvalidOid == "none"
DEFAULT_COLLATION_OID == "default"

(* FDWCollateState: an expression is of a noncollatable type, has a          *)
(* collation that derives from a column of the table, or one that does not.  *)
Rank == [NONE |-> 0, SAFE |-> 1, UNSAFE |-> 2]
CollationState(C) == [collation : C, state : {"NONE", "SAFE", "UNSAFE"}]
CollateNone == [collation |-> InvalidOid, state |-> "NONE"]
SafeCollation(c) == [collation |-> c, state |-> "SAFE"]

MergeCollation(outer, inner) ==
  IF Rank[inner.state] > Rank[outer.state] THEN inner
  ELSE IF inner.state # "SAFE" \/ outer.state # "SAFE" \/ inner = outer THEN outer
  ELSE IF outer.collation = DEFAULT_COLLATION_OID THEN inner
  ELSE IF inner.collation = DEFAULT_COLLATION_OID THEN outer
  ELSE [outer EXCEPT !.state = "UNSAFE"]

(* inner_cxt after the subexpressions with these states, one by one.         *)
InnerContext(states) ==
  LET merged[i \in 0..Len(states)] ==
        IF i = 0 THEN CollateNone ELSE MergeCollation(merged[i - 1], states[i])
  IN  merged[Len(states)]

(* The input collation of a function or an operator must derive from columns.*)
InputAccepted(input, inner) == input = InvalidOid \/ inner = SafeCollation(input)

(* The rule of SQL for columns that are compared: a collation that is not    *)
(* the default one comes first.                                              *)
Derived(colls) ==
  IF colls \subseteq {DEFAULT_COLLATION_OID} THEN DEFAULT_COLLATION_OID
  ELSE CHOOSE c \in colls : c # DEFAULT_COLLATION_OID
=============================================================================
