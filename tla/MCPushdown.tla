----------------------------- MODULE MCPushdown -----------------------------
(***************************************************************************)
(* Instances of Pushdown whose conditions are expressions of ShippedExpr, on *)
(* a table with two int columns, two text columns of different collations   *)
(* and an array column.                                                     *)
(***************************************************************************)
EXTENDS Pushdown, ShippedExpr

(* Rows and columns. *)
TheRow(id, x, y, t, u) ==
  [x |-> x, y |-> y, t |-> t, u |-> u, a |-> <<<<1>>, <<3>>>>, tableoid |-> <<id>>]
TheRows == {TheRow(1, <<1>>, <<3>>, <<1>>, <<2>>), TheRow(2, <<2>>, <<1>>, <<2>>, <<1>>),
          TheRow(3, <<3>>, Null, <<3>>, <<3>>), TheRow(4, Null, <<2>>, Null, <<1>>)}
ColumnCollation == [x |-> "none", y |-> "none", t |-> "C", u |-> "default",
                    a |-> "none", tableoid |-> "none"]
TheColumns == DOMAIN ColumnCollation
RemoteRow(row) == [row EXCEPT !.tableoid = <<7>>]

(* Nodes. *)
Var(n) == Expr("Var", n, << >>, << >>, ColumnCollation[n], "none",
               IF n = "tableoid" THEN {"system column"} ELSE {})
IntConst(n) == Expr("Const", "", << >>, <<<<n>>>>, "none", "none", {})
NullInt == Expr("Const", "", << >>, <<Null>>, "none", "none", {})
Text(ch, coll) == Expr("Const", "", << >>, <<<<ch>>>>, coll, "none", {})
Array(elems, flags) == Expr("Const", "", << >>, elems, "none", "none", flags)
List(l, r) == Expr("ArrayExpr", "", <<l, r>>, << >>, "none", "none", {})
Op(op, l, r, input) == Expr("OpExpr", op, <<l, r>>, << >>, "none", input, {})
UserOp(l, r) == Expr("OpExpr", "user >", <<l, r>>, << >>, "none", "none", {"not builtin"})
Func(f, args, coll, flags) == Expr("FuncExpr", f, args, << >>, coll, coll, flags)
AnyOf(op, l, array, input) == Expr("ScalarArrayOpExpr", op, <<l, array>>, << >>, "none", input, {"useOr"})
AllOf(op, l, array, input) == Expr("ScalarArrayOpExpr", op, <<l, array>>, << >>, "none", input, {})
Bool(op, l, r) == Expr("BoolExpr", op, <<l, r>>, << >>, "none", "none", {})
Not(l) == Expr("BoolExpr", "NOT", <<l>>, << >>, "none", "none", {})
IsNull(l) == Expr("NullTest", "IS NULL", <<l>>, << >>, "none", "none", {})
Relabel(l, coll) == Expr("RelabelType", "", <<l>>, << >>, coll, "none", {})
Wrapped(node, l) == Expr(node, "", <<l>>, l.elems, "none", "none", {})
Aggref(f, arg, coll, flags) == Expr("Aggref", f, <<arg>>, << >>, coll, arg.coll, flags)

x == Var("x")
y == Var("y")
t == Var("t")
u == Var("u")

(* Conditions by themselves.                                                 *)
IntConds ==
  {Op(op, x, r, "none") : op \in {"=", "<", ">"}, r \in {y, IntConst(2), Op("+", y, IntConst(1), "none")}}
  \cup {Op(">", Func("int8", <<x>>, "none", {"implicit cast"}), IntConst(1), "none"),
        Op("=", Expr("SubscriptingRef", "", <<Var("a"), IntConst(2)>>, << >>, "none", "none", {}), x, "none"),
        Expr("DistinctExpr", "IS DISTINCT FROM", <<x, y>>, << >>, "none", "none", {}),
        IsNull(x), Op(">", Var("tableoid"), IntConst(2), "none"), UserOp(x, y),
        Op(">", x, Func("now", << >>, "none", {"mutable"}), "none"),
        Op("=", x, Func("int4", <<y>>, "none", {"explicit cast"}), "none"),
        Op("=", x, Func("user_f", <<y>>, "none", {"not builtin"}), "none"),
        Op("=", x, Wrapped("Param", IntConst(2)), "none"),
        Op("=", x, Wrapped("CaseExpr", y), "none")}
TextConds ==
  {Op("=", t, Text(2, "default"), "C"), Op("<", t, Text(2, "default"), "C"),
   Op("<", u, Text(2, "default"), "default"), Op("<", t, u, "C"),
   Op("<", u, Text(2, "C"), "C"),
   Op("<", Relabel(t, "default"), Text(2, "default"), "default"),
   Op("<", Relabel(t, "C"), Text(2, "default"), "C"),
   Op("<", Relabel(u, "C"), Text(2, "default"), "C"), Op("<", Relabel(u, "C"), t, "C"),
   Op("<", Func("lower", <<u>>, "default", {}), Text(2, "default"), "default"),
   Op("~~", t, Text(2, "default"), "C"), Op("~~*", t, Text(2, "default"), "C")}
Arrays == {Array(<<<<1>>, <<3>>>>, {}), Array(<<<<2>>, Null>>, {}), Array(<< >>, {}),
           Array(<< >>, {"null array"}), List(y, IntConst(2)), Var("a")}
ArrayConds ==
  {AnyOf(op, x, array, "none") : op \in {"=", "<>", "<"}, array \in Arrays}
    \cup {AllOf(op, x, array, "none") : op \in {"=", "<>", "<"}, array \in Arrays}
    \cup {AnyOf(op, t, Array(<<<<1>>, <<2>>>>, {"text array"}), "C") : op \in {"=", "<"}}

(* Conditions that others are part of.  A comparison with ANY or ALL that is  *)
(* not IN or NOT IN has no parentheses of its own.                           *)
Parts == {Op(">", x, IntConst(1), "none"), Op("<", y, IntConst(3), "none"), IsNull(y),
          AnyOf("=", x, Array(<<<<1>>, <<3>>>>, {}), "none"), UserOp(x, y)}
BareParts == {AnyOf("<", x, Array(<<<<2>>, <<3>>>>, {}), "none"), AllOf("<", x, List(y, IntConst(2)), "none")}
Nested ==
  {Bool(op, p, q) : op \in {"AND", "OR"}, p \in Parts, q \in Parts} \cup {Not(p) : p \in Parts}
    \cup {IsNull(p) : p \in Parts} \cup {Bool("OR", b, p) : b \in BareParts, p \in Parts}
    \cup {Bool("OR", p, Bool("AND", q, r)) : p \in Parts, q \in Parts, r \in Parts}
NestedBare == {Bool("OR", p, Bool("AND", q, b)) : p \in Parts, q \in Parts, b \in BareParts}

Conds == Parts \cup IntConds \cup TextConds \cup ArrayConds \cup Nested
BareConds == Parts \cup NestedBare

RECURSIVE ColumnsOf(_)
ColumnsOf(e) == IF e.node = "Var" THEN {e.name}
                ELSE UNION {ColumnsOf(e.args[i]) : i \in DOMAIN e.args}
AttrsOf == [c \in Cond |-> ColumnsOf(c)]
HoldsOf == [c \in Cond |-> {row \in Row : Eval(c, row) = True}]

(* Targets of a query with aggregates.                                       *)
Sum == Aggref("sum", x, "none", {})
Targets == {Sum, Op("+", Sum, IntConst(1), "none"), Op("+", Sum, Wrapped("Param", IntConst(2)), "none"),
             Aggref("max", t, "C", {}), Aggref("max", u, "default", {}),
             Aggref("count", x, "none", {"aggdistinct"}), Aggref("array_agg", x, "none", {}),
             Aggref("sum", Op("+", x, Func("now", << >>, "none", {"mutable"}), "none"), "none", {}),
             IntConst(1), Wrapped("Param", IntConst(2))}

Accepted == {c \in Cond : jdbc_is_foreign_expr(c, FALSE)}
                   \cup {e \in Target : jdbc_is_foreign_expr(e, TRUE)}
Params == {e \in Target : jdbc_is_foreign_param(e)}
AcceptedAggs == {e \in Target : \A v \in pull_var_clause(e) : jdbc_is_foreign_expr(v, TRUE)}
Shipped(e, accepted) == IF e \in accepted THEN {e} ELSE pull_var_clause(e)
NotDeparsable ==
  LET accepted == ForeignExpr
  IN  {e \in Cond \cup Target : \E s \in Shipped(e, accepted) : ~Deparsable(s)}

(* What the remote server makes of the text of a condition.                  *)
Sent == (Cond \cap ForeignExpr) \ Undeparsable
NotWellFormed == {c \in Sent : ~WellFormed(jdbc_deparse_expr(c))}
RemoteHoldsOf ==
  LET read == Sent \ Malformed
  IN  [c \in Cond |->
         IF c \in read
         THEN {row \in Row : TextValue(jdbc_deparse_expr(c), RemoteRow(row), ColumnCollation) = True}
         ELSE {}]

(* Queries: each condition by itself, and every legal pair of clauses with    *)
(* and without LIMIT and OFFSET over few conditions.                         *)
NoCount == [kind |-> "none", n |-> 0]
Counts == {NoCount, [kind |-> "const", n |-> 1], [kind |-> "param", n |-> 1]}
TheQuery(command, C, targets, clauses, count, offset) ==
  [command |-> command, conds |-> C, cols |-> {"x"}, targets |-> targets,
   clauses |-> clauses, limitCount |-> count, limitOffset |-> offset]
Plain == {TheQuery("SELECT", {c}, {}, {}, NoCount, NoCount) : c \in Cond}
Combinations ==
  {S \in SUBSET Clause :
     /\ Cardinality(S) <= 2
     /\ "withTies" \in S => "orderBy" \in S
     /\ "rowMarks" \in S => S \cap (LocalGrouping \cup {"hasAggs", "distinct", "window"}) = {}}
Shippable == Op(">", x, IntConst(1), "none")
Unshippable == UserOp(x, y)
Limits ==
  {TheQuery("SELECT", C, IF "hasAggs" \in S THEN {Sum} ELSE {}, S, count, offset) :
     C \in SUBSET {Shippable, Unshippable}, S \in Combinations, count \in Counts, offset \in Counts}
Aggregations ==
  {TheQuery("SELECT", C, {e}, {"hasAggs"}, count, NoCount) :
     C \in {{Shippable}, {Unshippable}}, e \in Target, count \in Counts}
Updates == {TheQuery("UPDATE", C, {}, {}, NoCount, NoCount) : C \in SUBSET {Shippable, Unshippable}}
AllQueries == Plain \cup Limits \cup Aggregations \cup Updates

(* The values of the constants.  TLC evaluates the body of a definition that *)
(* replaces a constant at each use, and any other constant definition once.  *)
MCRow == TheRows
MCColumn == TheColumns
MCCond == Conds
BareCond == BareConds
MCTarget == Targets
MCAttrs == AttrsOf
MCHolds == HoldsOf
MCRemoteHolds == RemoteHoldsOf
MCForeignExpr == Accepted
MCForeignParam == Params
MCForeignAggs == AcceptedAggs
MCUndeparsable == NotDeparsable
MCMalformed == NotWellFormed
MCQueries == AllQueries
BareQueries == Plain
=============================================================================
