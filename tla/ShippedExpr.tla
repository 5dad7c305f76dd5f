----------------------------- MODULE ShippedExpr ----------------------------
(***************************************************************************)
(* What deparse.c makes of an expression: which the walker accepts, the     *)
(* text it becomes, and what that text is to a server that reads it by the  *)
(* priorities of SQL.  Strings, quotes and blanks are left out: a text is a  *)
(* sequence of items, and what stands in parentheses is one item.  Columns  *)
(* have the same names and types on both sides; a remote server gives an    *)
(* operator the collation of the columns it is applied to.                   *)
(*                                                                          *)
(* ARRAY[...] is modelled as the right side of ANY and ALL only, and        *)
(* function calls have no VARIADIC argument.                                *)
(***************************************************************************)
EXTENDS Collations, SequencesExt

(* A value is a sequence: of one number for an int or a boolean, of the      *)
(* characters of a text.                                                    *)
Null == << >>
True == <<1>>
False == <<0>>
Comma == 0
EmptyText == <<-1>>
NullText == <<-2>>   \* the word NULL in quotes

(* A node of an expression.  elems: the value of a constant, the elements of *)
(* a constant array.  coll and input: result and input collation.           *)
Expr(node, name, args, elems, coll, input, flags) ==
  [node |-> node, name |-> name, args |-> args, elems |-> elems,
   coll |-> coll, input |-> input, flags |-> flags]

(***************************************************************************)
(* jdbc_foreign_expr_walker: the collation that bubbles up (Collations).     *)
(***************************************************************************)
IsOwnVar(e, upper) == ~upper /\ "other table" \notin e.flags

(* A result has the collation of a column below it, or an unsafe one.        *)
ResultCollation(e, inner) ==
  [collation |-> e.coll,
   state |-> IF e.coll = InvalidOid THEN "NONE"
             ELSE IF inner = SafeCollation(e.coll) THEN "SAFE"
             ELSE IF e.node = "Aggref" /\ e.coll = DEFAULT_COLLATION_OID THEN "NONE"
             ELSE "UNSAFE"]

(* The subscripts of an array say nothing of the collation of its elements.   *)
CollatedArgs(e) == IF e.node = "SubscriptingRef" THEN <<e.args[1]>> ELSE e.args

RECURSIVE Collation(_, _)
InnerCollation(e, upper) ==
  InnerContext([i \in DOMAIN CollatedArgs(e) |-> Collation(CollatedArgs(e)[i], upper)])
Collation(e, upper) ==
  CASE e.node = "Var" -> IF IsOwnVar(e, upper) /\ e.coll # InvalidOid
                         THEN SafeCollation(e.coll)
                         ELSE CollateNone
    [] e.node = "Const" -> CollateNone
    [] OTHER -> ResultCollation(e, InnerCollation(e, upper))

(***************************************************************************)
(* jdbc_foreign_expr_walker: what is accepted.                               *)
(***************************************************************************)
NoOwnCollation(e) == e.coll \in {InvalidOid, DEFAULT_COLLATION_OID}

VarAccepted(e, upper) ==
  IF IsOwnVar(e, upper) THEN "system column" \notin e.flags ELSE NoOwnCollation(e)

FuncExprAccepted(e, inner) ==
  /\ {"explicit cast", "not builtin"} \cap e.flags = {}
  /\ InputAccepted(e.input, inner)

OpExprAccepted(e, inner) ==
  "not builtin" \notin e.flags /\ InputAccepted(e.input, inner)

ScalarArrayOpExprAccepted(e, inner) ==
  "not builtin" \notin e.flags /\ InputAccepted(e.input, inner)

JdbcSupportedBuiltinAggFunction ==
  {"sum", "avg", "max", "min", "count", "stddev", "stddev_pop", "stddev_samp",
   "var_pop", "var_samp", "variance"}
AggrefAccepted(e, inner, upper) ==
  /\ e.name \in JdbcSupportedBuiltinAggFunction
  /\ upper
  /\ {"split", "aggdistinct", "aggorder", "aggfilter"} \cap e.flags = {}
  /\ InputAccepted(e.input, inner)

NodeAccepted(e, inner, upper) ==
  CASE e.node = "Var" -> VarAccepted(e, upper)
    [] e.node = "Const" -> NoOwnCollation(e)
    [] e.node = "FuncExpr" -> FuncExprAccepted(e, inner)
    [] e.node \in {"OpExpr", "DistinctExpr"} -> OpExprAccepted(e, inner)
    [] e.node = "ScalarArrayOpExpr" -> ScalarArrayOpExprAccepted(e, inner)
    [] e.node = "Aggref" -> AggrefAccepted(e, inner, upper)
    [] e.node \in {"SubscriptingRef", "RelabelType", "BoolExpr", "NullTest",
                   "ArrayExpr"} -> TRUE
    [] OTHER -> FALSE      \* Param among them

RECURSIVE jdbc_foreign_expr_walker(_, _)
jdbc_foreign_expr_walker(e, upper) ==
  /\ \A i \in DOMAIN e.args : jdbc_foreign_expr_walker(e.args[i], upper)
  /\ NodeAccepted(e, InnerCollation(e, upper), upper)
  /\ "type not builtin" \notin e.flags

RECURSIVE contain_mutable_functions(_)
contain_mutable_functions(e) ==
  "mutable" \in e.flags \/ \E i \in DOMAIN e.args : contain_mutable_functions(e.args[i])

jdbc_is_foreign_expr(e, upper) ==
  jdbc_foreign_expr_walker(e, upper) /\ ~contain_mutable_functions(e)

jdbc_is_foreign_param(e) ==
  e.node = "Param" \/ (e.node = "Var" /\ "other table" \in e.flags)

(* The Vars and the aggregates of an expression that is not accepted whole.   *)
RECURSIVE pull_var_clause(_)
pull_var_clause(e) ==
  IF e.node \in {"Var", "Aggref"} THEN {e}
  ELSE UNION {pull_var_clause(e.args[i]) : i \in DOMAIN e.args}

(***************************************************************************)
(* jdbc_deparse_expr: the text of an expression.                             *)
(***************************************************************************)
Item(item, name, value, texts) ==
  [item |-> item, name |-> name, value |-> value, texts |-> texts]
Word(w) == Item("word", w, Null, << >>)
Literal(v) == Item("literal", "", v, << >>)
Parenthesized(text) == Item("group", "", Null, <<text>>)
JoinTexts(texts, w) ==
  FoldLeft(LAMBDA t, u : IF t = << >> THEN u ELSE t \o <<Word(w)>> \o u, << >>, texts)

Unsupported == {"~~*", "!~~*", "~", "!~", "~*", "!~*"}
jdbc_deparse_operator_name(op) ==
  CASE op = "~~" -> "LIKE" [] op = "!~~" -> "NOT LIKE" [] OTHER -> op

(* Deparsing raises an error for a node it does not know.                    *)
RECURSIVE Deparsable(_)
Deparsable(e) ==
  /\ \A i \in DOMAIN e.args : Deparsable(e.args[i])
  /\ e.node \in {"Var", "Const", "SubscriptingRef", "FuncExpr", "OpExpr",
                 "DistinctExpr", "ScalarArrayOpExpr", "RelabelType", "BoolExpr",
                 "NullTest", "ArrayExpr", "Aggref"}
  /\ e.node = "Var" => "other table" \notin e.flags
  /\ e.node = "OpExpr" => e.name \notin Unsupported
  /\ e.node = "ScalarArrayOpExpr" => e.args[2].node \in {"Const", "ArrayExpr"}

jdbc_deparse_const(e) == <<Literal(e.elems[1])>>

jdbc_deparse_array_ref(texts) == <<Parenthesized(<<Item("subscript", "", Null, texts)>>)>>

jdbc_deparse_func_expr(e, texts) ==
  IF "implicit cast" \in e.flags THEN texts[1]
  ELSE <<Item("call", e.name, Null, texts)>>

jdbc_deparse_op_expr(e, texts) ==
  <<Parenthesized(texts[1] \o <<Word(jdbc_deparse_operator_name(e.name))>> \o texts[2])>>

jdbc_deparse_distinct_expr(texts) ==
  <<Parenthesized(texts[1] \o <<Word("IS DISTINCT FROM")>> \o texts[2])>>

UseIn(e) == \/ e.name = "=" /\ "useOr" \in e.flags
            \/ e.name = "<>" /\ "useOr" \notin e.flags

(* The array is printed and read again, without its braces and quotes: only  *)
(* int4 and oid elements stay unquoted, and each comma ends an element.       *)
RECURSIVE SplitAtCommas(_)
SplitAtCommas(v) ==
  IF Comma \notin Range(v) THEN <<v>>
  ELSE LET i == SelectInSeq(v, LAMBDA ch : ch = Comma)
       IN  <<SubSeq(v, 1, i - 1)>> \o SplitAtCommas(SubSeq(v, i + 1, Len(v)))
PrintedElements(c) ==
  IF "text array" \notin c.flags THEN c.elems
  ELSE IF c.elems = << >> THEN <<EmptyText>>
  ELSE FlattenSeq([i \in DOMAIN c.elems |->
         IF c.elems[i] = Null THEN <<NullText>> ELSE SplitAtCommas(c.elems[i])])

ArrayElements(e, texts) ==
  IF e.args[2].node = "ArrayExpr" THEN texts[2][1].texts
  ELSE LET printed == PrintedElements(e.args[2])
       IN  [i \in DOMAIN printed |-> <<Literal(printed[i])>>]

(* x IN (..) for = ANY, x NOT IN (..) for <> ALL.  The NULL array returns     *)
(* before the list is closed.                                               *)
InClause(e, texts) ==
  LET word == IF e.name = "=" THEN "IN" ELSE "NOT IN"
  IN  texts[1] \o <<Word(word),
        Item(IF "null array" \in e.args[2].flags THEN "unclosed" ELSE "list", "", Null,
             ArrayElements(e, texts))>>

(* Otherwise a comparison for each element, in parentheses for ARRAY[..].     *)
Comparisons(e, texts) ==
  LET elements == ArrayElements(e, texts)
      Comparison(t) == texts[1] \o <<Word(e.name)>> \o t
  IN  IF elements = << >> THEN Comparison(<< >>)
      ELSE JoinTexts([i \in DOMAIN elements |->
                        IF e.args[2].node = "ArrayExpr"
                        THEN <<Parenthesized(Comparison(elements[i]))>>
                        ELSE Comparison(elements[i])],
                     IF "useOr" \in e.flags THEN "OR" ELSE "AND")

jdbc_deparse_scalar_array_op_expr(e, texts) ==
  IF UseIn(e) THEN InClause(e, texts)
  ELSE IF "null array" \in e.args[2].flags THEN <<Literal(Null)>>
  ELSE Comparisons(e, texts)

jdbc_deparse_bool_expr(e, texts) ==
  <<Parenthesized(IF e.name = "NOT" THEN <<Word("NOT")>> \o texts[1]
                  ELSE JoinTexts(texts, e.name))>>

jdbc_deparse_null_test(e, texts) == <<Parenthesized(texts[1] \o <<Word(e.name)>>)>>

jdbc_deparse_aggref(e, texts) == <<Item("call", e.name, Null, texts)>>

RECURSIVE jdbc_deparse_expr(_)
jdbc_deparse_expr(e) ==
  LET texts == [i \in DOMAIN e.args |-> jdbc_deparse_expr(e.args[i])]
  IN  CASE e.node = "Var" -> <<Item("column", e.name, Null, << >>)>>
        [] e.node = "Const" -> jdbc_deparse_const(e)
        [] e.node = "SubscriptingRef" -> jdbc_deparse_array_ref(texts)
        [] e.node = "FuncExpr" -> jdbc_deparse_func_expr(e, texts)
        [] e.node = "OpExpr" -> jdbc_deparse_op_expr(e, texts)
        [] e.node = "DistinctExpr" -> jdbc_deparse_distinct_expr(texts)
        [] e.node = "ScalarArrayOpExpr" -> jdbc_deparse_scalar_array_op_expr(e, texts)
        [] e.node = "RelabelType" -> texts[1]
        [] e.node = "BoolExpr" -> jdbc_deparse_bool_expr(e, texts)
        [] e.node = "NullTest" -> jdbc_deparse_null_test(e, texts)
        [] e.node = "ArrayExpr" -> <<Item("ARRAY", "", Null, texts)>>
        [] e.node = "Aggref" -> jdbc_deparse_aggref(e, texts)

(***************************************************************************)
(* SQL: values of an expression here, and of a text there.                   *)
(***************************************************************************)
Truth(p) == IF p THEN True ELSE False
Not3(p) == IF p = Null THEN Null ELSE Truth(p = False)
And3(p, q) == IF False \in {p, q} THEN False ELSE IF Null \in {p, q} THEN Null ELSE True
Or3(p, q) == Not3(And3(Not3(p), Not3(q)))

(* Two collations order letters differently.                                 *)
Precedes(coll, v, w) == IF coll = "C" THEN w[1] < v[1] ELSE v[1] < w[1]
Apply(op, coll, v, w) ==
  CASE op = "IS DISTINCT FROM" -> Truth(v # w)
    [] op # "IS DISTINCT FROM" /\ Null \in {v, w} -> Null
    [] OTHER -> CASE op = "=" -> Truth(v = w)
                  [] op = "<>" -> Truth(v # w)
                  [] op = "<" -> Truth(Precedes(coll, v, w))
                  [] op \in {">", "user >"} -> Truth(Precedes(coll, w, v))
                  [] op \in {"~~", "~~*", "LIKE"} -> Truth(v[1] = w[1])
                  [] op = "+" -> <<v[1] + w[1]>>

(* A function that is not immutable, or not built in, may answer differently  *)
(* in the two places.                                                       *)
Call(place, f, vs) ==
  CASE f = "lower" -> IF vs[1] = <<3>> THEN <<1>> ELSE vs[1]
    [] f = "int8" -> vs[1]
    [] OTHER -> IF place = "local" THEN <<1>> ELSE <<2>>

RECURSIVE Eval(_, _)
Eval(e, row) ==
  LET v(i) == Eval(e.args[i], row)
      vs == [i \in DOMAIN e.args |-> v(i)]
      elements == IF e.args[2].node = "ArrayExpr"
                  THEN [i \in DOMAIN e.args[2].args |-> Eval(e.args[2].args[i], row)]
                  ELSE IF e.args[2].node = "Var" THEN row[e.args[2].name]
                  ELSE e.args[2].elems
      results == [i \in DOMAIN elements |-> Apply(e.name, e.input, v(1), elements[i])]
  IN  CASE e.node = "Var" -> row[e.name]
        [] e.node \in {"Const", "Param"} -> e.elems[1]
        [] e.node = "SubscriptingRef" -> v(1)[v(2)[1]]
        [] e.node = "FuncExpr" -> Call("local", e.name, vs)
        [] e.node \in {"OpExpr", "DistinctExpr"} -> Apply(e.name, e.input, v(1), v(2))
        [] e.node = "ScalarArrayOpExpr" ->
             IF "null array" \in e.args[2].flags THEN Null
             ELSE IF "useOr" \in e.flags THEN FoldLeft(Or3, False, results)
             ELSE FoldLeft(And3, True, results)
        [] e.node \in {"RelabelType", "CaseExpr"} -> v(1)
        [] e.node = "BoolExpr" -> IF e.name = "NOT" THEN Not3(v(1))
                                  ELSE IF e.name = "OR" THEN FoldLeft(Or3, False, vs)
                                  ELSE FoldLeft(And3, True, vs)
        [] e.node = "NullTest" -> Truth((v(1) = Null) <=> (e.name = "IS NULL"))

(* The remote server: OR binds least, then AND, NOT, IS NULL, comparisons and *)
(* IN.  columns gives each column its collation.                             *)
Words(text, W) == {i \in DOMAIN text : text[i].item = "word" /\ text[i].name \in W}
Before(text, i) == SubSeq(text, 1, i - 1)
After(text, i) == SubSeq(text, i + 1, Len(text))

(* Not SQL at all: a list that is empty or not closed, an operand missing.     *)
RECURSIVE WellFormed(_)
WellFormed(text) ==
  /\ text # << >>
  /\ text[Len(text)].item # "word" \/ text[Len(text)].name \in {"IS NULL", "IS NOT NULL"}
  /\ \A i \in DOMAIN text :
       /\ text[i].item # "unclosed"
       /\ text[i].item = "list" => text[i].texts # << >>
       /\ \A j \in DOMAIN text[i].texts : WellFormed(text[i].texts[j])

TextCollation(text, columns) ==
  LET names == {text[i].name : i \in {j \in DOMAIN text : text[j].item = "column"}}
               \cup {text[i].texts[1][1].name :
                       i \in {j \in DOMAIN text : text[j].item = "call"
                                /\ text[j].texts # << >> /\ text[j].texts[1][1].item = "column"}}
  IN  Derived({columns[n] : n \in names})

ComparisonWords == {"=", "<>", "<", ">", "user >", "LIKE", "IS DISTINCT FROM", "+", "~~*"}

RECURSIVE TextValue(_, _, _)
TextValue(text, row, columns) ==
  LET Value(t) == TextValue(t, row, columns)
      at(W) == CHOOSE i \in Words(text, W) : \A j \in Words(text, W) : i <= j
      Has(W) == Words(text, W) # {}
      Binary(i) == Apply(text[i].name, TextCollation(text, columns),
                         Value(Before(text, i)), Value(After(text, i)))
      InList(i) == LET list == text[i + 1].texts
                       v == Value(Before(text, i))
                   IN  FoldLeft(Or3, False, [k \in DOMAIN list |->
                         Apply("=", InvalidOid, v, Value(list[k]))])
      Atom == text[1]
  IN  IF Has({"OR"}) THEN Or3(Value(Before(text, at({"OR"}))), Value(After(text, at({"OR"}))))
      ELSE IF Has({"AND"})
           THEN And3(Value(Before(text, at({"AND"}))), Value(After(text, at({"AND"}))))
      ELSE IF Has({"NOT"}) THEN Not3(Value(Tail(text)))
      ELSE IF Has({"IS NULL", "IS NOT NULL"})
           THEN Truth((Value(Front(text)) = Null) <=> Has({"IS NULL"}))
      ELSE IF Has({"IN"}) THEN InList(at({"IN"}))
      ELSE IF Has({"NOT IN"}) THEN Not3(InList(at({"NOT IN"})))
      ELSE IF Has(ComparisonWords) THEN Binary(at(ComparisonWords))
      ELSE CASE Atom.item = "column" -> row[Atom.name]
             [] Atom.item = "literal" -> Atom.value
             [] Atom.item = "group" -> Value(Atom.texts[1])
             [] Atom.item = "subscript" -> Value(Atom.texts[1])[Value(Atom.texts[2])[1]]
             [] Atom.item = "call" ->
                  Call("remote", Atom.name, [k \in DOMAIN Atom.texts |-> Value(Atom.texts[k])])
=============================================================================
