------------------------------ MODULE Pushdown ------------------------------
(***************************************************************************)
(* One query on one foreign table, from the planner callbacks of jdbc_fdw.c *)
(* to its answer: which conditions, aggregates and LIMIT go into the remote *)
(* SELECT (deparse.c), and what is left to the local executor.  Between the *)
(* callbacks the planner of PostgreSQL decides: which upper relations the   *)
(* query has, in which order it asks about them, and which path it takes.   *)
(*                                                                          *)
(* Conditions and target expressions are names here; what the walker and    *)
(* the deparser make of an expression is in ShippedExpr, and a constant.    *)
(* Rows are identities.  A tuple is the set of the rows it was made from:   *)
(* a row by itself, or all that were aggregated into one.                   *)
(***************************************************************************)
EXTENDS Integers, FiniteSets

CONSTANTS
  Row, Column,
  Cond,          \* conditions of WHERE (baserestrictinfo)
  Target,        \* expressions of the target list of a query with aggregates
  Attrs,         \* the columns of a condition
  Holds,         \* the rows for which a condition is true
  RemoteHolds,   \* the rows for which the text of a condition is, remotely
  ForeignExpr,   \* what jdbc_is_foreign_expr accepts
  ForeignParam,  \* what jdbc_is_foreign_param accepts
  ForeignAggs,   \* targets whose Vars and aggregates are all accepted
  Undeparsable,  \* what jdbc_deparse_expr raises an error for, all or part
  Malformed,     \* what the remote server does not take for SQL
  Queries,       \* the queries of the instance
  NoInfo         \* fdw_private is NULL

Clause == {"hasAggs", "groupClause", "groupingSets", "hasHavingQual",
           "window", "distinct", "orderBy", "hasTargetSRFs", "rowMarks",
           "withTies", "join", "use_remote_estimate"}

(* LIMIT and OFFSET: absent, a constant, or a parameter known when executed. *)
Count == [kind : {"none", "const", "param"}, n : Nat]

Query == [command : {"SELECT", "UPDATE"}, conds : SUBSET Cond,
          cols : SUBSET Column, targets : SUBSET Target,
          clauses : SUBSET Clause, limitCount : Count, limitOffset : Count]

ASSUME CondAssumption ==
  /\ Attrs \in [Cond -> SUBSET Column]
  /\ Holds \in [Cond -> SUBSET Row]
  /\ RemoteHolds \in [Cond -> SUBSET Row]
ASSUME QueriesAssumption == Queries \subseteq Query

Rel == {"base", "GROUP_AGG", "WINDOW", "DISTINCT", "ORDERED", "FINAL", "join"}

VARIABLES
  query,     \* root->parse, and the restrictions of the table
  phase,     \* the callback that is next, or how it ended
  stages,    \* upper relations not yet asked about
  input_rel, \* the relation the next stage works on
  info,      \* fdw_private of each relation
  paths,     \* the foreign paths added
  plan,      \* the ForeignScan
  fetched,   \* tuples of the remote result
  answer     \* tuples of the query, before the steps that are always local

vars == <<query, phase, stages, input_rel, info, paths, plan, fetched, answer>>

(***************************************************************************)
(* What PostgreSQL does.                                                    *)
(***************************************************************************)
Has(c) == c \in query.clauses

LocalGrouping == {"groupClause", "groupingSets", "hasHavingQual"}

LimitNeeded(q) == q.limitCount.kind # "none" \/ q.limitOffset.kind # "none"

(* Steps that are always local stand between the aggregates, or the scan,    *)
(* and LIMIT: all their input must reach them.                               *)
LocalStep == LocalGrouping \cup {"window", "distinct", "orderBy", "hasTargetSRFs", "join"}
HasLocalSteps(q) == q.clauses \cap LocalStep # {}

(* The upper relations a query has, and the order they are asked about in.    *)
UpperStages(q) ==
  {stage \in {"GROUP_AGG", "WINDOW", "DISTINCT", "ORDERED", "FINAL"} :
     \/ stage = "GROUP_AGG" /\ q.clauses \cap (LocalGrouping \cup {"hasAggs"}) # {}
     \/ stage = "WINDOW" /\ "window" \in q.clauses
     \/ stage = "DISTINCT" /\ "distinct" \in q.clauses
     \/ stage = "ORDERED" /\ "orderBy" \in q.clauses
     \/ stage = "FINAL"}
StageOrder ==
  [GROUP_AGG |-> 1, WINDOW |-> 2, DISTINCT |-> 3, ORDERED |-> 4, FINAL |-> 5]
IsNext(stage) ==
  stage \in stages /\ \A s \in stages : StageOrder[stage] <= StageOrder[s]

(* One tuple aggregates all rows, unless they are joined or grouped first.    *)
AggregatesAll(q) == "hasAggs" \in q.clauses /\ q.clauses \cap (LocalGrouping \cup {"join"}) = {}
Tuples(q, S) == IF AggregatesAll(q) THEN {S} ELSE {{r} : r \in S}

(* Without ORDER BY any tuples will do, as long as their number is right.    *)
Limited(q, T) ==
  LET offset == IF q.limitOffset.kind = "none" THEN 0 ELSE q.limitOffset.n
      left   == IF Cardinality(T) <= offset THEN 0 ELSE Cardinality(T) - offset
      number == IF q.limitCount.kind = "none" \/ left <= q.limitCount.n
                THEN left ELSE q.limitCount.n
  IN  {U \in SUBSET T : Cardinality(U) = number}

LimitedHere(q) == LimitNeeded(q) /\ ~HasLocalSteps(q)

Satisfying(C, holds) == {r \in Row : \A c \in C : r \in holds[c]}

(* The answers the query may have on a local table with the same rows.       *)
Answers(q) ==
  LET T == Tuples(q, Satisfying(q.conds, Holds))
  IN  IF LimitedHere(q) THEN Limited(q, T) ELSE {T}

(***************************************************************************)
(* fdw_private, paths and the plan.                                         *)
(***************************************************************************)
Info == [pushdown_safe : BOOLEAN, outerrel : Rel \cup {NoInfo},
         remote_conds : SUBSET Cond, local_conds : SUBSET Cond,
         attrs_used : SUBSET Column]

Path == [parent : Rel, has_limit : BOOLEAN]

(* The remote SELECT and the quals of the ForeignScan.  aggs: its target list *)
(* is one of aggregates.                                                     *)
Plan == [parent : Rel, aggs : BOOLEAN, columns : SUBSET Column, where : SUBSET Cond,
         has_limit : BOOLEAN, quals : SUBSET Cond]

ASSUME NoInfoAssumption == NoInfo \notin Info \cup Plan \cup Rel

Init ==
  /\ query \in Queries
  /\ phase = "GetForeignRelSize"
  /\ stages = UpperStages(query)
  /\ input_rel = "base"
  /\ info = [r \in Rel |-> NoInfo]
  /\ paths = {}
  /\ plan = NoInfo
  /\ fetched = {} /\ answer = {}

TypeOK ==
  /\ query \in Queries
  /\ phase \in {"GetForeignRelSize", "GetForeignPaths", "GetForeignUpperPaths",
                "GetForeignPlan", "scan", "local", "done", "error"}
  /\ stages \subseteq DOMAIN StageOrder
  /\ input_rel \in Rel
  /\ info \in [Rel -> Info \cup {NoInfo}]
  /\ paths \subseteq Path
  /\ plan \in Plan \cup {NoInfo}
  /\ fetched \subseteq SUBSET Row /\ answer \subseteq SUBSET Row

(***************************************************************************)
(* The base relation.                                                       *)
(***************************************************************************)
jdbc_classify_conditions(C) ==
  [remote |-> C \cap ForeignExpr, local |-> C \ ForeignExpr]

(* With use_remote_estimate an EXPLAIN is sent.  jq_exec answers              *)
(* PGRES_COMMAND_OK to whatever is executed, and get_remote_estimate wants    *)
(* PGRES_TUPLES_OK.                                                          *)
jq_exec_status == "PGRES_COMMAND_OK"
get_remote_estimate == jq_exec_status = "PGRES_TUPLES_OK"
estimate_path_cost_size == Has("use_remote_estimate") => get_remote_estimate

jdbcGetForeignRelSize ==
  /\ phase = "GetForeignRelSize"
  /\ LET conds == jdbc_classify_conditions(query.conds)
     IN  info' = [info EXCEPT !["base"] =
                    [pushdown_safe |-> TRUE, outerrel |-> NoInfo,
                     remote_conds |-> conds.remote,
                     local_conds |-> conds.local,
                     attrs_used |->
                       query.cols \cup UNION {Attrs[c] : c \in conds.local}]]
  /\ phase' = IF estimate_path_cost_size THEN "GetForeignPaths" ELSE "error"
  /\ UNCHANGED <<query, stages, input_rel, paths, plan, fetched, answer>>

(* A join gets no foreign path, and its relation no fdw_private.             *)
jdbcGetForeignPaths ==
  /\ phase = "GetForeignPaths"
  /\ paths' = paths \cup {[parent |-> "base", has_limit |-> FALSE]}
  /\ input_rel' = IF Has("join") THEN "join" ELSE "base"
  /\ phase' = "GetForeignUpperPaths"
  /\ UNCHANGED <<query, stages, info, plan, fetched, answer>>

(***************************************************************************)
(* Upper relations.                                                         *)
(***************************************************************************)
UpperInfo(safe, outer) ==
  [pushdown_safe |-> safe, outerrel |-> outer, remote_conds |-> {},
   local_conds |-> {}, attrs_used |-> {}]

(* Faulty (see ResultSetTable on these): the conditions that stay local are   *)
(* not looked at.                                                           *)
GroupingOverLocalConds(outer) ==
  /\ ~Has("groupingSets")
  /\ \A e \in query.targets : \/ e \in ForeignExpr /\ e \notin ForeignParam
                              \/ e \in ForeignAggs

jdbc_foreign_grouping_ok(outer) ==
  /\ ~Has("groupingSets")
  /\ info[outer].local_conds = {}
  /\ \A e \in query.targets : \/ e \in ForeignExpr /\ e \notin ForeignParam
                              \/ e \in ForeignAggs

jdbc_add_foreign_grouping_paths ==
  IF query.clauses \cap LocalGrouping # {} \/ ~Has("hasAggs")
  THEN info' = [info EXCEPT !["GROUP_AGG"] = UpperInfo(FALSE, NoInfo)] /\ UNCHANGED paths
  ELSE LET ok == jdbc_foreign_grouping_ok(input_rel)
       IN  /\ info' = [info EXCEPT !["GROUP_AGG"] = UpperInfo(ok, input_rel)]
           /\ paths' = paths \cup
                IF ok THEN {[parent |-> "GROUP_AGG", has_limit |-> FALSE]} ELSE {}

(* Faulty: the same for LIMIT.                                               *)
LimitOverLocalConds(rel) ==
  /\ ~Has("withTies")
  /\ ~(query.limitCount.kind = "none" /\ query.limitOffset.kind # "none")
  /\ "param" \notin {query.limitOffset.kind, query.limitCount.kind}

(* The expressions of LIMIT and OFFSET must be accepted by the walker: an     *)
(* absent one and a constant are, a parameter is not.                        *)
CanPushLimit(rel) ==
  /\ info[rel].local_conds = {}
  /\ ~Has("withTies")
  /\ ~(query.limitCount.kind = "none" /\ query.limitOffset.kind # "none")
  /\ query.limitOffset.kind # "param"
  /\ query.limitCount.kind # "param"

jdbc_add_foreign_final_paths ==
  IF query.command # "SELECT" \/ Has("rowMarks") \/ ~LimitNeeded(query)
     \/ Has("hasTargetSRFs")
  THEN /\ info' = [info EXCEPT !["FINAL"] = UpperInfo(FALSE, NoInfo)]
       /\ UNCHANGED paths
  ELSE LET rel == IF input_rel = "ORDERED" THEN info["ORDERED"].outerrel
                  ELSE input_rel
       IN  /\ info' = [info EXCEPT !["FINAL"] =
                         UpperInfo(CanPushLimit(rel), input_rel)]
           /\ paths' = paths \cup
                IF CanPushLimit(rel) THEN {[parent |-> rel, has_limit |-> TRUE]} ELSE {}

jdbcGetForeignUpperPaths ==
  /\ phase = "GetForeignUpperPaths"
  /\ \E stage \in {s \in stages : IsNext(s)} :
       /\ IF \/ info[input_rel] = NoInfo \/ ~info[input_rel].pushdown_safe
             \/ stage \notin {"GROUP_AGG", "FINAL"} \/ info[stage] # NoInfo
          THEN UNCHANGED <<info, paths>>
          ELSE IF stage = "GROUP_AGG" THEN jdbc_add_foreign_grouping_paths
          ELSE jdbc_add_foreign_final_paths
       /\ input_rel' = stage
       /\ stages' = stages \ {stage}
       /\ phase' = IF stage = "FINAL" THEN "GetForeignPlan" ELSE phase
  /\ UNCHANGED <<query, plan, fetched, answer>>

(***************************************************************************)
(* The plan, for any of the paths: costs are not modelled.                   *)
(***************************************************************************)
IsUpper(rel) == rel \notin {"base", "join"}

(* Faulty: the aggregates are selected from everything.                       *)
TargetsAndStar(rel) == IF IsUpper(rel) THEN {"*"} ELSE info[rel].attrs_used

jdbc_deparse_target_list(rel) == IF IsUpper(rel) THEN {} ELSE info[rel].attrs_used

(* An upper relation has the WHERE clause of the relation under it.          *)
jdbc_append_where_clause(rel) ==
  info[IF IsUpper(rel) THEN info[rel].outerrel ELSE rel].remote_conds

RemoteSelect(path) ==
  LET rel == path.parent
  IN  [parent |-> rel, aggs |-> IsUpper(rel),
       columns |-> jdbc_deparse_target_list(rel),
       where |-> jdbc_append_where_clause(rel),
       has_limit |-> path.has_limit,
       quals |-> info[rel].local_conds]

jdbcGetForeignPlan ==
  /\ phase = "GetForeignPlan"
  /\ \E path \in paths :
       LET select == RemoteSelect(path)
           exprs  == select.where \cup (IF select.aggs THEN query.targets ELSE {})
       IN  IF exprs \cap Undeparsable = {}
           THEN plan' = select /\ phase' = "scan"
           ELSE UNCHANGED plan /\ phase' = "error"
  /\ UNCHANGED <<query, stages, input_rel, info, paths, fetched, answer>>

(***************************************************************************)
(* Execution: the remote server answers the SELECT, the local executor does  *)
(* the rest.  A column that is not fetched is NULL in the scan tuple.        *)
(***************************************************************************)
RemoteResults ==
  LET S == Satisfying(plan.where, RemoteHolds)
      T == IF plan.aggs THEN {S} ELSE {{r} : r \in S}
  IN  IF plan.has_limit THEN Limited(query, T) ELSE {T}

ExecuteRemotely ==
  /\ phase = "scan"
  /\ IF plan.where \cap Malformed = {}
     THEN fetched' \in RemoteResults /\ phase' = "local"
     ELSE UNCHANGED fetched /\ phase' = "error"
  /\ UNCHANGED <<query, stages, input_rel, info, paths, plan, answer>>

LocalQual(r) ==
  \A c \in plan.quals : Attrs[c] \subseteq plan.columns /\ r \in Holds[c]
ScanTuples ==
  IF plan.aggs THEN fetched
  ELSE LET S == {r \in UNION fetched : LocalQual(r)}
       IN  IF query.cols \subseteq plan.columns THEN Tuples(query, S) ELSE {}

ExecuteLocally ==
  /\ phase = "local"
  /\ answer' \in IF LimitedHere(query) /\ ~plan.has_limit
                 THEN Limited(query, ScanTuples) ELSE {ScanTuples}
  /\ phase' = "done"
  /\ UNCHANGED <<query, stages, input_rel, info, paths, plan, fetched>>

Ended == phase \in {"done", "error"} /\ UNCHANGED vars

Next ==
  \/ jdbcGetForeignRelSize \/ jdbcGetForeignPaths \/ jdbcGetForeignUpperPaths
  \/ jdbcGetForeignPlan \/ ExecuteRemotely \/ ExecuteLocally \/ Ended

Spec == Init /\ [][Next]_vars

(***************************************************************************)
(* Properties.                                                              *)
(***************************************************************************)
(* Not a property of the callbacks: the text of a condition that is accepted  *)
(* means remotely what the condition means here.  ShippedExpr computes both.  *)
ShipsFaithfully ==
  \A c \in (Cond \cap ForeignExpr) \ (Undeparsable \cup Malformed) :
    RemoteHolds[c] = Holds[c]

(* Whatever is pushed down by jdbcGetForeignPlan, and whichever path the     *)
(* planner takes, the query has an answer it could have on a local table    *)
(* with the same rows: LIMIT does not cut rows a local condition or a local *)
(* step still needs, aggregates see the rows of all conditions, no condition *)
(* is lost and no column that is needed is left out.                        *)
AnswerIsRight == phase = "done" => answer \in Answers(query)

(* A remote LIMIT or aggregate stands above all conditions: jdbcGetForeignPlan *)
(* never leaves one for the local executor to check afterwards, and what is  *)
(* sent and what is checked locally are together the conditions of the query. *)
PushedAboveAllConds ==
  plan # NoInfo =>
    /\ plan.where \cup plan.quals = query.conds
    /\ plan.has_limit \/ plan.aggs => plan.quals = {}
=============================================================================
