--------------------------- MODULE Pushdown_proofs --------------------------
(***************************************************************************)
(* Theorems about Pushdown, for every table, every set of conditions and    *)
(* every query.  What is pushed down is right if the text of an accepted    *)
(* condition means remotely what the condition means here (ShipsFaithfully). *)
(* Then one about Collations: what the walker accepts for a comparison.      *)
(***************************************************************************)
EXTENDS Pushdown, Collations, WellFoundedInduction, TLAPS

(***************************************************************************)
(* The inductive invariant.                                                 *)
(***************************************************************************)
(* Only the base relation and the stages the callbacks know get fdw_private.  *)
NoPrivate == \A r \in {"WINDOW", "DISTINCT", "ORDERED", "join"} : info[r] = NoInfo

BaseRight ==
  /\ phase = "GetForeignRelSize" => \A r \in Rel : info[r] = NoInfo
  /\ phase # "GetForeignRelSize" =>
       /\ info["base"] # NoInfo
       /\ info["base"].remote_conds = query.conds \cap ForeignExpr
       /\ info["base"].local_conds = query.conds \ ForeignExpr
       /\ \A c \in info["base"].local_conds : Attrs[c] \subseteq info["base"].attrs_used
       /\ query.cols \subseteq info["base"].attrs_used

(* An aggregate that is pushed down aggregates all rows of the base relation, *)
(* and none of them is still to be checked.                                 *)
AggregateRight ==
  info["GROUP_AGG"] # NoInfo =>
    /\ info["GROUP_AGG"].local_conds = {}
    /\ info["GROUP_AGG"].pushdown_safe =>
         /\ AggregatesAll(query)
         /\ info["GROUP_AGG"].outerrel = "base"
         /\ info["base"].local_conds = {}

StagesRight ==
  /\ phase \in {"GetForeignRelSize", "GetForeignPaths"} =>
       input_rel = "base" /\ stages = UpperStages(query)
  /\ phase = "GetForeignUpperPaths" /\ input_rel \in {"base", "join"} =>
       stages = UpperStages(query)
  /\ phase = "GetForeignUpperPaths" /\ input_rel = "base" => "join" \notin query.clauses
  /\ phase = "GetForeignUpperPaths" /\ input_rel = "GROUP_AGG" =>
       stages = UpperStages(query) \ {"GROUP_AGG"}
  /\ phase = "GetForeignUpperPaths" /\ input_rel \notin {"base", "join"} =>
       "GROUP_AGG" \notin stages
  /\ phase = "GetForeignUpperPaths" => input_rel # "FINAL"

PathRight(path) ==
  /\ path.parent \in {"base", "GROUP_AGG"}
  /\ info[path.parent] # NoInfo
  /\ path.parent = "GROUP_AGG" => info["GROUP_AGG"].pushdown_safe
  /\ path.has_limit => /\ LimitedHere(query)
                       /\ info[path.parent].local_conds = {}
                       /\ path.parent = "base" => "hasAggs" \notin query.clauses

PathsRight ==
  /\ \A path \in paths : PathRight(path)
  /\ phase \in {"GetForeignRelSize", "GetForeignPaths"} => paths = {}

PlanRight ==
  plan # NoInfo =>
    /\ plan.where \cup plan.quals = query.conds
    /\ plan.where \subseteq ForeignExpr \ Undeparsable
    /\ plan.aggs => plan.quals = {} /\ AggregatesAll(query)
    /\ plan.has_limit => /\ plan.quals = {} /\ LimitedHere(query)
                         /\ plan.aggs \/ "hasAggs" \notin query.clauses
    /\ ~plan.aggs => /\ query.cols \subseteq plan.columns
                     /\ \A c \in plan.quals : Attrs[c] \subseteq plan.columns

ScanRight ==
  /\ phase \in {"scan", "local", "done"} => plan # NoInfo
  /\ phase = "local" => plan.where \cap Malformed = {} /\ fetched \in RemoteResults

Safe == TypeOK /\ NoPrivate /\ BaseRight /\ AggregateRight /\ StagesRight
          /\ PathsRight /\ PlanRight /\ ScanRight

(***************************************************************************)
(* Types.                                                                   *)
(***************************************************************************)
LEMMA RelTypes ==
  /\ DOMAIN StageOrder = {"GROUP_AGG", "WINDOW", "DISTINCT", "ORDERED", "FINAL"}
  /\ DOMAIN StageOrder \subseteq Rel
  /\ "base" \in Rel /\ "join" \in Rel /\ "GROUP_AGG" \in Rel /\ "FINAL" \in Rel
BY DEF StageOrder, Rel

LEMMA QueryTypes ==
  ASSUME NEW q \in Queries
  PROVE  /\ q.conds \subseteq Cond /\ q.cols \subseteq Column
         /\ q.targets \subseteq Target /\ q.clauses \subseteq Clause
BY QueriesAssumption DEF Query

LEMMA NoInfoIsNone == NoInfo \notin Info /\ NoInfo \notin Plan
BY NoInfoAssumption

LEMMA UpperInfoType ==
  ASSUME NEW safe \in BOOLEAN, NEW outer \in Rel \cup {NoInfo}
  PROVE  /\ UpperInfo(safe, outer) \in Info
         /\ UpperInfo(safe, outer).pushdown_safe = safe
         /\ UpperInfo(safe, outer).outerrel = outer
         /\ UpperInfo(safe, outer).local_conds = {}
BY DEF UpperInfo, Info

(***************************************************************************)
(* The base relation.                                                       *)
(***************************************************************************)
LEMMA InitSafe == Init => Safe
<1> SUFFICES ASSUME Init PROVE Safe
  OBVIOUS
<1>1. UpperStages(query) \subseteq DOMAIN StageOrder
  BY RelTypes DEF UpperStages
<1>2. TypeOK
  BY <1>1, RelTypes DEF Init, TypeOK
<1>3. \A r \in Rel : info[r] = NoInfo
  BY DEF Init
<1>4. NoPrivate /\ AggregateRight
  BY <1>3 DEF NoPrivate, AggregateRight, Rel
<1>5. BaseRight /\ StagesRight /\ PathsRight /\ PlanRight /\ ScanRight
  BY <1>3 DEF Init, BaseRight, StagesRight, PathsRight, PlanRight, ScanRight
<1> QED BY <1>2, <1>4, <1>5 DEF Safe

LEMMA RelSizeSafe ==
  ASSUME Safe, jdbcGetForeignRelSize
  PROVE  Safe'
<1> DEFINE conds == jdbc_classify_conditions(query.conds)
           new == [pushdown_safe |-> TRUE, outerrel |-> NoInfo,
                   remote_conds |-> conds.remote, local_conds |-> conds.local,
                   attrs_used |-> query.cols \cup UNION {Attrs[c] : c \in conds.local}]
<1>0. TypeOK /\ query \in Queries /\ info \in [Rel -> Info \cup {NoInfo}]
  BY DEF Safe, TypeOK
<1>1. query.conds \subseteq Cond /\ query.cols \subseteq Column
  BY <1>0, QueryTypes
<1>2. \A c \in Cond : Attrs[c] \in SUBSET Column
  BY CondAssumption
<1>3. /\ conds.remote = query.conds \cap ForeignExpr
      /\ conds.local = query.conds \ ForeignExpr
  BY DEF jdbc_classify_conditions
<1>4. new.attrs_used \subseteq Column
  <2>1. UNION {Attrs[c] : c \in conds.local} \subseteq Column
    BY <1>1, <1>2, <1>3
  <2> QED BY <1>1, <2>1
<1>5. new \in Info
  BY <1>1, <1>3, <1>4 DEF Info
<1>6. info' = [info EXCEPT !["base"] = new]
  BY DEF jdbcGetForeignRelSize
<1>7. /\ phase = "GetForeignRelSize" /\ phase' \in {"GetForeignPaths", "error"}
      /\ UNCHANGED <<query, stages, input_rel, paths, plan, fetched, answer>>
  BY DEF jdbcGetForeignRelSize
<1>8. /\ new.remote_conds = query.conds \cap ForeignExpr
      /\ new.local_conds = query.conds \ ForeignExpr
      /\ \A c \in new.local_conds : Attrs[c] \subseteq new.attrs_used
      /\ query.cols \subseteq new.attrs_used
  BY <1>3
<1> HIDE DEF new
<1>9. info'["base"] = new /\ \A r \in Rel : r # "base" => info'[r] = info[r]
  BY <1>0, <1>6 DEF Rel
<1>8x. TypeOK'
  BY <1>0, <1>5, <1>6, <1>7 DEF TypeOK, Rel
<1>11. NoPrivate' /\ AggregateRight'
  BY <1>7, <1>9, RelTypes DEF Safe, NoPrivate, AggregateRight, BaseRight, Rel
<1>12. BaseRight'
  BY <1>5, <1>7, <1>8, <1>9, NoInfoIsNone DEF BaseRight
<1>13. StagesRight'
  BY <1>7 DEF Safe, StagesRight
<1>14. PathsRight' /\ PlanRight' /\ ScanRight'
  BY <1>7 DEF Safe, PathsRight, PlanRight, ScanRight
<1> QED BY <1>8x, <1>11, <1>12, <1>13, <1>14 DEF Safe

LEMMA PathsSafe ==
  ASSUME Safe, jdbcGetForeignPaths
  PROVE  Safe'
<1> DEFINE base == [parent |-> "base", has_limit |-> FALSE]
<1>1. /\ phase = "GetForeignPaths" /\ phase' = "GetForeignUpperPaths"
      /\ paths' = paths \cup {base}
      /\ input_rel' = IF Has("join") THEN "join" ELSE "base"
      /\ UNCHANGED <<query, stages, info, plan, fetched, answer>>
  BY DEF jdbcGetForeignPaths
<1>2. TypeOK'
  <2>1. base \in Path /\ input_rel' \in Rel
    BY <1>1, RelTypes DEF Path
  <2> QED BY <1>1, <2>1 DEF Safe, TypeOK
<1>3. NoPrivate' /\ AggregateRight' /\ BaseRight'
  BY <1>1 DEF Safe, NoPrivate, AggregateRight, BaseRight
<1>4. StagesRight'
  BY <1>1 DEF Safe, StagesRight, Has
<1>5. PathsRight'
  <2>1. PathRight(base)'
    BY <1>1 DEF Safe, BaseRight, PathRight
  <2> QED BY <1>1, <2>1 DEF Safe, PathsRight
<1>6. PlanRight' /\ ScanRight'
  BY <1>1 DEF Safe, PlanRight, ScanRight
<1> QED BY <1>2, <1>3, <1>4, <1>5, <1>6 DEF Safe

(***************************************************************************)
(* Upper relations.                                                         *)
(***************************************************************************)
LEMMA GroupingSafe ==
  ASSUME Safe, phase = "GetForeignUpperPaths", info[input_rel] # NoInfo,
         "GROUP_AGG" \in stages, info["GROUP_AGG"] = NoInfo,
         jdbc_add_foreign_grouping_paths, UNCHANGED <<query, plan, fetched, answer>>
  PROVE  /\ info' \in [Rel -> Info \cup {NoInfo}] /\ paths' \subseteq Path
         /\ \A r \in Rel : r # "GROUP_AGG" => info'[r] = info[r]
         /\ AggregateRight' /\ \A path \in paths' : PathRight(path)'
<1> DEFINE ok == jdbc_foreign_grouping_ok(input_rel)
           path == [parent |-> "GROUP_AGG", has_limit |-> FALSE]
<1>0. info \in [Rel -> Info \cup {NoInfo}] /\ paths \subseteq Path /\ input_rel \in Rel
  BY DEF Safe, TypeOK
<1>1. input_rel = "base"
  <2>1. input_rel # "GROUP_AGG" /\ input_rel # "FINAL"
    BY DEF Safe, StagesRight
  <2> QED BY <1>0, <2>1 DEF Rel, Safe, NoPrivate
<1>2. "join" \notin query.clauses
  BY <1>1 DEF Safe, StagesRight
<1>3. CASE query.clauses \cap LocalGrouping # {} \/ ~Has("hasAggs")
  <2>1. info' = [info EXCEPT !["GROUP_AGG"] = UpperInfo(FALSE, NoInfo)] /\ paths' = paths
    BY <1>3 DEF jdbc_add_foreign_grouping_paths
  <2>2. info' \in [Rel -> Info \cup {NoInfo}]
    BY <1>0, <2>1, UpperInfoType
  <2>3. /\ info'["GROUP_AGG"] = UpperInfo(FALSE, NoInfo)
        /\ \A r \in Rel : r # "GROUP_AGG" => info'[r] = info[r]
    BY <1>0, <2>1, RelTypes
  <2>4. AggregateRight'
    BY <2>3, UpperInfoType DEF AggregateRight
  <2>5. \A p \in paths' : PathRight(p)'
    <3> SUFFICES ASSUME NEW p \in paths PROVE PathRight(p)'
      BY <2>1
    <3>1. PathRight(p) /\ p.parent = "base"
      BY DEF Safe, PathsRight, PathRight
    <3> QED BY <2>3, <3>1, RelTypes DEF PathRight
  <2> QED BY <1>0, <2>1, <2>2, <2>3, <2>4, <2>5
<1>4. CASE query.clauses \cap LocalGrouping = {} /\ Has("hasAggs")
  <2>1. /\ info' = [info EXCEPT !["GROUP_AGG"] = UpperInfo(ok, input_rel)]
        /\ paths' = paths \cup IF ok THEN {path} ELSE {}
    BY <1>4 DEF jdbc_add_foreign_grouping_paths
  <2>2. ok \in BOOLEAN
    BY DEF jdbc_foreign_grouping_ok
  <2>3. /\ UpperInfo(ok, input_rel) \in Info
        /\ UpperInfo(ok, input_rel).pushdown_safe = ok
        /\ UpperInfo(ok, input_rel).outerrel = "base"
        /\ UpperInfo(ok, input_rel).local_conds = {}
    BY <1>0, <1>1, <2>2, UpperInfoType
  <2>4. ok => info["base"].local_conds = {}
    BY <1>1 DEF jdbc_foreign_grouping_ok
  <2> HIDE DEF ok
  <2>5. info' \in [Rel -> Info \cup {NoInfo}]
    BY <1>0, <2>1, <2>3
  <2>6. /\ info'["GROUP_AGG"] = UpperInfo(ok, input_rel)
        /\ \A r \in Rel : r # "GROUP_AGG" => info'[r] = info[r]
    BY <1>0, <2>1, RelTypes
  <2>7. AggregatesAll(query)
    BY <1>2, <1>4 DEF AggregatesAll, Has
  <2>8. AggregateRight'
    BY <2>3, <2>4, <2>6, <2>7, RelTypes DEF AggregateRight
  <2>9. \A p \in paths : PathRight(p)'
    <3> SUFFICES ASSUME NEW p \in paths PROVE PathRight(p)'
      OBVIOUS
    <3>1. PathRight(p) /\ p.parent = "base"
      BY DEF Safe, PathsRight, PathRight
    <3> QED BY <2>6, <3>1, RelTypes DEF PathRight
  <2>10. ASSUME NEW p \in paths', p \notin paths PROVE PathRight(p)'
    <3>1. ok /\ p = path
      BY <2>1, <2>10
    <3>2. p.parent = "GROUP_AGG" /\ p.has_limit = FALSE
      BY <3>1
    <3>3. info'["GROUP_AGG"] # NoInfo /\ info'["GROUP_AGG"].pushdown_safe
      BY <2>3, <2>6, <3>1, NoInfoIsNone
    <3>4. info'[p.parent] # NoInfo
      BY <3>2, <3>3
    <3>5. ~p.has_limit
      BY <3>2
    <3> HIDE DEF path
    <3> QED BY <3>2, <3>3, <3>4, <3>5, Zenon DEF PathRight
  <2>11. paths' \subseteq Path
    <3>1. path \in Path
      BY RelTypes DEF Path
    <3> QED BY <1>0, <2>1, <2>2, <3>1
  <2> QED BY <2>1, <2>5, <2>6, <2>8, <2>9, <2>10, <2>11
<1> QED BY <1>3, <1>4

LEMMA FinalSafe ==
  ASSUME Safe, phase = "GetForeignUpperPaths", info[input_rel] # NoInfo,
         info[input_rel].pushdown_safe, "FINAL" \in stages, IsNext("FINAL"),
         jdbc_add_foreign_final_paths, UNCHANGED <<query, plan, fetched, answer>>
  PROVE  /\ info' \in [Rel -> Info \cup {NoInfo}] /\ paths' \subseteq Path
         /\ \A r \in Rel : r # "FINAL" => info'[r] = info[r]
         /\ \A path \in paths' : PathRight(path)'
<1> DEFINE push == CanPushLimit(input_rel)
           path == [parent |-> input_rel, has_limit |-> TRUE]
<1>0. info \in [Rel -> Info \cup {NoInfo}] /\ paths \subseteq Path /\ input_rel \in Rel
      /\ stages \subseteq DOMAIN StageOrder
  BY DEF Safe, TypeOK
<1>1. input_rel \in {"base", "GROUP_AGG"}
  <2>1. input_rel # "FINAL"
    BY DEF Safe, StagesRight
  <2> QED BY <1>0, <2>1 DEF Rel, Safe, NoPrivate
<1>2. stages = {"FINAL"}
  <2>1. \A s \in stages : StageOrder["FINAL"] <= StageOrder[s]
    BY DEF IsNext
  <2>2. \A s \in stages : s = "FINAL"
    BY <1>0, <2>1, RelTypes DEF StageOrder
  <2> QED BY <2>2
<1>3. CASE \/ query.command # "SELECT" \/ Has("rowMarks") \/ ~LimitNeeded(query)
           \/ Has("hasTargetSRFs")
  <2>1. info' = [info EXCEPT !["FINAL"] = UpperInfo(FALSE, NoInfo)] /\ paths' = paths
    BY <1>3 DEF jdbc_add_foreign_final_paths
  <2>2. info' \in [Rel -> Info \cup {NoInfo}]
    BY <1>0, <2>1, UpperInfoType
  <2>3. \A r \in Rel : r # "FINAL" => info'[r] = info[r]
    BY <1>0, <2>1
  <2>4. \A p \in paths' : PathRight(p)'
    <3> SUFFICES ASSUME NEW p \in paths PROVE PathRight(p)'
      BY <2>1
    <3>1. PathRight(p)
      BY DEF Safe, PathsRight
    <3> QED BY <2>3, <3>1, RelTypes DEF PathRight
  <2> QED BY <1>0, <2>1, <2>2, <2>3, <2>4
<1>4. CASE ~(\/ query.command # "SELECT" \/ Has("rowMarks") \/ ~LimitNeeded(query)
             \/ Has("hasTargetSRFs"))
  <2>1. /\ info' = [info EXCEPT !["FINAL"] = UpperInfo(push, input_rel)]
        /\ paths' = paths \cup IF push THEN {path} ELSE {}
    BY <1>1, <1>4 DEF jdbc_add_foreign_final_paths
  <2>2. push \in BOOLEAN
    BY DEF CanPushLimit
  <2>3. push => info[input_rel].local_conds = {}
    BY DEF CanPushLimit
  <2> HIDE DEF push
  <2>4. info' \in [Rel -> Info \cup {NoInfo}]
    BY <1>0, <2>1, <2>2, UpperInfoType
  <2>5. \A r \in Rel : r # "FINAL" => info'[r] = info[r]
    BY <1>0, <2>1
  <2>6. \A p \in paths : PathRight(p)'
    <3> SUFFICES ASSUME NEW p \in paths PROVE PathRight(p)'
      OBVIOUS
    <3>1. PathRight(p)
      BY DEF Safe, PathsRight
    <3> QED BY <2>5, <3>1, RelTypes DEF PathRight
  <2>7. ~HasLocalSteps(query)
    <3>1. CASE input_rel = "base"
      <4>1. "join" \notin query.clauses /\ UpperStages(query) = {"FINAL"}
        BY <1>2, <3>1 DEF Safe, StagesRight
      <4> QED BY <1>4, <4>1 DEF UpperStages, HasLocalSteps, LocalStep, LocalGrouping, Has
    <3>2. CASE input_rel = "GROUP_AGG"
      <4>1. UpperStages(query) \subseteq {"FINAL", "GROUP_AGG"}
        BY <1>2, <3>2 DEF Safe, StagesRight
      <4>2. AggregatesAll(query)
        BY <3>2 DEF Safe, AggregateRight
      <4> QED BY <1>4, <4>1, <4>2
              DEF UpperStages, HasLocalSteps, LocalStep, LocalGrouping, AggregatesAll, Has
    <3> QED BY <1>1, <3>1, <3>2
  <2>8. input_rel = "base" => "hasAggs" \notin query.clauses
    BY <1>2 DEF Safe, StagesRight, UpperStages
  <2>9. ASSUME NEW p \in paths', p \notin paths PROVE PathRight(p)'
    <3>1. push /\ p.parent = input_rel
      BY <2>1, <2>9
    <3>2. info'[input_rel] = info[input_rel]
      BY <1>0, <1>1, <2>5
    <3>3. LimitedHere(query)
      BY <1>4, <2>7 DEF LimitedHere
    <3>4. input_rel = "GROUP_AGG" => info["GROUP_AGG"].pushdown_safe
      OBVIOUS
    <3> QED BY <1>1, <2>3, <2>8, <3>1, <3>2, <3>3, <3>4 DEF PathRight
  <2>10. paths' \subseteq Path
    <3>1. path \in Path
      BY <1>0 DEF Path
    <3> QED BY <1>0, <2>1, <2>2, <3>1
  <2> QED BY <2>4, <2>5, <2>6, <2>9, <2>10
<1> QED BY <1>3, <1>4

LEMMA UpperPathsSafe ==
  ASSUME Safe, jdbcGetForeignUpperPaths
  PROVE  Safe'
<1>0. /\ phase = "GetForeignUpperPaths" /\ UNCHANGED <<query, plan, fetched, answer>>
      /\ TypeOK
  BY DEF jdbcGetForeignUpperPaths, Safe
<1>1. PICK stage \in stages :
        /\ IsNext(stage)
        /\ IF \/ info[input_rel] = NoInfo \/ ~info[input_rel].pushdown_safe
              \/ stage \notin {"GROUP_AGG", "FINAL"} \/ info[stage] # NoInfo
           THEN UNCHANGED <<info, paths>>
           ELSE IF stage = "GROUP_AGG" THEN jdbc_add_foreign_grouping_paths
           ELSE jdbc_add_foreign_final_paths
        /\ input_rel' = stage
        /\ stages' = stages \ {stage}
        /\ phase' = IF stage = "FINAL" THEN "GetForeignPlan" ELSE phase
  BY DEF jdbcGetForeignUpperPaths
<1>2. stage \in DOMAIN StageOrder /\ stage \in Rel
  BY <1>0, RelTypes DEF TypeOK
<1>3. /\ info' \in [Rel -> Info \cup {NoInfo}] /\ paths' \subseteq Path
      /\ \A r \in Rel : r \notin {"GROUP_AGG", "FINAL"} => info'[r] = info[r]
      /\ AggregateRight' /\ \A path \in paths' : PathRight(path)'
  <2>1. CASE UNCHANGED <<info, paths>>
    <3>1. AggregateRight' /\ \A path \in paths' : PathRight(path)'
      BY <1>0, <2>1 DEF Safe, AggregateRight, PathsRight, PathRight
    <3> QED BY <1>0, <2>1, <3>1 DEF TypeOK
  <2>2. CASE stage = "GROUP_AGG" /\ ~UNCHANGED <<info, paths>>
    <3>1. info[input_rel] # NoInfo /\ info["GROUP_AGG"] = NoInfo
          /\ jdbc_add_foreign_grouping_paths
      BY <1>1, <2>2
    <3> QED BY <1>0, <2>2, <3>1, GroupingSafe
  <2>3. CASE stage = "FINAL" /\ ~UNCHANGED <<info, paths>>
    <3>1. info[input_rel] # NoInfo /\ info[input_rel].pushdown_safe
          /\ jdbc_add_foreign_final_paths
      BY <1>1, <2>3
    <3>2. /\ info' \in [Rel -> Info \cup {NoInfo}] /\ paths' \subseteq Path
          /\ \A r \in Rel : r # "FINAL" => info'[r] = info[r]
          /\ \A path \in paths' : PathRight(path)'
      BY <1>0, <1>1, <2>3, <3>1, FinalSafe
    <3>3. AggregateRight'
      BY <1>0, <3>2, RelTypes DEF Safe, AggregateRight
    <3> QED BY <3>2, <3>3
  <2> QED BY <1>1, <2>1, <2>2, <2>3
<1>4. TypeOK'
  BY <1>0, <1>1, <1>2, <1>3 DEF TypeOK
<1>5. NoPrivate' /\ info'["base"] = info["base"]
  BY <1>3 DEF Safe, NoPrivate, Rel
<1>6. BaseRight'
  BY <1>0, <1>1, <1>5 DEF Safe, BaseRight
<1>7. StagesRight'
  <2>1. phase' = "GetForeignUpperPaths" => stage # "FINAL"
    BY <1>1
  <2>2. stage = "GROUP_AGG" => stages = UpperStages(query)
    BY <1>0 DEF Safe, StagesRight
  <2>3. "GROUP_AGG" \notin stages'
    <3> SUFFICES ASSUME "GROUP_AGG" \in stages, stage # "GROUP_AGG" PROVE FALSE
      BY <1>1
    <3>1. StageOrder[stage] <= StageOrder["GROUP_AGG"]
      BY <1>1 DEF IsNext
    <3> QED BY <1>2, <3>1, RelTypes DEF StageOrder
  <2>4. stage \notin {"base", "join"}
    BY <1>2, RelTypes
  <2> QED BY <1>0, <1>1, <2>1, <2>2, <2>3, <2>4 DEF StagesRight
<1>8. PathsRight' /\ PlanRight' /\ ScanRight'
  BY <1>0, <1>1, <1>3 DEF Safe, PathsRight, PlanRight, ScanRight
<1> QED BY <1>3, <1>4, <1>5, <1>6, <1>7, <1>8 DEF Safe

(***************************************************************************)
(* The plan and its execution.                                              *)
(***************************************************************************)
LEMMA SelectRight ==
  ASSUME Safe, phase = "GetForeignPlan", NEW path \in paths,
         RemoteSelect(path).where \cap Undeparsable = {},
         plan' = RemoteSelect(path), query' = query
  PROVE  plan' \in Plan /\ PlanRight'
<1> DEFINE select == RemoteSelect(path)
           scan == IF IsUpper(path.parent) THEN info[path.parent].outerrel ELSE path.parent
<1>1. PathRight(path) /\ path \in Path
  BY DEF Safe, PathsRight, TypeOK
<1>2. info["base"] \in Info /\ info[path.parent] \in Info
  <2>1. info["base"] # NoInfo /\ info[path.parent] # NoInfo
    BY <1>1 DEF Safe, BaseRight, PathRight
  <2> QED BY <1>1, <2>1, RelTypes DEF Safe, TypeOK, PathRight
<1>3. scan = "base"
  BY <1>1, <1>2 DEF Safe, AggregateRight, PathRight, IsUpper
<1>4. /\ select.parent = path.parent /\ select.aggs = IsUpper(path.parent)
      /\ select.columns = (IF IsUpper(path.parent) THEN {} ELSE info[path.parent].attrs_used)
      /\ select.where = info["base"].remote_conds
      /\ select.has_limit = path.has_limit
      /\ select.quals = info[path.parent].local_conds
  BY <1>3 DEF RemoteSelect, jdbc_deparse_target_list, jdbc_append_where_clause
<1>5. /\ info["base"].remote_conds \subseteq Cond
      /\ info[path.parent].local_conds \subseteq Cond
      /\ info[path.parent].attrs_used \subseteq Column
  BY <1>2 DEF Info
<1>6. select \in Plan
  <2>1. IsUpper(path.parent) \in BOOLEAN /\ path.has_limit \in BOOLEAN /\ path.parent \in Rel
    BY <1>1 DEF IsUpper, Path
  <2>2. select = [parent |-> path.parent, aggs |-> IsUpper(path.parent),
                  columns |-> select.columns, where |-> info["base"].remote_conds,
                  has_limit |-> path.has_limit, quals |-> info[path.parent].local_conds]
    BY <1>3, <1>4 DEF RemoteSelect, jdbc_deparse_target_list, jdbc_append_where_clause
  <2>3. select.columns \subseteq Column
    BY <1>4, <1>5
  <2> QED BY <1>5, <2>1, <2>2, <2>3 DEF Plan
<1>7. /\ info["base"].remote_conds = query.conds \cap ForeignExpr
      /\ info["base"].local_conds = query.conds \ ForeignExpr
  BY DEF Safe, BaseRight
<1>8. plan' = select /\ query' = query /\ select.where \cap Undeparsable = {}
  OBVIOUS
<1>9. CASE path.parent = "base"
  <2>1. ~select.aggs /\ select.quals = query.conds \ ForeignExpr
        /\ select.columns = info["base"].attrs_used
    BY <1>4, <1>7, <1>9 DEF IsUpper
  <2>2. /\ query.cols \subseteq select.columns
        /\ \A c \in select.quals : Attrs[c] \subseteq select.columns
    BY <1>7, <2>1 DEF Safe, BaseRight
  <2>3. select.has_limit => /\ select.quals = {} /\ LimitedHere(query)
                            /\ "hasAggs" \notin query.clauses
    BY <1>1, <1>4, <1>9 DEF PathRight
  <2> HIDE DEF select
  <2> QED BY <1>4, <1>6, <1>7, <1>8, <2>1, <2>2, <2>3 DEF PlanRight
<1>10. CASE path.parent = "GROUP_AGG"
  <2>1. select.aggs /\ select.quals = {}
    BY <1>1, <1>2, <1>4, <1>10 DEF IsUpper, Safe, AggregateRight, PathRight
  <2>2. AggregatesAll(query) /\ query.conds \ ForeignExpr = {}
    BY <1>1, <1>7, <1>10 DEF Safe, AggregateRight, PathRight
  <2>3. select.has_limit => LimitedHere(query)
    BY <1>1, <1>4 DEF PathRight
  <2> HIDE DEF select
  <2> QED BY <1>4, <1>6, <1>7, <1>8, <2>1, <2>2, <2>3 DEF PlanRight
<1> QED BY <1>1, <1>9, <1>10 DEF PathRight

LEMMA PlanSafe ==
  ASSUME Safe, jdbcGetForeignPlan
  PROVE  Safe'
<1>1. /\ phase = "GetForeignPlan" /\ phase' \in {"scan", "error"}
      /\ UNCHANGED <<query, stages, input_rel, info, paths, fetched, answer>>
      /\ plan' # plan => phase' = "scan"
      /\ phase' = "scan" => \E path \in paths :
           plan' = RemoteSelect(path) /\ RemoteSelect(path).where \cap Undeparsable = {}
  BY DEF jdbcGetForeignPlan
<1>2. plan' \in Plan \cup {NoInfo} /\ PlanRight' /\ (phase' = "scan" => plan' # NoInfo)
  <2>1. CASE phase' = "scan"
    <3>1. PICK path \in paths : /\ plan' = RemoteSelect(path)
                                /\ RemoteSelect(path).where \cap Undeparsable = {}
      BY <1>1, <2>1
    <3>2. plan' \in Plan /\ PlanRight'
      BY <1>1, <3>1, SelectRight
    <3> QED BY <3>2, NoInfoIsNone
  <2>2. CASE plan' = plan /\ phase' # "scan"
    BY <1>1, <2>2 DEF Safe, TypeOK, PlanRight
  <2> QED BY <1>1, <2>1, <2>2
<1>3. TypeOK'
  BY <1>1, <1>2 DEF Safe, TypeOK
<1>4. NoPrivate' /\ BaseRight' /\ AggregateRight' /\ StagesRight'
  BY <1>1 DEF Safe, NoPrivate, BaseRight, AggregateRight, StagesRight
<1>5. PathsRight'
  BY <1>1 DEF Safe, PathsRight, PathRight
<1>6. ScanRight'
  BY <1>1, <1>2 DEF ScanRight
<1> QED BY <1>2, <1>3, <1>4, <1>5, <1>6 DEF Safe

(* What is fetched without a limit: tuples of the rows of the shipped         *)
(* conditions.  With one: some of them.                                     *)
RemoteTuples ==
  LET S == Satisfying(plan.where, RemoteHolds)
  IN  IF plan.aggs THEN {S} ELSE {{r} : r \in S}

LEMMA FetchedType ==
  ASSUME NEW fetch \in RemoteResults
  PROVE  fetch \subseteq RemoteTuples /\ fetch \subseteq SUBSET Row
<1>1. fetch \subseteq RemoteTuples
  BY DEF RemoteResults, RemoteTuples, Limited
<1>2. Satisfying(plan.where, RemoteHolds) \subseteq Row
  BY DEF Satisfying
<1>3. RemoteTuples \subseteq SUBSET Row
  BY <1>2 DEF RemoteTuples
<1> QED BY <1>1, <1>3

LEMMA RemoteSafe ==
  ASSUME Safe, ExecuteRemotely
  PROVE  Safe'
<1>1. /\ phase = "scan" /\ phase' \in {"local", "error"}
      /\ UNCHANGED <<query, stages, input_rel, info, paths, plan, answer>>
      /\ phase' = "local" => plan.where \cap Malformed = {} /\ fetched' \in RemoteResults
      /\ phase' = "error" => fetched' = fetched
  BY DEF ExecuteRemotely
<1>2. fetched' \subseteq SUBSET Row
  BY <1>1, FetchedType DEF Safe, TypeOK
<1>3. TypeOK'
  BY <1>1, <1>2 DEF Safe, TypeOK
<1>4. NoPrivate' /\ BaseRight' /\ AggregateRight' /\ StagesRight' /\ PlanRight'
  BY <1>1 DEF Safe, NoPrivate, BaseRight, AggregateRight, StagesRight, PlanRight
<1>5. PathsRight'
  BY <1>1 DEF Safe, PathsRight, PathRight
<1>6. ScanRight'
  <2>1. RemoteResults' = RemoteResults \/ phase' = "error"
    BY <1>1 DEF RemoteResults
  <2> QED BY <1>1, <2>1 DEF Safe, ScanRight
<1> QED BY <1>3, <1>4, <1>5, <1>6 DEF Safe

LEMMA LocalSafe ==
  ASSUME Safe, ExecuteLocally
  PROVE  Safe'
<1>1. /\ phase = "local" /\ phase' = "done"
      /\ UNCHANGED <<query, stages, input_rel, info, paths, plan, fetched>>
      /\ answer' \in IF LimitedHere(query) /\ ~plan.has_limit
                     THEN Limited(query, ScanTuples) ELSE {ScanTuples}
  BY DEF ExecuteLocally
<1>2. answer' \subseteq SUBSET Row
  <2>1. fetched \subseteq SUBSET Row
    BY DEF Safe, TypeOK
  <2>2. \A S \in SUBSET Row : Tuples(query, S) \subseteq SUBSET Row
    BY DEF Tuples
  <2>3. {r \in UNION fetched : LocalQual(r)} \subseteq Row
    BY <2>1
  <2>4. ScanTuples \subseteq SUBSET Row
    BY <2>1, <2>2, <2>3 DEF ScanTuples
  <2>5. answer' \subseteq ScanTuples
    BY <1>1 DEF Limited
  <2> QED BY <2>4, <2>5
<1>3. TypeOK'
  BY <1>1, <1>2 DEF Safe, TypeOK
<1>4. NoPrivate' /\ BaseRight' /\ AggregateRight' /\ StagesRight' /\ PlanRight' /\ ScanRight'
  BY <1>1 DEF Safe, NoPrivate, BaseRight, AggregateRight, StagesRight, PlanRight, ScanRight
<1>5. PathsRight'
  BY <1>1 DEF Safe, PathsRight, PathRight
<1> QED BY <1>3, <1>4, <1>5 DEF Safe

LEMMA NextSafe ==
  ASSUME Safe, [Next]_vars
  PROVE  Safe'
<1>1. CASE jdbcGetForeignRelSize
  BY <1>1, RelSizeSafe
<1>2. CASE jdbcGetForeignPaths
  BY <1>2, PathsSafe
<1>3. CASE jdbcGetForeignUpperPaths
  BY <1>3, UpperPathsSafe
<1>4. CASE jdbcGetForeignPlan
  BY <1>4, PlanSafe
<1>5. CASE ExecuteRemotely
  BY <1>5, RemoteSafe
<1>6. CASE ExecuteLocally
  BY <1>6, LocalSafe
<1>7. CASE Ended \/ UNCHANGED vars
  <2>1. UNCHANGED vars
    BY <1>7 DEF Ended
  <2>2. TypeOK' /\ NoPrivate' /\ BaseRight' /\ AggregateRight' /\ StagesRight'
    BY <2>1 DEF Safe, vars, TypeOK, NoPrivate, BaseRight, AggregateRight, StagesRight
  <2>3. PathsRight' /\ PlanRight'
    BY <2>1 DEF Safe, vars, PathsRight, PathRight, PlanRight
  <2>4. RemoteResults' = RemoteResults
    BY <2>1 DEF vars, RemoteResults
  <2> QED BY <2>1, <2>2, <2>3, <2>4 DEF Safe, vars, ScanRight
<1> QED BY <1>1, <1>2, <1>3, <1>4, <1>5, <1>6, <1>7 DEF Next

(* Whatever the constants, the invariant of the planner callbacks and of the  *)
(* execution of the plan holds.                                             *)
THEOREM Safety == Spec => []Safe
<1>1. Safe /\ [Next]_vars => Safe'
  BY NextSafe
<1> QED BY InitSafe, <1>1, PTL DEF Spec

(* Every state of planning and execution is well typed: fdw_private, paths    *)
(* and the plan of jdbc_fdw.c.                                              *)
THEOREM TypeCorrect == Spec => []TypeOK
<1>1. Safe => TypeOK
  BY DEF Safe
<1> QED BY <1>1, Safety, PTL

(* jdbcGetForeignPlan puts a LIMIT or an aggregate above all conditions of    *)
(* the query, and loses none of them.                                       *)
THEOREM LimitsAndAggregatesAboveConds == Spec => []PushedAboveAllConds
<1>1. Safe => PushedAboveAllConds
  BY DEF Safe, PlanRight, PushedAboveAllConds
<1> QED BY <1>1, Safety, PTL

(***************************************************************************)
(* The answer.                                                              *)
(***************************************************************************)
LEMMA ShippedRows ==
  ASSUME ShipsFaithfully, Safe, phase = "local"
  PROVE  Satisfying(plan.where, RemoteHolds) = Satisfying(plan.where, Holds)
<1>1. plan # NoInfo /\ plan.where \cap Malformed = {}
  BY DEF Safe, ScanRight
<1>2. plan.where \subseteq ForeignExpr \ Undeparsable /\ plan.where \subseteq Cond
  BY <1>1 DEF Safe, PlanRight, TypeOK, Plan
<1>3. \A c \in plan.where : RemoteHolds[c] = Holds[c]
  BY <1>1, <1>2 DEF ShipsFaithfully
<1> QED BY <1>3 DEF Satisfying

LEMMA AggregateAnswer ==
  ASSUME ShipsFaithfully, Safe, ExecuteLocally, plan.aggs
  PROVE  answer' \in Answers(query)
<1> DEFINE S == Satisfying(query.conds, Holds)
<1>1. /\ phase = "local" /\ plan # NoInfo /\ fetched \in RemoteResults
      /\ answer' \in IF LimitedHere(query) /\ ~plan.has_limit
                     THEN Limited(query, ScanTuples) ELSE {ScanTuples}
  BY DEF ExecuteLocally, Safe, ScanRight
<1>2. /\ plan.where = query.conds /\ AggregatesAll(query)
      /\ plan.has_limit => LimitedHere(query)
  BY <1>1 DEF Safe, PlanRight
<1>3. Satisfying(plan.where, RemoteHolds) = S
  BY <1>1, <1>2, ShippedRows
<1>4. Answers(query) = IF LimitedHere(query) THEN Limited(query, {S}) ELSE {{S}}
  BY <1>2 DEF Answers, Tuples
<1>5. fetched \in IF plan.has_limit THEN Limited(query, {S}) ELSE {{S}}
  BY <1>1, <1>3 DEF RemoteResults
<1>6. ScanTuples = fetched
  BY DEF ScanTuples
<1> HIDE DEF S
<1> QED BY <1>1, <1>2, <1>4, <1>5, <1>6

LEMMA RowsAnswer ==
  ASSUME ShipsFaithfully, Safe, ExecuteLocally, ~plan.aggs
  PROVE  answer' \in Answers(query)
<1> DEFINE S == Satisfying(query.conds, Holds)
           W == Satisfying(plan.where, Holds)
           each(R) == {{r} : r \in R}
<1>1. /\ phase = "local" /\ plan # NoInfo /\ fetched \in RemoteResults
      /\ answer' \in IF LimitedHere(query) /\ ~plan.has_limit
                     THEN Limited(query, ScanTuples) ELSE {ScanTuples}
  BY DEF ExecuteLocally, Safe, ScanRight
<1>2. /\ plan.where \cup plan.quals = query.conds
      /\ query.cols \subseteq plan.columns
      /\ \A c \in plan.quals : Attrs[c] \subseteq plan.columns
      /\ plan.has_limit => plan.quals = {} /\ LimitedHere(query) /\ "hasAggs" \notin query.clauses
  BY <1>1 DEF Safe, PlanRight
<1>3. fetched \in IF plan.has_limit THEN Limited(query, each(W)) ELSE {each(W)}
  BY <1>1, ShippedRows DEF RemoteResults
<1>4. Answers(query) = IF LimitedHere(query) THEN Limited(query, Tuples(query, S))
                       ELSE {Tuples(query, S)}
  BY DEF Answers
<1>5. ScanTuples = Tuples(query, {r \in UNION fetched : LocalQual(r)})
  BY <1>2 DEF ScanTuples
<1>6. CASE plan.has_limit
  <2>1. W = S /\ \A R : Tuples(query, R) = each(R)
    BY <1>2, <1>6 DEF Tuples, AggregatesAll
  <2>2. fetched \in Limited(query, each(S)) /\ fetched \subseteq each(S)
    BY <1>3, <1>6, <2>1 DEF Limited
  <2>3. \A r : LocalQual(r)
    BY <1>2, <1>6 DEF LocalQual
  <2>4. ScanTuples = each(UNION fetched)
    BY <1>5, <2>1, <2>3
  <2>5. each(UNION fetched) = fetched
    <3>1. \A T \in fetched : \E r \in S : T = {r}
      BY <2>2
    <3>2. ASSUME NEW T \in fetched PROVE T \in each(UNION fetched)
      <4>1. PICK r \in S : T = {r}
        BY <3>1
      <4> QED BY <4>1
    <3>3. ASSUME NEW r \in UNION fetched PROVE {r} \in fetched
      <4>1. PICK T \in fetched : r \in T
        OBVIOUS
      <4>2. T = {r}
        BY <3>1, <4>1
      <4> QED BY <4>1, <4>2
    <3> QED BY <3>2, <3>3
  <2> QED BY <1>1, <1>2, <1>4, <1>6, <2>1, <2>2, <2>4, <2>5
<1>7. CASE ~plan.has_limit
  <2>1. fetched = each(W)
    BY <1>3, <1>7
  <2>2. UNION fetched = W
    BY <2>1
  <2>3. {r \in W : LocalQual(r)} = S
    BY <1>2 DEF LocalQual, Satisfying
  <2>4. ScanTuples = Tuples(query, S)
    BY <1>5, <2>2, <2>3
  <2> HIDE DEF S
  <2> QED BY <1>1, <1>4, <1>7, <2>4
<1> QED BY <1>6, <1>7

(* With whatever jdbc_fdw.c pushes down, and whichever of its paths the       *)
(* planner takes, a query has an answer it could have on a local table with *)
(* the same rows, if what is shipped means remotely what it means here.      *)
THEOREM RightAnswers == ASSUME ShipsFaithfully PROVE Spec => []AnswerIsRight
<1>1. Init => AnswerIsRight
  BY DEF Init, AnswerIsRight
<1>2. Safe /\ AnswerIsRight /\ [Next]_vars => AnswerIsRight'
  <2> SUFFICES ASSUME Safe, AnswerIsRight, [Next]_vars PROVE AnswerIsRight'
    OBVIOUS
  <2>1. CASE ExecuteLocally
    <3>1. answer' \in Answers(query)
      BY <2>1, AggregateAnswer, RowsAnswer
    <3> QED BY <2>1, <3>1 DEF ExecuteLocally, AnswerIsRight
  <2>2. CASE UNCHANGED vars \/ Ended
    BY <2>2 DEF vars, Ended, AnswerIsRight
  <2>3. CASE \/ jdbcGetForeignRelSize \/ jdbcGetForeignPaths \/ jdbcGetForeignUpperPaths
             \/ jdbcGetForeignPlan \/ ExecuteRemotely
    <3>1. phase' # "done"
      BY <2>3 DEF jdbcGetForeignRelSize, jdbcGetForeignPaths, jdbcGetForeignUpperPaths,
                  jdbcGetForeignPlan, ExecuteRemotely
    <3> QED BY <3>1 DEF AnswerIsRight
  <2> QED BY <2>1, <2>2, <2>3 DEF Next
<1> QED BY <1>1, <1>2, Safety, PTL DEF Spec

-----------------------------------------------------------------------------
(* Induction over the positions of a list.                                   *)
LEMMA SmallestIndex ==
  ASSUME NEW T, T \subseteq Nat, T # {}
  PROVE  \E x \in T : \A y \in T : x <= y
<1> DEFINE R == {p \in Nat \X Nat : p[1] < p[2]}
<1>1. IsWellFoundedOn(R, Nat)
  BY NatLessThanWellFounded DEF OpToRel
<1>2. \E x \in T : \A y \in T : <<y, x>> \notin R
  <2> HIDE DEF R
  <2> QED BY ONLY <1>1, WFMin, T \subseteq Nat, T # {}, Zenon
<1>3. PICK x \in T : \A y \in T : <<y, x>> \notin R
  BY ONLY <1>2, Zenon
<1>4. ASSUME NEW y \in T PROVE x <= y
  <2>1. x \in Nat /\ y \in Nat
    OBVIOUS
  <2>2. <<y, x>> \notin R
    BY <1>3
  <2> QED BY <2>1, <2>2
<1> QED BY <1>4

(* Induction up to n over a set.                                           *)
LEMMA Induction ==
  ASSUME NEW n \in Nat, NEW S, 0 \in S, \A i \in 0..(n - 1) : i \in S => i + 1 \in S
  PROVE  \A i \in 0..n : i \in S
<1> DEFINE T == (0..n) \ S
<1> SUFFICES ASSUME T # {} PROVE FALSE
  OBVIOUS
<1>1. \E x \in T : \A y \in T : x <= y
  <2>1. T \subseteq Nat
    OBVIOUS
  <2> HIDE DEF T
  <2> QED BY <2>1, SmallestIndex
<1> PICK x \in T : \A y \in T : x <= y
  BY <1>1
<1>2. x # 0 /\ x - 1 \in 0..(n - 1)
  OBVIOUS
<1>3. x - 1 \in S
  BY <1>1, <1>2
<1>4. (x - 1) + 1 \in S
  BY <1>2, <1>3
<1> QED BY <1>4

-----------------------------------------------------------------------------
(***************************************************************************)
(* The walker merges the collations of subexpressions one by one, keeping a *)
(* state; SQL looks at all of them together.                                *)
(***************************************************************************)
(* The collations that columns below the first n subexpressions have.        *)
ColumnCollations(states, n) ==
  {states[i].collation : i \in {j \in 1..n : states[j].state = "SAFE"}}

(* There is nothing among them that would have to be decided.                *)
Agree(states, n) ==
  /\ \A i \in 1..n : states[i].state # "UNSAFE"
  /\ \A c, d \in ColumnCollations(states, n) \ {DEFAULT_COLLATION_OID} : c = d

LEMMA DerivedIs ==
  ASSUME NEW colls, NEW c, c \in colls,
         \A d \in colls : d # DEFAULT_COLLATION_OID => d = c,
         c = DEFAULT_COLLATION_OID => colls \subseteq {DEFAULT_COLLATION_OID}
  PROVE  Derived(colls) = c
<1>1. CASE c = DEFAULT_COLLATION_OID
  BY <1>1 DEF Derived
<1>2. CASE c # DEFAULT_COLLATION_OID
  <2>1. ~(colls \subseteq {DEFAULT_COLLATION_OID})
    BY <1>2
  <2>2. (CHOOSE d \in colls : d # DEFAULT_COLLATION_OID) = c
    BY <1>2
  <2> QED BY <2>1, <2>2 DEF Derived
<1> QED BY <1>1, <1>2

(* The context after the first n subexpressions, for every n.                *)
LEMMA MergedDef ==
  ASSUME NEW states, Len(states) \in Nat
  PROVE  \E f : /\ f[0] = CollateNone
                /\ \A i \in 0..(Len(states) - 1) :
                     f[i + 1] = MergeCollation(f[i], states[i + 1])
                /\ InnerContext(states) = f[Len(states)]
<1> DEFINE N == Len(states)
           Defines(g, n) ==
             g = [i \in 0..n |-> IF i = 0 THEN CollateNone
                                 ELSE MergeCollation(g[i - 1], states[i])]
           D == {n \in Nat : \E g : Defines(g, n)}
<1>1. 0 \in D
  <2>1. Defines([i \in 0..0 |-> CollateNone], 0)
    OBVIOUS
  <2> QED BY <2>1
<1>2. ASSUME NEW n \in 0..(N - 1), n \in D PROVE n + 1 \in D
  <2>1. PICK g : Defines(g, n)
    BY <1>2
  <2> DEFINE h == [i \in 0..(n + 1) |->
                     IF i = n + 1 THEN MergeCollation(g[n], states[i]) ELSE g[i]]
  <2>2. ASSUME NEW i \in 0..(n + 1)
        PROVE  h[i] = IF i = 0 THEN CollateNone ELSE MergeCollation(h[i - 1], states[i])
    <3>1. CASE i = n + 1
      <4>1. i # 0 /\ h[i - 1] = g[n] /\ h[i] = MergeCollation(g[n], states[i])
        BY <3>1
      <4> QED BY <4>1
    <3>2. CASE i # n + 1
      <4>1. i \in 0..n /\ h[i] = g[i] /\ (i # 0 => h[i - 1] = g[i - 1])
        BY <3>2
      <4>2. g[i] = IF i = 0 THEN CollateNone ELSE MergeCollation(g[i - 1], states[i])
        BY <2>1, <4>1
      <4> QED BY <4>1, <4>2
    <3> QED BY <3>1, <3>2
  <2>3. Defines(h, n + 1)
    BY <2>2
  <2>4. n + 1 \in Nat
    OBVIOUS
  <2> QED BY <2>3, <2>4
<1>3. N \in D
  <2>1. N \in Nat /\ N \in 0..N
    OBVIOUS
  <2> HIDE DEF D, N
  <2> QED BY <1>1, <1>2, <2>1, Induction
<1> DEFINE f == CHOOSE g : Defines(g, N)
<1>4. Defines(f, N)
  BY <1>3
<1>5. InnerContext(states) = f[N]
  BY DEF InnerContext
<1>6. f[0] = CollateNone
  <2>1. 0 \in 0..N
    OBVIOUS
  <2> QED BY <1>4, <2>1
<1>7. ASSUME NEW i \in 0..(N - 1)
      PROVE  f[i + 1] = MergeCollation(f[i], states[i + 1])
  <2>1. PICK j \in 0..N : j = i + 1 /\ j # 0 /\ j - 1 = i
    OBVIOUS
  <2>2. f[j] = IF j = 0 THEN CollateNone ELSE MergeCollation(f[j - 1], states[j])
    BY <1>4, <2>1
  <2> QED BY <2>1, <2>2
<1> HIDE DEF f, D
<1> QED BY <1>5, <1>6, <1>7

(* What the context says of the first n subexpressions: that they are of no  *)
(* collation, that they have the one SQL derives, or that they do not agree. *)
Says(context, states, n) ==
  LET colls == ColumnCollations(states, n)
  IN  \/ Agree(states, n) /\ colls = {} /\ context = CollateNone
      \/ Agree(states, n) /\ colls # {} /\ context = SafeCollation(Derived(colls))
      \/ ~Agree(states, n) /\ context.state = "UNSAFE"

LEMMA MergeOne ==
  ASSUME NEW C, NEW states \in Seq(CollationState(C)), NEW n \in 0..(Len(states) - 1),
         NEW context, Says(context, states, n)
  PROVE  Says(MergeCollation(context, states[n + 1]), states, n + 1)
<1> DEFINE inner == states[n + 1]
           old == ColumnCollations(states, n)
           new == ColumnCollations(states, n + 1)
           merged == MergeCollation(context, inner)
<1>1. /\ 1..(n + 1) = 1..n \cup {n + 1} /\ 1..(n + 1) \subseteq DOMAIN states
      /\ inner \in CollationState(C) /\ n + 1 \in DOMAIN states
  OBVIOUS
<1>2. inner.state \in {"NONE", "SAFE", "UNSAFE"}
  BY <1>1 DEF CollationState
<1>3. new = IF inner.state = "SAFE" THEN old \cup {inner.collation} ELSE old
  BY <1>1 DEF ColumnCollations
<1>4. Agree(states, n + 1) <=>
        /\ Agree(states, n) /\ inner.state # "UNSAFE"
        /\ \A c, d \in new \ {DEFAULT_COLLATION_OID} : c = d
  <2>1. old \subseteq new
    BY <1>3
  <2> HIDE DEF old, new
  <2> QED BY <1>1, <2>1 DEF Agree, old, new
<1> HIDE DEF inner, old, new
<1> SUFFICES Says(merged, states, n + 1)
  BY DEF inner
<1>5. CASE inner.state = "UNSAFE"
  <2>1. merged.state = "UNSAFE"
    BY <1>5 DEF MergeCollation, Rank, Says, CollateNone, SafeCollation
  <2> QED BY <1>4, <1>5, <2>1 DEF Says
<1>6. CASE ~Agree(states, n)
  <2>1. context.state = "UNSAFE"
    BY <1>6 DEF Says
  <2>2. merged.state = "UNSAFE"
    BY <1>2, <2>1 DEF MergeCollation, Rank
  <2> QED BY <1>4, <1>6, <2>2 DEF Says
<1>7. CASE Agree(states, n) /\ inner.state = "NONE"
  <2>1. new = old /\ Agree(states, n + 1)
    BY <1>3, <1>4, <1>7 DEF Agree, old
  <2>2. merged = context
    BY <1>7 DEF MergeCollation, Rank, Says, CollateNone, SafeCollation
  <2> QED BY <1>7, <2>1, <2>2 DEF Says, old, new
<1>8. CASE Agree(states, n) /\ inner.state = "SAFE"
  <2> DEFINE c == inner.collation
             d == Derived(old)
  <2>1. inner = SafeCollation(c)
    BY <1>1, <1>8 DEF CollationState, SafeCollation
  <2>2. c \in new /\ new = old \cup {c}
    BY <1>3, <1>8
  <2>3. CASE old = {}
    <3>1. context = CollateNone
      BY <1>8, <2>3 DEF Says, old
    <3>2. merged = inner
      <4>1. Rank[inner.state] = 1 /\ Rank[context.state] = 0
        BY <1>8, <3>1 DEF Rank, CollateNone
      <4> HIDE DEF c, d
      <4> QED BY <4>1 DEF MergeCollation
    <3>3. Derived(new) = c
      <4>1. c \in new /\ \A e \in new : e = c
        BY <2>2, <2>3
      <4>2. c = DEFAULT_COLLATION_OID => new \subseteq {DEFAULT_COLLATION_OID}
        BY <4>1
      <4> HIDE DEF c, d
      <4> QED BY <4>1, <4>2, DerivedIs
    <3>4. Agree(states, n + 1)
      BY <1>4, <1>8, <2>2, <2>3
    <3> QED BY <2>1, <2>2, <3>2, <3>3, <3>4 DEF Says, new
  <2>4. CASE old # {}
    <3>1. context = SafeCollation(d)
      BY <1>8, <2>4 DEF Says, old
    <3>2. /\ d \in old /\ \A e \in old : e # DEFAULT_COLLATION_OID => e = d
          /\ d = DEFAULT_COLLATION_OID => old \subseteq {DEFAULT_COLLATION_OID}
      <4>1. CASE old \subseteq {DEFAULT_COLLATION_OID}
        BY <2>4, <4>1 DEF Derived
      <4>2. CASE ~(old \subseteq {DEFAULT_COLLATION_OID})
        <5>1. d \in old /\ d # DEFAULT_COLLATION_OID
          BY <4>2 DEF Derived
        <5>2. \A e, g \in old \ {DEFAULT_COLLATION_OID} : e = g
          BY <1>8 DEF Agree, old
        <5> HIDE DEF d
        <5> QED BY <5>1, <5>2
      <4> QED BY <4>1, <4>2
    <3> HIDE DEF c, d
    <3>3. CASE c = d \/ c = DEFAULT_COLLATION_OID
      <4>1. merged = context
        BY <2>1, <3>1, <3>3 DEF MergeCollation, Rank, SafeCollation
      <4>2. Derived(new) = d
        BY <2>2, <3>2, <3>3, DerivedIs
      <4>3. Agree(states, n + 1)
        BY <1>4, <1>8, <2>2, <3>2, <3>3
      <4> QED BY <2>2, <3>1, <4>1, <4>2, <4>3 DEF Says, new
    <3>4. CASE c # d /\ c # DEFAULT_COLLATION_OID /\ d = DEFAULT_COLLATION_OID
      <4>1. merged = inner
        BY <2>1, <3>1, <3>4 DEF MergeCollation, Rank, SafeCollation
      <4>2. Derived(new) = c
        BY <2>2, <3>2, <3>4, DerivedIs
      <4>3. Agree(states, n + 1)
        BY <1>4, <1>8, <2>2, <3>2, <3>4
      <4> QED BY <2>1, <2>2, <4>1, <4>2, <4>3 DEF Says, new
    <3>5. CASE c # d /\ c # DEFAULT_COLLATION_OID /\ d # DEFAULT_COLLATION_OID
      <4>1. merged.state = "UNSAFE"
        BY <2>1, <3>1, <3>5 DEF MergeCollation, Rank, SafeCollation
      <4>2. ~Agree(states, n + 1)
        BY <1>4, <2>2, <3>2, <3>5
      <4> QED BY <4>1, <4>2 DEF Says
    <3> QED BY <3>3, <3>4, <3>5
  <2> QED BY <2>3, <2>4
<1> QED BY <1>2, <1>5, <1>6, <1>7, <1>8

(* The input collation of a function, an operator or an aggregate is accepted *)
(* exactly if nothing below it has an unsafe collation, something has the     *)
(* collation of a column, these do not contradict each other, and it is the   *)
(* one that SQL derives from them, which is what the server will use.  The    *)
(* order in which the walker comes by them is no matter.                      *)
THEOREM InputCollationDerived ==
  ASSUME NEW C, NEW states \in Seq(CollationState(C)), NEW input, input # InvalidOid
  PROVE  LET colls == ColumnCollations(states, Len(states))
         IN  InputAccepted(input, InnerContext(states)) <=>
               Agree(states, Len(states)) /\ colls # {} /\ Derived(colls) = input
<1> DEFINE N == Len(states)
<1>1. N \in Nat
  OBVIOUS
<1>2. PICK f : /\ f[0] = CollateNone
               /\ \A i \in 0..(N - 1) : f[i + 1] = MergeCollation(f[i], states[i + 1])
               /\ InnerContext(states) = f[N]
  BY <1>1, MergedDef
<1>3. Says(f[N], states, N)
  <2> DEFINE S == {i \in Nat : Says(f[i], states, i)}
  <2>1. 0 \in S
    BY <1>2 DEF Says, Agree, ColumnCollations
  <2>2. ASSUME NEW i \in 0..(N - 1), i \in S PROVE i + 1 \in S
    <3>1. Says(MergeCollation(f[i], states[i + 1]), states, i + 1)
      BY <2>2, MergeOne
    <3> QED BY <1>2, <3>1
  <2>3. N \in 0..N
    BY <1>1
  <2>4. \A i \in 0..N : i \in S
    <3> HIDE DEF S, N
    <3> QED BY <1>1, <2>1, <2>2, Induction
  <2> QED BY <2>3, <2>4
<1>4. SafeCollation(input).state = "SAFE" /\ CollateNone # SafeCollation(input)
  BY DEF SafeCollation, CollateNone
<1>5. \A c : SafeCollation(c) = SafeCollation(input) <=> c = input
  BY DEF SafeCollation
<1> HIDE DEF N
<1> QED BY <1>2, <1>3, <1>4, <1>5 DEF Says, InputAccepted, N
=============================================================================
