------------------------ MODULE ForeignModify_proofs ------------------------
(***************************************************************************)
(* Theorems about ForeignModify, for every number of columns, every set of *)
(* dropped and of key columns, every table and every set of values.        *)
(***************************************************************************)
EXTENDS ForeignModify, TLAPS

(* The loop of PlanForeignModify over the attributes: a list of columns is   *)
(* in the order of the attributes and has the columns wanted, up to the one  *)
(* the loop has come to.                                                     *)
Increasing(s) == \A m, n \in DOMAIN s : m < n => s[m] < s[n]
Lists(s, C) == Increasing(s) /\ \A c \in Column : c \in C <=> \E n \in DOMAIN s : s[n] = c

CondAttrs == IF stmt.op = "INSERT" THEN {} ELSE rel.keys
UpTo == IF pc = "plan" THEN att - 1 ELSE NAtts

PlanInv ==
  pc # "idle" =>
    /\ Lists(sql.sets, {c \in TargetAttrs : c <= UpTo})
    /\ Lists(sql.wheres, {c \in CondAttrs : c <= UpTo})

(* The loops of the executor: the parameters bound so far are those meant,   *)
(* and in the second loop the WHERE columns bound are the keys passed.       *)
Below(C, a) == {c \in C : c < a}
FirstColumns(s, b, C) ==
  b \in 0..Len(s) /\ \A c \in Column : c \in C <=> \E n \in 1..b : s[n] = c

BindInv ==
  /\ pc # "bind" => DOMAIN params = {}
  /\ pc = "bind" =>
       /\ DOMAIN params = 1..bindnum
       /\ \A p \in 1..bindnum : params[p] = Meant(p)
       /\ bindnum < Len(sql.sets) => att = 1
       /\ stmt.op = "INSERT" => bindnum <= Len(sql.sets)
       /\ stmt.op # "INSERT" /\ bindnum >= Len(sql.sets) =>
            FirstColumns(sql.wheres, bindnum - Len(sql.sets), Below(CondAttrs, att))

(* The types, without the bound of bindnum, which the loops keep.            *)
Types ==
  /\ rel \in [dropped : SUBSET Column, keys : SUBSET Column]
  /\ remote \in [RowId -> Row \cup {Absent}]
  /\ pc \in {"idle", "plan", "run", "bind"}
  /\ stmt \in [op : {"INSERT", "UPDATE", "DELETE"}, cols : SUBSET Column]
  /\ sql \in [sets : Seq(Column), wheres : Seq(Column)]
  /\ DOMAIN scan \subseteq RowId /\ \A id \in DOMAIN scan : scan[id] \in Row
  /\ cur \in RowId \cup {Nothing}
  /\ slot \in Row /\ planSlot \in Row
  /\ att \in 1..NAtts + 1
  /\ bindnum \in Nat
  /\ \A p \in DOMAIN params : params[p] \in Datum
  /\ is_prepared \in BOOLEAN
  /\ pc \in {"idle", "plan"} => bindnum = 0
  /\ pc = "run" => bindnum <= NPlaceholders

ModifyInv == Types /\ PlanInv /\ BindInv
-----------------------------------------------------------------------------
(* One more iteration of a loop that appends the columns wanted.             *)
LEMMA AppendLists ==
  ASSUME NEW s \in Seq(Column), NEW C, NEW a \in Column,
         Lists(s, {c \in C : c <= a - 1})
  PROVE  /\ AppendIf(s, a, a \in C) \in Seq(Column)
         /\ Len(AppendIf(s, a, a \in C)) >= Len(s)
         /\ Lists(AppendIf(s, a, a \in C), {c \in C : c <= a})
<1> USE NAttsAssumption DEF Column
<1>1. CASE a \notin C
  BY <1>1 DEF AppendIf, Lists, Increasing
<1>2. CASE a \in C
  <2> DEFINE t == Append(s, a)
  <2>1. t \in Seq(Column) /\ Len(t) = Len(s) + 1 /\ AppendIf(s, a, a \in C) = t
    BY <1>2 DEF AppendIf
  <2>2. \A n \in DOMAIN s : t[n] = s[n] /\ s[n] \in Column /\ s[n] <= a - 1
    BY DEF Lists
  <2>3. t[Len(s) + 1] = a /\ DOMAIN t = DOMAIN s \cup {Len(s) + 1} /\ DOMAIN s = 1..Len(s)
    OBVIOUS
  <2> HIDE DEF t
  <2>4. Increasing(t)
    BY <2>2, <2>3 DEF Lists, Increasing
  <2>5. ASSUME NEW c \in Column PROVE c \in {x \in C : x <= a} <=> \E n \in DOMAIN t : t[n] = c
    BY <1>2, <2>2, <2>3 DEF Lists
  <2>6. Lists(t, {c \in C : c <= a})
    BY <2>4, <2>5 DEF Lists
  <2>7. Len(t) >= Len(s)
    BY <2>1
  <2> QED
    BY <2>1, <2>6, <2>7, Zenon
<1> QED
  BY <1>1, <1>2

(* The second loop of the executor meets the key columns in the order in     *)
(* which the WHERE clause has them.                                          *)
LEMMA NextColumn ==
  ASSUME NEW s \in Seq(Column), NEW C \in SUBSET Column, Lists(s, C),
         NEW a \in Column, NEW b \in Nat, FirstColumns(s, b, Below(C, a))
  PROVE  /\ a \in C => b + 1 \in DOMAIN s /\ s[b + 1] = a
                       /\ FirstColumns(s, b + 1, Below(C, a + 1))
         /\ a \notin C => FirstColumns(s, b, Below(C, a + 1))
<1> USE NAttsAssumption DEF Column
<1>1. DOMAIN s = 1..Len(s) /\ Len(s) \in Nat /\ b \in 0..Len(s)
  BY DEF FirstColumns, Below
<1>2. \A n \in DOMAIN s : s[n] \in C /\ s[n] \in Int
  BY <1>1 DEF Lists
<1>3. \A n \in 1..b : s[n] < a
  BY <1>1, <1>2 DEF FirstColumns, Below
<1>4. ASSUME a \in C
      PROVE  b + 1 \in DOMAIN s /\ s[b + 1] = a
  <2>1. PICK n \in DOMAIN s : s[n] = a
    BY <1>4 DEF Lists
  <2>2. n > b
    BY <1>1, <1>3, <2>1
  <2>3. b + 1 \in DOMAIN s
    BY <1>1, <2>2
  <2>4. ~(s[b + 1] < a)
    <3> SUFFICES ASSUME s[b + 1] < a PROVE FALSE
      OBVIOUS
    <3>1. PICK m \in 1..b : s[m] = s[b + 1]
      BY <1>2, <2>3 DEF FirstColumns, Below
    <3>2. m \in DOMAIN s /\ m < b + 1
      BY <1>1, <3>1
    <3>3. s[m] < s[b + 1]
      BY <2>3, <3>2 DEF Lists, Increasing
    <3> QED
      BY <1>2, <2>3, <3>1, <3>3
  <2>5. n = b + 1
    <3>1. b + 1 < n => s[b + 1] < s[n]
      BY <2>1, <2>3, Zenon DEF Lists, Increasing
    <3>2. n \in Nat
      BY <2>1
    <3> QED
      BY <2>1, <2>2, <2>4, <3>1, <3>2
  <2> QED
    BY <2>1, <2>3, <2>5
<1>5. ASSUME a \in C PROVE FirstColumns(s, b + 1, Below(C, a + 1))
  <2>1. b + 1 \in 0..Len(s)
    BY <1>1, <1>4, <1>5
  <2>2. ASSUME NEW c \in Column
        PROVE  c \in Below(C, a + 1) <=> \E n \in 1..b + 1 : s[n] = c
    <3>1. c \in Int /\ a \in Int /\ (c < a + 1 <=> c < a \/ c = a)
      OBVIOUS
    <3>2. c \in Below(C, a + 1) <=> c \in Below(C, a) \/ c = a
      BY <1>5, <3>1 DEF Below
    <3>3. \A n : n \in 1..b + 1 <=> n \in 1..b \/ n = b + 1
      OBVIOUS
    <3>4. c \in Below(C, a) <=> \E n \in 1..b : s[n] = c
      BY Zenon DEF FirstColumns
    <3>5. s[b + 1] = a
      BY <1>4, <1>5
    <3> QED
      BY <3>2, <3>3, <3>4, <3>5, Zenon
  <2> QED
    BY <2>1, <2>2 DEF FirstColumns
<1>6. ASSUME a \notin C PROVE FirstColumns(s, b, Below(C, a + 1))
  <2>1. Below(C, a + 1) = Below(C, a)
    <3>1. \A c \in C : c < a + 1 <=> c < a \/ c = a
      OBVIOUS
    <3> QED
      BY <1>6, <3>1, Zenon DEF Below
  <2> QED
    BY <2>1, Zenon
<1> QED
  BY <1>4, <1>5, <1>6

(* At its end it has met all of them.                                        *)
LEMMA AllColumns ==
  ASSUME NEW s \in Seq(Column), NEW C \in SUBSET Column, Lists(s, C),
         NEW b \in Nat, FirstColumns(s, b, Below(C, NAtts + 1))
  PROVE  b = Len(s)
<1>0. \A c \in Column : c \in Nat /\ c < NAtts + 1
  BY NAttsAssumption DEF Column
<1>1. Len(s) \in Nat /\ b <= Len(s)
  BY DEF FirstColumns, Below
<1>2. ASSUME b < Len(s) PROVE FALSE
  <2>1. 1 <= b + 1 /\ b + 1 <= Len(s) /\ b + 1 \in Nat
    BY <1>1, <1>2
  <2>2. b + 1 \in DOMAIN s /\ s[b + 1] \in Column
    BY <2>1
  <2>3. s[b + 1] \in Below(C, NAtts + 1)
    <3>1. s[b + 1] \in C
      BY <2>2, Zenon DEF Lists
    <3> QED
      BY <1>0, <2>2, <3>1 DEF Below
  <2>4. PICK m \in 1..b : s[m] = s[b + 1]
    <3>1. \A c \in Column : c \in Below(C, NAtts + 1) => \E n \in 1..b : s[n] = c
      BY Zenon DEF FirstColumns
    <3> QED
      BY <2>2, <2>3, <3>1, Zenon
  <2>5. m \in Nat /\ 1 <= m /\ m <= Len(s) /\ m < b + 1
    <3>1. m \in Nat /\ 1 <= m /\ m <= b
      BY <2>4
    <3> QED
      BY <1>1, <3>1
  <2>6. m \in DOMAIN s
    BY <2>5
  <2>7. s[m] < s[b + 1]
    BY <2>2, <2>5, <2>6, Zenon DEF Lists, Increasing
  <2> QED
    BY <1>0, <2>2, <2>4, <2>7
<1> QED
  BY <1>1, <1>2

LEMMA Prefix == ASSUME NEW m \in Nat, NEW n \in Nat PROVE 1..m \subseteq 1..(m + n)
OBVIOUS

LEMMA MeantKey ==
  ASSUME NEW p \in Nat, NEW n \in Nat, Len(sql.sets) \in Nat, p = Len(sql.sets) + n, n > 0
  PROVE  Meant(p) = planSlot[sql.wheres[n]]
BY DEF Meant
-----------------------------------------------------------------------------
LEMMA ModifyInvInductive == Spec => []ModifyInv
<1>1. Init => ModifyInv
  <2> SUFFICES ASSUME Init PROVE ModifyInv
    OBVIOUS
  <2>1. NullRow \in Row
    BY DEF NullRow, Row, Datum
  <2>2. rel \in [dropped : SUBSET Column, keys : SUBSET Column]
    BY DEF Init
  <2>3. remote \in [RowId -> Row \cup {Absent}]
    BY DEF Init, LiveRow
  <2>4. /\ sql \in [sets : Seq(Column), wheres : Seq(Column)]
        /\ stmt \in [op : {"INSERT", "UPDATE", "DELETE"}, cols : SUBSET Column]
    <3>1. <<>> \in Seq(Column)
      OBVIOUS
    <3> QED
      BY <3>1 DEF Init
  <2>5. DOMAIN scan = {} /\ DOMAIN params = {} /\ att \in 1..NAtts + 1
    BY NAttsAssumption DEF Init, NoParams
  <2>6. Types
    BY <2>1, <2>2, <2>3, <2>4, <2>5 DEF Init, Types
  <2> QED
    BY <2>5, <2>6 DEF Init, ModifyInv, PlanInv, BindInv
<1>2. ModifyInv /\ [Next]_vars => ModifyInv'
  <2> SUFFICES ASSUME ModifyInv, [Next]_vars PROVE ModifyInv'
    OBVIOUS
  <2> USE DEF ModifyInv
  <2>t. /\ NullRow \in Row
        /\ sql.sets \in Seq(Column) /\ sql.wheres \in Seq(Column)
        /\ Len(sql.sets) \in Nat /\ Len(sql.wheres) \in Nat
    BY DEF NullRow, Row, Datum, Types
  <2>1. CASE StartStatement
    <3>1. PICK op \in {"INSERT", "UPDATE", "DELETE"}, cols \in SUBSET Live :
            stmt' = [op |-> op, cols |-> cols]
      BY <2>1 DEF StartStatement
    <3>2. Types'
      BY <2>1, <3>1, NAttsAssumption DEF StartStatement, Types, Live
    <3>3. PlanInv'
      BY <2>1, NAttsAssumption DEF StartStatement, PlanInv, UpTo, Lists, Increasing, Column
    <3>4. BindInv'
      BY <2>1 DEF StartStatement, BindInv
    <3> QED
      BY <3>2, <3>3, <3>4
  <2>2. CASE PlanColumn
    <3>1. att \in Column /\ att \in Int
      BY <2>2, NAttsAssumption DEF PlanColumn, Types, Column
    <3>2. Lists(sql.sets, {c \in TargetAttrs : c <= att - 1})
          /\ Lists(sql.wheres, {c \in CondAttrs : c <= att - 1})
      BY <2>2 DEF PlanColumn, PlanInv, UpTo
    <3>3. att \in CondAttrs <=> att \in rel.keys /\ stmt.op # "INSERT"
      BY DEF CondAttrs
    <3>4. /\ sql' = [sets   |-> AppendIf(sql.sets, att, att \in TargetAttrs),
                     wheres |-> AppendIf(sql.wheres, att, att \in CondAttrs)]
          /\ att' = att + 1 /\ pc = "plan"
          /\ UNCHANGED <<rel, remote, pc, stmt, scan, cur, slot, planSlot, bindnum, params, is_prepared>>
      BY <2>2, <3>3 DEF PlanColumn
    <3>5. /\ sql'.sets \in Seq(Column) /\ sql'.wheres \in Seq(Column)
          /\ Lists(sql'.sets, {c \in TargetAttrs : c <= att})
          /\ Lists(sql'.wheres, {c \in CondAttrs : c <= att})
      BY <2>t, <3>1, <3>2, <3>4, AppendLists
    <3>6. TargetAttrs' = TargetAttrs /\ CondAttrs' = CondAttrs /\ UpTo' = att
      BY <3>1, <3>4 DEF TargetAttrs, CondAttrs, UpTo, Live
    <3>7. PlanInv'
      BY <3>5, <3>6 DEF PlanInv
    <3>8. sql' \in [sets : Seq(Column), wheres : Seq(Column)] /\ att' \in 1..NAtts + 1
      <4>1. sql' \in [sets : Seq(Column), wheres : Seq(Column)]
        BY <3>4, <3>5
      <4>2. att' \in 1..NAtts + 1
        BY <3>1, <3>4, NAttsAssumption DEF Column
      <4> QED
        BY <4>1, <4>2
    <3>9. Types'
      BY <3>4, <3>8 DEF Types
    <3> QED
      BY <3>4, <3>7, <3>9 DEF BindInv
  <2>3. CASE BeginForeignModify
    <3>1. PICK S \in SUBSET Rows : scan' = [id \in S |-> remote[id]]
      BY <2>3 DEF BeginForeignModify
    <3>2. bindnum <= NPlaceholders
      BY <2>t, <2>3 DEF BeginForeignModify, Types, NPlaceholders
    <3>3. DOMAIN scan' \subseteq RowId /\ \A id \in DOMAIN scan' : scan'[id] \in Row
      BY <3>1 DEF Rows, Types
    <3>4. Types'
      BY <2>3, <3>2, <3>3 DEF BeginForeignModify, Types, NPlaceholders
    <3>5. UpTo' = UpTo /\ TargetAttrs' = TargetAttrs /\ CondAttrs' = CondAttrs
      BY <2>3, NAttsAssumption DEF BeginForeignModify, UpTo, TargetAttrs, CondAttrs, Live
    <3> QED
      BY <2>3, <3>4, <3>5 DEF BeginForeignModify, PlanInv, BindInv
  \* A call is entered: from then on its parameters are bound.
  <2>e. ASSUME pc = "run", EnterExec, slot' \in Row, planSlot' \in Row, cur' \in RowId,
               DOMAIN scan' \subseteq RowId, \A id \in DOMAIN scan' : scan'[id] \in Row
        PROVE  ModifyInv'
    <3>1. DOMAIN params' = {} /\ \A p \in DOMAIN params' : params'[p] \in Datum
      BY <2>e DEF EnterExec, BindInv, NoParams
    <3>2. Types'
      BY <2>e, <3>1, NAttsAssumption DEF EnterExec, Types
    <3>3. UpTo' = UpTo /\ TargetAttrs' = TargetAttrs /\ CondAttrs' = CondAttrs
      BY <2>e DEF EnterExec, UpTo, TargetAttrs, CondAttrs, Live
    <3>4. PlanInv'
      BY <2>e, <3>3 DEF EnterExec, PlanInv
    <3>5. \A C : FirstColumns(sql.wheres, 0, Below(C, 1))
      BY <2>t, NAttsAssumption DEF FirstColumns, Below, Column
    <3>6. bindnum' >= Len(sql.sets) => bindnum' - Len(sql.sets) = 0
      BY <2>e, <2>t DEF EnterExec
    <3>7. BindInv'
      <4>1. /\ pc' = "bind" /\ att' = 1 /\ bindnum' = 0 /\ sql' = sql /\ stmt' = stmt
            /\ 1..bindnum' = {}
        BY <2>e DEF EnterExec
      <4>2. stmt.op = "INSERT" => bindnum' <= Len(sql.sets)
        BY <2>t, <4>1
      <4>3. bindnum' >= Len(sql.sets) =>
              FirstColumns(sql.wheres, bindnum' - Len(sql.sets), Below(CondAttrs, 1))
        BY <3>5, <3>6, Zenon
      <4> QED
        BY <3>1, <3>3, <4>1, <4>2, <4>3 DEF BindInv
    <3> QED
      BY <3>2, <3>4, <3>7
  <2>4. CASE InsertRow
    BY <2>4, <2>e DEF InsertRow, LiveRow, Types
  <2>5. ASSUME NEW id \in RowId, ModifyRow(id) PROVE ModifyInv'
    <3>1. slot' \in Row
      BY <2>5 DEF ModifyRow, NewRows, LiveRow, Types
    <3> QED
      BY <2>5, <2>e, <3>1 DEF ModifyRow, Types
  \* A value is bound to the next placeholder.
  <2>b. ASSUME NEW v \in Datum, Bind(v), pc = "bind",
               UNCHANGED <<rel, remote, pc, stmt, sql, scan, cur, slot, planSlot, is_prepared>>,
               v = Meant(bindnum + 1)
        PROVE  /\ DOMAIN params' = 1..bindnum' /\ bindnum' = bindnum + 1 /\ bindnum \in Nat
               /\ \A p \in 1..bindnum' : params'[p] = Meant(p)'
               /\ \A p \in DOMAIN params' : params'[p] \in Datum
    <3>1. /\ bindnum \in Nat /\ DOMAIN params = 1..bindnum
          /\ \A p \in 1..bindnum : params[p] = Meant(p) /\ params[p] \in Datum
      BY <2>b DEF Types, BindInv
    <3>2. \A p : Meant(p)' = Meant(p)
      BY <2>b DEF Meant
    <3>3. /\ DOMAIN params' = 1..bindnum + 1 /\ bindnum' = bindnum + 1
          /\ params'[bindnum + 1] = v
          /\ \A p \in 1..bindnum : params'[p] = params[p]
      BY <2>b, <3>1 DEF Bind
    <3> QED
      BY <2>b, <3>1, <3>2, <3>3
  <2>6. CASE BindTarget
    <3>1. /\ bindnum + 1 \in DOMAIN sql.sets /\ sql.sets[bindnum + 1] \in Column
          /\ bindnum + 1 <= Len(sql.sets)
      BY <2>6, <2>t DEF BindTarget, Types
    <3>2. slot[sql.sets[bindnum + 1]] \in Datum
      BY <3>1 DEF Types, Row
    <3>3. slot[sql.sets[bindnum + 1]] = Meant(bindnum + 1)
      BY <3>1 DEF Meant
    <3>4. /\ DOMAIN params' = 1..bindnum' /\ bindnum' = bindnum + 1 /\ bindnum \in Nat
          /\ \A p \in 1..bindnum' : params'[p] = Meant(p)'
          /\ \A p \in DOMAIN params' : params'[p] \in Datum
      BY <2>6, <2>b, <3>2, <3>3 DEF BindTarget
    <3>5. Types'
      BY <2>6, <3>4 DEF BindTarget, Types
    <3>6. UpTo' = UpTo /\ TargetAttrs' = TargetAttrs /\ CondAttrs' = CondAttrs
      BY <2>6 DEF BindTarget, UpTo, TargetAttrs, CondAttrs, Live
    <3>7. PlanInv'
      BY <2>6, <3>6 DEF BindTarget, PlanInv
    <3>8. att = 1
      BY <2>6 DEF BindTarget, BindInv
    <3>9. \A C : FirstColumns(sql.wheres, 0, Below(C, 1))
      BY <2>t, NAttsAssumption DEF FirstColumns, Below, Column
    <3>10. bindnum' >= Len(sql.sets) => bindnum' - Len(sql.sets) = 0
      BY <2>t, <3>1, <3>4
    <3>11. BindInv'
      BY <2>6, <3>1, <3>4, <3>8, <3>9, <3>10 DEF BindTarget, BindInv
    <3> QED
      BY <3>5, <3>7, <3>11
  <2>7. CASE BindJunkColumn
    <3> DEFINE b == bindnum - Len(sql.sets)
    <3>1. /\ pc = "bind" /\ stmt.op # "INSERT" /\ bindnum >= Len(sql.sets) /\ bindnum \in Nat
          /\ att \in Column /\ att' = att + 1 /\ att \in Nat /\ att' \in 1..NAtts + 1
      BY <2>7, NAttsAssumption DEF BindJunkColumn, Types, Column
    <3>2. /\ CondAttrs = rel.keys /\ CondAttrs \in SUBSET Column /\ UpTo = NAtts
          /\ Lists(sql.wheres, CondAttrs)
          /\ FirstColumns(sql.wheres, b, Below(CondAttrs, att))
      <4>1. CondAttrs = rel.keys /\ CondAttrs \in SUBSET Column /\ UpTo = NAtts
        BY <3>1 DEF CondAttrs, UpTo, Types
      <4>2. {c \in CondAttrs : c <= NAtts} = CondAttrs
        BY <4>1, NAttsAssumption DEF Column
      <4>3. Lists(sql.wheres, CondAttrs)
        BY <3>1, <4>1, <4>2 DEF PlanInv
      <4> QED
        BY <3>1, <4>1, <4>3 DEF BindInv
    <3>3. UpTo' = UpTo /\ TargetAttrs' = TargetAttrs /\ CondAttrs' = CondAttrs
      BY <2>7 DEF BindJunkColumn, UpTo, TargetAttrs, CondAttrs, Live
    <3>4. PlanInv'
      BY <2>7, <3>3 DEF BindJunkColumn, PlanInv
    <3>5. CASE att \in CondAttrs
      <4>1. /\ b + 1 \in DOMAIN sql.wheres /\ sql.wheres[b + 1] = att
            /\ FirstColumns(sql.wheres, b + 1, Below(CondAttrs, att + 1))
        <5>1. b \in Nat
          BY <2>t, <3>1
        <5> HIDE DEF b
        <5> QED
          BY <2>t, <3>1, <3>2, <3>5, <5>1, NextColumn, Zenon
      <4>2. planSlot[att] \in Datum
        BY <3>1 DEF Types, Row
      <4>3. planSlot[att] = Meant(bindnum + 1)
        <5>1. bindnum + 1 = Len(sql.sets) + (b + 1) /\ b + 1 > 0 /\ b + 1 \in Nat
          <6>1. \A m, k \in Nat : m >= k =>
                  m + 1 = k + ((m - k) + 1) /\ (m - k) + 1 > 0 /\ (m - k) + 1 \in Nat
            OBVIOUS
          <6> QED
            BY <2>t, <3>1, <6>1, Zenon
        <5>2. bindnum + 1 \in Nat /\ Len(sql.sets) \in Nat
          BY <2>t, <3>1
        <5> HIDE DEF b
        <5>3. Meant(bindnum + 1) = planSlot[sql.wheres[b + 1]]
          BY <5>1, <5>2, MeantKey, Zenon
        <5> QED
          BY <4>1, <5>3, Zenon
      <4>4. /\ DOMAIN params' = 1..bindnum' /\ bindnum' = bindnum + 1
            /\ \A p \in 1..bindnum' : params'[p] = Meant(p)'
            /\ \A p \in DOMAIN params' : params'[p] \in Datum
        BY <2>7, <2>b, <3>2, <3>5, <4>2, <4>3 DEF BindJunkColumn
      <4>5. Types'
        BY <2>7, <3>1, <4>4 DEF BindJunkColumn, Types
      <4>6. bindnum' >= Len(sql.sets) /\ bindnum' - Len(sql.sets) = b + 1
        BY <2>t, <3>1, <4>4
      <4>7. BindInv'
        <5>1. pc' = "bind" /\ stmt' = stmt /\ sql' = sql /\ att' = att + 1
          BY <2>7, <3>1 DEF BindJunkColumn
        <5>2. ~(bindnum' < Len(sql.sets))
          BY <2>t, <3>1, <4>4
        <5>3. FirstColumns(sql.wheres, bindnum' - Len(sql.sets), Below(CondAttrs, att + 1))
          BY <4>1, <4>6, Zenon
        <5> QED
          BY <3>1, <3>3, <4>4, <5>1, <5>2, <5>3 DEF BindInv
      <4> QED
        BY <3>4, <4>5, <4>7
    <3>6. CASE att \notin CondAttrs
      <4>1. FirstColumns(sql.wheres, b, Below(CondAttrs, att + 1))
        <5>1. b \in Nat
          BY <2>t, <3>1
        <5> HIDE DEF b
        <5> QED
          BY <2>t, <3>1, <3>2, <3>6, <5>1, NextColumn, Zenon
      <4>2. UNCHANGED <<params, bindnum>>
        BY <2>7, <3>2, <3>6 DEF BindJunkColumn
      <4>3. Types'
        BY <2>7, <3>1, <4>2 DEF BindJunkColumn, Types
      <4>4. \A p : Meant(p)' = Meant(p)
        BY <2>7 DEF BindJunkColumn, Meant
      <4>5. BindInv'
        BY <2>7, <2>t, <3>1, <3>3, <4>1, <4>2, <4>4 DEF BindJunkColumn, BindInv
      <4> QED
        BY <3>4, <4>3, <4>5
    <3> QED
      BY <3>5, <3>6
  <2>8. CASE ExecPrepared
    <3>1. remote' \in [RowId -> Row \cup {Absent}]
      <4>1. DOMAIN sql.sets = 1..Len(sql.sets) /\ DOMAIN sql.sets \subseteq DOMAIN params
        <5>1. DOMAIN params = 1..NPlaceholders
          BY <2>8 DEF ExecPrepared
        <5>2. 1..Len(sql.sets) \subseteq 1..NPlaceholders
          BY <2>t, Prefix DEF NPlaceholders
        <5>3. DOMAIN sql.sets = 1..Len(sql.sets)
          BY <2>t
        <5> QED
          BY <5>1, <5>2, <5>3, Zenon
      <4>2. \A p \in DOMAIN params : params[p] \in Datum
        BY DEF Types
      <4>3. ASSUME NEW row \in Row PROVE Assigned(row) \in Row
        <5> SUFFICES ASSUME NEW c \in Column PROVE Assigned(row)[c] \in Datum
          BY DEF Assigned, Row
        <5>1. CASE \E n \in DOMAIN sql.sets : sql.sets[n] = c
          <6>1. (CHOOSE n \in DOMAIN sql.sets : sql.sets[n] = c) \in DOMAIN sql.sets
            BY <5>1, Zenon
          <6> QED
            BY <4>1, <4>2, <5>1, <6>1 DEF Assigned
        <5>2. CASE ~ \E n \in DOMAIN sql.sets : sql.sets[n] = c
          BY <5>2 DEF Assigned, Row
        <5> QED
          BY <5>1, <5>2
      <4>4. \A id \in Rows : remote[id] \in Row /\ Assigned(remote[id]) \in Row
        BY <4>3 DEF Rows, Types
      <4>5. Assigned(NullRow) \in Row
        BY <2>t, <4>3
      <4>6. remote' = Executed /\ remote \in [RowId -> Row \cup {Absent}]
        BY <2>8 DEF ExecPrepared, Types
      <4>7. CASE stmt.op = "INSERT"
        BY <4>5, <4>6, <4>7 DEF Executed
      <4>8. CASE stmt.op = "UPDATE"
        BY <4>4, <4>6, <4>8 DEF Executed
      <4>9. CASE stmt.op = "DELETE"
        BY <4>6, <4>9 DEF Executed
      <4> QED
        BY <4>7, <4>8, <4>9 DEF Types
    <3>2. bindnum <= NPlaceholders
      BY <2>8, <2>t DEF ExecPrepared, BindInv, NPlaceholders, Types
    <3>3. Types'
      BY <2>8, <2>t, <3>1, <3>2, NAttsAssumption
         DEF ExecPrepared, CallOver, Types, NoParams, NPlaceholders
    <3>4. UpTo' = UpTo /\ TargetAttrs' = TargetAttrs /\ CondAttrs' = CondAttrs
      BY <2>8 DEF ExecPrepared, UpTo, TargetAttrs, CondAttrs, Live
    <3> QED
      BY <2>8, <3>3, <3>4 DEF ExecPrepared, PlanInv, BindInv, NoParams
  <2>9. CASE StatementFails \/ EndForeignModify
    <3>1. StatementOver
      BY <2>9 DEF StatementFails, EndForeignModify
    <3>2. sql' \in [sets : Seq(Column), wheres : Seq(Column)] /\ att' \in 1..NAtts + 1
      <4>1. <<>> \in Seq(Column)
        OBVIOUS
      <4> QED
        BY <3>1, <4>1, NAttsAssumption DEF StatementOver, CallOver
    <3>3. Types'
      BY <2>t, <3>1, <3>2 DEF StatementOver, CallOver, Types, NoParams
    <3> QED
      BY <3>1, <3>3 DEF StatementOver, PlanInv, BindInv, NoParams
  <2>10. CASE UNCHANGED vars
    BY <2>10 DEF vars, Types, PlanInv, BindInv, UpTo, TargetAttrs, CondAttrs, Live, Meant,
                 NPlaceholders
  <2> QED
    BY <2>1, <2>2, <2>3, <2>4, <2>5, <2>6, <2>7, <2>8, <2>9, <2>10 DEF Next
<1> QED
  BY <1>1, <1>2, PTL DEF Spec
-----------------------------------------------------------------------------
(* What the invariant says of a call: how far it has come, and that all its    *)
(* placeholders are bound once the loops have ended.                           *)
LEMMA LoopsAgree ==
  ASSUME ModifyInv, pc = "bind"
  PROVE  /\ bindnum <= NPlaceholders
         /\ bindnum >= Len(sql.sets) /\ (stmt.op = "INSERT" \/ att = NAtts + 1) =>
              bindnum = NPlaceholders
<1>1. /\ sql.wheres \in Seq(Column) /\ Len(sql.sets) \in Nat /\ Len(sql.wheres) \in Nat
      /\ bindnum \in Nat
  BY DEF ModifyInv, Types
<1>2. \A m, k, n \in Nat : m >= k =>
        /\ m - k \in Nat
        /\ m - k = n => m = k + n
        /\ m - k <= n => m <= k + n
  OBVIOUS
<1>3. CASE stmt.op = "INSERT"
  <2>1. bindnum <= Len(sql.sets)
    BY <1>3 DEF ModifyInv, BindInv
  <2>2. \A c \in Column : ~ \E n \in DOMAIN sql.wheres : sql.wheres[n] = c
    BY <1>3 DEF ModifyInv, PlanInv, Lists, CondAttrs
  <2>3. Len(sql.wheres) = 0
    <3> SUFFICES ASSUME Len(sql.wheres) # 0 PROVE FALSE
      OBVIOUS
    <3>1. 1 \in DOMAIN sql.wheres /\ sql.wheres[1] \in Column
      BY <1>1
    <3> QED
      BY <2>2, <3>1
  <2> QED
    BY <1>1, <2>1, <2>3 DEF NPlaceholders
<1>4. CASE stmt.op # "INSERT" /\ bindnum < Len(sql.sets)
  <2>1. \A m, k, n \in Nat : m < k => m <= k + n /\ ~(m >= k)
    OBVIOUS
  <2> QED
    BY <1>1, <1>4, <2>1, Zenon DEF NPlaceholders
<1>5. CASE stmt.op # "INSERT" /\ bindnum >= Len(sql.sets)
  <2> DEFINE b == bindnum - Len(sql.sets)
  <2>1. b \in Nat
    BY <1>1, <1>2, <1>5, Zenon
  <2>2. FirstColumns(sql.wheres, b, Below(CondAttrs, att))
    BY <1>5 DEF ModifyInv, BindInv
  <2>3. b <= Len(sql.wheres)
    BY <1>1, <2>2 DEF FirstColumns
  <2>4. bindnum <= NPlaceholders
    BY <1>1, <1>2, <1>5, <2>3, Zenon DEF NPlaceholders
  <2>5. ASSUME att = NAtts + 1 PROVE bindnum = NPlaceholders
    <3>1. CondAttrs \in SUBSET Column
      BY <1>5 DEF ModifyInv, Types, CondAttrs
    <3>2. {c \in CondAttrs : c <= UpTo} = CondAttrs
      <4>1. UpTo = NAtts
        BY DEF UpTo
      <4>2. \A c \in Column : c <= NAtts
        BY NAttsAssumption DEF Column
      <4> QED
        BY <3>1, <4>1, <4>2
    <3>3. Lists(sql.wheres, CondAttrs)
      BY <3>2 DEF ModifyInv, PlanInv
    <3>4. FirstColumns(sql.wheres, b, Below(CondAttrs, NAtts + 1))
      BY <2>2, <2>5
    <3> HIDE DEF b
    <3>5. b = Len(sql.wheres)
      BY <1>1, <2>1, <3>1, <3>3, <3>4, AllColumns, Zenon
    <3> USE DEF b
    <3> QED
      BY <1>1, <1>2, <1>5, <3>5, Zenon DEF NPlaceholders
  <2> QED
    BY <1>5, <2>4, <2>5
<1> QED
  BY <1>1, <1>3, <1>4, <1>5

(* Types: a call never binds more placeholders than the statement has, so that *)
(* jq_bind_sql_var never sets a parameter the PreparedStatement lacks.         *)
THEOREM TypeCorrect == Spec => []TypeOK
<1>1. ModifyInv => TypeOK
  <2> SUFFICES ASSUME ModifyInv PROVE TypeOK
    OBVIOUS
  <2>1. NPlaceholders \in Nat /\ bindnum \in Nat
    BY DEF ModifyInv, Types, NPlaceholders
  <2>2. bindnum <= NPlaceholders
    BY <2>1, LoopsAgree DEF ModifyInv, Types
  <2>3. DOMAIN params \subseteq 1..NPlaceholders
    BY <2>1, <2>2 DEF ModifyInv, BindInv
  <2> QED
    BY <2>1, <2>2, <2>3 DEF ModifyInv, Types, TypeOK
<1> QED
  BY <1>1, ModifyInvInductive, PTL

(* The loops of the plan and those of the executor number the columns alike.   *)
THEOREM BoundCorrect == Spec => []BoundInOrder
<1>1. ModifyInv => BoundInOrder
  BY LoopsAgree DEF ModifyInv, BindInv, BoundInOrder
<1> QED
  BY <1>1, ModifyInvInductive, PTL
=============================================================================
