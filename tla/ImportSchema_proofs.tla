------------------------- MODULE ImportSchema_proofs ------------------------
(***************************************************************************)
(* Theorems about ImportSchema, for any servers, mappings, options, jars,  *)
(* remote databases, local schemas and numbers of imports.                 *)
(*                                                                         *)
(* The commands of an import are run one after the other, and the columns  *)
(* of a table are put together from lists of any length: Induction, below, *)
(* is what these are reasoned about with.                                  *)
(***************************************************************************)
EXTENDS ImportSchema, WellFoundedInduction, TLAPS

(***************************************************************************)
(* Sequences.                                                              *)
(***************************************************************************)
(* A set of numbers that is not empty has a smallest one.                  *)
LEMMA SmallestIndex ==
  ASSUME NEW T, T \subseteq Nat, T # {}
  PROVE  \E x \in T : \A y \in T : x <= y
<1> DEFINE R == {p \in Nat \X Nat : p[1] < p[2]}
<1>1. IsWellFoundedOn(R, Nat)
  BY NatLessThanWellFounded DEF OpToRel
<1>2. \E x \in T : \A y \in T : <<y, x>> \notin R
  <2> HIDE DEF R
  <2> QED BY ONLY <1>1, WFMin, T \subseteq Nat, T # {}, Zenon
<1>3. PICK x \in T : \A y \in T : <<y, x>> \notin R
  BY ONLY <1>2, Zenon
<1>4. ASSUME NEW y \in T PROVE x <= y
  <2>1. x \in Nat /\ y \in Nat
    OBVIOUS
  <2>2. <<y, x>> \notin R
    BY <1>3
  <2> QED BY <2>1, <2>2
<1> QED BY <1>4

(* Induction up to n over a set.                                           *)
LEMMA Induction ==
  ASSUME NEW n \in Nat, NEW S, 0 \in S, \A i \in 0..(n - 1) : i \in S => i + 1 \in S
  PROVE  \A i \in 0..n : i \in S
<1> DEFINE T == (0..n) \ S
<1> SUFFICES ASSUME T # {} PROVE FALSE
  OBVIOUS
<1>1. \E x \in T : \A y \in T : x <= y
  <2>1. T \subseteq Nat
    OBVIOUS
  <2> HIDE DEF T
  <2> QED BY <2>1, SmallestIndex
<1> PICK x \in T : \A y \in T : x <= y
  BY <1>1
<1>2. x # 0 /\ x - 1 \in 0..(n - 1)
  OBVIOUS
<1>3. x - 1 \in S
  BY <1>1, <1>2
<1>4. (x - 1) + 1 \in S
  BY <1>2, <1>3
<1> QED BY <1>4

(* The empty sequence adds nothing.                                        *)
LEMMA EmptyConcat ==
  ASSUME NEW S, NEW q \in Seq(S)
  PROVE  <<>> \o q = q /\ q \o <<>> = q
OBVIOUS

(* FlattenSeq joins the sequences one after the other: f[i] are the first  *)
(* i.                                                                      *)
LEMMA FlattenDef ==
  ASSUME NEW S, NEW seqs \in Seq(S), Len(seqs) > 0
  PROVE  \E f : /\ f[1] = seqs[1]
                /\ \A i \in 1..(Len(seqs) - 1) : f[i + 1] = f[i] \o seqs[i + 1]
                /\ FlattenSeq(seqs) = f[Len(seqs)]
<1> DEFINE N == Len(seqs)
           Defines(g, n) ==
             g = [i \in 1..n |-> IF i = 1 THEN seqs[i] ELSE g[i - 1] \o seqs[i]]
           D == {n \in Nat : \E g : Defines(g, n)}
<1>1. 0 \in D
  <2>1. Defines(<<>>, 0)
    OBVIOUS
  <2> QED BY <2>1
<1>2. ASSUME NEW n \in 0..(N - 1), n \in D PROVE n + 1 \in D
  <2>1. PICK g : Defines(g, n)
    BY <1>2
  <2> DEFINE h == [i \in 1..(n + 1) |->
                     IF i = n + 1
                     THEN IF i = 1 THEN seqs[i] ELSE g[n] \o seqs[i]
                     ELSE g[i]]
  <2>2. ASSUME NEW i \in 1..(n + 1)
        PROVE  h[i] = IF i = 1 THEN seqs[i] ELSE h[i - 1] \o seqs[i]
    <3>1. CASE i = n + 1
      BY <3>1
    <3>2. CASE i # n + 1
      <4>1. i \in 1..n /\ h[i] = g[i] /\ (i # 1 => i - 1 \in 1..n /\ h[i - 1] = g[i - 1])
        BY <3>2
      <4>2. g[i] = IF i = 1 THEN seqs[i] ELSE g[i - 1] \o seqs[i]
        BY <2>1, <4>1
      <4> QED BY <4>1, <4>2
    <3> QED BY <3>1, <3>2
  <2>3. Defines(h, n + 1)
    BY <2>2
  <2>4. n + 1 \in Nat
    OBVIOUS
  <2> QED BY <2>3, <2>4
<1>3. N \in D
  <2>1. N \in Nat /\ N \in 0..N
    OBVIOUS
  <2> HIDE DEF D, N
  <2> QED BY <1>1, <1>2, <2>1, Induction
<1>4. \E g : Defines(g, N)
  BY <1>3
<1> DEFINE f == CHOOSE g : Defines(g, N)
<1>5. Defines(f, N)
  BY <1>4
<1>6. FlattenSeq(seqs) = f[N]
  BY DEF FlattenSeq
<1>7. f[1] = seqs[1]
  <2>1. 1 \in 1..N
    OBVIOUS
  <2> QED BY <1>5, <2>1
<1>8. ASSUME NEW i \in 1..(N - 1) PROVE f[i + 1] = f[i] \o seqs[i + 1]
  <2>1. PICK j \in 1..N : j = i + 1 /\ j # 1 /\ j - 1 = i
    OBVIOUS
  <2>2. f[j] = IF j = 1 THEN seqs[j] ELSE f[j - 1] \o seqs[j]
    BY <1>5
  <2> QED BY <2>1, <2>2
<1> HIDE DEF f, D
<1> QED BY <1>6, <1>7, <1>8

(* FlattenSeq has the elements of the sequences.                           *)
LEMMA FlattenType ==
  ASSUME NEW S, NEW seqs \in Seq(Seq(S))
  PROVE  FlattenSeq(seqs) \in Seq(S)
<1>1. CASE Len(seqs) = 0
  <2>1. FlattenSeq(seqs) = seqs
    BY <1>1, Zenon DEF FlattenSeq
  <2> QED BY <1>1, <2>1
<1>2. CASE Len(seqs) > 0
  <2> DEFINE N == Len(seqs)
  <2>1. PICK f : /\ f[1] = seqs[1]
                 /\ \A i \in 1..(N - 1) : f[i + 1] = f[i] \o seqs[i + 1]
                 /\ FlattenSeq(seqs) = f[N]
    BY <1>2, FlattenDef, Zenon
  <2> DEFINE D == {i \in Nat : i \in 1..N => f[i] \in Seq(S)}
  <2>2. ASSUME NEW i \in 0..(N - 1), i \in D PROVE i + 1 \in D
    <3>1. i + 1 \in 1..N /\ seqs[i + 1] \in Seq(S)
      OBVIOUS
    <3> SUFFICES f[i + 1] \in Seq(S)
      OBVIOUS
    <3>3. CASE i = 0
      BY <2>1, <3>1, <3>3
    <3>4. CASE i # 0
      <4>1. i \in 1..(N - 1) /\ f[i] \in Seq(S)
        BY <2>2, <3>4
      <4>2. f[i + 1] = f[i] \o seqs[i + 1]
        BY <2>1, <4>1
      <4>3. f[i] \o seqs[i + 1] \in Seq(S)
        BY <3>1, <4>1
      <4> QED BY <4>2, <4>3
    <3> QED BY <3>3, <3>4
  <2>3. 0 \in D
    OBVIOUS
  <2>4. N \in D
    <3>1. N \in Nat /\ N \in 0..N
      OBVIOUS
    <3> HIDE DEF D, N
    <3> QED BY <2>2, <2>3, <3>1, Induction
  <2> QED BY <1>2, <2>1, <2>4
<1> QED BY <1>1, <1>2

(* Of several sequences of which one has elements, this one is left.       *)
LEMMA FlattenOne ==
  ASSUME NEW S, NEW seqs \in Seq(Seq(S)), NEW k \in 1..Len(seqs),
         \A j \in 1..Len(seqs) : j # k => seqs[j] = <<>>
  PROVE  FlattenSeq(seqs) = seqs[k]
<1> DEFINE N == Len(seqs)
<1>1. PICK f : /\ f[1] = seqs[1]
               /\ \A i \in 1..(N - 1) : f[i + 1] = f[i] \o seqs[i + 1]
               /\ FlattenSeq(seqs) = f[N]
  <2>1. N > 0
    OBVIOUS
  <2> QED BY <2>1, FlattenDef, Zenon
<1> DEFINE D == {i \in Nat : i \in 1..N => f[i] = IF i < k THEN <<>> ELSE seqs[k]}
<1>2. ASSUME NEW i \in 0..(N - 1), i \in D PROVE i + 1 \in D
  <2>1. i + 1 \in 1..N /\ seqs[i + 1] \in Seq(S) /\ seqs[k] \in Seq(S)
    OBVIOUS
  <2>2. seqs[i + 1] = IF i + 1 = k THEN seqs[k] ELSE <<>>
    BY <2>1
  <2> SUFFICES f[i + 1] = IF i + 1 < k THEN <<>> ELSE seqs[k]
    OBVIOUS
  <2>3. CASE i = 0
    BY <1>1, <2>1, <2>2, <2>3
  <2>4. CASE i # 0
    <3>1. i \in 1..(N - 1) /\ f[i] = IF i < k THEN <<>> ELSE seqs[k]
      BY <1>2, <2>4
    <3>2. f[i + 1] = f[i] \o seqs[i + 1]
      BY <1>1, <3>1
    <3>3. <<>> \o seqs[k] = seqs[k] /\ seqs[k] \o <<>> = seqs[k] /\ <<>> \o <<>> = <<>>
      BY <2>1, EmptyConcat
    <3>4. CASE i + 1 < k
      <4>1. f[i] = <<>> /\ seqs[i + 1] = <<>>
        BY <2>2, <3>1, <3>4
      <4> QED BY <3>2, <3>3, <3>4, <4>1
    <3>5. CASE i + 1 = k
      <4>1. f[i] = <<>> /\ seqs[i + 1] = seqs[k]
        BY <2>2, <3>1, <3>5
      <4> QED BY <3>2, <3>3, <3>5, <4>1
    <3>6. CASE i + 1 > k
      <4>1. f[i] = seqs[k] /\ seqs[i + 1] = <<>>
        BY <2>2, <3>1, <3>6
      <4> QED BY <3>2, <3>3, <3>6, <4>1
    <3> QED BY <3>4, <3>5, <3>6
  <2> QED BY <2>3, <2>4
<1>3. 0 \in D
  OBVIOUS
<1>4. N \in D
  <2>1. N \in Nat /\ N \in 0..N
    OBVIOUS
  <2> HIDE DEF D, N
  <2> QED BY <1>2, <1>3, <2>1, Induction
<1> QED BY <1>1, <1>4

(* h gives the positions of the elements of q in s: those of I up to n, in *)
(* their order.                                                            *)
Positions(h, q, s, I, n) ==
  /\ h \in [1..Len(q) -> (1..n) \cap I]
  /\ \A j \in 1..Len(q) : q[j] = s[h[j]]
  /\ \A j, k \in 1..Len(q) : j < k => h[j] < h[k]
  /\ \A i \in (1..n) \cap I : \E j \in 1..Len(q) : h[j] = i

(* One more element is looked at, and taken if its position is in I.       *)
LEMMA SelectOneMore ==
  ASSUME NEW S, NEW s \in Seq(S), NEW I, NEW i \in Nat, i + 1 \in 1..Len(s),
         NEW q \in Seq(S), NEW h, Positions(h, q, s, I, i),
         NEW p, p = q \o (IF i + 1 \in I THEN <<s[i + 1]>> ELSE <<>>)
  PROVE  p \in Seq(S) /\ \E g : Positions(g, p, s, I, i + 1)
<1>1. CASE i + 1 \in I
  <2> DEFINE g == [j \in 1..(Len(q) + 1) |-> IF j <= Len(q) THEN h[j] ELSE i + 1]
  <2>1. p = q \o <<s[i + 1]>> /\ s[i + 1] \in S
    BY <1>1
  <2>2. /\ p \in Seq(S) /\ Len(p) = Len(q) + 1
        /\ \A j \in 1..Len(q) : p[j] = q[j]
        /\ p[Len(q) + 1] = s[i + 1]
    BY <2>1
  <2>3. /\ Len(q) \in Nat
        /\ \A j \in 1..Len(q) : h[j] \in 1..i /\ h[j] \in I /\ q[j] = s[h[j]]
        /\ \A j, k \in 1..Len(q) : j < k => h[j] < h[k]
        /\ \A k \in (1..i) \cap I : \E j \in 1..Len(q) : h[j] = k
    <3>1. /\ h \in [1..Len(q) -> (1..i) \cap I]
          /\ \A j \in 1..Len(q) : q[j] = s[h[j]]
          /\ \A j, k \in 1..Len(q) : j < k => h[j] < h[k]
          /\ \A k \in (1..i) \cap I : \E j \in 1..Len(q) : h[j] = k
      BY Zenon DEF Positions
    <3>2. ASSUME NEW j \in 1..Len(q) PROVE h[j] \in 1..i /\ h[j] \in I
      BY <3>1, <3>2
    <3>3. Len(q) \in Nat
      OBVIOUS
    <3> QED BY <3>1, <3>2, <3>3
  <2>4. g \in [1..Len(p) -> (1..(i + 1)) \cap I]
    BY <1>1, <2>2, <2>3
  <2>5. ASSUME NEW j \in 1..Len(p) PROVE p[j] = s[g[j]]
    <3>1. CASE j \in 1..Len(q)
      <4>1. g[j] = h[j] /\ p[j] = q[j]
        BY <2>2, <3>1
      <4> QED BY <2>3, <3>1, <4>1
    <3>2. CASE j = Len(q) + 1
      BY <2>2, <2>3, <3>2
    <3> QED BY <2>2, <2>3, <3>1, <3>2
  <2>6. \A j, k \in 1..Len(p) : j < k => g[j] < g[k]
    BY <2>2, <2>3
  <2>7. ASSUME NEW k \in (1..(i + 1)) \cap I PROVE \E j \in 1..Len(p) : g[j] = k
    <3>1. CASE k = i + 1
      BY <2>2, <2>3, <3>1
    <3>2. CASE k # i + 1
      <4>1. k \in (1..i) \cap I
        BY <3>2
      <4>2. PICK j \in 1..Len(q) : h[j] = k
        BY <2>3, <4>1
      <4> QED BY <2>2, <2>3, <4>2
    <3> QED BY <3>1, <3>2
  <2> HIDE DEF g
  <2>8. Positions(g, p, s, I, i + 1)
    BY <2>4, <2>5, <2>6, <2>7, Zenon DEF Positions
  <2> QED BY <2>2, <2>8, Zenon
<1>2. CASE i + 1 \notin I
  <2>1. p = q
    BY <1>2, EmptyConcat
  <2>2. (1..(i + 1)) \cap I = (1..i) \cap I
    BY <1>2
  <2>3. Positions(h, q, s, I, i + 1)
    BY <2>2, Zenon DEF Positions
  <2> QED BY <2>1, <2>3, Zenon
<1> QED BY <1>1, <1>2

(* Select takes the elements at the positions in I, in their order.        *)
LEMMA Selected ==
  ASSUME NEW S, NEW s \in Seq(S), NEW I
  PROVE  /\ Select(s, I) \in Seq(S)
         /\ \E h : Positions(h, Select(s, I), s, I, Len(s))
<1> DEFINE seqs == [i \in DOMAIN s |-> IF i \in I THEN <<s[i]>> ELSE <<>>]
           N == Len(s)
<1>1. /\ N \in Nat /\ DOMAIN s = 1..N /\ \A i \in 1..N : s[i] \in S
  OBVIOUS
<1>2. /\ seqs \in Seq(Seq(S)) /\ Len(seqs) = N
      /\ \A i \in 1..N : seqs[i] = IF i \in I THEN <<s[i]>> ELSE <<>>
  BY <1>1
<1>3. Select(s, I) = FlattenSeq(seqs)
  BY DEF Select
<1> HIDE DEF seqs
<1>4. CASE N = 0
  <2>1. FlattenSeq(seqs) = seqs
    BY <1>2, <1>4, Zenon DEF FlattenSeq
  <2>2. seqs = <<>>
    BY <1>2, <1>4
  <2>3. Positions(<<>>, <<>>, s, I, 0)
    BY DEF Positions
  <2> QED BY <1>3, <1>4, <2>1, <2>2, <2>3
<1>5. CASE N > 0
  <2>1. PICK f : /\ f[1] = seqs[1]
                 /\ \A i \in 1..(N - 1) : f[i + 1] = f[i] \o seqs[i + 1]
                 /\ FlattenSeq(seqs) = f[N]
    BY <1>2, <1>5, FlattenDef, Zenon
  <2> DEFINE Good(q, i) == q \in Seq(S) /\ \E h : Positions(h, q, s, I, i)
             D == {i \in Nat : i \in 1..N => Good(f[i], i)}
  <2>2. ASSUME NEW i \in 0..(N - 1), i \in D PROVE i + 1 \in D
    <3>1. i \in Nat /\ i + 1 \in 1..N /\ i + 1 \in Nat
      BY <1>1
    <3> SUFFICES Good(f[i + 1], i + 1)
      BY <3>1
    <3>2. PICK q \in Seq(S) : /\ \E h : Positions(h, q, s, I, i)
                             /\ f[i + 1] = q \o seqs[i + 1]
      <4>1. CASE i = 0
        <5>1. Positions(<<>>, <<>>, s, I, 0)
          BY DEF Positions
        <5>2. seqs[1] \in Seq(S) /\ f[0 + 1] = seqs[1]
          BY <1>2, <2>1, <3>1, <4>1
        <5>3. <<>> \o seqs[1] = seqs[1] /\ <<>> \in Seq(S)
          BY <5>2, EmptyConcat
        <5>4. Positions(<<>>, <<>>, s, I, i) /\ f[i + 1] = <<>> \o seqs[i + 1]
          BY <4>1, <5>1, <5>2, <5>3
        <5> QED BY <5>3, <5>4, Zenon
      <4>2. CASE i # 0
        <5>1. i \in 1..(N - 1) /\ i \in 1..N
          BY <1>1, <4>2
        <5>2. Good(f[i], i)
          BY <2>2, <5>1
        <5>3. f[i + 1] = f[i] \o seqs[i + 1]
          BY <2>1, <5>1
        <5> QED BY <5>2, <5>3
      <4> QED BY <4>1, <4>2
    <3>3. PICK h : Positions(h, q, s, I, i)
      BY <3>2
    <3>4. f[i + 1] = q \o (IF i + 1 \in I THEN <<s[i + 1]>> ELSE <<>>)
      BY <1>2, <3>1, <3>2
    <3> QED BY <3>1, <3>3, <3>4, SelectOneMore
  <2>3. 0 \in D
    OBVIOUS
  <2>4. N \in D
    <3>1. N \in Nat /\ N \in 0..N
      OBVIOUS
    <3> HIDE DEF D, N
    <3> QED BY <2>2, <2>3, <3>1, Induction
  <2> QED BY <1>3, <1>5, <2>1, <2>4
<1> QED BY <1>1, <1>4, <1>5

(***************************************************************************)
(* The commands of an import, as loops over the tables that were read.     *)
(***************************************************************************)
(* jdbc_execute_commands drops one table after the other: f[i] is left     *)
(* after i.                                                                *)
LEMMA DropDef ==
  ASSUME NEW tables, Len(schema_list) \in Nat
  PROVE  \E f : /\ f[0] = tables
                /\ \A i \in 0..(Len(schema_list) - 1) :
                     f[i + 1] = DropTable(f[i], schema_list[i + 1].table_name)
                /\ jdbc_execute_commands(tables) = f[Len(schema_list)]
<1> DEFINE N == Len(schema_list)
           Defines(g, n) ==
             g = [i \in 0..n |-> IF i = 0 THEN tables
                                 ELSE DropTable(g[i - 1], schema_list[i].table_name)]
           D == {n \in Nat : \E g : Defines(g, n)}
<1>1. 0 \in D
  <2>1. Defines([i \in 0..0 |-> tables], 0)
    OBVIOUS
  <2> QED BY <2>1
<1>2. ASSUME NEW n \in 0..(N - 1), n \in D PROVE n + 1 \in D
  <2>1. PICK g : Defines(g, n)
    BY <1>2
  <2> DEFINE h == [i \in 0..(n + 1) |->
                     IF i = n + 1 THEN DropTable(g[n], schema_list[i].table_name)
                     ELSE g[i]]
  <2>2. ASSUME NEW i \in 0..(n + 1)
        PROVE  h[i] = IF i = 0 THEN tables
                      ELSE DropTable(h[i - 1], schema_list[i].table_name)
    <3>1. CASE i = n + 1
      <4>1. i # 0 /\ h[i - 1] = g[n] /\ h[i] = DropTable(g[n], schema_list[i].table_name)
        BY <3>1
      <4> QED BY <4>1
    <3>2. CASE i # n + 1
      <4>1. i \in 0..n /\ h[i] = g[i] /\ (i # 0 => h[i - 1] = g[i - 1])
        BY <3>2
      <4>2. g[i] = IF i = 0 THEN tables
                   ELSE DropTable(g[i - 1], schema_list[i].table_name)
        BY <2>1, <4>1
      <4> QED BY <4>1, <4>2
    <3> QED BY <3>1, <3>2
  <2>3. Defines(h, n + 1)
    BY <2>2
  <2>4. n + 1 \in Nat
    OBVIOUS
  <2> QED BY <2>3, <2>4
<1>3. N \in D
  <2>1. N \in Nat /\ N \in 0..N
    OBVIOUS
  <2> HIDE DEF D, N
  <2> QED BY <1>1, <1>2, <2>1, Induction
<1> DEFINE f == CHOOSE g : Defines(g, N)
<1>4. Defines(f, N)
  BY <1>3
<1>5. jdbc_execute_commands(tables) = f[N]
  BY DEF jdbc_execute_commands
<1>6. f[0] = tables
  <2>1. 0 \in 0..N
    OBVIOUS
  <2> QED BY <1>4, <2>1
<1>7. ASSUME NEW i \in 0..(N - 1)
      PROVE  f[i + 1] = DropTable(f[i], schema_list[i + 1].table_name)
  <2>1. PICK j \in 0..N : j = i + 1 /\ j # 0 /\ j - 1 = i
    OBVIOUS
  <2>2. f[j] = IF j = 0 THEN tables ELSE DropTable(f[j - 1], schema_list[j].table_name)
    BY <1>4, <2>1
  <2> QED BY <2>1, <2>2
<1> HIDE DEF f, D
<1> QED BY <1>5, <1>6, <1>7

(* A DROP fails over what may not be dropped, or takes the first table of  *)
(* its name on the search path away.                                       *)
LEMMA DropOne ==
  ASSUME NEW tables \in Tables, NEW name, Folded[name] \in LocalName
  PROVE  /\ DropTable(tables, name) = NULL <=> Undroppable(tables, Folded[name])
         /\ DropTable(tables, name) # NULL =>
              /\ DropTable(tables, name) \in Tables
              /\ \A s \in Schema, n \in LocalName :
                   \/ DropTable(tables, name)[s][n] = tables[s][n]
                   \/ /\ DropTable(tables, name)[s][n] = NULL
                      /\ Folded[name] = n
                      /\ tables[s][n] # NULL => tables[s][n].droppable
                      /\ \E l \in Lookup(tables, n) : SearchPath[l] = s
              /\ SearchPath # <<>> =>
                   DropTable(tables, name)[SearchPath[1]][Folded[name]] = NULL
<1> DEFINE left == [s \in Schema |-> [n \in LocalName |->
                      IF n = Folded[name] /\ \E i \in Lookup(tables, n) : SearchPath[i] = s
                      THEN NULL ELSE tables[s][n]]]
<1>1. tables # NULL
  BY NoTableAssumption
<1>2. DropTable(tables, name) = IF Undroppable(tables, Folded[name]) THEN NULL ELSE left
  BY <1>1 DEF DropTable
<1>3. left \in Tables /\ left # NULL
  <2>1. left \in Tables
    BY DEF Tables
  <2> HIDE DEF left
  <2> QED BY <2>1, NoTableAssumption
<1>4. ASSUME NEW s \in Schema, NEW n \in LocalName
      PROVE  left[s][n] =
               IF n = Folded[name] /\ \E i \in Lookup(tables, n) : SearchPath[i] = s
               THEN NULL ELSE tables[s][n]
  OBVIOUS
<1>5. ASSUME SearchPath # <<>>
      PROVE  left[SearchPath[1]][Folded[name]] = NULL
  <2>1. 1 \in DOMAIN SearchPath /\ SearchPath[1] \in Schema
    BY <1>5, SchemaAssumption
  <2>2. CASE tables[SearchPath[1]][Folded[name]] = NULL
    BY <1>4, <2>1, <2>2
  <2>3. CASE tables[SearchPath[1]][Folded[name]] # NULL
    <3>1. 1 \in Lookup(tables, Folded[name])
      BY <2>1, <2>3 DEF Lookup
    <3> QED BY <1>4, <2>1, <3>1
  <2> QED BY <2>2, <2>3
<1>6. ASSUME ~Undroppable(tables, Folded[name]), NEW s \in Schema, NEW n \in LocalName,
             left[s][n] # tables[s][n]
      PROVE  /\ left[s][n] = NULL /\ Folded[name] = n
             /\ tables[s][n].droppable
             /\ \E l \in Lookup(tables, n) : SearchPath[l] = s
  <2>1. n = Folded[name] /\ \E l \in Lookup(tables, n) : SearchPath[l] = s
    BY <1>4, <1>6
  <2>2. left[s][n] = NULL
    BY <1>4, <2>1
  <2> HIDE DEF left
  <2> QED BY <1>6, <2>1, <2>2 DEF Undroppable
<1> HIDE DEF left
<1> QED BY <1>2, <1>3, <1>5, <1>6

(* Table n of schema s is dropped by the DROPs of the first i tables that  *)
(* were read only if it may be, and if it is the first of its name on the  *)
(* search path or two of these tables have the name.                       *)
Dropped(tables, s, n, i) ==
  /\ tables[s][n] # NULL => tables[s][n].droppable
  /\ \E k \in 1..i :
       /\ Folded[schema_list[k].table_name] = n
       /\ \/ \E l \in Lookup(tables, n) : SearchPath[l] = s
          \/ \E j \in (1..i) \ {k} : Folded[schema_list[j].table_name] = n

(* The loop of DROPs fails exactly over what may not be dropped, if no two *)
(* of the tables that were read have one name.  Otherwise it takes away    *)
(* tables of the names that were read, and no table of such a name is left *)
(* in the first schema of the search path.                                 *)
LEMMA DropAll ==
  ASSUME NEW tables \in Tables, Len(schema_list) \in Nat,
         DOMAIN schema_list = 1..Len(schema_list),
         \A k \in DOMAIN schema_list : Folded[schema_list[k].table_name] \in LocalName
  PROVE  /\ jdbc_execute_commands(tables) # NULL =>
              /\ jdbc_execute_commands(tables) \in Tables
              /\ \A s \in Schema, n \in LocalName :
                   \/ jdbc_execute_commands(tables)[s][n] = tables[s][n]
                   \/ /\ jdbc_execute_commands(tables)[s][n] = NULL
                      /\ Dropped(tables, s, n, Len(schema_list))
              /\ SearchPath # <<>> =>
                   \A i \in DOMAIN schema_list :
                     jdbc_execute_commands(tables)[SearchPath[1]]
                       [Folded[schema_list[i].table_name]] = NULL
         /\ (\A i, j \in DOMAIN schema_list :
               Folded[schema_list[i].table_name] = Folded[schema_list[j].table_name] => i = j)
            => (jdbc_execute_commands(tables) # NULL <=>
                  \A i \in DOMAIN schema_list :
                    ~Undroppable(tables, Folded[schema_list[i].table_name]))
<1> DEFINE N == Len(schema_list)
           Name(i) == schema_list[i].table_name
           Apart == \A i, j \in 1..N : Folded[Name(i)] = Folded[Name(j)] => i = j
<1>1. PICK f : /\ f[0] = tables
               /\ \A i \in 0..(N - 1) : f[i + 1] = DropTable(f[i], Name(i + 1))
               /\ jdbc_execute_commands(tables) = f[N]
  BY DropDef, Zenon
<1> DEFINE Good(i, t) ==
             /\ t # NULL =>
                  /\ t \in Tables
                  /\ \A s \in Schema, n \in LocalName :
                       t[s][n] = tables[s][n] \/ (t[s][n] = NULL /\ Dropped(tables, s, n, i))
                  /\ SearchPath # <<>> =>
                       \A k \in 1..i : t[SearchPath[1]][Folded[Name(k)]] = NULL
             /\ Apart => (t # NULL <=> \A k \in 1..i : ~Undroppable(tables, Folded[Name(k)]))
           D == {i \in Nat : i \in 0..N => Good(i, f[i])}
<1>2. 0 \in D
  <2>1. tables # NULL
    BY NoTableAssumption
  <2> QED BY <1>1, <2>1
<1>3. ASSUME NEW i \in 0..(N - 1), i \in D PROVE i + 1 \in D
  <2>1. /\ i \in Nat /\ i + 1 \in Nat /\ i \in 0..N /\ i + 1 \in 1..(i + 1)
        /\ i + 1 \in 1..N /\ i + 1 \notin 1..i
        /\ 1..i \subseteq 1..(i + 1) /\ \A k \in 1..(i + 1) : k \in 1..i \/ k = i + 1
        /\ 1..i \subseteq 1..N
    OBVIOUS
  <2> DEFINE t == f[i]
             r == f[i + 1]
             name == Name(i + 1)
  <2>2. Good(i, t)
    BY <1>3, <2>1
  <2>3. r = DropTable(t, name)
    BY <1>1
  <2>4. Folded[name] \in LocalName
    BY <2>1
  <2> SUFFICES Good(i + 1, r)
    BY <2>1
  <2>5. CASE t = NULL
    <3>1. r = NULL
      BY <2>3, <2>5 DEF DropTable
    <3> HIDE DEF t, r, name
    <3> QED BY <2>1, <2>2, <2>5, <3>1
  <2>6. CASE t # NULL
    <3> HIDE DEF t, r, name
    <3>1. /\ t \in Tables
          /\ \A s \in Schema, n \in LocalName :
               t[s][n] = tables[s][n] \/ (t[s][n] = NULL /\ Dropped(tables, s, n, i))
          /\ SearchPath # <<>> =>
               \A k \in 1..i : t[SearchPath[1]][Folded[Name(k)]] = NULL
          /\ Apart => \A k \in 1..i : ~Undroppable(tables, Folded[Name(k)])
      BY <2>2, <2>6
    <3>2. /\ r = NULL <=> Undroppable(t, Folded[name])
          /\ r # NULL =>
               /\ r \in Tables
               /\ \A s \in Schema, n \in LocalName :
                    \/ r[s][n] = t[s][n]
                    \/ /\ r[s][n] = NULL
                       /\ Folded[name] = n
                       /\ t[s][n] # NULL => t[s][n].droppable
                       /\ \E l \in Lookup(t, n) : SearchPath[l] = s
               /\ SearchPath # <<>> => r[SearchPath[1]][Folded[name]] = NULL
      <4>1. t \in Tables
        BY <3>1
      <4>2. /\ DropTable(t, name) = NULL <=> Undroppable(t, Folded[name])
            /\ DropTable(t, name) # NULL =>
                 /\ DropTable(t, name) \in Tables
                 /\ \A s \in Schema, n \in LocalName :
                      \/ DropTable(t, name)[s][n] = t[s][n]
                      \/ /\ DropTable(t, name)[s][n] = NULL
                         /\ Folded[name] = n
                         /\ t[s][n] # NULL => t[s][n].droppable
                         /\ \E l \in Lookup(t, n) : SearchPath[l] = s
                 /\ SearchPath # <<>> =>
                      DropTable(t, name)[SearchPath[1]][Folded[name]] = NULL
        BY ONLY <2>4, <4>1, DropOne
      <4> QED BY ONLY <2>3, <4>2
    <3>3. ASSUME NEW n \in LocalName, \A k \in 1..i : Folded[Name(k)] # n
          PROVE  /\ \A s \in Schema : t[s][n] = tables[s][n]
                 /\ Lookup(t, n) = Lookup(tables, n)
                 /\ Undroppable(t, n) <=> Undroppable(tables, n)
      <4>1. \A s \in Schema : t[s][n] = tables[s][n]
        BY <3>1, <3>3 DEF Dropped
      <4>2. \A l \in DOMAIN SearchPath : SearchPath[l] \in Schema
        BY SchemaAssumption
      <4>3. \A l \in DOMAIN SearchPath : t[SearchPath[l]][n] = tables[SearchPath[l]][n]
        BY <4>1, <4>2
      <4>4. \A l \in DOMAIN SearchPath : 1..(l - 1) \subseteq DOMAIN SearchPath
        BY SchemaAssumption
      <4>5. Lookup(t, n) = Lookup(tables, n)
        BY <4>3, <4>4 DEF Lookup
      <4>6. Lookup(tables, n) \subseteq DOMAIN SearchPath
        BY DEF Lookup
      <4> QED BY <4>1, <4>3, <4>5, <4>6 DEF Undroppable
    <3>4. ASSUME r # NULL, NEW s \in Schema, NEW n \in LocalName
          PROVE  r[s][n] = tables[s][n] \/ (r[s][n] = NULL /\ Dropped(tables, s, n, i + 1))
      <4>1. CASE r[s][n] = t[s][n] /\ t[s][n] = tables[s][n]
        BY <4>1
      <4>2. CASE t[s][n] = NULL /\ Dropped(tables, s, n, i)
        <5>1. r[s][n] = NULL
          BY <3>2, <3>4, <4>2
        <5>2. PICK k \in 1..i :
                /\ Folded[schema_list[k].table_name] = n
                /\ \/ \E l \in Lookup(tables, n) : SearchPath[l] = s
                   \/ \E j \in (1..i) \ {k} : Folded[schema_list[j].table_name] = n
          BY <4>2 DEF Dropped
        <5>3. k \in 1..(i + 1) /\ (1..i) \ {k} \subseteq (1..(i + 1)) \ {k}
          BY <2>1
        <5> QED BY <4>2, <5>1, <5>2, <5>3 DEF Dropped
      <4>3. CASE r[s][n] # t[s][n] /\ t[s][n] = tables[s][n]
        <5>1. /\ r[s][n] = NULL /\ Folded[name] = n
              /\ t[s][n] # NULL => t[s][n].droppable
              /\ \E l \in Lookup(t, n) : SearchPath[l] = s
          BY <3>2, <3>4, <4>3
        <5>2. Folded[schema_list[i + 1].table_name] = n
          BY <5>1 DEF name
        <5>3. CASE \A k \in 1..i : Folded[Name(k)] # n
          BY <2>1, <3>3, <4>3, <5>1, <5>2, <5>3 DEF Dropped
        <5>4. CASE \E k \in 1..i : Folded[Name(k)] = n
          <6>1. PICK k \in 1..i : Folded[schema_list[k].table_name] = n
            BY <5>4
          <6>2. k \in (1..(i + 1)) \ {i + 1}
            BY <2>1
          <6> QED BY <2>1, <4>3, <5>1, <5>2, <6>1, <6>2 DEF Dropped
        <5> QED BY <5>3, <5>4
      <4> QED BY <3>1, <4>1, <4>2, <4>3
    <3>5. ASSUME r # NULL, SearchPath # <<>>, NEW k \in 1..(i + 1)
          PROVE  r[SearchPath[1]][Folded[Name(k)]] = NULL
      <4>1. CASE k = i + 1
        BY <3>2, <3>5, <4>1 DEF name
      <4>2. CASE k \in 1..i
        <5>1. t[SearchPath[1]][Folded[Name(k)]] = NULL
          BY <3>1, <3>5, <4>2
        <5>2. SearchPath[1] \in Schema /\ Folded[Name(k)] \in LocalName
          BY <2>1, <3>5, <4>2, SchemaAssumption
        <5> QED BY <3>2, <3>5, <5>1, <5>2
      <4> QED BY <2>1, <4>1, <4>2
    <3>6. ASSUME Apart
          PROVE  r # NULL <=> \A k \in 1..(i + 1) : ~Undroppable(tables, Folded[Name(k)])
      <4>1. \A k \in 1..i : Folded[Name(k)] # Folded[name]
        BY <2>1, <3>6 DEF name
      <4>2. Undroppable(t, Folded[name]) <=> Undroppable(tables, Folded[name])
        BY <2>4, <3>3, <4>1
      <4> QED BY <2>1, <3>1, <3>2, <3>6, <4>2 DEF name
    <3> QED BY <3>2, <3>4, <3>5, <3>6
  <2> QED BY <2>5, <2>6
<1>4. N \in D
  <2>1. N \in Nat /\ N \in 0..N
    OBVIOUS
  <2> HIDE DEF D, N
  <2> QED BY <1>2, <1>3, <2>1, Induction
<1>5. Good(N, f[N])
  BY <1>4
<1> QED BY <1>1, <1>5

(* Created is what the CREATEs leave one after the other.                  *)
LEMMA CreateDef ==
  ASSUME Len(commands) \in Nat
  PROVE  \E f : /\ f[0] = CommandsDropped
                /\ \A i \in 0..(Len(commands) - 1) :
                     f[i + 1] = CreateTable(f[i], commands[i + 1])
                /\ Created = f[Len(commands)]
<1> DEFINE N == Len(commands)
           Defines(g, n) ==
             g = [i \in 0..n |-> IF i = 0 THEN CommandsDropped
                                 ELSE CreateTable(g[i - 1], commands[i])]
           D == {n \in Nat : \E g : Defines(g, n)}
<1>1. 0 \in D
  <2>1. Defines([i \in 0..0 |-> CommandsDropped], 0)
    OBVIOUS
  <2> QED BY <2>1
<1>2. ASSUME NEW n \in 0..(N - 1), n \in D PROVE n + 1 \in D
  <2>1. PICK g : Defines(g, n)
    BY <1>2
  <2> DEFINE h == [i \in 0..(n + 1) |->
                     IF i = n + 1 THEN CreateTable(g[n], commands[i]) ELSE g[i]]
  <2>2. ASSUME NEW i \in 0..(n + 1)
        PROVE  h[i] = IF i = 0 THEN CommandsDropped
                      ELSE CreateTable(h[i - 1], commands[i])
    <3>1. CASE i = n + 1
      <4>1. i # 0 /\ h[i - 1] = g[n] /\ h[i] = CreateTable(g[n], commands[i])
        BY <3>1
      <4> QED BY <4>1
    <3>2. CASE i # n + 1
      <4>1. i \in 0..n /\ h[i] = g[i] /\ (i # 0 => h[i - 1] = g[i - 1])
        BY <3>2
      <4>2. g[i] = IF i = 0 THEN CommandsDropped ELSE CreateTable(g[i - 1], commands[i])
        BY <2>1, <4>1
      <4> QED BY <4>1, <4>2
    <3> QED BY <3>1, <3>2
  <2>3. Defines(h, n + 1)
    BY <2>2
  <2>4. n + 1 \in Nat
    OBVIOUS
  <2> QED BY <2>3, <2>4
<1>3. N \in D
  <2>1. N \in Nat /\ N \in 0..N
    OBVIOUS
  <2> HIDE DEF D, N
  <2> QED BY <1>1, <1>2, <2>1, Induction
<1> DEFINE f == CHOOSE g : Defines(g, N)
<1>4. Defines(f, N)
  BY <1>3
<1>5. Created = f[N]
  BY DEF Created
<1>6. f[0] = CommandsDropped
  <2>1. 0 \in 0..N
    OBVIOUS
  <2> QED BY <1>4, <2>1
<1>7. ASSUME NEW i \in 0..(N - 1)
      PROVE  f[i + 1] = CreateTable(f[i], commands[i + 1])
  <2>1. PICK j \in 0..N : j = i + 1 /\ j # 0 /\ j - 1 = i
    OBVIOUS
  <2>2. f[j] = IF j = 0 THEN CommandsDropped ELSE CreateTable(f[j - 1], commands[j])
    BY <1>4, <2>1
  <2> QED BY <2>1, <2>2
<1> HIDE DEF f, D
<1> QED BY <1>5, <1>6, <1>7

(* A CREATE fails, does nothing, or makes the table it names, which was not*)
(* there; one that is wanted is there afterwards.                          *)
LEMMA CreateOne ==
  ASSUME NEW tables \in Tables, NEW t, Folded[t.table_name] \in LocalName,
         ForeignTable(t) \in LocalTable, stmt.into \in Schema,
         NEW n, n = Folded[t.table_name],
         NEW r, r = CreateTable(tables, t)
  PROVE  /\ r # NULL =>
              /\ r \in Tables
              /\ \A s \in Schema, m \in LocalName :
                   \/ r[s][m] = tables[s][m]
                   \/ s = stmt.into /\ m = n /\ n \in stmt.wanted /\ tables[s][m] = NULL
              /\ n \in stmt.wanted => r[stmt.into][n] # NULL
              /\ n \in stmt.wanted /\ stmt.recreate =>
                   r[stmt.into][n] = ForeignTable(t)
         /\ CanCreate(t) /\ tables[stmt.into][n] = NULL => r # NULL
<1> DEFINE exists == tables[stmt.into][n] # NULL
<1>1. tables # NULL
  BY NoTableAssumption
<1>2. r = IF n \notin stmt.wanted \/ (exists /\ ~stmt.recreate) THEN tables
          ELSE IF exists \/ ~CanCreate(t) THEN NULL
          ELSE [tables EXCEPT ![stmt.into][n] = ForeignTable(t)]
  BY <1>1 DEF CreateTable
<1>3. CASE n \notin stmt.wanted \/ (exists /\ ~stmt.recreate)
  BY <1>1, <1>2, <1>3
<1>4. CASE /\ ~(n \notin stmt.wanted \/ (exists /\ ~stmt.recreate))
           /\ exists \/ ~CanCreate(t)
  BY <1>2, <1>4
<1>5. CASE /\ ~(n \notin stmt.wanted \/ (exists /\ ~stmt.recreate))
           /\ ~exists /\ CanCreate(t)
  <2>1. r = [tables EXCEPT ![stmt.into][n] = ForeignTable(t)]
    BY <1>2, <1>5
  <2>2. r \in Tables
    BY <2>1 DEF Tables
  <2>3. \A s \in Schema, m \in LocalName :
          r[s][m] = IF s = stmt.into /\ m = n THEN ForeignTable(t) ELSE tables[s][m]
    BY <2>1 DEF Tables
  <2>4. ForeignTable(t) # NULL /\ r # NULL
    BY <2>2, NoTableAssumption
  <2> QED BY <1>5, <2>2, <2>3, <2>4
<1> QED BY <1>3, <1>4, <1>5

(* A table in the list that was read.                                      *)
TableRead == [table_name : DOMAIN Folded, column_info : Seq(Column)]

(* The commands are about the recognizable tables that were read.          *)
LEMMA CommandsAre ==
  ASSUME schema_list \in Seq(TableRead)
  PROVE  /\ commands \in Seq(TableRead)
         /\ \A j \in DOMAIN commands : \E i \in DOMAIN schema_list :
              commands[j] = schema_list[i] /\ ~Unrecognizable(schema_list[i])
         /\ \A i \in DOMAIN schema_list : ~Unrecognizable(schema_list[i]) =>
              \E j \in DOMAIN commands : commands[j] = schema_list[i]
         /\ (\A i, k \in DOMAIN schema_list :
               Folded[schema_list[i].table_name] = Folded[schema_list[k].table_name]
                 => i = k)
            => (\A j, k \in DOMAIN commands :
                  Folded[commands[j].table_name] = Folded[commands[k].table_name] => j = k)
<1> DEFINE I == {i \in DOMAIN schema_list : ~Unrecognizable(schema_list[i])}
           N == Len(schema_list)
<1>1. commands = Select(schema_list, I)
  BY DEF commands
<1> HIDE DEF I
<1>2. commands \in Seq(TableRead) /\ \E h : Positions(h, commands, schema_list, I, N)
  BY <1>1, Selected
<1>3. PICK h : Positions(h, commands, schema_list, I, N)
  BY <1>2
<1>4. /\ h \in [DOMAIN commands -> (1..N) \cap I]
      /\ \A j \in DOMAIN commands : commands[j] = schema_list[h[j]]
      /\ \A j, k \in DOMAIN commands : j < k => h[j] < h[k]
      /\ \A i \in (1..N) \cap I : \E j \in DOMAIN commands : h[j] = i
  <2>1. DOMAIN commands = 1..Len(commands)
    BY <1>2
  <2> QED BY <1>3, <2>1, Zenon DEF Positions
<1>5. DOMAIN schema_list = 1..N /\ DOMAIN commands \subseteq Int
  BY <1>2
<1>6. ASSUME NEW j \in DOMAIN commands
      PROVE  \E i \in DOMAIN schema_list :
               commands[j] = schema_list[i] /\ ~Unrecognizable(schema_list[i])
  <2>1. h[j] \in DOMAIN schema_list /\ h[j] \in I /\ commands[j] = schema_list[h[j]]
    BY <1>4, <1>5
  <2> QED BY <2>1 DEF I
<1>7. ASSUME NEW i \in DOMAIN schema_list, ~Unrecognizable(schema_list[i])
      PROVE  \E j \in DOMAIN commands : commands[j] = schema_list[i]
  <2>1. i \in (1..N) \cap I
    BY <1>5, <1>7 DEF I
  <2> QED BY <1>4, <2>1
<1>8. ASSUME \A i, k \in DOMAIN schema_list :
               Folded[schema_list[i].table_name] = Folded[schema_list[k].table_name]
                 => i = k,
             NEW j \in DOMAIN commands, NEW k \in DOMAIN commands,
             Folded[commands[j].table_name] = Folded[commands[k].table_name]
      PROVE  j = k
  <2>1. /\ h[j] \in DOMAIN schema_list /\ h[k] \in DOMAIN schema_list
        /\ commands[j] = schema_list[h[j]] /\ commands[k] = schema_list[h[k]]
    BY <1>4, <1>5
  <2>2. h[j] = h[k]
    BY <1>8, <2>1
  <2>3. j \in Int /\ k \in Int /\ h[j] \in Int /\ h[k] \in Int
    BY <1>4, <1>5
  <2> QED BY <1>4, <2>2, <2>3
<1> QED BY <1>2, <1>6, <1>7, <1>8

(* What there is locally before the first CREATE, unless a DROP has failed.*)
LEMMA DroppedTables ==
  ASSUME local \in Tables, schema_list \in Seq(TableRead)
  PROVE  /\ CommandsDropped # NULL =>
              /\ CommandsDropped \in Tables
              /\ \A s \in Schema, n \in LocalName :
                   \/ CommandsDropped[s][n] = local[s][n]
                   \/ /\ CommandsDropped[s][n] = NULL
                      /\ stmt.recreate
                      /\ Dropped(local, s, n, Len(schema_list))
              /\ stmt.recreate /\ SearchPath # <<>> =>
                   \A i \in DOMAIN schema_list :
                     CommandsDropped[SearchPath[1]][Folded[schema_list[i].table_name]] = NULL
         /\ /\ stmt.recreate
            /\ \A i, j \in DOMAIN schema_list :
                 Folded[schema_list[i].table_name] = Folded[schema_list[j].table_name] => i = j
            => (CommandsDropped # NULL <=>
                  \A i \in DOMAIN schema_list :
                    ~Undroppable(local, Folded[schema_list[i].table_name]))
<1>1. /\ Len(schema_list) \in Nat /\ DOMAIN schema_list = 1..Len(schema_list)
      /\ \A i \in DOMAIN schema_list : schema_list[i] \in TableRead
  OBVIOUS
<1>2. \A i \in DOMAIN schema_list : Folded[schema_list[i].table_name] \in LocalName
  BY <1>1 DEF TableRead, LocalName, Range
<1>3. CASE stmt.recreate
  <2>1. CommandsDropped = jdbc_execute_commands(local)
    BY <1>3 DEF CommandsDropped
  <2> QED BY <1>1, <1>2, <1>3, <2>1, DropAll
<1>4. CASE ~stmt.recreate
  BY <1>4 DEF CommandsDropped
<1> QED BY <1>3, <1>4

(* What a CREATE makes, and where.                                         *)
LEMMA ForeignTableType ==
  ASSUME NEW t \in TableRead, stmt \in Statement
  PROVE  /\ Folded[t.table_name] \in LocalName
         /\ ForeignTable(t) \in LocalTable
         /\ stmt.into \in Schema
<1>1. stmt.mapping \in Mapping /\ stmt.into \in Schema
  BY DEF Statement
<1>2. ServerOf[stmt.mapping] \in Server
  BY <1>1, ServerOfAssumption
<1> QED BY <1>1, <1>2 DEF TableRead, LocalName, Range, ForeignTable, LocalTable

(* When no command fails, what was there after the DROPs is left, the tables*)
(* that are wanted are there as they were read, and nothing else is.       *)
LEMMA CreateAll ==
  ASSUME local \in Tables, schema_list \in Seq(TableRead), stmt \in Statement
  PROVE  /\ Created # NULL =>
              /\ Created \in Tables
              /\ \A s \in Schema, n \in LocalName :
                   \/ Created[s][n] = CommandsDropped[s][n]
                   \/ /\ CommandsDropped[s][n] = NULL
                      /\ s = stmt.into
                      /\ \E k \in DOMAIN commands :
                           Folded[commands[k].table_name] = n /\ n \in stmt.wanted
              /\ \A k \in DOMAIN commands :
                   Folded[commands[k].table_name] \in stmt.wanted =>
                     /\ Created[stmt.into][Folded[commands[k].table_name]] # NULL
                     /\ stmt.recreate =>
                          Created[stmt.into][Folded[commands[k].table_name]]
                            = ForeignTable(commands[k])
         /\ /\ \A k \in DOMAIN commands :
                 /\ CanCreate(commands[k])
                 /\ CommandsDropped[stmt.into][Folded[commands[k].table_name]] = NULL
            /\ \A j, k \in DOMAIN commands :
                 Folded[commands[j].table_name] = Folded[commands[k].table_name] => j = k
            /\ CommandsDropped # NULL
            => Created # NULL
         /\ Created # NULL => CommandsDropped # NULL
<1> DEFINE N == Len(commands)
           Name(k) == Folded[commands[k].table_name]
           base == CommandsDropped
           into == stmt.into
<1>1. /\ commands \in Seq(TableRead) /\ N \in Nat /\ DOMAIN commands = 1..N
      /\ \A k \in 1..N : commands[k] \in TableRead
  BY CommandsAre
<1>2. base # NULL => base \in Tables
  BY DroppedTables
<1>3. \A k \in 1..N : Name(k) \in LocalName /\ ForeignTable(commands[k]) \in LocalTable
  BY <1>1, ForeignTableType
<1>4. into \in Schema
  BY DEF Statement
<1>5. PICK f : /\ f[0] = base
               /\ \A i \in 0..(N - 1) : f[i + 1] = CreateTable(f[i], commands[i + 1])
               /\ Created = f[N]
  BY <1>1, CreateDef, Zenon
<1> DEFINE Unhindered ==
             /\ \A k \in 1..N : CanCreate(commands[k]) /\ base[into][Name(k)] = NULL
             /\ \A j, k \in 1..N : Name(j) = Name(k) => j = k
             /\ base # NULL
           Good(i, t) ==
             /\ t # NULL =>
                  /\ base # NULL
                  /\ t \in Tables
                  /\ \A s \in Schema, n \in LocalName :
                       \/ t[s][n] = base[s][n]
                       \/ /\ base[s][n] = NULL
                          /\ s = into
                          /\ \E k \in 1..i : Name(k) = n /\ n \in stmt.wanted
                  /\ \A k \in 1..i : Name(k) \in stmt.wanted =>
                       /\ t[into][Name(k)] # NULL
                       /\ stmt.recreate => t[into][Name(k)] = ForeignTable(commands[k])
             /\ Unhindered => t # NULL
           D == {i \in Nat : i \in 0..N => Good(i, f[i])}
<1>6. 0 \in D
  BY <1>2, <1>5
<1>7. ASSUME NEW i \in 0..(N - 1), i \in D PROVE i + 1 \in D
  <2>1. /\ i \in Nat /\ i + 1 \in Nat /\ i \in 0..N
        /\ i + 1 \in 1..(i + 1) /\ i + 1 \in 1..N
        /\ 1..i \subseteq 1..(i + 1) /\ \A k \in 1..(i + 1) : k \in 1..i \/ k = i + 1
        /\ \A k \in 1..i : k # i + 1 /\ k \in 1..N
        /\ \A k \in 1..(i + 1) : k \in 1..N
    BY <1>1
  <2> DEFINE t == f[i]
             r == f[i + 1]
             c == commands[i + 1]
             n == Name(i + 1)
  <2>2. Good(i, t)
    BY <1>7, <2>1
  <2>3. r = CreateTable(t, c) /\ n = Folded[c.table_name]
    BY <1>5
  <2> SUFFICES Good(i + 1, r)
    BY <2>1
  <2>4. c \in TableRead /\ n \in LocalName /\ ForeignTable(c) \in LocalTable
    BY <1>1, <1>3, <2>1
  <2>5. CASE t = NULL
    <3>1. r = NULL
      BY <2>3, <2>5 DEF CreateTable
    <3> QED BY <2>2, <2>5, <3>1
  <2>6. CASE t # NULL
    <3> HIDE DEF t, r, c, n
    <3>1. /\ base # NULL
          /\ t \in Tables
          /\ \A s \in Schema, m \in LocalName :
               \/ t[s][m] = base[s][m]
               \/ /\ base[s][m] = NULL
                  /\ s = into
                  /\ \E k \in 1..i : Name(k) = m /\ m \in stmt.wanted
          /\ \A k \in 1..i : Name(k) \in stmt.wanted =>
               /\ t[into][Name(k)] # NULL
               /\ stmt.recreate => t[into][Name(k)] = ForeignTable(commands[k])
      BY <2>2, <2>6
    <3>2. /\ r # NULL =>
               /\ r \in Tables
               /\ \A s \in Schema, m \in LocalName :
                    \/ r[s][m] = t[s][m]
                    \/ s = into /\ m = n /\ n \in stmt.wanted /\ t[s][m] = NULL
               /\ n \in stmt.wanted => r[into][n] # NULL
               /\ n \in stmt.wanted /\ stmt.recreate => r[into][n] = ForeignTable(c)
          /\ CanCreate(c) /\ t[into][n] = NULL => r # NULL
      BY <1>4, <2>3, <2>4, <3>1, CreateOne
    <3>3. ASSUME r # NULL, NEW s \in Schema, NEW m \in LocalName
          PROVE  \/ r[s][m] = base[s][m]
                 \/ /\ base[s][m] = NULL
                    /\ s = into
                    /\ \E k \in 1..(i + 1) : Name(k) = m /\ m \in stmt.wanted
      <4>1. CASE r[s][m] = t[s][m]
        BY <2>1, <3>1, <4>1
      <4>2. CASE s = into /\ m = n /\ n \in stmt.wanted /\ t[s][m] = NULL
        <5>1. Name(i + 1) = m /\ m \in stmt.wanted
          BY <4>2 DEF n
        <5>2. base[s][m] = NULL
          BY <3>1, <4>2
        <5> QED BY <2>1, <4>2, <5>1, <5>2
      <4> QED BY <3>2, <3>3, <4>1, <4>2
    <3>4. ASSUME r # NULL, NEW k \in 1..(i + 1), Name(k) \in stmt.wanted
          PROVE  /\ r[into][Name(k)] # NULL
                 /\ stmt.recreate => r[into][Name(k)] = ForeignTable(commands[k])
      <4>1. CASE k = i + 1
        BY <3>2, <3>4, <4>1 DEF n, c
      <4>2. CASE k \in 1..i
        <5>1. /\ t[into][Name(k)] # NULL
              /\ stmt.recreate => t[into][Name(k)] = ForeignTable(commands[k])
          BY <3>1, <3>4, <4>2
        <5>2. Name(k) \in LocalName
          BY <1>3, <2>1
        <5>3. r[into][Name(k)] = t[into][Name(k)]
          BY <1>4, <3>2, <3>4, <5>1, <5>2
        <5> QED BY <5>1, <5>3
      <4> QED BY <2>1, <4>1, <4>2
    <3>5. ASSUME Unhindered PROVE r # NULL
      <4>1. CanCreate(c) /\ base[into][n] = NULL
        BY <2>1, <3>5 DEF c, n
      <4>2. \A k \in 1..i : Name(k) # n
        BY <2>1, <3>5 DEF n
      <4>3. t[into][n] = NULL
        BY <1>4, <2>4, <3>1, <4>1, <4>2
      <4> QED BY <3>2, <4>1, <4>3
    <3> QED BY <3>1, <3>2, <3>3, <3>4, <3>5
  <2> QED BY <2>5, <2>6
<1>8. N \in D
  <2>1. N \in Nat /\ N \in 0..N
    BY <1>1
  <2> HIDE DEF D, N
  <2> QED BY <1>6, <1>7, <2>1, Induction
<1>9. Good(N, Created)
  BY <1>1, <1>5, <1>8
<1> HIDE DEF N
<1>10. DOMAIN commands = 1..N
  BY <1>1
<1> QED BY <1>9, <1>10

(* A string field: what was offered, nothing, or what freed memory holds.  *)
StringValue == STRING \cup {NULL, Garbage}

(***************************************************************************)
(* The invariant of options and connections.                               *)
(***************************************************************************)
(* The options of an object are a list that was offered to it.             *)
ListsRight ==
  /\ DOMAIN options = Server \cup Mapping
  /\ \A x \in Server \cup Mapping : options[x] # NULL => options[x] \in OfferedTo[x]

(* What is in the static structure; freed memory is pointed to by strings. *)
StructureRight ==
  /\ DOMAIN opts = Field
  /\ \A f \in StringField : opts[f] \in StringValue
  /\ \A f \in NumberField : opts[f] \in Int
  /\ freed \subseteq StringField
  /\ \A f \in freed : opts[f] # NULL
  /\ path \in Seq(StringValue)

(* A class is loaded from a jar on the path that has it.                   *)
LoadedRight ==
  \A c \in DOMAIN loaded :
    /\ \E i \in DOMAIN path : path[i] = loaded[c]
    /\ loaded[c] \in DOMAIN JarClasses
    /\ c \in JarClasses[loaded[c]]

(* A connection is made when both lists are there, which never change again,*)
(* and to a URL its driver accepts.                                        *)
ConnectionsRight ==
  /\ DOMAIN ConnectionHash = Mapping
  /\ ConnectionHash = [m \in Mapping |-> ConnectionHash[m]]
  /\ \A m \in Mapping : ConnectionHash[m] # NULL =>
       /\ options[m] # NULL /\ options[ServerOf[m]] # NULL
       /\ ConnectionHash[m] \in JDBCConnection
       /\ ConnectionHash[m].url \in Url

(* A statement's connections are in the hash.                              *)
ConnectedRight == \A m \in connected : m \in Mapping /\ ConnectionHash[m] # NULL

(* Options, static structure, loader and connections.                      *)
IInv == /\ ListsRight /\ StructureRight /\ LoadedRight /\ ConnectionsRight
        /\ ConnectedRight /\ OwnOptions /\ LoaderRecovers

(***************************************************************************)
(* The options a connection is made with.                                  *)
(***************************************************************************)
(* A user mapping has a server.                                            *)
LEMMA ServerOfType == \A m \in Mapping : ServerOf[m] \in Server
BY ServerOfAssumption

(* A number of seconds that fits is printed as it is.                      *)
LEMMA SmallNumber ==
  ASSUME NEW n, Printable(n)
  PROVE  querytimeout_string(n) = n
<1>1. /\ n \in Int
      /\ ~(n > NineNines)
      /\ ~(n < -NineNines)
      /\ ~(n < -EightNines)
  BY SMT DEF Printable, NineNines, EightNines
<1> QED BY <1>1 DEF querytimeout_string

(* querytimeout_string is a number, one that does not fit is cut.          *)
LEMMA TimeoutType ==
  ASSUME NEW n \in Int
  PROVE  querytimeout_string(n) \in Int
<1> DEFINE a == NineNines
           b == EightNines
<1>1. a \in Int /\ b \in Int
  BY DEF NineNines, EightNines
<1> HIDE DEF a, b
<1>2. querytimeout_string(n) =
        IF n > a THEN n \div 10
        ELSE IF n < -a THEN -((-n) \div 100)
        ELSE IF n < -b THEN -((-n) \div 10)
        ELSE n
  BY Zenon DEF querytimeout_string, a, b
<1>3. n \div 10 \in Int /\ (-n) \div 100 \in Int /\ (-n) \div 10 \in Int
  OBVIOUS
<1> QED BY <1>1, <1>2, <1>3

(* Whatever is left in the structure and wherever it points, a server and a*)
(* mapping that name everything are read as they are.                      *)
LEMMA SeenIsNamed ==
  ASSUME NEW m \in Mapping, NEW old, NEW dangling, NEW seen,
         dangling \subseteq StringField \ DOMAIN Named(m),
         Field \subseteq DOMAIN Named(m),
         seen \in ReadOptions(jdbc_get_server_options(old, Named(m)), dangling)
  PROVE  \A f \in Field : seen[f] = Named(m)[f]
<1>1. dangling = {}
  BY DEF Field
<1>2. PICK g \in SUBSET dangling :
        seen = [f \in Field |-> IF f \in g THEN Garbage
                                ELSE jdbc_get_server_options(old, Named(m))[f]]
  BY DEF ReadOptions
<1> QED BY <1>1, <1>2 DEF jdbc_get_server_options

(* What is named for m has the type of its field.                          *)
LEMMA NamedType ==
  ASSUME ListsRight, NEW m \in Mapping,
         options[m] # NULL, options[ServerOf[m]] # NULL,
         NEW f \in DOMAIN Named(m)
  PROVE  /\ f \in StringField => Named(m)[f] \in STRING
         /\ f \in NumberField => Named(m)[f] \in Int
<1>1. options[m] \in OfferedTo[m] /\ options[ServerOf[m]] \in OfferedTo[ServerOf[m]]
  BY ServerOfType DEF ListsRight
<1>2. \/ f \in DOMAIN options[m] /\ Named(m)[f] = options[m][f]
      \/ f \in DOMAIN options[ServerOf[m]] /\ Named(m)[f] = options[ServerOf[m]][f]
  BY DEF Named
<1> QED BY <1>1, <1>2, ServerOfType, OfferedAssumption

(* The fields by kind.                                                     *)
LEMMA FieldKinds ==
  /\ Field = StringField \cup NumberField
  /\ StringField \cap NumberField = {}
  /\ {"url", "drivername", "username", "password", "jarfile"} \subseteq StringField
  /\ "querytimeout" \in NumberField /\ "maxheapsize" \in NumberField
BY DEF Field, StringField, NumberField

(* What jdbc_get_server_options leaves in the structure.                   *)
LEMMA NewStructure ==
  ASSUME ListsRight, StructureRight, NEW m \in Mapping,
         options[m] # NULL, options[ServerOf[m]] # NULL,
         NEW new,
         new = jdbc_get_server_options([opts EXCEPT !.maxheapsize = 0], Named(m))
  PROVE  /\ DOMAIN new = Field
         /\ \A f \in StringField : new[f] \in StringValue
         /\ \A f \in NumberField : new[f] \in Int
         /\ \A f \in StringField \ DOMAIN Named(m) : new[f] = opts[f]
<1> DEFINE old == [opts EXCEPT !.maxheapsize = 0]
<1>1. /\ \A f \in StringField : old[f] = opts[f] /\ old[f] \in StringValue
      /\ \A f \in NumberField : old[f] \in Int
  BY FieldKinds DEF StructureRight
<1>2. /\ DOMAIN new = Field
      /\ \A f \in Field : new[f] = IF f \in DOMAIN Named(m) THEN Named(m)[f] ELSE old[f]
  BY DEF jdbc_get_server_options
<1> HIDE DEF old
<1>3. \A f \in StringField : new[f] \in StringValue
  BY <1>1, <1>2, NamedType, FieldKinds DEF StringValue
<1>4. \A f \in NumberField : new[f] \in Int
  BY <1>1, <1>2, NamedType, FieldKinds
<1> QED BY <1>1, <1>2, <1>3, <1>4, FieldKinds

(* What is read through the structure has the types of the structure.      *)
LEMMA SeenType ==
  ASSUME NEW new, NEW dangling \in SUBSET StringField,
         \A f \in StringField : new[f] \in StringValue,
         \A f \in NumberField : new[f] \in Int,
         NEW seen \in ReadOptions(new, dangling)
  PROVE  /\ \A f \in StringField : seen[f] \in StringValue
         /\ \A f \in NumberField : seen[f] \in Int
<1>1. PICK g \in SUBSET dangling :
        seen = [f \in Field |-> IF f \in g THEN Garbage ELSE new[f]]
  BY DEF ReadOptions
<1> QED BY <1>1, FieldKinds DEF StringValue

(* A connection is one of those JDBCConnection describes.                  *)
LEMMA ConnectionType ==
  ASSUME NEW seen,
         \A f \in StringField : seen[f] \in StringValue,
         \A f \in NumberField : seen[f] \in Int
  PROVE  JDBCConnectionOf(seen) \in JDBCConnection
<1>1. /\ seen["url"] \in StringValue /\ seen["drivername"] \in StringValue
      /\ seen["username"] \in StringValue /\ seen["password"] \in StringValue
      /\ querytimeout_string(seen["querytimeout"]) \in Int
  BY FieldKinds, TimeoutType
<1> QED BY <1>1 DEF JDBCConnectionOf, JDBCConnection, StringValue

(***************************************************************************)
(* The loader.                                                             *)
(***************************************************************************)
(* A class that is not loaded is looked for in the jar that was named.     *)
LEMMA JarIsSearched ==
  ASSUME path \in Seq(StringValue), NEW jar \in StringValue, NEW class
  PROVE  /\ LoaderPath(jar, class) \in Seq(StringValue)
         /\ \A i \in DOMAIN path :
              \E j \in DOMAIN LoaderPath(jar, class) : LoaderPath(jar, class)[j] = path[i]
         /\ ~CheckIfClassIsLoaded(class) =>
              \E i \in DOMAIN LoaderPath(jar, class) : LoaderPath(jar, class)[i] = jar
<1>1. CASE path = <<>>
  BY <1>1 DEF LoaderPath
<1>2. CASE path # <<>> /\ CheckIfClassIsLoaded(class)
  BY <1>2 DEF LoaderPath
<1>3. CASE path # <<>> /\ ~CheckIfClassIsLoaded(class)
  <2>1. LoaderPath(jar, class) = addPath(jar)
    BY <1>3 DEF LoaderPath
  <2>2. CASE Contains(path, jar)
    BY <2>1, <2>2 DEF addPath, Contains
  <2>3. CASE ~Contains(path, jar)
    <3>1. LoaderPath(jar, class) = Append(path, jar)
      BY <2>1, <2>3 DEF addPath
    <3>2. /\ Append(path, jar) \in Seq(StringValue)
          /\ Len(path) + 1 \in DOMAIN Append(path, jar)
          /\ Append(path, jar)[Len(path) + 1] = jar
          /\ \A i \in DOMAIN path :
               i \in DOMAIN Append(path, jar) /\ Append(path, jar)[i] = path[i]
      OBVIOUS
    <3> QED BY <3>1, <3>2
  <2> QED BY <2>2, <2>3
<1> QED BY <1>1, <1>2, <1>3

(* A class that cannot be loaded is not in the jar that was named.         *)
LEMMA NotLoadable ==
  ASSUME path \in Seq(StringValue), NEW jar \in StringValue, NEW class,
         ~Loadable(LoaderPath(jar, class), class)
  PROVE  jar \notin DOMAIN JarClasses \/ class \notin JarClasses[jar]
<1>1. ~CheckIfClassIsLoaded(class) /\ JarsWith(LoaderPath(jar, class), class) = {}
  BY DEF Loadable
<1>2. PICK i \in DOMAIN LoaderPath(jar, class) : LoaderPath(jar, class)[i] = jar
  BY <1>1, JarIsSearched
<1> QED BY <1>1, <1>2 DEF JarsWith

(* The first jar that has the class, if one has: there is a first one.     *)
LEMMA LoadClassRight ==
  ASSUME LoadedRight, path \in Seq(StringValue), NEW jar \in StringValue, NEW class,
         path' = LoaderPath(jar, class),
         \/ UNCHANGED loaded
         \/ Loadable(path', class) /\ loaded' = loadClass(path', class)
  PROVE  LoadedRight'
<1>1. \A i \in DOMAIN path : \E j \in DOMAIN path' : path'[j] = path[i]
  BY JarIsSearched
<1>2. CASE UNCHANGED loaded \/ CheckIfClassIsLoaded(class)
  <2>1. loaded' = loaded
    BY <1>2 DEF loadClass
  <2> QED BY <1>1, <2>1 DEF LoadedRight
<1>3. CASE /\ ~CheckIfClassIsLoaded(class)
           /\ Loadable(path', class) /\ loaded' = loadClass(path', class)
  <2> DEFINE J == JarsWith(path', class)
             first == CHOOSE i \in J : \A j \in J : i <= j
  <2>1. J # {} /\ J \subseteq DOMAIN path'
    BY <1>3 DEF Loadable, JarsWith
  <2>2. J \subseteq Nat
    BY <2>1, JarIsSearched
  <2>3. \E i \in J : \A j \in J : i <= j
    <3> HIDE DEF J
    <3> QED BY <2>1, <2>2, SmallestIndex
  <2>4. first \in J
    <3> HIDE DEF J
    <3> QED BY <2>3
  <2>5. loaded' = [c \in DOMAIN loaded \cup {class} |->
                     IF c = class THEN path'[first] ELSE loaded[c]]
    BY <1>3, Zenon DEF loadClass
  <2> HIDE DEF first
  <2>6. /\ first \in DOMAIN path' /\ path'[first] \in DOMAIN JarClasses
        /\ class \in JarClasses[path'[first]]
    BY <2>4 DEF JarsWith
  <2> QED BY <1>1, <2>5, <2>6 DEF LoadedRight
<1> QED BY <1>2, <1>3

(* A class that can be loaded is a driver.                                 *)
LEMMA UrlKnown ==
  ASSUME LoadedRight, NEW p, NEW class, Loadable(p, class)
  PROVE  UrlsOf[class] \subseteq Url
<1>1. class \in DOMAIN UrlsOf
  BY DriverAssumption DEF Loadable, CheckIfClassIsLoaded, LoadedRight, JarsWith
<1> QED BY <1>1, RelationAssumption

(***************************************************************************)
(* The steps.                                                              *)
(***************************************************************************)
(* At first there is nothing that could be wrong.                          *)
LEMMA InitInv == Init => IInv
<1> SUFFICES ASSUME Init PROVE IInv
  OBVIOUS
<1> USE DEF Init, OptionInit
<1>1. ListsRight
  BY DEF ListsRight
<1>2. StructureRight
  BY FieldKinds DEF StructureRight, StringValue
<1>3. ConnectionsRight /\ OwnOptions
  BY DEF ConnectionsRight, OwnOptions
<1>4. LoaderRecovers
  BY DEF LoaderRecovers, NoOutcome
<1>5. LoadedRight /\ ConnectedRight
  BY DEF LoadedRight, ConnectedRight
<1> QED BY <1>1, <1>2, <1>3, <1>4, <1>5 DEF IInv

(* Of the lists of a mapping that has a connection none is set anew.       *)
LEMMA CreateObjectInv ==
  ASSUME IInv, NEW x \in Server \cup Mapping, NEW list \in OfferedTo[x],
         CreateObject(x, list)
  PROVE  IInv'
<1> USE DEF IInv, CreateObject, staticVars
<1>1. ListsRight'
  BY DEF ListsRight
<1>2. StructureRight'
  BY DEF StructureRight
<1>3. ASSUME NEW m \in Mapping, ConnectionHash[m] # NULL
      PROVE  options'[m] = options[m] /\ options'[ServerOf[m]] = options[ServerOf[m]]
  BY <1>3, ServerOfType DEF ConnectionsRight, ListsRight
<1>4. ConnectionsRight'
  BY <1>3 DEF ConnectionsRight
<1>5. OwnOptions'
  <2> SUFFICES ASSUME NEW m \in Mapping, ConnectionHash[m] # NULL
               PROVE  Complete(m)' = Complete(m) /\ Named(m)' = Named(m)
    BY DEF OwnOptions
  <2> QED BY <1>3 DEF Complete, Named
<1>6. LoaderRecovers' /\ LoadedRight' /\ ConnectedRight'
  BY DEF LoaderRecovers, LoadedRight, ConnectedRight
<1> QED BY <1>1, <1>2, <1>4, <1>5, <1>6

(* While the options stay as they are, so does all that is named.          *)
LEMMA SameNamed ==
  ASSUME UNCHANGED options, NEW m
  PROVE  Named(m)' = Named(m) /\ Complete(m)' = Complete(m)
BY DEF Named, Complete

(* A connection that is marked invalid is otherwise the same.              *)
LEMMA InvalidatedType ==
  ASSUME NEW c \in JDBCConnection, NEW d, d = [c EXCEPT !.invalidate = TRUE]
  PROVE  /\ d \in JDBCConnection /\ d # NULL
         /\ \A f \in {"url", "driver", "username", "password", "queryTimeoutValue"} :
              d[f] = c[f]
<1> DEFINE String == STRING \cup {NULL, Garbage}
<1> HIDE DEF String
<1>1. JDBCConnection = [invalidate : BOOLEAN, url : String, driver : String,
                        username : String, password : String, queryTimeoutValue : Int]
  BY DEF JDBCConnection, String
<1>2. d \in JDBCConnection
  BY <1>1
<1>3. \A f \in {"url", "driver", "username", "password", "queryTimeoutValue"} : d[f] = c[f]
  BY <1>1
<1> QED BY <1>2, <1>3, NoConnectionAssumption

(* A message leaves the options of the connections as they are.            *)
LEMMA InvalidateInv ==
  ASSUME IInv, NEW m \in Mapping, InvalidateConnection(m)
  PROVE  IInv'
<1> USE DEF IInv, InvalidateConnection
<1>1. ListsRight' /\ StructureRight' /\ LoaderRecovers' /\ LoadedRight'
  BY DEF ListsRight, StructureRight, LoaderRecovers, LoadedRight
<1>2. ASSUME NEW n \in Mapping
      PROVE  /\ ConnectionHash'[n] # NULL <=> ConnectionHash[n] # NULL
             /\ ConnectionHash[n] # NULL =>
                  /\ ConnectionHash'[n] \in JDBCConnection
                  /\ \A f \in {"url", "driver", "username", "password",
                             "queryTimeoutValue"} :
                       ConnectionHash'[n][f] = ConnectionHash[n][f]
  <2>1. CASE n # m
    BY <2>1 DEF ConnectionsRight
  <2>2. CASE n = m
    <3>1. /\ ConnectionHash[n] \in JDBCConnection /\ ConnectionHash[n] # NULL
          /\ ConnectionHash'[n] = [ConnectionHash[n] EXCEPT !.invalidate = TRUE]
      BY <2>2 DEF ConnectionsRight, Reusable
    <3> QED BY <3>1, InvalidatedType
  <2> QED BY <2>1, <2>2
<1>3. ConnectionsRight' /\ ConnectedRight'
  <2>1. /\ DOMAIN ConnectionHash' = Mapping
        /\ ConnectionHash' = [n \in Mapping |-> ConnectionHash'[n]]
    BY DEF ConnectionsRight
  <2>2. ASSUME NEW n \in Mapping, ConnectionHash'[n] # NULL
        PROVE  /\ options'[n] # NULL /\ options'[ServerOf[n]] # NULL
               /\ ConnectionHash'[n] \in JDBCConnection
               /\ ConnectionHash'[n].url \in Url
    BY <1>2, <2>2 DEF ConnectionsRight
  <2>3. ConnectedRight'
    BY <1>2 DEF ConnectedRight
  <2> QED BY <2>1, <2>2, <2>3 DEF ConnectionsRight
<1>4. OwnOptions'
  <2> SUFFICES ASSUME NEW n \in Mapping, ConnectionHash'[n] # NULL, Complete(n)'
               PROVE  LET conn == ConnectionHash'[n] IN
                      /\ conn.url = Named(n)'["url"]
                      /\ conn.driver = Named(n)'["drivername"]
                      /\ conn.username = Named(n)'["username"]
                      /\ conn.password = Named(n)'["password"]
                      /\ Printable(Named(n)'["querytimeout"]) =>
                           conn.queryTimeoutValue = Named(n)'["querytimeout"]
    BY DEF OwnOptions
  <2>1. Named(n)' = Named(n) /\ Complete(n)
    BY SameNamed
  <2>2. \A f \in {"url", "driver", "username", "password", "queryTimeoutValue"} :
          ConnectionHash'[n][f] = ConnectionHash[n][f]
    BY <1>2 DEF ConnectionsRight
  <2> QED BY <1>2, <2>1, <2>2 DEF OwnOptions
<1> QED BY <1>1, <1>3, <1>4

(* Lists are freed that no connection needs any more.                      *)
LEMMA EndStatementInv ==
  ASSUME IInv, EndStatement
  PROVE  IInv'
<1> USE DEF IInv, EndStatement
<1>1. ListsRight' /\ StructureRight' /\ LoadedRight'
  BY DEF ListsRight, StructureRight, LoadedRight
<1>2. ConnectionsRight' /\ ConnectedRight'
  BY DEF ConnectionsRight, ConnectedRight
<1>3. OwnOptions'
  BY SameNamed DEF OwnOptions
<1>4. LoaderRecovers'
  BY DEF LoaderRecovers, NoOutcome
<1> QED BY <1>1, <1>2, <1>3, <1>4

(* A connection is made with what is read through the structure.           *)
LEMMA NewConnection ==
  ASSUME IInv, NEW m \in Mapping, NEW seen, UNCHANGED options,
         options[m] # NULL, options[ServerOf[m]] # NULL,
         Complete(m) => \A f \in Field : seen[f] = Named(m)[f],
         JDBCConnectionOf(seen) \in JDBCConnection, seen.url \in Url,
         ConnectionHash' = [ConnectionHash EXCEPT ![m] = JDBCConnectionOf(seen)]
  PROVE  /\ ConnectionsRight' /\ OwnOptions'
         /\ \A n \in Mapping :
              ConnectionHash'[n] # NULL <=> n = m \/ ConnectionHash[n] # NULL
<1>1. \A n \in Mapping :
        ConnectionHash'[n] = IF n = m THEN JDBCConnectionOf(seen) ELSE ConnectionHash[n]
  BY DEF IInv, ConnectionsRight
<1>2. ConnectionsRight'
  <2>1. JDBCConnectionOf(seen).url = seen.url
    BY DEF JDBCConnectionOf
  <2> QED BY <1>1, <2>1 DEF IInv, ConnectionsRight
<1>3. ASSUME NEW n \in Mapping, ConnectionHash'[n] # NULL, Complete(n)'
      PROVE  LET conn == ConnectionHash'[n] IN
             /\ conn.url = Named(n)'["url"]
             /\ conn.driver = Named(n)'["drivername"]
             /\ conn.username = Named(n)'["username"]
             /\ conn.password = Named(n)'["password"]
             /\ Printable(Named(n)'["querytimeout"]) =>
                  conn.queryTimeoutValue = Named(n)'["querytimeout"]
  <2>1. Named(n)' = Named(n) /\ Complete(n)
    BY <1>3, SameNamed
  <2>2. CASE n # m
    BY <1>1, <1>3, <2>1, <2>2 DEF IInv, OwnOptions
  <2>3. CASE n = m
    <3>1. \A f \in Field : seen[f] = Named(m)[f]
      BY <2>1, <2>3
    <3>2. ConnectionHash'[n] = JDBCConnectionOf(seen)
      BY <1>1, <2>3
    <3> QED BY <2>1, <2>3, <3>1, <3>2, SmallNumber
            DEF JDBCConnectionOf, Field, StringField, NumberField
  <2> QED BY <2>2, <2>3
<1>4. OwnOptions'
  BY <1>3 DEF OwnOptions
<1> QED BY <1>1, <1>2, <1>4, NoConnectionAssumption

(* Connections and options that stay do not come apart.                    *)
LEMMA SameConnections ==
  ASSUME IInv, UNCHANGED <<options, ConnectionHash>>
  PROVE  ConnectionsRight' /\ OwnOptions'
BY SameNamed DEF IInv, ConnectionsRight, OwnOptions

(* What connecting for m leaves: a connection of m if the outcome says so. *)
Connects(m) ==
  /\ ConnectionsRight' /\ OwnOptions' /\ LoaderRecovers' /\ LoadedRight'
  /\ path' \in Seq(StringValue)
  /\ \A n \in Mapping : ConnectionHash[n] # NULL => ConnectionHash'[n] # NULL
  /\ outcome'.result = "connected" => ConnectionHash'[m] # NULL

(* A connection that fails leaves the hash as it is.                       *)
LEMMA FailedConnection ==
  ASSUME IInv, UNCHANGED options, NEW m \in Mapping, NEW seen, NEW result,
         Fails(m, seen, result), result # "connected",
         path' \in Seq(StringValue), LoaderRecovers', LoadedRight'
  PROVE  Connects(m)
BY SameConnections DEF Fails, Connects

(* createConnection makes a connection that is right, or none.             *)
LEMMA CreateConnectionInv ==
  ASSUME IInv, NEW m \in Mapping, NEW seen, UNCHANGED options,
         options[m] # NULL, options[ServerOf[m]] # NULL,
         Complete(m) => \A f \in Field : seen[f] = Named(m)[f],
         \A f \in StringField : seen[f] \in StringValue,
         \A f \in NumberField : seen[f] \in Int,
         createConnection(m, seen)
  PROVE  Connects(m)
<1> DEFINE p == LoaderPath(seen.jarfile, seen.drivername)
<1>1. seen.jarfile \in StringValue
  BY FieldKinds
<1>2. path \in Seq(StringValue) /\ LoadedRight
  BY DEF IInv, StructureRight
<1>3. p \in Seq(StringValue)
  BY <1>1, <1>2, JarIsSearched
<1> HIDE DEF p
<1>4. CASE Fails(m, seen, "no jar") /\ UNCHANGED <<path, loaded>>
  BY <1>2, <1>4, FailedConnection DEF Fails, LoaderRecovers, LoadedRight
<1>5. CASE path' = p /\ ~Loadable(p, seen.drivername)
           /\ Fails(m, seen, "class not found") /\ UNCHANGED loaded
  <2>1. \/ seen.jarfile \notin DOMAIN JarClasses
        \/ seen.drivername \notin JarClasses[seen.jarfile]
    BY <1>1, <1>2, <1>5, NotLoadable DEF p
  <2>2. LoaderRecovers'
    BY <1>5, <2>1 DEF LoaderRecovers, Fails
  <2>3. LoadedRight'
    BY <1>1, <1>2, <1>5, LoadClassRight DEF p
  <2> QED BY <1>3, <1>5, <2>2, <2>3, FailedConnection
<1>6. CASE path' = p /\ Loadable(p, seen.drivername)
           /\ loaded' = loadClass(p, seen.drivername)
           /\ \/ Fails(m, seen, "not connected")
              \/ /\ seen.url \in UrlsOf[seen.drivername]
                 /\ ConnectionHash' = [ConnectionHash EXCEPT ![m] = JDBCConnectionOf(seen)]
                 /\ outcome' = [mapping |-> m, result |-> "connected", seen |-> seen]
  <2>1. LoadedRight'
    BY <1>1, <1>2, <1>6, LoadClassRight DEF p
  <2>2. CASE Fails(m, seen, "not connected")
    BY <1>3, <1>6, <2>1, <2>2, FailedConnection DEF Fails, LoaderRecovers
  <2>3. CASE /\ seen.url \in UrlsOf[seen.drivername]
             /\ ConnectionHash' = [ConnectionHash EXCEPT ![m] = JDBCConnectionOf(seen)]
             /\ outcome' = [mapping |-> m, result |-> "connected", seen |-> seen]
    <3>1. seen.url \in Url
      BY <1>2, <1>6, <2>3, UrlKnown
    <3>2. JDBCConnectionOf(seen) \in JDBCConnection
      BY ConnectionType
    <3>3. /\ ConnectionsRight' /\ OwnOptions'
          /\ \A n \in Mapping :
               ConnectionHash'[n] # NULL <=> n = m \/ ConnectionHash[n] # NULL
      BY <2>3, <3>1, <3>2, NewConnection
    <3>4. LoaderRecovers'
      BY <2>3 DEF LoaderRecovers
    <3> QED BY <1>3, <1>6, <2>1, <3>3, <3>4 DEF Connects
  <2> QED BY <1>6, <2>2, <2>3
<1> QED BY <1>4, <1>5, <1>6 DEF createConnection, p

(* jdbc_jvm_init fills the structure before the connection is made.        *)
LEMMA ConnectServerInv ==
  ASSUME IInv, NEW m \in Mapping, NEW superuser,
         options[m] # NULL, options[ServerOf[m]] # NULL,
         ConnectServer(m, superuser)
  PROVE  IInv'
<1>1. /\ UNCHANGED options
      /\ opts' = jdbc_get_server_options([opts EXCEPT !.maxheapsize = 0], Named(m))
      /\ freed' = freed \ DOMAIN Named(m)
      /\ connected' = IF outcome'.result = "connected"
                      THEN connected \cup {m} ELSE connected
  BY DEF ConnectServer
<1>2. ListsRight'
  BY <1>1 DEF IInv, ListsRight
<1>3. freed' \subseteq StringField \ DOMAIN Named(m)
  BY <1>1 DEF IInv, StructureRight
<1>4. /\ DOMAIN opts' = Field
      /\ \A f \in StringField : opts'[f] \in StringValue
      /\ \A f \in NumberField : opts'[f] \in Int
      /\ \A f \in StringField \ DOMAIN Named(m) : opts'[f] = opts[f]
  BY <1>1, NewStructure DEF IInv
<1>5. \A f \in freed' : opts'[f] # NULL
  BY <1>1, <1>3, <1>4 DEF IInv, StructureRight
<1>6. Connects(m)
  <2>1. path \in Seq(StringValue) /\ LoadedRight
    BY DEF IInv, StructureRight
  <2>2. CASE Fails(m, NULL, "no jvm") /\ UNCHANGED <<path, loaded>>
    BY <1>1, <2>1, <2>2, FailedConnection DEF Fails, LoaderRecovers, LoadedRight
  <2>3. CASE \E seen \in ReadOptions(opts', freed') :
               ReuseConnection(m, seen) \/ createConnection(m, seen)
    <3> PICK seen \in ReadOptions(opts', freed') :
          ReuseConnection(m, seen) \/ createConnection(m, seen)
      BY <2>3
    <3>1. CASE ReuseConnection(m, seen)
      <4>1. ConnectionsRight' /\ OwnOptions'
        BY <1>1, <3>1, SameConnections DEF ReuseConnection
      <4> QED BY <2>1, <3>1, <4>1
              DEF ReuseConnection, Reusable, Connects, LoaderRecovers, LoadedRight
    <3>2. CASE createConnection(m, seen)
      <4>1. Complete(m) => \A f \in Field : seen[f] = Named(m)[f]
        BY <1>1, <1>3, SeenIsNamed DEF Complete
      <4>2. /\ \A f \in StringField : seen[f] \in StringValue
            /\ \A f \in NumberField : seen[f] \in Int
        BY <1>3, <1>4, SeenType
      <4> QED BY <1>1, <3>2, <4>1, <4>2, CreateConnectionInv
    <3> QED BY <3>1, <3>2
  <2> QED BY <2>2, <2>3 DEF ConnectServer
<1>7. ConnectedRight'
  BY <1>1, <1>6 DEF ConnectedRight, Connects, IInv
<1> QED BY <1>2, <1>3, <1>4, <1>5, <1>6, <1>7 DEF Connects, IInv, StructureRight

(* So does connect_jdbc_server, or it refuses.                             *)
LEMMA ConnectInv ==
  ASSUME IInv, NEW m \in Mapping, NEW superuser, connect_jdbc_server(m, superuser)
  PROVE  IInv'
<1>1. CASE ConnectRefused(m, superuser)
  <2>1. /\ ListsRight' /\ StructureRight' /\ LoadedRight'
        /\ ConnectedRight' /\ LoaderRecovers'
    BY <1>1 DEF ConnectRefused, Fails, IInv, ListsRight, StructureRight, LoadedRight,
                ConnectedRight, LoaderRecovers
  <2> QED BY <1>1, <2>1, SameConnections DEF ConnectRefused, Fails, IInv
<1>2. CASE ConnectServer(m, superuser)
  BY <1>2, ConnectServerInv DEF connect_jdbc_server
<1> QED BY <1>1, <1>2 DEF connect_jdbc_server

(* Steps of the import that do not touch the connections.                  *)
LEMMA StutterInv ==
  ASSUME IInv, UNCHANGED optionVars
  PROVE  IInv'
<1>1. /\ ListsRight' /\ StructureRight' /\ LoadedRight'
      /\ ConnectedRight' /\ LoaderRecovers'
  BY DEF optionVars, IInv, ListsRight, StructureRight, LoadedRight, ConnectedRight,
         LoaderRecovers
<1> QED BY <1>1, SameConnections DEF IInv, optionVars

(***************************************************************************)
(* The remote database.                                                    *)
(***************************************************************************)
(* The remote database is one of those that were thought of.               *)
RemoteRight ==
  /\ DOMAIN remote = Relation
  /\ \A r \in Relation : remote[r] \in Definitions[r] \cup {NULL}

(* A column as the driver describes it.                                    *)
RemoteColumn == [name : STRING, type : STRING]

(* A table exists once in the list of its database.                        *)
LEMMA ExistingAre ==
  ASSUME NEW u \in Url
  PROVE  /\ Existing(u) \in Seq(Relation)
         /\ \A i \in DOMAIN Existing(u) : remote[Existing(u)[i]] # NULL
         /\ \A i, j \in DOMAIN Existing(u) : Existing(u)[i] = Existing(u)[j] => i = j
<1> DEFINE s == RelationsIn[u]
           I == {i \in DOMAIN s : remote[s[i]] # NULL}
           E == Existing(u)
<1>1. s \in Seq(Relation) /\ \A i, j \in DOMAIN s : s[i] = s[j] => i = j
  BY RelationAssumption DEF IsInjective
<1>2. E = Select(s, I)
  BY DEF Existing
<1> HIDE DEF I, E, s
<1>3. E \in Seq(Relation) /\ \E h : Positions(h, E, s, I, Len(s))
  BY <1>1, <1>2, Selected
<1>4. PICK h : Positions(h, E, s, I, Len(s))
  BY <1>3
<1>5. DOMAIN E = 1..Len(E) /\ DOMAIN s = 1..Len(s) /\ DOMAIN E \subseteq Int
  BY <1>1, <1>3
<1>6. /\ h \in [DOMAIN E -> DOMAIN s \cap I]
      /\ \A j \in DOMAIN E : E[j] = s[h[j]]
      /\ \A j, k \in DOMAIN E : j < k => h[j] < h[k]
  BY <1>4, <1>5, Zenon DEF Positions
<1>7. ASSUME NEW i \in DOMAIN E PROVE remote[E[i]] # NULL
  <2>1. h[i] \in I /\ E[i] = s[h[i]]
    BY <1>6
  <2> QED BY <2>1 DEF I
<1>8. ASSUME NEW i \in DOMAIN E, NEW j \in DOMAIN E, E[i] = E[j] PROVE i = j
  <2>1. h[i] = h[j]
    BY <1>1, <1>6, <1>8
  <2>2. i \in Int /\ j \in Int /\ h[i] \in Int /\ h[j] \in Int
    BY <1>5, <1>6
  <2> QED BY <1>6, <2>1, <2>2
<1> QED BY <1>3, <1>7, <1>8 DEF E

(* A table that exists has columns.                                        *)
LEMMA RemoteColumns ==
  ASSUME RemoteRight, NEW r \in Relation, remote[r] # NULL
  PROVE  remote[r].columns \in Seq(RemoteColumn)
BY DefinitionAssumption DEF RemoteRight, RemoteColumn

(* getColumns joins the columns of the tables that match.                  *)
LEMMA GetColumnsAre ==
  ASSUME RemoteRight, Database \in Url, NEW name
  PROVE  \E seqs \in Seq(Seq(RemoteColumn)) :
           /\ getColumns(name) = FlattenSeq(seqs)
           /\ Len(seqs) = Len(Existing(Database))
           /\ \A i \in 1..Len(seqs) :
                seqs[i] = IF Matches(name, Existing(Database)[i])
                          THEN remote[Existing(Database)[i]].columns ELSE <<>>
<1> DEFINE E == Existing(Database)
           seqs == [i \in DOMAIN E |->
                      IF Matches(name, E[i]) THEN remote[E[i]].columns ELSE <<>>]
<1>1. E \in Seq(Relation) /\ \A i \in DOMAIN E : remote[E[i]] # NULL
  BY ExistingAre
<1>2. getColumns(name) = FlattenSeq(seqs)
  BY DEF getColumns
<1> HIDE DEF E
<1>3. \A i \in DOMAIN E : remote[E[i]].columns \in Seq(RemoteColumn)
  BY <1>1, RemoteColumns
<1>4. /\ seqs \in Seq(Seq(RemoteColumn)) /\ Len(seqs) = Len(E)
      /\ \A i \in 1..Len(seqs) :
           seqs[i] = IF Matches(name, E[i]) THEN remote[E[i]].columns ELSE <<>>
  <2>1. DOMAIN E = 1..Len(E) /\ Len(E) \in Nat
    BY <1>1
  <2>2. \A i \in 1..Len(E) : seqs[i] \in Seq(RemoteColumn)
    BY <1>3, <2>1
  <2>3. DOMAIN seqs = 1..Len(E)
    BY <2>1
  <2>4. \A i \in 1..Len(E) :
          seqs[i] = IF Matches(name, E[i]) THEN remote[E[i]].columns ELSE <<>>
    BY <2>1
  <2>5. seqs = [i \in 1..Len(E) |-> seqs[i]]
    BY <2>1
  <2> HIDE DEF seqs
  <2>6. seqs \in Seq(Seq(RemoteColumn)) /\ Len(seqs) = Len(E)
    BY <2>1, <2>2, <2>5
  <2> QED BY <2>4, <2>6
<1> HIDE DEF seqs
<1> QED BY <1>2, <1>4 DEF E

(* getColumns returns columns.                                             *)
LEMMA GetColumnsType ==
  ASSUME RemoteRight, Database \in Url, NEW name
  PROVE  getColumns(name) \in Seq(RemoteColumn)
BY GetColumnsAre, FlattenType

(* The pattern that is given for the name of a table finds its columns, if *)
(* the table cannot be mistaken.                                           *)
LEMMA ColumnsOfOne ==
  ASSUME RemoteRight, Database \in Url,
         NEW k \in DOMAIN Existing(Database), NEW r, r = Existing(Database)[k],
         Unmistakable(r, Database)
  PROVE  /\ getColumns(NameOf[r]) = remote[r].columns
         /\ getPrimaryKeys(NameOf[r]) = remote[r].key
<1> DEFINE E == Existing(Database)
           name == NameOf[r]
<1>1. /\ E \in Seq(Relation) /\ r \in Relation
      /\ \A i \in DOMAIN E : remote[E[i]] # NULL
      /\ \A i, j \in DOMAIN E : E[i] = E[j] => i = j
  BY ExistingAre
<1>2. /\ \A i \in DOMAIN E : i # k => ~Matches(name, E[i])
      /\ Matches(name, E[k])
  BY <1>1 DEF Unmistakable, Range, Matches
<1>3. getColumns(name) = remote[r].columns
  <2>1. PICK seqs \in Seq(Seq(RemoteColumn)) :
          /\ getColumns(name) = FlattenSeq(seqs)
          /\ Len(seqs) = Len(E)
          /\ \A i \in 1..Len(seqs) :
               seqs[i] = IF Matches(name, E[i]) THEN remote[E[i]].columns ELSE <<>>
    BY GetColumnsAre, Zenon
  <2>2. DOMAIN E = 1..Len(seqs)
    BY <1>1, <2>1
  <2>3. seqs[k] = remote[r].columns /\ k \in 1..Len(seqs)
    BY <1>2, <2>1, <2>2
  <2>4. \A j \in 1..Len(seqs) : j # k => seqs[j] = <<>>
    BY <1>2, <2>1, <2>2
  <2>5. FlattenSeq(seqs) = seqs[k]
    BY <2>3, <2>4, FlattenOne
  <2> QED BY <2>1, <2>3, <2>5
<1>4. getPrimaryKeys(name) = remote[r].key
  <2>1. {q \in Range(E) : NameOf[q] = name} = {r}
    BY <1>1, <1>2 DEF Range, Matches
  <2> QED BY <2>1 DEF getPrimaryKeys
<1> QED BY <1>3, <1>4

(***************************************************************************)
(* The invariant of a session.                                             *)
(***************************************************************************)
(* Tables, statement and lists are what they should be.                    *)
ReadRight ==
  /\ local \in Tables
  /\ stmt # NULL => stmt \in Statement
  /\ pc = "idle" => stmt = NULL
  /\ tableName \in Seq(DOMAIN Folded)
  /\ columnNames \in Seq(STRING)
  /\ columnTypes \in Seq(ColumnType)
  /\ schema_list \in Seq(TableRead)
  /\ changes \in Nat /\ imports \in Nat

(* What TypeOK says of the statement.                                      *)
ControlRight ==
  /\ pc \in {"idle", "tables", "names", "types", "key", "commands", "done"}
  /\ pc \notin {"idle", "done"} => stmt # NULL /\ connected = {stmt.mapping}
  /\ pc \in {"names", "types", "key"} <=> tableName # <<>>
  /\ changes <= MaxChanges /\ imports <= MaxImports

(* The whole session.                                                      *)
SessionInv == IInv /\ RemoteRight /\ ReadRight /\ ControlRight

(* The invariant has what TypeOK says.                                     *)
LEMMA SessionTypeOK ==
  ASSUME SessionInv
  PROVE  TypeOK
<1>1. /\ freed \subseteq StringField /\ \A f \in freed : opts[f] # NULL
      /\ \A m \in connected : ConnectionHash[m] # NULL
  BY DEF SessionInv, IInv, StructureRight, ConnectedRight
<1>2. Range(loaded) \subseteq Range(path)
  BY DEF SessionInv, IInv, LoadedRight, Range
<1>3. DOMAIN loaded # {} => path # <<>>
  <2> SUFFICES ASSUME NEW c \in DOMAIN loaded, path = <<>> PROVE FALSE
    OBVIOUS
  <2>1. PICK i \in DOMAIN path : path[i] = loaded[c]
    BY DEF SessionInv, IInv, LoadedRight
  <2>2. DOMAIN path = {}
    OBVIOUS
  <2> QED BY <2>1, <2>2
<1> QED BY <1>1, <1>2, <1>3, Zenon DEF SessionInv, ControlRight, TypeOK

(* The database a statement reads is the one its own server names.         *)
LEMMA StatementDatabase ==
  ASSUME SessionInv, pc \notin {"idle", "done"}
  PROVE  /\ stmt # NULL /\ stmt \in Statement /\ stmt.mapping \in Mapping
         /\ Database \in Url
         /\ Complete(stmt.mapping) => Database = Named(stmt.mapping)["url"]
<1>1. stmt # NULL /\ stmt \in Statement /\ stmt.mapping \in Mapping
  BY DEF SessionInv, ControlRight, ReadRight, Statement
<1>2. ConnectionHash[stmt.mapping] # NULL
  BY <1>1 DEF SessionInv, ControlRight, IInv, ConnectedRight
<1>3. Database \in Url
  BY <1>1, <1>2 DEF SessionInv, IInv, ConnectionsRight, Database
<1>4. Complete(stmt.mapping) => Database = Named(stmt.mapping)["url"]
  BY <1>1, <1>2 DEF SessionInv, IInv, OwnOptions, Database
<1> QED BY <1>1, <1>3, <1>4

(* A type is translated to one of those getColumnTypes makes, or kept.     *)
LEMMA TranslatedType ==
  ASSUME NEW type \in STRING
  PROVE  Translated(type) \in ColumnType
BY DEF Translated, ColumnType, Range

(* Names and types of the same number make columns.                        *)
LEMMA ColumnInfoType ==
  ASSUME columnNames \in Seq(STRING), columnTypes \in Seq(ColumnType),
         Len(columnNames) = Len(columnTypes), NEW key
  PROVE  ColumnInfo(key) \in Seq(Column)
<1> DEFINE N == Len(columnNames)
<1>1. /\ N \in Nat /\ DOMAIN columnNames = 1..N
      /\ \A i \in 1..N : columnNames[i] \in STRING /\ columnTypes[i] \in ColumnType
  OBVIOUS
<1>2. \A i \in 1..N :
        [name |-> columnNames[i], type |-> columnTypes[i],
         primary_key |-> columnNames[i] \in key] \in Column
  BY <1>1 DEF Column
<1>3. ColumnInfo(key) = [i \in 1..N |->
        [name |-> columnNames[i], type |-> columnTypes[i],
         primary_key |-> columnNames[i] \in key]]
  BY <1>1 DEF ColumnInfo
<1> QED BY <1>1, <1>2, <1>3

(* A session begins with the invariant.                                    *)
LEMMA InitSession == Init => SessionInv
<1> SUFFICES ASSUME Init PROVE SessionInv
  OBVIOUS
<1>1. IInv
  BY InitInv
<1>2. RemoteRight
  BY DEF Init, RemoteRight
<1>3. ReadRight /\ ControlRight
  BY SchemaAssumption, BoundAssumption DEF Init, OptionInit, ReadRight, ControlRight
<1> QED BY <1>1, <1>2, <1>3 DEF SessionInv

(* Between statements, connections come and go without the rest.           *)
LEMMA ElsewhereInv ==
  ASSUME SessionInv, IInv', Elsewhere, pc \in {"idle", "done"}
  PROVE  SessionInv'
BY DEF SessionInv, RemoteRight, ReadRight, ControlRight, Elsewhere, importVars

(* Remote DDL changes the remote database only.                            *)
LEMMA RemoteDDLInv ==
  ASSUME SessionInv, NEW r \in Relation, NEW definition \in Definitions[r] \cup {NULL},
         RemoteDDL(r, definition)
  PROVE  SessionInv'
<1> USE DEF RemoteDDL
<1>1. IInv'
  BY StutterInv DEF SessionInv
<1>2. RemoteRight'
  BY DEF SessionInv, RemoteRight
<1>3. stmt' \in Statement /\ stmt' # NULL /\ stmt'.mapping = stmt.mapping
  <2>1. stmt \in Statement
    BY DEF SessionInv, ReadRight
  <2>2. stmt' \in Statement /\ stmt'.mapping = stmt.mapping
    BY <2>1 DEF Statement
  <2> QED BY <2>2, NoTableAssumption
<1>4. changes' \in Nat /\ changes' <= MaxChanges
  BY BoundAssumption DEF SessionInv, ReadRight
<1>5. ReadRight'
  BY <1>3, <1>4 DEF SessionInv, ReadRight
<1>6. ControlRight'
  BY <1>3, <1>4 DEF SessionInv, ControlRight, optionVars
<1> QED BY <1>1, <1>2, <1>5, <1>6 DEF SessionInv

(* An import begins with the one connection it needs.                      *)
LEMMA BeginImportInv ==
  ASSUME SessionInv, NEW m \in Mapping, NEW superuser \in BOOLEAN,
         NEW recreate \in BOOLEAN,
         NEW into \in Schema, NEW wanted \in SUBSET LocalName,
         BeginImport(m, superuser, recreate, into, wanted)
  PROVE  SessionInv'
<1> USE DEF BeginImport
<1>1. IInv'
  BY ConnectInv DEF SessionInv
<1>2. RemoteRight'
  BY DEF SessionInv, RemoteRight
<1>3. imports' \in Nat /\ imports' <= MaxImports
  BY BoundAssumption DEF SessionInv, ReadRight
<1>4. CASE outcome'.result = "connected"
  <2>1. connected' = {m}
    <3>1. ~ConnectRefused(m, superuser)
      BY <1>4 DEF ConnectRefused, Fails
    <3>2. ConnectServer(m, superuser)
      BY <3>1 DEF connect_jdbc_server
    <3> QED BY <1>4, <3>2 DEF ConnectServer
  <2>2. stmt' \in Statement /\ stmt' # NULL /\ stmt'.mapping = m
    <3>1. stmt' = [mapping |-> m, recreate |-> recreate, into |-> into,
                   wanted |-> wanted, quiet |-> TRUE]
      BY <1>4
    <3>2. stmt' \in Statement
      BY <3>1 DEF Statement
    <3> QED BY <3>1, <3>2, NoTableAssumption
  <2>3. ReadRight'
    BY <1>3, <1>4, <2>2 DEF SessionInv, ReadRight
  <2>4. ControlRight'
    BY <1>3, <1>4, <2>1, <2>2 DEF SessionInv, ControlRight
  <2> QED BY <1>1, <1>2, <2>3, <2>4 DEF SessionInv
<1>5. CASE outcome'.result # "connected"
  BY <1>1, <1>2, <1>3, <1>5 DEF SessionInv, ReadRight, ControlRight
<1> QED BY <1>4, <1>5

(* Reading the remote schema leaves the connections alone.                 *)
LEMMA SameSession ==
  ASSUME SessionInv, UNCHANGED <<optionVars, remote>>
  PROVE  IInv' /\ RemoteRight'
BY StutterInv DEF SessionInv, RemoteRight

(* jq_get_table_names.                                                     *)
LEMMA TableNamesInv ==
  ASSUME SessionInv, jq_get_table_names
  PROVE  SessionInv'
<1> USE DEF jq_get_table_names, ReadSchema
<1> DEFINE E == Existing(Database)
<1>1. Database \in Url
  BY StatementDatabase
<1>2. E \in Seq(Relation)
  BY <1>1, ExistingAre
<1>3. tableName' \in Seq(DOMAIN Folded)
  <2>1. tableName' = [i \in DOMAIN E |-> NameOf[E[i]]]
    OBVIOUS
  <2> HIDE DEF E
  <2> QED BY <1>2, <2>1, RelationAssumption
<1>4. ReadRight' /\ ControlRight'
  BY <1>3 DEF SessionInv, ReadRight, ControlRight, Continue, optionVars
<1> QED BY <1>4, SameSession DEF SessionInv

(* getColumnNames.                                                         *)
LEMMA ColumnNamesInv ==
  ASSUME SessionInv, getColumnNames
  PROVE  SessionInv'
<1> USE DEF getColumnNames, ReadSchema
<1> DEFINE columns == getColumns(Head(tableName))
<1>1. columns \in Seq(RemoteColumn)
  BY StatementDatabase, GetColumnsType DEF SessionInv
<1>2. columnNames' \in Seq(STRING)
  <2>1. columnNames' = [i \in DOMAIN columns |-> columns[i].name]
    OBVIOUS
  <2> HIDE DEF columns
  <2>2. DOMAIN columns = 1..Len(columns) /\ Len(columns) \in Nat
    BY <1>1
  <2>3. \A i \in 1..Len(columns) : columns[i].name \in STRING
    <3>1. \A i \in 1..Len(columns) : columns[i] \in RemoteColumn
      BY <1>1, <2>2
    <3> QED BY <3>1 DEF RemoteColumn
  <2> QED BY <2>1, <2>2, <2>3
<1>3. ReadRight' /\ ControlRight'
  BY <1>2 DEF SessionInv, ReadRight, ControlRight, optionVars
<1> QED BY <1>3, SameSession DEF SessionInv

(* getColumnTypes.                                                         *)
LEMMA ColumnTypesInv ==
  ASSUME SessionInv, getColumnTypes
  PROVE  SessionInv'
<1> USE DEF getColumnTypes, ReadSchema
<1> DEFINE columns == getColumns(Head(tableName))
<1>1. columns \in Seq(RemoteColumn)
  BY StatementDatabase, GetColumnsType DEF SessionInv
<1>2. columnTypes' \in Seq(ColumnType)
  <2>1. columnTypes' = [i \in DOMAIN columns |-> Translated(columns[i].type)]
    OBVIOUS
  <2> HIDE DEF columns
  <2>2. DOMAIN columns = 1..Len(columns) /\ Len(columns) \in Nat
    BY <1>1
  <2>3. \A i \in 1..Len(columns) : columns[i].type \in STRING
    <3>1. \A i \in 1..Len(columns) : columns[i] \in RemoteColumn
      BY <1>1, <2>2
    <3> QED BY <3>1 DEF RemoteColumn
  <2>4. \A i \in 1..Len(columns) : Translated(columns[i].type) \in ColumnType
    BY <2>3, TranslatedType
  <2> QED BY <2>1, <2>2, <2>4
<1>3. ReadRight' /\ ControlRight'
  BY <1>2 DEF SessionInv, ReadRight, ControlRight, optionVars
<1> QED BY <1>3, SameSession DEF SessionInv

(* getPrimaryKey.                                                          *)
LEMMA PrimaryKeyInv ==
  ASSUME SessionInv, getPrimaryKey
  PROVE  SessionInv'
<1> USE DEF getPrimaryKey, ReadSchema
<1> DEFINE t == [table_name |-> Head(tableName),
                 column_info |-> ColumnInfo(getPrimaryKeys(Head(tableName)))]
<1>1. tableName \in Seq(DOMAIN Folded) /\ tableName # <<>>
  BY DEF SessionInv, ReadRight, ControlRight
<1>2. Head(tableName) \in DOMAIN Folded /\ Tail(tableName) \in Seq(DOMAIN Folded)
  BY <1>1
<1>3. ColumnInfo(getPrimaryKeys(Head(tableName))) \in Seq(Column)
  BY ColumnInfoType DEF SessionInv, ReadRight
<1>4. t \in TableRead
  BY <1>2, <1>3 DEF TableRead
<1>5. schema_list' = Append(schema_list, t)
  OBVIOUS
<1> HIDE DEF t
<1>6. schema_list' \in Seq(TableRead)
  BY <1>4, <1>5 DEF SessionInv, ReadRight
<1>7. ReadRight' /\ ControlRight'
  BY <1>2, <1>6 DEF SessionInv, ReadRight, ControlRight, Continue, optionVars
<1> QED BY <1>7, SameSession DEF SessionInv

(* An error gives everything up.                                           *)
LEMMA ImportErrorInv ==
  ASSUME SessionInv, ImportError
  PROVE  SessionInv'
<1>1. ReadRight' /\ ControlRight'
  BY DEF ImportError, SessionInv, ReadRight, ControlRight, optionVars
<1> QED BY <1>1, SameSession DEF SessionInv, ImportError

(* The commands leave local tables.                                        *)
LEMMA RunCommandsInv ==
  ASSUME SessionInv, RunCommands
  PROVE  SessionInv'
<1> USE DEF RunCommands
<1>1. stmt # NULL /\ stmt \in Statement
  BY StatementDatabase
<1>2. local' \in Tables
  BY <1>1, CreateAll DEF SessionInv, ReadRight
<1>3. ReadRight' /\ ControlRight'
  BY <1>1, <1>2 DEF SessionInv, ReadRight, ControlRight, optionVars
<1> QED BY <1>3, SameSession DEF SessionInv

(* The end of the statement.                                               *)
LEMMA EndImportInv ==
  ASSUME SessionInv, EndImport
  PROVE  SessionInv'
<1>1. IInv' /\ RemoteRight'
  BY EndStatementInv DEF EndImport, SessionInv, RemoteRight
<1>2. ReadRight' /\ ControlRight'
  BY DEF EndImport, SessionInv, ReadRight, ControlRight
<1> QED BY <1>1, <1>2 DEF SessionInv

(* Every step keeps the invariant.                                         *)
LEMMA NextSession ==
  ASSUME SessionInv, [Next]_vars
  PROVE  SessionInv'
<1>1. CASE \E x \in Server \cup Mapping :
             \E list \in OfferedTo[x] : CreateStatement(x, list)
  BY <1>1, CreateObjectInv, ElsewhereInv DEF CreateStatement, SessionInv
<1>2. CASE \E m \in Mapping, superuser \in BOOLEAN : OtherConnect(m, superuser)
  BY <1>2, ConnectInv, ElsewhereInv DEF OtherConnect, SessionInv
<1>3. CASE EndOther
  BY <1>3, EndStatementInv, ElsewhereInv DEF EndOther, SessionInv
<1>4. CASE \E m \in Mapping : Invalidation(m)
  BY <1>4, InvalidateInv, ElsewhereInv DEF Invalidation, SessionInv
<1>5. CASE \E r \in Relation :
             \E definition \in Definitions[r] \cup {NULL} : RemoteDDL(r, definition)
  BY <1>5, RemoteDDLInv
<1>6. CASE \E m \in Mapping, superuser \in BOOLEAN, recreate \in BOOLEAN,
             into \in Schema, wanted \in SUBSET LocalName :
             BeginImport(m, superuser, recreate, into, wanted)
  BY <1>6, BeginImportInv
<1>7. CASE \/ jq_get_table_names \/ getColumnNames \/ getColumnTypes \/ getPrimaryKey
           \/ ImportError \/ RunCommands \/ EndImport
  BY <1>7, TableNamesInv, ColumnNamesInv, ColumnTypesInv, PrimaryKeyInv,
     ImportErrorInv, RunCommandsInv, EndImportInv
<1>8. CASE UNCHANGED vars
  BY <1>8, StutterInv
     DEF vars, importVars, SessionInv, RemoteRight, ReadRight, ControlRight, optionVars
<1> QED BY <1>1, <1>2, <1>3, <1>4, <1>5, <1>6, <1>7, <1>8 DEF Next

(***************************************************************************)
(* The commands.                                                           *)
(***************************************************************************)
(* With DROPs first, no CREATE finds a table of its name.                  *)
LEMMA RecreateInv ==
  ASSUME SessionInv
  PROVE  RecreateReplaces
<1> SUFFICES ASSUME pc = "commands", stmt.recreate,
                    SearchPath # <<>>, SearchPath[1] = stmt.into,
                    \A i, j \in DOMAIN schema_list :
                      Folded[schema_list[i].table_name] = Folded[schema_list[j].table_name]
                        => i = j,
                    \A i \in DOMAIN commands : CanCreate(commands[i])
             PROVE  Created # NULL <=>
                      \A i \in DOMAIN schema_list :
                        ~Undroppable(local, Folded[schema_list[i].table_name])
  BY DEF RecreateReplaces
<1>1. local \in Tables /\ schema_list \in Seq(TableRead) /\ stmt \in Statement
  BY StatementDatabase DEF SessionInv, ReadRight
<1>2. \A j, k \in DOMAIN commands :
        Folded[commands[j].table_name] = Folded[commands[k].table_name] => j = k
  BY <1>1, CommandsAre
<1>3. ASSUME CommandsDropped # NULL, NEW k \in DOMAIN commands
      PROVE  CommandsDropped[stmt.into][Folded[commands[k].table_name]] = NULL
  <2>1. PICK i \in DOMAIN schema_list : commands[k] = schema_list[i]
    BY <1>1, CommandsAre
  <2> QED BY <1>1, <1>3, <2>1, DroppedTables
<1>4. Created # NULL <=> CommandsDropped # NULL
  BY <1>1, <1>2, <1>3, CreateAll
<1> QED BY <1>1, <1>4, DroppedTables

(* What KeepsLocalTables says of table n of schema s.                      *)
TableKept(s, n) ==
  local[s][n] # NULL /\ local'[s][n] # local[s][n] =>
    /\ stmt.recreate
    /\ local[s][n].droppable
    /\ \E i \in DOMAIN schema_list :
         /\ Folded[schema_list[i].table_name] = n
         /\ \/ \E l \in Lookup(local, n) : SearchPath[l] = s
            \/ \E j \in DOMAIN schema_list \ {i} :
                 Folded[schema_list[j].table_name] = n
    /\ \/ local'[s][n] \in Remade(s, n)
       \/ local'[s][n] = NULL /\ Remade(s, n) = {}

(* What a DROP took away is what was read afterwards, if it was asked for  *)
(* and could be read, or else nothing.                                     *)
LEMMA RunCommandsKeep ==
  ASSUME SessionInv, RunCommands, NEW s \in Schema, NEW n \in LocalName
  PROVE  TableKept(s, n)
<1> SUFFICES ASSUME local[s][n] # NULL, local'[s][n] # local[s][n]
             PROVE  /\ stmt.recreate
                    /\ local[s][n].droppable
                    /\ \E i \in DOMAIN schema_list :
                         /\ Folded[schema_list[i].table_name] = n
                         /\ \/ \E l \in Lookup(local, n) : SearchPath[l] = s
                            \/ \E j \in DOMAIN schema_list \ {i} :
                                 Folded[schema_list[j].table_name] = n
                    /\ \/ local'[s][n] \in Remade(s, n)
                       \/ local'[s][n] = NULL /\ Remade(s, n) = {}
  BY DEF TableKept
<1>1. local \in Tables /\ schema_list \in Seq(TableRead) /\ stmt \in Statement
  BY StatementDatabase DEF SessionInv, ReadRight, RunCommands
<1>2. local' = Created /\ Created # NULL
  BY DEF RunCommands
<1>3. /\ CommandsDropped # NULL
      /\ \/ Created[s][n] = CommandsDropped[s][n]
         \/ /\ CommandsDropped[s][n] = NULL
            /\ s = stmt.into
            /\ \E k \in DOMAIN commands :
                 Folded[commands[k].table_name] = n /\ n \in stmt.wanted
  BY <1>1, <1>2, CreateAll
<1>4. /\ CommandsDropped[s][n] = NULL /\ stmt.recreate
      /\ Dropped(local, s, n, Len(schema_list))
  BY <1>1, <1>2, <1>3, DroppedTables
<1>5. DOMAIN schema_list = 1..Len(schema_list)
  BY <1>1
<1>6. /\ local[s][n].droppable
      /\ \E i \in DOMAIN schema_list :
           /\ Folded[schema_list[i].table_name] = n
           /\ \/ \E l \in Lookup(local, n) : SearchPath[l] = s
              \/ \E j \in DOMAIN schema_list \ {i} :
                   Folded[schema_list[j].table_name] = n
  BY <1>4, <1>5 DEF Dropped
<1>7. CASE Remade(s, n) = {}
  <2>1. ASSUME s = stmt.into, n \in stmt.wanted, NEW k \in DOMAIN commands
        PROVE  Folded[commands[k].table_name] # n
    <3>1. SUFFICES ASSUME Folded[commands[k].table_name] = n PROVE FALSE
      OBVIOUS
    <3>2. commands[k] \in Range(commands)
      BY DEF Range
    <3>3. ForeignTable(commands[k]) \in Remade(s, n)
      BY <2>1, <3>1, <3>2 DEF Remade
    <3> QED BY <1>7, <3>3
  <2> QED BY <1>2, <1>3, <1>4, <1>6, <1>7, <2>1
<1>8. CASE Remade(s, n) # {}
  <2>1. PICK t \in Range(commands) :
          Folded[t.table_name] = n /\ n \in stmt.wanted /\ s = stmt.into
    BY <1>8 DEF Remade
  <2>2. PICK k \in DOMAIN commands : commands[k] = t
    BY DEF Range
  <2>3. Created[s][n] = ForeignTable(t)
    BY <1>1, <1>2, <1>4, <2>1, <2>2, CreateAll
  <2>4. ForeignTable(t) \in Remade(s, n)
    BY <2>1 DEF Remade
  <2> QED BY <1>2, <1>4, <1>6, <2>3, <2>4
<1> QED BY <1>7, <1>8

(* No other step changes what is there locally.                            *)
LEMMA OthersKeep ==
  ASSUME [Next]_vars, ~RunCommands
  PROVE  UNCHANGED local
BY DEF Next, vars, importVars, CreateStatement, OtherConnect, EndOther, Invalidation,
       Elsewhere, RemoteDDL, BeginImport, jq_get_table_names, getColumnNames,
       getColumnTypes, getPrimaryKey, ImportError, EndImport, ReadSchema

(* What KeepsLocalTables says of every step.                               *)
LEMMA NextKeeps ==
  ASSUME SessionInv, [Next]_vars
  PROVE  \A s \in Schema, n \in LocalName : TableKept(s, n)
<1>1. CASE RunCommands
  BY <1>1, RunCommandsKeep
<1>2. CASE ~RunCommands
  BY <1>2, OthersKeep DEF TableKept
<1> QED BY <1>1, <1>2
(* Options, static structure, loader, connections, the statement that is   *)
(* run and what it reads, in every state of a session: the invariant the   *)
(* next theorems rest on.                                                  *)
THEOREM Session == Spec => []SessionInv
<1>1. Init => SessionInv
  BY InitSession
<1>2. SessionInv /\ [Next]_vars => SessionInv'
  BY NextSession
<1> QED BY <1>1, <1>2, PTL DEF Spec

(* The invariant of options and connections on its own.                    *)
THEOREM Safety == Spec => []IInv
<1>1. SessionInv => IInv
  BY DEF SessionInv
<1> QED BY <1>1, Session, PTL

(* A connection of jdbc_create_JDBC_connection has the options of its own  *)
(* server and mapping, if these name all of them, whatever a session did.  *)
THEOREM OwnOptionsCorrect == Spec => []OwnOptions
<1>1. IInv => OwnOptions
  BY DEF IInv
<1> QED BY <1>1, Safety, PTL

(* createConnection misses a driver class only if the jar named in this    *)
(* attempt does not have it, whatever jars were named before.              *)
THEOREM LoaderCorrect == Spec => []LoaderRecovers
<1>1. IInv => LoaderRecovers
  BY DEF IInv
<1> QED BY <1>1, Safety, PTL

(* The state of a session is what TypeOK says, in particular every import  *)
(* in progress has exactly the connection of its own mapping.              *)
THEOREM TypeCorrect == Spec => []TypeOK
<1>1. SessionInv => TypeOK
  BY SessionTypeOK
<1> QED BY <1>1, Session, PTL

(* jdbcImportForeignSchema with recreate fails over what is there locally  *)
(* exactly if it finds a relation it may not drop, for search paths,       *)
(* schemas and lists of tables of any size.                                *)
THEOREM RecreateCorrect == Spec => []RecreateReplaces
<1>1. SessionInv => RecreateReplaces
  BY RecreateInv
<1> QED BY <1>1, Session, PTL

(* The DROPs and CREATEs of jdbcImportForeignSchema change a local relation*)
(* only when an import with recreate has read a table of its name and may  *)
(* drop it, and only the first of this name.  It is then the table that was*)
(* read; it is lost when that one was not asked for, belongs to another    *)
(* schema or has a column of unknown type.                                 *)
THEOREM LocalTablesKept == Spec => KeepsLocalTables
<1> DEFINE Kept == \A s \in Schema, n \in LocalName : TableKept(s, n)
<1>1. SessionInv /\ [Next]_vars => [Kept]_vars
  BY NextKeeps
<1>2. [Kept]_vars =>
   [\A s \in Schema, n \in LocalName :
       local[s][n] # NULL /\ local'[s][n] # local[s][n] =>
         /\ stmt.recreate
         /\ local[s][n].droppable
         /\ \E i \in DOMAIN schema_list :
              /\ Folded[schema_list[i].table_name] = n
              /\ \/ \E l \in Lookup(local, n) : SearchPath[l] = s
                 \/ \E j \in DOMAIN schema_list \ {i} :
                      Folded[schema_list[j].table_name] = n
         /\ \/ local'[s][n] \in Remade(s, n)
            \/ local'[s][n] = NULL /\ Remade(s, n) = {}]_vars
  BY DEF TableKept
<1> HIDE DEF Kept
<1>3. Spec => [][Kept]_vars
  BY <1>1, Session, PTL DEF Spec
<1> QED BY <1>2, <1>3, PTL DEF KeepsLocalTables

(***************************************************************************)
(* What is read in an import that no remote DDL runs into.                 *)
(***************************************************************************)
(* The relations of the database that the server of the statement names.   *)
OwnUrl == Named(stmt.mapping)["url"]
OwnRelations == Existing(OwnUrl)

(* What was read of relation r.                                            *)
ReadAs(t, r) ==
  /\ t.table_name = NameOf[r]
  /\ Unmistakable(r, OwnUrl) => ForeignTable(t) = Definition(r, ServerOf[stmt.mapping])

(* The tables that were read and those still to be read are the relations of*)
(* the database, in order.                                                 *)
InOrder ==
  /\ Len(schema_list) + Len(tableName) = Len(OwnRelations)
  /\ \A i \in 1..Len(tableName) :
       tableName[i] = NameOf[OwnRelations[Len(schema_list) + i]]

(* What was read is as it is defined.                                      *)
ListAsDefined ==
  \A i \in 1..Len(schema_list) : ReadAs(schema_list[i], OwnRelations[i])

(* Of the first table still to be read.                                    *)
ColumnsAsDefined ==
  LET r == OwnRelations[Len(schema_list) + 1]
      columns == remote[r].columns
  IN  Unmistakable(r, OwnUrl) =>
        /\ pc \in {"types", "key"} =>
             columnNames = [i \in DOMAIN columns |-> columns[i].name]
        /\ pc = "key" =>
             columnTypes = [i \in DOMAIN columns |-> Translated(columns[i].type)]

(* No remote DDL has run into the import, and its server names             *)
(* everything.                                                             *)
Quiet ==
  pc \in {"names", "types", "key", "commands"} /\ stmt.quiet /\ Complete(stmt.mapping)

ReadInOrder == Quiet => InOrder /\ ListAsDefined /\ ColumnsAsDefined

(* The list of tables is empty when an import begins.                      *)
NothingRead == pc \in {"idle", "tables"} => schema_list = <<>>

(* A session, and what its import has read so far.                         *)
ImportInv == SessionInv /\ NothingRead /\ ReadInOrder /\ ImportedAsDefined

(* At first nothing is read.                                               *)
LEMMA InitImport == Init => ImportInv
<1> SUFFICES ASSUME Init PROVE ImportInv
  OBVIOUS
<1>1. NothingRead /\ ReadInOrder /\ ImportedAsDefined
  BY DEF Init, NothingRead, ReadInOrder, Quiet, ImportedAsDefined
<1> QED BY <1>1, InitSession DEF ImportInv

(* Whatever looks at the remote database and at the options sees the same. *)
LEMMA SameRemote ==
  ASSUME UNCHANGED <<remote, options>>
  PROVE  /\ \A u : Existing(u)' = Existing(u)
         /\ \A r, u : Unmistakable(r, u)' = Unmistakable(r, u)
         /\ \A r : Recognizable(r)' = Recognizable(r)
         /\ \A r, server : Definition(r, server)' = Definition(r, server)
         /\ \A m : Named(m)' = Named(m) /\ Complete(m)' = Complete(m)
BY SameNamed DEF Existing, Unmistakable, Recognizable, Definition

(* So does the import that is under way.                                   *)
LEMMA SameOwn ==
  ASSUME UNCHANGED <<remote, options>>, stmt'.mapping = stmt.mapping
  PROVE  /\ OwnUrl' = OwnUrl
         /\ OwnRelations' = OwnRelations
         /\ \A t, r : ReadAs(t, r)' = ReadAs(t, r)
         /\ Complete(stmt.mapping)' = Complete(stmt.mapping)
<1>1. OwnUrl' = OwnUrl
  BY SameRemote DEF OwnUrl
<1>2. OwnRelations' = OwnRelations
  BY <1>1, SameRemote DEF OwnRelations, Existing
<1>3. ASSUME NEW t, NEW r PROVE ReadAs(t, r)' = ReadAs(t, r)
  <2>1. Definition(r, ServerOf[stmt.mapping])' = Definition(r, ServerOf[stmt.mapping])
    BY SameRemote DEF Definition
  <2>2. Unmistakable(r, OwnUrl)' = Unmistakable(r, OwnUrl)
    BY <1>1, SameRemote DEF Unmistakable, Existing
  <2> QED BY <2>1, <2>2 DEF ReadAs, ForeignTable
<1>4. Complete(stmt.mapping)' = Complete(stmt.mapping)
  BY SameRemote DEF Complete, Named
<1> QED BY <1>1, <1>2, <1>3, <1>4

(* The database is read where the statement's own server says.             *)
LEMMA OwnDatabase ==
  ASSUME SessionInv, pc \notin {"idle", "done"}, Complete(stmt.mapping)
  PROVE  /\ OwnUrl = Database /\ Database \in Url
         /\ OwnRelations = Existing(Database)
         /\ OwnRelations \in Seq(Relation)
         /\ \A i \in DOMAIN OwnRelations : remote[OwnRelations[i]] # NULL
BY StatementDatabase, ExistingAre DEF OwnUrl, OwnRelations

(* jq_get_table_names starts the list of tables.                           *)
LEMMA TableNamesRead ==
  ASSUME ImportInv, jq_get_table_names
  PROVE  ReadInOrder'
<1> USE DEF jq_get_table_names, ReadSchema, optionVars
<1> DEFINE E == OwnRelations
<1> SUFFICES ASSUME Quiet' PROVE InOrder' /\ ListAsDefined' /\ ColumnsAsDefined'
  BY DEF ReadInOrder
<1>1. UNCHANGED <<remote, options, stmt>>
  OBVIOUS
<1>2. Complete(stmt.mapping)
  BY <1>1, SameOwn DEF Quiet
<1>3. E = Existing(Database) /\ E \in Seq(Relation)
  BY <1>2, OwnDatabase DEF ImportInv
<1>4. schema_list' = <<>>
  BY DEF ImportInv, NothingRead
<1>5. tableName' = [i \in DOMAIN E |-> NameOf[E[i]]]
  BY <1>3
<1>6. E' = E
  BY <1>1, SameOwn
<1>7. pc' \notin {"types", "key"}
  BY DEF Continue
<1> HIDE DEF E
<1>8. /\ Len(tableName') = Len(E)
      /\ \A i \in 1..Len(tableName') : tableName'[i] = NameOf[E[0 + i]]
  BY <1>3, <1>5
<1>9. Len(schema_list') = 0 /\ Len(E) \in Nat
  BY <1>3, <1>4
<1>10. InOrder'
  BY <1>6, <1>8, <1>9 DEF InOrder, E
<1>11. ListAsDefined' /\ ColumnsAsDefined'
  BY <1>7, <1>9 DEF ListAsDefined, ColumnsAsDefined
<1> QED BY <1>10, <1>11

(* The first table that is still to be read.                               *)
LEMMA FirstTable ==
  ASSUME ImportInv, pc \in {"names", "types", "key"}, Quiet,
         NEW r, r = OwnRelations[Len(schema_list) + 1]
  PROVE  /\ Head(tableName) = NameOf[r] /\ r \in Relation /\ remote[r] # NULL
         /\ Unmistakable(r, OwnUrl) =>
              /\ getColumns(Head(tableName)) = remote[r].columns
              /\ getPrimaryKeys(Head(tableName)) = remote[r].key
<1> DEFINE E == OwnRelations
           n == Len(schema_list)
<1>1. /\ OwnUrl = Database /\ Database \in Url /\ RemoteRight
      /\ E = Existing(Database) /\ E \in Seq(Relation)
      /\ \A i \in DOMAIN E : remote[E[i]] # NULL
  BY OwnDatabase DEF ImportInv, SessionInv, Quiet
<1>2. /\ tableName \in Seq(DOMAIN Folded) /\ tableName # <<>>
      /\ schema_list \in Seq(TableRead)
  BY DEF ImportInv, SessionInv, ReadRight, ControlRight
<1>3. /\ n + Len(tableName) = Len(E)
      /\ \A i \in 1..Len(tableName) : tableName[i] = NameOf[E[n + i]]
  BY DEF ImportInv, ReadInOrder, InOrder
<1>4. r = E[n + 1]
  OBVIOUS
<1> HIDE DEF E
<1>5. n + 1 \in DOMAIN E /\ Head(tableName) = NameOf[E[n + 1]]
  BY <1>1, <1>2, <1>3
<1>6. ASSUME Unmistakable(r, Database)
      PROVE  /\ getColumns(NameOf[r]) = remote[r].columns
             /\ getPrimaryKeys(NameOf[r]) = remote[r].key
  <2>1. n + 1 \in DOMAIN Existing(Database) /\ r = Existing(Database)[n + 1]
    BY <1>1, <1>4, <1>5
  <2> QED BY <1>1, <1>6, <2>1, ColumnsOfOne
<1> QED BY <1>1, <1>4, <1>5, <1>6

(* Names and types of the first table are read while the list stays.       *)
LEMMA ColumnsRead ==
  ASSUME ImportInv, getColumnNames \/ getColumnTypes
  PROVE  ReadInOrder'
<1> USE DEF getColumnNames, getColumnTypes, ReadSchema, optionVars
<1> DEFINE r == OwnRelations[Len(schema_list) + 1]
<1> SUFFICES ASSUME Quiet' PROVE InOrder' /\ ListAsDefined' /\ ColumnsAsDefined'
  BY DEF ReadInOrder
<1>1. UNCHANGED <<remote, options, stmt, tableName, schema_list>>
  OBVIOUS
<1>2. Quiet /\ pc \in {"names", "types", "key"}
  BY <1>1, SameOwn DEF Quiet
<1>3. OwnUrl' = OwnUrl /\ OwnRelations' = OwnRelations
  BY <1>1, SameOwn
<1>4. InOrder /\ ListAsDefined /\ ColumnsAsDefined
  BY <1>2 DEF ImportInv, ReadInOrder
<1>5. InOrder'
  BY <1>1, <1>3, <1>4 DEF InOrder
<1>6. ListAsDefined'
  BY <1>1, <1>3, <1>4, SameOwn DEF ListAsDefined
<1>7. ColumnsAsDefined'
  <2> DEFINE columns == remote[r].columns
  <2> SUFFICES ASSUME Unmistakable(r, OwnUrl)
               PROVE  /\ pc' \in {"types", "key"} =>
                           columnNames' = [i \in DOMAIN columns |-> columns[i].name]
                      /\ pc' = "key" =>
                           columnTypes' =
                             [i \in DOMAIN columns |-> Translated(columns[i].type)]
    BY <1>1, <1>3, SameRemote DEF ColumnsAsDefined, Unmistakable, Existing
  <2>1. getColumns(Head(tableName)) = columns
    BY <1>2, FirstTable
  <2>2. CASE getColumnNames
    BY <2>1, <2>2
  <2>3. CASE getColumnTypes
    <3>1. columnNames = [i \in DOMAIN columns |-> columns[i].name]
      BY <1>4, <2>3 DEF ColumnsAsDefined
    <3> QED BY <2>1, <2>3, <3>1
  <2> QED BY <2>2, <2>3
<1> QED BY <1>5, <1>6, <1>7

(* The names and types of a table that cannot be mistaken belong together, *)
(* and its key is its own.                                                 *)
LEMMA FirstAsDefined ==
  ASSUME ImportInv, getPrimaryKey, Quiet,
         NEW r, r = OwnRelations[Len(schema_list) + 1], NEW t,
         t = [table_name |-> Head(tableName),
              column_info |-> ColumnInfo(getPrimaryKeys(Head(tableName)))]
  PROVE  ReadAs(t, r)
<1> DEFINE columns == remote[r].columns
<1>1. /\ Head(tableName) = NameOf[r] /\ r \in Relation /\ remote[r] # NULL
      /\ Unmistakable(r, OwnUrl) => getPrimaryKeys(Head(tableName)) = remote[r].key
  BY FirstTable DEF getPrimaryKey
<1>2. ASSUME Unmistakable(r, OwnUrl)
      PROVE  ForeignTable(t) = Definition(r, ServerOf[stmt.mapping])
  <2>1. /\ columnNames = [i \in DOMAIN columns |-> columns[i].name]
        /\ columnTypes = [i \in DOMAIN columns |-> Translated(columns[i].type)]
    BY <1>2 DEF ImportInv, ReadInOrder, ColumnsAsDefined, getPrimaryKey
  <2>2. t.column_info = ColumnInfo(remote[r].key)
    BY <1>1, <1>2
  <2>3. ColumnInfo(remote[r].key) =
          [i \in DOMAIN columns |->
             [name |-> columns[i].name, type |-> Translated(columns[i].type),
              primary_key |-> columns[i].name \in remote[r].key]]
    <3> HIDE DEF columns
    <3> QED BY <2>1 DEF ColumnInfo
  <2> QED BY <2>2, <2>3 DEF ForeignTable, Definition
<1> QED BY <1>1, <1>2 DEF ReadAs

(* getPrimaryKey adds the first table to those that were read.             *)
LEMMA PrimaryKeyRead ==
  ASSUME ImportInv, getPrimaryKey
  PROVE  ReadInOrder'
<1> USE DEF getPrimaryKey, ReadSchema, optionVars
<1> DEFINE E == OwnRelations
           n == Len(schema_list)
           t == [table_name |-> Head(tableName),
                 column_info |-> ColumnInfo(getPrimaryKeys(Head(tableName)))]
<1> SUFFICES ASSUME Quiet' PROVE InOrder' /\ ListAsDefined' /\ ColumnsAsDefined'
  BY DEF ReadInOrder
<1>1. UNCHANGED <<remote, options, stmt>>
  OBVIOUS
<1>2. Quiet
  BY <1>1, SameOwn DEF Quiet
<1>3. E' = E /\ \A u, r : ReadAs(u, r)' = ReadAs(u, r)
  BY <1>1, SameOwn
<1>4. InOrder /\ ListAsDefined
  BY <1>2 DEF ImportInv, ReadInOrder
<1>5. /\ tableName \in Seq(DOMAIN Folded) /\ tableName # <<>>
      /\ schema_list \in Seq(TableRead)
  BY DEF ImportInv, SessionInv, ReadRight, ControlRight
<1>6. ReadAs(t, E[n + 1])
  BY <1>2, FirstAsDefined
<1>7. tableName' = Tail(tableName) /\ schema_list' = Append(schema_list, t)
  OBVIOUS
<1>8. pc' \notin {"types", "key"}
  BY DEF Continue
<1> HIDE DEF E, t
<1>9. /\ Len(tableName') = Len(tableName) - 1
      /\ \A i \in 1..Len(tableName') : tableName'[i] = tableName[i + 1]
      /\ Len(schema_list') = n + 1 /\ n \in Nat /\ Len(tableName) \in Nat
      /\ schema_list'[n + 1] = t
      /\ \A i \in 1..n : schema_list'[i] = schema_list[i]
  BY <1>5, <1>7
<1>10. InOrder'
  <2>1. /\ n + Len(tableName) = Len(E)
        /\ \A i \in 1..Len(tableName) : tableName[i] = NameOf[E[n + i]]
    BY <1>4 DEF InOrder, E
  <2>2. Len(schema_list') + Len(tableName') = Len(E)
    <3>1. Len(schema_list') + Len(tableName') = (n + 1) + (Len(tableName) - 1)
      BY ONLY <1>9
    <3>2. (n + 1) + (Len(tableName) - 1) = n + Len(tableName)
      BY ONLY <1>9
    <3> QED BY ONLY <2>1, <3>1, <3>2
  <2>3. ASSUME NEW i \in 1..Len(tableName')
        PROVE  tableName'[i] = NameOf[E[Len(schema_list') + i]]
    <3>1. PICK j \in 1..Len(tableName) : j = i + 1 /\ n + j = (n + 1) + i
      BY ONLY <1>9, i \in 1..Len(tableName')
    <3>2. tableName'[i] = tableName[j] /\ Len(schema_list') + i = n + j
      BY ONLY <1>9, <3>1, i \in 1..Len(tableName')
    <3> QED BY ONLY <2>1, <3>1, <3>2
  <2> QED BY <1>3, <2>2, <2>3 DEF InOrder, E
<1>11. ListAsDefined'
  <2>1. ASSUME NEW i \in 1..Len(schema_list') PROVE ReadAs(schema_list'[i], E[i])
    <3>1. CASE i = n + 1
      BY <1>6, <1>9, <3>1
    <3>2. CASE i # n + 1
      <4>1. i \in 1..n
        BY <1>9, <3>2
      <4> QED BY <1>4, <1>9, <4>1 DEF ListAsDefined, E
    <3> QED BY <3>1, <3>2
  <2> QED BY <1>3, <2>1 DEF ListAsDefined, E
<1>12. ColumnsAsDefined'
  BY <1>8 DEF ColumnsAsDefined
<1> QED BY <1>10, <1>11, <1>12

(* The commands are about what was read.                                   *)
LEMMA RunCommandsImport ==
  ASSUME ImportInv, RunCommands
  PROVE  ImportedAsDefined'
<1> USE DEF RunCommands
<1> SUFFICES ASSUME stmt' # NULL, stmt'.recreate, stmt'.quiet, Complete(stmt.mapping)',
                    NEW r \in Range(Existing(Named(stmt.mapping)["url"]))',
                    Unmistakable(r, Named(stmt.mapping)["url"])',
                    Recognizable(r)', Folded[NameOf[r]] \in stmt'.wanted
             PROVE  local'[stmt'.into][Folded[NameOf[r]]] =
                      Definition(r, ServerOf[stmt.mapping])'
  BY DEF ImportedAsDefined
<1>1. local' = Created /\ Created # NULL /\ stmt' = stmt
  OBVIOUS
<1>2. UNCHANGED <<remote, options>>
  BY DEF optionVars
<1>3. /\ stmt.recreate /\ Quiet
      /\ r \in Range(OwnRelations) /\ Unmistakable(r, OwnUrl)
      /\ Recognizable(r) /\ Folded[NameOf[r]] \in stmt.wanted
      /\ Definition(r, ServerOf[stmt.mapping])' = Definition(r, ServerOf[stmt.mapping])
  <2>1. stmt.recreate /\ stmt.quiet /\ Folded[NameOf[r]] \in stmt.wanted
    BY <1>1
  <2>2. Complete(stmt.mapping)
    BY <1>1, <1>2, SameOwn
  <2>3. OwnUrl' = OwnUrl /\ OwnRelations' = OwnRelations
    BY <1>1, <1>2, SameOwn
  <2>4. r \in Range(OwnRelations) /\ Unmistakable(r, OwnUrl)
    <3>1. r \in Range(OwnRelations)'
      BY DEF OwnUrl, OwnRelations
    <3>2. Unmistakable(r, OwnUrl)'
      BY DEF OwnUrl
    <3>3. Unmistakable(r, OwnUrl)' = Unmistakable(r, OwnUrl)
      BY <1>2, <2>3, SameRemote DEF Unmistakable, Existing
    <3> QED BY <2>3, <3>1, <3>2, <3>3 DEF Range
  <2>5. Recognizable(r)
    BY <1>2 DEF Recognizable
  <2>6. Definition(r, ServerOf[stmt.mapping])' = Definition(r, ServerOf[stmt.mapping])
    BY <1>1, <1>2 DEF Definition
  <2> QED BY <2>1, <2>2, <2>4, <2>5, <2>6 DEF Quiet
<1>4. local \in Tables /\ schema_list \in Seq(TableRead) /\ stmt \in Statement
  BY StatementDatabase DEF ImportInv, SessionInv, ReadRight
<1>5. Len(schema_list) = Len(OwnRelations) /\ ListAsDefined
  <2>1. tableName = <<>>
    BY DEF ImportInv, SessionInv, ControlRight
  <2> QED BY <1>3, <1>4, <2>1 DEF ImportInv, ReadInOrder, InOrder
<1>6. PICK k \in DOMAIN schema_list : OwnRelations[k] = r
  <2>1. OwnRelations \in Seq(Relation)
    BY <1>3, OwnDatabase DEF ImportInv, Quiet
  <2> QED BY <1>3, <1>4, <1>5, <2>1 DEF Range
<1> DEFINE t == schema_list[k]
<1>7. t.table_name = NameOf[r] /\ ForeignTable(t) = Definition(r, ServerOf[stmt.mapping])
  <2>1. k \in 1..Len(schema_list)
    BY <1>4
  <2> QED BY <1>3, <1>5, <1>6, <2>1 DEF ListAsDefined, ReadAs
<1>8. ~Unrecognizable(t)
  <2>1. t.column_info = Definition(r, ServerOf[stmt.mapping]).columns
    BY <1>7 DEF ForeignTable
  <2> QED BY <1>3, <2>1 DEF Unrecognizable, Definition, Recognizable
<1>9. PICK j \in DOMAIN commands : commands[j] = t
  BY <1>4, <1>8, CommandsAre
<1>10. Created[stmt.into][Folded[NameOf[r]]] = ForeignTable(t)
  BY <1>1, <1>3, <1>4, <1>7, <1>9, CreateAll
<1> QED BY <1>1, <1>3, <1>7, <1>10

(* Steps that leave the statement and the lists alone.                     *)
LEMMA StutterImport ==
  ASSUME ImportInv, Elsewhere, UNCHANGED options
  PROVE  NothingRead' /\ ReadInOrder' /\ ImportedAsDefined'
<1> USE DEF Elsewhere, importVars
<1>1. NothingRead'
  BY DEF ImportInv, NothingRead
<1>2. ImportedAsDefined'
  <2> DEFINE Imported ==
               \A r \in Range(OwnRelations) :
                 Unmistakable(r, OwnUrl) /\ Recognizable(r)
                   /\ Folded[NameOf[r]] \in stmt.wanted =>
                 local[stmt.into][Folded[NameOf[r]]] =
                   Definition(r, ServerOf[stmt.mapping])
  <2>1. ImportedAsDefined' <=>
          (pc' = "done" /\ stmt' # NULL /\ stmt'.recreate /\ stmt'.quiet
             /\ Complete(stmt.mapping)' => Imported')
    BY DEF ImportedAsDefined, OwnUrl, OwnRelations
  <2>2. pc = "done" /\ stmt # NULL /\ stmt.recreate /\ stmt.quiet
          /\ Complete(stmt.mapping) => Imported
    BY DEF ImportInv, ImportedAsDefined, OwnUrl, OwnRelations
  <2>3. Complete(stmt.mapping)' = Complete(stmt.mapping)
    BY SameOwn
  <2>4. Imported => Imported'
    BY SameOwn DEF Unmistakable, Existing, Recognizable, Definition
  <2> HIDE DEF Imported
  <2> QED BY <2>1, <2>2, <2>3, <2>4
<1>3. ReadInOrder'
  <2> SUFFICES ASSUME Quiet' PROVE InOrder' /\ ListAsDefined' /\ ColumnsAsDefined'
    BY DEF ReadInOrder
  <2>1. Quiet
    BY SameOwn DEF Quiet
  <2>2. InOrder /\ ListAsDefined /\ ColumnsAsDefined
    BY <2>1 DEF ImportInv, ReadInOrder
  <2>3. InOrder' /\ ListAsDefined'
    BY <2>2, SameOwn DEF InOrder, ListAsDefined
  <2>4. ColumnsAsDefined'
    BY <2>2, SameOwn DEF ColumnsAsDefined, Unmistakable, Existing
  <2> QED BY <2>3, <2>4
<1> QED BY <1>1, <1>2, <1>3

(* Every step keeps what was read in order.                                *)
LEMMA NextImport ==
  ASSUME ImportInv, [Next]_vars
  PROVE  ImportInv'
<1>1. SessionInv'
  BY NextSession DEF ImportInv
<1> SUFFICES NothingRead' /\ ReadInOrder' /\ ImportedAsDefined'
  BY <1>1 DEF ImportInv
<1> USE DEF Quiet
<1>2. CASE \E x \in Server \cup Mapping :
             \E list \in OfferedTo[x] : CreateStatement(x, list)
  BY <1>2 DEF CreateStatement, Elsewhere, importVars, ImportInv, NothingRead, ReadInOrder,
              ImportedAsDefined
<1>3. CASE \E m \in Mapping, superuser \in BOOLEAN : OtherConnect(m, superuser)
  BY <1>3 DEF OtherConnect, Elsewhere, importVars, ImportInv, NothingRead, ReadInOrder,
              ImportedAsDefined
<1>4. CASE EndOther
  BY <1>4 DEF EndOther, Elsewhere, importVars, ImportInv, NothingRead, ReadInOrder,
              ImportedAsDefined
<1>5. CASE \E m \in Mapping : Invalidation(m)
  BY <1>5, StutterImport DEF Invalidation, InvalidateConnection
<1>6. CASE \E r \in Relation :
             \E definition \in Definitions[r] \cup {NULL} : RemoteDDL(r, definition)
  <2>1. stmt'.quiet = FALSE /\ pc' = pc /\ schema_list' = schema_list
    BY <1>6 DEF RemoteDDL, ImportInv, SessionInv, ReadRight, Statement
  <2> QED BY <2>1 DEF ImportInv, NothingRead, ReadInOrder, ImportedAsDefined
<1>7. CASE \E m \in Mapping, superuser \in BOOLEAN, recreate \in BOOLEAN,
             into \in Schema, wanted \in SUBSET LocalName :
             BeginImport(m, superuser, recreate, into, wanted)
  BY <1>7 DEF BeginImport, ImportInv, NothingRead, ReadInOrder, ImportedAsDefined
<1>8. CASE jq_get_table_names \/ getColumnNames \/ getColumnTypes \/ getPrimaryKey
  <2>1. pc' \notin {"idle", "tables", "done"}
    BY <1>8 DEF jq_get_table_names, getColumnNames, getColumnTypes, getPrimaryKey, Continue
  <2> QED BY <1>8, <2>1, TableNamesRead, ColumnsRead, PrimaryKeyRead
          DEF NothingRead, ImportedAsDefined
<1>9. CASE ImportError \/ EndImport
  BY <1>9 DEF ImportError, EndImport, NothingRead, ReadInOrder, ImportedAsDefined
<1>10. CASE RunCommands
  BY <1>10, RunCommandsImport DEF RunCommands, NothingRead, ReadInOrder
<1>11. CASE UNCHANGED vars
  BY <1>11, StutterImport DEF vars, optionVars, Elsewhere
<1> QED BY <1>2, <1>3, <1>4, <1>5, <1>6, <1>7, <1>8, <1>9, <1>10, <1>11 DEF Next

(* However many tables and columns there are, the names, types and keys    *)
(* that jq_get_column_infos reads by separate calls are put together to    *)
(* the table that is defined remotely, and the commands of                 *)
(* jdbcImportForeignSchema leave it locally.                               *)
THEOREM ImportCorrect == Spec => []ImportedAsDefined
<1>1. Init => ImportInv
  BY InitImport
<1>2. ImportInv /\ [Next]_vars => ImportInv'
  BY NextImport
<1>3. ImportInv => ImportedAsDefined
  BY DEF ImportInv
<1> QED BY <1>1, <1>2, <1>3, PTL DEF Spec
=============================================================================
