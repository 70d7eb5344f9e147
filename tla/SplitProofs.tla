---------------------------- MODULE SplitProofs ----------------------------
(***************************************************************************)
(* Theorems about the split that genHisto takes, for every cardinality and *)
(* every average: the table of partial sums holds what it is meant to      *)
(* wherever it is read, the means are those of their groups, and no other  *)
(* split would have lowered the squared error more.                        *)
(***************************************************************************)
EXTENDS BestSplit, PartitionProofs

Avgs   == [AllGroups -> Int]
Tables == [AllGroups -> [AllGroups -> Int]]

\* The sum of the averages of groups b..e.
SumOf(a, b, e) == SumFunctionOnSet(a, b .. e)

\* A segment of the axis.
OnAxis(x) ==
  x.b \in Int /\ x.e \in Int /\ 0 <= x.b /\ x.b <= x.e /\ x.e < Card

LEMMA GroupsOnAxis ==
  ASSUME NEW x, OnAxis(x)
  PROVE  /\ Groups(x) \subseteq AllGroups /\ IsFiniteSet(Groups(x))
         /\ Cardinality(Groups(x)) = x.e - x.b + 1
         /\ Card \in Nat \ {0}
<1>1. Card \in Nat \ {0}
  BY BestSplitAssumption
<1>2. /\ x.b \in Int /\ x.e \in Int /\ 0 <= x.b /\ x.b <= x.e /\ x.e < Card
  BY DEF OnAxis
<1>3. /\ IsFiniteSet(x.b .. x.e)
      /\ Cardinality(x.b .. x.e) = IF x.b > x.e THEN 0 ELSE x.e - x.b + 1
  BY <1>2, FS_Interval
<1>4. Cardinality(x.b .. x.e) = x.e - x.b + 1
  BY <1>2, <1>3
<1> QED
  BY <1>1, <1>2, <1>3, <1>4 DEF Groups, AllGroups

\* The sums of averages along the axis.
LEMMA SumsOnAxis ==
  ASSUME NEW a \in Avgs, NEW b \in Int, NEW e \in Int, 0 <= b, e < Card
  PROVE  Numbers(a, b .. e) /\ SumOf(a, b, e) \in Int
<1>1. Card \in Nat /\ b .. e \subseteq AllGroups
  BY BestSplitAssumption DEF AllGroups
<1>2. Numbers(a, b .. e)
  BY <1>1, FS_Interval DEF Numbers, Avgs
<1> QED
  BY <1>2, SumInt DEF SumOf

LEMMA SumOneMore ==
  ASSUME NEW a \in Avgs, NEW b \in Int, NEW e \in Int, 0 <= b, b <= e, e < Card
  PROVE  SumOf(a, b, e) = (IF b = e THEN 0 ELSE SumOf(a, b, e - 1)) + a[e]
<1>1. /\ Numbers(a, b .. e - 1 + 1) /\ e - 1 + 1 = e /\ e - 1 \in Int /\ b <= e - 1 + 1
  BY SumsOnAxis
<1>2. /\ SumFunctionOnSet(a, b .. e - 1) \in Int
      /\ SumFunctionOnSet(a, b .. e - 1 + 1) = SumFunctionOnSet(a, b .. e - 1) + a[e - 1 + 1]
  BY <1>1, SumNext
<1>3. SumOf(a, b, e) = SumOf(a, b, e - 1) + a[e]
  BY <1>1, <1>2 DEF SumOf
<1>4. b = e => SumOf(a, b, e - 1) = 0
  <2>1. b = e => b .. e - 1 = {}
    OBVIOUS
  <2> QED
    BY <2>1, SumEmpty DEF SumOf
<1> QED
  BY <1>3, <1>4

\* Two neighbouring runs of groups.
LEMMA SumTwoRuns ==
  ASSUME NEW a \in Avgs, NEW b \in Int, NEW g \in Int, NEW e \in Int,
         0 <= b, b <= g, g <= e, e < Card
  PROVE  SumOf(a, b, e) = SumOf(a, b, g) + SumOf(a, g + 1, e)
<1> DEFINE S == b .. g
           T == g + 1 .. e
<1>1. S \cap T = {} /\ S \cup T = b .. e
  OBVIOUS
<1>2. Numbers(a, S) /\ Numbers(a, T)
  <2>1. Card \in Int
    BY BestSplitAssumption
  <2> QED
    BY <2>1, SumsOnAxis
<1> HIDE DEF S, T
<1>3. SumFunctionOnSet(a, S \cup T) = SumFunctionOnSet(a, S) + SumFunctionOnSet(a, T)
  BY <1>1, <1>2, SumUnion
<1> QED
  BY <1>1, <1>3 DEF SumOf, S, T

-----------------------------------------------------------------------------
(* The table of partial sums.                                              *)

\* One column: what is written and what is left alone.
LEMMA ColumnCells ==
  ASSUME NEW a \in Avgs, NEW t \in Tables, NEW x, OnAxis(x), NEW am \in 0 .. x.e - x.b
  PROVE  /\ FillColumn(a, t, x, am) \in Tables
         /\ \A i, j \in AllGroups :
              FillColumn(a, t, x, am)[i][j] =
                IF j # am \/ i > am THEN t[i][j]
                ELSE a[x.b + am] + (IF i = am THEN 0 ELSE t[i][am - 1])
<1>1. /\ x.b \in Int /\ x.e \in Int /\ 0 <= x.b /\ x.b <= x.e /\ x.e < Card
      /\ Card \in Nat
  BY BestSplitAssumption DEF OnAxis
<1>2. am \in AllGroups /\ x.b + am \in AllGroups /\ am \in Int
  BY <1>1 DEF AllGroups
<1>3. a[x.b + am] \in Int
  BY <1>2 DEF Avgs
<1>4. ASSUME NEW i \in AllGroups
      PROVE  /\ FillColumn(a, t, x, am)[i] \in [AllGroups -> Int]
             /\ \A j \in AllGroups :
                  FillColumn(a, t, x, am)[i][j] =
                    IF j # am \/ i > am THEN t[i][j]
                    ELSE a[x.b + am] + (IF i = am THEN 0 ELSE t[i][am - 1])
  <2>1. t[i] \in [AllGroups -> Int]
    BY DEF Tables
  <2>2. CASE i > am
    <3>1. FillColumn(a, t, x, am)[i] = t[i]
      BY <2>2 DEF FillColumn
    <3> QED
      BY <2>1, <2>2, <3>1
  <2>3. CASE ~(i > am)
    <3> DEFINE v == a[x.b + am] + (IF i = am THEN 0 ELSE t[i][am - 1])
    <3>1. v \in Int
      <4>1. i # am => am - 1 \in AllGroups
        BY <1>1, <1>2, <2>3 DEF AllGroups
      <4>2. i # am => t[i][am - 1] \in Int
        BY <2>1, <4>1
      <4> QED
        BY <1>3, <4>2
    <3>2. FillColumn(a, t, x, am)[i] = [t[i] EXCEPT ![am] = v]
      BY <2>3 DEF FillColumn
    <3> HIDE DEF v
    <3>3. [t[i] EXCEPT ![am] = v] \in [AllGroups -> Int]
      BY <2>1, <3>1
    <3>4. \A j \in AllGroups : [t[i] EXCEPT ![am] = v][j] = IF j # am THEN t[i][j] ELSE v
      BY <1>2, <2>1
    <3> QED
      BY <2>3, <3>2, <3>3, <3>4 DEF v
  <2> QED
    BY <2>2, <2>3
<1>5. FillColumn(a, t, x, am) \in Tables
  <2>1. FillColumn(a, t, x, am) = [i \in AllGroups |-> FillColumn(a, t, x, am)[i]]
    BY DEF FillColumn
  <2> HIDE DEF FillColumn
  <2> QED
    BY <1>4, <2>1 DEF Tables
<1> QED
  BY <1>4, <1>5

\* The first columns hold the sums that end at their groups.
Filled(a, x, k) ==
  { t \in Tables : \A i, j \in 0 .. k - 1 : i <= j => t[i][j] = SumOf(a, x.b + i, x.b + j) }

LEMMA ColumnFills ==
  ASSUME NEW a \in Avgs, NEW x, OnAxis(x), NEW k \in 0 .. x.e - x.b,
         NEW t \in Filled(a, x, k)
  PROVE  FillColumn(a, t, x, k) \in Filled(a, x, k + 1)
<1>1. /\ x.b \in Int /\ x.e \in Int /\ 0 <= x.b /\ x.b <= x.e /\ x.e < Card
      /\ Card \in Nat /\ t \in Tables /\ k \in Int
  BY BestSplitAssumption DEF OnAxis, Filled
<1> DEFINE n == FillColumn(a, t, x, k)
<1>2. /\ n \in Tables
      /\ \A i, j \in AllGroups :
           n[i][j] = IF j # k \/ i > k THEN t[i][j]
                     ELSE a[x.b + k] + (IF i = k THEN 0 ELSE t[i][k - 1])
  BY <1>1, ColumnCells
<1> HIDE DEF n
<1>3. ASSUME NEW i \in 0 .. k, NEW j \in 0 .. k, i <= j
      PROVE  n[i][j] = SumOf(a, x.b + i, x.b + j)
  <2>1. i \in AllGroups /\ j \in AllGroups /\ i \in Int /\ j \in Int
    BY <1>1 DEF AllGroups
  <2>2. CASE j # k
    <3>1. i \in 0 .. k - 1 /\ j \in 0 .. k - 1
      BY <1>1, <1>3, <2>2
    <3> QED
      BY <1>2, <1>3, <2>1, <2>2, <3>1 DEF Filled
  <2>3. CASE j = k
    <3>1. n[i][j] = a[x.b + k] + (IF i = k THEN 0 ELSE t[i][k - 1])
      BY <1>1, <1>2, <1>3, <2>1, <2>3
    <3>2. i # k => t[i][k - 1] = SumOf(a, x.b + i, x.b + k - 1)
      <4> SUFFICES ASSUME i # k PROVE t[i][k - 1] = SumOf(a, x.b + i, x.b + k - 1)
        OBVIOUS
      <4>1. i \in 0 .. k - 1 /\ k - 1 \in 0 .. k - 1 /\ i <= k - 1
        BY <1>1, <2>1
      <4>2. t[i][k - 1] = SumOf(a, x.b + i, x.b + (k - 1))
        BY <4>1 DEF Filled
      <4>3. x.b + (k - 1) = x.b + k - 1
        BY <1>1
      <4> QED
        BY <4>2, <4>3
    <3>3. SumOf(a, x.b + i, x.b + k)
            = (IF i = k THEN 0 ELSE SumOf(a, x.b + i, x.b + k - 1)) + a[x.b + k]
      <4> DEFINE b == x.b + i
                 e == x.b + k
      <4>1. b \in Int /\ e \in Int /\ 0 <= b /\ b <= e /\ e < Card /\ (b = e <=> i = k)
        BY <1>1, <2>1
      <4> HIDE DEF b, e
      <4>2. SumOf(a, b, e) = (IF b = e THEN 0 ELSE SumOf(a, b, e - 1)) + a[e]
        BY <4>1, SumOneMore
      <4> QED
        BY <1>1, <2>1, <4>1, <4>2 DEF b, e
    <3>4. /\ a[x.b + k] \in Int /\ SumOf(a, x.b + i, x.b + k - 1) \in Int
      <4>1. x.b + k \in AllGroups
        BY <1>1 DEF AllGroups
      <4>2. x.b + i \in Int /\ x.b + k - 1 \in Int /\ 0 <= x.b + i /\ x.b + k - 1 < Card
        BY <1>1, <2>1
      <4> QED
        BY <4>1, <4>2, SumsOnAxis DEF Avgs
    <3> QED
      BY <2>3, <3>1, <3>2, <3>3, <3>4
  <2> QED
    BY <2>2, <2>3
<1>4. k + 1 - 1 = k
  BY <1>1
<1> QED
  BY <1>2, <1>3, <1>4 DEF Filled, n

\* The fold over the columns, as an equation.
Columns(x) == [k \in 1 .. Cardinality(Groups(x)) |-> k - 1]
FillEqn(a, t, x, g) ==
  g = [s \in SUBSET DOMAIN Columns(x) |->
         IF s = {} THEN t ELSE FillColumn(a, g[s \ {Max(s)}], x, Columns(x)[Max(s)])]

LEMMA FillFold ==
  ASSUME NEW a, NEW t, NEW x, NEW h, FillEqn(a, t, x, h)
  PROVE  \E g : FillEqn(a, t, x, g) /\ Fill(a, t, x) = g[DOMAIN Columns(x)]
<1>1. Fill(a, t, x) = FoldLeft(LAMBDA u, am : FillColumn(a, u, x, am), t, Columns(x))
  BY Zenon DEF Fill, Columns
<1> QED
  BY <1>1, Zenon DEF FoldLeft, MapThenFoldSet, FillEqn

\* All columns hold them, whatever other segments left in the table.
LEMMA TableFilled ==
  ASSUME NEW a \in Avgs, NEW t \in Tables, NEW x, OnAxis(x)
  PROVE  Fill(a, t, x) \in Filled(a, x, x.e - x.b + 1)
<1> DEFINE n == x.e - x.b + 1
           S == 1 .. n
           F == [p \in S \X Tables |-> FillColumn(a, p[2], x, p[1] - 1)]
           pick == [s \in SUBSET S |-> Max(s)]
<1>1. n \in Nat /\ Cardinality(Groups(x)) = n /\ n - 1 = x.e - x.b
  BY GroupsOnAxis DEF OnAxis
<1>0. DOMAIN Columns(x) = S
  BY <1>1 DEF Columns
<1>2. IsFiniteSet(S) /\ Picks(pick, S)
  <2> HIDE DEF n
  <2>1. Picks(pick, S)
    BY <1>1, MaxPicks, Zenon
  <2> QED
    BY <1>1, <2>1, FS_Interval
<1>3. F \in [S \X Tables -> Tables]
  <2>1. ASSUME NEW p \in S \X Tables
        PROVE  FillColumn(a, p[2], x, p[1] - 1) \in Tables
    <3>1. p[2] \in Tables /\ p[1] \in S
      OBVIOUS
    <3>2. p[1] - 1 \in 0 .. x.e - x.b
      BY <1>1, <3>1
    <3> QED
      BY <3>1, <3>2, ColumnCells
  <2> QED
    BY <2>1
<1>4. PICK h \in [SUBSET S -> Tables] : FoldBy(F, t, pick, S, h)
  <2> HIDE DEF F, S, pick
  <2> QED
    BY <1>2, <1>3, FoldByExists, Zenon
<1>5. \A s \in SUBSET S : s # {} => Max(s) \in S /\ s \ {Max(s)} \in SUBSET S
                                    /\ pick[s] = Max(s)
  <2>1. \A s \in SUBSET S : pick[s] = Max(s)
    OBVIOUS
  <2> HIDE DEF S, pick
  <2> QED
    BY <1>2, <2>1 DEF Picks
<1>6. FillEqn(a, t, x, h)
  <2>1. ASSUME NEW s \in SUBSET S, s # {}
        PROVE  F[<< Max(s), h[s \ {Max(s)}] >>]
                 = FillColumn(a, h[s \ {Max(s)}], x, Columns(x)[Max(s)])
    BY <1>1, <1>5, <2>1 DEF Columns
  <2> HIDE DEF F, S
  <2> QED
    BY <1>0, <1>4, <1>5, <2>1 DEF FoldBy, FillEqn
<1>7. PICK g : FillEqn(a, t, x, g) /\ Fill(a, t, x) = g[S]
  <2> HIDE DEF S
  <2> QED
    BY <1>0, <1>6, FillFold, Zenon
<1> DEFINE V == { k \in 0 .. n : g[1 .. k] \in Filled(a, x, k) }
<1>8. 0 \in V
  <2>1. g[{}] = t /\ 1 .. 0 = {}
    BY <1>0, <1>7 DEF FillEqn
  <2>2. t \in Filled(a, x, 0)
    BY DEF Filled
  <2> HIDE DEF n
  <2> QED
    BY <1>1, <2>1, <2>2
<1>9. ASSUME NEW k \in 0 .. n - 1, k \in V
      PROVE  k + 1 \in V
  <2> HIDE DEF n
  <2> DEFINE s == 1 .. k + 1
  <2>1. s \in SUBSET S /\ s # {} /\ k + 1 \in S /\ k + 1 \in 0 .. n /\ k + 1 - 1 = k
    BY <1>1
  <2>2. Max(s) = k + 1 /\ s \ {Max(s)} = 1 .. k
    BY MaxUpTo
  <2>3. g[s] = FillColumn(a, g[s \ {Max(s)}], x, Columns(x)[Max(s)])
    BY <1>0, <1>7, <2>1 DEF FillEqn
  <2>4. Columns(x)[k + 1] = k
    BY <1>1, <2>1 DEF Columns
  <2>5. g[s] = FillColumn(a, g[1 .. k], x, k)
    BY <2>2, <2>3, <2>4
  <2>6. k \in 0 .. x.e - x.b /\ g[1 .. k] \in Filled(a, x, k)
    BY <1>1, <1>9
  <2>7. g[s] \in Filled(a, x, k + 1)
    BY <2>5, <2>6, ColumnFills
  <2> QED
    BY <2>1, <2>7
<1>10. n \in V
  <2> HIDE DEF V, n
  <2>1. \A k \in 0 .. n : k \in V
    BY <1>1, <1>8, <1>9, UpTo
  <2> QED
    BY <1>1, <2>1
<1> QED
  BY <1>7, <1>10

-----------------------------------------------------------------------------
(* The score of a cut, and the best cut of a segment.                      *)

\* What is computed from the table, without the table.
LeftOf(a, x, g)  == Mean(SumOf(a, x.b, g), g - x.b + 1)
RightOf(a, x, g) ==
  IF g = x.e THEN Mean(0, 1) ELSE Mean(SumOf(a, g + 1, x.e), x.e - g)
ScoreOf(a, x, g) ==
  LET l == LeftOf(a, x, g)
      r == RightOf(a, x, g)
      d == l.sum * r.n - r.sum * l.n
  IN Mean(l.n * (x.e - g) * d * d,
          Card * (x.e - x.b + 1) * (l.n * r.n) * (l.n * r.n))

LEMMA TableReads ==
  ASSUME NEW a \in Avgs, NEW x, OnAxis(x), NEW t \in Filled(a, x, x.e - x.b + 1),
         NEW g \in Groups(x)
  PROVE  /\ LeftMean(t, x, g) = LeftOf(a, x, g)
         /\ RightMean(t, x, g) = RightOf(a, x, g)
         /\ Gain(t, x, g) = ScoreOf(a, x, g)
<1>1. /\ x.b \in Int /\ x.e \in Int /\ x.b <= x.e
      /\ g \in Int /\ x.b <= g /\ g <= x.e
  BY DEF OnAxis, Groups
<1> DEFINE n == x.e - x.b + 1
<1>2. \A i, j \in 0 .. n - 1 : i <= j => t[i][j] = SumOf(a, x.b + i, x.b + j)
  BY DEF Filled
<1> HIDE DEF n
<1>3. t[0][g - x.b] = SumOf(a, x.b, g)
  <2>1. 0 \in 0 .. n - 1 /\ g - x.b \in 0 .. n - 1 /\ 0 <= g - x.b
    BY <1>1 DEF n
  <2>2. t[0][g - x.b] = SumOf(a, x.b + 0, x.b + (g - x.b))
    BY <1>2, <2>1
  <2>3. x.b + 0 = x.b /\ x.b + (g - x.b) = g
    BY <1>1
  <2> QED
    BY <2>2, <2>3
<1>4. g # x.e => t[g - x.b + 1][x.e - x.b] = SumOf(a, g + 1, x.e)
  <2> SUFFICES ASSUME g # x.e
               PROVE  t[g - x.b + 1][x.e - x.b] = SumOf(a, g + 1, x.e)
    OBVIOUS
  <2>1. /\ g - x.b + 1 \in 0 .. n - 1 /\ x.e - x.b \in 0 .. n - 1
        /\ g - x.b + 1 <= x.e - x.b
    BY <1>1 DEF n
  <2>2. t[g - x.b + 1][x.e - x.b] = SumOf(a, x.b + (g - x.b + 1), x.b + (x.e - x.b))
    BY <1>2, <2>1
  <2>3. x.b + (g - x.b + 1) = g + 1 /\ x.b + (x.e - x.b) = x.e
    BY <1>1
  <2> QED
    BY <2>2, <2>3
<1>5. LeftMean(t, x, g) = LeftOf(a, x, g)
  BY <1>3 DEF LeftMean, LeftOf
<1>6. RightMean(t, x, g) = RightOf(a, x, g)
  BY <1>4 DEF RightMean, RightOf
<1> QED
  BY <1>5, <1>6 DEF Gain, ScoreOf

\* The numbers a score is made of.  Only the last group scores nothing by
\* the rule: nothing is right of it.
LEMMA ScoreNumbers ==
  ASSUME NEW a \in Avgs, NEW x, OnAxis(x), NEW g \in Groups(x)
  PROVE  /\ LeftOf(a, x, g) \in Quotient
         /\ RightOf(a, x, g) \in Quotient
         /\ ScoreOf(a, x, g) \in Quotient
         /\ ScoreOf(a, x, g).sum >= 0
         /\ ScoreOf(a, x, x.e).sum = 0
<1>0. \A u \in Groups(x) :
        /\ LeftOf(a, x, u) \in Quotient
        /\ RightOf(a, x, u) \in Quotient
        /\ ScoreOf(a, x, u) \in Quotient
        /\ ScoreOf(a, x, u).sum >= 0
        /\ u = x.e => ScoreOf(a, x, u).sum = 0
  <2> SUFFICES ASSUME NEW u \in Groups(x)
               PROVE  /\ LeftOf(a, x, u) \in Quotient
                      /\ RightOf(a, x, u) \in Quotient
                      /\ ScoreOf(a, x, u) \in Quotient
                      /\ ScoreOf(a, x, u).sum >= 0
                      /\ u = x.e => ScoreOf(a, x, u).sum = 0
    OBVIOUS
  <2>1. /\ x.b \in Int /\ x.e \in Int /\ 0 <= x.b /\ x.b <= x.e /\ x.e < Card
        /\ u \in Int /\ x.b <= u /\ u <= x.e /\ Card \in Nat \ {0}
    BY BestSplitAssumption DEF OnAxis, Groups
  <2> DEFINE l == LeftOf(a, x, u)
             r == RightOf(a, x, u)
             d == l.sum * r.n - r.sum * l.n
  <2>2. l \in Quotient
    <3>1. SumOf(a, x.b, u) \in Int
      BY <2>1, SumsOnAxis
    <3> QED
      BY <2>1, <3>1 DEF LeftOf, Mean, Quotient
  <2>3. r \in Quotient
    <3>1. SumOf(a, u + 1, x.e) \in Int
      BY <2>1, SumsOnAxis
    <3> QED
      BY <2>1, <3>1 DEF RightOf, Mean, Quotient
  <2>4. ScoreOf(a, x, u) = Mean(l.n * (x.e - u) * d * d,
                                Card * (x.e - x.b + 1) * (l.n * r.n) * (l.n * r.n))
    BY DEF ScoreOf
  <2>5. l.sum \in Int /\ r.sum \in Int /\ l.n \in Nat \ {0} /\ r.n \in Nat \ {0}
    BY <2>2, <2>3 DEF Quotient
  <2> HIDE DEF l, r
  <2>6. d \in Int
    BY <2>5
  <2> HIDE DEF d
  <2>7. \A p, q \in Nat \ {0} : p * q \in Nat \ {0}
    OBVIOUS
  <2>8. Card * (x.e - x.b + 1) * (l.n * r.n) * (l.n * r.n) \in Nat \ {0}
    <3>1. x.e - x.b + 1 \in Nat \ {0}
      BY <2>1
    <3>2. Card * (x.e - x.b + 1) \in Nat \ {0} /\ l.n * r.n \in Nat \ {0}
      BY <2>1, <2>5, <2>7, <3>1
    <3>3. Card * (x.e - x.b + 1) * (l.n * r.n) \in Nat \ {0}
      BY <2>7, <3>2
    <3> QED
      BY <2>7, <3>2, <3>3
  <2>9. /\ l.n * (x.e - u) * d * d \in Int /\ l.n * (x.e - u) * d * d >= 0
        /\ u = x.e => l.n * (x.e - u) * d * d = 0
    <3>1. x.e - u \in Nat
      BY <2>1
    <3>2. \A p, q \in Nat : p * q \in Nat
      OBVIOUS
    <3>3. l.n * (x.e - u) \in Nat
      BY <2>5, <3>1, <3>2
    <3>4. d * d \in Nat
      BY <2>6
    <3>5. (l.n * (x.e - u)) * (d * d) \in Nat
      BY <3>2, <3>3, <3>4
    <3>6. l.n * (x.e - u) * d * d = (l.n * (x.e - u)) * (d * d)
      BY <2>6, <3>3
    <3>7. u = x.e => l.n * (x.e - u) = 0
      BY <2>1, <2>5
    <3> QED
      BY <3>4, <3>5, <3>6, <3>7
  <2> QED
    BY <2>2, <2>3, <2>4, <2>8, <2>9 DEF Mean, Quotient, l, r
<1>1. x.e \in Groups(x)
  BY DEF OnAxis, Groups
<1> QED
  BY <1>0, <1>1

\* Below is the order of the quotients.
LEMMA BelowOrders ==
  /\ \A p, q \in Quotient : AtMost(p, q) <=> ~Below(q, p)
  /\ \A p, q \in Quotient : AtMost(p, q) \/ AtMost(q, p)
  /\ \A p, q, r \in Quotient : AtMost(p, q) /\ AtMost(q, r) => AtMost(p, r)
<1>1. ASSUME NEW p \in Quotient, NEW q \in Quotient
      PROVE  AtMost(p, q) <=> ~Below(q, p)
  <2>1. /\ p.sum \in Int /\ p.n \in Int /\ q.sum \in Int /\ q.n \in Int
    BY DEF Quotient
  <2>2. p.sum * q.n \in Int /\ q.sum * p.n \in Int
    BY <2>1
  <2> QED
    BY <2>2 DEF AtMost, Below
<1> QED
  BY <1>1, AtMostOrders

\* Among finitely many groups with a score each there is a first best.
IsFirstBest(S, f, g) ==
  \A h \in S : IF h < g THEN Below(f[h], f[g]) ELSE ~Below(f[g], f[h])

LEMMA FirstBest ==
  ASSUME NEW S, IsFiniteSet(S), S # {}, S \subseteq Nat, NEW f \in [S -> Quotient]
  PROVE  \E g \in S : IsFirstBest(S, f, g)
<1> DEFINE R == { p \in S \X S : AtMost(f[p[1]], f[p[2]]) }
<1>1. \A x, y \in S : << x, y >> \in R <=> AtMost(f[x], f[y])
  OBVIOUS
<1>2. \A x \in S : f[x] \in Quotient
  OBVIOUS
<1> HIDE DEF R
<1>3. /\ \A x, y \in S : << x, y >> \in R \/ << y, x >> \in R
      /\ \A x, y, z \in S : << x, y >> \in R /\ << y, z >> \in R => << x, z >> \in R
  BY <1>1, <1>2, BelowOrders
<1>4. PICK m \in S : \A o \in S : << o, m >> \in R
  BY <1>3, FiniteBest
<1> DEFINE B == { x \in S : AtMost(f[m], f[x]) }
<1>5. B \subseteq Nat /\ B # {}
  BY <1>1, <1>4
<1>6. PICK g \in B : \A x \in B : g <= x
  <2> HIDE DEF B
  <2> QED
    BY <1>5, LeastNat
<1>7. ASSUME NEW h \in S
      PROVE  IF h < g THEN Below(f[h], f[g]) ELSE ~Below(f[g], f[h])
  <2>1. AtMost(f[h], f[m]) /\ AtMost(f[m], f[g])
    BY <1>1, <1>4
  <2>2. AtMost(f[h], f[g])
    BY <1>2, <2>1, BelowOrders
  <2>3. CASE h < g
    <3>1. h \notin B
      BY <1>5, <1>6, <2>3
    <3>2. ~AtMost(f[m], f[h])
      BY <3>1
    <3>3. ~AtMost(f[g], f[h])
      BY <1>2, <2>1, <3>2, BelowOrders
    <3> QED
      BY <1>2, <2>3, <3>3, BelowOrders
  <2>4. CASE ~(h < g)
    BY <1>2, <2>2, <2>4, BelowOrders
  <2> QED
    BY <2>3, <2>4
<1> QED
  BY <1>6, <1>7 DEF IsFirstBest

\* A cut is never after the last group: that scores nothing, and every other
\* cut scores at least as much before it.
LEMMA BestCutIs ==
  ASSUME NEW a \in Avgs, NEW x, OnAxis(x), NEW t \in Filled(a, x, x.e - x.b + 1)
  PROVE  /\ BestCut(t, x) \in Groups(x)
         /\ \A h \in Groups(x) : ~Below(ScoreOf(a, x, BestCut(t, x)), ScoreOf(a, x, h))
         /\ x.b < x.e => BestCut(t, x) # x.e
<1> DEFINE S == Groups(x)
           f == [g \in S |-> ScoreOf(a, x, g)]
           g == BestCut(t, x)
<1>1. IsFiniteSet(S) /\ S # {} /\ S \subseteq Nat /\ x.b \in S /\ x.e \in S
      /\ x.b \in Int /\ x.e \in Int
  <2>1. x.b \in S /\ x.e \in S /\ S \subseteq Nat
    BY DEF OnAxis, Groups
  <2> QED
    BY <2>1, GroupsOnAxis DEF OnAxis
<1>2. f \in [S -> Quotient] /\ \A h \in S : f[h] = Gain(t, x, h)
  BY ScoreNumbers, TableReads
<1>3. \A h \in S : f[h] = ScoreOf(a, x, h)
  OBVIOUS
<1> HIDE DEF f
<1>4. \E u \in S : IsFirstBest(S, f, u)
  <2> HIDE DEF S
  <2> QED
    BY <1>1, <1>2, FirstBest
<1>5. \A u \in S : IsFirstBest(S, f, u) <=>
        \A h \in S : IF h < u THEN Below(Gain(t, x, h), Gain(t, x, u))
                              ELSE ~Below(Gain(t, x, u), Gain(t, x, h))
  BY <1>2 DEF IsFirstBest
<1>6. g = CHOOSE u \in S : \A h \in S :
            IF h < u THEN Below(Gain(t, x, h), Gain(t, x, u))
                     ELSE ~Below(Gain(t, x, u), Gain(t, x, h))
  BY Zenon DEF BestCut
<1> HIDE DEF g, S
<1>7. g \in S /\ IsFirstBest(S, f, g)
  BY <1>4, <1>5, <1>6
<1>8. \A h \in S : ~Below(f[g], f[h])
  <2> SUFFICES ASSUME NEW h \in S PROVE ~Below(f[g], f[h])
    OBVIOUS
  <2>1. Below(f[h], f[g]) => ~Below(f[g], f[h])
    <3>1. f[h] \in Quotient /\ f[g] \in Quotient
      BY <1>2, <1>7
    <3>2. /\ f[h].sum \in Int /\ f[h].n \in Int /\ f[g].sum \in Int /\ f[g].n \in Int
      BY <3>1 DEF Quotient
    <3> QED
      BY <3>2 DEF Below
  <2> QED
    BY <1>7, <2>1 DEF IsFirstBest
<1>9. ASSUME x.b < x.e, g = x.e
      PROVE  FALSE
  <2>1. Below(f[x.b], f[x.e])
    BY <1>1, <1>7, <1>9 DEF IsFirstBest
  <2>2. /\ f[x.b] = ScoreOf(a, x, x.b) /\ f[x.e] = ScoreOf(a, x, x.e)
        /\ f[x.b] \in Quotient /\ f[x.e] \in Quotient
    BY <1>1, <1>2, <1>3
  <2>3. f[x.b].sum >= 0 /\ f[x.e].sum = 0
    BY <1>1, <2>2, ScoreNumbers DEF S
  <2>4. f[x.b].sum \in Int /\ f[x.b].n \in Nat /\ f[x.e].n \in Nat
    BY <2>2 DEF Quotient
  <2>5. f[x.b].sum * f[x.e].n >= 0
    BY <2>3, <2>4
  <2> QED
    BY <2>1, <2>3, <2>4, <2>5 DEF Below
<1> QED
  BY <1>3, <1>7, <1>8, <1>9 DEF g, S

-----------------------------------------------------------------------------
(* The search of an iteration, over all segments.                          *)

SegsOnAxis == Len(segs) \in Nat /\ \A s \in 1 .. Len(segs) : OnAxis(segs[s])

\* What the search holds once a cut is its best so far.
Finding(a, t, s, g) ==
  [table |-> t, cut |-> [seg |-> s, g |-> g], gain |-> ScoreOf(a, segs[s], g),
   left |-> LeftOf(a, segs[s], g), right |-> RightOf(a, segs[s], g)]
Bests(a) ==
  { Nothing(t) : t \in Tables }
    \cup { Finding(a, t, s, g) : t \in Tables, s \in 1 .. Len(segs), g \in AllGroups }

\* The cut of a segment that competes.
Competes(a, s, g) ==
  /\ g \in Groups(segs[s]) /\ g # segs[s].e
  /\ \A h \in Groups(segs[s]) : ~Below(ScoreOf(a, segs[s], g), ScoreOf(a, segs[s], h))

\* It becomes the best so far if it scores above that.
Considered(a, b, s, u, g) ==
  /\ u \in Tables
  /\ Competes(a, s, g)
  /\ Consider(a, b, s) = IF Below(b.gain, ScoreOf(a, segs[s], g))
                           THEN Finding(a, u, s, g) ELSE [b EXCEPT !.table = u]

LEMMA ConsiderIs ==
  ASSUME NEW a \in Avgs, SegsOnAxis, NEW s \in Splittable(segs), NEW b, b.table \in Tables
  PROVE  \E u, g : Considered(a, b, s, u, g)
<1> DEFINE x == segs[s]
           u == Fill(a, b.table, x)
           g == BestCut(u, x)
<1>1. OnAxis(x) /\ x.b < x.e
  BY DEF SegsOnAxis, Splittable
<1>2. u \in Filled(a, x, x.e - x.b + 1)
  <2> HIDE DEF x
  <2> QED
    BY <1>1, TableFilled
<1>3. u \in Tables
  <2> HIDE DEF u
  <2> QED
    BY <1>2 DEF Filled
<1>4. Consider(a, b, s) =
        IF Below(b.gain, Gain(u, x, g))
          THEN [table |-> u, cut |-> [seg |-> s, g |-> g], gain |-> Gain(u, x, g),
                left |-> LeftMean(u, x, g), right |-> RightMean(u, x, g)]
          ELSE [b EXCEPT !.table = u]
  BY Zenon DEF Consider
<1> HIDE DEF u, x
<1>5. /\ g \in Groups(x) /\ g # x.e
      /\ \A h \in Groups(x) : ~Below(ScoreOf(a, x, g), ScoreOf(a, x, h))
  BY <1>1, <1>2, BestCutIs
<1> HIDE DEF g
<1>6. /\ LeftMean(u, x, g) = LeftOf(a, x, g)
      /\ RightMean(u, x, g) = RightOf(a, x, g)
      /\ Gain(u, x, g) = ScoreOf(a, x, g)
  BY <1>1, <1>2, <1>5, TableReads
<1>7. Consider(a, b, s) =
        IF Below(b.gain, ScoreOf(a, x, g))
          THEN [table |-> u, cut |-> [seg |-> s, g |-> g], gain |-> ScoreOf(a, x, g),
                left |-> LeftOf(a, x, g), right |-> RightOf(a, x, g)]
          ELSE [b EXCEPT !.table = u]
  BY <1>4, <1>6, Zenon
<1> QED
  BY <1>3, <1>5, <1>7, Zenon DEF Competes, Considered, Finding, x

LEMMA ConsiderStays ==
  ASSUME NEW a \in Avgs, SegsOnAxis, NEW s \in 1 .. Len(segs), NEW b \in Bests(a)
  PROVE  Consider(a, b, s) \in Bests(a)
<1>1. CASE s \notin Splittable(segs)
  BY <1>1 DEF Consider
<1>2. CASE s \in Splittable(segs)
  <2>1. b.table \in Tables
    BY DEF Bests, Nothing, Finding
  <2>0. PICK u, g : Considered(a, b, s, u, g)
    BY <1>2, <2>1, ConsiderIs
  <2>2. /\ u \in Tables
        /\ Competes(a, s, g)
        /\ Consider(a, b, s) = IF Below(b.gain, ScoreOf(a, segs[s], g))
                                 THEN Finding(a, u, s, g) ELSE [b EXCEPT !.table = u]
    BY <2>0 DEF Considered
  <2>3. g \in AllGroups
    <3>1. OnAxis(segs[s]) /\ g \in Groups(segs[s])
      BY <2>2 DEF SegsOnAxis, Competes
    <3> DEFINE x == segs[s]
    <3> HIDE DEF x
    <3>2. OnAxis(x) /\ g \in Groups(x)
      BY <3>1 DEF x
    <3> QED
      BY <3>2, GroupsOnAxis
  <2>4. Finding(a, u, s, g) \in Bests(a)
    BY <2>2, <2>3 DEF Bests
  <2>5. [b EXCEPT !.table = u] \in Bests(a)
    <3>1. CASE b \in { Nothing(t) : t \in Tables }
      <4>1. [b EXCEPT !.table = u] = Nothing(u)
        BY <3>1 DEF Nothing
      <4> QED
        BY <2>2, <4>1 DEF Bests
    <3>2. CASE b \notin { Nothing(t) : t \in Tables }
      <4>1. PICK t \in Tables, o \in 1 .. Len(segs), h \in AllGroups : b = Finding(a, t, o, h)
        BY <3>2 DEF Bests
      <4>2. [b EXCEPT !.table = u] = Finding(a, u, o, h)
        BY <4>1 DEF Finding
      <4> QED
        BY <2>2, <4>1, <4>2 DEF Bests
    <3> QED
      BY <3>1, <3>2
  <2> QED
    BY <2>2, <2>4, <2>5
<1> QED
  BY <1>1, <1>2

\* What the search holds after k segments: nothing as long as none of them
\* can be split, then the best cut of all of them.
Wins(a, k, s, g) ==
  /\ s \in Splittable(segs) /\ s <= k /\ g \in Groups(segs[s]) /\ g # segs[s].e
  /\ \A o, h : o \in Splittable(segs) /\ o <= k /\ h \in Groups(segs[o]) =>
       ~Below(ScoreOf(a, segs[s], g), ScoreOf(a, segs[o], h))
NoneYet(k, b) ==
  (\E t \in Tables : b = Nothing(t)) /\ \A o \in Splittable(segs) : o > k
Ahead(a, k, b) ==
  \/ NoneYet(k, b)
  \/ \E t, s, g : t \in Tables /\ Wins(a, k, s, g) /\ b = Finding(a, t, s, g)

LEMMA NotBelow ==
  /\ \A p, q \in Quotient : Below(p, q) => ~Below(q, p)
  /\ \A p, q, r \in Quotient : ~Below(p, q) /\ ~Below(q, r) => ~Below(p, r)
<1>1. ASSUME NEW p \in Quotient, NEW q \in Quotient
      PROVE  Below(p, q) => ~Below(q, p)
  <2>1. /\ p.sum \in Int /\ p.n \in Int /\ q.sum \in Int /\ q.n \in Int
    BY DEF Quotient
  <2>2. p.sum * q.n \in Int /\ q.sum * p.n \in Int
    BY <2>1
  <2> QED
    BY <2>2 DEF Below
<1>2. ASSUME NEW p \in Quotient, NEW q \in Quotient, NEW r \in Quotient,
             ~Below(p, q), ~Below(q, r)
      PROVE  ~Below(p, r)
  <2>1. AtMost(q, p) /\ AtMost(r, q)
    BY <1>2, BelowOrders
  <2>2. AtMost(r, p)
    BY <2>1, BelowOrders
  <2> QED
    BY <2>2, BelowOrders
<1> QED
  BY <1>1, <1>2

LEMMA ScoresAreNumbers ==
  ASSUME NEW a \in Avgs, SegsOnAxis, NEW s \in Splittable(segs), NEW g \in Groups(segs[s])
  PROVE  /\ ScoreOf(a, segs[s], g) \in Quotient
         /\ Below(Mean(-1, 1), ScoreOf(a, segs[s], g))
<1> DEFINE x == segs[s]
<1>1. OnAxis(x) /\ g \in Groups(x)
  BY DEF SegsOnAxis, Splittable
<1> HIDE DEF x
<1>2. ScoreOf(a, x, g) \in Quotient /\ ScoreOf(a, x, g).sum >= 0
  BY <1>1, ScoreNumbers
<1>3. Below(Mean(-1, 1), ScoreOf(a, x, g))
  BY <1>2 DEF Below, Mean, Quotient
<1> QED
  BY <1>2, <1>3 DEF x

LEMMA ConsiderAhead ==
  ASSUME NEW a \in Avgs, SegsOnAxis, NEW k \in 0 .. Len(segs) - 1, NEW b, Ahead(a, k, b)
  PROVE  Ahead(a, k + 1, Consider(a, b, k + 1))
<1>0. /\ Len(segs) \in Nat /\ k \in Int /\ k + 1 \in 1 .. Len(segs)
      /\ Splittable(segs) \subseteq 1 .. Len(segs)
  BY DEF SegsOnAxis, Splittable
<1>a. \A o \in Splittable(segs) : o <= k + 1 => o <= k \/ o = k + 1
  BY <1>0
<1>1. CASE k + 1 \notin Splittable(segs)
  <2>1. Consider(a, b, k + 1) = b
    BY <1>1 DEF Consider
  <2>2. CASE NoneYet(k, b)
    <3>1. NoneYet(k + 1, b)
      BY <1>0, <1>1, <2>2 DEF NoneYet
    <3> QED
      BY <2>1, <3>1 DEF Ahead
  <2>3. CASE ~NoneYet(k, b)
    <3>1. PICK t, s, g : t \in Tables /\ Wins(a, k, s, g) /\ b = Finding(a, t, s, g)
      BY <2>3 DEF Ahead
    <3>2. s <= k + 1
      BY <1>0, <3>1 DEF Wins
    <3>3. Wins(a, k + 1, s, g)
      BY <1>1, <1>a, <3>1, <3>2 DEF Wins
    <3> QED
      BY <2>1, <3>1, <3>3 DEF Ahead
  <2> QED
    BY <2>2, <2>3
<1>2. CASE k + 1 \in Splittable(segs)
  <2> DEFINE i == k + 1
  <2>0. i \in Splittable(segs) /\ b.table \in Tables /\ i <= i /\ i = k + 1
    BY <1>0, <1>2 DEF Ahead, NoneYet, Nothing, Finding
  <2> HIDE DEF i
  <2>1. PICK u, g : Considered(a, b, i, u, g)
    BY <2>0, ConsiderIs
  <2>2. /\ u \in Tables
        /\ Competes(a, i, g)
        /\ Consider(a, b, i) = IF Below(b.gain, ScoreOf(a, segs[i], g))
                                 THEN Finding(a, u, i, g) ELSE [b EXCEPT !.table = u]
    BY <2>1 DEF Considered
  <2>3. /\ g \in Groups(segs[i]) /\ g # segs[i].e
        /\ \A h \in Groups(segs[i]) : ~Below(ScoreOf(a, segs[i], g), ScoreOf(a, segs[i], h))
    BY <2>2 DEF Competes
  <2>4. CASE NoneYet(k, b)
    <3>1. b.gain = Mean(-1, 1)
      BY <2>4 DEF NoneYet, Nothing
    <3>2. Consider(a, b, i) = Finding(a, u, i, g)
      BY <2>0, <2>2, <2>3, <3>1, ScoresAreNumbers
    <3>3. \A o \in Splittable(segs) : o <= i => o = i
      BY <1>0, <1>a, <2>0, <2>4 DEF NoneYet
    <3>4. Wins(a, i, i, g)
      BY <2>0, <2>3, <3>3 DEF Wins
    <3> QED
      BY <2>0, <2>2, <3>2, <3>4 DEF Ahead
  <2>5. CASE ~NoneYet(k, b)
    <3>1. PICK t, s, h : t \in Tables /\ Wins(a, k, s, h) /\ b = Finding(a, t, s, h)
      BY <2>5 DEF Ahead
    <3> DEFINE old == ScoreOf(a, segs[s], h)
               new == ScoreOf(a, segs[i], g)
    <3>2. /\ s \in Splittable(segs) /\ s <= k /\ h \in Groups(segs[s]) /\ h # segs[s].e
          /\ \A o, j : o \in Splittable(segs) /\ o <= k /\ j \in Groups(segs[o]) =>
               ~Below(old, ScoreOf(a, segs[o], j))
      BY <3>1 DEF Wins
    <3>3. b.gain = old
      BY <3>1 DEF Finding
    <3>4. old \in Quotient /\ new \in Quotient
      BY <2>0, <2>3, <3>2, ScoresAreNumbers
    <3>5. \A o, j : o \in Splittable(segs) /\ j \in Groups(segs[o]) =>
            ScoreOf(a, segs[o], j) \in Quotient
      BY ScoresAreNumbers
    <3>6. \A j \in Groups(segs[i]) : ~Below(new, ScoreOf(a, segs[i], j))
      BY <2>3
    <3>7. s <= i
      BY <1>0, <2>0, <3>2
    <3> HIDE DEF old, new
    <3>8. CASE Below(old, new)
      <4>1. Consider(a, b, i) = Finding(a, u, i, g)
        BY <2>2, <3>3, <3>8 DEF new
      <4>2. ASSUME NEW o, NEW j, o \in Splittable(segs), o <= i, j \in Groups(segs[o])
            PROVE  ~Below(new, ScoreOf(a, segs[o], j))
        <5>1. CASE o = i
          BY <3>6, <4>2, <5>1
        <5>2. CASE o <= k
          BY <3>2, <3>4, <3>5, <3>8, <4>2, <5>2, NotBelow
        <5> QED
          BY <1>a, <2>0, <4>2, <5>1, <5>2
      <4>3. Wins(a, i, i, g)
        BY <2>0, <2>3, <4>2 DEF Wins, new
      <4> QED
        BY <2>0, <2>2, <4>1, <4>3 DEF Ahead
    <3>9. CASE ~Below(old, new)
      <4>1. Consider(a, b, i) = [b EXCEPT !.table = u]
        BY <2>2, <3>3, <3>9 DEF new
      <4>2. [b EXCEPT !.table = u] = Finding(a, u, s, h)
        BY <3>1 DEF Finding
      <4>3. ASSUME NEW o, NEW j, o \in Splittable(segs), o <= i, j \in Groups(segs[o])
            PROVE  ~Below(old, ScoreOf(a, segs[o], j))
        <5>1. CASE o = i
          BY <3>4, <3>5, <3>6, <3>9, <4>3, <5>1, NotBelow
        <5>2. CASE o <= k
          BY <3>2, <4>3, <5>2
        <5> QED
          BY <1>a, <2>0, <4>3, <5>1, <5>2
      <4>4. Wins(a, i, s, h)
        BY <3>2, <3>7, <4>3 DEF Wins, old
      <4> QED
        BY <2>0, <2>2, <4>1, <4>2, <4>4 DEF Ahead
    <3> QED
      BY <3>8, <3>9
  <2> QED
    BY <2>4, <2>5
<1> QED
  BY <1>1, <1>2

\* The fold over the segments, as an equation.
Positions == [s \in 1 .. Len(segs) |-> s]
SearchEqn(a, g) ==
  g = [s \in SUBSET DOMAIN Positions |->
         IF s = {} THEN Nothing(avg_map)
         ELSE Consider(a, g[s \ {Max(s)}], Positions[Max(s)])]

LEMMA SearchFold ==
  ASSUME NEW a, NEW h, SearchEqn(a, h)
  PROVE  \E g : SearchEqn(a, g) /\ Search(a) = g[DOMAIN Positions]
<1>1. Search(a) = FoldLeft(LAMBDA b, s : Consider(a, b, s), Nothing(avg_map), Positions)
  BY Zenon DEF Search, Positions
<1> QED
  BY <1>1, Zenon DEF FoldLeft, MapThenFoldSet, SearchEqn

\* The search ends with the best cut there is, or with none to make.
LEMMA SearchIs ==
  ASSUME NEW a \in Avgs, SegsOnAxis, avg_map \in Tables
  PROVE  Ahead(a, Len(segs), Search(a))
<1> DEFINE n == Len(segs)
           S == 1 .. n
           V == Bests(a)
           base == Nothing(avg_map)
           F == [p \in S \X V |-> Consider(a, p[2], p[1])]
           pick == [s \in SUBSET S |-> Max(s)]
<1>0. n \in Nat
  BY DEF SegsOnAxis
<1>1. n \in Nat /\ DOMAIN Positions = S /\ \A s \in S : Positions[s] = s
  BY DEF SegsOnAxis, Positions
<1>2. IsFiniteSet(S) /\ Picks(pick, S)
  <2> HIDE DEF n
  <2>1. Picks(pick, S)
    BY <1>1, MaxPicks, Zenon
  <2> QED
    BY <1>1, <2>1, FS_Interval
<1>3. F \in [S \X V -> V] /\ base \in V
  <2>1. ASSUME NEW p \in S \X V
        PROVE  Consider(a, p[2], p[1]) \in V
    <3>1. p[2] \in V /\ p[1] \in S
      OBVIOUS
    <3> QED
      BY <3>1, ConsiderStays
  <2>2. base \in V
    BY DEF Bests
  <2> HIDE DEF V
  <2> QED
    BY <2>1, <2>2
<1>4. PICK h \in [SUBSET S -> V] : FoldBy(F, base, pick, S, h)
  <2> HIDE DEF F, S, pick, V, base
  <2> QED
    BY <1>2, <1>3, FoldByExists, Zenon
<1>5. \A s \in SUBSET S : s # {} => Max(s) \in S /\ s \ {Max(s)} \in SUBSET S
                                    /\ pick[s] = Max(s)
  <2>1. \A s \in SUBSET S : pick[s] = Max(s)
    OBVIOUS
  <2> HIDE DEF S, pick
  <2> QED
    BY <1>2, <2>1 DEF Picks
<1>6. SearchEqn(a, h)
  <2>1. ASSUME NEW s \in SUBSET S, s # {}
        PROVE  F[<< Max(s), h[s \ {Max(s)}] >>]
                 = Consider(a, h[s \ {Max(s)}], Positions[Max(s)])
    <3> HIDE DEF V, n
    <3> QED
      BY <1>1, <1>5, <2>1
  <2> HIDE DEF F, S, pick
  <2>2. \A s \in SUBSET S :
          (IF s = {} THEN base ELSE F[<< pick[s], h[s \ {pick[s]}] >>])
            = (IF s = {} THEN Nothing(avg_map)
               ELSE Consider(a, h[s \ {Max(s)}], Positions[Max(s)]))
    BY <1>5, <2>1
  <2> HIDE DEF base
  <2>3. h = [s \in SUBSET S |->
               IF s = {} THEN base ELSE F[<< pick[s], h[s \ {pick[s]}] >>]]
    BY <1>4 DEF FoldBy
  <2>4. DOMAIN Positions = S
    BY <1>1
  <2> QED
    BY <2>2, <2>3, <2>4, Zenon DEF SearchEqn
<1>7. PICK g : SearchEqn(a, g) /\ Search(a) = g[S]
  <2> HIDE DEF S
  <2> QED
    BY <1>1, <1>6, SearchFold, Zenon
<1> DEFINE W == { k \in 0 .. n : Ahead(a, k, g[1 .. k]) }
<1>8. 0 \in W
  <2>1. g[{}] = Nothing(avg_map) /\ 1 .. 0 = {}
    BY <1>1, <1>7 DEF SearchEqn
  <2>2. Ahead(a, 0, Nothing(avg_map))
    <3>1. \A o \in Splittable(segs) : o > 0
      BY DEF Splittable
    <3> QED
      BY <3>1 DEF Ahead, NoneYet
  <2> HIDE DEF n
  <2> QED
    BY <1>1, <2>1, <2>2
<1>9. ASSUME NEW k \in 0 .. n - 1, k \in W
      PROVE  k + 1 \in W
  <2> HIDE DEF n
  <2> DEFINE s == 1 .. k + 1
  <2>1. s \in SUBSET S /\ s # {} /\ k + 1 \in S /\ k + 1 \in 0 .. n
    BY <1>0
  <2>2. Max(s) = k + 1 /\ s \ {Max(s)} = 1 .. k
    BY MaxUpTo
  <2>3. g[s] = Consider(a, g[s \ {Max(s)}], Positions[Max(s)])
    BY <1>1, <1>7, <2>1 DEF SearchEqn
  <2>4. g[s] = Consider(a, g[1 .. k], k + 1)
    BY <1>1, <2>1, <2>2, <2>3
  <2>5. Ahead(a, k, g[1 .. k])
    BY <1>9
  <2>6. Ahead(a, k + 1, g[s])
    BY <2>4, <2>5, ConsiderAhead DEF n
  <2> QED
    BY <2>1, <2>6
<1>10. n \in W
  <2> HIDE DEF W, n
  <2>1. \A k \in 0 .. n : k \in W
    BY <1>1, <1>8, <1>9, UpTo
  <2> QED
    BY <1>1, <2>1
<1> QED
  BY <1>7, <1>10

-----------------------------------------------------------------------------
(* The iterations.                                                         *)

\* A segment of the axis with the mean it is drawn at.
Drawn == { x \in [b : AllGroups, e : AllGroups, mean : Quotient] : x.b <= x.e }

\* What holds between iterations.
SplitInv ==
  /\ avg_map \in Tables
  /\ segs \in Seq(Drawn)
  /\ avgMin \in Quotient
  /\ avgMax \in Quotient
  /\ MeansOnAxis

LEMMA DrawnOnAxis ==
  ASSUME segs \in Seq(Drawn)
  PROVE  SegsOnAxis /\ \A s \in 1 .. Len(segs) : segs[s] \in Drawn
<1>1. Card \in Nat
  BY BestSplitAssumption
<1>2. Len(segs) \in Nat /\ \A s \in 1 .. Len(segs) : segs[s] \in Drawn
  OBVIOUS
<1>3. \A x \in Drawn : OnAxis(x)
  BY <1>1 DEF Drawn, OnAxis, AllGroups
<1> QED
  BY <1>2, <1>3 DEF SegsOnAxis

\* The two segments of a split, and the split.
Lo(a, s, g) == [b |-> segs[s].b, e |-> g, mean |-> LeftOf(a, segs[s], g)]
Hi(a, s, g) == [b |-> g + 1, e |-> segs[s].e, mean |-> RightOf(a, segs[s], g)]
SplitsAt(a, s, g) ==
  /\ Wins(a, Len(segs), s, g)
  /\ cut' = [seg |-> s, g |-> g]
  /\ Widen(LeftOf(a, segs[s], g), RightOf(a, segs[s], g))
  /\ segs' = SplitSeg(segs, s, Lo(a, s, g), Hi(a, s, g))
Settles ==
  /\ Splittable(segs) = {} /\ cut' = NoCut /\ UNCHANGED << segs, avgMin, avgMax >>

LEMMA IterateIs ==
  ASSUME SplitInv, Iterate
  PROVE  /\ groupAvgs' \in Avgs
         /\ avg_map' \in Tables
         /\ Settles \/ \E s, g : SplitsAt(groupAvgs', s, g)
<1> DEFINE a == groupAvgs'
           best == Search(a)
<1>1. a \in Avgs
  <2>1. a \in [AllGroups -> Values] /\ Values \subseteq Int
    BY BestSplitAssumption DEF Iterate, Resampled
  <2> QED
    BY <2>1 DEF Avgs
<1>2. SegsOnAxis
  BY DrawnOnAxis DEF SplitInv
<1>3. Ahead(a, Len(segs), best)
  <2> HIDE DEF a
  <2> QED
    BY <1>1, <1>2, SearchIs DEF SplitInv
<1>4. /\ avg_map' = best.table
      /\ cut' = best.cut
      /\ \/ /\ best.cut = NoCut
            /\ UNCHANGED << segs, avgMin, avgMax >>
         \/ /\ best.cut # NoCut
            /\ Widen(best.left, best.right)
            /\ segs' = SplitSeg(segs, best.cut.seg,
                         Bar(LeftHalf(segs[best.cut.seg], best.cut.g), best.left),
                         Bar(RightHalf(segs[best.cut.seg], best.cut.g), best.right))
  BY Zenon DEF Iterate
<1> HIDE DEF a, best
<1>5. CASE NoneYet(Len(segs), best)
  <2>1. PICK t \in Tables : best = Nothing(t)
    BY <1>5 DEF NoneYet
  <2>2. best.table = t /\ best.cut = NoCut
    BY <2>1 DEF Nothing
  <2>3. Splittable(segs) = {}
    BY <1>2, <1>5 DEF NoneYet, Splittable, SegsOnAxis
  <2> QED
    BY <1>1, <1>4, <2>2, <2>3 DEF Settles, a
<1>6. CASE ~NoneYet(Len(segs), best)
  <2>1. PICK t, s, g : /\ t \in Tables
                       /\ Wins(a, Len(segs), s, g)
                       /\ best = Finding(a, t, s, g)
    BY <1>3, <1>6 DEF Ahead
  <2>2. /\ best.table = t /\ best.cut = [seg |-> s, g |-> g]
        /\ best.cut.seg = s /\ best.cut.g = g
        /\ best.left = LeftOf(a, segs[s], g) /\ best.right = RightOf(a, segs[s], g)
    BY <2>1 DEF Finding
  <2>3. s \in Splittable(segs) /\ g # segs[s].e
    BY <2>1 DEF Wins
  <2>4. best.cut # NoCut
    BY <2>2, <2>3 DEF NoCut, Splittable
  <2>5. /\ Bar(LeftHalf(segs[s], g), best.left) = Lo(a, s, g)
        /\ Bar(RightHalf(segs[s], g), best.right) = Hi(a, s, g)
    BY <2>2, <2>3 DEF Bar, LeftHalf, RightHalf, Seg, Lo, Hi
  <2>6. /\ Widen(best.left, best.right)
        /\ segs' = SplitSeg(segs, s, Lo(a, s, g), Hi(a, s, g))
    BY <1>4, <2>2, <2>4, <2>5
  <2>7. Widen(LeftOf(a, segs[s], g), RightOf(a, segs[s], g))
    BY <2>2, <2>6
  <2>8. SplitsAt(a, s, g)
    BY <1>4, <2>1, <2>2, <2>6, <2>7 DEF SplitsAt
  <2> QED
    BY <1>1, <1>4, <2>1, <2>2, <2>8 DEF a
<1> QED
  BY <1>5, <1>6

\* What is known of the split that is made.
LEMMA SplitParts ==
  ASSUME SegsOnAxis, NEW a \in Avgs, NEW s, NEW g, Wins(a, Len(segs), s, g)
  PROVE  /\ s \in 1 .. Len(segs) /\ OnAxis(segs[s])
         /\ g \in Int /\ segs[s].b <= g /\ g < segs[s].e
         /\ Lo(a, s, g) \in Drawn /\ Hi(a, s, g) \in Drawn
         /\ LeftOf(a, segs[s], g) \in Quotient /\ RightOf(a, segs[s], g) \in Quotient
<1> DEFINE x == segs[s]
<1>1. s \in 1 .. Len(segs) /\ OnAxis(x) /\ g \in Groups(x) /\ g # x.e
  BY DEF Wins, Splittable, SegsOnAxis
<1> HIDE DEF x
<1>2. /\ x.b \in Int /\ x.e \in Int /\ g \in Int /\ x.b <= g /\ g < x.e
      /\ 0 <= x.b /\ x.e < Card /\ Card \in Nat
  BY <1>1, BestSplitAssumption DEF OnAxis, Groups
<1>3. LeftOf(a, x, g) \in Quotient /\ RightOf(a, x, g) \in Quotient
  BY <1>1, ScoreNumbers
<1>4. [b |-> x.b, e |-> g, mean |-> LeftOf(a, x, g)] \in Drawn
  BY <1>2, <1>3 DEF Drawn, AllGroups
<1>5. [b |-> g + 1, e |-> x.e, mean |-> RightOf(a, x, g)] \in Drawn
  <2>1. g + 1 \in AllGroups /\ x.e \in AllGroups /\ g + 1 <= x.e
    BY <1>2 DEF AllGroups
  <2> QED
    BY <1>3, <2>1 DEF Drawn
<1> QED
  BY <1>1, <1>2, <1>3, <1>4, <1>5 DEF Lo, Hi, x

LEMMA HigherLower ==
  ASSUME NEW p \in Quotient, NEW q \in Quotient
  PROVE  /\ Higher(p, q) \in Quotient /\ ~Below(Higher(p, q), p) /\ ~Below(Higher(p, q), q)
         /\ Lower(p, q) \in Quotient /\ ~Below(p, Lower(p, q)) /\ ~Below(q, Lower(p, q))
<1>1. ~Below(p, p) /\ ~Below(q, q)
  BY NotBelow
<1>2. Below(p, q) => ~Below(q, p)
  BY NotBelow
<1>3. Below(q, p) => ~Below(p, q)
  BY NotBelow
<1> QED
  BY <1>1, <1>2, <1>3 DEF Higher, Lower

\* Both new means lie within the widened axis, and everything that lay
\* within the old one.
LEMMA Widened ==
  ASSUME avgMin \in Quotient, avgMax \in Quotient,
         NEW l \in Quotient, NEW r \in Quotient, Widen(l, r)
  PROVE  /\ avgMin' \in Quotient /\ avgMax' \in Quotient
         /\ \A m \in Quotient :
              m = l \/ m = r \/ (~Below(m, avgMin) /\ ~Below(avgMax, m))
                => ~Below(m, avgMin') /\ ~Below(avgMax', m)
<1> DEFINE top == Higher(l, r)
           bot == Lower(l, r)
<1>1. /\ top \in Quotient /\ ~Below(top, l) /\ ~Below(top, r)
      /\ bot \in Quotient /\ ~Below(l, bot) /\ ~Below(r, bot)
  BY HigherLower
<1>2. avgMax' = Higher(avgMax, top) /\ avgMin' = Lower(avgMin, bot)
  BY DEF Widen
<1> HIDE DEF top, bot
<1>3. /\ avgMax' \in Quotient /\ ~Below(avgMax', avgMax) /\ ~Below(avgMax', top)
      /\ avgMin' \in Quotient /\ ~Below(avgMin, avgMin') /\ ~Below(bot, avgMin')
  BY <1>1, <1>2, HigherLower
<1>4. ASSUME NEW m \in Quotient, m = l \/ m = r \/ (~Below(m, avgMin) /\ ~Below(avgMax, m))
      PROVE  ~Below(m, avgMin') /\ ~Below(avgMax', m)
  <2>1. CASE m = l \/ m = r
    BY <1>1, <1>3, <2>1, NotBelow
  <2>2. CASE ~Below(m, avgMin) /\ ~Below(avgMax, m)
    BY <1>3, <2>2, NotBelow
  <2> QED
    BY <1>4, <2>1, <2>2
<1> QED
  BY <1>3, <1>4

\* The one segment of the first iteration.
Only(a) == [b |-> 0, e |-> Card - 1, mean |-> Mean(SumOf(a, 0, Card - 1), Card)]

LEMMA FirstIs ==
  ASSUME First
  PROVE  /\ groupAvgs' \in Avgs
         /\ Only(groupAvgs') \in Drawn
         /\ segs' = << Only(groupAvgs') >>
         /\ avgMin' = Only(groupAvgs').mean /\ avgMax' = Only(groupAvgs').mean
         /\ avg_map' = avg_map
<1> DEFINE a == groupAvgs'
<1>1. Card \in Nat \ {0}
  BY BestSplitAssumption
<1>2. a \in Avgs /\ DOMAIN a = AllGroups
  <2>1. a \in [AllGroups -> Values] /\ Values \subseteq Int
    BY BestSplitAssumption DEF First
  <2> QED
    BY <2>1 DEF Avgs
<1>3. SumFunction(a) = SumOf(a, 0, Card - 1)
  BY <1>2 DEF SumFunction, SumOf, AllGroups
<1>4. /\ segs' = << Bar(Whole(Card)[1], Mean(SumFunction(a), Card)) >>
      /\ avgMin' = Mean(SumFunction(a), Card) /\ avgMax' = Mean(SumFunction(a), Card)
      /\ avg_map' = avg_map
  BY DEF First
<1>5. Bar(Whole(Card)[1], Mean(SumFunction(a), Card)) = Only(a)
  BY <1>3 DEF Bar, Whole, Seg, Only
<1> HIDE DEF a
<1>6. SumOf(a, 0, Card - 1) \in Int
  BY <1>1, <1>2, SumsOnAxis
<1>7. Only(a) \in Drawn
  BY <1>1, <1>6 DEF Only, Drawn, AllGroups, Mean, Quotient
<1>8. Only(a).mean = Mean(SumFunction(a), Card)
  BY <1>3 DEF Only
<1> QED
  BY <1>2, <1>4, <1>5, <1>7, <1>8 DEF a

\* Initially nothing is drawn.
LEMMA SplitInit ==
  ASSUME Init
  PROVE  SplitInv
<1>1. Card \in Nat \ {0}
  BY BestSplitAssumption
<1>2. avg_map \in Tables
  BY <1>1 DEF Init, Tables, Zeros
<1>3. segs \in Seq(Drawn) /\ MeansOnAxis
  BY DEF Init, MeansOnAxis
<1>4. avgMin \in Quotient /\ avgMax \in Quotient
  BY DEF Init, Mean, Quotient
<1> QED
  BY <1>2, <1>3, <1>4 DEF SplitInv

\* Element by element: a split list holds the old segments and the two.
OldOrNew(new, x, y) ==
  /\ new \in Seq(Drawn)
  /\ Len(new) = Len(segs) + 1
  /\ \A k \in 1 .. Len(new) :
       new[k] = x \/ new[k] = y \/ \E j \in 1 .. Len(segs) : new[k] = segs[j]

LEMMA SplitMembers ==
  ASSUME segs \in Seq(Drawn), NEW s \in 1 .. Len(segs), NEW x \in Drawn, NEW y \in Drawn
  PROVE  OldOrNew(SplitSeg(segs, s, x, y), x, y)
<1> DEFINE new == SplitSeg(segs, s, x, y)
<1>0. new = SplitSeg(segs, s, x, y)
  OBVIOUS
<1> HIDE DEF new
<1>1. new \in Seq(Drawn) /\ Len(new) = Len(segs) + 1 /\ Len(segs) \in Nat
  BY <1>0, SplitType
<1>2. ASSUME NEW k \in 1 .. Len(new)
      PROVE  new[k] = x \/ new[k] = y \/ \E j \in 1 .. Len(segs) : new[k] = segs[j]
  <2>1. k \in 1 .. Len(segs) + 1 /\ k \in Int
    BY <1>1
  <2>2. CASE k < s
    BY <1>0, <1>1, <2>1, <2>2 DEF SplitSeg
  <2>3. CASE k = s \/ k = s + 1
    BY <1>0, <1>1, <2>1, <2>3 DEF SplitSeg
  <2>4. CASE k > s + 1
    <3>1. k - 1 \in 1 .. Len(segs) /\ new[k] = segs[k - 1]
      BY <1>0, <1>1, <2>1, <2>4 DEF SplitSeg
    <3> QED
      BY <3>1
  <2> QED
    BY <2>1, <2>2, <2>3, <2>4
<1> QED
  BY <1>1, <1>2 DEF OldOrNew, new

LEMMA SplitNext ==
  ASSUME SplitInv, [Next]_vars
  PROVE  SplitInv'
<1>1. CASE First
  <2> DEFINE x == Only(groupAvgs')
  <2>1. /\ x \in Drawn /\ segs' = << x >> /\ avgMin' = x.mean /\ avgMax' = x.mean
        /\ avg_map' = avg_map
    BY <1>1, FirstIs
  <2> HIDE DEF x
  <2>2. x.mean \in Quotient
    BY <2>1 DEF Drawn
  <2>3. ~Below(x.mean, x.mean)
    BY <2>2, NotBelow
  <2>4. segs' \in Seq(Drawn) /\ Len(segs') = 1 /\ segs'[1] = x
    BY <2>1
  <2>5. MeansOnAxis'
    BY <2>1, <2>3, <2>4 DEF MeansOnAxis
  <2> QED
    BY <2>1, <2>2, <2>4, <2>5 DEF SplitInv
<1>2. CASE Iterate
  <2> DEFINE a == groupAvgs'
  <2>1. /\ a \in Avgs /\ avg_map' \in Tables
        /\ Settles \/ \E s, g : SplitsAt(a, s, g)
    BY <1>2, IterateIs
  <2> HIDE DEF a
  <2>2. CASE Settles
    BY <2>1, <2>2 DEF Settles, SplitInv, MeansOnAxis
  <2>3. CASE ~Settles
    <3>1. PICK s, g : SplitsAt(a, s, g)
      BY <2>1, <2>3
    <3> DEFINE l == LeftOf(a, segs[s], g)
               r == RightOf(a, segs[s], g)
    <3>2. /\ Wins(a, Len(segs), s, g)
          /\ Widen(l, r)
          /\ segs' = SplitSeg(segs, s, Lo(a, s, g), Hi(a, s, g))
      BY <3>1 DEF SplitsAt
    <3>3. /\ s \in 1 .. Len(segs) /\ Lo(a, s, g) \in Drawn /\ Hi(a, s, g) \in Drawn
          /\ l \in Quotient /\ r \in Quotient
      BY <2>1, <3>2, SplitParts, DrawnOnAxis DEF SplitInv
    <3>4. Lo(a, s, g).mean = l /\ Hi(a, s, g).mean = r
      BY DEF Lo, Hi
    <3> HIDE DEF l, r
    <3>5. /\ avgMin' \in Quotient /\ avgMax' \in Quotient
          /\ \A m \in Quotient :
               m = l \/ m = r \/ (~Below(m, avgMin) /\ ~Below(avgMax, m))
                 => ~Below(m, avgMin') /\ ~Below(avgMax', m)
      BY <3>2, <3>3, Widened DEF SplitInv
    <3>6. /\ segs' \in Seq(Drawn)
          /\ \A k \in 1 .. Len(segs') :
               \/ segs'[k] = Lo(a, s, g) \/ segs'[k] = Hi(a, s, g)
               \/ \E j \in 1 .. Len(segs) : segs'[k] = segs[j]
      <4>1. segs \in Seq(Drawn)
        BY DEF SplitInv
      <4>2. OldOrNew(segs', Lo(a, s, g), Hi(a, s, g))
        BY <3>2, <3>3, <4>1, SplitMembers
      <4> QED
        BY <4>2 DEF OldOrNew
    <3>7. ASSUME NEW k \in 1 .. Len(segs')
          PROVE  ~Below(segs'[k].mean, avgMin') /\ ~Below(avgMax', segs'[k].mean)
      <4>1. segs'[k] \in Drawn
        BY <3>6
      <4>2. segs'[k].mean \in Quotient
        BY <4>1 DEF Drawn
      <4>3. CASE segs'[k] = Lo(a, s, g) \/ segs'[k] = Hi(a, s, g)
        BY <3>4, <3>5, <4>2, <4>3
      <4>4. CASE \E j \in 1 .. Len(segs) : segs'[k] = segs[j]
        BY <3>5, <4>2, <4>4 DEF SplitInv, MeansOnAxis
      <4> QED
        BY <3>6, <4>3, <4>4
    <3> QED
      BY <2>1, <3>5, <3>6, <3>7 DEF SplitInv, MeansOnAxis
  <2> QED
    BY <2>2, <2>3
<1>3. CASE UNCHANGED vars
  BY <1>3 DEF vars, SplitInv, MeansOnAxis
<1> QED
  BY <1>1, <1>2, <1>3 DEF Next

\* Every mean on the page lies within the axis range it is sent with
\* (trend.cc:594-606, 643-651).
THEOREM MeansStayOnAxis == Spec => []MeansOnAxis
<1>1. Init => SplitInv
  BY SplitInit
<1>2. SplitInv /\ [Next]_vars => SplitInv'
  BY SplitNext
<1>3. SplitInv => MeansOnAxis
  BY DEF SplitInv
<1> QED
  BY <1>1, <1>2, <1>3, PTL DEF Spec

\* A segment drawn at the average of its groups.
IsAverage(a, x) ==
  x.mean.sum * Cardinality(Groups(x)) = SumFunctionOnSet(a, Groups(x)) * x.mean.n

LEMMA AtItsAverage ==
  ASSUME NEW a \in Avgs, NEW x, OnAxis(x), x.mean = Mean(SumOf(a, x.b, x.e), x.e - x.b + 1)
  PROVE  IsAverage(a, x)
<1>1. Cardinality(Groups(x)) = x.e - x.b + 1
  BY GroupsOnAxis
<1>2. SumFunctionOnSet(a, Groups(x)) = SumOf(a, x.b, x.e)
  BY DEF SumOf, Groups
<1>3. x.mean.sum = SumOf(a, x.b, x.e) /\ x.mean.n = x.e - x.b + 1
  BY DEF Mean
<1> QED
  BY <1>1, <1>2, <1>3 DEF IsAverage

LEMMA NewAverages ==
  ASSUME SegsOnAxis, NEW a \in Avgs, NEW s, NEW g, Wins(a, Len(segs), s, g)
  PROVE  IsAverage(a, Lo(a, s, g)) /\ IsAverage(a, Hi(a, s, g))
<1> DEFINE x == Lo(a, s, g)
           y == Hi(a, s, g)
<1>1. /\ OnAxis(segs[s]) /\ g \in Int /\ segs[s].b <= g /\ g < segs[s].e
      /\ x \in Drawn /\ y \in Drawn
  BY SplitParts
<1>2. OnAxis(x) /\ OnAxis(y)
  <2>1. Card \in Nat
    BY BestSplitAssumption
  <2>2. \A z \in Drawn : OnAxis(z)
    BY <2>1 DEF Drawn, OnAxis, AllGroups
  <2> HIDE DEF x, y
  <2> QED
    BY <1>1, <2>2
<1>3. x.mean = Mean(SumOf(a, x.b, x.e), x.e - x.b + 1)
  BY DEF Lo, LeftOf
<1>4. y.mean = Mean(SumOf(a, y.b, y.e), y.e - y.b + 1)
  <2>1. y.b = g + 1 /\ y.e = segs[s].e /\ y.mean = RightOf(a, segs[s], g)
    BY DEF Hi
  <2>2. RightOf(a, segs[s], g) = Mean(SumOf(a, g + 1, segs[s].e), segs[s].e - g)
    BY <1>1 DEF RightOf
  <2>3. segs[s].e - g = segs[s].e - (g + 1) + 1
    BY <1>1 DEF OnAxis
  <2> HIDE DEF y
  <2> QED
    BY <2>1, <2>2, <2>3
<1> HIDE DEF x, y
<1>5. IsAverage(a, x)
  BY <1>2, <1>3, AtItsAverage
<1>6. IsAverage(a, y)
  BY <1>2, <1>4, AtItsAverage
<1> QED
  BY <1>5, <1>6 DEF x, y

LEMMA AverageStep ==
  ASSUME SplitInv, [Next]_vars, segs' # segs
  PROVE  \A k \in 1 .. Len(segs') :
           (\A j \in 1 .. Len(segs) : segs[j] # segs'[k]) => IsAverage(groupAvgs', segs'[k])
<1> DEFINE a == groupAvgs'
<1>1. CASE First
  <2>1. a \in Avgs /\ Only(a) \in Drawn /\ segs' = << Only(a) >>
    BY <1>1, FirstIs
  <2> HIDE DEF a
  <2>2. OnAxis(Only(a))
    <3>1. Card \in Nat
      BY BestSplitAssumption
    <3> QED
      BY <2>1, <3>1 DEF Drawn, OnAxis, AllGroups
  <2>3. Only(a).mean = Mean(SumOf(a, Only(a).b, Only(a).e), Only(a).e - Only(a).b + 1)
    <3>1. Card - 1 - 0 + 1 = Card
      BY BestSplitAssumption
    <3> QED
      BY <3>1 DEF Only
  <2>4. IsAverage(a, Only(a))
    BY <2>1, <2>2, <2>3, AtItsAverage
  <2>5. Len(segs') = 1 /\ segs'[1] = Only(a)
    BY <2>1
  <2>6. \A k \in 1 .. Len(segs') : segs'[k] = Only(a)
    BY <2>5
  <2> QED
    BY <2>4, <2>6 DEF a
<1>2. CASE Iterate
  <2>1. a \in Avgs /\ (Settles \/ \E s, g : SplitsAt(a, s, g))
    BY <1>2, IterateIs
  <2> HIDE DEF a
  <2>2. PICK s, g : SplitsAt(a, s, g)
    BY <2>1 DEF Settles
  <2>3. /\ Wins(a, Len(segs), s, g)
        /\ segs' = SplitSeg(segs, s, Lo(a, s, g), Hi(a, s, g))
    BY <2>2 DEF SplitsAt
  <2>4. segs \in Seq(Drawn) /\ SegsOnAxis
    BY DrawnOnAxis DEF SplitInv
  <2>5. /\ s \in 1 .. Len(segs) /\ Lo(a, s, g) \in Drawn /\ Hi(a, s, g) \in Drawn
    BY <2>1, <2>3, <2>4, SplitParts
  <2>6. OldOrNew(segs', Lo(a, s, g), Hi(a, s, g))
    BY <2>3, <2>4, <2>5, SplitMembers
  <2>7. IsAverage(a, Lo(a, s, g)) /\ IsAverage(a, Hi(a, s, g))
    BY <2>1, <2>3, <2>4, NewAverages
  <2>8. ASSUME NEW k \in 1 .. Len(segs'), \A j \in 1 .. Len(segs) : segs[j] # segs'[k]
        PROVE  IsAverage(a, segs'[k])
    <3>1. segs'[k] = Lo(a, s, g) \/ segs'[k] = Hi(a, s, g)
      BY <2>6, <2>8 DEF OldOrNew
    <3> QED
      BY <2>7, <3>1
  <2> QED
    BY <2>8 DEF a
<1>3. CASE UNCHANGED vars
  BY <1>3 DEF vars
<1> QED
  BY <1>1, <1>2, <1>3 DEF Next

\* The means of the two new segments are the averages of their groups: no
\* partial sum of an earlier segment or iteration is left in the table
\* (avg_map is never cleared between them, trend.cc:544-548).
THEOREM MeansStayAverages == Spec => MeansAreAverages
<1>1. Init => SplitInv
  BY SplitInit
<1>2. SplitInv /\ [Next]_vars => SplitInv'
  BY SplitNext
<1>3. SplitInv /\ [Next]_vars =>
        [segs' # segs =>
           \A k \in 1 .. Len(segs') :
             (\A j \in 1 .. Len(segs) : segs[j] # segs'[k]) =>
               segs'[k].mean.sum * Cardinality(Groups(segs'[k])) =
                 SumFunctionOnSet(groupAvgs', Groups(segs'[k])) * segs'[k].mean.n]_vars
  BY AverageStep DEF IsAverage
<1> QED
  BY <1>1, <1>2, <1>3, PTL DEF Spec, MeansAreAverages

\* As long as a segment has two groups every iteration adds a segment, even
\* if the curve is flat: the search starts below every score
\* (trend.cc:481, 563), and its best cut is never after the last group.
THEOREM EveryIterationStillSplits == Spec => EveryIterationSplits
<1>1. Init => SplitInv
  BY SplitInit
<1>2. SplitInv /\ [Next]_vars => SplitInv'
  BY SplitNext
<1>3. ASSUME SplitInv, Next, segs # << >>, Splittable(segs) # {}
      PROVE  Len(segs') = Len(segs) + 1
  <2> DEFINE a == groupAvgs'
  <2>1. Iterate
    BY <1>3 DEF Next, First
  <2>2. a \in Avgs /\ (Settles \/ \E s, g : SplitsAt(a, s, g))
    BY <1>3, <2>1, IterateIs
  <2> HIDE DEF a
  <2>3. PICK s, g : SplitsAt(a, s, g)
    BY <1>3, <2>2 DEF Settles
  <2>4. /\ Wins(a, Len(segs), s, g)
        /\ segs' = SplitSeg(segs, s, Lo(a, s, g), Hi(a, s, g))
    BY <2>3 DEF SplitsAt
  <2>5. segs \in Seq(Drawn) /\ SegsOnAxis
    BY <1>3, DrawnOnAxis DEF SplitInv
  <2>6. /\ s \in 1 .. Len(segs) /\ Lo(a, s, g) \in Drawn /\ Hi(a, s, g) \in Drawn
    BY <2>2, <2>4, <2>5, SplitParts
  <2>7. OldOrNew(segs', Lo(a, s, g), Hi(a, s, g))
    BY <2>4, <2>5, <2>6, SplitMembers
  <2> QED
    BY <2>7 DEF OldOrNew
<1>4. SplitInv /\ [Next]_vars =>
        [segs # << >> /\ Splittable(segs) # {} => Len(segs') = Len(segs) + 1]_vars
  BY <1>3
<1> QED
  BY <1>1, <1>2, <1>4, PTL DEF Spec, EveryIterationSplits

-----------------------------------------------------------------------------
(* The best split is the one that lowers the squared error most.           *)

\* How savings compare: m and n are the products of the sizes, c and d what
\* the sums differ by, squared.
LEMMA SavingOrder ==
  ASSUME NEW p \in Nat \ {0}, NEW m \in Nat \ {0}, NEW n \in Nat \ {0},
         NEW c \in Int, NEW d \in Int, NEW x \in Int, NEW y \in Int,
         x * m = p * c, y * n = p * d, d * m <= c * n
  PROVE  y <= x
<1>1. p * (d * m) <= p * (c * n)
  <2>1. d * m \in Int /\ c * n \in Int
    OBVIOUS
  <2> QED
    BY <2>1
<1>2. (y * n) * m <= (x * m) * n
  <2>1. (p * d) * m = p * (d * m) /\ (p * c) * n = p * (c * n)
    OBVIOUS
  <2> QED
    BY <1>1, <2>1
<1> DEFINE k == m * n
<1>3. k \in Nat \ {0} /\ (y * n) * m = y * k /\ (x * m) * n = x * k
  OBVIOUS
<1> HIDE DEF k
<1>4. y * k <= x * k
  BY <1>2, <1>3
<1>5. y > x => y * k > x * k
  BY <1>3
<1>6. y * k \in Int /\ x * k \in Int
  BY <1>3
<1> QED
  BY <1>4, <1>5, <1>6

\* Scores compare as the savings do.
LEMMA ScoreAlgebra ==
  ASSUME NEW q \in Nat \ {0},
         NEW i \in Nat \ {0}, NEW m \in Nat \ {0}, NEW c \in Int,
         NEW j \in Nat \ {0}, NEW n \in Nat \ {0}, NEW d \in Int,
         (n * d) * (q * i * m * m) <= (m * c) * (q * j * n * n)
  PROVE  d * (m * i) <= c * (n * j)
<1> DEFINE k == q * (m * n)
           x == d * (m * i)
           y == c * (n * j)
<1>1. k \in Nat \ {0} /\ x \in Int /\ y \in Int
  <2>1. \A r, s \in Nat \ {0} : r * s \in Nat \ {0}
    OBVIOUS
  <2>2. k \in Nat \ {0}
    BY <2>1
  <2> QED
    BY <2>2
<1>2. (n * d) * (q * i * m * m) = x * k
  OBVIOUS
<1>3. (m * c) * (q * j * n * n) = y * k
  OBVIOUS
<1> HIDE DEF k, x, y
<1>4. x * k <= y * k
  BY <1>2, <1>3
<1>5. x > y => x * k > y * k
  BY <1>1
<1>6. x * k \in Int /\ y * k \in Int
  BY <1>1
<1>7. x <= y
  BY <1>1, <1>4, <1>5, <1>6
<1> QED
  BY <1>7 DEF x, y

\* The scale is divided by every number of groups.
LEMMA ScaleDivides ==
  /\ Scale \in Nat \ {0}
  /\ \A n \in 1 .. Card : Scale = (Scale \div n) * n /\ Scale \div n \in Int
<1>1. Card \in Nat
  BY BestSplitAssumption
<1>2. IsFiniteSet(1 .. Card) /\ 1 .. Card \subseteq Nat \ {0}
  BY <1>1, FS_Interval
<1>3. Scale = FoldSet(LAMBDA n, p : n * p, 1, 1 .. Card)
  BY Zenon DEF Scale
<1>4. Scale \in Nat \ {0} /\ \A n \in 1 .. Card : \E u \in Nat : Scale = u * n
  <2> DEFINE S == 1 .. Card
  <2> HIDE DEF S
  <2>1. Scale = FoldSet(LAMBDA n, p : n * p, 1, S)
    BY <1>3, Zenon DEF S
  <2>2. IsFiniteSet(S) /\ S \subseteq Nat \ {0}
    BY <1>2 DEF S
  <2>3. LET P == FoldSet(LAMBDA n, p : n * p, 1, S)
        IN P \in Nat \ {0} /\ \A m \in S : \E u \in Nat : P = u * m
    BY <2>2, ProductDivides, Zenon
  <2>4. Scale \in Nat \ {0} /\ \A m \in S : \E u \in Nat : Scale = u * m
    BY <2>1, <2>3, Zenon
  <2> QED
    BY <2>4, Zenon DEF S
<1> HIDE DEF Scale
<1>5. ASSUME NEW n \in 1 .. Card
      PROVE  Scale = (Scale \div n) * n /\ Scale \div n \in Int
  <2>1. PICK u \in Nat : Scale = u * n
    BY <1>4
  <2>2. n \in Nat \ {0} /\ u \in Int
    BY <1>2
  <2>3. Scale \div n = u
    BY <2>1, <2>2, ExactDivision
  <2> QED
    BY <2>1, <2>2, <2>3
<1> QED
  BY <1>4, <1>5

\* The squared error of a segment, in sums.
SquaresOf(a, b, e) == SumFunctionOnSet(Squares(a), b .. e)
Share(x) == Scale \div (x.e - x.b + 1)

LEMMA ErrorIs ==
  ASSUME NEW a \in Avgs, NEW x, OnAxis(x)
  PROVE  /\ Error(a, x) = Scale * SquaresOf(a, x.b, x.e)
                            - Share(x) * SumOf(a, x.b, x.e) * SumOf(a, x.b, x.e)
         /\ Error(a, x) \in Int
         /\ Share(x) \in Int /\ Scale = Share(x) * (x.e - x.b + 1)
         /\ SumOf(a, x.b, x.e) \in Int /\ SquaresOf(a, x.b, x.e) \in Int
<1>1. /\ x.b \in Int /\ x.e \in Int /\ 0 <= x.b /\ x.b <= x.e /\ x.e < Card
      /\ Card \in Nat
  BY BestSplitAssumption DEF OnAxis
<1>2. /\ Groups(x) = x.b .. x.e /\ Cardinality(Groups(x)) = x.e - x.b + 1
      /\ Groups(x) \subseteq AllGroups /\ IsFiniteSet(Groups(x))
  BY GroupsOnAxis DEF Groups
<1>3. SumOf(a, x.b, x.e) \in Int
  BY <1>1, SumsOnAxis
<1>4. /\ Numbers(Squares(a), Groups(x))
      /\ SquareSum(a, Groups(x)) = SumFunctionOnSet(Squares(a), Groups(x))
  <2>1. Groups(x) \subseteq DOMAIN a /\ Numbers(a, Groups(x))
    BY <1>2 DEF Avgs, Numbers
  <2> QED
    BY <2>1, SquaresAre, Zenon
<1>5. SumFunctionOnSet(Squares(a), Groups(x)) \in Int
  BY <1>4, SumInt, Zenon
<1>6. Error(a, x) = Scale * SquaresOf(a, x.b, x.e)
                      - Share(x) * SumOf(a, x.b, x.e) * SumOf(a, x.b, x.e)
  BY <1>2, <1>4, Zenon DEF Error, SquareSum, SquaresOf, SumOf, Share
<1>7. /\ Scale \in Nat \ {0} /\ Share(x) \in Int /\ Scale = Share(x) * (x.e - x.b + 1)
  <2>1. x.e - x.b + 1 \in 1 .. Card
    BY <1>1
  <2> QED
    BY <2>1, ScaleDivides DEF Share
<1>8. SquaresOf(a, x.b, x.e) \in Int
  BY <1>2, <1>5 DEF SquaresOf
<1> DEFINE k == Share(x)
           t == SumOf(a, x.b, x.e)
           q == SquaresOf(a, x.b, x.e)
<1>9. k \in Int /\ t \in Int /\ q \in Int /\ Scale \in Int
  BY <1>3, <1>7, <1>8
<1> HIDE DEF k, t, q
<1>10. Scale * q - k * t * t \in Int
  BY <1>9
<1> QED
  BY <1>3, <1>6, <1>7, <1>8, <1>10 DEF k, t, q

LEMMA SquaresTwoRuns ==
  ASSUME NEW a \in Avgs, NEW b \in Int, NEW g \in Int, NEW e \in Int,
         0 <= b, b <= g, g <= e, e < Card
  PROVE  SquaresOf(a, b, e) = SquaresOf(a, b, g) + SquaresOf(a, g + 1, e)
<1> DEFINE S == b .. g
           T == g + 1 .. e
<1>1. S \cap T = {} /\ S \cup T = b .. e
  OBVIOUS
<1>2. Numbers(Squares(a), S) /\ Numbers(Squares(a), T)
  <2>1. Card \in Int /\ S \subseteq AllGroups /\ T \subseteq AllGroups
    BY BestSplitAssumption DEF AllGroups
  <2>2. Numbers(a, S) /\ Numbers(a, T)
    BY <2>1, SumsOnAxis
  <2> HIDE DEF S, T
  <2>3. S \subseteq DOMAIN a /\ T \subseteq DOMAIN a
    BY <2>1 DEF Avgs
  <2> QED
    BY <2>2, <2>3, SquaresAre, Zenon
<1> HIDE DEF S, T
<1>3. SumFunctionOnSet(Squares(a), S \cup T)
        = SumFunctionOnSet(Squares(a), S) + SumFunctionOnSet(Squares(a), T)
  BY <1>1, <1>2, SumUnion
<1> QED
  BY <1>1, <1>3 DEF SquaresOf, S, T

\* What a cut saves, and what its score says it saves.
Saved(a, x, g) ==
  Error(a, x) - Error(a, Seg(x.b, g)) - Error(a, Seg(g + 1, x.e))
Sides(x, g)   == (g - x.b + 1) * (x.e - g)
Sizes(x, g)   == Sides(x, g) * (x.e - x.b + 1)
Apart(a, x, g) ==
  SumOf(a, x.b, g) * (x.e - g) - SumOf(a, g + 1, x.e) * (g - x.b + 1)

LEMMA SavedIs ==
  ASSUME NEW a \in Avgs, NEW x, OnAxis(x), NEW g \in Int, x.b <= g, g < x.e
  PROVE  /\ Sides(x, g) \in Nat \ {0} /\ Sizes(x, g) \in Nat \ {0}
         /\ Apart(a, x, g) \in Int
         /\ Saved(a, x, g) \in Int
         /\ Saved(a, x, g) * Sizes(x, g) = Scale * (Apart(a, x, g) * Apart(a, x, g))
<1> DEFINE b  == x.b
           e  == x.e
           lo == Seg(b, g)
           hi == Seg(g + 1, e)
           nl == g - b + 1
           nr == e - g
           sl == SumOf(a, b, g)
           sr == SumOf(a, g + 1, e)
           u  == Share(x)
           v  == Share(lo)
           w  == Share(hi)
           ql == SquaresOf(a, b, g)
           qr == SquaresOf(a, g + 1, e)
<1>1. b \in Int /\ e \in Int /\ 0 <= b /\ b <= e /\ e < Card /\ Card \in Nat
  BY BestSplitAssumption DEF OnAxis
<1>2. OnAxis(lo) /\ OnAxis(hi) /\ lo.b = b /\ lo.e = g /\ hi.b = g + 1 /\ hi.e = e
  BY <1>1 DEF OnAxis, Seg
<1>3. nl \in Nat \ {0} /\ nr \in Nat \ {0} /\ b <= g /\ g <= e
      /\ nl + nr = e - b + 1 /\ e - (g + 1) + 1 = nr
  BY <1>1
<1>4. SumOf(a, b, e) = sl + sr /\ SquaresOf(a, b, e) = ql + qr
  <2> HIDE DEF b, e
  <2> QED
    BY <1>1, <1>3, SumTwoRuns, SquaresTwoRuns
<1>5. /\ Error(a, lo) = Scale * ql - v * sl * sl
      /\ Error(a, lo) \in Int /\ v \in Int /\ Scale = v * nl
      /\ sl \in Int /\ ql \in Int
  <2> HIDE DEF lo, hi, b, e
  <2>1. /\ Error(a, lo) = Scale * SquaresOf(a, lo.b, lo.e)
                            - Share(lo) * SumOf(a, lo.b, lo.e) * SumOf(a, lo.b, lo.e)
        /\ Error(a, lo) \in Int
        /\ Share(lo) \in Int /\ Scale = Share(lo) * (lo.e - lo.b + 1)
        /\ SumOf(a, lo.b, lo.e) \in Int /\ SquaresOf(a, lo.b, lo.e) \in Int
    BY <1>2, ErrorIs
  <2> QED
    BY <1>2, <2>1
<1>6. /\ Error(a, hi) = Scale * qr - w * sr * sr
      /\ Error(a, hi) \in Int /\ w \in Int /\ Scale = w * nr
      /\ sr \in Int /\ qr \in Int
  <2> HIDE DEF lo, hi, b, e, nl, nr
  <2>1. /\ Error(a, hi) = Scale * SquaresOf(a, hi.b, hi.e)
                            - Share(hi) * SumOf(a, hi.b, hi.e) * SumOf(a, hi.b, hi.e)
        /\ Error(a, hi) \in Int
        /\ Share(hi) \in Int /\ Scale = Share(hi) * (hi.e - hi.b + 1)
        /\ SumOf(a, hi.b, hi.e) \in Int /\ SquaresOf(a, hi.b, hi.e) \in Int
    BY <1>2, ErrorIs
  <2>2. hi.e - hi.b + 1 = nr
    BY <1>2, <1>3
  <2> QED
    BY <1>2, <2>1, <2>2
<1>7. /\ Error(a, x) = Scale * (ql + qr) - u * (sl + sr) * (sl + sr)
      /\ Error(a, x) \in Int /\ u \in Int /\ Scale = u * (nl + nr)
  <2>1. /\ Error(a, x) = Scale * SquaresOf(a, b, e) - Share(x) * SumOf(a, b, e) * SumOf(a, b, e)
        /\ Error(a, x) \in Int
        /\ Share(x) \in Int /\ Scale = Share(x) * (e - b + 1)
    BY ErrorIs
  <2> HIDE DEF b, e, nl, nr, sl, sr, ql, qr
  <2>2. Scale = Share(x) * (nl + nr)
    BY <1>3, <2>1
  <2> QED
    BY <1>4, <2>1, <2>2
<1>8. Saved(a, x, g) = Error(a, x) - Error(a, lo) - Error(a, hi)
  BY DEF Saved
<1>9. /\ Sides(x, g) = nl * nr
      /\ Sizes(x, g) = (nl * nr) * (nl + nr)
      /\ Apart(a, x, g) = sl * nr - sr * nl
  <2>1. Sides(x, g) = nl * nr
    BY DEF Sides
  <2>2. Sizes(x, g) = (nl * nr) * (e - b + 1)
    BY <2>1 DEF Sizes
  <2>3. Apart(a, x, g) = sl * nr - sr * nl
    BY DEF Apart
  <2> HIDE DEF b, e, nl, nr, sl, sr
  <2> QED
    BY <1>3, <2>1, <2>2, <2>3
<1> HIDE DEF b, e, lo, hi, nl, nr, sl, sr, u, v, w, ql, qr
<1>10. Saved(a, x, g) = v * sl * sl + w * sr * sr - u * (sl + sr) * (sl + sr)
  <2>1. Scale \in Int /\ Scale * (ql + qr) = Scale * ql + Scale * qr
    BY <1>5, <1>6, ScaleDivides
  <2> DEFINE A == v * sl * sl
             B == w * sr * sr
             C == u * (sl + sr) * (sl + sr)
             M == Scale * ql
             N == Scale * qr
  <2>2. A \in Int /\ B \in Int /\ C \in Int /\ M \in Int /\ N \in Int
    BY <1>5, <1>6, <1>7, <2>1
  <2>3. Error(a, x) = M + N - C /\ Error(a, lo) = M - A /\ Error(a, hi) = N - B
    BY <1>5, <1>6, <1>7, <2>1
  <2> HIDE DEF A, B, C, M, N
  <2>4. Saved(a, x, g) = A + B - C
    BY <1>8, <2>2, <2>3
  <2> QED
    BY <2>4 DEF A, B, C
<1>11. (v * sl * sl + w * sr * sr - u * (sl + sr) * (sl + sr)) * ((nl * nr) * (nl + nr))
         = Scale * ((sl * nr - sr * nl) * (sl * nr - sr * nl))
  <2>1. Scale \in Int /\ nl \in Int /\ nr \in Int
    BY <1>3, ScaleDivides
  <2>2. Shares(Scale, u, v, w, nl, nr, sl, sr)
    BY <1>5, <1>6, <1>7, <2>1 DEF Shares
  <2> QED
    BY <2>2, SavingAlgebra
<1>12. Saved(a, x, g) * Sizes(x, g) = Scale * (Apart(a, x, g) * Apart(a, x, g))
  BY <1>9, <1>10, <1>11
<1>13. Saved(a, x, g) \in Int
  BY <1>5, <1>6, <1>7, <1>8
<1>14. nl * nr \in Nat \ {0} /\ (nl * nr) * (nl + nr) \in Nat \ {0}
  <2>1. \A m, n \in Nat \ {0} : m * n \in Nat \ {0}
    OBVIOUS
  <2>2. nl + nr \in Nat \ {0}
    BY <1>3
  <2> QED
    BY <1>3, <2>1, <2>2
<1>15. sl * nr - sr * nl \in Int
  BY <1>3, <1>5, <1>6
<1> QED
  BY <1>9, <1>12, <1>13, <1>14, <1>15

LEMMA ScoreNotBelow ==
  ASSUME NEW a \in Avgs,
         NEW x, OnAxis(x), NEW g \in Int, x.b <= g, g < x.e,
         NEW y, OnAxis(y), NEW h \in Int, y.b <= h, h < y.e,
         ~Below(ScoreOf(a, x, g), ScoreOf(a, y, h))
  PROVE  Saved(a, y, h) <= Saved(a, x, g)
<1>1. ASSUME NEW z, OnAxis(z), NEW i \in Int, z.b <= i, i < z.e
      PROVE  /\ ScoreOf(a, z, i).sum = Sides(z, i) * (Apart(a, z, i) * Apart(a, z, i))
             /\ ScoreOf(a, z, i).n = Card * (z.e - z.b + 1) * Sides(z, i) * Sides(z, i)
  <2> DEFINE l == LeftOf(a, z, i)
             r == RightOf(a, z, i)
             d == l.sum * r.n - r.sum * l.n
  <2>1. /\ l.sum = SumOf(a, z.b, i) /\ l.n = i - z.b + 1
        /\ r.sum = SumOf(a, i + 1, z.e) /\ r.n = z.e - i
    BY <1>1 DEF LeftOf, RightOf, Mean, OnAxis
  <2>2. ScoreOf(a, z, i) = Mean(l.n * (z.e - i) * d * d,
                                Card * (z.e - z.b + 1) * (l.n * r.n) * (l.n * r.n))
    BY DEF ScoreOf
  <2> HIDE DEF l, r
  <2>3. l.n * r.n = Sides(z, i) /\ l.n * (z.e - i) = Sides(z, i) /\ d = Apart(a, z, i)
    BY <2>1 DEF Sides, Apart
  <2> HIDE DEF d
  <2>4. Sides(z, i) \in Int /\ Apart(a, z, i) \in Int
    BY <1>1, SavedIs
  <2>5. ScoreOf(a, z, i).sum = Sides(z, i) * d * d
    BY <2>2, <2>3 DEF Mean
  <2>6. Sides(z, i) * d * d = Sides(z, i) * (d * d)
    BY <2>3, <2>4
  <2>7. ScoreOf(a, z, i).n = Card * (z.e - z.b + 1) * Sides(z, i) * Sides(z, i)
    BY <2>2, <2>3 DEF Mean
  <2> QED
    BY <2>3, <2>5, <2>6, <2>7
<1> DEFINE m == Sides(x, g)
           n == Sides(y, h)
           c == Apart(a, x, g) * Apart(a, x, g)
           d == Apart(a, y, h) * Apart(a, y, h)
           i == x.e - x.b + 1
           j == y.e - y.b + 1
<1>2. /\ m \in Nat \ {0} /\ n \in Nat \ {0} /\ c \in Int /\ d \in Int
      /\ Apart(a, x, g) \in Int /\ Apart(a, y, h) \in Int
      /\ i \in Nat \ {0} /\ j \in Nat \ {0} /\ Card \in Nat \ {0}
      /\ Sizes(x, g) = m * i /\ Sizes(y, h) = n * j
      /\ Sizes(x, g) \in Nat \ {0} /\ Sizes(y, h) \in Nat \ {0}
  <2>1. /\ m \in Nat \ {0} /\ Apart(a, x, g) \in Int /\ Sizes(x, g) \in Nat \ {0}
    BY SavedIs
  <2>2. /\ n \in Nat \ {0} /\ Apart(a, y, h) \in Int /\ Sizes(y, h) \in Nat \ {0}
    BY SavedIs
  <2>3. c \in Int
    BY <2>1
  <2>4. d \in Int
    BY <2>2
  <2>5. i \in Nat \ {0} /\ j \in Nat \ {0} /\ Card \in Nat \ {0}
    BY BestSplitAssumption DEF OnAxis
  <2>6. Sizes(x, g) = m * i /\ Sizes(y, h) = n * j
    BY DEF Sizes
  <2> QED
    BY <2>1, <2>2, <2>3, <2>4, <2>5, <2>6
<1>3. /\ ScoreOf(a, x, g).sum = m * c /\ ScoreOf(a, x, g).n = Card * i * m * m
      /\ ScoreOf(a, y, h).sum = n * d /\ ScoreOf(a, y, h).n = Card * j * n * n
  <2>1. ScoreOf(a, x, g).sum = m * c /\ ScoreOf(a, x, g).n = Card * i * m * m
    BY <1>1
  <2>2. ScoreOf(a, y, h).sum = n * d /\ ScoreOf(a, y, h).n = Card * j * n * n
    BY <1>1
  <2> QED
    BY <2>1, <2>2
<1>4. /\ Saved(a, x, g) \in Int /\ Saved(a, x, g) * Sizes(x, g) = Scale * c
      /\ Saved(a, y, h) \in Int /\ Saved(a, y, h) * Sizes(y, h) = Scale * d
  <2>1. Saved(a, x, g) \in Int /\ Saved(a, x, g) * Sizes(x, g) = Scale * c
    BY SavedIs
  <2>2. Saved(a, y, h) \in Int /\ Saved(a, y, h) * Sizes(y, h) = Scale * d
    BY SavedIs
  <2> QED
    BY <2>1, <2>2
<1> HIDE DEF m, n, c, d, i, j
<1>5. (n * d) * (Card * i * m * m) <= (m * c) * (Card * j * n * n)
  <2> DEFINE P == (m * c) * (Card * j * n * n)
             Q == (n * d) * (Card * i * m * m)
  <2>1. P \in Int /\ Q \in Int
    BY <1>2
  <2>2. ~(P < Q)
    BY <1>3 DEF Below
  <2> HIDE DEF P, Q
  <2>3. Q <= P
    BY <2>1, <2>2
  <2> QED
    BY <2>3 DEF P, Q
<1>6. d * (m * i) <= c * (n * j)
  BY <1>2, <1>5, ScoreAlgebra
<1>7. d * Sizes(x, g) <= c * Sizes(y, h)
  BY <1>2, <1>6
<1> QED
  BY <1>2, <1>4, <1>7, ScaleDivides, SavingOrder

\* The error of a whole segmentation, as a sum of a function.
ErrorsEqn(a, list, h) ==
  h = [s \in SUBSET (1 .. Len(list)) |->
         IF s = {} THEN 0 ELSE Error(a, list[AnyOf(s)]) + h[s \ {AnyOf(s)}]]

LEMMA ErrorsFold ==
  ASSUME NEW a, NEW list, NEW h, ErrorsEqn(a, list, h)
  PROVE  \E g : ErrorsEqn(a, list, g) /\ TotalError(a, list) = g[1 .. Len(list)]
BY Zenon DEF TotalError, MapThenSumSet, MapThenFoldSet, AnyOf, ErrorsEqn

LEMMA TotalIs ==
  ASSUME NEW a, NEW list, Len(list) \in Nat, NEW f,
         \A k \in 1 .. Len(list) : f[k] = Error(a, list[k]) /\ f[k] \in Int
  PROVE  TotalError(a, list) = SumFunctionOnSet(f, 1 .. Len(list))
<1> DEFINE S == 1 .. Len(list)
<1>1. IsFiniteSet(S)
  BY FS_Interval
<1>2. Numbers(f, S)
  BY <1>1 DEF Numbers
<1>3. ASSUME NEW h
      PROVE  ErrorsEqn(a, list, h) <=> SumsTo(f, S, h)
  <2>1. \A s \in SUBSET S : s # {} => AnyOf(s) \in S
    <3> HIDE DEF S
    <3> QED
      BY <1>1, AnyOfPicks
  <2>2. \A s \in SUBSET S :
          (IF s = {} THEN 0 ELSE Error(a, list[AnyOf(s)]) + h[s \ {AnyOf(s)}])
            = (IF s = {} THEN 0 ELSE f[AnyOf(s)] + h[s \ {AnyOf(s)}])
    BY <2>1
  <2>3. [s \in SUBSET S |->
           IF s = {} THEN 0 ELSE Error(a, list[AnyOf(s)]) + h[s \ {AnyOf(s)}]]
          = [s \in SUBSET S |-> IF s = {} THEN 0 ELSE f[AnyOf(s)] + h[s \ {AnyOf(s)}]]
    BY <2>2, Zenon
  <2> QED
    BY <2>3, Zenon DEF ErrorsEqn, SumsTo
<1>4. PICK p : Sums(f, S, p)
  BY <1>2, SumIs, Zenon
<1>5. SumsTo(f, S, p) /\ SumFunctionOnSet(f, S) = p[S]
  <2>1. S \in SUBSET S
    OBVIOUS
  <2> QED
    BY <1>4, <2>1, Zenon DEF Sums
<1>6. PICK q : ErrorsEqn(a, list, q) /\ TotalError(a, list) = q[S]
  BY <1>3, <1>5, ErrorsFold, Zenon
<1> HIDE DEF S
<1>7. q[S] = p[S]
  <2>1. SumsTo(f, S, q) /\ S \subseteq S /\ \A x \in S : f[x] = f[x]
    BY <1>3, <1>6
  <2> QED
    BY <1>1, <1>5, <2>1, SumsUnique
<1> QED
  BY <1>5, <1>6, <1>7 DEF S

LEMMA TotalOfSplit ==
  ASSUME NEW a \in Avgs, NEW S, \A z \in S : OnAxis(z), segs \in Seq(S),
         NEW s \in 1 .. Len(segs), NEW x \in S, NEW y \in S
  PROVE  /\ TotalError(a, segs) \in Int
         /\ TotalError(a, SplitSeg(segs, s, x, y))
              = TotalError(a, segs) - Error(a, segs[s]) + Error(a, x) + Error(a, y)
<1> DEFINE new == SplitSeg(segs, s, x, y)
           n == Len(segs)
           f == [k \in 1 .. n |-> Error(a, segs[k])]
           h == [k \in 1 .. n + 1 |-> Error(a, new[k])]
<1>1. new \in Seq(S) /\ Len(new) = n + 1 /\ n \in Nat
  BY SplitType
<1>2. \A z \in S : Error(a, z) \in Int
  BY ErrorIs
<1>3. /\ \A k \in 1 .. n : f[k] = Error(a, segs[k]) /\ f[k] \in Int
  BY <1>2
<1>4. /\ new[s] = x /\ new[s + 1] = y
      /\ \A k \in 1 .. s - 1 : new[k] = segs[k]
      /\ \A k \in s + 1 .. n : new[k + 1] = segs[k]
  BY <1>1 DEF SplitSeg
<1> HIDE DEF new
<1>5. \A k \in 1 .. n + 1 : h[k] = Error(a, new[k]) /\ h[k] \in Int
  BY <1>1, <1>2
<1>6. /\ s \in Int /\ s \in 1 .. n + 1 /\ s + 1 \in 1 .. n + 1
      /\ \A k \in 1 .. s - 1 : k \in 1 .. n /\ k \in 1 .. n + 1
      /\ \A k \in s + 1 .. n : k \in 1 .. n /\ k + 1 \in 1 .. n + 1
  BY <1>1
<1> HIDE DEF f, h, n
<1>7. /\ \A k \in 1 .. s - 1 : h[k] = f[k]
      /\ \A k \in s + 1 .. n : h[k + 1] = f[k]
      /\ h[s] = Error(a, x) /\ h[s + 1] = Error(a, y) /\ f[s] = Error(a, segs[s])
  BY <1>3, <1>4, <1>5, <1>6 DEF n
<1>8. SumFunctionOnSet(h, 1 .. n + 1)
        = SumFunctionOnSet(f, 1 .. n) - f[s] + h[s] + h[s + 1]
  <2>1. s \in 1 .. n
    BY DEF n
  <2>2. OneReplaced(f, n, s, h)
    BY <1>1, <1>3, <1>5, <1>7, <2>1 DEF OneReplaced
  <2> QED
    BY <2>2, SumReplaced
<1>9. TotalError(a, segs) = SumFunctionOnSet(f, 1 .. n)
  BY <1>1, <1>3, TotalIs DEF n
<1>10. TotalError(a, new) = SumFunctionOnSet(h, 1 .. n + 1)
  BY <1>1, <1>5, TotalIs
<1>11. SumFunctionOnSet(f, 1 .. n) \in Int
  <2>1. IsFiniteSet(1 .. n)
    BY <1>1, FS_Interval
  <2>2. Numbers(f, 1 .. n)
    BY <1>3, <2>1 DEF Numbers
  <2> QED
    BY <2>2, SumInt
<1> QED
  BY <1>7, <1>8, <1>9, <1>10, <1>11 DEF new

LEMMA BestStep ==
  ASSUME SplitInv, [Next]_vars, cut' # NoCut, segs' # segs
  PROVE  \A other \in OtherSplits :
           TotalError(groupAvgs', segs') <= TotalError(groupAvgs', other)
<1> DEFINE a == groupAvgs'
<1>0. segs \in Seq(Drawn) /\ SegsOnAxis
  BY DrawnOnAxis DEF SplitInv
<1> SUFFICES ASSUME NEW other \in OtherSplits
             PROVE  TotalError(a, segs') <= TotalError(a, other)
  OBVIOUS
<1>a. PICK o \in Splittable(segs) :
        other \in { SplitSeg(segs, o, Seg(segs[o].b, h), Seg(h + 1, segs[o].e)) :
                     h \in segs[o].b .. segs[o].e - 1 }
  BY DEF OtherSplits
<1>1. PICK h \in segs[o].b .. segs[o].e - 1 :
        other = SplitSeg(segs, o, Seg(segs[o].b, h), Seg(h + 1, segs[o].e))
  BY <1>a
<1>2. Iterate
  <2>1. segs # << >>
    BY <1>1 DEF Splittable
  <2> QED
    BY <2>1 DEF Next, First, vars
<1>3. a \in Avgs /\ (Settles \/ \E s, g : SplitsAt(a, s, g))
  BY <1>2, IterateIs
<1> HIDE DEF a
<1>4. PICK s, g : SplitsAt(a, s, g)
  BY <1>3 DEF Settles
<1>5. /\ Wins(a, Len(segs), s, g)
      /\ segs' = SplitSeg(segs, s, Lo(a, s, g), Hi(a, s, g))
  BY <1>4 DEF SplitsAt
<1> DEFINE x == segs[s]
           y == segs[o]
           S == Drawn \cup [b : AllGroups, e : AllGroups]
           T == { z \in S : OnAxis(z) }
<1>6. /\ s \in 1 .. Len(segs) /\ OnAxis(x)
      /\ g \in Int /\ x.b <= g /\ g < x.e
      /\ Lo(a, s, g) \in Drawn /\ Hi(a, s, g) \in Drawn
  BY <1>0, <1>3, <1>5, SplitParts
<1>7. /\ o \in 1 .. Len(segs) /\ OnAxis(y)
      /\ h \in Int /\ y.b <= h /\ h < y.e
  BY <1>0, <1>1 DEF Splittable, SegsOnAxis, OnAxis
<1>8. Card \in Nat
  BY BestSplitAssumption
<1>9. \A z \in Drawn : z \in T
  BY <1>8 DEF Drawn, OnAxis, AllGroups
<1>10. Seg(y.b, h) \in T /\ Seg(h + 1, y.e) \in T
  <2> HIDE DEF y
  <2>1. /\ y.b \in Int /\ y.e \in Int /\ 0 <= y.b /\ y.e < Card
    BY <1>7 DEF OnAxis
  <2>2. /\ y.b \in AllGroups /\ y.e \in AllGroups /\ h \in AllGroups /\ h + 1 \in AllGroups
    <3> DEFINE b == y.b
               e == y.e
    <3>1. /\ b \in Int /\ e \in Int /\ 0 <= b /\ e < Card
          /\ h \in Int /\ b <= h /\ h < e
      BY <1>7, <2>1
    <3> HIDE DEF b, e
    <3>2. b \in AllGroups /\ e \in AllGroups /\ h \in AllGroups /\ h + 1 \in AllGroups
      BY <1>8, <3>1 DEF AllGroups
    <3> QED
      BY <3>2 DEF b, e
  <2>3. OnAxis(Seg(y.b, h)) /\ OnAxis(Seg(h + 1, y.e))
    BY <1>7, <1>8, <2>1 DEF OnAxis, Seg
  <2>4. Seg(y.b, h) \in S /\ Seg(h + 1, y.e) \in S
    BY <2>2 DEF Seg
  <2> QED
    BY <2>3, <2>4
<1>11. segs \in Seq(T) /\ \A z \in T : OnAxis(z)
  <2>1. \A z \in T : OnAxis(z)
    OBVIOUS
  <2> HIDE DEF T
  <2> QED
    BY <1>0, <1>9, <2>1
<1> HIDE DEF x, y, S, T
<1>12. /\ TotalError(a, segs) \in Int
       /\ TotalError(a, segs')
            = TotalError(a, segs) - Error(a, x) + Error(a, Lo(a, s, g)) + Error(a, Hi(a, s, g))
  BY <1>3, <1>5, <1>6, <1>9, <1>11, TotalOfSplit DEF x
<1>13. TotalError(a, other)
         = TotalError(a, segs) - Error(a, y) + Error(a, Seg(y.b, h)) + Error(a, Seg(h + 1, y.e))
  BY <1>1, <1>3, <1>7, <1>10, <1>11, TotalOfSplit DEF y
<1>14. /\ Error(a, Lo(a, s, g)) = Error(a, Seg(x.b, g))
       /\ Error(a, Hi(a, s, g)) = Error(a, Seg(g + 1, x.e))
  <2>1. /\ Groups(Lo(a, s, g)) = Groups(Seg(x.b, g))
        /\ Groups(Hi(a, s, g)) = Groups(Seg(g + 1, x.e))
    BY DEF Groups, Lo, Hi, Seg, x
  <2> QED
    BY <2>1, Zenon DEF Error
<1>15. ~Below(ScoreOf(a, x, g), ScoreOf(a, y, h))
  <2>1. o \in Splittable(segs) /\ o <= Len(segs)
    BY <1>7
  <2>2. h \in Groups(y)
    BY <1>7 DEF Groups, OnAxis
  <2> QED
    BY <1>5, <2>1, <2>2 DEF Wins, x, y
<1>16. Saved(a, y, h) <= Saved(a, x, g)
  BY <1>3, <1>6, <1>7, <1>15, ScoreNotBelow
<1>17. \A z \in T : Error(a, z) \in Int
  BY <1>3, <1>11, ErrorIs
<1>18. /\ Error(a, x) \in Int /\ Error(a, y) \in Int
       /\ Error(a, Seg(y.b, h)) \in Int /\ Error(a, Seg(h + 1, y.e)) \in Int
       /\ Error(a, Seg(x.b, g)) \in Int /\ Error(a, Seg(g + 1, x.e)) \in Int
  BY <1>3, <1>6, <1>7, <1>9, <1>10, <1>14, <1>17, ErrorIs
<1> QED
  BY <1>12, <1>13, <1>14, <1>16, <1>18 DEF Saved

\* No other split of the iteration would have drawn the sampled averages with
\* a smaller squared error (trend.cc:555-606 maximises a score built from
\* partial sums, to that end).
THEOREM SplitStaysBest == Spec => SplitIsBest
<1>1. Init => SplitInv
  BY SplitInit
<1>2. SplitInv /\ [Next]_vars => SplitInv'
  BY SplitNext
<1>3. SplitInv /\ [Next]_vars =>
        [cut' # NoCut /\ segs' # segs =>
           \A other \in OtherSplits :
             TotalError(groupAvgs', segs') <= TotalError(groupAvgs', other)]_vars
  BY BestStep
<1> QED
  BY <1>1, <1>2, <1>3, PTL DEF Spec, SplitIsBest
=============================================================================
