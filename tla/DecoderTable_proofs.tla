------------------------ MODULE DecoderTable_proofs -------------------------
(***************************************************************************)
(* Proofs about the builder of the decoder table, for every script that    *)
(* keeps to what x86iset.ax keeps to, and for any number of opcode bytes   *)
(* and registers: the tables are layered at every moment of the build, and *)
(* it fails only for the reasons that there are in the script itself.      *)
(***************************************************************************)
EXTENDS DecoderTableProps, FiniteSetTheorems, TLAPS

-----------------------------------------------------------------------------
(* Counting up, and functions defined along the way *)

\* A set that has the first number of an interval and with each number the
\* next one has all of them.
LEMMA CountUp ==
  ASSUME NEW lo \in Int, NEW hi \in Int, NEW T,
         lo \in T, \A n \in lo..(hi - 1) : n \in T => n + 1 \in T
  PROVE  lo..hi \subseteq T
<1> DEFINE Missing == {lo..k : k \in (lo..hi) \ T}
<1>1. SUFFICES ASSUME (lo..hi) \ T # {} PROVE FALSE
  OBVIOUS
<1>2. Missing \subseteq FiniteSubsetsOf(Int) /\ Missing # {}
  <2>1. \A k \in lo..hi : IsFiniteSet(lo..k) /\ lo..k \subseteq Int
    BY FS_Interval
  <2>2. QED  BY <1>1, <2>1 DEF FiniteSubsetsOf
<1>3. PICK x \in Missing : \A y \in Missing : ~(<<y, x>> \in StrictSubsetOrdering(Int))
  <2> HIDE DEF Missing
  <2>1. QED  BY <1>2, FS_StrictSubsetOrderingWellFounded, WFMin
<1>4. PICK k \in (lo..hi) \ T : x = lo..k
  BY <1>3
<1>5. k - 1 \in lo..(hi - 1) /\ k - 1 \notin T
  <2>1. k # lo /\ k \in Int
    BY <1>4
  <2>2. QED  BY <2>1, <1>4
<1>6. lo..(k - 1) \in Missing
  BY <1>5
<1>7. <<lo..(k - 1), lo..k>> \in StrictSubsetOrdering(Int)
  <2>1. k \in lo..k /\ k \notin lo..(k - 1) /\ lo..(k - 1) \subseteq lo..k
    BY <1>4
  <2>2. lo..(k - 1) \subseteq Int /\ lo..k \subseteq Int
    OBVIOUS
  <2>3. lo..(k - 1) # lo..k
    BY <2>1
  <2> HIDE DEF Missing
  <2>4. QED  BY <2>1, <2>2, <2>3 DEF StrictSubsetOrdering
<1>8. QED  BY <1>3, <1>4, <1>6, <1>7

\* A function on an interval that starts with base and goes on as F tells it.
Goes(f, lo, hi, base, F) ==
  f[lo] = base /\ \A n \in (lo + 1)..hi : f[n] = F[n][f[n - 1]]

\* There is one: a start and what each step makes of the last value give a
\* function on the whole interval.
LEMMA Recursion ==
  ASSUME NEW lo \in Int, NEW hi \in Int, lo <= hi, NEW X, NEW base \in X,
         NEW F \in [(lo + 1)..hi -> [X -> X]]
  PROVE  \E f \in [lo..hi -> X] : Goes(f, lo, hi, base, F)
<1> DEFINE T == {m \in lo..hi : \E f \in [lo..m -> X] : Goes(f, lo, m, base, F)}
<1>1. lo \in T
  <2>1. [n \in lo..lo |-> base] \in [lo..lo -> X]
    OBVIOUS
  <2>2. Goes([n \in lo..lo |-> base], lo, lo, base, F)
    BY DEF Goes
  <2>3. lo \in lo..hi
    OBVIOUS
  <2>4. QED  BY <2>1, <2>2, <2>3
<1>2. ASSUME NEW m \in lo..(hi - 1), m \in T
      PROVE  m + 1 \in T
  <2>1. PICK f \in [lo..m -> X] : Goes(f, lo, m, base, F)
    BY <1>2
  <2> DEFINE g == [n \in lo..(m + 1) |-> IF n = m + 1 THEN F[m + 1][f[m]] ELSE f[n]]
  <2>2. m + 1 \in (lo + 1)..hi /\ m \in lo..m /\ m \in Int
    OBVIOUS
  <2>3. F[m + 1] \in [X -> X] /\ f[m] \in X
    BY <2>2
  <2>4. g \in [lo..(m + 1) -> X]
    <3>1. \A n \in lo..(m + 1) : n # m + 1 => n \in lo..m
      BY <2>2
    <3>2. QED  BY <2>3, <3>1
  <2>5. Goes(g, lo, m + 1, base, F)
    <3>1. g[lo] = base
      BY <2>1, <2>2 DEF Goes
    <3>2. ASSUME NEW n \in (lo + 1)..(m + 1)
          PROVE  g[n] = F[n][g[n - 1]]
      <4>1. n - 1 \in lo..(m + 1) /\ n - 1 # m + 1 /\ n \in lo..(m + 1) /\ n \in Int
        BY <2>2
      <4>2. g[n - 1] = f[n - 1]
        BY <4>1
      <4>3. CASE n = m + 1
        <5>1. n - 1 = m
          BY <4>3, <2>2
        <5>2. g[n] = F[m + 1][f[m]]
          BY <4>1, <4>3
        <5>3. QED  BY <4>2, <4>3, <5>1, <5>2
      <4>4. CASE n # m + 1
        <5>1. n \in (lo + 1)..m
          BY <4>4, <2>2
        <5>2. g[n] = f[n]
          BY <4>1, <4>4
        <5>3. QED  BY <2>1, <4>2, <5>1, <5>2 DEF Goes
      <4>5. QED  BY <4>3, <4>4
    <3>3. QED  BY <3>1, <3>2 DEF Goes
  <2> HIDE DEF g
  <2>6. QED  BY <2>2, <2>4, <2>5
<1>3. hi \in T
  <2> HIDE DEF T
  <2>1. lo..hi \subseteq T
    BY <1>1, <1>2, CountUp
  <2>2. QED  BY <2>1
<1>4. QED  BY <1>3

\* A function that starts in X and goes on in X stays in X.
LEMMA Stays ==
  ASSUME NEW lo \in Int, NEW hi \in Int, lo <= hi, NEW X, NEW f, f[lo] \in X,
         \A n \in (lo + 1)..hi : f[n - 1] \in X => f[n] \in X
  PROVE  \A n \in lo..hi : f[n] \in X
<1> DEFINE T == {n \in lo..hi : f[n] \in X}
<1>1. lo \in T
  OBVIOUS
<1>2. ASSUME NEW n \in lo..(hi - 1), n \in T
      PROVE  n + 1 \in T
  <2>1. n + 1 \in (lo + 1)..hi /\ n + 1 \in lo..hi /\ (n + 1) - 1 = n
    OBVIOUS
  <2>2. f[n] \in X
    BY <1>2
  <2>3. f[n + 1] \in X
    BY <2>1, <2>2
  <2>4. QED  BY <2>1, <2>3
<1> HIDE DEF T
<1>3. lo..hi \subseteq T
  BY <1>1, <1>2, CountUp
<1>4. QED  BY <1>3 DEF T

\* A concatenation goes from each sequence to the next.
FlattenRun(ss, f) ==
  /\ f[1] = ss[1] /\ \A i \in 2..Len(ss) : f[i] = f[i - 1] \o ss[i]
  /\ FlattenSeq(ss) = f[Len(ss)]
\* There are such sequences.
LEMMA FlattenRuns ==
  ASSUME NEW S, NEW ss \in Seq(Seq(S)), Len(ss) # 0
  PROVE  \E f \in [1..Len(ss) -> Seq(S)] : FlattenRun(ss, f)
<1> DEFINE flatten[i \in 1..Len(ss)] == IF i = 1 THEN ss[i] ELSE flatten[i - 1] \o ss[i]
           X == Seq(S)
           hi == Len(ss)
           F == [n \in 2..hi |-> [x \in X |-> x \o ss[n]]]
<1>1. hi \in Int /\ 1 <= hi /\ \A n \in 1..hi : ss[n] \in X
  OBVIOUS
<1>2. \A x, y \in X : x \o y \in X
  OBVIOUS
<1>3. FlattenSeq(ss) = flatten[hi]
  BY DEF FlattenSeq
<1>4. flatten = CHOOSE g : g = [i \in 1..hi |-> IF i = 1 THEN ss[i] ELSE g[i - 1] \o ss[i]]
  OBVIOUS
<1> HIDE DEF X, hi, flatten
<1>5. \E f \in [1..hi -> X] : Goes(f, 1, hi, ss[1], F)
  <2>1. \A n \in 2..hi : [x \in X |-> x \o ss[n]] \in [X -> X]
    BY <1>1, <1>2
  <2>2. F \in [(1 + 1)..hi -> [X -> X]] /\ ss[1] \in X
    BY <1>1, <2>1
  <2> HIDE DEF F
  <2> DEFINE base == ss[1]
  <2>3. base \in X /\ 1 \in Int
    BY <2>2
  <2> HIDE DEF base
  <2>4. \E f \in [1..hi -> X] : Goes(f, 1, hi, base, F)
    BY <1>1, <2>2, <2>3, Recursion
  <2>5. QED  BY <2>4 DEF base
<1>6. PICK f \in [1..hi -> X] : Goes(f, 1, hi, ss[1], F)
  BY <1>5
<1>7. f = [i \in 1..hi |-> IF i = 1 THEN ss[i] ELSE f[i - 1] \o ss[i]]
  <2>1. ASSUME NEW i \in 1..hi, i # 1
        PROVE  f[i] = f[i - 1] \o ss[i]
    <3>1. i \in 2..hi /\ i \in (1 + 1)..hi /\ i - 1 \in 1..hi
      BY <1>1, <2>1
    <3>2. F[i][f[i - 1]] = f[i - 1] \o ss[i]
      BY <3>1
    <3> HIDE DEF F
    <3>3. f[i] = F[i][f[i - 1]]
      BY <1>6, <3>1 DEF Goes
    <3>4. QED  BY <3>2, <3>3
  <2>2. f[1] = ss[1]
    BY <1>6 DEF Goes
  <2> HIDE DEF F
  <2>3. QED  BY <2>1, <2>2
<1>8. flatten = [i \in 1..hi |-> IF i = 1 THEN ss[i] ELSE flatten[i - 1] \o ss[i]]
  BY <1>4, <1>7
<1>9. flatten \in [1..hi -> X]
  <2>1. flatten[1] \in X
    BY <1>1, <1>8
  <2>2. ASSUME NEW n \in (1 + 1)..hi, flatten[n - 1] \in X
        PROVE  flatten[n] \in X
    <3>1. n \in 1..hi /\ n # 1
      BY <1>1
    <3>2. flatten[n] = flatten[n - 1] \o ss[n]
      BY <1>8, <3>1
    <3>3. QED  BY <1>1, <1>2, <2>2, <3>1, <3>2
  <2>3. 1 \in Int
    OBVIOUS
  <2>4. \A i \in 1..hi : flatten[i] \in X
    BY <1>1, <2>1, <2>2, <2>3, Stays, Zenon
  <2>5. QED  BY <1>8, <2>4
<1>10. FlattenRun(ss, flatten)
  <2>1. 1 \in 1..hi /\ \A i \in 2..hi : i \in 1..hi /\ i # 1
    BY <1>1
  <2>2. flatten[1] = ss[1] /\ \A i \in 2..hi : flatten[i] = flatten[i - 1] \o ss[i]
    BY <1>8, <2>1
  <2>3. QED  BY <1>3, <2>2 DEF FlattenRun, hi
<1>11. QED  BY <1>9, <1>10 DEF hi, X

\* A concatenation of sequences over a set is one.
LEMMA Flattened ==
  ASSUME NEW S, NEW ss \in Seq(Seq(S))
  PROVE  FlattenSeq(ss) \in Seq(S)
<1>1. CASE Len(ss) = 0
  <2>1. ss = <<>>
    BY <1>1
  <2>2. QED  BY <1>1, <2>1 DEF FlattenSeq
<1>2. CASE Len(ss) # 0
  <2>1. PICK f \in [1..Len(ss) -> Seq(S)] : FlattenRun(ss, f)
    BY <1>2, FlattenRuns
  <2>2. Len(ss) \in 1..Len(ss)
    BY <1>2
  <2>3. QED  BY <2>1, <2>2 DEF FlattenRun
<1>3. QED  BY <1>1, <1>2

\* No element of a sequence comes twice.
Apart(s) == \A i, j \in 1..Len(s) : s[i] = s[j] => i = j

\* Nor in what two such sequences make, if they have nothing in common,
LEMMA JoinedApart ==
  ASSUME NEW S, NEW x \in Seq(S), NEW y \in Seq(S), Apart(x), Apart(y),
         \A i \in 1..Len(x), j \in 1..Len(y) : x[i] # y[j]
  PROVE  Apart(x \o y)
<1> DEFINE z == x \o y
<1>1. Len(x) \in Nat /\ Len(y) \in Nat /\ Len(z) = Len(x) + Len(y)
  OBVIOUS
<1>2. \A i \in 1..Len(z) : IF i <= Len(x) THEN i \in 1..Len(x) /\ z[i] = x[i]
                           ELSE i - Len(x) \in 1..Len(y) /\ z[i] = y[i - Len(x)]
  OBVIOUS
<1> HIDE DEF z
<1>3. ASSUME NEW i \in 1..Len(z), NEW j \in 1..Len(z), z[i] = z[j]
      PROVE  i = j
  <2>1. CASE i <= Len(x) /\ j <= Len(x)
    BY <1>2, <1>3, <2>1 DEF Apart
  <2>2. CASE ~(i <= Len(x)) /\ ~(j <= Len(x))
    <3>1. i - Len(x) = j - Len(x)
      BY <1>2, <1>3, <2>2 DEF Apart
    <3>2. QED  BY <1>1, <3>1
  <2>3. CASE i <= Len(x) /\ ~(j <= Len(x))
    BY <1>2, <1>3, <2>3
  <2>4. CASE ~(i <= Len(x)) /\ j <= Len(x)
    BY <1>2, <1>3, <2>4
  <2>5. QED  BY <2>1, <2>2, <2>3, <2>4
<1>4. QED  BY <1>3 DEF Apart, z

\* or any number of them.
LEMMA FlattenedApart ==
  ASSUME NEW S, NEW ss \in Seq(Seq(S)), \A i \in 1..Len(ss) : Apart(ss[i]),
         \A i, j \in 1..Len(ss) : i # j =>
           \A a \in 1..Len(ss[i]), b \in 1..Len(ss[j]) : ss[i][a] # ss[j][b]
  PROVE  Apart(FlattenSeq(ss))
<1>1. CASE Len(ss) = 0
  <2>1. ss = <<>>
    BY <1>1
  <2>2. FlattenSeq(ss) = <<>>
    BY <1>1, <2>1 DEF FlattenSeq
  <2>3. QED  BY <2>2 DEF Apart
<1>2. CASE Len(ss) # 0
  <2> DEFINE hi == Len(ss)
  <2>1. PICK f \in [1..hi -> Seq(S)] : FlattenRun(ss, f)
    BY <1>2, FlattenRuns
  <2>2. hi \in Int /\ hi \in 1..hi /\ 1 \in Int /\ 1 <= hi /\ \A i \in 1..hi : ss[i] \in Seq(S)
    BY <1>2
  <2> DEFINE From(i, x) == \A a \in 1..Len(x) : \E j \in 1..i : \E b \in 1..Len(ss[j]) :
                                                  x[a] = ss[j][b]
             T == {i \in 1..hi : Apart(f[i]) /\ From(i, f[i])}
  <2>3. 1 \in T
    <3>1. f[1] = ss[1]
      BY <2>1 DEF FlattenRun
    <3>2. QED  BY <2>2, <3>1
  <2>4. ASSUME NEW n \in 1..(hi - 1), n \in T
        PROVE  n + 1 \in T
    <3> DEFINE m == n + 1
               x == f[n]
               y == ss[m]
    <3>1. n \in 1..hi /\ m \in 2..hi /\ m \in 1..hi /\ m - 1 = n
      BY <2>2
    <3>2. f[m] = x \o y
      BY <2>1, <3>1 DEF FlattenRun
    <3>3. x \in Seq(S) /\ y \in Seq(S) /\ Apart(x) /\ Apart(y) /\ From(n, x)
      BY <2>1, <2>2, <2>4, <3>1
    <3> HIDE DEF x, y, T
    <3>4. \A i \in 1..Len(x), j \in 1..Len(y) : x[i] # y[j]
      <4>1. ASSUME NEW i \in 1..Len(x), NEW j \in 1..Len(y)
            PROVE  x[i] # y[j]
        <5>1. PICK l \in 1..n : \E b \in 1..Len(ss[l]) : x[i] = ss[l][b]
          BY <3>3
        <5>2. PICK b \in 1..Len(ss[l]) : x[i] = ss[l][b]
          BY <5>1
        <5>3. l \in 1..hi /\ l # m
          BY <3>1
        <5>4. ss[l][b] # ss[m][j]
          BY <3>1, <5>3 DEF y
        <5>5. QED  BY <5>2, <5>4 DEF y
      <4>2. QED  BY <4>1
    <3>5. Apart(x \o y)
      BY <3>3, <3>4, JoinedApart
    <3>6. From(m, x \o y)
      <4>1. ASSUME NEW a \in 1..Len(x \o y)
            PROVE  \E j \in 1..m : \E b \in 1..Len(ss[j]) : (x \o y)[a] = ss[j][b]
        <5>1. CASE a <= Len(x)
          <6>1. a \in 1..Len(x) /\ (x \o y)[a] = x[a]
            BY <3>3, <5>1
          <6>2. PICK l \in 1..n : \E b \in 1..Len(ss[l]) : x[a] = ss[l][b]
            BY <3>3, <6>1
          <6>3. l \in 1..m
            BY <3>1
          <6>4. QED  BY <6>1, <6>2, <6>3
        <5>2. CASE ~(a <= Len(x))
          <6>1. a - Len(x) \in 1..Len(y) /\ (x \o y)[a] = y[a - Len(x)]
            BY <3>3, <5>2
          <6>2. m \in 1..m
            BY <3>1
          <6>3. QED  BY <6>1, <6>2 DEF y
        <5>3. QED  BY <5>1, <5>2
      <4>2. QED  BY <4>1
    <3> HIDE DEF From
    <3>7. Apart(f[m]) /\ From(m, f[m])
      BY <3>2, <3>5, <3>6
    <3>8. m \in T
      BY <3>1, <3>7 DEF T
    <3>9. QED  BY <3>8
  <2> HIDE DEF T, hi
  <2>5. 1..hi \subseteq T
    BY <2>2, <2>3, <2>4, CountUp
  <2>6. hi \in T
    BY <2>2, <2>5
  <2>7. QED  BY <2>1, <2>6 DEF T, FlattenRun, hi
<1>3. QED  BY <1>1, <1>2

-----------------------------------------------------------------------------
(* Tables and their entries *)

TableRecords ==
  [type : 0..6, values : UNION {[Kids(t) -> Nat] : t \in 0..6}, encoding : Nat]

\* Tables that are typed, N being the number of encodings,
Typed(t, N) ==
  \A n \in 1..Len(t) : /\ t[n].values \in [Kids(t[n].type) -> 0..Len(t)]
                       /\ t[n].encoding \in 0..N
\* lead only to later ones of a type that they may lead to,
Leads(t) ==
  \A n \in 1..Len(t) : \A k \in Kids(t[n].type) :
    t[n].values[k] # NULL => /\ t[n].values[k] > n
                             /\ t[t[n].values[k]].type \in Below[t[n].type]
\* and are all reached from an earlier one, but the root.
Reached(t) ==
  \A n \in 2..Len(t) : \E m \in 1..(n - 1) : \E k \in Kids(t[m].type) : t[m].values[k] = n

Sound(t, N) ==
  /\ t \in Seq(TableRecords) /\ Len(t) >= 1 /\ t[Root].type = 1
  /\ Typed(t, N) /\ Leads(t) /\ Reached(t)

\* Tables are only added, and keep their types.
Grows(t, u) == Len(t) <= Len(u) /\ \A n \in 1..Len(t) : u[n].type = t[n].type

\* The arrays of the types.
LEMMA KidsOf ==
  /\ Kids(0) = {} /\ Kids(1) = Byte /\ Kids(2) = 0..5 /\ Kids(3) = 0..(4 * RegCount - 1)
  /\ Kids(4) = Reg /\ Kids(5) = Reg /\ Kids(6) = 0..1
  BY DEF Kids

\* What a table may lead to.
LEMMA BelowTypes ==
  /\ \A t \in 1..6 : Below[t] \subseteq 0..6 /\ 0 \in Below[t]
  /\ \A t \in {1, 2} : 3 \in Below[t] /\ \A u \in {1, 2, 3} : 5 \in Below[u]
  /\ 1 \in Below[1] /\ 2 \in Below[1]
  /\ \A t \in {1, 2, 3, 5} : 6 \in Below[t]
  BY DEF Below

\* A new table is one.
LEMMA NewTable ==
  ASSUME NEW type \in 0..6, NEW encoding \in Nat
  PROVE  /\ Table(type, encoding) \in TableRecords
         /\ Table(type, encoding).type = type /\ Table(type, encoding).encoding = encoding
         /\ Table(type, encoding).values = [k \in Kids(type) |-> NULL]
<1>1. [k \in Kids(type) |-> NULL] \in [Kids(type) -> Nat]
  BY DEF NULL
<1>2. [k \in Kids(type) |-> NULL] \in UNION {[Kids(t) -> Nat] : t \in 0..6}
  BY <1>1
<1> HIDE DEF Kids
<1>3. QED  BY <1>2 DEF Table, TableRecords

\* A sequence of which one element is written.
LEMMA ElementWritten ==
  ASSUME NEW S, NEW t \in Seq(S), NEW n \in 1..Len(t), NEW r \in S,
         NEW u, u = [t EXCEPT ![n] = r]
  PROVE  /\ u \in Seq(S) /\ Len(u) = Len(t) /\ u[n] = r
         /\ \A i \in 1..Len(t) : i # n => u[i] = t[i]
  OBVIOUS

\* Tables with x in entry k of table n.
Wrote(t, n, k, x) == [t EXCEPT ![n].values[k] = x]

\* In u this is all that differs from t.
DiffersIn(t, u, n, k, x) ==
  /\ u \in Seq(TableRecords) /\ Len(u) = Len(t)
  /\ \A i \in 1..Len(t) : /\ u[i].type = t[i].type /\ u[i].encoding = t[i].encoding
                          /\ i # n => u[i] = t[i]
  /\ u[n].values = [t[n].values EXCEPT ![k] = x]

\* Writing one entry of one table changes nothing else, and leaves it a table.
LEMMA Written1 ==
  ASSUME NEW t \in Seq(TableRecords), NEW n \in 1..Len(t),
         t[n].values \in [Kids(t[n].type) -> Nat], NEW k \in Kids(t[n].type), NEW x \in Nat,
         NEW u, u = Wrote(t, n, k, x)
  PROVE  DiffersIn(t, u, n, k, x)
<1> DEFINE v == [t[n].values EXCEPT ![k] = x]
           r == [t[n] EXCEPT !.values = v]
<1>1. t[n] \in TableRecords
  OBVIOUS
<1>2. v \in [Kids(t[n].type) -> Nat]
  OBVIOUS
<1>3. v \in UNION {[Kids(y) -> Nat] : y \in 0..6}
  BY <1>1, <1>2 DEF TableRecords
<1>4. u = [t EXCEPT ![n] = r]
  <2>1. [t EXCEPT ![n].values[k] = x]
          = [t EXCEPT ![n] = [t[n] EXCEPT !.values = [t[n].values EXCEPT ![k] = x]]]
    BY Zenon
  <2>2. QED  BY <2>1 DEF Wrote
<1> HIDE DEF v
<1>5. r \in TableRecords /\ r.type = t[n].type /\ r.encoding = t[n].encoding /\ r.values = v
  BY <1>1, <1>3 DEF TableRecords
<1> HIDE DEF r
<1>6. u \in Seq(TableRecords) /\ Len(u) = Len(t) /\ u[n] = r
      /\ \A i \in 1..Len(t) : i # n => u[i] = t[i]
  <2>1. r \in TableRecords
    BY <1>5
  <2>2. QED  BY <1>4, <2>1, ElementWritten
<1>7. QED  BY <1>5, <1>6 DEF v, DiffersIn

\* The entries, one by one.
ValuesTo(t, N) == \A i \in 1..Len(t) : t[i].values \in [Kids(t[i].type) -> 0..N]
Entries(t, u, n, k, x, N) ==
  /\ u \in Seq(TableRecords) /\ Len(u) = Len(t)
  /\ \A i \in 1..Len(t) :
       /\ u[i].type = t[i].type /\ u[i].encoding = t[i].encoding
       /\ u[i].values \in [Kids(t[i].type) -> 0..N]
       /\ \A j \in Kids(t[i].type) :
            u[i].values[j] = IF i = n /\ j = k THEN x ELSE t[i].values[j]

\* Every other entry of every table is as it was, and all are numbers still.
LEMMA EntriesWritten ==
  ASSUME NEW t \in Seq(TableRecords), NEW N \in Nat, ValuesTo(t, N),
         NEW n \in 1..Len(t), NEW k \in Kids(t[n].type), NEW x \in 0..N
  PROVE  Entries(t, Wrote(t, n, k, x), n, k, x, N)
<1> DEFINE u == Wrote(t, n, k, x)
<1>1. t[n].values \in [Kids(t[n].type) -> Nat] /\ x \in Nat
  <2>1. t[n].values \in [Kids(t[n].type) -> 0..N]
    BY DEF ValuesTo
  <2>2. QED  BY <2>1
<1>2. u = Wrote(t, n, k, x)
  OBVIOUS
<1> HIDE DEF u
<1>3. DiffersIn(t, u, n, k, x)
  BY <1>1, <1>2, Written1, Zenon
<1>4. ASSUME NEW i \in 1..Len(t)
      PROVE  /\ u[i].values \in [Kids(t[i].type) -> 0..N]
             /\ \A j \in Kids(t[i].type) :
                  u[i].values[j] = IF i = n /\ j = k THEN x ELSE t[i].values[j]
  <2>1. t[i].values \in [Kids(t[i].type) -> 0..N]
    BY DEF ValuesTo
  <2>2. CASE i = n
    <3>1. u[i].values = [t[i].values EXCEPT ![k] = x]
      BY <1>3, <2>2 DEF DiffersIn
    <3>2. QED  BY <2>1, <2>2, <3>1
  <2>3. CASE i # n
    <3>1. u[i] = t[i]
      BY <1>3, <2>3 DEF DiffersIn
    <3>2. QED  BY <2>1, <2>3, <3>1
  <2>4. QED  BY <2>2, <2>3
<1>5. QED  BY <1>2, <1>3, <1>4 DEF Entries, DiffersIn

\* A new table in an empty entry that may lead to its type.
Added(t, n, k, type, encoding) ==
  Wrote(Append(t, Table(type, encoding)), n, k, Len(t) + 1)

\* All other entries of the tables are as they were.
Elsewhere(t, u, n, k) ==
  \A i \in 1..Len(t) : \A j \in Kids(t[i].type) :
    i # n \/ j # k => u[i].values[j] = t[i].values[j]

AddedWell(t, u, n, k, type, N) ==
  /\ Sound(u, N) /\ Grows(t, u) /\ Len(u) = Len(t) + 1
  /\ u[Len(t) + 1].type = type /\ u[n].values[k] = Len(t) + 1
  /\ Elsewhere(t, u, n, k) /\ \A j \in Kids(type) : u[Len(t) + 1].values[j] = NULL

\* A new table in an empty entry (New) leaves tables sound.
LEMMA AddedIsSound ==
  ASSUME NEW N \in Nat, NEW t, Sound(t, N), NEW n \in 1..Len(t), NEW k \in Kids(t[n].type),
         t[n].values[k] = NULL, NEW type \in 0..6, type \in Below[t[n].type],
         NEW encoding \in 0..N
  PROVE  AddedWell(t, Added(t, n, k, type, encoding), n, k, type, N)
<1> DEFINE new == Table(type, encoding)
           s == Append(t, new)
           M == Len(t) + 1
           u == Wrote(s, n, k, M)
<1>1. /\ new \in TableRecords /\ new.type = type /\ new.encoding = encoding
      /\ new.values = [j \in Kids(type) |-> NULL]
  BY NewTable
<1> HIDE DEF new
<1>2. t \in Seq(TableRecords) /\ Typed(t, N) /\ Leads(t) /\ Reached(t) /\ Len(t) \in Nat
      /\ t[Root].type = 1 /\ Len(t) >= 1
  BY DEF Sound
<1>3. s \in Seq(TableRecords) /\ Len(s) = M /\ M \in Nat /\ s[M] = new
      /\ \A i \in 1..Len(t) : s[i] = t[i] /\ i \in 1..M /\ i # M
  BY <1>1, <1>2
<1> HIDE DEF s
<1>4. ValuesTo(s, M)
  <2>1. ASSUME NEW i \in 1..Len(t)
        PROVE  s[i].values \in [Kids(s[i].type) -> 0..M]
    <3>1. t[i].values \in [Kids(t[i].type) -> 0..Len(t)]
      BY <1>2 DEF Typed
    <3>2. 0..Len(t) \subseteq 0..M
      BY <1>2
    <3>3. QED  BY <1>3, <3>1, <3>2
  <2>2. s[M].values \in [Kids(s[M].type) -> 0..M]
    BY <1>1, <1>3 DEF NULL
  <2>3. \A i \in 1..M : i \in 1..Len(t) \/ i = M
    BY <1>2
  <2>4. QED  BY <1>3, <2>1, <2>2, <2>3 DEF ValuesTo
<1>5. n \in 1..Len(s) /\ k \in Kids(s[n].type) /\ M \in 0..M
  BY <1>3
<1>6. /\ u = Wrote(s, n, k, M)
      /\ u \in Seq(TableRecords) /\ Len(u) = M
      /\ \A i \in 1..M :
           /\ u[i].type = s[i].type /\ u[i].encoding = s[i].encoding
           /\ u[i].values \in [Kids(s[i].type) -> 0..M]
           /\ \A j \in Kids(s[i].type) :
                u[i].values[j] = IF i = n /\ j = k THEN M ELSE s[i].values[j]
  <2>1. Entries(s, u, n, k, M, M)
    BY <1>3, <1>4, <1>5, EntriesWritten, Zenon
  <2> HIDE DEF u
  <2>2. QED  BY <1>3, <2>1 DEF Entries, u
<1> HIDE DEF M, u
<1>7. /\ \A i \in 1..Len(t) :
           /\ u[i].type = t[i].type /\ u[i].encoding = t[i].encoding
           /\ \A j \in Kids(t[i].type) :
                u[i].values[j] = IF i = n /\ j = k THEN M ELSE t[i].values[j]
      /\ u[M].type = type /\ u[M].encoding = encoding
      /\ \A j \in Kids(type) : u[M].values[j] = NULL
  <2>1. M \in 1..M /\ n # M
    BY <1>2, <1>3
  <2>2. \A j \in Kids(type) : u[M].values[j] = s[M].values[j]
    BY <1>1, <1>3, <1>6, <2>1
  <2>3. \A j \in Kids(type) : s[M].values[j] = NULL
    BY <1>1, <1>3
  <2>4. u[M].type = type /\ u[M].encoding = encoding
    BY <1>1, <1>3, <1>6, <2>1
  <2>5. \A i \in 1..Len(t) :
           /\ u[i].type = t[i].type /\ u[i].encoding = t[i].encoding
           /\ \A j \in Kids(t[i].type) :
                u[i].values[j] = IF i = n /\ j = k THEN M ELSE t[i].values[j]
    BY <1>3, <1>6
  <2>6. QED  BY <2>2, <2>3, <2>4, <2>5
<1>8. M = Len(t) + 1 /\ \A i \in 1..M : i \in 1..Len(t) \/ i = M
  BY <1>2 DEF M
<1>9. Typed(u, N)
  <2>1. ASSUME NEW i \in 1..M
        PROVE  u[i].values \in [Kids(u[i].type) -> 0..M] /\ u[i].encoding \in 0..N
    <3>1. CASE i \in 1..Len(t)
      BY <1>2, <1>6, <1>7, <3>1 DEF Typed
    <3>2. CASE i = M
      BY <1>6, <1>7, <3>2
    <3>3. QED  BY <1>8, <3>1, <3>2
  <2>2. QED  BY <1>6, <2>1 DEF Typed
<1>10. Leads(u)
  <2>1. ASSUME NEW i \in 1..M, NEW j \in Kids(u[i].type), u[i].values[j] # NULL
        PROVE  u[i].values[j] > i /\ u[u[i].values[j]].type \in Below[u[i].type]
    <3>1. i \in 1..Len(t)
      BY <1>7, <1>8, <2>1
    <3>2. u[i].type = t[i].type /\ j \in Kids(t[i].type)
      BY <1>7, <3>1
    <3>3. CASE i = n /\ j = k
      BY <1>2, <1>7, <1>8, <3>1, <3>2, <3>3
    <3>4. CASE ~(i = n /\ j = k)
      <4>1. u[i].values[j] = t[i].values[j]
        BY <1>7, <3>1, <3>2, <3>4
      <4>2. /\ t[i].values[j] > i /\ t[t[i].values[j]].type \in Below[t[i].type]
        BY <1>2, <2>1, <3>1, <3>2, <4>1 DEF Leads
      <4>3. t[i].values[j] \in 1..Len(t)
        <5>1. t[i].values[j] \in 0..Len(t)
          BY <1>2, <3>1, <3>2 DEF Typed
        <5>2. QED  BY <3>1, <4>2, <5>1
      <4>4. u[t[i].values[j]].type = t[t[i].values[j]].type
        BY <1>7, <4>3
      <4>5. QED  BY <3>2, <4>1, <4>2, <4>4
    <3>5. QED  BY <3>3, <3>4
  <2>2. QED  BY <1>6, <2>1 DEF Leads
<1>11. Reached(u)
  <2>1. ASSUME NEW i \in 2..M
        PROVE  \E m \in 1..(i - 1) : \E j \in Kids(u[m].type) : u[m].values[j] = i
    <3>1. CASE i \in 1..Len(t)
      <4>1. i \in 2..Len(t)
        BY <3>1, <2>1
      <4> PICK m \in 1..(i - 1) : \E j \in Kids(t[m].type) : t[m].values[j] = i
        BY <1>2, <4>1 DEF Reached
      <4>2. PICK j \in Kids(t[m].type) : t[m].values[j] = i
        OBVIOUS
      <4>3. m \in 1..Len(t) /\ i # NULL
        BY <1>2, <4>1 DEF NULL
      <4>4. ~(m = n /\ j = k)
        BY <4>2, <4>3
      <4>5. u[m].type = t[m].type /\ u[m].values[j] = i
        BY <1>7, <4>2, <4>3, <4>4
      <4>6. QED  BY <4>2, <4>5
    <3>2. CASE i = M
      <4>1. n \in 1..(i - 1)
        BY <1>2, <1>8, <3>2
      <4>2. k \in Kids(u[n].type) /\ u[n].values[k] = i
        BY <1>7, <3>2
      <4>3. QED  BY <4>1, <4>2
    <3>3. QED  BY <1>8, <3>1, <3>2
  <2>2. QED  BY <1>6, <2>1 DEF Reached
<1>12. u[Root].type = 1 /\ Len(u) >= 1
  BY <1>2, <1>6, <1>7, <1>8 DEF Root
<1>13. Grows(t, u)
  BY <1>2, <1>6, <1>7, <1>8 DEF Grows
<1>14. u[M].type = type /\ u[n].values[k] = M
  BY <1>7
<1>15. u = Added(t, n, k, type, encoding)
  BY DEF u, s, new, M, Added
<1>16. Elsewhere(t, u, n, k) /\ \A j \in Kids(type) : u[M].values[j] = NULL
  BY <1>7 DEF Elsewhere
<1>17. QED
  BY <1>6, <1>8, <1>9, <1>10, <1>11, <1>12, <1>13, <1>14, <1>15, <1>16 DEF Sound, AddedWell

\* An entry that is empty, or leads to the same table already, and is made to
\* lead to what another entry of its table leads to.
LEMMA SharedIsSound ==
  ASSUME NEW N \in Nat, NEW t, Sound(t, N), NEW n \in 1..Len(t), NEW k \in Kids(t[n].type),
         NEW l \in Kids(t[n].type), t[n].values[k] \in {NULL, t[n].values[l]}
  PROVE  LET u == Wrote(t, n, k, t[n].values[l])
         IN  Sound(u, N) /\ Grows(t, u) /\ Len(u) = Len(t) /\ Elsewhere(t, u, n, k)
<1> DEFINE x == t[n].values[l]
           u == Wrote(t, n, k, x)
           M == Len(t)
<1>1. t \in Seq(TableRecords) /\ Typed(t, N) /\ Leads(t) /\ Reached(t) /\ M \in Nat
      /\ t[Root].type = 1 /\ M >= 1
  BY DEF Sound
<1>2. ValuesTo(t, M) /\ n \in 1..M /\ x \in 0..M
  BY <1>1 DEF Typed, ValuesTo
<1>3. x # NULL => x > n /\ t[x].type \in Below[t[n].type]
  BY <1>1 DEF Leads
<1> HIDE DEF x
<1>4. Entries(t, u, n, k, x, M)
  BY <1>1, <1>2, EntriesWritten, Zenon
<1> HIDE DEF u
<1>5. /\ u \in Seq(TableRecords) /\ Len(u) = M
      /\ \A i \in 1..M :
           /\ u[i].type = t[i].type /\ u[i].encoding = t[i].encoding
           /\ u[i].values \in [Kids(t[i].type) -> 0..M]
           /\ \A j \in Kids(t[i].type) :
                u[i].values[j] = IF i = n /\ j = k THEN x ELSE t[i].values[j]
  BY <1>4 DEF Entries
<1> HIDE DEF M
<1>6. Typed(u, N)
  BY <1>1, <1>5 DEF Typed, M
<1>7. Leads(u)
  <2>1. ASSUME NEW i \in 1..M, NEW j \in Kids(u[i].type), u[i].values[j] # NULL
        PROVE  u[i].values[j] > i /\ u[u[i].values[j]].type \in Below[u[i].type]
    <3>1. u[i].type = t[i].type /\ j \in Kids(t[i].type) /\ u[i].values[j] \in 0..M
      BY <1>5
    <3>2. u[i].values[j] > i /\ t[u[i].values[j]].type \in Below[t[i].type]
      <4>1. CASE i = n /\ j = k
        BY <1>2, <1>3, <1>5, <2>1, <4>1
      <4>2. CASE ~(i = n /\ j = k)
        BY <1>1, <1>5, <2>1, <3>1, <4>2 DEF Leads, M
      <4>3. QED  BY <4>1, <4>2
    <3>3. u[i].values[j] \in 1..M
      BY <3>1, <3>2
    <3>4. u[u[i].values[j]].type = t[u[i].values[j]].type
      BY <1>5, <3>3
    <3>5. QED  BY <3>1, <3>2, <3>4
  <2>2. QED  BY <1>5, <2>1 DEF Leads
<1>8. Reached(u)
  <2>1. ASSUME NEW i \in 2..M
        PROVE  \E m \in 1..(i - 1) : \E j \in Kids(u[m].type) : u[m].values[j] = i
    <3> PICK m \in 1..(i - 1) : \E j \in Kids(t[m].type) : t[m].values[j] = i
      BY <1>1 DEF Reached, M
    <3>1. PICK j \in Kids(t[m].type) : t[m].values[j] = i
      OBVIOUS
    <3>2. m \in 1..M /\ i # NULL
      BY <1>1 DEF NULL
    <3>3. u[m].type = t[m].type
      BY <1>5, <3>2
    <3>4. u[m].values[j] = i
      <4>1. CASE m = n /\ j = k
        <5>1. x = i
          BY <3>1, <3>2, <4>1 DEF x
        <5>2. QED  BY <1>5, <3>1, <3>2, <4>1, <5>1
      <4>2. CASE ~(m = n /\ j = k)
        BY <1>5, <3>1, <3>2, <4>2
      <4>3. QED  BY <4>1, <4>2
    <3>5. QED  BY <3>1, <3>3, <3>4
  <2>2. QED  BY <1>5, <2>1 DEF Reached
<1>9. u[Root].type = 1 /\ Len(u) >= 1
  BY <1>1, <1>5 DEF Root
<1>10. Grows(t, u)
  BY <1>1, <1>5 DEF Grows, M
<1>11. Len(u) = Len(t) /\ Elsewhere(t, u, n, k)
  BY <1>5 DEF Elsewhere, M
<1>12. QED  BY <1>5, <1>6, <1>7, <1>8, <1>9, <1>10, <1>11 DEF Sound, u, x

\* Tables that grow and grow have grown.
LEMMA GrowsOn ==
  ASSUME NEW t, NEW u, NEW v, Len(t) \in Nat, Len(u) \in Nat, Len(v) \in Nat,
         Grows(t, u), Grows(u, v)
  PROVE  Grows(t, v)
  BY DEF Grows

-----------------------------------------------------------------------------
(* Places *)

PlaceRecords ==
  [tables : Seq(TableRecords), table : Nat, k : Nat, status : {NoError, "opcode conflict"}]
TypeAt(p) == p.tables[p.table].type

\* An entry of a table.
Spot(p, N) ==
  /\ p \in PlaceRecords /\ Sound(p.tables, N)
  /\ p.table \in 1..Len(p.tables) /\ p.k \in Kids(TypeAt(p))

\* From place p to place q tables have grown.
Moves(p, q, N) ==
  /\ Spot(q, N) /\ Grows(p.tables, q.tables)
  /\ p.status # NoError => q.status # NoError

\* No place has an error before it has a conflict.
LEMMA NoErrorIsNone == NoError # "opcode conflict"
  BY Zenon DEF NoError

\* The table at a place has entries, and an entry that is taken leads to a table
\* of a type that it may lead to.
LEMMA SpotFacts ==
  ASSUME NEW N, NEW p, Spot(p, N)
  PROVE  /\ Len(p.tables) \in Nat \ {0} /\ p.table \in 1..Len(p.tables)
         /\ TypeAt(p) \in 1..6 /\ Entry(p) \in 0..Len(p.tables)
         /\ Entry(p) # NULL => /\ Entry(p) \in 1..Len(p.tables)
                               /\ p.tables[Entry(p)].type \in Below[TypeAt(p)]
<1>1. p.tables \in Seq(TableRecords) /\ Typed(p.tables, N) /\ Leads(p.tables)
      /\ p.table \in 1..Len(p.tables) /\ p.k \in Kids(TypeAt(p)) /\ Len(p.tables) >= 1
  BY DEF Spot, Sound
<1>2. TypeAt(p) \in 0..6 /\ TypeAt(p) # 0
  <2>1. p.tables[p.table] \in TableRecords
    BY <1>1
  <2>2. TypeAt(p) \in 0..6
    BY <2>1 DEF TypeAt, TableRecords
  <2>3. Kids(TypeAt(p)) # {}
    BY <1>1
  <2>4. QED  BY <2>2, <2>3, KidsOf
<1>3. Entry(p) \in 0..Len(p.tables)
  BY <1>1 DEF Typed, Entry, TypeAt
<1>4. Entry(p) # NULL => p.tables[Entry(p)].type \in Below[TypeAt(p)]
  BY <1>1 DEF Leads, Entry, TypeAt
<1>5. QED  BY <1>1, <1>2, <1>3, <1>4 DEF NULL

\* To stay at a place is a move.
LEMMA MovesNowhere ==
  ASSUME NEW N, NEW p, Spot(p, N)
  PROVE  Moves(p, p, N)
<1>1. Len(p.tables) \in Nat
  BY SpotFacts
<1>2. QED  BY <1>1 DEF Moves, Grows

\* Two moves, one after the other, are a move.
LEMMA MovesOn ==
  ASSUME NEW N, NEW p, NEW q, NEW r, Spot(p, N), Moves(p, q, N), Moves(q, r, N)
  PROVE  Moves(p, r, N)
<1>1. Spot(q, N) /\ Spot(r, N)
  BY DEF Moves
<1>2. Len(p.tables) \in Nat /\ Len(q.tables) \in Nat /\ Len(r.tables) \in Nat
  BY <1>1, SpotFacts
<1>3. Grows(p.tables, r.tables)
  BY <1>2, GrowsOn DEF Moves
<1>4. QED  BY <1>1, <1>3 DEF Moves

\* A conflict ends the build where it is, and leaves the tables alone.
LEMMA ConflictIsSpot ==
  ASSUME NEW N, NEW p, Spot(p, N)
  PROVE  Moves(p, Conflict(p), N) /\ Conflict(p).status # NoError
         /\ Conflict(p).tables = p.tables
<1> DEFINE q == Conflict(p)
<1>1. q \in PlaceRecords /\ q.tables = p.tables /\ q.table = p.table /\ q.k = p.k
      /\ q.status = "opcode conflict"
  BY DEF Spot, Conflict, PlaceRecords
<1> HIDE DEF q
<1>2. q.status # NoError
  BY <1>1, NoErrorIsNone
<1>3. Spot(q, N)
  BY <1>1 DEF Spot, TypeAt
<1>4. Grows(p.tables, q.tables)
  <2>1. Len(p.tables) \in Nat
    BY SpotFacts
  <2>2. q.tables = p.tables
    BY <1>1
  <2>3. QED  BY <2>1, <2>2 DEF Grows
<1>5. QED  BY <1>1, <1>2, <1>3, <1>4 DEF Moves, q

\* A place that is not refused is as it was, and leads to none of the types.
LEMMA RefuseIsSpot ==
  ASSUME NEW N, NEW p, Spot(p, N), NEW types
  PROVE  /\ Moves(p, Refuse(p, types), N)
         /\ Refuse(p, types).tables = p.tables
         /\ Refuse(p, types).status = NoError =>
              /\ Refuse(p, types) = p
              /\ Entry(p) # NULL => p.tables[Entry(p)].type \notin types
  BY ConflictIsSpot, MovesNowhere DEF Refuse

\* At q the place p has a new table, and nothing else is changed.
AddedAt(p, q, type, N) ==
  /\ Moves(p, q, N) /\ q.status = p.status /\ q.table = p.table /\ q.k = p.k
  /\ Entry(q) = Len(p.tables) + 1 /\ q.tables[Entry(q)].type = type
  /\ Entry(q) \in 1..Len(q.tables) /\ Len(q.tables) = Len(p.tables) + 1
  /\ Elsewhere(p.tables, q.tables, p.table, p.k)
  /\ \A j \in Kids(type) : q.tables[Entry(q)].values[j] = NULL

\* A new table at a place that is empty: the place then leads to it.
LEMMA NewIsSpot ==
  ASSUME NEW N \in Nat, NEW p, Spot(p, N), Entry(p) = NULL,
         NEW type \in 0..6, type \in Below[TypeAt(p)], NEW encoding \in 0..N
  PROVE  AddedAt(p, New(p, Table(type, encoding)), type, N)
<1> DEFINE q == New(p, Table(type, encoding))
           u == Added(p.tables, p.table, p.k, type, encoding)
<1>1. p \in PlaceRecords /\ Sound(p.tables, N) /\ p.table \in 1..Len(p.tables)
      /\ p.k \in Kids(p.tables[p.table].type) /\ Len(p.tables) \in Nat
  BY SpotFacts DEF Spot, TypeAt
<1>2. p.tables[p.table].values[p.k] = NULL /\ type \in Below[p.tables[p.table].type]
  BY DEF Entry, TypeAt
<1>3. /\ Sound(u, N) /\ Grows(p.tables, u) /\ Len(u) = Len(p.tables) + 1
      /\ u[Len(p.tables) + 1].type = type /\ u[p.table].values[p.k] = Len(p.tables) + 1
      /\ Elsewhere(p.tables, u, p.table, p.k)
      /\ \A j \in Kids(type) : u[Len(p.tables) + 1].values[j] = NULL
  <2> DEFINE t == p.tables
             n == p.table
             k == p.k
  <2>1. /\ Sound(t, N) /\ n \in 1..Len(t) /\ k \in Kids(t[n].type) /\ t[n].values[k] = NULL
        /\ type \in Below[t[n].type]
    BY <1>1, <1>2
  <2> HIDE DEF t, n, k
  <2>2. AddedWell(t, Added(t, n, k, type, encoding), n, k, type, N)
    BY <2>1, AddedIsSound, Zenon
  <2>3. QED  BY <2>2 DEF t, n, k, AddedWell
<1>4. u \in Seq(TableRecords)
  BY <1>3 DEF Sound
<1>5. q = [p EXCEPT !.tables = u]
  BY <1>1 DEF New, Put, Added, Wrote, PlaceRecords
<1> HIDE DEF u
<1>6. q \in PlaceRecords /\ q.tables = u /\ q.table = p.table /\ q.k = p.k /\ q.status = p.status
  BY <1>1, <1>4, <1>5 DEF PlaceRecords
<1> HIDE DEF q
<1>7. u[p.table].type = p.tables[p.table].type /\ p.table \in 1..Len(u)
  BY <1>1, <1>3 DEF Grows
<1>8. Spot(q, N)
  BY <1>1, <1>3, <1>6, <1>7 DEF Spot, TypeAt
<1>9. Entry(q) = Len(p.tables) + 1
  BY <1>3, <1>6 DEF Entry
<1>10. /\ Entry(q) \in 1..Len(q.tables) /\ q.tables[Entry(q)].type = type
       /\ Len(q.tables) = Len(p.tables) + 1 /\ Elsewhere(p.tables, q.tables, p.table, p.k)
       /\ \A j \in Kids(type) : q.tables[Entry(q)].values[j] = NULL
  BY <1>1, <1>3, <1>6, <1>9
<1>11. Moves(p, q, N)
  BY <1>3, <1>6, <1>8 DEF Moves
<1>12. QED  BY <1>6, <1>9, <1>10, <1>11 DEF AddedAt, q

\* The entries of every table are numbered.
LEMMA KidsNumbers ==
  \A type \in 0..6 : Kids(type) \subseteq Nat
  BY KidsOf, CountsAssumption DEF Byte, Reg

\* A descent ends at the entry asked for of a table of the type asked for.
LEMMA DescendIsSpot ==
  ASSUME NEW N \in Nat, NEW p, Spot(p, N), NEW type \in 1..6, type \in Below[TypeAt(p)],
         NEW k \in Kids(type)
  PROVE  LET q == Descend(p, type, k)
         IN  /\ Moves(p, q, N)
             /\ q.status = NoError => TypeAt(q) = type /\ q.k = k
<1> DEFINE q == Descend(p, type, k)
           r == IF Entry(p) = NULL THEN New(p, Table(type, NULL)) ELSE p
           s == [r EXCEPT !.table = Entry(r), !.k = k]
<1>1. type \in 0..6 /\ NULL \in 0..N /\ k \in Nat
  BY KidsNumbers DEF NULL
<1>2. Moves(p, r, N) /\ Entry(r) \in 1..Len(r.tables) /\ r.status = p.status
  <2>1. CASE Entry(p) = NULL
    <3> DEFINE v == New(p, Table(type, NULL))
    <3>1. AddedAt(p, v, type, N)
      BY <1>1, <2>1, NewIsSpot, Zenon
    <3> HIDE DEF v
    <3>2. r = v
      BY <2>1 DEF v
    <3> HIDE DEF r
    <3>3. QED  BY <3>1, <3>2 DEF AddedAt
  <2>2. CASE Entry(p) # NULL
    BY <2>2, SpotFacts, MovesNowhere
  <2>3. QED  BY <2>1, <2>2
<1>3. q = IF p.status # NoError THEN p
          ELSE IF r.tables[Entry(r)].type # type THEN Conflict(p)
          ELSE s
  BY DEF Descend
<1> HIDE DEF q, r
<1>4. Spot(r, N) /\ Grows(p.tables, r.tables)
  BY <1>2 DEF Moves
<1>5. s \in PlaceRecords /\ s.tables = r.tables /\ s.table = Entry(r) /\ s.k = k
      /\ s.status = r.status
  <2>1. r \in PlaceRecords
    BY <1>4 DEF Spot
  <2>2. Entry(r) \in Nat
    BY <1>2
  <2>3. QED  BY <1>1, <2>1, <2>2 DEF PlaceRecords
<1> HIDE DEF s
<1>6. CASE p.status # NoError
  <2>1. q = p
    BY <1>3, <1>6
  <2>2. QED  BY <1>6, <2>1, MovesNowhere DEF q
<1>7. CASE p.status = NoError /\ r.tables[Entry(r)].type # type
  <2>1. q = Conflict(p)
    BY <1>3, <1>7
  <2>2. Moves(p, q, N) /\ q.status # NoError
    BY <2>1, ConflictIsSpot
  <2>3. QED  BY <2>2 DEF q
<1>8. CASE p.status = NoError /\ r.tables[Entry(r)].type = type
  <2>1. q = s
    BY <1>3, <1>8
  <2>2. Spot(s, N) /\ TypeAt(s) = type
    BY <1>2, <1>4, <1>5, <1>8 DEF Spot, TypeAt
  <2>3. Grows(p.tables, s.tables)
    BY <1>4, <1>5
  <2>4. QED  BY <1>5, <1>8, <2>1, <2>2, <2>3 DEF Moves, q
<1>9. QED  BY <1>6, <1>7, <1>8 DEF q

\* The entry of another value of mod is shared: it leads to what its row leads to,
\* which its table may lead to.
LEMMA ShareIsSpot ==
  ASSUME NEW N \in Nat, NEW p, Spot(p, N), NEW ext \in Kids(TypeAt(p))
  PROVE  LET q == Share(p, ext)
         IN  /\ Moves(p, q, N)
             /\ Entry(p) = NULL => /\ q.status = p.status /\ Len(q.tables) = Len(p.tables)
                                   /\ Elsewhere(p.tables, q.tables, p.table, p.k)
<1> DEFINE first == p.tables[p.table].values[ext]
           q == Put(p, first)
           u == Wrote(p.tables, p.table, p.k, first)
           o == Share(p, ext)
<1>1. CASE Entry(p) \notin {NULL, first}
  BY <1>1, ConflictIsSpot DEF Share
<1>2. CASE Entry(p) \in {NULL, first}
  <2>1. p \in PlaceRecords /\ Sound(p.tables, N) /\ p.table \in 1..Len(p.tables)
        /\ p.k \in Kids(p.tables[p.table].type) /\ ext \in Kids(p.tables[p.table].type)
        /\ Len(p.tables) \in Nat
    BY SpotFacts DEF Spot, TypeAt
  <2>2. p.tables[p.table].values[p.k] \in {NULL, p.tables[p.table].values[ext]}
    BY <1>2 DEF Entry
  <2>3. /\ Sound(u, N) /\ Grows(p.tables, u) /\ Len(u) = Len(p.tables)
        /\ Elsewhere(p.tables, u, p.table, p.k)
    <3> DEFINE t == p.tables
               n == p.table
               k == p.k
               GoodFor(v) == Sound(v, N) /\ Grows(t, v) /\ Len(v) = Len(t) /\ Elsewhere(t, v, n, k)
    <3>1. /\ Sound(t, N) /\ n \in 1..Len(t) /\ k \in Kids(t[n].type) /\ ext \in Kids(t[n].type)
          /\ t[n].values[k] \in {NULL, t[n].values[ext]}
      BY <2>1, <2>2
    <3> HIDE DEF t, n, k, first, q
    <3>2. GoodFor(Wrote(t, n, k, t[n].values[ext]))
      BY <3>1, SharedIsSound, Zenon
    <3>3. QED  BY <3>2 DEF t, n, k, first
  <2>4. q = [p EXCEPT !.tables = u]
    BY <2>1 DEF Put, Wrote, PlaceRecords
  <2>5. u \in Seq(TableRecords)
    BY <2>3 DEF Sound
  <2>6. o = q
    BY <1>2 DEF Share
  <2> HIDE DEF u, first, o
  <2>7. q \in PlaceRecords /\ q.tables = u /\ q.table = p.table /\ q.k = p.k /\ q.status = p.status
    BY <2>1, <2>4, <2>5 DEF PlaceRecords
  <2> HIDE DEF q
  <2>8. u[p.table].type = p.tables[p.table].type /\ p.table \in 1..Len(u)
    <3>1. Len(u) \in Nat
      BY <2>5
    <3>2. QED  BY <2>1, <2>3, <3>1 DEF Grows
  <2>9. Spot(q, N)
    BY <2>1, <2>3, <2>7, <2>8 DEF Spot, TypeAt
  <2>10. /\ Moves(p, o, N) /\ o.status = p.status /\ Len(o.tables) = Len(p.tables)
         /\ Elsewhere(p.tables, o.tables, p.table, p.k)
    BY <2>3, <2>6, <2>7, <2>9 DEF Moves
  <2>11. QED  BY <2>10 DEF o
<1>3. QED  BY <1>1, <1>2

-----------------------------------------------------------------------------
(* The opcode string of an encoding *)

ParseErrors ==
  {"invalid opcode specifier", "too many additional opcode bytes", "too many opcode bytes"}

\* The errors of the opcode string are errors.
LEMMA ParseErrorsAreErrors == NoError \notin ParseErrors
  BY Zenon DEF NoError, ParseErrors

\* What the parser reads and makes.
Tokens == [kind : Kinds, n : Nat]
OpcodeRecords ==
  [opcode : Seq(Byte), opcode2 : Byte \cup {NoByte}, op66 : 0..2, fx : 0..3,
   regop : Reg \cup {RegR, NoReg}, mod : 0..3 \cup {ModMem, NoMod}, rm : Reg \cup {NoReg},
   did : BOOLEAN, status : {NoError} \cup ParseErrors]

\* What a token has for a number by its kind.
GoodToken(t) ==
  /\ t \in Tokens
  /\ t.kind \in {"hex", "&"} => t.n \in Byte
  /\ t.kind = "/" => t.n \in Reg \cup {RegR}
  /\ t.kind = "rm" => t.n \in Reg
  /\ t.kind = "mod" => t.n \in 0..3 \cup {ModMem}
  /\ t.kind = "op66" => t.n \in 0..2
  /\ t.kind = "fx" => t.n \in 0..3

\* An encoding that keeps to ScriptsAssumption, token by token.
GoodEncoding(e) ==
  /\ e \in Encodings /\ \A i \in 1..Len(e.tokens) : GoodToken(e.tokens[i])
  /\ \E i \in 1..Len(e.tokens) : e.tokens[i].kind = "hex" /\ e.tokens[i].n # Escape
  /\ "reg_base" \in e.tags =>
       \A i \in 1..Len(e.tokens) :
         /\ e.tokens[i].kind # "&"
         /\ e.tokens[i].kind = "hex" /\ e.tokens[i].n # Escape =>
              e.tokens[i].n + RegCount <= ByteCount

\* The encodings of a script that keeps to what x86iset.ax keeps to are good.
LEMMA EncodingsAreGood ==
  ASSUME NEW s \in Scripts, NEW m \in DOMAIN s
  PROVE  GoodEncoding(s[m])
<1> DEFINE e == s[m]
<1>1. s \in Seq(Encodings)
  BY ScriptsAssumption
<1>2. e \in Encodings
  BY <1>1
<1>3. /\ Numbers(e, "hex") \cup Numbers(e, "&") \subseteq Byte
      /\ Numbers(e, "/") \subseteq Reg \cup {RegR} /\ Numbers(e, "rm") \subseteq Reg
      /\ Numbers(e, "mod") \subseteq 0..3 \cup {ModMem}
      /\ Numbers(e, "op66") \subseteq 0..2 /\ Numbers(e, "fx") \subseteq 0..3
      /\ Numbers(e, "hex") \ {Escape} # {}
      /\ "reg_base" \in e.tags =>
           /\ Numbers(e, "&") = {}
           /\ \A b \in Numbers(e, "hex") \ {Escape} : b + RegCount <= ByteCount
  BY ScriptsAssumption
<1> HIDE DEF e
<1>4. e.tokens \in Seq(Tokens) /\ DOMAIN e.tokens = 1..Len(e.tokens)
  <2>1. e.tokens \in Seq(Tokens)
    BY <1>2 DEF Encodings, Tokens
  <2>2. QED  BY <2>1
<1>5. \A k \in Kinds, i \in 1..Len(e.tokens) :
        e.tokens[i].kind = k => e.tokens[i].n \in Numbers(e, k)
  BY <1>4 DEF Numbers
<1>6. \A i \in 1..Len(e.tokens) : GoodToken(e.tokens[i])
  <2>1. ASSUME NEW i \in 1..Len(e.tokens)
        PROVE  GoodToken(e.tokens[i])
    <3> DEFINE t == e.tokens[i]
    <3>1. t \in Tokens
      BY <1>4
    <3>2. \A k \in Kinds : t.kind = k => t.n \in Numbers(e, k)
      BY <1>5
    <3> HIDE DEF t
    <3>3. QED  BY <1>3, <3>1, <3>2 DEF GoodToken, Kinds, t
  <2>2. QED  BY <2>1
<1>7. \E i \in 1..Len(e.tokens) : e.tokens[i].kind = "hex" /\ e.tokens[i].n # Escape
  <2>1. PICK b \in Numbers(e, "hex") : b # Escape
    BY <1>3
  <2>2. QED  BY <1>4, <2>1 DEF Numbers
<1>8. ASSUME "reg_base" \in e.tags, NEW i \in 1..Len(e.tokens)
      PROVE  /\ e.tokens[i].kind # "&"
             /\ e.tokens[i].kind = "hex" /\ e.tokens[i].n # Escape =>
                  e.tokens[i].n + RegCount <= ByteCount
  <2>1. "hex" \in Kinds /\ "&" \in Kinds
    BY DEF Kinds
  <2>2. QED  BY <1>3, <1>5, <1>8, <2>1
<1>9. QED  BY <1>2, <1>6, <1>7, <1>8 DEF GoodEncoding, e

\* A token keeps to what an opcode is.
LEMMA TokenParsed ==
  ASSUME NEW r \in OpcodeRecords, NEW t, GoodToken(t)
  PROVE  /\ ParseToken(r, t) \in OpcodeRecords
         /\ r.status # NoError => ParseToken(r, t) = r
         /\ ParseToken(r, t).status = NoError =>
              LET s == ParseToken(r, t)
              IN  /\ r.did => t.kind # "hex" /\ s.did /\ s.opcode = r.opcode
                  /\ t.kind = "hex" /\ t.n # Escape =>
                       s.did /\ s.opcode = Append(r.opcode, t.n)
                  /\ s.did /\ ~r.did => t.kind = "hex" /\ t.n # Escape
                  /\ t.kind # "&" => s.opcode2 = r.opcode2
<1>1. CASE r.status # NoError
  BY <1>1 DEF ParseToken
<1>2. CASE r.status = NoError
  <2>0. /\ r.opcode \in Seq(Byte) /\ t.kind \in Kinds
        /\ \A b \in Byte : Append(r.opcode, b) \in Seq(Byte)
    BY DEF OpcodeRecords, GoodToken, Tokens
  <2>1. CASE t.kind = "other"
    BY <1>2, <2>1, ParseErrorsAreErrors DEF ParseToken, OpcodeRecords, ParseErrors
  <2>2. CASE t.kind = "&"
    <3>1. CASE r.opcode2 # NoByte
      <4>1. ParseToken(r, t) = [r EXCEPT !.status = "too many additional opcode bytes"]
        BY <1>2, <2>2, <3>1 DEF ParseToken
      <4>2. QED  BY <1>2, <2>2, <4>1, ParseErrorsAreErrors DEF OpcodeRecords, ParseErrors
    <3>2. CASE r.opcode2 = NoByte
      <4>1. ParseToken(r, t) = [r EXCEPT !.opcode2 = t.n]
        BY <1>2, <2>2, <3>2 DEF ParseToken
      <4>2. QED  BY <1>2, <2>2, <4>1, ParseErrorsAreErrors DEF OpcodeRecords, GoodToken
    <3>3. QED  BY <3>1, <3>2
  <2>3. CASE t.kind = "hex"
    <3> DEFINE o == Append(r.opcode, t.n)
    <3>1. CASE r.did
      <4>1. ParseToken(r, t) = [r EXCEPT !.status = "too many opcode bytes"]
        BY <1>2, <2>3, <3>1 DEF ParseToken
      <4>2. QED  BY <1>2, <2>3, <4>1, ParseErrorsAreErrors DEF OpcodeRecords, ParseErrors
    <3>2. o \in Seq(Byte)
      BY <2>0, <2>3 DEF GoodToken
    <3>3. CASE ~r.did /\ t.n = Escape
      <4>1. ParseToken(r, t) = [r EXCEPT !.opcode = o]
        BY <1>2, <2>3, <3>3 DEF ParseToken
      <4> HIDE DEF o
      <4>2. QED  BY <1>2, <2>3, <3>2, <3>3, <4>1 DEF OpcodeRecords
    <3>4. CASE ~r.did /\ t.n # Escape
      <4>1. ParseToken(r, t) = [r EXCEPT !.opcode = o, !.did = TRUE]
        BY <1>2, <2>3, <3>4 DEF ParseToken
      <4>2. o = Append(r.opcode, t.n)
        OBVIOUS
      <4> HIDE DEF o
      <4>3. QED  BY <1>2, <2>3, <3>2, <3>4, <4>1, <4>2 DEF OpcodeRecords
    <3>5. QED  BY <3>1, <3>3, <3>4
  <2>4. CASE t.kind = "/"
    BY <1>2, <2>4 DEF ParseToken, OpcodeRecords, GoodToken
  <2>5. CASE t.kind = "mod"
    BY <1>2, <2>5 DEF ParseToken, OpcodeRecords, GoodToken
  <2>6. CASE t.kind = "rm"
    BY <1>2, <2>6 DEF ParseToken, OpcodeRecords, GoodToken
  <2>7. CASE t.kind = "op66"
    BY <1>2, <2>7 DEF ParseToken, OpcodeRecords, GoodToken
  <2>8. CASE t.kind = "fx"
    BY <1>2, <2>8 DEF ParseToken, OpcodeRecords, GoodToken
  <2>9. QED  BY <2>0, <2>1, <2>2, <2>3, <2>4, <2>5, <2>6, <2>7, <2>8 DEF Kinds
<1>3. QED  BY <1>1, <1>2

\* What is known after i tokens.
ParsedTo(e, r, i) ==
  /\ r \in OpcodeRecords
  /\ r.status = NoError =>
       /\ r.did => /\ Len(r.opcode) > 0
                   /\ \E j \in 1..i : /\ e.tokens[j].kind = "hex" /\ e.tokens[j].n # Escape
                                      /\ r.opcode[Len(r.opcode)] = e.tokens[j].n
       /\ (\E j \in 1..i : e.tokens[j].kind = "hex" /\ e.tokens[j].n # Escape) => r.did
       /\ (\A j \in 1..i : e.tokens[j].kind # "&") => r.opcode2 = NoByte

\* Parsing one more token keeps what is known of those before it.
LEMMA ParseSteps ==
  ASSUME NEW e, GoodEncoding(e), NEW i \in 1..Len(e.tokens), NEW r, ParsedTo(e, r, i - 1)
  PROVE  ParsedTo(e, ParseToken(r, e.tokens[i]), i)
<1> DEFINE t == e.tokens[i]
           s == ParseToken(r, t)
<1>1. r \in OpcodeRecords /\ GoodToken(t) /\ i \in Nat /\ Len(e.tokens) \in Nat
  <2>1. e.tokens \in Seq(Tokens)
    BY DEF GoodEncoding, Encodings, Tokens
  <2>2. QED  BY <2>1 DEF ParsedTo, GoodEncoding
<1>2. /\ s \in OpcodeRecords
      /\ r.status # NoError => s = r
      /\ s.status = NoError =>
           /\ r.did => t.kind # "hex" /\ s.did /\ s.opcode = r.opcode
           /\ t.kind = "hex" /\ t.n # Escape => s.did /\ s.opcode = Append(r.opcode, t.n)
           /\ s.did /\ ~r.did => t.kind = "hex" /\ t.n # Escape
           /\ t.kind # "&" => s.opcode2 = r.opcode2
  BY <1>1, TokenParsed
<1> HIDE DEF s
<1>3. ASSUME s.status = NoError
      PROVE  /\ s.did => /\ Len(s.opcode) > 0
                         /\ \E j \in 1..i : /\ e.tokens[j].kind = "hex" /\ e.tokens[j].n # Escape
                                            /\ s.opcode[Len(s.opcode)] = e.tokens[j].n
             /\ (\E j \in 1..i : e.tokens[j].kind = "hex" /\ e.tokens[j].n # Escape) => s.did
             /\ (\A j \in 1..i : e.tokens[j].kind # "&") => s.opcode2 = NoByte
  <2>1. r.status = NoError
    BY <1>2, <1>3
  <2>2. \A j \in 1..i : j \in 1..(i - 1) \/ j = i
    BY <1>1
  <2>3. \A j \in 1..(i - 1) : j \in 1..i
    BY <1>1
  <2>4. i \in 1..i
    BY <1>1
  <2>5. ASSUME s.did
        PROVE  /\ Len(s.opcode) > 0
               /\ \E j \in 1..i : /\ e.tokens[j].kind = "hex" /\ e.tokens[j].n # Escape
                                  /\ s.opcode[Len(s.opcode)] = e.tokens[j].n
    <3>1. CASE r.did
      <4>1. s.opcode = r.opcode
        BY <1>2, <1>3, <3>1
      <4>2. QED  BY <2>1, <2>3, <3>1, <4>1 DEF ParsedTo
    <3>2. CASE ~r.did
      <4>1. t.kind = "hex" /\ t.n # Escape /\ s.opcode = Append(r.opcode, t.n)
        BY <1>2, <1>3, <2>5, <3>2
      <4>2. r.opcode \in Seq(Byte)
        BY <1>1 DEF OpcodeRecords
      <4>3. Len(s.opcode) > 0 /\ s.opcode[Len(s.opcode)] = t.n
        BY <4>1, <4>2
      <4>4. QED  BY <2>4, <4>1, <4>3
    <3>3. QED  BY <3>1, <3>2
  <2>6. ASSUME \E j \in 1..i : e.tokens[j].kind = "hex" /\ e.tokens[j].n # Escape
        PROVE  s.did
    <3>1. CASE t.kind = "hex" /\ t.n # Escape
      BY <1>2, <1>3, <3>1
    <3>2. CASE ~(t.kind = "hex" /\ t.n # Escape)
      <4>1. \E j \in 1..(i - 1) : e.tokens[j].kind = "hex" /\ e.tokens[j].n # Escape
        BY <2>2, <2>6, <3>2
      <4>2. r.did
        BY <2>1, <4>1 DEF ParsedTo
      <4>3. QED  BY <1>2, <1>3, <4>2
    <3>3. QED  BY <3>1, <3>2
  <2>7. ASSUME \A j \in 1..i : e.tokens[j].kind # "&"
        PROVE  s.opcode2 = NoByte
    <3>1. t.kind # "&" /\ r.opcode2 = NoByte
      BY <2>1, <2>3, <2>4, <2>7 DEF ParsedTo
    <3>2. QED  BY <1>2, <1>3, <3>1
  <2>8. QED  BY <2>5, <2>6, <2>7
<1>4. QED  BY <1>2, <1>3 DEF ParsedTo, s

\* Parsing goes from each token to the next.
ParseRun(e, f) ==
  /\ f[0] = NoOpcode /\ \A i \in 1..Len(e.tokens) : f[i] = ParseToken(f[i - 1], e.tokens[i])
  /\ Parse(e.tokens) = f[Len(e.tokens)]
\* There is such a row of opcodes.
LEMMA ParseRuns ==
  ASSUME NEW e, GoodEncoding(e)
  PROVE  \E f : ParseRun(e, f)
<1> DEFINE tokens == e.tokens
           hi == Len(tokens)
           X == OpcodeRecords
           base == NoOpcode
           F == [n \in 1..hi |-> [r \in X |-> ParseToken(r, tokens[n])]]
           parsed[i \in 0..hi] ==
             IF i = 0 THEN NoOpcode ELSE ParseToken(parsed[i - 1], tokens[i])
<1>1. hi \in Nat /\ 0 <= hi /\ \A n \in 1..hi : GoodToken(tokens[n])
  <2>1. tokens \in Seq(Tokens)
    BY DEF GoodEncoding, Encodings, Tokens
  <2>2. QED  BY <2>1 DEF GoodEncoding
<1>2. base \in X
  BY DEF NoOpcode, OpcodeRecords, NoByte, NoReg, NoMod
<1>3. Parse(tokens) = parsed[hi]
  BY DEF Parse
<1>4. parsed = CHOOSE g : g = [i \in 0..hi |-> IF i = 0 THEN NoOpcode
                                              ELSE ParseToken(g[i - 1], tokens[i])]
  OBVIOUS
<1> HIDE DEF tokens, hi, X, base, parsed
<1>5. \E f \in [0..hi -> X] : Goes(f, 0, hi, base, F)
  <2>1. \A n \in 1..hi : [r \in X |-> ParseToken(r, tokens[n])] \in [X -> X]
    <3>1. ASSUME NEW n \in 1..hi, NEW r \in X
          PROVE  ParseToken(r, tokens[n]) \in X
      BY <1>1, TokenParsed DEF X
    <3>2. QED  BY <3>1
  <2>2. F \in [(0 + 1)..hi -> [X -> X]]
    BY <2>1
  <2>3. 0 \in Int /\ hi \in Int
    BY <1>1
  <2> HIDE DEF F
  <2>4. QED  BY <1>1, <1>2, <2>2, <2>3, Recursion
<1>6. PICK f \in [0..hi -> X] : Goes(f, 0, hi, base, F)
  BY <1>5
<1>7. f = [i \in 0..hi |-> IF i = 0 THEN NoOpcode ELSE ParseToken(f[i - 1], tokens[i])]
  <2>1. ASSUME NEW i \in 0..hi, i # 0
        PROVE  f[i] = ParseToken(f[i - 1], tokens[i])
    <3>1. i \in 1..hi /\ i \in (0 + 1)..hi /\ i - 1 \in 0..hi
      BY <1>1, <2>1
    <3>2. F[i][f[i - 1]] = ParseToken(f[i - 1], tokens[i])
      BY <3>1
    <3> HIDE DEF F
    <3>3. f[i] = F[i][f[i - 1]]
      BY <1>6, <3>1 DEF Goes
    <3>4. QED  BY <3>2, <3>3
  <2>2. f[0] = NoOpcode
    BY <1>6 DEF Goes, base
  <2> HIDE DEF F
  <2>3. QED  BY <2>1, <2>2
<1>8. parsed = [i \in 0..hi |-> IF i = 0 THEN NoOpcode ELSE ParseToken(parsed[i - 1], tokens[i])]
  BY <1>4, <1>7
<1>9. ParseRun(e, parsed)
  <2>1. 0 \in 0..hi /\ \A i \in 1..hi : i \in 0..hi /\ i # 0
    BY <1>1
  <2>2. parsed[0] = NoOpcode /\ \A i \in 1..hi : parsed[i] = ParseToken(parsed[i - 1], tokens[i])
    BY <1>8, <2>1
  <2>3. QED  BY <1>3, <2>2 DEF ParseRun, hi, tokens
<1>10. QED  BY <1>9

\* The opcode of a good encoding.
LEMMA OpcodeParsed ==
  ASSUME NEW e, GoodEncoding(e)
  PROVE  ParsedTo(e, Parse(e.tokens), Len(e.tokens))
<1> DEFINE hi == Len(e.tokens)
<1>1. hi \in Nat
  <2>1. e.tokens \in Seq(Tokens)
    BY DEF GoodEncoding, Encodings, Tokens
  <2>2. QED  BY <2>1
<1>2. PICK f : ParseRun(e, f)
  BY ParseRuns
<1> DEFINE T == {i \in 0..hi : ParsedTo(e, f[i], i)}
<1>3. 0 \in T
  <2>1. NoOpcode.opcode2 = NoByte /\ NoOpcode.did = FALSE
    BY DEF NoOpcode
  <2>2. NoOpcode \in OpcodeRecords
    BY DEF NoOpcode, OpcodeRecords, NoByte, NoReg, NoMod
  <2>3. ParsedTo(e, NoOpcode, 0)
    BY <2>1, <2>2 DEF ParsedTo
  <2>4. QED  BY <1>1, <1>2, <2>3 DEF ParseRun
<1>4. ASSUME NEW n \in 0..(hi - 1), n \in T
      PROVE  n + 1 \in T
  <2> DEFINE m == n + 1
  <2>1. m \in 1..hi /\ m \in 0..hi /\ m - 1 = n
    BY <1>1
  <2>2. ParsedTo(e, f[n], m - 1)
    BY <1>4, <2>1
  <2>3. f[m] = ParseToken(f[m - 1], e.tokens[m])
    BY <1>2, <2>1 DEF ParseRun
  <2> HIDE DEF m
  <2>4. ParsedTo(e, ParseToken(f[n], e.tokens[m]), m)
    BY <2>1, <2>2, ParseSteps
  <2>5. ParsedTo(e, f[m], m)
    BY <2>1, <2>3, <2>4
  <2>6. QED  BY <2>1, <2>5 DEF m
<1>5. 0 \in Int /\ hi \in Int /\ hi \in 0..hi
  BY <1>1
<1> HIDE DEF T
<1>6. 0..hi \subseteq T
  BY <1>3, <1>4, <1>5, CountUp
<1>7. QED  BY <1>2, <1>5, <1>6 DEF T, ParseRun, hi

\* The opcode bytes of a good encoding; a row of registers ends in time.
LEMMA BytesFound ==
  ASSUME NEW e, GoodEncoding(e), NEW r, r = Parse(e.tokens), r.status = NoError
  PROVE  /\ r \in OpcodeRecords /\ OpcodeBytes(r) \in Seq(Byte) /\ Len(OpcodeBytes(r)) >= 1
         /\ "reg_base" \in e.tags =>
              OpcodeBytes(r)[Len(OpcodeBytes(r))] + RegCount <= ByteCount
<1> DEFINE m == Len(e.tokens)
<1>1. ParsedTo(e, r, m)
  BY OpcodeParsed
<1>2. r \in OpcodeRecords /\ r.opcode \in Seq(Byte) /\ r.opcode2 \in Byte \cup {NoByte}
  BY <1>1 DEF ParsedTo, OpcodeRecords
<1>3. Len(r.opcode) > 0
      /\ \E j \in 1..m : /\ e.tokens[j].kind = "hex" /\ e.tokens[j].n # Escape
                         /\ r.opcode[Len(r.opcode)] = e.tokens[j].n
  BY <1>1 DEF ParsedTo, GoodEncoding
<1>4. OpcodeBytes(r) \in Seq(Byte) /\ Len(OpcodeBytes(r)) >= 1
  <2>1. CASE r.opcode2 = NoByte
    <3>1. OpcodeBytes(r) = r.opcode
      BY <1>2, <2>1 DEF OpcodeBytes
    <3>2. QED  BY <1>2, <1>3, <3>1
  <2>2. CASE r.opcode2 # NoByte
    <3> DEFINE o == r.opcode
               b == r.opcode2
    <3>1. o \in Seq(Byte) /\ b \in Byte /\ Len(o) > 0
      BY <1>2, <1>3, <2>2
    <3>2. OpcodeBytes(r) = o \o <<b>>
      BY <2>2 DEF OpcodeBytes
    <3> HIDE DEF o, b
    <3>3. o \o <<b>> \in Seq(Byte) /\ Len(o \o <<b>>) >= 1
      BY <3>1
    <3>4. QED  BY <3>2, <3>3
  <2>3. QED  BY <2>1, <2>2
<1>5. ASSUME "reg_base" \in e.tags
      PROVE  OpcodeBytes(r)[Len(OpcodeBytes(r))] + RegCount <= ByteCount
  <2>1. r.opcode2 = NoByte
    BY <1>1, <1>5 DEF ParsedTo, GoodEncoding
  <2>2. OpcodeBytes(r) = r.opcode
    BY <1>2, <2>1 DEF OpcodeBytes
  <2>3. PICK j \in 1..m : /\ e.tokens[j].kind = "hex" /\ e.tokens[j].n # Escape
                          /\ r.opcode[Len(r.opcode)] = e.tokens[j].n
    BY <1>3
  <2>4. e.tokens[j].n + RegCount <= ByteCount
    BY <1>5, <2>3 DEF GoodEncoding
  <2>5. QED  BY <2>2, <2>3, <2>4
<1>6. QED  BY <1>2, <1>4, <1>5

\* Where an opcode leads: to a byte of a table of bytes.
AtBytes(p, N) ==
  /\ Spot(p, N) /\ Grows(tables, p.tables)
  /\ p.status = NoError => TypeAt(p) = 1

\* One more opcode byte leads from a full table to entry c of a full table.
LEMMA ByteStep ==
  ASSUME NEW N \in Nat, Len(tables) \in Nat, NEW p, AtBytes(p, N), NEW c \in Byte
  PROVE  AtBytes(StepByte(p, c), N) /\ (StepByte(p, c).status = NoError => StepByte(p, c).k = c)
<1>1. CASE p.status # NoError
  <2>1. StepByte(p, c) = p
    BY <1>1 DEF StepByte, Descend
  <2>2. QED  BY <1>1, <2>1
<1>2. CASE p.status = NoError
  <2> DEFINE q == Descend(p, 1, c)
  <2>1. Spot(p, N) /\ TypeAt(p) = 1 /\ c \in Kids(1) /\ 1 \in Below[TypeAt(p)] /\ 1 \in 1..6
    BY <1>2, KidsOf, BelowTypes DEF AtBytes
  <2>2. Moves(p, q, N) /\ (q.status = NoError => TypeAt(q) = 1 /\ q.k = c)
    BY <2>1, DescendIsSpot
  <2> HIDE DEF q
  <2>3. Grows(tables, q.tables)
    <3>1. Len(p.tables) \in Nat /\ Len(q.tables) \in Nat
      BY <2>1, <2>2, SpotFacts DEF Moves
    <3>2. QED  BY <2>2, <3>1, GrowsOn DEF AtBytes, Moves
  <2>4. QED  BY <2>2, <2>3 DEF AtBytes, Moves, StepByte, q
<1>3. QED  BY <1>1, <1>2

\* So they lead from each byte to the next, and to the entry of the last one in
\* a full table.
PlaceRun(bytes, N, f) ==
  /\ f[1] = Place(Root, bytes[1])
  /\ \A i \in 2..Len(bytes) : f[i] = StepByte(f[i - 1], bytes[i])
  /\ PlaceOf(bytes) = f[Len(bytes)]
  /\ \A i \in 1..Len(bytes) :
       AtBytes(f[i], N) /\ (f[i].status = NoError => f[i].k = bytes[i])
\* There is such a row of places.
LEMMA PlaceRuns ==
  ASSUME NEW N \in Nat, Sound(tables, N), NEW bytes \in Seq(Byte), Len(bytes) >= 1
  PROVE  \E f : PlaceRun(bytes, N, f)
<1> DEFINE hi == Len(bytes)
           X == {p \in PlaceRecords : AtBytes(p, N)}
           base == Place(Root, bytes[1])
           F == [n \in 2..hi |-> [p \in X |-> StepByte(p, bytes[n])]]
           place[i \in 1..hi] ==
             IF i = 1 THEN Place(Root, bytes[1]) ELSE StepByte(place[i - 1], bytes[i])
<1>1. hi \in Nat /\ hi \in Int /\ 1 <= hi /\ \A n \in 1..hi : bytes[n] \in Byte
  OBVIOUS
<1>2. Len(tables) \in Nat /\ tables \in Seq(TableRecords) /\ Len(tables) >= 1
      /\ tables[Root].type = 1 /\ Root \in 1..Len(tables)
  BY DEF Sound, Root
<1>3. base \in X /\ base.k = bytes[1]
  <2>1. bytes[1] \in Byte /\ bytes[1] \in Kids(1) /\ bytes[1] \in Nat
    BY <1>1, KidsOf, KidsNumbers
  <2>2. /\ base.tables = tables /\ base.table = Root /\ base.k = bytes[1]
        /\ base.status = NoError /\ base \in PlaceRecords
    BY <1>2, <2>1 DEF Place, PlaceRecords, Root
  <2> HIDE DEF base
  <2>3. TypeAt(base) = 1
    BY <1>2, <2>2 DEF TypeAt
  <2>4. Spot(base, N)
    BY <1>2, <2>1, <2>2, <2>3 DEF Spot
  <2>5. Grows(tables, base.tables)
    BY <1>2, <2>2 DEF Grows
  <2>6. QED  BY <2>2, <2>3, <2>4, <2>5 DEF AtBytes
<1>4. PlaceOf(bytes) = place[hi]
  BY DEF PlaceOf
<1>5. place = CHOOSE g : g = [i \in 1..hi |-> IF i = 1 THEN Place(Root, bytes[1])
                                             ELSE StepByte(g[i - 1], bytes[i])]
  OBVIOUS
<1>6. \A p \in X, c \in Byte :
        StepByte(p, c) \in X /\ (StepByte(p, c).status = NoError => StepByte(p, c).k = c)
  <2>1. ASSUME NEW p \in X, NEW c \in Byte
        PROVE  StepByte(p, c) \in X /\ (StepByte(p, c).status = NoError => StepByte(p, c).k = c)
    <3>1. AtBytes(StepByte(p, c), N) /\ (StepByte(p, c).status = NoError => StepByte(p, c).k = c)
      BY <1>2, ByteStep
    <3>2. StepByte(p, c) \in PlaceRecords
      BY <3>1 DEF AtBytes, Spot
    <3>3. QED  BY <3>1, <3>2
  <2>2. QED  BY <2>1
<1>7. PlaceOf(bytes) \in X => AtBytes(PlaceOf(bytes), N)
  OBVIOUS
<1> HIDE DEF hi, X, base, place
<1>8. \E f \in [1..hi -> X] : Goes(f, 1, hi, base, F)
  <2>1. \A n \in 2..hi : [p \in X |-> StepByte(p, bytes[n])] \in [X -> X]
    <3>1. ASSUME NEW n \in 2..hi, NEW p \in X
          PROVE  StepByte(p, bytes[n]) \in X
      <4>1. bytes[n] \in Byte
        BY <1>1
      <4>2. QED  BY <1>6, <4>1
    <3>2. QED  BY <3>1
  <2>2. F \in [(1 + 1)..hi -> [X -> X]] /\ 1 \in Int
    BY <2>1
  <2> HIDE DEF F
  <2>3. QED  BY <1>1, <1>3, <2>2, Recursion
<1>9. PICK f \in [1..hi -> X] : Goes(f, 1, hi, base, F)
  BY <1>8
<1>10. f = [i \in 1..hi |-> IF i = 1 THEN Place(Root, bytes[1]) ELSE StepByte(f[i - 1], bytes[i])]
  <2>1. ASSUME NEW i \in 1..hi, i # 1
        PROVE  f[i] = StepByte(f[i - 1], bytes[i])
    <3>1. i \in 2..hi /\ i \in (1 + 1)..hi /\ i - 1 \in 1..hi
      BY <1>1, <2>1
    <3>2. F[i][f[i - 1]] = StepByte(f[i - 1], bytes[i])
      BY <3>1
    <3> HIDE DEF F
    <3>3. f[i] = F[i][f[i - 1]]
      BY <1>9, <3>1 DEF Goes
    <3>4. QED  BY <3>2, <3>3
  <2>2. f[1] = Place(Root, bytes[1])
    BY <1>9 DEF Goes, base
  <2> HIDE DEF F
  <2>3. QED  BY <2>1, <2>2
<1>11. place = [i \in 1..hi |-> IF i = 1 THEN Place(Root, bytes[1])
                                ELSE StepByte(place[i - 1], bytes[i])]
  BY <1>5, <1>10
<1>12. \A i \in 1..hi : place[i] \in X
  <2>1. place[1] \in X
    BY <1>1, <1>3, <1>11 DEF base
  <2>2. ASSUME NEW n \in (1 + 1)..hi, place[n - 1] \in X
        PROVE  place[n] \in X
    <3>1. n \in 1..hi /\ n # 1
      BY <1>1
    <3>2. place[n] = StepByte(place[n - 1], bytes[n])
      BY <1>11, <3>1
    <3>3. QED  BY <1>1, <1>6, <2>2, <3>1, <3>2
  <2>3. 1 \in Int
    OBVIOUS
  <2>4. QED  BY <1>1, <2>1, <2>2, <2>3, Stays, Zenon
<1>13. ASSUME NEW i \in 1..hi
       PROVE  AtBytes(place[i], N) /\ (place[i].status = NoError => place[i].k = bytes[i])
  <2>1. AtBytes(place[i], N)
    BY <1>12 DEF X
  <2>2. place[i].status = NoError => place[i].k = bytes[i]
    <3>1. CASE i = 1
      BY <1>1, <1>3, <1>11, <3>1 DEF base
    <3>2. CASE i # 1
      <4>1. i - 1 \in 1..hi
        BY <1>1, <3>2
      <4>2. place[i] = StepByte(place[i - 1], bytes[i])
        BY <1>11, <3>2
      <4>3. QED  BY <1>1, <1>6, <1>12, <4>1, <4>2
    <3>3. QED  BY <3>1, <3>2
  <2>3. QED  BY <2>1, <2>2
<1>14. PlaceRun(bytes, N, place)
  <2>1. 1 \in 1..hi /\ \A i \in 2..hi : i \in 1..hi /\ i # 1
    BY <1>1
  <2>2. /\ place[1] = Place(Root, bytes[1])
        /\ \A i \in 2..hi : place[i] = StepByte(place[i - 1], bytes[i])
    BY <1>11, <2>1
  <2>3. QED  BY <1>4, <1>13, <2>2 DEF PlaceRun, hi
<1>15. QED  BY <1>14

\* The place of a string of opcode bytes is an entry for the last one.
LEMMA PlaceFound ==
  ASSUME NEW N \in Nat, Sound(tables, N), NEW bytes \in Seq(Byte), Len(bytes) >= 1
  PROVE  /\ AtBytes(PlaceOf(bytes), N)
         /\ PlaceOf(bytes).status = NoError => PlaceOf(bytes).k = bytes[Len(bytes)]
<1>1. PICK f : PlaceRun(bytes, N, f)
  BY PlaceRuns
<1>2. Len(bytes) \in 1..Len(bytes)
  OBVIOUS
<1>3. QED  BY <1>1, <1>2 DEF PlaceRun

-----------------------------------------------------------------------------
(* The order of the instructions *)

\* A set of numbers has a least one.
LEMMA LeastNumber ==
  ASSUME NEW S \in SUBSET Nat, S # {}
  PROVE  \E m \in S : \A k \in S : m <= k
<1> SUFFICES ASSUME \A m \in S : \E k \in S : ~(m <= k)
             PROVE  FALSE
  OBVIOUS
<1>1. PICK s \in S : TRUE
  OBVIOUS
<1> DEFINE T == {k \in 0..s : \A i \in S : i > k}
<1>2. 0 \in T
  <2>1. 0 \notin S
    OBVIOUS
  <2>2. \A i \in S : i > 0
    BY <2>1
  <2>3. QED  BY <2>2
<1>3. ASSUME NEW n \in 0..(s - 1), n \in T
      PROVE  n + 1 \in T
  <2>1. \A i \in S : i > n /\ i \in Nat
    BY <1>3
  <2>2. n + 1 \notin S
    BY <2>1
  <2>3. \A i \in S : i > n + 1
    BY <2>1, <2>2
  <2>4. n + 1 \in 0..s
    OBVIOUS
  <2>5. QED  BY <2>3, <2>4
<1>4. s \in T
  <2>1. s \in Int /\ 0 \in Int /\ s \in 0..s
    OBVIOUS
  <2> HIDE DEF T
  <2>2. 0..s \subseteq T
    BY <1>2, <1>3, <2>1, CountUp
  <2>3. QED  BY <2>1, <2>2
<1>5. QED  BY <1>4

Indices == 1..Len(script)
Earlier(j) == {i \in Indices : Before(i, j)}

\* Before orders the encodings,
LEMMA BeforeOrders ==
  ASSUME script \in Seq(Encodings), NEW i \in Indices, NEW j \in Indices, NEW k \in Indices
  PROVE  /\ ~Before(i, i) /\ (i # j => Before(i, j) \/ Before(j, i))
         /\ Before(i, j) /\ Before(j, k) => Before(i, k)
<1>1. script[i].insn \in Nat /\ script[j].insn \in Nat /\ script[k].insn \in Nat
  <2>1. script[i] \in Encodings /\ script[j] \in Encodings /\ script[k] \in Encodings
    BY DEF Indices
  <2>2. QED  BY <2>1 DEF Encodings
<1>2. QED  BY <1>1 DEF Before, Indices

\* so that among some of them there is a first one,
LEMMA FirstOfSome ==
  ASSUME script \in Seq(Encodings), NEW S \in SUBSET Indices, S # {}
  PROVE  \E m \in S : \A i \in S : ~Before(i, m)
<1> DEFINE insns == {script[i].insn : i \in S}
<1>1. \A i \in S : script[i].insn \in Nat /\ i \in Nat
  <2>1. \A i \in S : script[i] \in Encodings
    BY DEF Indices
  <2>2. QED  BY <2>1 DEF Encodings, Indices
<1>2. insns \in SUBSET Nat /\ insns # {}
  BY <1>1
<1>3. PICK x \in insns : \A y \in insns : x <= y
  <2> HIDE DEF insns
  <2>1. QED  BY <1>2, LeastNumber
<1> DEFINE those == {i \in S : script[i].insn = x}
<1>4. those \in SUBSET Nat /\ those # {}
  BY <1>1, <1>3
<1>5. PICK m \in those : \A i \in those : m <= i
  <2> HIDE DEF those
  <2>1. QED  BY <1>4, LeastNumber
<1>6. ASSUME NEW i \in S, Before(i, m)
      PROVE  FALSE
  <2>1. x <= script[i].insn /\ script[m].insn = x /\ m \in S
    BY <1>3, <1>5
  <2>2. script[i].insn = x /\ i < m
    BY <1>1, <1>6, <2>1 DEF Before
  <2>3. QED  BY <1>1, <1>5, <2>1, <2>2
<1>7. QED  BY <1>5, <1>6

\* and behind one with n - 1 earlier ones there is one with n, or none at all.
LEMMA NextOne ==
  ASSUME script \in Seq(Encodings), NEW j \in Indices, NEW n \in 1..(Len(script) - 1),
         Cardinality(Earlier(j)) = n - 1
  PROVE  \E m \in Indices : Cardinality(Earlier(m)) = n
<1> DEFINE later == {i \in Indices : Before(j, i)}
<1>1. IsFiniteSet(Earlier(j)) /\ Len(script) \in Nat
  <2>1. IsFiniteSet(Indices)
    BY FS_Interval DEF Indices
  <2>2. QED  BY <2>1, FS_Subset DEF Earlier
<1>2. j \notin Earlier(j)
  BY BeforeOrders DEF Earlier
<1>3. Cardinality(Earlier(j) \cup {j}) = n
  <2> DEFINE E == Earlier(j)
  <2>1. IsFiniteSet(E) /\ j \notin E /\ Cardinality(E) = n - 1
    BY <1>1, <1>2
  <2> HIDE DEF E
  <2>2. Cardinality(E \cup {j}) = Cardinality(E) + 1
    BY <2>1, FS_AddElement
  <2>3. QED  BY <2>1, <2>2 DEF E
<1>4. later # {}
  <2>1. SUFFICES ASSUME later = {} PROVE FALSE
    OBVIOUS
  <2>2. Indices = Earlier(j) \cup {j}
    <3>1. ASSUME NEW i \in Indices, i # j
          PROVE  Before(i, j)
      <4>1. ~Before(j, i)
        BY <2>1
      <4>2. QED  BY <3>1, <4>1, BeforeOrders
    <3>2. QED  BY <3>1 DEF Earlier
  <2>3. Cardinality(Indices) = Len(script)
    <3> DEFINE hi == Len(script)
    <3>1. hi \in Int /\ 1 \in Int /\ ~(1 > hi)
      BY <1>1
    <3> HIDE DEF hi
    <3>2. Cardinality(1..hi) = hi - 1 + 1
      BY <3>1, FS_Interval
    <3>3. QED  BY <3>1, <3>2 DEF Indices, hi
  <2>4. QED  BY <1>1, <1>3, <2>2, <2>3
<1>5. PICK m \in later : \A i \in later : ~Before(i, m)
  <2>1. later \in SUBSET Indices
    OBVIOUS
  <2> HIDE DEF later
  <2>2. QED  BY <1>4, <2>1, FirstOfSome
<1>6. Earlier(m) = Earlier(j) \cup {j}
  <2>1. m \in Indices /\ Before(j, m)
    BY <1>5
  <2>2. ASSUME NEW i \in Indices, Before(i, m)
        PROVE  i = j \/ Before(i, j)
    <3>1. ~Before(j, i)
      BY <1>5, <2>2
    <3>2. QED  BY <3>1, BeforeOrders
  <2>3. ASSUME NEW i \in Indices, Before(i, j)
        PROVE  Before(i, m)
    BY <2>1, <2>3, BeforeOrders
  <2>4. QED  BY <2>1, <2>2, <2>3 DEF Earlier
<1>7. QED  BY <1>3, <1>5, <1>6

\* The n-th encoding is one of the script, with n - 1 earlier ones.
LEMMA NumberFound ==
  ASSUME script \in Seq(Encodings), NEW n \in Indices
  PROVE  NumberOf(n) \in Indices /\ Cardinality(Earlier(NumberOf(n))) = n - 1
<1> DEFINE hi == Len(script)
           T == {k \in 1..hi : \E j \in Indices : Cardinality(Earlier(j)) = k - 1}
<1>1. hi \in Int /\ 1 \in Int /\ n \in 1..hi /\ Indices = 1..hi /\ DOMAIN script = Indices
  BY DEF Indices
<1>2. 1 \in T
  <2>1. PICK m \in Indices : \A i \in Indices : ~Before(i, m)
    BY FirstOfSome
  <2>2. Earlier(m) = {}
    BY <2>1 DEF Earlier
  <2>3. Cardinality(Earlier(m)) = 1 - 1
    BY <2>2, FS_EmptySet
  <2>4. 1 \in 1..hi
    BY <1>1
  <2>5. QED  BY <2>3, <2>4
<1>3. ASSUME NEW k \in 1..(hi - 1), k \in T
      PROVE  k + 1 \in T
  <2>1. PICK j \in Indices : Cardinality(Earlier(j)) = k - 1
    BY <1>3
  <2>2. \E m \in Indices : Cardinality(Earlier(m)) = k
    BY <2>1, NextOne
  <2>3. k + 1 \in 1..hi /\ (k + 1) - 1 = k
    BY <1>1
  <2>4. QED  BY <2>2, <2>3
<1>4. n \in T
  <2> HIDE DEF T, hi
  <2>1. 1..hi \subseteq T
    BY <1>1, <1>2, <1>3, CountUp
  <2>2. QED  BY <1>1, <2>1
<1>5. \E j \in Indices : Cardinality(Earlier(j)) = n - 1
  BY <1>4
<1>6. NumberOf(n) = CHOOSE j \in Indices : Cardinality(Earlier(j)) = n - 1
  BY <1>1 DEF NumberOf, Earlier
<1>7. QED  BY <1>5, <1>6

-----------------------------------------------------------------------------
(* The calls that enter an encoding *)

\* The entries of a prefix table are entries of it.
LEMMA PrefixEntriesFound ==
  ASSUME NEW r \in OpcodeRecords
  PROVE  PrefixEntries(r) \in Seq(0..5) /\ Apart(PrefixEntries(r))
<1> DEFINE op66 == CASE r.op66 = 0 -> <<0, 1>> [] r.op66 = 1 -> <<0>> [] r.op66 = 2 -> <<1>>
           fx == CASE r.fx = 0 -> <<0>> [] r.fx = 1 -> <<0, 1, 2>>
                   [] r.fx = 2 -> <<1>> [] r.fx = 3 -> <<2>>
           row(a) == [b \in DOMAIN fx |-> op66[a] + 2 * fx[b]]
           rows == [a \in DOMAIN op66 |-> row(a)]
<1>1. r.op66 \in 0..2 /\ r.fx \in 0..3
  BY DEF OpcodeRecords
<1> HIDE DEF row, rows
<1>2. op66 \in Seq(0..1) /\ Apart(op66)
  <2>1. <<0, 1>> \in Seq(0..1) /\ <<0>> \in Seq(0..1) /\ <<1>> \in Seq(0..1)
    OBVIOUS
  <2>2. Apart(<<0, 1>>) /\ Apart(<<0>>) /\ Apart(<<1>>)
    BY DEF Apart
  <2>3. op66 \in {<<0, 1>>, <<0>>, <<1>>}
    BY <1>1
  <2> HIDE DEF op66
  <2>4. QED  BY <2>1, <2>2, <2>3, Zenon
<1>3. fx \in Seq(0..2) /\ Apart(fx)
  <2>1. <<0, 1, 2>> \in Seq(0..2)
    OBVIOUS
  <2>2. <<0>> \in Seq(0..2) /\ <<1>> \in Seq(0..2) /\ <<2>> \in Seq(0..2)
    OBVIOUS
  <2>3. Apart(<<0, 1, 2>>) /\ Apart(<<0>>) /\ Apart(<<1>>) /\ Apart(<<2>>)
    BY DEF Apart
  <2>4. fx \in {<<0>>, <<0, 1, 2>>, <<1>>, <<2>>}
    BY <1>1
  <2> HIDE DEF fx
  <2>5. QED  BY <2>1, <2>2, <2>3, <2>4, Zenon
<1>4. PrefixEntries(r) = FlattenSeq(rows)
  BY DEF PrefixEntries, rows, row
<1> HIDE DEF op66, fx
<1>5. Len(op66) \in Nat /\ Len(fx) \in Nat /\ DOMAIN op66 = 1..Len(op66)
      /\ \A a \in 1..Len(op66) : op66[a] \in 0..1
  BY <1>2
<1>6. ASSUME NEW a \in 1..Len(op66)
      PROVE  /\ row(a) \in Seq(0..5) /\ Len(row(a)) = Len(fx)
             /\ \A b \in 1..Len(fx) : fx[b] \in 0..2 /\ row(a)[b] = op66[a] + 2 * fx[b]
  <2>1. row(a) = [b \in 1..Len(fx) |-> op66[a] + 2 * fx[b]]
    BY <1>3 DEF row
  <2>2. ASSUME NEW b \in 1..Len(fx)
        PROVE  fx[b] \in 0..2 /\ op66[a] + 2 * fx[b] \in 0..5
    <3>1. fx[b] \in 0..2 /\ op66[a] \in 0..1
      BY <1>3, <1>5
    <3>2. QED  BY <3>1
  <2> HIDE DEF row
  <2>3. QED  BY <1>5, <2>1, <2>2
<1> HIDE DEF row
<1>7. rows \in Seq(Seq(0..5)) /\ Len(rows) = Len(op66) /\ \A a \in 1..Len(op66) : rows[a] = row(a)
  BY <1>5, <1>6 DEF rows
<1> HIDE DEF rows
<1>8. \A a \in 1..Len(rows) : Apart(rows[a])
  <2>1. ASSUME NEW a \in 1..Len(op66), NEW b \in 1..Len(fx), NEW c \in 1..Len(fx),
               row(a)[b] = row(a)[c]
        PROVE  b = c
    <3>1. op66[a] + 2 * fx[b] = op66[a] + 2 * fx[c] /\ fx[b] \in 0..2 /\ fx[c] \in 0..2
      BY <1>6, <2>1
    <3>2. fx[b] = fx[c]
      <4>1. \A z \in 0..1, x, y \in 0..2 : z + 2 * x = z + 2 * y => x = y
        OBVIOUS
      <4>2. op66[a] \in 0..1
        BY <1>5, <2>1
      <4>3. QED  BY <3>1, <4>1, <4>2
    <3>3. QED  BY <1>3, <3>2 DEF Apart
  <2>2. QED  BY <1>6, <1>7, <2>1 DEF Apart
<1>9. ASSUME NEW i \in 1..Len(rows), NEW j \in 1..Len(rows), i # j,
             NEW a \in 1..Len(rows[i]), NEW b \in 1..Len(rows[j])
      PROVE  rows[i][a] # rows[j][b]
  <2>1. rows[i][a] = op66[i] + 2 * fx[a] /\ rows[j][b] = op66[j] + 2 * fx[b]
        /\ fx[a] \in 0..2 /\ fx[b] \in 0..2
    BY <1>6, <1>7
  <2>2. op66[i] # op66[j] /\ op66[i] \in 0..1 /\ op66[j] \in 0..1
    BY <1>2, <1>5, <1>7, <1>9 DEF Apart
  <2>3. ASSUME NEW p \in 0..1, NEW q \in 0..1, p # q, NEW x \in 0..2, NEW y \in 0..2
        PROVE  p + 2 * x # q + 2 * y
    <3>1. (p = 0 /\ q = 1) \/ (p = 1 /\ q = 0)
      BY <2>3
    <3>2. 2 * x # 1 + 2 * y /\ 1 + 2 * x # 2 * y
      OBVIOUS
    <3>3. QED  BY <3>1, <3>2
  <2>4. op66[i] + 2 * fx[a] # op66[j] + 2 * fx[b]
    BY <2>1, <2>2, <2>3
  <2>5. QED  BY <2>1, <2>4
<1>10. Apart(FlattenSeq(rows))
  BY <1>7, <1>8, <1>9, FlattenedApart
<1>11. QED  BY <1>4, <1>7, <1>10, Flattened

\* The calls for entry k of table t.
CallsOn(t, k, r) ==
  {c \in [table : {t}, k : {k}, ext : Reg, mod : 0..3, shared : BOOLEAN] :
     /\ c.shared = (r.mod = NoMod /\ c.mod # 0)
     /\ r.regop = NoReg => c.ext = 0 /\ (r.mod = NoMod => c.mod = 0)}

\* All calls are for the entry given, with values the fields can have; only an
\* encoding with a reg field shares.
LEMMA CallsFound ==
  ASSUME NEW r \in OpcodeRecords, NEW t, NEW k
  PROVE  Calls(t, k, r) \in Seq(CallsOn(t, k, r)) /\ Apart(Calls(t, k, r))
<1> DEFINE exts == CASE r.regop = RegR -> Upto(RegCount)
                     [] r.regop = NoReg -> <<0>>
                     [] OTHER -> <<r.regop>>
           mods == CASE r.mod = ModMem -> <<0, 1, 2>>
                     [] r.mod = NoMod /\ r.regop # NoReg -> <<0, 1, 2, 3>>
                     [] r.mod = NoMod /\ r.regop = NoReg -> <<0>>
                     [] OTHER -> <<r.mod>>
           call(e, m) == [table |-> t, k |-> k, ext |-> e, mod |-> m,
                          shared |-> r.mod = NoMod /\ m # 0]
           E == {e \in Reg : r.regop = NoReg => e = 0}
           M == {m \in 0..3 : r.mod = NoMod /\ r.regop = NoReg => m = 0}
           S == CallsOn(t, k, r)
           row(e) == [m \in DOMAIN mods |-> call(exts[e], mods[m])]
           rows == [e \in DOMAIN exts |-> row(e)]
<1>1. r.regop \in Reg \cup {RegR, NoReg} /\ r.mod \in 0..3 \cup {ModMem, NoMod}
  BY DEF OpcodeRecords
<1>2. RegCount \in Nat \ {0}
  BY CountsAssumption
<1>3. exts \in Seq(E) /\ Apart(exts)
  <2>1. RegR \notin Reg /\ NoReg \notin Reg /\ RegR # NoReg
    BY <1>2 DEF RegR, NoReg, Reg
  <2>2. CASE r.regop = RegR
    <3>1. Upto(RegCount) \in Seq(E) /\ Apart(Upto(RegCount))
      BY <1>2, <2>1, <2>2 DEF Upto, Reg, Apart
    <3>2. exts = Upto(RegCount)
      BY <2>1, <2>2
    <3> HIDE DEF exts
    <3>3. QED  BY <3>1, <3>2
  <2>3. CASE r.regop = NoReg
    <3>1. <<0>> \in Seq(E) /\ Apart(<<0>>)
      BY <1>2 DEF Reg, Apart
    <3>2. exts = <<0>>
      BY <2>1, <2>3
    <3>3. QED  BY <3>1, <3>2
  <2>4. CASE r.regop \in Reg
    <3>1. <<r.regop>> \in Seq(E) /\ Apart(<<r.regop>>)
      BY <2>1, <2>4 DEF Apart
    <3>2. exts = <<r.regop>>
      BY <2>1, <2>4
    <3>3. QED  BY <3>1, <3>2
  <2>5. QED  BY <1>1, <2>2, <2>3, <2>4
<1>4. mods \in Seq(M) /\ Apart(mods)
  <2>1. CASE r.mod = ModMem
    <3>1. 0 \in M /\ 1 \in M /\ 2 \in M
      BY <2>1 DEF ModMem, NoMod
    <3>2. mods = <<0, 1, 2>> /\ Apart(<<0, 1, 2>>)
      BY <2>1 DEF ModMem, NoMod, Apart
    <3> HIDE DEF M, mods
    <3>3. QED  BY <3>1, <3>2
  <2>2. CASE r.mod = NoMod /\ r.regop # NoReg
    <3>1. 0 \in M /\ 1 \in M /\ 2 \in M /\ 3 \in M
      BY <2>2
    <3>2. mods = <<0, 1, 2, 3>> /\ Apart(<<0, 1, 2, 3>>)
      BY <2>2 DEF ModMem, NoMod, Apart
    <3> HIDE DEF M, mods
    <3>3. QED  BY <3>1, <3>2
  <2>3. CASE r.mod = NoMod /\ r.regop = NoReg
    <3>1. 0 \in M
      OBVIOUS
    <3>2. mods = <<0>> /\ Apart(<<0>>)
      BY <2>3 DEF ModMem, NoMod, Apart
    <3> HIDE DEF M, mods
    <3>3. QED  BY <3>1, <3>2
  <2>4. CASE r.mod \in 0..3
    <3>1. r.mod \in M
      BY <2>4 DEF NoMod
    <3>2. mods = <<r.mod>> /\ Apart(<<r.mod>>)
      BY <2>4 DEF ModMem, NoMod, Apart
    <3> HIDE DEF M, mods
    <3>3. QED  BY <3>1, <3>2
  <2>5. QED  BY <1>1, <2>1, <2>2, <2>3, <2>4
<1>5. Calls(t, k, r) = FlattenSeq(rows)
  BY DEF Calls
<1>6. \A e \in E, m \in M : call(e, m) \in S /\ call(e, m).ext = e /\ call(e, m).mod = m
  BY DEF CallsOn
<1> HIDE DEF exts, mods, call, E, M, S
<1>7. Len(exts) \in Nat /\ Len(mods) \in Nat /\ DOMAIN exts = 1..Len(exts)
      /\ \A e \in 1..Len(exts) : exts[e] \in E
  BY <1>3, <1>4
<1>8. ASSUME NEW e \in 1..Len(exts)
      PROVE  /\ row(e) \in Seq(S) /\ Len(row(e)) = Len(mods)
             /\ \A m \in 1..Len(mods) : row(e)[m].ext = exts[e] /\ row(e)[m].mod = mods[m]
  BY <1>4, <1>6, <1>7
<1> HIDE DEF row
<1>9. rows \in Seq(Seq(S)) /\ Len(rows) = Len(exts) /\ \A e \in 1..Len(exts) : rows[e] = row(e)
  BY <1>7, <1>8
<1> HIDE DEF rows
<1>10. ASSUME NEW e \in 1..Len(rows), NEW a \in 1..Len(rows[e]), NEW b \in 1..Len(rows[e]),
              rows[e][a] = rows[e][b]
       PROVE  a = b
  <2>1. a \in 1..Len(mods) /\ b \in 1..Len(mods) /\ rows[e][a].mod = mods[a] /\ rows[e][b].mod = mods[b]
    BY <1>8, <1>9
  <2>2. mods[a] = mods[b]
    BY <1>10, <2>1
  <2>3. QED  BY <1>4, <2>1, <2>2 DEF Apart
<1>11. ASSUME NEW i \in 1..Len(rows), NEW j \in 1..Len(rows), i # j,
              NEW a \in 1..Len(rows[i]), NEW b \in 1..Len(rows[j])
       PROVE  rows[i][a] # rows[j][b]
  <2>1. rows[i][a].ext = exts[i] /\ rows[j][b].ext = exts[j]
    BY <1>8, <1>9
  <2>2. exts[i] # exts[j]
    BY <1>3, <1>9, <1>11 DEF Apart
  <2>3. QED  BY <2>1, <2>2
<1>12. \A e \in 1..Len(rows) : Apart(rows[e])
  BY <1>10 DEF Apart
<1>13. Apart(FlattenSeq(rows)) /\ FlattenSeq(rows) \in Seq(S)
  BY <1>9, <1>11, <1>12, FlattenedApart, Flattened
<1>14. QED  BY <1>5, <1>13 DEF S

CallRecords == [table : Nat, k : Nat, ext : Reg, mod : 0..3, shared : BOOLEAN]

\* A call that the tables t can serve, for an encoding of opcode r.
Callable(c, t, r) ==
  /\ c \in CallRecords /\ c.table \in 1..Len(t) /\ t[c.table].type \in {1, 2}
  /\ c.k \in Kids(t[c.table].type)
  /\ c.shared => r.regop # NoReg

\* A descent that is only made where there is no error.
LEMMA DescendOrStay ==
  ASSUME NEW N \in Nat, NEW p, Spot(p, N), NEW type \in 1..6, NEW k \in Kids(type),
         p.status = NoError => type \in Below[TypeAt(p)]
  PROVE  LET q == Descend(p, type, k)
         IN  /\ Moves(p, q, N)
             /\ q.status = NoError => TypeAt(q) = type
<1>1. CASE p.status = NoError
  BY <1>1, DescendIsSpot
<1>2. CASE p.status # NoError
  <2>1. Descend(p, type, k) = p
    BY <1>2 DEF Descend
  <2>2. QED  BY <1>2, <2>1, MovesNowhere
<1>3. QED  BY <1>1, <1>2

\* The table of the fields is one of fields if the encoding has any.
LEMMA FieldsFound ==
  ASSUME NEW N \in Nat, Sound(tables, N), NEW r \in OpcodeRecords, NEW c,
         Callable(c, tables, r)
  PROVE  LET p == Place(c.table, c.k)
             q == AtFields(c, r)
         IN  /\ p.tables = tables /\ Spot(p, N) /\ Moves(p, q, N)
             /\ q.status = NoError => /\ TypeAt(q) \in {1, 2, 3}
                                      /\ r.regop # NoReg => TypeAt(q) = 3
<1> DEFINE p == Place(c.table, c.k)
           q == AtFields(c, r)
           f == c.ext + RegCount * c.mod
<1>1. /\ c.table \in 1..Len(tables) /\ c.k \in Kids(tables[c.table].type)
      /\ c.k \in Nat /\ c.table \in Nat /\ c.ext \in Reg /\ c.mod \in 0..3
      /\ tables[c.table].type \in {1, 2} /\ tables \in Seq(TableRecords)
  BY DEF Callable, CallRecords, Sound
<1>2. /\ p.tables = tables /\ p.table = c.table /\ p.k = c.k /\ p.status = NoError
      /\ p \in PlaceRecords
  BY <1>1 DEF Place, PlaceRecords
<1> HIDE DEF p
<1>3. TypeAt(p) \in {1, 2} /\ Spot(p, N)
  BY <1>1, <1>2 DEF TypeAt, Spot
<1>4. CASE r.regop = NoReg
  <2>1. q = Refuse(p, 0..4)
    BY <1>4 DEF AtFields, p
  <2>2. Moves(p, q, N) /\ (q.status = NoError => q = p)
    BY <1>3, <2>1, RefuseIsSpot
  <2> HIDE DEF q
  <2>3. q.status = NoError => TypeAt(q) \in {1, 2, 3}
    BY <1>3, <2>2
  <2>4. QED  BY <1>2, <1>3, <1>4, <2>2, <2>3 DEF q, p
<1>5. CASE r.regop # NoReg
  <2>1. q = Descend(p, 3, f)
    BY <1>5 DEF AtFields, p
  <2>2. f \in Kids(3)
    <3>1. f \in 0..(4 * RegCount - 1)
      <4>1. RegCount \in Nat /\ c.ext \in 0..(RegCount - 1)
        BY <1>1, CountsAssumption DEF Reg
      <4>2. c.mod \in {0, 1, 2, 3}
        BY <1>1
      <4>3. RegCount * c.mod \in {0, RegCount, 2 * RegCount, 3 * RegCount}
        BY <4>1, <4>2
      <4>4. QED  BY <4>1, <4>3
    <3>2. QED  BY <3>1, KidsOf
  <2> HIDE DEF f
  <2>3. 3 \in 1..6 /\ 3 \in Below[TypeAt(p)]
    BY <1>3, BelowTypes
  <2>4. Moves(p, q, N) /\ (q.status = NoError => TypeAt(q) = 3)
    BY <1>3, <2>1, <2>2, <2>3, DescendIsSpot
  <2> HIDE DEF q
  <2>5. QED  BY <1>2, <1>3, <2>4 DEF q, p
<1>6. QED  BY <1>4, <1>5

\* The leaf is an entry, with nothing in it if there is no error.
LEMMA LeafFound ==
  ASSUME NEW N \in Nat, NEW r \in OpcodeRecords, NEW p, Spot(p, N), NEW tags,
         p.status = NoError, TypeAt(p) \in {1, 2, 3}
  PROVE  LET q == Vacant(AtMode(AtRm(p, r), tags))
         IN  Moves(p, q, N) /\ (q.status = NoError => Entry(q) = NULL)
<1> DEFINE m == AtRm(p, r)
           o == AtMode(m, tags)
           q == Vacant(o)
<1>1. Moves(p, m, N) /\ (m.status = NoError => TypeAt(m) \in {1, 2, 3, 5})
  <2>1. CASE r.rm = NoReg
    <3>1. m = Refuse(p, 0..5)
      BY <2>1 DEF AtRm
    <3> HIDE DEF m, o, q
    <3>2. QED  BY <3>1, RefuseIsSpot
  <2>2. CASE r.rm # NoReg
    <3>1. m = Descend(p, 5, r.rm)
      BY <2>2 DEF AtRm
    <3> HIDE DEF m, o, q
    <3>2. r.rm \in Kids(5)
      BY <2>2, KidsOf DEF OpcodeRecords
    <3>3. 5 \in 1..6 /\ 5 \in Below[TypeAt(p)]
      BY BelowTypes
    <3>4. QED  BY <3>1, <3>2, <3>3, DescendIsSpot
  <2>3. QED  BY <2>1, <2>2
<1> HIDE DEF m
<1>2. Moves(m, o, N)
  <2>1. Spot(m, N)
    BY <1>1 DEF Moves
  <2>2. CASE tags \cap {"like_arpl", "like_movsxd"} = {}
    BY <2>1, <2>2, MovesNowhere DEF AtMode
  <2>3. CASE tags \cap {"like_arpl", "like_movsxd"} # {}
    <3> DEFINE k == IF "like_movsxd" \in tags THEN 1 ELSE 0
    <3>1. o = Descend(m, 6, k)
      BY <2>3 DEF AtMode
    <3>2. k \in Kids(6) /\ 6 \in 1..6
      BY KidsOf
    <3>3. m.status = NoError => 6 \in Below[TypeAt(m)]
      BY <1>1, BelowTypes
    <3> HIDE DEF k, o, q
    <3>4. QED  BY <2>1, <3>1, <3>2, <3>3, DescendOrStay
  <2>4. QED  BY <2>2, <2>3
<1> HIDE DEF o
<1>3. Spot(o, N)
  BY <1>2 DEF Moves
<1>4. Moves(o, q, N) /\ (q.status = NoError => Entry(q) = NULL)
  <2>1. /\ Moves(o, q, N)
        /\ q.status = NoError =>
             q = o /\ (Entry(o) # NULL => o.tables[Entry(o)].type \notin 0..7)
    BY <1>3, RefuseIsSpot DEF Vacant
  <2>2. Entry(o) # NULL => o.tables[Entry(o)].type \in 0..7
    <3>1. Entry(o) # NULL => Entry(o) \in 1..Len(o.tables)
      BY <1>3, SpotFacts
    <3>2. o.tables \in Seq(TableRecords)
      BY <1>3 DEF Spot, Sound
    <3>3. ASSUME NEW n \in 1..Len(o.tables)
          PROVE  o.tables[n].type \in 0..7
      <4>1. o.tables[n] \in TableRecords
        BY <3>2
      <4>2. o.tables[n].type \in 0..6
        BY <4>1 DEF TableRecords
      <4>3. QED  BY <4>2
    <3>4. QED  BY <3>1, <3>3
  <2> HIDE DEF q
  <2>3. QED  BY <2>1, <2>2
<1> HIDE DEF q
<1>5. Moves(p, q, N)
  <2>1. Moves(p, o, N)
    BY <1>1, <1>2, MovesOn
  <2>2. QED  BY <1>4, <2>1, MovesOn
<1>6. QED  BY <1>4, <1>5 DEF q, o, m

\* However a call ends, the tables it leaves are sound.
LEMMA EnteredIsSpot ==
  ASSUME NEW N \in Nat, Sound(tables, N), Last(info) \in OpcodeRecords, NEW c,
         Callable(c, tables, Last(info)), Number \in 0..N
  PROVE  Sound(Entered(c).tables, N) /\ Grows(tables, Entered(c).tables)
<1> DEFINE r == Last(info)
           p == Place(c.table, c.k)
           fields == AtFields(c, r)
           leaf == Vacant(AtMode(AtRm(fields, r), Building.tags))
           new == New(leaf, Table(0, Number))
           q == Entered(c)
<1>1. /\ p.tables = tables /\ Spot(p, N) /\ Moves(p, fields, N)
      /\ fields.status = NoError => /\ TypeAt(fields) \in {1, 2, 3}
                                    /\ r.regop # NoReg => TypeAt(fields) = 3
  <2>1. r \in OpcodeRecords /\ Callable(c, tables, r)
    OBVIOUS
  <2> HIDE DEF r, leaf, new, q
  <2>2. QED  BY <2>1, FieldsFound
<1>2. r \in OpcodeRecords /\ c.ext \in Reg /\ (c.shared => r.regop # NoReg)
  BY DEF Callable, CallRecords
<1>3. q = IF r.mod # NoMod /\ r.regop = NoReg THEN Conflict(fields)
          ELSE IF fields.status # NoError THEN fields
          ELSE IF c.shared THEN Share(fields, c.ext)
          ELSE IF leaf.status # NoError THEN leaf
          ELSE new
  BY DEF Entered
<1>4. fields.status = NoError => Moves(fields, leaf, N) /\ (leaf.status = NoError => Entry(leaf) = NULL)
  <2>1. Spot(fields, N)
    BY <1>1 DEF Moves
  <2> DEFINE tags == Building.tags
  <2> HIDE DEF fields, r, p, q, tags
  <2>2. fields.status = NoError =>
          LET l == Vacant(AtMode(AtRm(fields, r), tags))
          IN  Moves(fields, l, N) /\ (l.status = NoError => Entry(l) = NULL)
    BY <1>1, <1>2, <2>1, LeafFound
  <2>3. QED  BY <2>2 DEF tags
<1> HIDE DEF q, fields, leaf, r, p
<1>5. Spot(fields, N)
  BY <1>1 DEF Moves
<1>6. Moves(fields, q, N)
  <2>1. CASE r.mod # NoMod /\ r.regop = NoReg
    <3>1. q = Conflict(fields)
      BY <1>3, <2>1
    <3>2. QED  BY <1>5, <3>1, ConflictIsSpot
  <2>2. CASE ~(r.mod # NoMod /\ r.regop = NoReg) /\ fields.status # NoError
    <3>1. q = fields
      BY <1>3, <2>2
    <3>2. QED  BY <1>5, <3>1, MovesNowhere
  <2>3. CASE ~(r.mod # NoMod /\ r.regop = NoReg) /\ fields.status = NoError /\ c.shared
    <3>1. q = Share(fields, c.ext)
      BY <1>3, <2>3
    <3>2. c.ext \in Kids(TypeAt(fields))
      <4>1. TypeAt(fields) = 3
        BY <1>1, <1>2, <2>3
      <4>2. Reg \subseteq 0..(4 * RegCount - 1)
        BY CountsAssumption DEF Reg
      <4>3. QED  BY <1>2, <4>1, <4>2, KidsOf
    <3>3. QED  BY <1>5, <3>1, <3>2, ShareIsSpot
  <2>4. CASE /\ ~(r.mod # NoMod /\ r.regop = NoReg) /\ fields.status = NoError /\ ~c.shared
             /\ leaf.status # NoError
    <3>1. q = leaf
      BY <1>3, <2>4
    <3>2. QED  BY <1>4, <2>4, <3>1
  <2>5. CASE /\ ~(r.mod # NoMod /\ r.regop = NoReg) /\ fields.status = NoError /\ ~c.shared
             /\ leaf.status = NoError
    <3>1. q = new
      BY <1>3, <2>5
    <3>2. Moves(fields, leaf, N) /\ Entry(leaf) = NULL
      BY <1>4, <2>5
    <3>3. Spot(leaf, N)
      BY <3>2 DEF Moves
    <3>4. 0 \in 0..6 /\ 0 \in Below[TypeAt(leaf)]
      BY <3>3, SpotFacts, BelowTypes
    <3>5. Moves(leaf, new, N)
      <4>1. AddedAt(leaf, new, 0, N)
        BY <3>2, <3>3, <3>4, NewIsSpot, Zenon
      <4>2. QED  BY <4>1 DEF AddedAt
    <3> HIDE DEF new
    <3>6. QED  BY <1>5, <3>1, <3>2, <3>5, MovesOn
  <2>6. QED  BY <2>1, <2>2, <2>3, <2>4, <2>5
<1>7. Moves(p, q, N)
  BY <1>1, <1>6, MovesOn
<1>8. QED  BY <1>1, <1>7 DEF Moves, Spot, q

-----------------------------------------------------------------------------
(* The invariant *)

\* What is being entered can be entered into the tables there are.
Servable(cs, t, r) ==
  cs \in Seq(CallRecords) /\ \A i \in 1..Len(cs) : Callable(cs[i], t, r)

Inv ==
  /\ script \in Scripts /\ done \in 0..Len(script)
  /\ Sound(tables, Len(script)) /\ table \in 1..Len(tables)
  /\ offsets \in Seq(Byte) /\ (offsets # <<>> => tables[table].type = 1)
  /\ Servable(calls, tables, Last(info))
  /\ info \in Seq(OpcodeRecords) /\ (Pending => info # <<>>)
  /\ Len(info) \in {done, done - 1} /\ (pc = "build" => Len(info) = done)
  /\ pc \in {"build", "built", "written"}

\* What the invariant says of the script and of the number of tables.
LEMMA ScriptFacts ==
  ASSUME Inv
  PROVE  script \in Seq(Encodings) /\ Len(script) \in Nat /\ Len(tables) \in Nat \ {0}
<1>1. script \in Seq(Encodings)
  BY ScriptsAssumption DEF Inv
<1>2. QED  BY <1>1 DEF Inv, Sound

\* Calls can still be served when tables have grown.
LEMMA StillServable ==
  ASSUME NEW cs, NEW t, NEW u, NEW r, Servable(cs, t, r), Grows(t, u),
         Len(t) \in Nat, Len(u) \in Nat
  PROVE  Servable(cs, u, r)
<1>1. ASSUME NEW i \in 1..Len(cs)
      PROVE  Callable(cs[i], u, r)
  <2>1. Callable(cs[i], t, r)
    BY DEF Servable
  <2>2. QED  BY <2>1 DEF Callable, Grows
<1>2. QED  BY <1>1 DEF Servable

\* The build begins with the root, a full table.
LEMMA InitInv ==
  ASSUME Init
  PROVE  Inv
<1> DEFINE t == Table(1, NULL)
<1>1. script \in Scripts /\ script \in Seq(Encodings)
  BY ScriptsAssumption DEF Init, BuilderInit
<1>2. t \in TableRecords /\ t.type = 1 /\ t.encoding = NULL /\ t.values = [k \in Kids(1) |-> NULL]
  <2>1. 1 \in 0..6 /\ NULL \in Nat
    BY DEF NULL
  <2>2. QED  BY <2>1, NewTable
<1>3. tables = <<t>>
  BY DEF Init, BuilderInit
<1> HIDE DEF t
<1>4. Sound(tables, Len(script))
  <2>1. tables \in Seq(TableRecords) /\ Len(tables) = 1 /\ tables[1] = t
    BY <1>2, <1>3
  <2>2. Typed(tables, Len(script))
    BY <1>1, <1>2, <2>1 DEF Typed, NULL
  <2>3. Leads(tables)
    BY <1>2, <2>1 DEF Leads
  <2>4. Reached(tables)
    BY <2>1 DEF Reached
  <2>5. QED  BY <1>2, <2>1, <2>2, <2>3, <2>4 DEF Sound, Root
<1>5. table \in 1..Len(tables)
  BY <1>3 DEF Init, BuilderInit, Root
<1>6. Servable(calls, tables, Last(info))
  BY DEF Init, BuilderInit, Servable
<1>7. QED  BY <1>1, <1>4, <1>5, <1>6 DEF Init, BuilderInit, Inv, Pending

\* The next encoding is begun.
LEMMA BeginEncodingInv ==
  ASSUME Inv, BeginEncoding
  PROVE  Inv'
<1> DEFINE n == NumberOf(done + 1)
           enc == script[n]
           r == Parse(enc.tokens)
           bytes == OpcodeBytes(r)
           p == PlaceOf(bytes)
           count == IF "reg_base" \in enc.tags THEN RegCount ELSE 1
           N == Len(script)
<1>1. /\ pc = "build" /\ offsets = <<>> /\ calls = <<>> /\ done < Len(script)
      /\ done' = done + 1 /\ script' = script
      /\ IF r.status # NoError THEN Return(r.status) /\ UNCHANGED <<info, tables, current>>
         ELSE /\ info' = Append(info, r)
              /\ tables' = p.tables
              /\ table' = p.table
              /\ IF p.status # NoError
                 THEN Return(p.status) /\ UNCHANGED offsets
                 ELSE /\ offsets' = [i \in 1..count |-> p.k + i - 1]
                      /\ UNCHANGED <<status, pc>>
              /\ UNCHANGED calls
  BY DEF BeginEncoding, Pending
<1>2. script \in Seq(Encodings) /\ N \in Nat /\ done \in Nat /\ N' = N
  BY <1>1, ScriptFacts DEF Inv
<1>3. n \in DOMAIN script
  <2>1. done + 1 \in Indices
    BY <1>1, <1>2 DEF Indices
  <2> DEFINE d == done + 1
  <2> HIDE DEF d
  <2>2. NumberOf(d) \in Indices
    BY <1>2, <2>1, NumberFound DEF d
  <2>3. QED  BY <1>2, <2>2 DEF Indices, d
<1>4. GoodEncoding(enc)
  BY <1>3, EncodingsAreGood DEF Inv
<1> HIDE DEF n, enc
<1>5. Len(info) = done /\ info \in Seq(OpcodeRecords)
  BY <1>1 DEF Inv
<1>6. CASE r.status # NoError
  <2> HIDE DEF r, p, count
  <2>1. /\ pc' = "built" /\ info' = info /\ tables' = tables /\ table' = table
        /\ offsets' = offsets /\ calls' = calls
    BY <1>1, <1>6 DEF Return, current
  <2>2. QED  BY <1>1, <1>2, <1>5, <2>1 DEF Inv, Pending
<1>7. CASE r.status = NoError
  <2>1. r \in OpcodeRecords /\ bytes \in Seq(Byte) /\ Len(bytes) >= 1
        /\ ("reg_base" \in enc.tags => bytes[Len(bytes)] + RegCount <= ByteCount)
    BY <1>4, <1>7, BytesFound
  <2> HIDE DEF r, bytes, N
  <2>2. AtBytes(p, N) /\ (p.status = NoError => p.k = bytes[Len(bytes)])
    BY <1>2, <2>1, PlaceFound DEF Inv, N
  <2> HIDE DEF p, count
  <2>3. /\ info' = Append(info, r) /\ tables' = p.tables /\ table' = p.table /\ calls' = <<>>
        /\ p.status # NoError => pc' = "built" /\ offsets' = <<>>
        /\ p.status = NoError => pc' = "build" /\ offsets' = [i \in 1..count |-> p.k + i - 1]
    BY <1>1, <1>7 DEF Return
  <2>4. Sound(tables', N) /\ table' \in 1..Len(tables')
    BY <2>2, <2>3 DEF AtBytes, Spot
  <2>5. p.status = NoError => offsets' \in Seq(Byte) /\ tables'[table'].type = 1
    <3>1. ASSUME p.status = NoError
          PROVE  [i \in 1..count |-> p.k + i - 1] \in Seq(Byte)
      <4>1. bytes[Len(bytes)] \in Byte
        BY <2>1
      <4>2. p.k \in Byte /\ ("reg_base" \in enc.tags => p.k + RegCount <= ByteCount)
        BY <2>1, <2>2, <3>1, <4>1
      <4>3. count \in Nat /\ p.k + count <= ByteCount /\ RegCount \in Nat /\ ByteCount \in Nat
        BY <4>2, CountsAssumption DEF count, Byte
      <4>4. \A i \in 1..count : p.k + i - 1 \in Byte
        BY <4>2, <4>3 DEF Byte
      <4>5. QED  BY <4>3, <4>4
    <3>2. p.status = NoError => tables'[table'].type = 1
      BY <2>2, <2>3 DEF AtBytes, TypeAt
    <3>3. QED  BY <2>3, <3>1, <3>2
  <2>6. offsets' \in Seq(Byte) /\ (offsets' # <<>> => tables'[table'].type = 1)
    <3>1. CASE p.status = NoError
      BY <2>5, <3>1
    <3>2. CASE p.status # NoError
      <4>1. offsets' = <<>>
        BY <2>3, <3>2
      <4>2. <<>> \in Seq(Byte)
        OBVIOUS
      <4>3. QED  BY <4>1, <4>2
    <3>3. QED  BY <3>1, <3>2
  <2>7. info' \in Seq(OpcodeRecords) /\ Len(info') = done' /\ info' # <<>>
    BY <1>1, <1>2, <1>5, <2>1, <2>3
  <2>8. Servable(calls', tables', Last(info)')
    BY <2>3 DEF Servable
  <2>9. pc' \in {"build", "built"}
    BY <2>3
  <2>10. script' \in Scripts /\ done' \in 0..Len(script')
    BY <1>1, <1>2 DEF Inv, N
  <2>11. Sound(tables', Len(script'))
    BY <1>1, <2>4 DEF N
  <2>12. QED  BY <2>4, <2>6, <2>7, <2>8, <2>9, <2>10, <2>11 DEF Inv
<1>8. QED  BY <1>6, <1>7

\* The calls that are begun for a byte can be served.
LEMMA CallsServable ==
  ASSUME NEW cs, NEW t, NEW k \in Nat, NEW u, NEW r, cs \in Seq(CallsOn(t, k, r)),
         Len(u) \in Nat, t \in 1..Len(u), u[t].type \in {1, 2}, k \in Kids(u[t].type)
  PROVE  Servable(cs, u, r)
<1>1. ASSUME NEW c \in CallsOn(t, k, r)
      PROVE  Callable(c, u, r) /\ c \in CallRecords
  <2>1. t \in Nat
    OBVIOUS
  <2>2. QED  BY <2>1 DEF CallsOn, CallRecords, Callable
<1>2. Len(cs) \in Nat /\ \A i \in 1..Len(cs) : cs[i] \in CallsOn(t, k, r)
  OBVIOUS
<1>3. cs \in Seq(CallRecords)
  BY <1>1
<1>4. QED  BY <1>1, <1>2, <1>3 DEF Servable

\* A byte of an encoding is begun.
LEMMA BeginByteInv ==
  ASSUME Inv, BeginByte
  PROVE  Inv'
<1> DEFINE r == Last(info)
           k == Head(offsets)
           place == Place(table, k)
           any == r.op66 = 0 /\ r.fx = 1
           p == IF any THEN Refuse(place, {0, 1, 2}) ELSE Descend(place, 2, 0)
           entries == PrefixEntries(r)
           row(i) == Calls(p.table, entries[i], r)
           cs == IF any THEN Calls(table, k, r) ELSE FlattenSeq([i \in DOMAIN entries |-> row(i)])
           N == Len(script)
<1>1. /\ pc = "build" /\ calls = <<>> /\ offsets # <<>>
      /\ script' = script /\ done' = done /\ table' = table /\ info' = info
      /\ IF p.status # NoError THEN Return(p.status) /\ UNCHANGED <<tables, calls, offsets>>
         ELSE /\ tables' = p.tables /\ calls' = cs /\ offsets' = Tail(offsets)
              /\ UNCHANGED <<status, pc>>
  BY DEF BeginByte
<1>2. r \in OpcodeRecords /\ k \in Byte /\ N \in Nat /\ Tail(offsets) \in Seq(Byte)
  <2>1. info \in Seq(OpcodeRecords) /\ info # <<>>
    BY <1>1 DEF Inv, Pending
  <2>2. Last(info) \in OpcodeRecords
    BY <2>1 DEF Last
  <2>3. offsets \in Seq(Byte) /\ offsets # <<>>
    BY <1>1 DEF Inv
  <2>4. QED  BY <2>2, <2>3, ScriptFacts
<1>3. Spot(place, N) /\ place.tables = tables /\ place.status = NoError /\ TypeAt(place) = 1
      /\ place.table = table /\ place.k = k
  <2>1. tables[table].type = 1 /\ Sound(tables, N) /\ table \in 1..Len(tables)
    BY <1>1 DEF Inv
  <2>2. tables \in Seq(TableRecords) /\ k \in Nat /\ Len(tables) \in Nat
    BY <1>2, <2>1 DEF Sound, Byte
  <2>3. place \in PlaceRecords
    BY <2>1, <2>2 DEF Place, PlaceRecords
  <2>4. k \in Kids(1)
    BY <1>2, KidsOf
  <2>5. QED  BY <2>1, <2>3, <2>4 DEF Spot, Place, TypeAt
<1> HIDE DEF r, k, place, any
<1>4. Moves(place, p, N)
      /\ (p.status = NoError => IF any THEN p = place ELSE TypeAt(p) = 2 /\ Spot(p, N))
  <2>1. CASE any
    <3> DEFINE q == Refuse(place, {0, 1, 2})
    <3>1. Moves(place, q, N) /\ (q.status = NoError => q = place)
      BY <1>3, RefuseIsSpot
    <3>2. p = q
      BY <2>1
    <3> HIDE DEF p, q
    <3>3. QED  BY <2>1, <3>1, <3>2
  <2>2. CASE ~any
    <3> DEFINE q == Descend(place, 2, 0)
    <3>1. 2 \in 1..6 /\ 2 \in Below[TypeAt(place)] /\ 0 \in Kids(2)
      BY <1>3, BelowTypes, KidsOf
    <3>2. Moves(place, q, N) /\ (q.status = NoError => TypeAt(q) = 2)
      BY <1>2, <1>3, <3>1, DescendIsSpot
    <3>3. p = q
      BY <2>2
    <3> HIDE DEF p, q
    <3>4. QED  BY <2>2, <3>2, <3>3 DEF Moves
  <2>3. QED  BY <2>1, <2>2
<1> HIDE DEF p
<1>5. Grows(tables, p.tables) /\ Sound(p.tables, N) /\ Len(p.tables) \in Nat /\ Len(tables) \in Nat
      /\ p.table \in 1..Len(p.tables)
  <2>1. Spot(p, N) /\ Grows(tables, p.tables) /\ Sound(tables, N)
    BY <1>3, <1>4 DEF Moves, Inv, N
  <2>2. QED  BY <2>1 DEF Spot, Sound
<1>6. p.status = NoError => Servable(cs, p.tables, r)
  <2>1. ASSUME any, p.status = NoError
        PROVE  Servable(cs, p.tables, r)
    <3>1. cs = Calls(table, k, r) /\ p = place
      BY <1>4, <2>1
    <3>2. cs \in Seq(CallsOn(table, k, r))
      BY <1>2, <3>1, CallsFound
    <3>3. table \in 1..Len(p.tables) /\ p.tables[table].type = 1
      BY <1>3, <3>1, <1>5 DEF TypeAt
    <3>4. k \in Kids(p.tables[table].type) /\ k \in Nat
      <4>1. k \in Kids(p.tables[table].type)
        BY <1>2, <3>3, KidsOf
      <4>2. k \in Nat
        BY <1>2, CountsAssumption DEF Byte
      <4>3. QED  BY <4>1, <4>2
    <3>5. p.tables[table].type \in {1, 2}
      BY <3>3
    <3> DEFINE u == p.tables
    <3> HIDE DEF cs, u
    <3>6. QED  BY <1>5, <3>2, <3>3, <3>4, <3>5, CallsServable DEF u
  <2>2. ASSUME ~any, p.status = NoError
        PROVE  Servable(cs, p.tables, r)
    <3> DEFINE t == p.table
               u == p.tables
               C == {c \in CallRecords : Callable(c, u, r)}
               rows == [i \in DOMAIN entries |-> row(i)]
    <3>1. entries \in Seq(0..5)
      BY <1>2, PrefixEntriesFound
    <3> HIDE DEF entries
    <3>2. TypeAt(p) = 2 /\ u[t].type = 2 /\ t \in 1..Len(u) /\ Len(u) \in Nat
      BY <1>4, <1>5, <2>2 DEF TypeAt
    <3>3. ASSUME NEW i \in 1..Len(entries)
          PROVE  row(i) \in Seq(C)
      <4>1. entries[i] \in 0..5 /\ entries[i] \in Nat
        BY <3>1
      <4> DEFINE e == entries[i]
      <4>2. row(i) \in Seq(CallsOn(t, e, r))
        BY <1>2, CallsFound
      <4>3. e \in Kids(u[t].type) /\ u[t].type \in {1, 2} /\ e \in Nat
        BY <3>2, <4>1, KidsOf
      <4> HIDE DEF e, row, t, u
      <4>4. Servable(row(i), u, r)
        BY <3>2, <4>2, <4>3, CallsServable
      <4>5. QED  BY <4>4 DEF Servable
    <3> HIDE DEF row, C, t, u
    <3>4. rows \in Seq(Seq(C))
      BY <3>1, <3>3
    <3> HIDE DEF rows
    <3>5. FlattenSeq(rows) \in Seq(C)
      BY <3>4, Flattened
    <3>6. cs = FlattenSeq(rows)
      BY <2>2 DEF rows
    <3> HIDE DEF cs
    <3>7. QED  BY <3>5, <3>6 DEF Servable, C, u
  <2>3. QED  BY <2>1, <2>2
<1> HIDE DEF cs
<1>7. CASE p.status # NoError
  <2>1. /\ pc' = "built" /\ tables' = tables /\ calls' = calls /\ offsets' = offsets
    BY <1>1, <1>7 DEF Return
  <2>2. QED  BY <1>1, <2>1 DEF Inv, Pending
<1>8. CASE p.status = NoError
  <2>1. tables' = p.tables /\ calls' = cs /\ offsets' = Tail(offsets) /\ pc' = pc
    BY <1>1, <1>8
  <2>2. Sound(tables', Len(script)') /\ table' \in 1..Len(tables') /\ tables'[table'].type = 1
    BY <1>1, <1>3, <1>5, <2>1 DEF Grows, TypeAt, N, Spot
  <2>3. Servable(calls', tables', Last(info)')
    BY <1>1, <1>6, <1>8, <2>1 DEF r
  <2>4. offsets' \in Seq(Byte)
    BY <1>2, <2>1
  <2>5. info' # <<>>
    BY <1>1 DEF Inv, Pending
  <2>6. QED  BY <1>1, <2>1, <2>2, <2>3, <2>4, <2>5 DEF Inv
<1>9. QED  BY <1>7, <1>8

\* One call of process_decoder_entry.
LEMMA EntryInv ==
  ASSUME Inv, process_decoder_entry
  PROVE  Inv'
<1> DEFINE c == Head(calls)
           r == Last(info)
           p == Entered(c)
           N == Len(script)
<1>1. /\ pc = "build" /\ calls # <<>>
      /\ script' = script /\ done' = done /\ table' = table /\ info' = info
      /\ offsets' = offsets /\ tables' = p.tables
      /\ p.status # NoError => pc' = "built" /\ calls' = calls
      /\ p.status = NoError => pc' = pc /\ calls' = Tail(calls)
  BY DEF process_decoder_entry, Return
<1>2. calls \in Seq(CallRecords) /\ Servable(calls, tables, r) /\ N \in Nat
  BY ScriptFacts DEF Inv, Servable
<1>3. r \in OpcodeRecords /\ info # <<>> /\ Number \in 0..N
  <2>1. info \in Seq(OpcodeRecords) /\ info # <<>> /\ Len(info) = done
    BY <1>1 DEF Inv, Pending
  <2>2. Last(info) \in OpcodeRecords
    BY <2>1 DEF Last
  <2>3. script \in Seq(Encodings) /\ done \in 0..N
    BY ScriptFacts DEF Inv
  <2>4. done \in Indices
    BY <2>1, <2>3 DEF Indices
  <2>5. Number \in Indices
    BY <2>3, <2>4, NumberFound DEF Number
  <2>6. QED  BY <1>2, <2>1, <2>2, <2>5 DEF Indices
<1>4. Callable(c, tables, r)
  <2>1. Len(calls) \in Nat /\ 1 \in 1..Len(calls) /\ c = calls[1]
    BY <1>1, <1>2
  <2>2. QED  BY <1>2, <2>1 DEF Servable
<1>5. Sound(tables, N) /\ table \in 1..Len(tables)
  BY DEF Inv
<1>6. Sound(p.tables, N) /\ Grows(tables, p.tables)
  <2> HIDE DEF c, N
  <2>1. QED  BY <1>2, <1>3, <1>4, <1>5, EnteredIsSpot DEF r
<1> HIDE DEF p, c
<1>7. Len(tables) \in Nat /\ Len(p.tables) \in Nat
  BY <1>5, <1>6 DEF Sound
<1>8. Servable(calls, tables', r)
  BY <1>1, <1>2, <1>6, <1>7, StillServable
<1>9. Servable(Tail(calls), tables', r)
  <2>1. /\ Tail(calls) \in Seq(CallRecords)
        /\ \A i \in 1..Len(Tail(calls)) : i + 1 \in 1..Len(calls) /\ Tail(calls)[i] = calls[i + 1]
    BY <1>1, <1>2
  <2>2. QED  BY <1>8, <2>1 DEF Servable
<1>10. Servable(calls', tables', Last(info)') /\ pc' \in {"build", "built"}
  BY <1>1, <1>8, <1>9 DEF r
<1>11. Sound(tables', Len(script)') /\ table' \in 1..Len(tables')
       /\ (offsets' # <<>> => tables'[table'].type = 1)
  BY <1>1, <1>5, <1>6, <1>7 DEF Grows, Inv, N
<1>12. QED  BY <1>1, <1>3, <1>10, <1>11 DEF Inv

\* The end of the build and what is written leave the tables alone.
LEMMA WrittenInv ==
  ASSUME Inv, AllEntered \/ Write \/ UNCHANGED allVars
  PROVE  Inv'
<1>1. /\ script' = script /\ done' = done /\ tables' = tables /\ table' = table
      /\ offsets' = offsets /\ calls' = calls /\ info' = info
      /\ pc' = pc \/ pc' \in {"built", "written"}
  BY DEF AllEntered, Return, Write, current, allVars, vars
<1>2. QED  BY <1>1 DEF Inv, Pending

\* So every step keeps the invariant.
LEMMA NextInv ==
  ASSUME Inv, [Next]_allVars
  PROVE  Inv'
BY BeginEncodingInv, BeginByteInv, EntryInv, WrittenInv DEF Next, Build, Written

\* Sound tables are layered, and what is being entered has the types it has.
LEMMA InvLayered ==
  ASSUME Inv
  PROVE  Layered
<1> DEFINE N == Len(script)
<1>1. /\ tables \in Seq(TableRecords) /\ Typed(tables, N) /\ Leads(tables) /\ Reached(tables)
      /\ Len(tables) \in Nat
  BY DEF Inv, Sound
<1>2. ASSUME NEW n \in 1..Len(tables)
      PROVE  /\ tables[n].type \in 0..6
             /\ tables[n].values \in [Kids(tables[n].type) -> Places]
             /\ tables[n].encoding \in 0..N
             /\ DOMAIN tables[n].values = Kids(tables[n].type)
  <2>1. tables[n] \in TableRecords
    BY <1>1
  <2>2. tables[n].type \in 0..6
    BY <2>1 DEF TableRecords
  <2>3. tables[n].values \in [Kids(tables[n].type) -> 0..Len(tables)] /\ tables[n].encoding \in 0..N
    BY <1>1 DEF Typed
  <2>4. QED  BY <2>2, <2>3 DEF Places
<1>3. TypeOK
  <2>1. \A i \in DOMAIN offsets : offsets[i] \in Byte
    BY DEF Inv
  <2>2. ASSUME NEW i \in DOMAIN calls
        PROVE  /\ calls[i].table \in 1..Len(tables)
               /\ calls[i].k \in Kids(tables[calls[i].table].type)
               /\ calls[i].ext \in Reg /\ calls[i].mod \in 0..3
    <3>1. calls \in Seq(CallRecords) /\ Servable(calls, tables, Last(info))
      BY DEF Inv, Servable
    <3>2. calls[i] \in CallRecords /\ Callable(calls[i], tables, Last(info))
      BY <3>1 DEF Servable
    <3>3. QED  BY <3>2 DEF Callable, CallRecords
  <2> HIDE DEF N
  <2>3. done \in 0..Len(script) /\ table \in 1..Len(tables) /\ Len(info) \in {done, done - 1}
        /\ pc \in {"build", "built", "written"}
    BY DEF Inv
  <2>4. QED  BY <1>2, <2>1, <2>2, <2>3 DEF TypeOK, N
<1>4. ASSUME NEW n \in 1..Len(tables), NEW k \in DOMAIN tables[n].values,
             tables[n].values[k] # NULL
      PROVE  tables[n].values[k] > n /\ tables[tables[n].values[k]].type \in Below[tables[n].type]
  BY <1>1, <1>2, <1>4 DEF Leads
<1>5. ASSUME NEW n \in 2..Len(tables)
      PROVE  \E m \in 1..(n - 1) : \E k \in DOMAIN tables[m].values : tables[m].values[k] = n
  <2>1. PICK m \in 1..(n - 1) : \E k \in Kids(tables[m].type) : tables[m].values[k] = n
    BY <1>1 DEF Reached
  <2>2. m \in 1..Len(tables)
    BY <1>1
  <2>3. QED  BY <1>2, <2>1, <2>2
<1>6. QED  BY <1>3, <1>4, <1>5 DEF Layered

\* Layered: at every moment of the build of any such script, every table but
\* the root is reached from an earlier one, leads only to later ones, and asks
\* for what comes after what led to it: the decoder's walk of the table ends
\* and never goes back in the instruction.
THEOREM LayeredAlways == Spec => []Layered
<1>1. Init => Inv
  BY InitInv
<1>2. Inv /\ [Next]_allVars => Inv'
  BY NextInv
<1>3. Inv => Layered
  BY InvLayered
<1>4. QED  BY <1>1, <1>2, <1>3, PTL DEF Spec

-----------------------------------------------------------------------------
(* What is made below an empty entry *)

\* No full table is among the tables that u has beyond those of t.
NoneFull(t, u) == \A n \in (Len(t) + 1)..Len(u) : u[n].type # 1

\* From the tables of place p to u nothing but its entry has changed, which
\* leads to a new table that is not full.
Fills(p, u) ==
  /\ Elsewhere(p.tables, u, p.table, p.k) /\ NoneFull(p.tables, u)
  /\ u[p.table].values[p.k] > Len(p.tables)

\* What fills an entry of a new table fills the entry that led there.
LEMMA FillsOn ==
  ASSUME NEW N, NEW p, NEW q, NEW u, Spot(p, N), Spot(q, N), Sound(u, N),
         Grows(p.tables, q.tables), Grows(q.tables, u),
         Fills(p, q.tables), q.table > Len(p.tables), Fills(q, u)
  PROVE  Fills(p, u)
<1> DEFINE s == p.tables
           t == q.tables
<1>1. Len(s) \in Nat /\ Len(t) \in Nat /\ Len(u) \in Nat /\ p.table \in 1..Len(s)
      /\ p.k \in Kids(s[p.table].type) /\ q.table > Len(s)
  BY SpotFacts DEF Spot, Sound, TypeAt
<1>2. /\ Len(s) <= Len(t) /\ Len(t) <= Len(u)
      /\ \A n \in 1..Len(s) : t[n].type = s[n].type
      /\ \A n \in 1..Len(t) : u[n].type = t[n].type
  BY DEF Grows
<1>3. /\ Elsewhere(s, t, p.table, p.k) /\ NoneFull(s, t) /\ t[p.table].values[p.k] > Len(s)
      /\ Elsewhere(t, u, q.table, q.k) /\ NoneFull(t, u)
  BY DEF Fills
<1> HIDE DEF s, t
<1>4. ASSUME NEW i \in 1..Len(s), NEW j \in Kids(s[i].type)
      PROVE  u[i].values[j] = t[i].values[j]
  <2>1. i \in 1..Len(t) /\ j \in Kids(t[i].type) /\ i # q.table
    BY <1>1, <1>2
  <2>2. QED  BY <1>3, <2>1 DEF Elsewhere
<1>5. Elsewhere(s, u, p.table, p.k)
  BY <1>3, <1>4 DEF Elsewhere
<1>6. u[p.table].values[p.k] > Len(s)
  BY <1>1, <1>3, <1>4
<1>7. NoneFull(s, u)
  <2>1. ASSUME NEW n \in (Len(s) + 1)..Len(u)
        PROVE  u[n].type # 1
    <3>1. CASE n <= Len(t)
      <4>1. n \in (Len(s) + 1)..Len(t) /\ n \in 1..Len(t)
        BY <1>1, <3>1
      <4>2. QED  BY <1>2, <1>3, <4>1 DEF NoneFull
    <3>2. CASE ~(n <= Len(t))
      <4>1. n \in (Len(t) + 1)..Len(u)
        BY <1>1, <3>2
      <4>2. QED  BY <1>3, <4>1 DEF NoneFull
    <3>3. QED  BY <3>1, <3>2
  <2>2. QED  BY <2>1 DEF NoneFull
<1>8. QED  BY <1>5, <1>6, <1>7 DEF Fills, s

\* A place without an error at which there is nothing.
Empty(p) == p.status = NoError /\ Entry(p) = NULL
\* From there to another one, on the same entry or in a new table below it.
Deepens(p, q) ==
  Empty(q) /\ (q # p => Fills(p, q.tables) /\ q.table > Len(p.tables))

\* Two such moves, one after the other, are one.
LEMMA DeepensOn ==
  ASSUME NEW N, NEW p, NEW q, NEW r, Spot(p, N), Moves(p, q, N), Moves(q, r, N),
         Deepens(p, q), Deepens(q, r)
  PROVE  Deepens(p, r)
<1>1. Spot(q, N) /\ Spot(r, N) /\ Grows(p.tables, q.tables) /\ Grows(q.tables, r.tables)
  BY DEF Moves
<1>2. CASE q # p /\ r # q
  <2>1. Fills(p, q.tables) /\ q.table > Len(p.tables) /\ Fills(q, r.tables) /\ r.table > Len(q.tables)
    BY <1>2 DEF Deepens
  <2>2. Sound(r.tables, N)
    BY <1>1 DEF Spot
  <2> DEFINE u == r.tables
  <2> HIDE DEF u
  <2>3. Sound(u, N) /\ Grows(q.tables, u) /\ Fills(q, u)
    BY <1>1, <2>1, <2>2 DEF u
  <2>4. Fills(p, u)
    BY <1>1, <2>1, <2>3, FillsOn
  <2>5. Len(p.tables) \in Nat /\ Len(q.tables) \in Nat /\ r.table \in Nat
    BY <1>1, SpotFacts
  <2>6. r.table > Len(p.tables)
    BY <1>1, <2>1, <2>5 DEF Grows
  <2>7. QED  BY <2>4, <2>6 DEF Deepens, u
<1>3. QED  BY <1>2 DEF Deepens

\* A new table at an empty place fills it.
FilledAt(p, q, N) == Moves(p, q, N) /\ q.status = NoError /\ Fills(p, q.tables)
LEMMA NewFills ==
  ASSUME NEW N \in Nat, NEW p, Spot(p, N), Empty(p),
         NEW type \in 0..6, type # 1, type \in Below[TypeAt(p)], NEW encoding \in 0..N
  PROVE  FilledAt(p, New(p, Table(type, encoding)), N)
<1> DEFINE q == New(p, Table(type, encoding))
<1>1. AddedAt(p, q, type, N)
  <2>1. Entry(p) = NULL
    BY DEF Empty
  <2>2. QED  BY <2>1, NewIsSpot, Zenon
<1> HIDE DEF q
<1>2. Len(p.tables) \in Nat
  BY SpotFacts
<1>3. q.tables[p.table].values[p.k] = Len(p.tables) + 1
  BY <1>1 DEF Entry, AddedAt
<1>4. NoneFull(p.tables, q.tables)
  <2>1. \A n \in (Len(p.tables) + 1)..Len(q.tables) : n = Entry(q)
    BY <1>1, <1>2 DEF AddedAt
  <2>2. QED  BY <1>1, <2>1 DEF NoneFull, AddedAt
<1>5. QED  BY <1>1, <1>2, <1>3, <1>4 DEF Fills, Empty, AddedAt, FilledAt, q

\* At q, entry k of a new table, to which place p leads.
MadeBelow(p, q, type, k, N) ==
  /\ Moves(p, q, N) /\ q.status = NoError /\ TypeAt(q) = type /\ q.k = k
  /\ q.table = Len(p.tables) + 1 /\ Len(q.tables) = Len(p.tables) + 1
  /\ q.tables[p.table].values[p.k] = q.table
  /\ Elsewhere(p.tables, q.tables, p.table, p.k)
  /\ \A j \in Kids(type) : q.tables[q.table].values[j] = NULL

\* A descent from an empty place ends in a new table.
LEMMA DescendMakes ==
  ASSUME NEW N \in Nat, NEW p, Spot(p, N), Empty(p), NEW type \in 1..6,
         type \in Below[TypeAt(p)], NEW k \in Kids(type)
  PROVE  MadeBelow(p, Descend(p, type, k), type, k, N)
<1> DEFINE q == Descend(p, type, k)
           v == New(p, Table(type, NULL))
           w == [v EXCEPT !.table = Entry(v), !.k = k]
<1>1. Moves(p, q, N) /\ (q.status = NoError => TypeAt(q) = type)
  BY DescendIsSpot
<1>2. type \in 0..6 /\ NULL \in 0..N /\ k \in Nat
  BY KidsNumbers DEF NULL
<1>3. Entry(p) = NULL /\ p.status = NoError
  BY DEF Empty
<1>4. AddedAt(p, v, type, N)
  BY <1>2, <1>3, NewIsSpot, Zenon
<1>5. q = w
  <2> DEFINE r == IF Entry(p) = NULL THEN New(p, Table(type, NULL)) ELSE p
  <2>1. q = IF p.status # NoError THEN p
            ELSE IF r.tables[Entry(r)].type # type THEN Conflict(p)
            ELSE [r EXCEPT !.table = Entry(r), !.k = k]
    BY DEF Descend
  <2>2. r = v
    BY DEF Empty
  <2> HIDE DEF q, r, v
  <2>3. QED  BY <1>3, <1>4, <2>1, <2>2 DEF AddedAt
<1> HIDE DEF q, v
<1>6. v \in PlaceRecords
  BY <1>4 DEF AddedAt, Moves, Spot
<1>7. w.tables = v.tables /\ w.table = Entry(v) /\ w.k = k /\ w.status = v.status
  BY <1>6 DEF PlaceRecords
<1> HIDE DEF w
<1>8. q.tables = v.tables /\ q.table = Len(p.tables) + 1 /\ q.k = k /\ q.status = NoError
  BY <1>3, <1>4, <1>5, <1>7 DEF AddedAt
<1>9. q.tables[p.table].values[p.k] = q.table
  BY <1>4, <1>8 DEF Entry, AddedAt
<1>10. QED  BY <1>1, <1>4, <1>8, <1>9 DEF AddedAt, MadeBelow, q

\* This fills the place, unless the new table is a full one.
DescendedTo(p, q, type, k, N) ==
  MadeBelow(p, q, type, k, N) /\ Deepens(p, q) /\ Fills(p, q.tables)
LEMMA DescendDeepens ==
  ASSUME NEW N \in Nat, NEW p, Spot(p, N), Empty(p), NEW type \in 1..6, type # 1,
         type \in Below[TypeAt(p)], NEW k \in Kids(type)
  PROVE  DescendedTo(p, Descend(p, type, k), type, k, N)
<1> DEFINE q == Descend(p, type, k)
<1>1. MadeBelow(p, q, type, k, N)
  BY DescendMakes, Zenon
<1> HIDE DEF q
<1>2. Len(p.tables) \in Nat
  BY SpotFacts
<1>3. NoneFull(p.tables, q.tables)
  <2>1. \A n \in (Len(p.tables) + 1)..Len(q.tables) : n = q.table
    BY <1>1, <1>2 DEF MadeBelow
  <2>2. QED  BY <1>1, <2>1 DEF NoneFull, MadeBelow, TypeAt
<1>4. Fills(p, q.tables) /\ q.table > Len(p.tables)
  BY <1>1, <1>2, <1>3 DEF MadeBelow, Fills
<1>5. Empty(q)
  BY <1>1 DEF MadeBelow, Empty, Entry
<1>6. QED  BY <1>1, <1>4, <1>5 DEF DescendedTo, Deepens, q

\* An empty place is not refused.
LEMMA RefusesNone ==
  ASSUME NEW p, Empty(p), NEW types
  PROVE  Refuse(p, types) = p
  BY DEF Refuse, Empty

\* Below an empty place there is an empty leaf.
LEMMA LeafDeepens ==
  ASSUME NEW N \in Nat, NEW r \in OpcodeRecords, NEW p, Spot(p, N), NEW tags,
         Empty(p), TypeAt(p) \in {1, 2, 3}
  PROVE  LET q == Vacant(AtMode(AtRm(p, r), tags))
         IN  Moves(p, q, N) /\ Deepens(p, q)
<1> DEFINE m == AtRm(p, r)
           o == AtMode(m, tags)
           q == Vacant(o)
<1>0. Moves(p, p, N) /\ Deepens(p, p)
  BY MovesNowhere DEF Deepens
<1>1. Moves(p, m, N) /\ Deepens(p, m) /\ TypeAt(m) \in {1, 2, 3, 5}
  <2>1. CASE r.rm = NoReg
    BY <1>0, <2>1, RefusesNone DEF AtRm
  <2>2. CASE r.rm # NoReg
    <3> DEFINE k == r.rm
    <3>1. m = Descend(p, 5, k)
      BY <2>2 DEF AtRm
    <3>2. k \in Kids(5)
      BY <2>2, KidsOf DEF OpcodeRecords
    <3>3. 5 \in 1..6 /\ 5 # 1 /\ 5 \in Below[TypeAt(p)]
      BY BelowTypes
    <3> HIDE DEF k, m, o, q
    <3>4. DescendedTo(p, Descend(p, 5, k), 5, k, N)
      BY <3>2, <3>3, DescendDeepens, Zenon
    <3>5. QED  BY <3>1, <3>4 DEF DescendedTo, MadeBelow
  <2>3. QED  BY <2>1, <2>2
<1> HIDE DEF m
<1>2. Spot(m, N) /\ Empty(m)
  BY <1>1 DEF Moves, Deepens
<1>3. Moves(m, o, N) /\ Deepens(m, o)
  <2>1. CASE tags \cap {"like_arpl", "like_movsxd"} = {}
    BY <1>2, <2>1, MovesNowhere DEF AtMode, Deepens
  <2>2. CASE tags \cap {"like_arpl", "like_movsxd"} # {}
    <3> DEFINE k == IF "like_movsxd" \in tags THEN 1 ELSE 0
    <3>1. o = Descend(m, 6, k)
      BY <2>2 DEF AtMode
    <3>2. k \in Kids(6)
      BY KidsOf
    <3>3. 6 \in 1..6 /\ 6 # 1 /\ 6 \in Below[TypeAt(m)]
      BY <1>1, BelowTypes
    <3> HIDE DEF k, o, q
    <3>4. DescendedTo(m, Descend(m, 6, k), 6, k, N)
      BY <1>2, <3>2, <3>3, DescendDeepens, Zenon
    <3>5. QED  BY <3>1, <3>4 DEF DescendedTo, MadeBelow
  <2>3. QED  BY <2>1, <2>2
<1>4. q = o
  BY <1>3, RefusesNone DEF Vacant, Deepens
<1> HIDE DEF o
<1>5. Moves(p, o, N) /\ Deepens(p, o)
  BY <1>1, <1>3, MovesOn, DeepensOn
<1>6. QED  BY <1>4, <1>5 DEF o, m

-----------------------------------------------------------------------------
(* A call that has its entry for itself *)

\* The entry of a table of fields that a call is for.
Field(c) == c.ext + RegCount * c.mod

\* There is nothing where call c enters an encoding of opcode r.
Free(c, t, r) ==
  LET x == t[c.table].values[c.k]
  IN  IF r.regop = NoReg THEN x = NULL
      ELSE x # NULL => t[x].type = 3 /\ t[x].values[Field(c)] = NULL

\* The entry of the fields, q, of a call that has it for itself.
FreeFields(c, r, q, N) ==
  LET p == Place(c.table, c.k)
  IN  /\ Moves(p, q, N) /\ Empty(q) /\ TypeAt(q) \in {1, 2, 3}
      /\ r.regop = NoReg => q = p
      /\ r.regop # NoReg =>
           /\ TypeAt(q) = 3 /\ q.k = Field(c)
           /\ q.table = q.tables[c.table].values[c.k]
           /\ \/ q.tables = tables
              \/ /\ Fills(p, q.tables) /\ q.table = Len(tables) + 1
                 /\ \A j \in Kids(3) : q.tables[q.table].values[j] = NULL

\* A call is for an entry of a table of fields.
LEMMA FieldsOf ==
  ASSUME NEW c \in CallRecords
  PROVE  Field(c) \in Kids(3)
<1>1. Field(c) \in 0..(4 * RegCount - 1)
  <2>1. RegCount \in Nat /\ c.ext \in 0..(RegCount - 1)
    BY CountsAssumption DEF Reg, CallRecords
  <2>2. c.mod \in {0, 1, 2, 3}
    BY DEF CallRecords
  <2>3. RegCount * c.mod \in {0, RegCount, 2 * RegCount, 3 * RegCount}
    BY <2>1, <2>2
  <2>4. QED  BY <2>1, <2>3 DEF Field
<1>2. QED  BY <1>1, KidsOf

\* What is free is entered at such an entry of the fields,
LEMMA FieldsAreFree ==
  ASSUME NEW N \in Nat, Sound(tables, N), NEW r \in OpcodeRecords, NEW c,
         Callable(c, tables, r), Free(c, tables, r)
  PROVE  FreeFields(c, r, AtFields(c, r), N)
<1> DEFINE p == Place(c.table, c.k)
           q == AtFields(c, r)
           f == Field(c)
<1>1. /\ p.tables = tables /\ Spot(p, N) /\ Moves(p, q, N)
      /\ q.status = NoError => /\ TypeAt(q) \in {1, 2, 3}
                               /\ r.regop # NoReg => TypeAt(q) = 3
  BY FieldsFound
<1>2. c \in CallRecords /\ tables[c.table].type \in {1, 2} /\ p.table = c.table /\ p.k = c.k
      /\ p.status = NoError /\ f \in Kids(3)
  BY FieldsOf DEF Callable, Place
<1>3. q = IF r.regop = NoReg THEN Refuse(p, 0..4) ELSE Descend(p, 3, f)
  BY DEF AtFields, Field
<1> HIDE DEF p, q, f
<1>4. TypeAt(p) \in {1, 2} /\ Entry(p) = tables[c.table].values[c.k]
  BY <1>1, <1>2 DEF TypeAt, Entry
<1>5. CASE r.regop = NoReg
  <2>1. Empty(p)
    BY <1>2, <1>4, <1>5 DEF Empty, Free
  <2>2. q = p
    BY <1>3, <1>5, <2>1, RefusesNone
  <2>3. QED  BY <1>1, <1>5, <2>1, <2>2 DEF FreeFields, Empty, p, q
<1>6. CASE r.regop # NoReg /\ Entry(p) = NULL
  <2>1. Empty(p) /\ 3 \in 1..6 /\ 3 # 1 /\ 3 \in Below[TypeAt(p)]
    BY <1>2, <1>4, <1>6, BelowTypes DEF Empty
  <2>2. DescendedTo(p, Descend(p, 3, f), 3, f, N)
    BY <1>1, <1>2, <2>1, DescendDeepens, Zenon
  <2>3. DescendedTo(p, q, 3, f, N)
    BY <1>3, <1>6, <2>2
  <2>4. Moves(p, q, N) /\ Empty(q) /\ TypeAt(q) = 3 /\ q.k = f /\ q.table = Len(tables) + 1
        /\ q.tables[c.table].values[c.k] = q.table /\ Fills(p, q.tables)
        /\ \A j \in Kids(3) : q.tables[q.table].values[j] = NULL
    BY <1>1, <1>2, <2>3 DEF DescendedTo, MadeBelow, Deepens
  <2>5. QED  BY <1>6, <2>4 DEF FreeFields, p, f, q
<1>7. CASE r.regop # NoReg /\ Entry(p) # NULL
  <2>1. tables[Entry(p)].type = 3 /\ tables[Entry(p)].values[f] = NULL
    BY <1>4, <1>7 DEF Free, f
  <2>2. q = [p EXCEPT !.table = Entry(p), !.k = f]
    BY <1>1, <1>2, <1>3, <1>7, <2>1 DEF Descend
  <2>3. q.tables = tables /\ q.table = Entry(p) /\ q.k = f /\ q.status = NoError
    BY <1>1, <1>2, <2>2 DEF Spot, PlaceRecords
  <2>4. Empty(q) /\ TypeAt(q) = 3 /\ q.table = q.tables[c.table].values[c.k]
    BY <1>4, <2>1, <2>3 DEF Empty, Entry, TypeAt
  <2>5. QED  BY <1>1, <1>7, <2>3, <2>4 DEF FreeFields, p, f, q
<1>8. QED  BY <1>5, <1>6, <1>7

\* What entering an encoding at the fields q leaves: only this entry of the
\* tables of q is changed.
Enters(q, e, N) ==
  /\ e.status = NoError /\ Moves(q, e, N) /\ Elsewhere(q.tables, e.tables, q.table, q.k)
  /\ NoneFull(q.tables, e.tables)
  /\ TypeAt(q) # 3 => e.tables[q.table].values[q.k] > Len(q.tables)

\* and there the encoding is entered.
LEMMA FreeIsEntered ==
  ASSUME NEW N \in Nat, Sound(tables, N), Last(info) \in OpcodeRecords, NEW c,
         Callable(c, tables, Last(info)), Number \in 0..N, Free(c, tables, Last(info)),
         Last(info).regop = NoReg => Last(info).mod = NoMod
  PROVE  Enters(AtFields(c, Last(info)), Entered(c), N)
<1> DEFINE r == Last(info)
           q == AtFields(c, r)
           tags == Building.tags
           leaf == Vacant(AtMode(AtRm(q, r), tags))
           new == New(leaf, Table(0, Number))
           e == Entered(c)
<1>1. FreeFields(c, r, q, N)
  <2> HIDE DEF r, q, leaf, new, e
  <2>1. r \in OpcodeRecords /\ Callable(c, tables, r) /\ Free(c, tables, r)
    BY DEF r
  <2>2. FreeFields(c, r, AtFields(c, r), N)
    BY <2>1, FieldsAreFree, Zenon
  <2>3. QED  BY <2>2 DEF q
<1>2. Spot(q, N) /\ Empty(q) /\ TypeAt(q) \in {1, 2, 3} /\ (r.regop # NoReg => TypeAt(q) = 3)
      /\ q.status = NoError
  BY <1>1 DEF FreeFields, Moves, Empty
<1>3. r \in OpcodeRecords /\ c.ext \in Reg /\ (c.shared => r.regop # NoReg)
      /\ (r.regop = NoReg => r.mod = NoMod)
  BY DEF Callable, CallRecords
<1>4. e = IF r.mod # NoMod /\ r.regop = NoReg THEN Conflict(q)
          ELSE IF q.status # NoError THEN q
          ELSE IF c.shared THEN Share(q, c.ext)
          ELSE IF leaf.status # NoError THEN leaf
          ELSE new
  BY DEF Entered
<1> HIDE DEF q, r, e, tags
<1>5. Moves(q, leaf, N) /\ Deepens(q, leaf)
  BY <1>2, <1>3, LeafDeepens
<1>6. CASE c.shared
  <2> DEFINE o == Share(q, c.ext)
  <2>1. c.ext \in Kids(TypeAt(q)) /\ TypeAt(q) = 3
    <3>1. Reg \subseteq 0..(4 * RegCount - 1)
      BY CountsAssumption DEF Reg
    <3>2. QED  BY <1>2, <1>3, <1>6, <3>1, KidsOf
  <2>2. /\ Moves(q, o, N) /\ o.status = q.status /\ Len(o.tables) = Len(q.tables)
        /\ Elsewhere(q.tables, o.tables, q.table, q.k)
    BY <1>2, <2>1, ShareIsSpot DEF Empty
  <2>3. e = o
    BY <1>2, <1>3, <1>4, <1>6
  <2> HIDE DEF o
  <2>4. NoneFull(q.tables, o.tables)
    <3>1. Len(q.tables) \in Nat
      BY <1>2, SpotFacts
    <3>2. QED  BY <2>2, <3>1 DEF NoneFull
  <2>5. QED  BY <1>2, <2>1, <2>2, <2>3, <2>4 DEF Enters, e, q, r
<1> HIDE DEF leaf
<1>7. CASE ~c.shared
  <2>1. Spot(leaf, N) /\ Empty(leaf) /\ leaf.status = NoError
    BY <1>5 DEF Moves, Deepens, Empty
  <2>2. FilledAt(leaf, new, N)
    <3>1. 0 \in 0..6 /\ 0 # 1 /\ 0 \in Below[TypeAt(leaf)]
      BY <2>1, SpotFacts, BelowTypes
    <3>2. QED  BY <2>1, <3>1, NewFills, Zenon
  <2>3. e = new
    BY <1>2, <1>3, <1>4, <1>7, <2>1
  <2> HIDE DEF new
  <2>4. Moves(leaf, new, N) /\ new.status = NoError /\ Fills(leaf, new.tables)
    BY <2>2 DEF FilledAt
  <2>5. Moves(q, new, N)
    BY <1>2, <1>5, <2>4, MovesOn
  <2>6. Fills(q, new.tables)
    <3>1. CASE leaf = q
      BY <2>4, <3>1
    <3>2. CASE leaf # q
      <4> DEFINE u == new.tables
      <4>1. Sound(u, N) /\ Grows(leaf.tables, u) /\ Fills(leaf, u) /\ Grows(q.tables, leaf.tables)
            /\ Fills(q, leaf.tables) /\ leaf.table > Len(q.tables)
        BY <1>5, <2>4, <3>2 DEF Moves, Spot, Deepens
      <4> HIDE DEF u
      <4>2. Fills(q, u)
        BY <1>2, <2>1, <4>1, FillsOn
      <4>3. QED  BY <4>2 DEF u
    <3>3. QED  BY <3>1, <3>2
  <2>7. Enters(q, e, N)
    BY <2>3, <2>4, <2>5, <2>6 DEF Enters, Fills
  <2>8. QED  BY <2>7 DEF e, q, r
<1>8. QED  BY <1>6, <1>7

-----------------------------------------------------------------------------
(* Calls that have their entries each for itself *)

Slot(c, t) == t[c.table].values[c.k]

\* Two calls enter the encoding at two places,
Distinct(cs, r) ==
  \A i, j \in 1..Len(cs) :
    /\ cs[i].table = cs[j].table /\ cs[i].k = cs[j].k
    /\ r.regop # NoReg => Field(cs[i]) = Field(cs[j])
    => i = j
\* at which there is nothing, in tables of fields that they do not share
\* unless they are for one entry.
FreeCalls(cs, t, r) ==
  /\ \A i \in 1..Len(cs) : Free(cs[i], t, r)
  /\ \A i, j \in 1..Len(cs) :
       Slot(cs[i], t) = Slot(cs[j], t) /\ Slot(cs[i], t) # NULL =>
         cs[i].table = cs[j].table /\ cs[i].k = cs[j].k

\* What the slot of a call can be.
LEMMA SlotFacts ==
  ASSUME NEW N, NEW t, Sound(t, N), NEW c, NEW r, Callable(c, t, r)
  PROVE  /\ c.table \in 1..Len(t) /\ c.k \in Kids(t[c.table].type)
         /\ t[c.table].type \in {1, 2} /\ Slot(c, t) \in 0..Len(t) /\ Field(c) \in Kids(3)
         /\ Slot(c, t) # NULL => Slot(c, t) \in 1..Len(t)
<1>1. c \in CallRecords /\ c.table \in 1..Len(t) /\ c.k \in Kids(t[c.table].type)
      /\ t[c.table].type \in {1, 2}
  BY DEF Callable
<1>2. Slot(c, t) \in 0..Len(t)
  BY <1>1 DEF Sound, Typed, Slot
<1>3. QED  BY <1>1, <1>2, FieldsOf DEF NULL

\* A new table of fields for a call is as good for the others.
LEMMA FieldsMade ==
  ASSUME NEW N, NEW t, NEW u, Sound(t, N), Grows(t, u), NEW r, r.regop # NoReg,
         NEW cs, Servable(cs, t, r), FreeCalls(cs, t, r), NEW c, Callable(c, t, r),
         Elsewhere(t, u, c.table, c.k), Slot(c, u) = Len(t) + 1, u[Len(t) + 1].type = 3,
         \A j \in Kids(3) : u[Len(t) + 1].values[j] = NULL
  PROVE  FreeCalls(cs, u, r)
<1> DEFINE M == Len(t) + 1
<1>1. Len(t) \in Nat /\ c.table \in 1..Len(t) /\ t[c.table].type \in {1, 2}
  BY SlotFacts DEF Sound
<1>2. ASSUME NEW i \in 1..Len(cs)
      PROVE  /\ cs[i].table \in 1..Len(t) /\ cs[i].k \in Kids(t[cs[i].table].type)
             /\ Field(cs[i]) \in Kids(3) /\ Slot(cs[i], t) \in 0..Len(t)
             /\ Slot(cs[i], t) # NULL => Slot(cs[i], t) \in 1..Len(t)
  <2>1. Callable(cs[i], t, r)
    BY DEF Servable
  <2>2. QED  BY <2>1, SlotFacts
<1>3. ASSUME NEW i \in 1..Len(cs)
      PROVE  Slot(cs[i], u) = IF cs[i].table = c.table /\ cs[i].k = c.k THEN M ELSE Slot(cs[i], t)
  BY <1>2 DEF Elsewhere, Slot
<1>4. ASSUME NEW i \in 1..Len(cs), Slot(cs[i], u) # NULL
      PROVE  u[Slot(cs[i], u)].type = 3 /\ u[Slot(cs[i], u)].values[Field(cs[i])] = NULL
  <2>1. CASE Slot(cs[i], u) = M
    BY <1>2, <2>1
  <2>2. CASE Slot(cs[i], u) # M
    <3> DEFINE x == Slot(cs[i], t)
    <3>1. Slot(cs[i], u) = x
      BY <1>3, <2>2
    <3>2. x # NULL /\ x \in 1..Len(t)
      BY <1>2, <1>4, <3>1
    <3>3. t[x].type = 3 /\ t[x].values[Field(cs[i])] = NULL
      BY <3>2 DEF FreeCalls, Free, Slot
    <3> HIDE DEF x
    <3>4. x # c.table
      BY <1>1, <3>3
    <3>5. u[x].values[Field(cs[i])] = t[x].values[Field(cs[i])]
      BY <1>2, <3>2, <3>3, <3>4 DEF Elsewhere
    <3>6. u[x].type = 3
      BY <3>2, <3>3 DEF Grows
    <3>7. QED  BY <3>1, <3>3, <3>5, <3>6
  <2>3. QED  BY <2>1, <2>2
<1>5. ASSUME NEW i \in 1..Len(cs)
      PROVE  Free(cs[i], u, r)
  BY <1>4 DEF Free, Slot
<1>6. ASSUME NEW i \in 1..Len(cs), NEW j \in 1..Len(cs),
             Slot(cs[i], u) = Slot(cs[j], u), Slot(cs[i], u) # NULL
      PROVE  cs[i].table = cs[j].table /\ cs[i].k = cs[j].k
  <2>1. Slot(cs[i], t) # M /\ Slot(cs[j], t) # M
    BY <1>1, <1>2
  <2>2. QED  BY <1>3, <1>6, <2>1 DEF FreeCalls
<1>7. QED  BY <1>5, <1>6 DEF FreeCalls

\* All but one of the calls are as free as they were when it has been served.
LEMMA CallServed ==
  ASSUME NEW N, NEW t, NEW u, Sound(t, N), Grows(t, u), NEW r,
         NEW cs, Servable(cs, t, r), FreeCalls(cs, t, r), Distinct(cs, r),
         NEW l \in 1..Len(cs), NEW n, NEW k, Elsewhere(t, u, n, k),
         IF r.regop = NoReg THEN n = cs[l].table /\ k = cs[l].k
         ELSE n = Slot(cs[l], t) /\ t[n].type = 3 /\ k = Field(cs[l]) /\ n # NULL
  PROVE  \A i \in 1..Len(cs) : i # l => Free(cs[i], u, r) /\ Slot(cs[i], u) = Slot(cs[i], t)
<1>1. SUFFICES ASSUME NEW i \in 1..Len(cs), i # l
               PROVE  Free(cs[i], u, r) /\ Slot(cs[i], u) = Slot(cs[i], t)
  OBVIOUS
<1> DEFINE d == cs[i]
           x == Slot(d, t)
<1>2. /\ d.table \in 1..Len(t) /\ d.k \in Kids(t[d.table].type)
      /\ t[d.table].type \in {1, 2} /\ Field(d) \in Kids(3)
      /\ x # NULL => x \in 1..Len(t)
  <2>1. Callable(d, t, r)
    BY DEF Servable
  <2>2. QED  BY <2>1, SlotFacts
<1>3. Free(d, t, r)
  BY DEF FreeCalls
<1>4. CASE r.regop = NoReg
  <2>1. ~(d.table = n /\ d.k = k)
    BY <1>1, <1>4 DEF Distinct
  <2>2. Slot(d, u) = x
    BY <1>2, <2>1 DEF Elsewhere, Slot
  <2>3. QED  BY <1>3, <1>4, <2>2 DEF Free, Slot
<1>5. CASE r.regop # NoReg
  <2>1. n = Slot(cs[l], t) /\ n # NULL /\ t[n].type = 3 /\ k = Field(cs[l])
    BY <1>5
  <2>2. Slot(d, u) = x
    <3>1. d.table # n
      BY <1>2, <2>1
    <3>2. QED  BY <1>2, <3>1 DEF Elsewhere, Slot
  <2>3. ASSUME x # NULL
        PROVE  u[x].type = 3 /\ u[x].values[Field(d)] = NULL
    <3>1. t[x].type = 3 /\ t[x].values[Field(d)] = NULL
      BY <1>3, <1>5, <2>3 DEF Free, Slot
    <3>2. ~(x = n /\ Field(d) = k)
      <4>1. ASSUME x = n, Field(d) = k
            PROVE  FALSE
        <5>1. d.table = cs[l].table /\ d.k = cs[l].k
          BY <2>1, <2>3, <4>1 DEF FreeCalls
        <5>2. QED  BY <1>1, <2>1, <4>1, <5>1 DEF Distinct
      <4>2. QED  BY <4>1
    <3>3. u[x].values[Field(d)] = t[x].values[Field(d)]
      BY <1>2, <2>3, <3>1, <3>2 DEF Elsewhere
    <3>4. u[x].type = t[x].type
      BY <1>2, <2>3 DEF Grows
    <3>5. QED  BY <3>1, <3>3, <3>4
  <2>4. QED  BY <1>5, <2>2, <2>3 DEF Free, Slot
<1>6. QED  BY <1>4, <1>5

\* The first call is served, the others are left.
LEMMA FirstServed ==
  ASSUME NEW N, NEW t, NEW u, Sound(t, N), Grows(t, u), NEW r,
         NEW cs, cs # <<>>, Servable(cs, t, r), FreeCalls(cs, t, r), Distinct(cs, r),
         NEW n, NEW k, Elsewhere(t, u, n, k),
         IF r.regop = NoReg THEN n = Head(cs).table /\ k = Head(cs).k
         ELSE n = Slot(Head(cs), t) /\ t[n].type = 3 /\ k = Field(Head(cs)) /\ n # NULL
  PROVE  FreeCalls(Tail(cs), u, r) /\ Distinct(Tail(cs), r)
<1> DEFINE tl == Tail(cs)
<1>1. Len(tl) \in Nat /\ 1 \in 1..Len(cs) /\ Head(cs) = cs[1]
      /\ \A i \in 1..Len(tl) : tl[i] = cs[i + 1] /\ i + 1 \in 1..Len(cs) /\ i + 1 # 1
  BY DEF Servable
<1>2. \A i \in 1..Len(cs) : i # 1 => Free(cs[i], u, r) /\ Slot(cs[i], u) = Slot(cs[i], t)
  <2> DEFINE l == 1
  <2>1. l \in 1..Len(cs)
        /\ IF r.regop = NoReg THEN n = cs[l].table /\ k = cs[l].k
           ELSE n = Slot(cs[l], t) /\ t[n].type = 3 /\ k = Field(cs[l]) /\ n # NULL
    BY <1>1
  <2> HIDE DEF l
  <2>2. \A i \in 1..Len(cs) : i # l => Free(cs[i], u, r) /\ Slot(cs[i], u) = Slot(cs[i], t)
    BY <2>1, CallServed
  <2>3. QED  BY <2>2 DEF l
<1> HIDE DEF tl
<1>3. FreeCalls(tl, u, r)
  <2>1. \A i \in 1..Len(tl) : Free(tl[i], u, r)
    BY <1>1, <1>2
  <2>2. ASSUME NEW i \in 1..Len(tl), NEW j \in 1..Len(tl),
               Slot(tl[i], u) = Slot(tl[j], u), Slot(tl[i], u) # NULL
        PROVE  tl[i].table = tl[j].table /\ tl[i].k = tl[j].k
    <3>1. /\ tl[i] = cs[i + 1] /\ tl[j] = cs[j + 1]
          /\ i + 1 \in 1..Len(cs) /\ j + 1 \in 1..Len(cs)
          /\ Slot(cs[i + 1], u) = Slot(cs[i + 1], t) /\ Slot(cs[j + 1], u) = Slot(cs[j + 1], t)
      BY <1>1, <1>2
    <3>2. Slot(cs[i + 1], t) = Slot(cs[j + 1], t) /\ Slot(cs[i + 1], t) # NULL
      BY <2>2, <3>1
    <3>3. QED  BY <3>1, <3>2 DEF FreeCalls
  <2>3. QED  BY <2>1, <2>2 DEF FreeCalls
<1>4. Distinct(tl, r)
  <2>1. ASSUME NEW i \in 1..Len(tl), NEW j \in 1..Len(tl), tl[i].table = tl[j].table,
               tl[i].k = tl[j].k, r.regop # NoReg => Field(tl[i]) = Field(tl[j])
        PROVE  i = j
    <3>1. i + 1 = j + 1
      BY <1>1, <2>1 DEF Distinct
    <3>2. QED  BY <1>1, <3>1
  <2>2. QED  BY <2>1 DEF Distinct
<1>5. QED  BY <1>3, <1>4 DEF tl

-----------------------------------------------------------------------------
(* What fills a full table *)

\* By path, the opcode bytes that lead to each full table: an entry of it that
\* is taken is for a string of B, and leads to the full table of this string, or
\* the string is in C.
Led(path, t, B, C) ==
  \A n \in 1..Len(t) : t[n].type = 1 =>
    \A k \in Byte :
      LET x == t[n].values[k]
          w == Append(path[n], k)
      IN  x # NULL => w \in B /\ IF t[x].type = 1 THEN path[x] = w ELSE w \in C

\* The bytes left to do are free, and so are they and the calls' for the encoding
\* that is being entered, of strings C.
Clear(path, t, n, os, cs, C) ==
  /\ \A i \in 1..Len(os) : t[n].values[os[i]] = NULL /\ Append(path[n], os[i]) \in C
  /\ \A j \in 1..Len(cs) :
       /\ t[cs[j].table].type = 1 => Append(path[cs[j].table], cs[j].k) \in C
       /\ cs[j].table = n => \A i \in 1..Len(os) : cs[j].k # os[i]

\* Entry k of table m is written, below it only tables that are not full are made.
Writes(t, u, m, k) ==
  /\ Grows(t, u) /\ Elsewhere(t, u, m, k) /\ NoneFull(t, u)
  /\ t[m].type = 1 => u[m].values[k] > Len(t)

\* Such a step keeps what the full tables are led to by, if it is for a string of C.
LEMMA LedKept ==
  ASSUME NEW N, NEW t, NEW u, Sound(t, N), Sound(u, N), NEW m \in 1..Len(t),
         NEW k \in Kids(t[m].type), Writes(t, u, m, k),
         NEW path, NEW B, NEW C, Led(path, t, B, C), C \subseteq B,
         t[m].type = 1 => Append(path[m], k) \in C
  PROVE  Led(path, u, B, C)
<1>1. Len(t) \in Nat /\ Len(u) \in Nat
  BY DEF Sound
<1>2. SUFFICES ASSUME NEW n \in 1..Len(u), u[n].type = 1, NEW j \in Byte, u[n].values[j] # NULL
               PROVE  LET x == u[n].values[j]
                          w == Append(path[n], j)
                      IN  w \in B /\ IF u[x].type = 1 THEN path[x] = w ELSE w \in C
  BY DEF Led
<1> DEFINE x == u[n].values[j]
           w == Append(path[n], j)
<1>3. n \in 1..Len(t) /\ t[n].type = 1 /\ j \in Kids(t[n].type)
  <2>1. n \in 1..Len(t)
    <3>1. ~(n \in (Len(t) + 1)..Len(u))
      BY <1>2 DEF Writes, NoneFull
    <3>2. QED  BY <1>1, <3>1
  <2>2. QED  BY <1>2, <2>1, KidsOf DEF Writes, Grows
<1>4. x \in 1..Len(u)
  <2>1. x \in 0..Len(u)
    BY <1>2, KidsOf DEF Sound, Typed
  <2>2. QED  BY <1>2, <2>1 DEF NULL
<1>5. CASE n = m /\ j = k
  <2>1. w \in C
    BY <1>3, <1>5
  <2>2. x \in (Len(t) + 1)..Len(u)
    BY <1>1, <1>3, <1>4, <1>5 DEF Writes
  <2>3. u[x].type # 1
    BY <2>2 DEF Writes, NoneFull
  <2>4. QED  BY <2>1, <2>3
<1>6. CASE ~(n = m /\ j = k)
  <2>1. x = t[n].values[j]
    BY <1>3, <1>6 DEF Writes, Elsewhere
  <2>2. w \in B /\ IF t[x].type = 1 THEN path[x] = w ELSE w \in C
    BY <1>2, <1>3, <2>1 DEF Led
  <2>3. x \in 1..Len(t)
    <3>1. t[n].values[j] \in 0..Len(t)
      BY <1>3 DEF Sound, Typed
    <3>2. QED  BY <1>1, <1>4, <2>1, <3>1
  <2>4. u[x].type = t[x].type
    BY <2>3 DEF Writes, Grows
  <2>5. QED  BY <2>2, <2>4
<1>7. QED  BY <1>5, <1>6

\* Such a step at another entry keeps what is clear.
LEMMA ClearKept ==
  ASSUME NEW t, NEW u, NEW m, NEW k, Writes(t, u, m, k),
         NEW n \in 1..Len(t), NEW os \in Seq(Byte), os # <<>> => t[n].type = 1,
         NEW r, NEW cs, Servable(cs, t, r), NEW path, NEW C, Clear(path, t, n, os, cs, C),
         m = n => \A i \in 1..Len(os) : k # os[i]
  PROVE  Clear(path, u, n, os, cs, C)
<1>1. ASSUME NEW i \in 1..Len(os)
      PROVE  u[n].values[os[i]] = NULL /\ Append(path[n], os[i]) \in C
  <2>1. os[i] \in Kids(t[n].type)
    <3>1. os # <<>> /\ os[i] \in Byte
      OBVIOUS
    <3>2. QED  BY <3>1, KidsOf
  <2>2. QED  BY <2>1 DEF Writes, Elsewhere, Clear
<1>2. ASSUME NEW j \in 1..Len(cs), u[cs[j].table].type = 1
      PROVE  Append(path[cs[j].table], cs[j].k) \in C
  <2>1. cs[j].table \in 1..Len(t)
    BY DEF Servable, Callable
  <2>2. t[cs[j].table].type = 1
    BY <1>2, <2>1 DEF Writes, Grows
  <2>3. QED  BY <2>2 DEF Clear
<1>3. QED  BY <1>1, <1>2 DEF Clear

\* What is being entered meets nothing in the tables t.
Fresh(path, t, n, os, cs, r, B, C) ==
  /\ Led(path, t, B, C) /\ C \subseteq B
  /\ Clear(path, t, n, os, cs, C) /\ Apart(os)
  /\ FreeCalls(cs, t, r) /\ Distinct(cs, r)

\* At the place e the first call has been served, and the others are as fresh.
ServedFresh(path, e, r, B, C) ==
  e.status = NoError /\ Fresh(path, e.tables, table, offsets, Tail(calls), r, B, C)

\* The next call meets nothing, and neither will those after it.
LEMMA EntryFresh ==
  ASSUME NEW N \in Nat, Sound(tables, N), table \in 1..Len(tables), offsets \in Seq(Byte),
         offsets # <<>> => tables[table].type = 1, NEW r, r = Last(info), r \in OpcodeRecords,
         calls # <<>>, Servable(calls, tables, r), Number \in 0..N,
         r.regop = NoReg => r.mod = NoMod,
         NEW path, NEW B, NEW C, Fresh(path, tables, table, offsets, calls, r, B, C),
         NEW e, e = Entered(Head(calls))
  PROVE  ServedFresh(path, e, r, B, C)
<1> DEFINE c == Head(calls)
           q == AtFields(c, r)
           p == Place(c.table, c.k)
           t == q.tables
           u == e.tables
<1>1. 1 \in 1..Len(calls) /\ c = calls[1] /\ Callable(c, tables, r) /\ Free(c, tables, r)
  <2>1. calls \in Seq(CallRecords)
    BY DEF Servable
  <2>2. 1 \in 1..Len(calls) /\ c = calls[1]
    BY <2>1
  <2>3. QED  BY <2>2 DEF Servable, Fresh, FreeCalls
<1>2. FreeFields(c, r, q, N) /\ Enters(q, e, N)
  <2> HIDE DEF c
  <2>1. FreeFields(c, r, AtFields(c, r), N)
    BY <1>1, FieldsAreFree, Zenon
  <2>2. Enters(AtFields(c, Last(info)), Entered(c), N)
    BY <1>1, FreeIsEntered
  <2>3. QED  BY <2>1, <2>2 DEF c
<1>3. c.table \in 1..Len(tables) /\ c.k \in Kids(tables[c.table].type)
      /\ tables[c.table].type \in {1, 2}
  BY <1>1, SlotFacts
<1>4. p.tables = tables /\ p.table = c.table /\ p.k = c.k
  BY DEF Place
<1> HIDE DEF q, c, p
<1>5. /\ Moves(p, q, N) /\ TypeAt(q) \in {1, 2, 3} /\ (r.regop = NoReg => q = p)
      /\ r.regop # NoReg =>
           /\ TypeAt(q) = 3 /\ q.k = Field(c) /\ q.table = Slot(c, t)
           /\ \/ t = tables
              \/ /\ Fills(p, t) /\ q.table = Len(tables) + 1
                 /\ \A j \in Kids(3) : t[q.table].values[j] = NULL
  BY <1>2 DEF FreeFields, Slot, p
<1>6. /\ Spot(q, N) /\ Sound(t, N) /\ Grows(tables, t) /\ q.table \in 1..Len(t)
      /\ q.k \in Kids(t[q.table].type) /\ TypeAt(q) = t[q.table].type
      /\ Len(tables) \in Nat /\ Len(t) \in Nat
  BY <1>4, <1>5 DEF Moves, Spot, TypeAt, Sound
<1>7. e.status = NoError /\ Writes(t, u, q.table, q.k) /\ Sound(u, N)
  BY <1>2, <1>6 DEF Enters, Writes, Moves, Spot
<1> HIDE DEF t, u
<1>8. Led(path, tables, B, C) /\ C \subseteq B /\ Clear(path, tables, table, offsets, calls, C)
      /\ Apart(offsets) /\ FreeCalls(calls, tables, r) /\ Distinct(calls, r)
  BY DEF Fresh
<1>9. tables[c.table].type = 1 => Append(path[c.table], c.k) \in C
  BY <1>1, <1>8 DEF Clear
<1>10. c.table = table => \A i \in 1..Len(offsets) : c.k # offsets[i]
  BY <1>1, <1>8 DEF Clear
<1>11. Servable(calls, t, r) /\ table \in 1..Len(t) /\ (offsets # <<>> => t[table].type = 1)
  <2>1. Servable(calls, t, r)
    BY <1>6, StillServable
  <2>2. QED  BY <1>6, <2>1 DEF Grows
<1>12. Led(path, t, B, C) /\ Clear(path, t, table, offsets, calls, C) /\ FreeCalls(calls, t, r)
  <2>1. CASE t = tables
    BY <1>8, <2>1
  <2>2. CASE t # tables
    <3>1. /\ r.regop # NoReg /\ Fills(p, t) /\ q.table = Len(tables) + 1 /\ TypeAt(q) = 3
          /\ q.table = Slot(c, t) /\ \A j \in Kids(3) : t[q.table].values[j] = NULL
      BY <1>4, <1>5, <2>2 DEF t
    <3>2. Writes(tables, t, c.table, c.k)
      BY <1>4, <1>6, <3>1 DEF Writes, Fills
    <3>3. Led(path, t, B, C)
      BY <1>3, <1>6, <1>8, <1>9, <3>2, LedKept
    <3>4. Clear(path, t, table, offsets, calls, C)
      BY <1>8, <1>10, <3>2, ClearKept
    <3>5. FreeCalls(calls, t, r)
      <4>1. /\ Elsewhere(tables, t, c.table, c.k) /\ Slot(c, t) = Len(tables) + 1
            /\ t[Len(tables) + 1].type = 3
            /\ \A j \in Kids(3) : t[Len(tables) + 1].values[j] = NULL
        BY <1>6, <3>1, <3>2 DEF Writes
      <4>2. QED  BY <1>1, <1>6, <1>8, <3>1, <4>1, FieldsMade
    <3>6. QED  BY <3>3, <3>4, <3>5
  <2>3. QED  BY <2>1, <2>2
<1>13. Led(path, u, B, C)
  <2>1. t[q.table].type = 1 => Append(path[q.table], q.k) \in C
    <3>1. ASSUME t[q.table].type = 1
          PROVE  Append(path[q.table], q.k) \in C
      <4>1. q = p
        BY <1>5, <1>6, <3>1
      <4>2. t = tables
        BY <1>4, <4>1 DEF t
      <4>3. QED  BY <1>4, <1>9, <3>1, <4>1, <4>2
    <3>2. QED  BY <3>1
  <2>2. QED  BY <1>6, <1>7, <1>8, <1>12, <2>1, LedKept
<1>14. Clear(path, u, table, offsets, calls, C)
  <2>1. q.table = table => \A i \in 1..Len(offsets) : q.k # offsets[i]
    <3>1. CASE r.regop = NoReg
      BY <1>4, <1>5, <1>10, <3>1
    <3>2. CASE r.regop # NoReg
      <4>1. t[q.table].type = 3
        BY <1>5, <1>6, <3>2
      <4>2. q.table = table => offsets = <<>>
        BY <1>11, <4>1
      <4>3. offsets = <<>> => 1..Len(offsets) = {}
        OBVIOUS
      <4>4. QED  BY <4>2, <4>3
    <3>3. QED  BY <3>1, <3>2
  <2>2. QED  BY <1>7, <1>11, <1>12, <2>1, ClearKept
<1>15. FreeCalls(Tail(calls), u, r) /\ Distinct(Tail(calls), r)
  <2> DEFINE n == q.table
             k == q.k
             cs == calls
  <2>1. IF r.regop = NoReg THEN n = Head(cs).table /\ k = Head(cs).k
        ELSE n = Slot(Head(cs), t) /\ t[n].type = 3 /\ k = Field(Head(cs)) /\ n # NULL
    <3>1. n # NULL
      BY <1>6 DEF NULL
    <3>2. QED  BY <1>4, <1>5, <1>6, <3>1 DEF c
  <2>2. Grows(t, u) /\ Elsewhere(t, u, n, k) /\ cs # <<>> /\ Servable(cs, t, r)
        /\ FreeCalls(cs, t, r) /\ Distinct(cs, r)
    BY <1>7, <1>8, <1>11, <1>12 DEF Writes
  <2> HIDE DEF n, k, cs
  <2>3. FreeCalls(Tail(cs), u, r) /\ Distinct(Tail(cs), r)
    BY <1>6, <2>1, <2>2, FirstServed
  <2>4. QED  BY <2>3 DEF cs
<1>16. Clear(path, u, table, offsets, Tail(calls), C)
  <2> DEFINE tl == Tail(calls)
  <2>1. \A i \in 1..Len(tl) : tl[i] = calls[i + 1] /\ i + 1 \in 1..Len(calls)
    <3>1. calls \in Seq(CallRecords)
      BY DEF Servable
    <3>2. QED  BY <3>1
  <2> HIDE DEF tl
  <2>2. QED  BY <1>14, <2>1 DEF Clear, tl
<1>17. QED  BY <1>7, <1>8, <1>13, <1>15, <1>16 DEF Fresh, ServedFresh, u

\* Two calls for one entry of a table of fields have the same reg and mod.
LEMMA FieldsApart ==
  ASSUME NEW c \in CallRecords, NEW d \in CallRecords, Field(c) = Field(d)
  PROVE  c.ext = d.ext /\ c.mod = d.mod
<1>1. RegCount \in Nat /\ RegCount > 0 /\ c.ext \in 0..(RegCount - 1) /\ d.ext \in 0..(RegCount - 1)
  BY CountsAssumption DEF Reg, CallRecords
<1>2. c.mod \in {0, 1, 2, 3} /\ d.mod \in {0, 1, 2, 3}
  BY DEF CallRecords
<1> DEFINE m == RegCount * c.mod
           n == RegCount * d.mod
<1>3. /\ m = IF c.mod = 0 THEN 0 ELSE IF c.mod = 1 THEN RegCount
             ELSE IF c.mod = 2 THEN 2 * RegCount ELSE 3 * RegCount
      /\ n = IF d.mod = 0 THEN 0 ELSE IF d.mod = 1 THEN RegCount
             ELSE IF d.mod = 2 THEN 2 * RegCount ELSE 3 * RegCount
  BY <1>1, <1>2
<1>4. c.ext + m = d.ext + n
  BY DEF Field
<1> HIDE DEF m, n
<1>5. QED  BY <1>1, <1>2, <1>3, <1>4

\* The calls of one encoding that are for entries of table t.
CallsOver(t, r) ==
  {c \in [table : {t}, k : Nat, ext : Reg, mod : 0..3, shared : BOOLEAN] :
     /\ c.shared = (r.mod = NoMod /\ c.mod # 0)
     /\ r.regop = NoReg => c.ext = 0 /\ (r.mod = NoMod => c.mod = 0)}

\* If no call comes twice they are distinct.
LEMMA CallsDistinct ==
  ASSUME NEW t \in Nat, NEW r, r.regop = NoReg => r.mod = NoMod,
         NEW cs \in Seq(CallsOver(t, r)), Apart(cs)
  PROVE  Distinct(cs, r)
<1>1. SUFFICES ASSUME NEW i \in 1..Len(cs), NEW j \in 1..Len(cs), cs[i].k = cs[j].k,
                      r.regop # NoReg => Field(cs[i]) = Field(cs[j])
               PROVE  i = j
  BY DEF Distinct
<1> DEFINE c == cs[i]
           d == cs[j]
<1>2. c \in CallsOver(t, r) /\ d \in CallsOver(t, r)
  OBVIOUS
<1> HIDE DEF c, d
<1>3. c \in CallRecords /\ d \in CallRecords
  BY <1>2 DEF CallsOver, CallRecords
<1>4. c.ext = d.ext /\ c.mod = d.mod
  <2>1. CASE r.regop = NoReg
    BY <1>2, <2>1 DEF CallsOver
  <2>2. CASE r.regop # NoReg
    BY <1>1, <1>3, <2>2, FieldsApart DEF c, d
  <2>3. QED  BY <2>1, <2>2
<1>5. c = d
  <2>1. c.table = d.table /\ c.k = d.k /\ c.shared = d.shared
    BY <1>1, <1>2, <1>4 DEF CallsOver, c, d
  <2>2. /\ c \in [table : {t}, k : Nat, ext : Reg, mod : 0..3, shared : BOOLEAN]
        /\ d \in [table : {t}, k : Nat, ext : Reg, mod : 0..3, shared : BOOLEAN]
    BY <1>2 DEF CallsOver
  <2>3. QED  BY <1>4, <2>1, <2>2
<1>6. QED  BY <1>5 DEF Apart, c, d

\* The calls for a byte are for entries of one table, which lead nowhere.
ByteCalls(cs, t, u, r) ==
  /\ cs \in Seq(CallsOver(t, r)) /\ Apart(cs)
  /\ \A i \in 1..Len(cs) : Slot(cs[i], u) = NULL

\* So they have their entries each for itself.
LEMMA ByteCallsFree ==
  ASSUME NEW t \in Nat, NEW u, NEW r, r.regop = NoReg => r.mod = NoMod, NEW cs,
         ByteCalls(cs, t, u, r)
  PROVE  FreeCalls(cs, u, r) /\ Distinct(cs, r)
<1>1. Distinct(cs, r)
  BY CallsDistinct DEF ByteCalls
<1>2. FreeCalls(cs, u, r)
  BY DEF ByteCalls, FreeCalls, Free, Slot
<1>3. QED  BY <1>1, <1>2

\* Calls for one entry are among them,
EntryCalls(cs, t, k, r) ==
  /\ cs \in Seq(CallsOver(t, r)) /\ Apart(cs)
  /\ \A i \in 1..Len(cs) : cs[i].table = t /\ cs[i].k = k
LEMMA CallsForEntry ==
  ASSUME NEW r \in OpcodeRecords, NEW t \in Nat, NEW k \in Nat
  PROVE  EntryCalls(Calls(t, k, r), t, k, r)
<1> DEFINE cs == Calls(t, k, r)
<1>1. cs \in Seq(CallsOn(t, k, r)) /\ Apart(cs)
  BY CallsFound
<1>2. \A c \in CallsOn(t, k, r) : c \in CallsOver(t, r) /\ c.table = t /\ c.k = k
  BY DEF CallsOn, CallsOver
<1> HIDE DEF cs
<1>3. Len(cs) \in Nat /\ \A i \in 1..Len(cs) : cs[i] \in CallsOn(t, k, r)
  BY <1>1
<1>4. cs \in Seq(CallsOver(t, r))
  BY <1>1, <1>2
<1>5. QED  BY <1>1, <1>2, <1>3, <1>4 DEF EntryCalls, cs

\* and so are those for some entries.
LEMMA CallsForEntries ==
  ASSUME NEW r \in OpcodeRecords, NEW t \in Nat, NEW es \in Seq(0..5), Apart(es)
  PROVE  LET cs == FlattenSeq([i \in DOMAIN es |-> Calls(t, es[i], r)])
         IN  cs \in Seq(CallsOver(t, r)) /\ Apart(cs)
<1> DEFINE row(i) == Calls(t, es[i], r)
           rows == [i \in DOMAIN es |-> row(i)]
           S == CallsOver(t, r)
<1>1. DOMAIN es = 1..Len(es) /\ Len(es) \in Nat /\ \A i \in 1..Len(es) : es[i] \in Nat
  OBVIOUS
<1>2. ASSUME NEW i \in 1..Len(es)
      PROVE  /\ row(i) \in Seq(S) /\ Apart(row(i))
             /\ \A a \in 1..Len(row(i)) : row(i)[a].k = es[i]
  <2> DEFINE k == es[i]
  <2>1. k \in Nat
    BY <1>1
  <2> HIDE DEF k
  <2>2. EntryCalls(Calls(t, k, r), t, k, r)
    BY <2>1, CallsForEntry, Zenon
  <2>3. QED  BY <2>2 DEF EntryCalls, k
<1> HIDE DEF row, S
<1>3. rows \in Seq(Seq(S)) /\ Len(rows) = Len(es) /\ \A i \in 1..Len(es) : rows[i] = row(i)
  BY <1>1, <1>2
<1> HIDE DEF rows
<1>4. \A i \in 1..Len(rows) : Apart(rows[i])
  BY <1>2, <1>3
<1>5. ASSUME NEW i \in 1..Len(rows), NEW j \in 1..Len(rows), i # j,
             NEW a \in 1..Len(rows[i]), NEW b \in 1..Len(rows[j])
      PROVE  rows[i][a] # rows[j][b]
  <2>1. rows[i][a].k = es[i] /\ rows[j][b].k = es[j]
    BY <1>2, <1>3
  <2>2. es[i] # es[j]
    BY <1>3, <1>5 DEF Apart
  <2>3. QED  BY <2>1, <2>2
<1>6. Apart(FlattenSeq(rows)) /\ FlattenSeq(rows) \in Seq(S)
  BY <1>3, <1>4, <1>5, FlattenedApart, Flattened
<1>7. QED  BY <1>6 DEF rows, row, S

\* What a new byte of the encoding needs is free.
LEMMA ByteFresh ==
  ASSUME Inv, BeginByte
  PROVE  \A r, path, B, C :
           /\ r = Last(info) /\ (r.regop = NoReg => r.mod = NoMod)
           /\ Servable(calls', tables', r) /\ Fresh(path, tables, table, offsets, calls, r, B, C)
           => status' = status /\ Fresh(path, tables', table', offsets', calls', r, B, C)
<1> SUFFICES ASSUME NEW r, NEW path, NEW B, NEW C,
                    r = Last(info), r.regop = NoReg => r.mod = NoMod, Servable(calls', tables', r),
                    Fresh(path, tables, table, offsets, calls, r, B, C)
             PROVE  status' = status /\ Fresh(path, tables', table', offsets', calls', r, B, C)
  OBVIOUS
<1> DEFINE k == Head(offsets)
           place == Place(table, k)
           any == r.op66 = 0 /\ r.fx = 1
           p == IF any THEN Refuse(place, {0, 1, 2}) ELSE Descend(place, 2, 0)
           entries == PrefixEntries(r)
           cs == IF any THEN Calls(table, k, r)
                 ELSE FlattenSeq([i \in DOMAIN entries |-> Calls(p.table, entries[i], r)])
           tl == Tail(offsets)
           N == Len(script)
<1>1. /\ pc = "build" /\ calls = <<>> /\ offsets # <<>> /\ info' = info /\ table' = table
      /\ p.status = NoError => /\ tables' = p.tables /\ calls' = cs /\ offsets' = tl
                               /\ status' = status
  BY DEF BeginByte
<1>2. /\ r \in OpcodeRecords /\ N \in Nat /\ offsets \in Seq(Byte) /\ offsets # <<>>
      /\ k \in Byte /\ k \in Nat /\ k \in Kids(1) /\ 1 \in 1..Len(offsets) /\ k = offsets[1]
      /\ Len(tl) \in Nat /\ \A i \in 1..Len(tl) : tl[i] = offsets[i + 1] /\ i + 1 \in 1..Len(offsets)
                                                 /\ i + 1 # 1
  <2>1. info \in Seq(OpcodeRecords) /\ info # <<>> /\ offsets \in Seq(Byte) /\ offsets # <<>>
    BY <1>1 DEF Inv, Pending
  <2>2. r \in OpcodeRecords
    BY <2>1 DEF Last
  <2>3. k \in Byte /\ 1 \in 1..Len(offsets) /\ k = offsets[1] /\ Len(tl) \in Nat
        /\ \A i \in 1..Len(tl) : tl[i] = offsets[i + 1] /\ i + 1 \in 1..Len(offsets) /\ i + 1 # 1
    BY <2>1
  <2>4. k \in Nat
    BY <2>3, CountsAssumption DEF Byte
  <2>5. QED  BY <2>1, <2>2, <2>3, <2>4, ScriptFacts, KidsOf
<1>3. /\ Spot(place, N) /\ place.tables = tables /\ place.table = table /\ place.k = k
      /\ TypeAt(place) = 1 /\ Empty(place)
  <2>1. tables[table].type = 1 /\ Sound(tables, N) /\ table \in 1..Len(tables)
    BY <1>1 DEF Inv
  <2>2. tables \in Seq(TableRecords) /\ table \in Nat
    BY <2>1 DEF Sound
  <2>3. place \in PlaceRecords
    BY <1>2, <2>2 DEF Place, PlaceRecords
  <2>4. tables[table].values[k] = NULL
    BY <1>2 DEF Fresh, Clear
  <2>5. QED  BY <1>2, <2>1, <2>3, <2>4 DEF Spot, Place, TypeAt, Empty, Entry
<1> HIDE DEF k, place, entries, any, tl, N
<1>4. /\ Led(path, tables, B, C) /\ C \subseteq B
      /\ Clear(path, tables, table, offsets, calls, C) /\ Apart(offsets)
  BY DEF Fresh
<1>5. Append(path[table], k) \in C
  BY <1>2, <1>4 DEF Clear
<1>6. /\ table \in 1..Len(tables) /\ table \in Nat /\ Sound(tables, N) /\ tables[table].type = 1
      /\ Len(tables) \in Nat /\ Servable(calls, tables, r)
  BY <1>1, <1>3 DEF Inv, N, Sound
<1>7. ASSUME NEW i \in 1..Len(tl)
      PROVE  tl[i] # k
  BY <1>2, <1>4 DEF Apart
<1>8. Apart(tl)
  <2>1. ASSUME NEW i \in 1..Len(tl), NEW j \in 1..Len(tl), tl[i] = tl[j]
        PROVE  i = j
    <3>1. i + 1 = j + 1
      BY <1>2, <1>4, <2>1 DEF Apart
    <3>2. QED  BY <3>1
  <2>2. QED  BY <2>1 DEF Apart
<1>9. CASE any
  <2> DEFINE ks == Calls(table, k, r)
  <2>1. p = place /\ p.status = NoError
    BY <1>3, <1>9, RefusesNone DEF Empty
  <2>2. tables' = tables /\ calls' = ks /\ offsets' = tl /\ status' = status
    BY <1>1, <1>3, <1>9, <2>1
  <2>3. ks \in Seq(CallsOver(table, r)) /\ Apart(ks)
        /\ \A i \in 1..Len(ks) : ks[i].table = table /\ ks[i].k = k
    <3>1. EntryCalls(Calls(table, k, r), table, k, r)
      BY <1>2, <1>6, CallsForEntry, Zenon
    <3>2. QED  BY <3>1 DEF EntryCalls
  <2> HIDE DEF ks, p, cs
  <2>4. \A i \in 1..Len(ks) : Slot(ks[i], tables) = NULL
    BY <1>3, <2>3 DEF Slot, Empty, Entry
  <2>5. FreeCalls(ks, tables, r) /\ Distinct(ks, r)
    BY <1>6, <2>3, <2>4, ByteCallsFree DEF ByteCalls
  <2>6. Clear(path, tables, table, tl, ks, C)
    <3>1. \A i \in 1..Len(tl) : tables[table].values[tl[i]] = NULL /\ Append(path[table], tl[i]) \in C
      BY <1>2, <1>4 DEF Clear
    <3>2. ASSUME NEW j \in 1..Len(ks)
          PROVE  /\ Append(path[ks[j].table], ks[j].k) \in C
                 /\ \A i \in 1..Len(tl) : ks[j].k # tl[i]
      <4>1. ks[j].table = table /\ ks[j].k = k
        BY <2>3
      <4>2. QED  BY <1>5, <1>7, <4>1
    <3>3. QED  BY <3>1, <3>2 DEF Clear
  <2>7. Fresh(path, tables, table, tl, ks, r, B, C)
    BY <1>4, <1>8, <2>5, <2>6 DEF Fresh
  <2>8. table' = table
    BY <1>1
  <2>9. QED  BY <2>2, <2>7, <2>8
<1>10. CASE ~any
  <2> DEFINE t == p.table
             u == p.tables
             ks == FlattenSeq([i \in DOMAIN entries |-> Calls(t, entries[i], r)])
  <2>1. DescendedTo(place, p, 2, 0, N)
    <3>1. 2 \in 1..6 /\ 2 # 1 /\ 2 \in Below[TypeAt(place)] /\ 0 \in Kids(2)
      BY <1>3, BelowTypes, KidsOf
    <3>2. DescendedTo(place, Descend(place, 2, 0), 2, 0, N)
      BY <1>2, <1>3, <3>1, DescendDeepens, Zenon
    <3>3. QED  BY <1>10, <3>2
  <2>2. cs = ks
    BY <1>10
  <2>3. entries \in Seq(0..5) /\ Apart(entries)
    BY <1>2, PrefixEntriesFound DEF entries
  <2> HIDE DEF p, cs
  <2>4. /\ p.status = NoError /\ Sound(u, N) /\ t = Len(tables) + 1 /\ u[t].type = 2
        /\ Fills(place, u) /\ Grows(tables, u) /\ \A j \in Kids(2) : u[t].values[j] = NULL
    BY <1>3, <2>1 DEF DescendedTo, MadeBelow, Deepens, Empty, Moves, Spot, TypeAt
  <2>5. t \in Nat /\ t # table
    BY <1>6, <2>4
  <2>6. ks \in Seq(CallsOver(t, r)) /\ Apart(ks)
    <3> HIDE DEF t
    <3>1. QED  BY <1>2, <2>3, <2>5, CallsForEntries
  <2> HIDE DEF u, t, ks
  <2>7. tables' = u /\ calls' = ks /\ offsets' = tl /\ status' = status
    BY <1>1, <2>2, <2>4 DEF u
  <2>8. \A i \in 1..Len(ks) : ks[i].table = t /\ ks[i].k \in Kids(2)
    <3>1. Servable(ks, u, r)
      BY <2>7
    <3>2. \A i \in 1..Len(ks) : ks[i].table = t
      BY <2>6 DEF CallsOver
    <3>3. QED  BY <2>4, <3>1, <3>2 DEF Servable, Callable
  <2>9. FreeCalls(ks, u, r) /\ Distinct(ks, r)
    <3>1. \A i \in 1..Len(ks) : Slot(ks[i], u) = NULL
      BY <2>4, <2>8 DEF Slot
    <3>2. QED  BY <2>5, <2>6, <3>1, ByteCallsFree DEF ByteCalls
  <2>10. Writes(tables, u, table, k)
    BY <1>3, <2>4 DEF Writes, Fills
  <2>11. Led(path, u, B, C)
    <3>1. k \in Kids(tables[table].type)
      BY <1>2, <1>6
    <3>2. QED  BY <1>4, <1>5, <1>6, <2>4, <2>10, <3>1, LedKept
  <2>12. Clear(path, u, table, tl, ks, C)
    <3>1. Clear(path, tables, table, tl, calls, C)
      <4>1. \A i \in 1..Len(tl) : tables[table].values[tl[i]] = NULL /\ Append(path[table], tl[i]) \in C
        BY <1>2, <1>4 DEF Clear
      <4>2. calls = <<>>
        BY <1>1
      <4>3. QED  BY <4>1, <4>2 DEF Clear
    <3>2. tl \in Seq(Byte)
      BY <1>2 DEF tl
    <3>3. Clear(path, u, table, tl, calls, C)
      BY <1>6, <1>7, <2>10, <3>1, <3>2, ClearKept
    <3>4. \A i \in 1..Len(tl) : u[table].values[tl[i]] = NULL /\ Append(path[table], tl[i]) \in C
      BY <3>3 DEF Clear
    <3>5. \A j \in 1..Len(ks) : u[ks[j].table].type # 1 /\ ks[j].table # table
      BY <2>4, <2>5, <2>8
    <3>6. QED  BY <3>4, <3>5 DEF Clear
  <2>13. Fresh(path, u, table, tl, ks, r, B, C)
    BY <1>4, <1>8, <2>9, <2>11, <2>12 DEF Fresh
  <2>14. table' = table
    BY <1>1
  <2>15. QED  BY <2>7, <2>13, <2>14
<1>11. QED  BY <1>9, <1>10

-----------------------------------------------------------------------------
(* The opcode bytes that the tokens of an encoding name *)

\* What an opcode has of one more token.
LEMMA TokenTaken ==
  ASSUME NEW r \in OpcodeRecords, NEW t, GoodToken(t), ParseToken(r, t).status = NoError
  PROVE  LET s == ParseToken(r, t)
         IN  /\ s \in OpcodeRecords /\ r.status = NoError
             /\ s.opcode = IF t.kind = "hex" THEN Append(r.opcode, t.n) ELSE r.opcode
             /\ s.opcode2 = IF t.kind = "&" THEN t.n ELSE r.opcode2
             /\ t.kind = "&" => r.opcode2 = NoByte
<1> DEFINE s == ParseToken(r, t)
<1>1. s \in OpcodeRecords /\ s.status = NoError /\ r.status = NoError
  BY TokenParsed
<1>2. t.kind \in Kinds /\ NoError \notin ParseErrors
  BY ParseErrorsAreErrors DEF GoodToken, Tokens
<1>3. t.kind # "other" /\ ~(t.kind = "&" /\ r.opcode2 # NoByte) /\ ~(t.kind = "hex" /\ r.did)
  <2>1. CASE t.kind = "other"
    <3>1. s = [r EXCEPT !.status = "invalid opcode specifier"]
      BY <1>1, <2>1 DEF ParseToken
    <3>2. QED  BY <1>1, <1>2, <3>1 DEF OpcodeRecords, ParseErrors
  <2>2. CASE t.kind = "&" /\ r.opcode2 # NoByte
    <3>1. s = [r EXCEPT !.status = "too many additional opcode bytes"]
      BY <1>1, <2>2 DEF ParseToken
    <3>2. QED  BY <1>1, <1>2, <3>1 DEF OpcodeRecords, ParseErrors
  <2>3. CASE t.kind = "hex" /\ r.did
    <3>1. s = [r EXCEPT !.status = "too many opcode bytes"]
      BY <1>1, <2>3 DEF ParseToken
    <3>2. QED  BY <1>1, <1>2, <3>1 DEF OpcodeRecords, ParseErrors
  <2>4. QED  BY <2>1, <2>2, <2>3
<1>4. CASE t.kind = "hex"
  <2> DEFINE o == Append(r.opcode, t.n)
  <2>1. s = IF t.n = Escape THEN [r EXCEPT !.opcode = o] ELSE [r EXCEPT !.opcode = o, !.did = TRUE]
    BY <1>1, <1>3, <1>4 DEF ParseToken
  <2> HIDE DEF o, s
  <2>2. s.opcode = o /\ s.opcode2 = r.opcode2
    BY <2>1 DEF OpcodeRecords
  <2>3. QED  BY <1>1, <1>4, <2>2 DEF o, s
<1>5. CASE t.kind = "&"
  <2>1. s = [r EXCEPT !.opcode2 = t.n]
    BY <1>1, <1>3, <1>5 DEF ParseToken
  <2> HIDE DEF s
  <2>2. s.opcode = r.opcode /\ s.opcode2 = t.n
    BY <2>1 DEF OpcodeRecords
  <2>3. QED  BY <1>1, <1>3, <1>5, <2>2 DEF s
<1>6. CASE t.kind \notin {"hex", "&"}
  <2>1. s = IF t.kind = "/" THEN [r EXCEPT !.regop = t.n]
            ELSE [r EXCEPT ![t.kind] = t.n]
    BY <1>1, <1>2, <1>3, <1>6 DEF ParseToken, Kinds
  <2>2. t.kind \in {"/", "mod", "rm", "op66", "fx"}
    BY <1>2, <1>3, <1>6 DEF Kinds
  <2> HIDE DEF s
  <2>3. s.opcode = r.opcode /\ s.opcode2 = r.opcode2
    BY <2>1, <2>2 DEF OpcodeRecords
  <2>4. QED  BY <1>1, <1>6, <2>3 DEF s
<1>7. QED  BY <1>4, <1>5, <1>6

\* The numbers of the tokens of one kind, as far as the i-th token.
KindRun(e, kind, h) ==
  /\ h[0] = <<>> /\ OfKind(e, kind) = h[Len(e.tokens)]
  /\ \A i \in 0..Len(e.tokens) : h[i] \in Seq(Nat)
  /\ \A i \in 1..Len(e.tokens) :
       h[i] = IF e.tokens[i].kind = kind THEN Append(h[i - 1], e.tokens[i].n) ELSE h[i - 1]
\* There is such a row.
LEMMA KindRuns ==
  ASSUME NEW e, GoodEncoding(e), NEW kind
  PROVE  \E h : KindRun(e, kind, h)
<1> DEFINE hi == Len(e.tokens)
           of(i) == IF e.tokens[i].kind = kind THEN <<e.tokens[i].n>> ELSE <<>>
           ss == [i \in DOMAIN e.tokens |-> of(i)]
<1>1. hi \in Nat /\ hi >= 1 /\ DOMAIN e.tokens = 1..hi /\ \A i \in 1..hi : e.tokens[i].n \in Nat
  <2>1. e.tokens \in Seq(Tokens) /\ \E i \in 1..hi : TRUE
    BY DEF GoodEncoding, Encodings, Tokens
  <2>2. hi \in Nat /\ DOMAIN e.tokens = 1..hi /\ \A i \in 1..hi : e.tokens[i] \in Tokens
    BY <2>1
  <2>3. hi >= 1
    BY <2>1, <2>2
  <2>4. \A t \in Tokens : t.n \in Nat
    BY DEF Tokens
  <2>5. QED  BY <2>2, <2>3, <2>4
<1>2. OfKind(e, kind) = FlattenSeq(ss)
  BY DEF OfKind
<1>3. \A i \in 1..hi : of(i) \in Seq(Nat)
  BY <1>1
<1>4. \A x \in Seq(Nat), i \in 1..hi :
        x \o of(i) = IF e.tokens[i].kind = kind THEN Append(x, e.tokens[i].n) ELSE x
  BY <1>1
<1> HIDE DEF of
<1>5. ss \in Seq(Seq(Nat)) /\ Len(ss) = hi /\ \A i \in 1..hi : ss[i] = of(i)
  BY <1>1, <1>3
<1> HIDE DEF ss, hi
<1>6. PICK f \in [1..hi -> Seq(Nat)] : FlattenRun(ss, f)
  <2>1. Len(ss) # 0
    BY <1>1, <1>5
  <2>2. ss \in Seq(Seq(Nat))
    BY <1>5
  <2>3. \E f \in [1..Len(ss) -> Seq(Nat)] : FlattenRun(ss, f)
    BY <2>1, <2>2, FlattenRuns, Zenon
  <2>4. QED  BY <1>5, <2>3
<1> DEFINE h == [i \in 0..hi |-> IF i = 0 THEN <<>> ELSE f[i]]
<1>7. h[0] = <<>> /\ h[hi] = f[hi] /\ \A i \in 1..hi : h[i] = f[i]
  BY <1>1
<1>8. \A i \in 0..hi : h[i] \in Seq(Nat)
  <2>1. \A i \in 1..hi : h[i] \in Seq(Nat)
    BY <1>6, <1>7
  <2>2. <<>> \in Seq(Nat) /\ \A i \in 0..hi : i = 0 \/ i \in 1..hi
    BY <1>1
  <2> HIDE DEF h
  <2>3. QED  BY <1>7, <2>1, <2>2
<1> HIDE DEF h
<1>9. ASSUME NEW i \in 1..hi
      PROVE  h[i] = h[i - 1] \o of(i)
  <2>1. CASE i = 1
    <3>1. h[i] = of(1) /\ h[i - 1] = <<>> /\ of(1) \in Seq(Nat)
      BY <1>1, <1>3, <1>5, <1>6, <1>7, <2>1 DEF FlattenRun
    <3>2. QED  BY <2>1, <3>1
  <2>2. CASE i # 1
    <3>1. i \in 2..Len(ss) /\ i - 1 \in 1..hi
      BY <1>1, <1>5, <2>2
    <3>2. QED  BY <1>5, <1>6, <1>7, <3>1 DEF FlattenRun
  <2>3. QED  BY <2>1, <2>2
<1>10. ASSUME NEW i \in 1..hi
       PROVE  h[i] = IF e.tokens[i].kind = kind THEN Append(h[i - 1], e.tokens[i].n) ELSE h[i - 1]
  <2>1. h[i - 1] \in Seq(Nat)
    <3>1. i - 1 \in 0..hi
      BY <1>1
    <3>2. QED  BY <1>8, <3>1
  <2>2. QED  BY <1>4, <1>9, <2>1
<1>11. OfKind(e, kind) = h[hi]
  BY <1>2, <1>5, <1>6, <1>7 DEF FlattenRun
<1>12. KindRun(e, kind, h)
  BY <1>7, <1>8, <1>10, <1>11 DEF KindRun, hi
<1>13. QED  BY <1>12

\* The opcode bytes of an encoding are those that its tokens name.
LEMMA BytesAreNamed ==
  ASSUME NEW e, GoodEncoding(e), Parse(e.tokens).status = NoError
  PROVE  OpcodeBytes(Parse(e.tokens)) = BytesOf(e)
<1> DEFINE hi == Len(e.tokens)
<1>1. hi \in Nat /\ \A i \in 1..hi : GoodToken(e.tokens[i])
  <2>1. e.tokens \in Seq(Tokens)
    BY DEF GoodEncoding, Encodings, Tokens
  <2>2. QED  BY <2>1 DEF GoodEncoding
<1>2. PICK f : ParseRun(e, f)
  BY ParseRuns
<1>3. PICK h : KindRun(e, "hex", h)
  BY KindRuns
<1>4. PICK a : KindRun(e, "&", a)
  BY KindRuns
<1> DEFINE T == {i \in 0..hi : /\ f[i] \in OpcodeRecords
                               /\ f[i].status = NoError =>
                                    /\ f[i].opcode = h[i]
                                    /\ a[i] = IF f[i].opcode2 = NoByte THEN <<>>
                                              ELSE <<f[i].opcode2>>}
<1>5. 0 \in T
  <2>1. NoOpcode \in OpcodeRecords
    BY DEF NoOpcode, OpcodeRecords, NoByte, NoReg, NoMod
  <2>2. NoOpcode.opcode = <<>> /\ NoOpcode.opcode2 = NoByte
    BY DEF NoOpcode
  <2>3. f[0] = NoOpcode /\ h[0] = <<>> /\ a[0] = <<>> /\ 0 \in 0..hi
    BY <1>1, <1>2, <1>3, <1>4 DEF ParseRun, KindRun
  <2>4. QED  BY <2>1, <2>2, <2>3
<1>6. ASSUME NEW n \in 0..(hi - 1), n \in T
      PROVE  n + 1 \in T
  <2> DEFINE m == n + 1
             t == e.tokens[m]
             r == f[n]
             s == f[m]
  <2>1. m \in 1..hi /\ m \in 0..hi /\ m - 1 = n /\ GoodToken(t)
    BY <1>1
  <2>2. s = ParseToken(r, t)
    BY <1>2, <2>1 DEF ParseRun
  <2>3. h[m] = IF t.kind = "hex" THEN Append(h[n], t.n) ELSE h[n]
    BY <1>3, <2>1 DEF KindRun
  <2>4. a[m] = IF t.kind = "&" THEN Append(a[n], t.n) ELSE a[n]
    BY <1>4, <2>1 DEF KindRun
  <2>5. /\ r \in OpcodeRecords
        /\ r.status = NoError =>
             /\ r.opcode = h[n]
             /\ a[n] = IF r.opcode2 = NoByte THEN <<>> ELSE <<r.opcode2>>
    BY <1>6
  <2> HIDE DEF T, m, t, r, s
  <2>6. s \in OpcodeRecords
    BY <2>1, <2>2, <2>5, TokenParsed
  <2>7. ASSUME s.status = NoError
        PROVE  /\ s.opcode = h[m]
               /\ a[m] = IF s.opcode2 = NoByte THEN <<>> ELSE <<s.opcode2>>
    <3>1. /\ r.status = NoError
          /\ s.opcode = IF t.kind = "hex" THEN Append(r.opcode, t.n) ELSE r.opcode
          /\ s.opcode2 = IF t.kind = "&" THEN t.n ELSE r.opcode2
          /\ t.kind = "&" => r.opcode2 = NoByte
      BY <2>1, <2>2, <2>5, <2>7, TokenTaken
    <3>2. t.kind = "&" => t.n # NoByte
      BY <2>1, CountsAssumption DEF GoodToken, Byte, NoByte
    <3>3. s.opcode = h[m]
      BY <2>3, <2>5, <3>1
    <3>4. CASE t.kind = "&"
      <4>1. a[m] = <<t.n>>
        <5>1. a[m] = Append(<<>>, t.n)
          BY <2>4, <2>5, <3>1, <3>4
        <5>2. QED  BY <5>1
      <4>2. QED  BY <3>1, <3>2, <3>3, <3>4, <4>1
    <3>5. CASE t.kind # "&"
      BY <2>4, <2>5, <3>1, <3>3, <3>5
    <3>6. QED  BY <3>4, <3>5
  <2>8. QED  BY <2>1, <2>6, <2>7 DEF T, m, s
<1>7. 0 \in Int /\ hi \in Int /\ hi \in 0..hi
  BY <1>1
<1> HIDE DEF T
<1>8. 0..hi \subseteq T
  BY <1>5, <1>6, <1>7, CountUp
<1>9. f[hi] = Parse(e.tokens) /\ h[hi] = OfKind(e, "hex") /\ a[hi] = OfKind(e, "&")
  BY <1>2, <1>3, <1>4 DEF ParseRun, KindRun, hi
<1>10. /\ f[hi].opcode = h[hi]
       /\ a[hi] = IF f[hi].opcode2 = NoByte THEN <<>> ELSE <<f[hi].opcode2>>
  BY <1>7, <1>8, <1>9 DEF T
<1>11. QED  BY <1>9, <1>10 DEF OpcodeBytes, BytesOf

-----------------------------------------------------------------------------
(* Opcodes and what begins them *)

\* Two strings of the same elements are the same.
LEMMA SameElements ==
  ASSUME NEW x \in Seq(Nat), NEW y \in Seq(Nat), NEW n \in Nat, Len(x) = n, Len(y) = n,
         \A j \in 1..n : x[j] = y[j]
  PROVE  x = y
  OBVIOUS

\* A string of elements of a set is one of a larger set.
LEMMA OfMore ==
  ASSUME NEW S, NEW T, S \subseteq T, NEW x \in Seq(S)
  PROVE  x \in Seq(T)
  OBVIOUS

\* The first i of some bytes.
Part(b, i) == SubSeq(b, 1, i)

\* The elements of a sequence over a set are in the set.
ElementsIn(x, S) == Len(x) \in Nat /\ \A i \in 1..Len(x) : x[i] \in S

LEMMA ElementsAreIn ==
  ASSUME NEW S, NEW x \in Seq(S)
  PROVE  ElementsIn(x, S)
BY DEF ElementsIn

\* A part has the first bytes, in their order.
LEMMA PartIs ==
  ASSUME NEW b \in Seq(Nat), NEW i \in 0..Len(b)
  PROVE  Part(b, i) \in Seq(Nat) /\ Len(Part(b, i)) = i /\ \A j \in 1..i : Part(b, i)[j] = b[j]
BY DEF Part

\* A longer part is a shorter one and one more byte.
LEMMA Parts ==
  ASSUME NEW b \in Seq(Nat), NEW i \in 1..Len(b)
  PROVE  /\ Part(b, i) \in Seq(Nat) /\ Len(Part(b, i)) = i
         /\ Part(b, i) = Append(Part(b, i - 1), b[i])
         /\ \A j \in 1..i : Part(b, i)[j] = b[j]
<1>1. Part(b, i) \in Seq(Nat) /\ Len(Part(b, i)) = i /\ \A j \in 1..i : Part(b, i)[j] = b[j]
  BY PartIs
<1>2. Part(b, i - 1) \in Seq(Nat) /\ Len(Part(b, i - 1)) = i - 1
      /\ \A j \in 1..(i - 1) : Part(b, i - 1)[j] = b[j]
  <2>1. i - 1 \in 0..Len(b)
    OBVIOUS
  <2>2. QED  BY <2>1, PartIs
<1> DEFINE x == Part(b, i)
           y == Part(b, i - 1)
           z == Append(y, b[i])
<1>3. x \in Seq(Nat) /\ y \in Seq(Nat) /\ b[i] \in Nat /\ i \in Nat /\ Len(x) = i /\ Len(y) = i - 1
      /\ (\A j \in 1..i : x[j] = b[j]) /\ \A j \in 1..(i - 1) : y[j] = b[j]
  BY <1>1, <1>2
<1> HIDE DEF x, y
<1>4. z \in Seq(Nat) /\ Len(z) = i /\ \A j \in 1..i : z[j] = b[j]
  BY <1>3
<1> HIDE DEF z
<1>5. \A j \in 1..i : x[j] = z[j]
  BY <1>3, <1>4
<1>6. x = z
  BY <1>3, <1>4, <1>5, SameElements
<1>7. QED  BY <1>1, <1>6 DEF x, y, z

\* No bytes begin every string.
LEMMA NoPart ==
  ASSUME NEW b \in Seq(Nat)
  PROVE  Part(b, 0) = <<>>
  BY DEF Part

\* A string of opcode bytes whose last one is raised.
Raised(b, n) == [b EXCEPT ![Len(b)] = @ + n]
\* It differs in the last byte only.
LEMMA RaisedIs ==
  ASSUME NEW b \in Seq(Nat), Len(b) >= 1, NEW n \in Nat
  PROVE  /\ Raised(b, n) \in Seq(Nat) /\ Len(Raised(b, n)) = Len(b)
         /\ Raised(b, n) = Append(Part(b, Len(b) - 1), b[Len(b)] + n)
         /\ \A j \in 1..(Len(b) - 1) : Raised(b, n)[j] = b[j]
<1> DEFINE hi == Len(b)
           v == Raised(b, n)
           y == Part(b, hi - 1)
           z == Append(y, b[hi] + n)
<1>1. v \in Seq(Nat) /\ Len(v) = hi /\ v[hi] = b[hi] + n /\ \A j \in 1..(hi - 1) : v[j] = b[j]
  BY DEF Raised
<1>2. y \in Seq(Nat) /\ Len(y) = hi - 1 /\ \A j \in 1..(hi - 1) : y[j] = b[j]
  <2>1. hi - 1 \in 0..Len(b)
    OBVIOUS
  <2>2. QED  BY <2>1, PartIs
<1>3. b[hi] + n \in Nat /\ hi \in Nat /\ hi >= 1
  OBVIOUS
<1> HIDE DEF v, y, hi
<1>4. z \in Seq(Nat) /\ Len(z) = hi /\ z[hi] = b[hi] + n /\ \A j \in 1..(hi - 1) : z[j] = b[j]
  BY <1>2, <1>3
<1> HIDE DEF z
<1>5. \A j \in 1..hi : v[j] = z[j]
  <2>1. ASSUME NEW j \in 1..hi
        PROVE  v[j] = z[j]
    <3>1. j = hi \/ j \in 1..(hi - 1)
      BY <1>3
    <3>2. QED  BY <1>1, <1>4, <3>1
  <2>2. QED  BY <2>1
<1>6. v = z
  BY <1>1, <1>3, <1>4, <1>5, SameElements
<1>7. QED  BY <1>1, <1>6 DEF v, y, z, hi

\* Every string begins itself, and a part of the bytes that it begins with.
LEMMA Begins ==
  ASSUME NEW s \in Seq(Nat), NEW t \in Seq(Nat), Len(s) <= Len(t),
         \A j \in 1..Len(s) : s[j] = t[j]
  PROVE  IsPrefix(s, t)
<1> DEFINE n == Len(s)
           x == SubSeq(s, 1, n)
           y == SubSeq(t, 1, n)
<1>1. x \in Seq(Nat) /\ Len(x) = n /\ \A j \in 1..n : x[j] = s[j]
  OBVIOUS
<1>2. y \in Seq(Nat) /\ Len(y) = n /\ \A j \in 1..n : y[j] = t[j]
  OBVIOUS
<1>3. x = y
  <2>1. n \in Nat
    OBVIOUS
  <2> HIDE DEF x, y, n
  <2>2. \A j \in 1..n : x[j] = y[j]
    <3>1. \A j \in 1..n : s[j] = t[j]
      BY DEF n
    <3>2. QED  BY <1>1, <1>2, <3>1
  <2>3. QED  BY <1>1, <1>2, <2>1, <2>2, SameElements
<1>4. QED  BY <1>3 DEF IsPrefix

-----------------------------------------------------------------------------
(* The way to the place of an opcode *)

\* At entry k of a full table, to which the string w leads, there are tables
\* that are led to by path.
LedAt(path, q, k, w, B, C) ==
  /\ path \in [Nat -> Seq(Nat)] /\ path[Root] = <<>> /\ Led(path, q.tables, B, C)
  /\ q.status = NoError /\ q.k = k /\ TypeAt(q) = 1 /\ path[q.table] = w

\* Led by more strings.
LEMMA LedByMore ==
  ASSUME NEW path, NEW t, NEW B, NEW C, Led(path, t, B, C), NEW A, B \subseteq A,
         NEW D, C \subseteq D
  PROVE  Led(path, t, A, D)
  BY DEF Led

\* From a byte that is not all of an opcode to the next one there is a way.
LEMMA StepClear ==
  ASSUME NEW N \in Nat, NEW p, Spot(p, N), NEW path, NEW B, NEW C, NEW k, NEW v,
         LedAt(path, p, k, v, B, C), NEW w, w = Append(v, k), w \notin C,
         w \in Seq(Nat), NEW c \in Byte
  PROVE  \E f : LedAt(f, StepByte(p, c), c, w, B \cup {w}, C)
<1> DEFINE q == Descend(p, 1, c)
           t == p.tables
           x == Entry(p)
           A == B \cup {w}
           M == Len(t) + 1
           n == p.table
<1>1. /\ Len(t) \in Nat /\ n \in 1..Len(t) /\ x \in 0..Len(t) /\ t[n].type = 1 /\ k \in Byte
      /\ x = t[n].values[k] /\ Sound(t, N)
  BY SpotFacts, KidsOf DEF LedAt, Spot, TypeAt, Entry
<1>2. path \in [Nat -> Seq(Nat)] /\ path[Root] = <<>> /\ Led(path, t, B, C) /\ path[n] = v
      /\ p.status = NoError /\ TypeAt(p) = 1 /\ p.k = k
  BY DEF LedAt
<1> HIDE DEF A
<1>3. CASE x # NULL
  <2>1. IF t[x].type = 1 THEN path[x] = w ELSE w \in C
    BY <1>1, <1>2, <1>3 DEF Led
  <2>2. t[x].type = 1 /\ path[x] = w
    BY <2>1
  <2>3. q = [p EXCEPT !.table = x, !.k = c]
    BY <1>2, <1>3, <2>2 DEF Descend
  <2>4. p \in PlaceRecords
    BY DEF Spot
  <2> HIDE DEF q, x
  <2>5. q.tables = t /\ q.table = x /\ q.k = c /\ q.status = NoError
    BY <1>2, <2>3, <2>4 DEF PlaceRecords
  <2>6. Led(path, q.tables, A, C)
    BY <1>2, <2>5, LedByMore DEF A
  <2>7. LedAt(path, q, c, w, A, C)
    BY <1>2, <2>2, <2>5, <2>6 DEF LedAt, TypeAt
  <2>8. QED  BY <2>7 DEF StepByte, q, A
<1>4. CASE x = NULL
  <2> DEFINE f == [path EXCEPT ![M] = w]
             u == q.tables
  <2>1. MadeBelow(p, q, 1, c, N)
    <3>1. Empty(p) /\ 1 \in 1..6 /\ 1 \in Below[TypeAt(p)] /\ c \in Kids(1)
      BY <1>2, <1>4, BelowTypes, KidsOf DEF Empty
    <3>2. MadeBelow(p, Descend(p, 1, c), 1, c, N)
      BY <3>1, DescendMakes, Zenon
    <3>3. QED  BY <3>2 DEF q
  <2> HIDE DEF q
  <2>2. /\ q.status = NoError /\ TypeAt(q) = 1 /\ q.k = c /\ q.table = M /\ Len(u) = M
        /\ u[n].values[k] = M /\ Elsewhere(t, u, n, k) /\ u[M].type = 1
        /\ \A j \in Byte : u[M].values[j] = NULL
    BY <1>2, <2>1, KidsOf DEF MadeBelow, TypeAt
  <2>3. Grows(t, u)
    BY <2>1 DEF MadeBelow, Moves
  <2>4. f \in [Nat -> Seq(Nat)] /\ f[M] = w /\ \A i \in 1..Len(t) : f[i] = path[i]
    <3>1. M \in Nat
      BY <1>1
    <3>2. \A i \in 1..Len(t) : i \in Nat /\ i # M
      BY <1>1
    <3> HIDE DEF M, t
    <3>3. QED  BY <1>2, <3>1, <3>2
  <2> HIDE DEF f, u, x, t
  <2>5. ASSUME NEW i \in 1..Len(u), u[i].type = 1, NEW j \in Byte, u[i].values[j] # NULL
        PROVE  LET y == u[i].values[j]
                   z == Append(f[i], j)
               IN  z \in A /\ IF u[y].type = 1 THEN f[y] = z ELSE z \in C
    <3>1. i # M
      BY <2>2, <2>5
    <3>2. i \in 1..Len(t) /\ f[i] = path[i]
      <4>1. i \in 1..Len(t)
        BY <1>1, <2>2, <3>1
      <4>2. QED  BY <2>4, <4>1
    <3>3. t[i].type = 1
      BY <2>3, <2>5, <3>2 DEF Grows
    <3>4. CASE i = n /\ j = k
      BY <1>2, <2>2, <2>4, <3>2, <3>4 DEF A
    <3>5. CASE ~(i = n /\ j = k)
      <4> DEFINE y == t[i].values[j]
      <4>1. j \in Kids(t[i].type)
        BY <3>3, KidsOf
      <4>2. u[i].values[j] = y
        BY <2>2, <3>2, <3>5, <4>1 DEF Elsewhere
      <4>3. y \in 1..Len(t)
        <5>1. y \in 0..Len(t)
          BY <1>1, <3>2, <4>1 DEF Sound, Typed
        <5>2. y # NULL
          BY <2>5, <4>2
        <5>3. QED  BY <1>1, <5>1, <5>2 DEF NULL
      <4>4. u[y].type = t[y].type /\ f[y] = path[y]
        BY <2>3, <2>4, <4>3 DEF Grows
      <4>5. Append(path[i], j) \in B
            /\ IF t[y].type = 1 THEN path[y] = Append(path[i], j) ELSE Append(path[i], j) \in C
        BY <1>2, <2>5, <3>2, <3>3, <4>2 DEF Led
      <4> HIDE DEF y
      <4>6. QED  BY <3>2, <4>2, <4>4, <4>5 DEF A
    <3>6. QED  BY <3>4, <3>5
  <2>6. Led(f, u, A, C)
    BY <2>5 DEF Led
  <2>7. f[Root] = <<>>
    <3>1. Root \in 1..Len(t)
      BY <1>1 DEF Root
    <3>2. QED  BY <1>2, <2>4, <3>1
  <2>8. LedAt(f, q, c, w, A, C)
    BY <2>2, <2>4, <2>6, <2>7 DEF LedAt, u
  <2>9. QED  BY <2>8 DEF StepByte, q, A
<1>5. QED  BY <1>3, <1>4

\* The strings that an opcode begins with.
Beginnings(bytes, m) == {Part(bytes, i) : i \in 1..m}

\* One more byte is one more beginning.
LEMMA BeginningsOn ==
  ASSUME NEW b, NEW m \in Nat, m >= 1
  PROVE  Beginnings(b, m) = Beginnings(b, m - 1) \cup {Part(b, m)}
<1>1. m \in 1..m /\ \A i \in 1..(m - 1) : i \in 1..m
  OBVIOUS
<1>2. \A i \in 1..m : i = m \/ i \in 1..(m - 1)
  OBVIOUS
<1>3. QED  BY <1>1, <1>2 DEF Beginnings

\* So there is a way to the last byte of an opcode that no other opcode begins.
LEMMA PlaceClear ==
  ASSUME NEW N \in Nat, Sound(tables, N), NEW bytes \in Seq(Byte), Len(bytes) >= 1,
         NEW path \in [Nat -> Seq(Nat)], path[Root] = <<>>, NEW B, NEW C,
         Led(path, tables, B, C), \A i \in 1..(Len(bytes) - 1) : Part(bytes, i) \notin C
  PROVE  \E f : LedAt(f, PlaceOf(bytes), bytes[Len(bytes)], Part(bytes, Len(bytes) - 1),
                      B \cup Beginnings(bytes, Len(bytes) - 1), C)
<1> DEFINE hi == Len(bytes)
           A(m) == B \cup Beginnings(bytes, m - 1)
<1>1. PICK g : PlaceRun(bytes, N, g)
  BY PlaceRuns
<1>2. bytes \in Seq(Nat) /\ hi \in Nat /\ hi >= 1 /\ \A i \in 1..hi : bytes[i] \in Byte
  <2>1. Byte \subseteq Nat
    BY CountsAssumption DEF Byte
  <2>2. bytes \in Seq(Nat)
    BY <2>1, OfMore
  <2>3. hi \in Nat /\ hi >= 1 /\ \A i \in 1..hi : bytes[i] \in Byte
    <3>1. bytes \in Seq(Byte)
      OBVIOUS
    <3>2. ElementsIn(bytes, Byte)
      BY <3>1, ElementsAreIn, Zenon
    <3>3. QED  BY <3>2 DEF ElementsIn
  <2>4. QED  BY <2>2, <2>3
<1> DEFINE T == {m \in 1..hi : \E f : LedAt(f, g[m], bytes[m], Part(bytes, m - 1), A(m), C)}
<1>3. 1 \in T
  <2>1. g[1] = Place(Root, bytes[1]) /\ Part(bytes, 0) = <<>>
    <3>1. g[1] = Place(Root, bytes[1])
      BY <1>1 DEF PlaceRun
    <3>2. QED  BY <1>2, <3>1, NoPart
  <2>2. g[1].tables = tables /\ g[1].table = Root /\ g[1].k = bytes[1] /\ g[1].status = NoError
    BY <2>1 DEF Place
  <2>3. TypeAt(g[1]) = 1
    <3>1. tables[Root].type = 1
      BY DEF Sound
    <3>2. QED  BY <2>2, <3>1 DEF TypeAt
  <2>4. Led(path, tables, A(1), C)
    BY LedByMore
  <2>5. LedAt(path, g[1], bytes[1], <<>>, A(1), C)
    BY <2>2, <2>3, <2>4 DEF LedAt
  <2> HIDE DEF A
  <2>6. QED  BY <1>2, <2>1, <2>5
<1>4. ASSUME NEW m \in 1..(hi - 1), m \in T
      PROVE  m + 1 \in T
  <2> DEFINE w == Part(bytes, m)
             v == Part(bytes, m - 1)
  <2>1. PICK f : LedAt(f, g[m], bytes[m], v, A(m), C)
    BY <1>4
  <2>2. m \in 1..hi /\ m + 1 \in 2..hi /\ m + 1 \in 1..hi /\ (m + 1) - 1 = m /\ bytes[m + 1] \in Byte
    BY <1>2
  <2>3. g[m + 1] = StepByte(g[m], bytes[m + 1])
    BY <1>1, <2>2 DEF PlaceRun
  <2>4. w \in Seq(Nat) /\ w = Append(v, bytes[m]) /\ w \notin C
    BY <1>2, <2>2, Parts
  <2>5. Spot(g[m], N)
    BY <1>1, <2>2 DEF PlaceRun, AtBytes
  <2>6. A(m + 1) = A(m) \cup {w}
    <3>1. m \in Nat /\ m >= 1
      <4> HIDE DEF hi, A, T, w, v
      <4>1. QED  BY <1>2, <2>2
    <3>2. Beginnings(bytes, m) = Beginnings(bytes, m - 1) \cup {w}
      BY <3>1, BeginningsOn
    <3>3. QED  BY <2>2, <3>2
  <2> HIDE DEF A, T, w, v
  <2>7. PICK h : LedAt(h, StepByte(g[m], bytes[m + 1]), bytes[m + 1], w, A(m) \cup {w}, C)
    BY <2>1, <2>2, <2>4, <2>5, StepClear
  <2>8. LedAt(h, g[m + 1], bytes[m + 1], Part(bytes, (m + 1) - 1), A(m + 1), C)
    BY <2>2, <2>3, <2>6, <2>7 DEF w
  <2> DEFINE n == m + 1
  <2>9. n \in 1..hi /\ LedAt(h, g[n], bytes[n], Part(bytes, n - 1), A(n), C)
    BY <2>2, <2>8
  <2> HIDE DEF n
  <2>10. n \in T
    BY <2>9 DEF T
  <2>11. QED  BY <2>10 DEF n
<1>5. hi \in T
  <2>1. 1 \in Int /\ hi \in Int /\ hi \in 1..hi
    BY <1>2
  <2> HIDE DEF T, hi
  <2>2. 1..hi \subseteq T
    BY <1>3, <1>4, <2>1, CountUp
  <2>3. QED  BY <2>1, <2>2
<1>6. g[hi] = PlaceOf(bytes)
  BY <1>1 DEF PlaceRun
<1>7. QED  BY <1>5, <1>6

-----------------------------------------------------------------------------
(* Why a build fails *)

\* A reason for an error: what ErrorsHaveReasons asks for.
Reason ==
  \/ \E n \in DOMAIN script : WrongByItself(script[n])
  \/ \E m, n \in DOMAIN script : m # n /\ Meet(script[m], script[n])

\* What is added to the last opcode byte of an encoding.
Rows(e) == IF "reg_base" \in e.tags THEN Reg ELSE {0}

\* The opcodes of an encoding, one for each row.
LEMMA OpcodesFound ==
  ASSUME NEW e, GoodEncoding(e), Parse(e.tokens).status = NoError
  PROVE  /\ BytesOf(e) = OpcodeBytes(Parse(e.tokens)) /\ BytesOf(e) \in Seq(Byte)
         /\ BytesOf(e) \in Seq(Nat) /\ Len(BytesOf(e)) >= 1 /\ 0 \in Rows(e)
         /\ OpcodesOf(e) \subseteq Seq(Nat)
         /\ \A n \in Rows(e) : n \in Nat /\ Raised(BytesOf(e), n) \in OpcodesOf(e)
<1> DEFINE b == BytesOf(e)
           r == Parse(e.tokens)
<1>1. b = OpcodeBytes(r)
  BY BytesAreNamed
<1>2. OpcodeBytes(r) \in Seq(Byte) /\ Len(OpcodeBytes(r)) >= 1
  BY BytesFound
<1>3. b \in Seq(Nat)
  <2>1. Byte \subseteq Nat
    BY CountsAssumption DEF Byte
  <2>2. QED  BY <1>1, <1>2, <2>1, OfMore
<1>4. Rows(e) \subseteq Nat /\ 0 \in Rows(e)
  BY CountsAssumption DEF Rows, Reg
<1>5. OpcodesOf(e) = {Raised(b, n) : n \in Rows(e)}
  BY DEF OpcodesOf, Raised, Rows
<1> HIDE DEF b, r
<1>6. Len(b) >= 1
  BY <1>1, <1>2
<1>7. \A n \in Rows(e) : Raised(b, n) \in Seq(Nat)
  BY <1>3, <1>4, <1>6, RaisedIs
<1>8. QED  BY <1>1, <1>2, <1>3, <1>4, <1>5, <1>6, <1>7 DEF b, r

\* Different encodings come at different times.
LEMMA NumbersApart ==
  ASSUME script \in Seq(Encodings), NEW m \in Indices, NEW n \in Indices, m # n
  PROVE  NumberOf(m) # NumberOf(n)
<1>1. Cardinality(Earlier(NumberOf(m))) = m - 1 /\ Cardinality(Earlier(NumberOf(n))) = n - 1
  BY NumberFound
<1>2. m \in Int /\ n \in Int
  BY DEF Indices
<1>3. SUFFICES ASSUME NumberOf(m) = NumberOf(n) PROVE FALSE
  OBVIOUS
<1>4. m - 1 = n - 1
  BY <1>1, <1>3
<1>5. QED  BY <1>2, <1>4

\* An encoding of a script without a reason for an error.
LEMMA NoneWrong ==
  ASSUME script \in Scripts, ~Reason, NEW i \in Indices
  PROVE  LET e == script[NumberOf(i)]
         IN  /\ NumberOf(i) \in DOMAIN script /\ GoodEncoding(e) /\ Parse(e.tokens).status = NoError
             /\ Parse(e.tokens).regop = NoReg => Parse(e.tokens).mod = NoMod
<1>1. script \in Seq(Encodings)
  BY ScriptsAssumption
<1>2. NumberOf(i) \in DOMAIN script
  <2>1. NumberOf(i) \in Indices
    BY <1>1, NumberFound
  <2>2. QED  BY <1>1, <2>1 DEF Indices
<1> DEFINE n == NumberOf(i)
<1> HIDE DEF n
<1>3. n \in DOMAIN script
  BY <1>2 DEF n
<1>4. GoodEncoding(script[n])
  BY <1>3, EncodingsAreGood
<1>5. ~WrongByItself(script[n])
  BY <1>3 DEF Reason
<1>6. QED  BY <1>3, <1>4, <1>5 DEF WrongByItself, n

\* Its opcodes begin none of another one.
LEMMA Unmet ==
  ASSUME script \in Scripts, ~Reason, NEW i \in Indices, NEW j \in Indices, i # j,
         NEW v \in OpcodesOf(script[NumberOf(i)]), NEW w \in OpcodesOf(script[NumberOf(j)])
  PROVE  ~IsPrefix(v, w) /\ ~IsPrefix(w, v)
<1>1. NumberOf(i) \in DOMAIN script /\ NumberOf(j) \in DOMAIN script
  BY NoneWrong
<1>2. NumberOf(i) # NumberOf(j)
  BY ScriptsAssumption, NumbersApart
<1>3. ~Meet(script[NumberOf(i)], script[NumberOf(j)])
  BY <1>1, <1>2 DEF Reason
<1>4. QED  BY <1>3 DEF Meet

\* The opcodes of the first d encodings, and what they begin with.
Taken(d) == UNION {OpcodesOf(script[NumberOf(i)]) : i \in 1..d}
Begun(d) == {b \in Seq(Nat) : \E v \in Taken(d) : IsPrefix(b, v)}

\* The opcodes are among what they begin with.
LEMMA TakenBegun ==
  ASSUME script \in Scripts, ~Reason, NEW d \in 0..Len(script)
  PROVE  Taken(d) \subseteq Begun(d)
<1>1. SUFFICES ASSUME NEW i \in 1..d, NEW v \in OpcodesOf(script[NumberOf(i)])
               PROVE  v \in Begun(d)
  BY DEF Taken
<1>2. i \in Indices
  BY ScriptsAssumption DEF Indices
<1>3. v \in Seq(Nat)
  <2>1. GoodEncoding(script[NumberOf(i)]) /\ Parse(script[NumberOf(i)].tokens).status = NoError
    BY <1>2, NoneWrong
  <2>2. QED  BY <2>1, OpcodesFound
<1>4. IsPrefix(v, v)
  BY <1>3, Begins
<1>5. v \in Taken(d)
  BY DEF Taken
<1>6. QED  BY <1>3, <1>4, <1>5 DEF Begun

\* The next encoding's opcodes meet none of the opcodes taken.
LEMMA NextUnmet ==
  ASSUME script \in Scripts, ~Reason, NEW d \in 0..(Len(script) - 1),
         NEW v \in Taken(d), NEW w \in OpcodesOf(script[NumberOf(d + 1)])
  PROVE  ~IsPrefix(v, w) /\ ~IsPrefix(w, v)
<1>1. PICK i \in 1..d : v \in OpcodesOf(script[NumberOf(i)])
  BY DEF Taken
<1>2. Len(script) \in Nat
  BY ScriptsAssumption
<1>3. i \in Indices /\ d + 1 \in Indices /\ i # d + 1
  BY <1>2 DEF Indices
<1> DEFINE j == d + 1
<1> HIDE DEF j
<1>4. j \in Indices /\ i # j /\ w \in OpcodesOf(script[NumberOf(j)])
  BY <1>3 DEF j
<1>5. QED  BY <1>1, <1>3, <1>4, Unmet

\* What the opcodes of one more encoding add.
LEMMA TakenOn ==
  ASSUME NEW d \in Nat
  PROVE  /\ Taken(d + 1) = Taken(d) \cup OpcodesOf(script[NumberOf(d + 1)])
         /\ Begun(d) \subseteq Begun(d + 1)
<1>1. d + 1 \in 1..(d + 1) /\ \A i \in 1..d : i \in 1..(d + 1)
  OBVIOUS
<1>2. \A i \in 1..(d + 1) : i = d + 1 \/ i \in 1..d
  OBVIOUS
<1>3. Taken(d + 1) = Taken(d) \cup OpcodesOf(script[NumberOf(d + 1)])
  BY <1>1, <1>2 DEF Taken
<1>4. QED  BY <1>3 DEF Begun

\* At place p, entry k is free and for one of the opcodes os.
FreeFor(path, p, k, os) ==
  p.tables[p.table].values[k] = NULL /\ Append(path[p.table], k) \in os

\* The bytes of the next encoding are free at the place that its opcode bytes
\* lead to.
LEMMA BytesFree ==
  ASSUME script \in Scripts, ~Reason, NEW d \in 0..(Len(script) - 1),
         NEW e, e = script[NumberOf(d + 1)], NEW b, b = BytesOf(e), NEW p, NEW path,
         LedAt(path, p, b[Len(b)], Part(b, Len(b) - 1),
               Begun(d) \cup Beginnings(b, Len(b) - 1), Taken(d)),
         p.table \in 1..Len(p.tables),
         NEW n \in Rows(e), b[Len(b)] + n \in Byte
  PROVE  FreeFor(path, p, b[Len(b)] + n, OpcodesOf(e))
<1> DEFINE hi == Len(b)
           k == b[hi] + n
           w == Append(path[p.table], k)
<1>1. GoodEncoding(e) /\ Parse(e.tokens).status = NoError
  <2> DEFINE j == d + 1
  <2>1. j \in Indices
    BY ScriptsAssumption DEF Indices
  <2>2. e = script[NumberOf(j)]
    OBVIOUS
  <2> HIDE DEF j
  <2>3. QED  BY <2>1, <2>2, NoneWrong
<1>2. b \in Seq(Nat) /\ hi \in Nat /\ hi >= 1 /\ n \in Nat /\ Raised(b, n) \in OpcodesOf(e)
  BY <1>1, OpcodesFound
<1>3. w = Raised(b, n) /\ Len(w) = hi
  <2>1. path[p.table] = Part(b, hi - 1)
    BY DEF LedAt
  <2>2. Len(Raised(b, n)) = hi /\ Raised(b, n) = Append(Part(b, hi - 1), b[hi] + n)
    BY <1>2, RaisedIs
  <2>3. QED  BY <2>1, <2>2
<1>4. SUFFICES ASSUME p.tables[p.table].values[k] # NULL
               PROVE  FALSE
  BY <1>2, <1>3 DEF FreeFor
<1>5. w \in Begun(d) \cup Beginnings(b, hi - 1)
  <2>1. k \in Byte /\ p.tables[p.table].type = 1
    BY DEF LedAt, TypeAt
  <2> HIDE DEF k
  <2>2. QED  BY <1>4, <2>1 DEF LedAt, Led
<1> HIDE DEF w, k, hi
<1>6. CASE w \in Begun(d)
  <2>1. PICK v \in Taken(d) : IsPrefix(w, v)
    BY <1>6 DEF Begun
  <2>2. w \in OpcodesOf(script[NumberOf(d + 1)])
    BY <1>2, <1>3
  <2>3. QED  BY <2>1, <2>2, NextUnmet
<1>7. CASE w \in Beginnings(b, hi - 1)
  <2>1. PICK i \in 1..(hi - 1) : w = Part(b, i)
    BY <1>7 DEF Beginnings
  <2>2. i \in 1..hi /\ i # hi
    BY <1>2
  <2>3. Len(w) = i
    BY <1>2, <2>1, <2>2, Parts DEF hi
  <2>4. QED  BY <1>3, <2>2, <2>3
<1>8. QED  BY <1>5, <1>6, <1>7

\* What an opcode begins with begins its first row.
LEMMA PartOfRaised ==
  ASSUME NEW b \in Seq(Nat), Len(b) >= 1, NEW i \in 1..(Len(b) - 1)
  PROVE  Part(b, i) \in Seq(Nat) /\ IsPrefix(Part(b, i), Raised(b, 0))
<1> DEFINE hi == Len(b)
           v == Part(b, i)
           w == Raised(b, 0)
<1>1. hi \in Nat /\ i \in Nat /\ i <= hi - 1
  OBVIOUS
<1>2. v \in Seq(Nat) /\ Len(v) = i /\ \A j \in 1..i : v[j] = b[j]
  <2>1. i \in 1..Len(b)
    BY <1>1
  <2>2. QED  BY <2>1, Parts
<1>3. w \in Seq(Nat) /\ Len(w) = hi /\ \A j \in 1..(hi - 1) : w[j] = b[j]
  <2> DEFINE n == 0
  <2>1. n \in Nat
    OBVIOUS
  <2> HIDE DEF n
  <2>2. Raised(b, n) \in Seq(Nat) /\ Len(Raised(b, n)) = hi
        /\ \A j \in 1..(hi - 1) : Raised(b, n)[j] = b[j]
    BY <2>1, RaisedIs
  <2>3. QED  BY <2>2 DEF n
<1> HIDE DEF v, w, hi
<1>4. Len(v) <= Len(w) /\ \A j \in 1..Len(v) : v[j] = w[j]
  <2>1. \A j \in 1..i : j \in 1..(hi - 1)
    BY <1>1
  <2>2. \A j \in 1..i : v[j] = w[j]
    BY <1>2, <1>3, <2>1
  <2>3. QED  BY <1>1, <1>2, <1>3, <2>2
<1>5. IsPrefix(v, w)
  BY <1>2, <1>3, <1>4, Begins
<1>6. QED  BY <1>2, <1>5 DEF v, w

\* There is a way to the place of the next encoding.
LEMMA WayClear ==
  ASSUME script \in Scripts, Sound(tables, Len(script)), ~Reason, NEW d \in 0..(Len(script) - 1),
         NEW e, e = script[NumberOf(d + 1)], NEW b, b = BytesOf(e),
         NEW path \in [Nat -> Seq(Nat)], path[Root] = <<>>,
         Led(path, tables, Begun(d), Taken(d))
  PROVE  \E f : LedAt(f, PlaceOf(b), b[Len(b)], Part(b, Len(b) - 1),
                      Begun(d) \cup Beginnings(b, Len(b) - 1), Taken(d))
<1> DEFINE hi == Len(b)
<1>1. GoodEncoding(e) /\ Parse(e.tokens).status = NoError
  <2> DEFINE j == d + 1
  <2>1. j \in Indices
    BY ScriptsAssumption DEF Indices
  <2>2. e = script[NumberOf(j)]
    OBVIOUS
  <2> HIDE DEF j
  <2>3. QED  BY <2>1, <2>2, NoneWrong
<1>2. b \in Seq(Byte) /\ b \in Seq(Nat) /\ hi \in Nat /\ hi >= 1 /\ Raised(b, 0) \in OpcodesOf(e)
  <2>1. b \in Seq(Byte) /\ b \in Seq(Nat) /\ Len(b) >= 1 /\ Raised(b, 0) \in OpcodesOf(e)
    BY <1>1, OpcodesFound
  <2>2. QED  BY <2>1
<1>3. Len(script) \in Nat
  BY ScriptsAssumption
<1>4. ASSUME NEW i \in 1..(hi - 1)
      PROVE  Part(b, i) \notin Taken(d)
  <2>1. IsPrefix(Part(b, i), Raised(b, 0))
    BY <1>2, PartOfRaised
  <2>2. Raised(b, 0) \in OpcodesOf(script[NumberOf(d + 1)])
    BY <1>2
  <2>3. QED  BY <2>1, <2>2, NextUnmet
<1>5. QED  BY <1>2, <1>3, <1>4, PlaceClear

\* The opcodes taken are led to in the tables t, and those of the encoding being
\* entered, the d-th one, meet nothing: the build has no error.
SmoothAs(st, path, t, n, os, cs, r, d) ==
  /\ st = NoError /\ path \in [Nat -> Seq(Nat)] /\ path[Root] = <<>>
  /\ Fresh(path, t, n, os, cs, r, Begun(d), Taken(d))
  /\ os # <<>> \/ cs # <<>> => r = Parse(script[NumberOf(d)].tokens)
Smooth == \E path : SmoothAs(status, path, tables, table, offsets, calls, Last(info), done)

\* The same of the next state.
LEMMA SmoothNext ==
  ASSUME script' = script, NEW path,
         SmoothAs(status', path, tables', table', offsets', calls', Last(info'), done')
  PROVE  Smooth'
<1>1. Taken(done)' = Taken(done') /\ Begun(done)' = Begun(done')
  BY DEF Taken, Begun, NumberOf, Before
<1>2. script[NumberOf(done)]' = script[NumberOf(done')]
  BY DEF NumberOf, Before
<1>3. QED  BY <1>1, <1>2 DEF Smooth, SmoothAs

\* Where nothing is being entered, nothing meets.
LEMMA NothingMeets ==
  ASSUME NEW path, NEW t, NEW B, NEW C, Led(path, t, B, C), C \subseteq B, NEW n, NEW r
  PROVE  Fresh(path, t, n, <<>>, <<>>, r, B, C)
<1>1. Clear(path, t, n, <<>>, <<>>, C) /\ Apart(<<>>)
  BY DEF Clear, Apart
<1>2. FreeCalls(<<>>, t, r) /\ Distinct(<<>>, r)
  BY DEF FreeCalls, Distinct
<1>3. QED  BY <1>1, <1>2 DEF Fresh

\* The build begins with an empty table.
LEMMA InitSmooth ==
  ASSUME Init
  PROVE  Smooth
<1> DEFINE path == [n \in Nat |-> <<>>]
           t == Table(1, NULL)
<1>1. tables = <<t>> /\ offsets = <<>> /\ calls = <<>> /\ status = NoError /\ done = 0
  BY DEF Init, BuilderInit
<1>2. t.values = [k \in Byte |-> NULL]
  BY KidsOf DEF Table
<1> HIDE DEF t
<1>3. \A n \in 1..Len(tables) : \A k \in Byte : tables[n].values[k] = NULL
  BY <1>1, <1>2
<1>4. Led(path, tables, Begun(0), Taken(0))
  <2> HIDE DEF path
  <2>1. QED  BY <1>3 DEF Led
<1>5. Taken(0) \subseteq Begun(0)
  BY DEF Taken
<1>6. path \in [Nat -> Seq(Nat)] /\ path[Root] = <<>>
  BY DEF Root
<1> HIDE DEF path
<1>7. Fresh(path, tables, table, <<>>, <<>>, Last(info), Begun(0), Taken(0))
  BY <1>4, <1>5, NothingMeets
<1>8. SmoothAs(status, path, tables, table, offsets, calls, Last(info), done)
  BY <1>1, <1>6, <1>7 DEF SmoothAs
<1>9. QED  BY <1>8 DEF Smooth

\* The next encoding is begun without an error.
LEMMA BeginEncodingSmooth ==
  ASSUME Inv, Inv', ~Reason, Smooth, BeginEncoding
  PROVE  Smooth'
<1> DEFINE d == done + 1
           n == NumberOf(d)
           e == script[n]
           r == Parse(e.tokens)
           b == BytesOf(e)
           hi == Len(b)
           p == PlaceOf(b)
           count == IF "reg_base" \in e.tags THEN RegCount ELSE 1
           N == Len(script)
           os == [i \in 1..count |-> p.k + i - 1]
           B == Begun(done)
           C == Taken(done)
           A == B \cup Beginnings(b, hi - 1)
<1>1. script \in Scripts /\ N \in Nat /\ done \in 0..(N - 1) /\ d \in Indices /\ script' = script
  <2>1. script \in Scripts /\ N \in Nat /\ done \in 0..N /\ done < N
    BY ScriptsAssumption DEF Inv, BeginEncoding
  <2>2. QED  BY <2>1 DEF Indices, BeginEncoding
<1>2. GoodEncoding(e) /\ r.status = NoError /\ n \in Indices
  <2> HIDE DEF d
  <2>1. GoodEncoding(e) /\ r.status = NoError
    BY <1>1, NoneWrong
  <2>2. n \in Indices
    BY <1>1, ScriptsAssumption, NumberFound
  <2>3. QED  BY <2>1, <2>2
<1>3. /\ OpcodeBytes(r) = b /\ b \in Seq(Byte) /\ b \in Seq(Nat) /\ hi >= 1 /\ 0 \in Rows(e)
      /\ OpcodesOf(e) \subseteq Seq(Nat)
      /\ \A i \in Rows(e) : i \in Nat /\ Raised(b, i) \in OpcodesOf(e)
  <2> HIDE DEF e
  <2>1. QED  BY <1>2, OpcodesFound
<1>4. PICK path : SmoothAs(status, path, tables, table, offsets, calls, Last(info), done)
  BY DEF Smooth
<1>5. /\ status = NoError /\ path \in [Nat -> Seq(Nat)] /\ path[Root] = <<>>
      /\ Led(path, tables, B, C) /\ C \subseteq B
  BY <1>4 DEF SmoothAs, Fresh
<1>6. PICK f : LedAt(f, p, b[hi], Part(b, hi - 1), A, C)
  <2>1. e = script[NumberOf(done + 1)] /\ Sound(tables, N)
    BY DEF Inv
  <2> HIDE DEF e
  <2>2. \E f : LedAt(f, PlaceOf(b), b[Len(b)], Part(b, Len(b) - 1),
                     Begun(done) \cup Beginnings(b, Len(b) - 1), Taken(done))
    BY <1>1, <1>5, <2>1, WayClear
  <2>3. QED  BY <2>2
<1>7. p.status = NoError /\ p.k = b[hi] /\ Led(f, p.tables, A, C)
      /\ f \in [Nat -> Seq(Nat)] /\ f[Root] = <<>> /\ TypeAt(p) = 1
  BY <1>6 DEF LedAt
<1>8. /\ done' = d /\ info' = Append(info, r) /\ tables' = p.tables /\ table' = p.table
      /\ offsets' = os /\ calls' = <<>> /\ status' = status
  <2> HIDE DEF r, b
  <2>1. /\ done' = d /\ calls = <<>>
        /\ LET q == PlaceOf(OpcodeBytes(r))
           IN  IF r.status # NoError THEN TRUE
               ELSE /\ info' = Append(info, r) /\ tables' = q.tables /\ table' = q.table
                    /\ IF q.status # NoError THEN TRUE
                       ELSE offsets' = [i \in 1..count |-> q.k + i - 1] /\ status' = status
                    /\ calls' = calls
    BY DEF BeginEncoding, Pending, r
  <2>2. QED  BY <1>2, <1>3, <1>7, <2>1
<1>9. Last(info') = r
  <2>1. info \in Seq(OpcodeRecords)
    BY DEF Inv
  <2>2. info' = Append(info, r)
    BY <1>8
  <2> HIDE DEF r
  <2>3. QED  BY <2>1, <2>2 DEF Last
<1>10. Taken(d) = C \cup OpcodesOf(e) /\ B \subseteq Begun(d)
  <2>1. done \in Nat
    BY <1>1
  <2>2. QED  BY <2>1, TakenOn
<1>11. Taken(d) \subseteq Begun(d)
  <2>1. d \in 0..Len(script)
    BY <1>1
  <2> HIDE DEF d
  <2>2. QED  BY <1>1, <2>1, TakenBegun
<1> HIDE DEF d, n, e, r, b, p, count, N, os, B, C, A
<1>12. Beginnings(b, hi - 1) \subseteq Begun(d)
  <2>1. SUFFICES ASSUME NEW i \in 1..(hi - 1)
                 PROVE  Part(b, i) \in Begun(d)
    BY DEF Beginnings
  <2>2. Raised(b, 0) \in Taken(d)
    BY <1>3, <1>10
  <2>3. Part(b, i) \in Seq(Nat) /\ IsPrefix(Part(b, i), Raised(b, 0))
    BY <1>3, PartOfRaised
  <2>4. QED  BY <2>2, <2>3 DEF Begun
<1>13. Led(f, tables', Begun(d), Taken(d))
  <2>1. A \subseteq Begun(d) /\ C \subseteq Taken(d)
    BY <1>10, <1>12 DEF A
  <2>2. Led(f, p.tables, Begun(d), Taken(d))
    BY <1>7, <2>1, LedByMore, Zenon
  <2>3. QED  BY <1>8, <2>2
<1>14. \A i \in 1..count : i - 1 \in Rows(e)
  BY CountsAssumption DEF count, Rows, Reg
<1>15. count \in Nat
  BY CountsAssumption DEF count
<1>16. b[hi] \in Nat
  BY <1>3
<1>17. os \in Seq(Byte) /\ Len(os) = count /\ \A i \in 1..count : os[i] = b[hi] + (i - 1)
  <2>1. os \in Seq(Byte)
    BY <1>8 DEF Inv
  <2>2. os = [i \in 1..count |-> b[hi] + i - 1]
    BY <1>7 DEF os
  <2>3. QED  BY <1>15, <1>16, <2>1, <2>2
<1>18. p.table \in 1..Len(p.tables)
  BY <1>8 DEF Inv
<1>19. ASSUME NEW i \in 1..Len(os)
       PROVE  p.tables[p.table].values[os[i]] = NULL /\ Append(f[p.table], os[i]) \in Taken(d)
  <2> DEFINE m == i - 1
  <2>1. m \in Rows(e) /\ os[i] = b[hi] + m /\ os[i] \in Byte
    BY <1>14, <1>17
  <2>2. e = script[NumberOf(done + 1)] /\ b = BytesOf(e)
    BY DEF e, n, d, b
  <2>3. LedAt(f, p, b[Len(b)], Part(b, Len(b) - 1),
              Begun(done) \cup Beginnings(b, Len(b) - 1), Taken(done))
    BY <1>6 DEF A, B, C
  <2> HIDE DEF m
  <2>4. b[Len(b)] + m \in Byte
    BY <2>1
  <2>5. done \in 0..(Len(script) - 1)
    BY <1>1 DEF N
  <2>6. FreeFor(f, p, b[Len(b)] + m, OpcodesOf(e))
    BY <1>1, <1>18, <2>1, <2>2, <2>3, <2>4, <2>5, BytesFree, Zenon
  <2>7. QED  BY <1>10, <2>1, <2>6 DEF FreeFor
<1>20. Clear(f, tables', table', os, <<>>, Taken(d)) /\ Apart(os)
  <2>1. Clear(f, tables', table', os, <<>>, Taken(d))
    BY <1>8, <1>19 DEF Clear
  <2>2. Apart(os)
    <3>1. ASSUME NEW i \in 1..count, NEW j \in 1..count, os[i] = os[j]
          PROVE  i = j
      <4>1. b[hi] + (i - 1) = b[hi] + (j - 1)
        BY <1>17, <3>1
      <4>2. QED  BY <1>15, <1>16, <4>1
    <3>2. QED  BY <1>17, <3>1 DEF Apart
  <2>3. QED  BY <2>1, <2>2
<1>21. Fresh(f, tables', table', os, <<>>, r, Begun(d), Taken(d))
  <2>1. FreeCalls(<<>>, tables', r) /\ Distinct(<<>>, r)
    BY DEF FreeCalls, Distinct
  <2>2. QED  BY <1>11, <1>13, <1>20, <2>1 DEF Fresh
<1>22. SmoothAs(status', f, tables', table', offsets', calls', Last(info'), done')
  <2>1. r = Parse(script[NumberOf(d)].tokens)
    BY DEF r, e, n
  <2>2. QED  BY <1>5, <1>7, <1>8, <1>9, <1>21, <2>1 DEF SmoothAs
<1>23. QED  BY <1>1, <1>22, SmoothNext

\* The opcode that is being entered asks for mod only with reg.
LEMMA OpcodeAsks ==
  ASSUME Inv, ~Reason, Pending, pc = "build", NEW path,
         SmoothAs(status, path, tables, table, offsets, calls, Last(info), done)
  PROVE  /\ Last(info) \in OpcodeRecords /\ Number \in Indices
         /\ Last(info).regop = NoReg => Last(info).mod = NoMod
<1>1. Last(info) = Parse(script[NumberOf(done)].tokens)
  BY DEF SmoothAs, Pending
<1>2. done \in Indices /\ script \in Scripts /\ Last(info) \in OpcodeRecords
  <2>1. info \in Seq(OpcodeRecords) /\ info # <<>> /\ Len(info) = done /\ done \in 0..Len(script)
        /\ script \in Scripts
    BY DEF Inv
  <2>2. Last(info) \in OpcodeRecords
    BY <2>1 DEF Last
  <2>3. Len(script) \in Nat
    BY ScriptFacts
  <2>4. done # 0
    BY <2>1
  <2>5. QED  BY <2>1, <2>2, <2>3, <2>4 DEF Indices
<1>3. Number \in Indices
  BY <1>2, ScriptsAssumption, NumberFound DEF Number
<1>4. QED  BY <1>1, <1>2, <1>3, NoneWrong

\* A byte is begun without an error.
LEMMA BeginByteSmooth ==
  ASSUME Inv, Inv', ~Reason, Smooth, BeginByte
  PROVE  Smooth'
<1>1. /\ pc = "build" /\ Pending /\ offsets # <<>>
      /\ script' = script /\ done' = done /\ info' = info
  BY DEF BeginByte, Pending
<1>2. PICK path : SmoothAs(status, path, tables, table, offsets, calls, Last(info), done)
  BY DEF Smooth
<1>3. Last(info).regop = NoReg => Last(info).mod = NoMod
  BY <1>1, <1>2, OpcodeAsks
<1>4. PICK r, B, C : r = Last(info) /\ B = Begun(done) /\ C = Taken(done)
  OBVIOUS
<1>5. r = Last(info) /\ (r.regop = NoReg => r.mod = NoMod)
      /\ Fresh(path, tables, table, offsets, calls, r, B, C)
  BY <1>2, <1>3, <1>4 DEF SmoothAs
<1>6. status' = status /\ Fresh(path, tables', table', offsets', calls', r, B, C)
  <2>1. Servable(calls', tables', r)
    BY <1>1, <1>4 DEF Inv
  <2>2. QED  BY <1>5, <2>1, ByteFresh
<1>7. r = Parse(script[NumberOf(done)].tokens)
  BY <1>1, <1>2, <1>4 DEF SmoothAs
<1>8. SmoothAs(status', path, tables', table', offsets', calls', Last(info'), done')
  BY <1>1, <1>2, <1>4, <1>6, <1>7 DEF SmoothAs
<1>9. QED  BY <1>1, <1>8, SmoothNext

\* And the encoding is entered without an error.
LEMMA EntrySmooth ==
  ASSUME Inv, ~Reason, Smooth, process_decoder_entry
  PROVE  Smooth'
<1> DEFINE e == Entered(Head(calls))
           r == Last(info)
           B == Begun(done)
           C == Taken(done)
           N == Len(script)
<1>1. /\ pc = "build" /\ Pending /\ calls # <<>>
      /\ script' = script /\ done' = done /\ info' = info /\ table' = table /\ offsets' = offsets
      /\ tables' = e.tables
      /\ e.status = NoError => calls' = Tail(calls) /\ status' = status
  BY DEF process_decoder_entry, Pending
<1>2. PICK path : SmoothAs(status, path, tables, table, offsets, calls, Last(info), done)
  BY DEF Smooth
<1>3. r \in OpcodeRecords /\ Number \in Indices /\ (r.regop = NoReg => r.mod = NoMod)
  BY <1>1, <1>2, OpcodeAsks
<1>4. r = Last(info) /\ e = Entered(Head(calls)) /\ Fresh(path, tables, table, offsets, calls, r, B, C)
  BY <1>2 DEF SmoothAs
<1>5. /\ N \in Nat /\ Sound(tables, N) /\ table \in 1..Len(tables) /\ offsets \in Seq(Byte)
      /\ (offsets # <<>> => tables[table].type = 1) /\ Servable(calls, tables, r) /\ Number \in 0..N
  <2>1. Number \in 0..N
    BY <1>3, ScriptFacts DEF Indices
  <2>2. QED  BY <2>1, ScriptFacts DEF Inv
<1> HIDE DEF e, r, B, C, N
<1>6. ServedFresh(path, e, r, B, C)
  BY <1>1, <1>3, <1>4, <1>5, EntryFresh, Zenon
<1>7. r = Parse(script[NumberOf(done)].tokens)
  BY <1>1, <1>2 DEF SmoothAs, r
<1>8. SmoothAs(status', path, tables', table', offsets', calls', Last(info'), done')
  BY <1>1, <1>2, <1>6, <1>7 DEF SmoothAs, ServedFresh, r, B, C
<1>9. QED  BY <1>1, <1>8, SmoothNext

\* What follows has no error to add.
LEMMA WrittenSmooth ==
  ASSUME Smooth, AllEntered \/ Write \/ UNCHANGED allVars
  PROVE  Smooth'
<1>1. PICK path : SmoothAs(status, path, tables, table, offsets, calls, Last(info), done)
  BY DEF Smooth
<1>2. /\ script' = script /\ done' = done /\ tables' = tables /\ table' = table
      /\ offsets' = offsets /\ calls' = calls /\ info' = info /\ status' \in {status, NoError}
  BY DEF AllEntered, Return, Write, current, allVars, vars
<1>3. SmoothAs(status', path, tables', table', offsets', calls', Last(info'), done')
  BY <1>1, <1>2 DEF SmoothAs
<1>4. QED  BY <1>2, <1>3, SmoothNext

\* So there is a reason for an error from the start, or there is never one.
ReasonOrSmooth == Inv /\ (Reason \/ Smooth)

\* A reason stays one.
LEMMA ReasonStays ==
  ASSUME Reason, script' = script
  PROVE  Reason'
  BY DEF Reason

\* This is inductive.
LEMMA NextSmooth ==
  ASSUME ReasonOrSmooth, [Next]_allVars
  PROVE  ReasonOrSmooth'
<1>1. Inv /\ Inv'
  BY NextInv DEF ReasonOrSmooth
<1>2. script' = script
  BY DEF Next, Build, BeginEncoding, BeginByte, process_decoder_entry, AllEntered, Write,
         Written, allVars, vars
<1>3. CASE Reason
  BY <1>1, <1>2, <1>3, ReasonStays DEF ReasonOrSmooth
<1>4. CASE ~Reason
  <2>1. Smooth
    BY <1>4 DEF ReasonOrSmooth
  <2>2. CASE BeginEncoding
    BY <1>1, <1>4, <2>1, <2>2, BeginEncodingSmooth DEF ReasonOrSmooth
  <2>3. CASE BeginByte
    BY <1>1, <1>4, <2>1, <2>3, BeginByteSmooth DEF ReasonOrSmooth
  <2>4. CASE process_decoder_entry
    BY <1>1, <1>4, <2>1, <2>4, EntrySmooth DEF ReasonOrSmooth
  <2>5. CASE AllEntered \/ Write \/ UNCHANGED allVars
    BY <1>1, <2>1, <2>5, WrittenSmooth DEF ReasonOrSmooth
  <2>6. QED  BY <2>2, <2>3, <2>4, <2>5 DEF Next, Build, Written
<1>5. QED  BY <1>3, <1>4

\* ErrorsHaveReasons: whatever encodings a script has and in whatever order
\* they come, the build fails only if one of them is wrong by itself or the
\* opcode bytes of two of them meet: prefixes, registers in the opcode, values
\* of the reg and mod fields and shared entries never make a conflict.
THEOREM ErrorsAlwaysHaveReasons == Spec => []ErrorsHaveReasons
<1>1. Init => ReasonOrSmooth
  BY InitInv, InitSmooth DEF ReasonOrSmooth
<1>2. ReasonOrSmooth /\ [Next]_allVars => ReasonOrSmooth'
  BY NextSmooth
<1>3. ReasonOrSmooth => ErrorsHaveReasons
  BY DEF ReasonOrSmooth, Smooth, SmoothAs, Reason, ErrorsHaveReasons
<1>4. QED  BY <1>1, <1>2, <1>3, PTL DEF Spec
=============================================================================
