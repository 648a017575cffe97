---------------------------- MODULE EngineProofs ----------------------------
(***************************************************************************)
(* What the consolidation engine leaves alone, the cells users entered,    *)
(* what its formulas come to, and which cells it may write at all; what    *)
(* queries read; what the share of a group and an elimination are worth    *)
(* levels above; and what a query finds of a consolidation.                *)
(***************************************************************************)
EXTENDS Query, TreeProofs

\* A cell map without a zero cell.
NonZero(m) == \A c \in DOMAIN m : m[c] # 0

\* n is a cell map, and holds the same cells of users as m.
SameForUsers(n, m) == NonZero(n) /\ UserCells(n) = UserCells(m)

-----------------------------------------------------------------------------
\* Strict changes nothing, and Keep drops the zero cells and no others.
LEMMA StrictIsIdentity == \A f : Strict(f) = f
  BY DEF Strict

LEMMA KeepFacts ==
  ASSUME NEW f
  PROVE  /\ DOMAIN Keep(f) = {x \in DOMAIN f : f[x] # 0}
         /\ \A x \in DOMAIN Keep(f) : Keep(f)[x] = f[x]
         /\ NonZero(Keep(f))
<1> DEFINE m == Strict(f)
<1>1. m = f
  BY StrictIsIdentity
<1>2. Keep(f) = [c \in {x \in DOMAIN m : m[x] # 0} |-> m[c]]
  BY DEF Keep
<1> HIDE DEF m
<1> QED BY <1>1, <1>2 DEF NonZero

\* Two cell maps that agree on the cells of users, one by one.
LEMMA UserCellsEqual ==
  ASSUME NEW m, NEW n,
         \A c : c.origin \in UserOrigins =>
                  /\ c \in DOMAIN m <=> c \in DOMAIN n
                  /\ c \in DOMAIN m => m[c] = n[c]
  PROVE  UserCells(m) = UserCells(n)
<1>1. {x \in DOMAIN m : x.origin \in UserOrigins} = {x \in DOMAIN n : x.origin \in UserOrigins}
  OBVIOUS
<1> QED BY <1>1 DEF UserCells

LEMMA ClearCalcFacts ==
  ASSUME NEW m, NonZero(m)
  PROVE  SameForUsers(ClearOrigin(m, "Calc"), m)
<1> DEFINE n == ClearOrigin(m, "Calc")
<1>1. /\ DOMAIN n = {x \in DOMAIN m : x.origin # "Calc"}
      /\ \A x \in DOMAIN n : n[x] = m[x]
  BY DEF ClearOrigin
<1> HIDE DEF n
<1>2. UserCells(n) = UserCells(m)
  <2>1. "Calc" \notin UserOrigins
    BY DEF UserOrigins
  <2> QED BY <1>1, <2>1, UserCellsEqual
<1>3. NonZero(n)
  BY <1>1 DEF NonZero
<1> QED BY <1>2, <1>3 DEF SameForUsers, n

\* One formula writes cells of origin Calc alone.
LEMMA ApplyFormulaFacts ==
  ASSUME NEW meta, NEW input, NonZero(input), NEW t
  PROVE  SameForUsers(ApplyFormula(meta, input, t), input)
<1> DEFINE f    == meta.formulas[t]
           at   == {[acct |-> t, origin |-> "Calc", ic |-> i] : i \in Tuples(meta, input, f)}
           all  == [c \in DOMAIN input \cup at |->
                      IF c \in at THEN Writable(EvalFormula(meta, input, f, c.ic)) ELSE input[c]]
           n    == Keep(all)
<1>1. ApplyFormula(meta, input, t) = n
  BY DEF ApplyFormula
<1>2. \A c \in at : c.origin \notin UserOrigins
  BY DEF UserOrigins
<1> HIDE DEF f, at
<1>3. /\ DOMAIN all = DOMAIN input \cup at
      /\ \A c \in DOMAIN input : c \notin at => all[c] = input[c]
  OBVIOUS
<1> HIDE DEF all
<1>4. /\ DOMAIN n = {x \in DOMAIN all : all[x] # 0}
      /\ \A x \in DOMAIN n : n[x] = all[x]
      /\ NonZero(n)
  BY KeepFacts
<1> HIDE DEF n
<1>5. \A c : c.origin \in UserOrigins =>
               /\ c \in DOMAIN n <=> c \in DOMAIN input
               /\ c \in DOMAIN n => n[c] = input[c]
  BY <1>2, <1>3, <1>4 DEF NonZero
<1>6. UserCells(n) = UserCells(input)
  BY <1>5, UserCellsEqual
<1> QED BY <1>1, <1>4, <1>6 DEF SameForUsers

-----------------------------------------------------------------------------
\* f is the sequence of cell maps Applied goes through, up to the n-th.
Run(meta, order, input, n, f) ==
  f = [i \in 0 .. n |-> IF i = 0 THEN input ELSE ApplyFormula(meta, f[i - 1], order[i])]

\* The recursion of Applied defines a function.
LEMMA RunExists ==
  ASSUME NEW meta, NEW order, NEW input, NEW N \in Nat
  PROVE  \E f : Run(meta, order, input, N, f)
<1> DEFINE T == {n \in Nat : ~ \E f : Run(meta, order, input, n, f)}
<1> SUFFICES ASSUME T # {} PROVE FALSE
  OBVIOUS
<1>1. PICK m \in T : \A n \in T : m <= n
  <2> HIDE DEF T
  <2> QED BY LeastNatural DEF T
<1>2. CASE m = 0
  <2>1. Run(meta, order, input, 0, [i \in 0 .. 0 |-> input])
    BY DEF Run
  <2> QED BY <1>1, <1>2, <2>1
<1>3. CASE m # 0
  <2>1. m \in Nat /\ m - 1 \in Nat /\ m - 1 \notin T
    BY <1>1, <1>3
  <2>2. PICK g : Run(meta, order, input, m - 1, g)
    BY <2>1
  <2> DEFINE f == [i \in 0 .. m |-> IF i = m THEN ApplyFormula(meta, g[m - 1], order[m]) ELSE g[i]]
  <2>3. ASSUME NEW i \in 0 .. m
        PROVE  f[i] = IF i = 0 THEN input ELSE ApplyFormula(meta, f[i - 1], order[i])
    <3>1. CASE i = m
      <4>1. f[i - 1] = g[m - 1] /\ f[i] = ApplyFormula(meta, g[m - 1], order[m])
        BY <2>1, <3>1
      <4> QED BY <4>1, <1>3, <3>1
    <3>2. CASE i # m
      <4>1. i \in 0 .. m - 1 /\ f[i] = g[i]
        BY <2>1, <3>2
      <4>2. i # 0 => i - 1 \in 0 .. m - 1 /\ f[i - 1] = g[i - 1]
        BY <2>1, <4>1
      <4>3. g[i] = IF i = 0 THEN input ELSE ApplyFormula(meta, g[i - 1], order[i])
        BY <2>2, <4>1 DEF Run
      <4> QED BY <4>1, <4>2, <4>3
    <3> QED BY <3>1, <3>2
  <2>4. DOMAIN f = 0 .. m
    OBVIOUS
  <2>5. f = [i \in 0 .. m |-> f[i]]
    OBVIOUS
  <2> HIDE DEF f
  <2>6. Run(meta, order, input, m, f)
    BY <2>3, <2>4, <2>5 DEF Run
  <2> QED BY <1>1, <2>6
<1> QED BY <1>2, <1>3

\* up holds the cell maps before and after each of the first N formulas.
Steps(meta, order, N, up) ==
  /\ \A n \in 1 .. N : up[n] = ApplyFormula(meta, up[n - 1], order[n])
  /\ \A n \in 0 .. N : NonZero(up[n])

\* Applied is where the run over the whole order ends.
LEMMA AppliedIsRun ==
  ASSUME NEW meta, NEW order, NEW N, N = Len(order), N \in Nat, NEW input, NonZero(input)
  PROVE  \E up : /\ Applied(meta, order, input) = up[N] /\ up[0] = input
                 /\ Steps(meta, order, N, up)
<1> DEFINE up == CHOOSE f : Run(meta, order, input, N, f)
<1>1. Run(meta, order, input, N, up)
  BY RunExists
<1>2. Applied(meta, order, input) = up[N]
  BY DEF Applied, Run
<1> HIDE DEF up
<1>3. N \in Nat
  OBVIOUS
<1>4. /\ up[0] = input
      /\ \A n \in 1 .. N : up[n] = ApplyFormula(meta, up[n - 1], order[n])
  <2>1. up = [i \in 0 .. N |-> IF i = 0 THEN input ELSE ApplyFormula(meta, up[i - 1], order[i])]
    BY <1>1 DEF Run
  <2>2. up[0] = input
    BY <1>3, <2>1
  <2>3. ASSUME NEW n \in 1 .. N PROVE up[n] = ApplyFormula(meta, up[n - 1], order[n])
    <3>1. n \in 0 .. N /\ n # 0
      BY <1>3
    <3> QED BY <2>1, <3>1
  <2> QED BY <2>2, <2>3
<1>5. ASSUME NEW n \in 0 .. N
      PROVE  NonZero(up[n])
  <2>1. CASE n = 0
    BY <1>4, <2>1
  <2>2. CASE n # 0
    <3>1. n \in 1 .. N
      BY <1>3, <2>2
    <3> QED BY <1>4, <3>1, KeepFacts DEF ApplyFormula
  <2> QED BY <2>1, <2>2
<1> QED BY <1>2, <1>4, <1>5 DEF Steps

\* However many formulas run, users' cells stay.
LEMMA AppliedFacts ==
  ASSUME NEW meta, NEW order, Len(order) \in Nat, NEW input, NonZero(input)
  PROVE  SameForUsers(Applied(meta, order, input), input)
<1> DEFINE N == Len(order)
<1>2. N = Len(order) /\ N \in Nat
  OBVIOUS
<1> HIDE DEF N
<1>1. PICK up : /\ Applied(meta, order, input) = up[N] /\ up[0] = input
                /\ Steps(meta, order, N, up)
  BY <1>2, AppliedIsRun
<1> DEFINE Bad == {n \in 0 .. N : ~SameForUsers(up[n], input)}
<1>3. Bad = {}
  <2> SUFFICES ASSUME Bad # {} PROVE FALSE
    OBVIOUS
  <2>1. PICK m \in Bad : \A n \in Bad : m <= n
    <3>1. Bad \subseteq Nat
      BY <1>2
    <3> HIDE DEF Bad
    <3> QED BY <3>1, LeastNatural
  <2>2. m # 0
    BY <1>1, <2>1 DEF SameForUsers
  <2>3. m \in 1 .. N /\ m - 1 \in 0 .. N /\ m - 1 \notin Bad
    BY <1>2, <2>1, <2>2
  <2>4. SameForUsers(up[m - 1], input)
    BY <2>3
  <2>5. SameForUsers(up[m], up[m - 1])
    BY <1>1, <2>3, ApplyFormulaFacts DEF Steps
  <2> QED BY <2>1, <2>4, <2>5 DEF SameForUsers
<1> QED BY <1>1, <1>2, <1>3

LEMMA StoredCalcsFacts ==
  ASSUME NEW meta, NEW order, Len(order) \in Nat, NEW input, NonZero(input)
  PROVE  SameForUsers(StoredCalcs(meta, order, input), input)
<1> DEFINE n == ClearOrigin(input, "Calc")
<1>1. SameForUsers(n, input)
  BY ClearCalcFacts
<1> HIDE DEF n
<1>2. SameForUsers(Applied(meta, order, n), n)
  BY <1>1, AppliedFacts DEF SameForUsers
<1> QED BY <1>1, <1>2 DEF SameForUsers, StoredCalcs, n

-----------------------------------------------------------------------------
\* The orders TopoSort may build: no formula twice, and none before a formula
\* it depends on.
Orders(meta) ==
  {done \in Seq(DOMAIN meta.formulas) :
     /\ \A i, j \in DOMAIN done : done[i] = done[j] => i = j
     /\ \A i \in DOMAIN done : Deps(meta, done[i]) \subseteq {done[j] : j \in 1 .. i - 1}}

\* f is the sequence of orders TopoSort goes through, up to the n-th.
Sorting(meta, n, f) ==
  f = [i \in 0 .. n |-> IF i = 0 THEN <<>> ELSE TakeReady(meta, f[i - 1])]

\* A ready formula goes to the end.
LEMMA TakeReadyFacts ==
  ASSUME NEW meta, NEW done \in Orders(meta)
  PROVE  TakeReady(meta, done) \in Orders(meta)
<1>1. CASE Ready(meta, done) = {}
  BY <1>1 DEF TakeReady
<1>2. CASE Ready(meta, done) # {}
  <2> DEFINE t   == CHOOSE t \in Ready(meta, done) : TRUE
             all == Append(done, t)
  <2>1. TakeReady(meta, done) = all
    BY <1>2 DEF TakeReady
  <2>2. t \in DOMAIN meta.formulas /\ t \notin Range(done) /\ Deps(meta, t) \subseteq Range(done)
    <3>1. t \in Ready(meta, done)
      BY <1>2
    <3> HIDE DEF t
    <3> QED BY <3>1 DEF Ready
  <2> HIDE DEF t
  <2>3. /\ done \in Seq(DOMAIN meta.formulas)
        /\ \A i, j \in DOMAIN done : done[i] = done[j] => i = j
        /\ \A i \in DOMAIN done : Deps(meta, done[i]) \subseteq {done[j] : j \in 1 .. i - 1}
    BY DEF Orders
  <2>4. /\ DOMAIN done = 1 .. Len(done) /\ Len(done) \in Nat
        /\ Range(done) = {done[j] : j \in 1 .. Len(done)}
    BY <2>3 DEF Range
  <2>5. /\ all \in Seq(DOMAIN meta.formulas) /\ DOMAIN all = 1 .. Len(done) + 1
        /\ all[Len(done) + 1] = t
        /\ \A i \in 1 .. Len(done) : all[i] = done[i]
    BY <2>2, <2>3, <2>4
  <2> HIDE DEF all
  <2>6. \A i, j \in DOMAIN all : all[i] = all[j] => i = j
    BY <2>2, <2>3, <2>4, <2>5
  <2>7. ASSUME NEW i \in DOMAIN all
        PROVE  Deps(meta, all[i]) \subseteq {all[j] : j \in 1 .. i - 1}
    <3>1. i \in 1 .. Len(done) + 1 /\ \A j \in 1 .. i - 1 : all[j] = done[j]
      BY <2>4, <2>5
    <3>2. {all[j] : j \in 1 .. i - 1} = {done[j] : j \in 1 .. i - 1}
      BY <3>1
    <3>3. CASE i = Len(done) + 1
      <4>1. 1 .. i - 1 = 1 .. Len(done)
        BY <2>4, <3>3
      <4> QED BY <2>2, <2>4, <2>5, <3>2, <3>3, <4>1
    <3>4. CASE i # Len(done) + 1
      <4>1. i \in DOMAIN done /\ all[i] = done[i]
        BY <2>4, <2>5, <3>1, <3>4
      <4> QED BY <2>3, <3>2, <4>1
    <3> QED BY <3>3, <3>4
  <2> QED BY <2>1, <2>5, <2>6, <2>7 DEF Orders
<1> QED BY <1>1, <1>2

\* The recursion of TopoSort defines a function, and its values are orders.
LEMMA SortingExists ==
  ASSUME NEW meta, NEW N \in Nat
  PROVE  \E f \in [0 .. N -> Orders(meta)] : Sorting(meta, N, f)
<1> DEFINE S == Orders(meta)
           T == {n \in Nat : ~ \E f \in [0 .. n -> S] : Sorting(meta, n, f)}
<1> SUFFICES ASSUME T # {} PROVE FALSE
  OBVIOUS
<1>1. PICK m \in T : \A n \in T : m <= n
  <2> HIDE DEF T
  <2> QED BY LeastNatural DEF T
<1>2. ASSUME NEW done \in S
      PROVE  TakeReady(meta, done) \in S
  BY TakeReadyFacts
<1>0. <<>> \in S
  BY DEF Orders
<1> HIDE DEF S
<1>3. CASE m = 0
  <2> DEFINE f == [i \in 0 .. 0 |-> <<>>]
  <2>1. Sorting(meta, 0, f)
    BY DEF Sorting
  <2>2. f \in [0 .. 0 -> S]
    BY <1>0
  <2> HIDE DEF f
  <2> QED BY <1>1, <1>3, <2>1, <2>2
<1>4. CASE m # 0
  <2>1. m \in Nat /\ m - 1 \in Nat /\ m - 1 \notin T
    BY <1>1, <1>4
  <2>2. PICK g \in [0 .. m - 1 -> S] : Sorting(meta, m - 1, g)
    BY <2>1
  <2> DEFINE f == [i \in 0 .. m |-> IF i = m THEN TakeReady(meta, g[m - 1]) ELSE g[i]]
  <2>3. ASSUME NEW i \in 0 .. m
        PROVE  f[i] = IF i = 0 THEN <<>> ELSE TakeReady(meta, f[i - 1])
    <3>1. CASE i = m
      <4>1. f[i - 1] = g[m - 1] /\ f[i] = TakeReady(meta, g[m - 1])
        BY <2>1, <3>1
      <4> QED BY <4>1, <1>4, <3>1
    <3>2. CASE i # m
      <4>1. i \in 0 .. m - 1 /\ f[i] = g[i]
        BY <2>1, <3>2
      <4>2. i # 0 => i - 1 \in 0 .. m - 1 /\ f[i - 1] = g[i - 1]
        BY <2>1, <4>1
      <4>3. g[i] = IF i = 0 THEN <<>> ELSE TakeReady(meta, g[i - 1])
        BY <2>2, <4>1 DEF Sorting
      <4> QED BY <4>1, <4>2, <4>3
    <3> QED BY <3>1, <3>2
  <2>4. f \in [0 .. m -> S]
    <3>1. g[m - 1] \in S
      BY <2>1
    <3>2. TakeReady(meta, g[m - 1]) \in S
      BY <1>2, <3>1
    <3>3. \A i \in 0 .. m : i # m => i \in 0 .. m - 1
      BY <2>1
    <3> QED BY <3>2, <3>3
  <2>5. f = [i \in 0 .. m |-> f[i]]
    OBVIOUS
  <2> HIDE DEF f
  <2>6. Sorting(meta, m, f)
    BY <2>3, <2>5 DEF Sorting
  <2> QED BY <1>1, <2>4, <2>6
<1> QED BY <1>3, <1>4

LEMMA OrderIsSorted ==
  ASSUME NEW meta, IsFiniteSet(DOMAIN meta.formulas)
  PROVE  TopoSort(meta) \in Orders(meta)
<1> DEFINE N     == Cardinality(DOMAIN meta.formulas)
           S     == Orders(meta)
           order == CHOOSE f : Sorting(meta, N, f)
<1>1. N \in Nat
  BY FS_CardinalityType
<1>2. Sorting(meta, N, order)
  BY <1>1, SortingExists
<1>3. TopoSort(meta) = order[N]
  BY DEF TopoSort, Sorting
<1> HIDE DEF order, N
<1>4. order \in [0 .. N -> S]
  <2>1. PICK f \in [0 .. N -> S] : Sorting(meta, N, f)
    BY <1>1, SortingExists
  <2> DEFINE Bad == {n \in 0 .. N : order[n] # f[n]}
  <2>2. Bad = {}
    <3> SUFFICES ASSUME Bad # {} PROVE FALSE
      OBVIOUS
    <3>1. PICK m \in Bad : \A n \in Bad : m <= n
      <4>1. Bad \subseteq Nat
        BY <1>1
      <4> HIDE DEF Bad
      <4> QED BY <4>1, LeastNatural
    <3>2. /\ order[m] = IF m = 0 THEN <<>> ELSE TakeReady(meta, order[m - 1])
          /\ f[m] = IF m = 0 THEN <<>> ELSE TakeReady(meta, f[m - 1])
      BY <1>2, <2>1, <3>1 DEF Sorting
    <3>3. m # 0 => m - 1 \in 0 .. N /\ m - 1 \notin Bad
      BY <1>1, <3>1
    <3> QED BY <3>1, <3>2, <3>3
  <2>3. order = [i \in 0 .. N |-> order[i]]
    <3>1. DOMAIN order = 0 .. N /\ order = [i \in 0 .. N |-> IF i = 0 THEN <<>> ELSE TakeReady(meta, order[i - 1])]
      BY <1>2 DEF Sorting
    <3> QED BY <3>1
  <2> QED BY <2>1, <2>2, <2>3
<1> QED BY <1>1, <1>3, <1>4

\* An order is a sequence of formulas ...
LEMMA OrderIsSequence ==
  ASSUME NEW meta, IsFiniteSet(DOMAIN meta.formulas)
  PROVE  /\ TopoSort(meta) \in Seq(DOMAIN meta.formulas)
         /\ Len(TopoSort(meta)) \in Nat
<1>1. TopoSort(meta) \in Seq(DOMAIN meta.formulas)
  BY OrderIsSorted DEF Orders
<1> QED BY <1>1

\* ... and one that is as long as there are formulas has them all.
LEMMA OrderIsComplete ==
  ASSUME NEW meta, IsFiniteSet(DOMAIN meta.formulas), NEW order \in Orders(meta),
         ~(Len(order) < Cardinality(DOMAIN meta.formulas)),
         NEW t \in DOMAIN meta.formulas
  PROVE  \E k \in 1 .. Len(order) : order[k] = t
<1> DEFINE D == DOMAIN meta.formulas
<1>1. /\ order \in Seq(D) /\ Len(order) \in Nat /\ order \in [1 .. Len(order) -> D]
      /\ \A i, j \in 1 .. Len(order) : order[i] = order[j] => i = j
  BY DEF Orders
<1>2. order \in Injection(1 .. Len(order), D)
  BY <1>1 DEF Injection, IsInjective
<1>3. Cardinality(1 .. Len(order)) = Len(order)
  <2> DEFINE n == Len(order)
  <2>1. n \in Nat /\ 1 \in Int /\ n \in Int /\ (1 > n => n = 0)
    BY <1>1
  <2> HIDE DEF n
  <2>2. Cardinality(1 .. n) = IF 1 > n THEN 0 ELSE n - 1 + 1
    BY <2>1, FS_Interval
  <2>3. Cardinality(1 .. n) = n
    BY <2>1, <2>2
  <2> QED BY <2>3 DEF n
<1>4. Cardinality(D) \in Nat /\ Cardinality(1 .. Len(order)) <= Cardinality(D)
  BY <1>2, FS_Injection, FS_CardinalityType
<1>5. Cardinality(1 .. Len(order)) = Cardinality(D)
  BY <1>1, <1>3, <1>4
<1>6. order \in Surjection(1 .. Len(order), D)
  BY <1>2, <1>5, FS_Injection
<1> QED BY <1>6 DEF Surjection

-----------------------------------------------------------------------------
(* A formula over the Input it leaves.                                     *)

\* Two cell maps that hold the same at c.
SameAt(m, n, c) == (c \in DOMAIN m <=> c \in DOMAIN n) /\ (c \in DOMAIN m => m[c] = n[c])

CalcCell(t, i) == [acct |-> t, origin |-> "Calc", ic |-> i]

\* Two cell maps that hold the same wherever formula f may read.
SameToRead(meta, m, n, f) ==
  \A c : (\E r \in Refs(f) : c.acct \in Below(meta, r)) => SameAt(m, n, c)

\* What a formula comes to depends on the cells below its references.
LEMMA FormulaReadsBelow ==
  ASSUME NEW meta, NEW m, NEW n, NEW f, SameToRead(meta, m, n, f)
  PROVE  /\ Tuples(meta, m, f) = Tuples(meta, n, f)
         /\ \A i : EvalFormula(meta, m, f, i) = EvalFormula(meta, n, f, i)
<1>1. {x \in DOMAIN m : \E r \in Refs(f) : x.acct \in Below(meta, r)}
        = {x \in DOMAIN n : \E r \in Refs(f) : x.acct \in Below(meta, r)}
  BY DEF SameAt, SameToRead
<1>2. Tuples(meta, m, f) = Tuples(meta, n, f)
  BY <1>1 DEF Tuples
<1>3. ASSUME NEW r \in Refs(f), NEW i
      PROVE  Rollup(meta, m, r, i) = Rollup(meta, n, r, i)
  <2> DEFINE own(k) == {x \in DOMAIN k : x.ic = i /\ x.acct \in Below(meta, r)}
             part(k) == [c \in own(k) |-> k[c] * PathWeight(meta, r, c.acct)]
  <2>1. own(m) = own(n) /\ \A c \in own(m) : m[c] = n[c]
    BY DEF SameAt, SameToRead
  <2>2. part(m) = part(n)
    BY <2>1
  <2>3. \A k : Rollup(meta, k, r, i) = SumFunction(part(k))
    BY DEF Rollup
  <2> HIDE DEF part
  <2> QED BY <2>2, <2>3
<1>4. ASSUME NEW i
      PROVE  EvalFormula(meta, m, f, i) = EvalFormula(meta, n, f, i)
  <2> DEFINE terms(k) == [r \in Refs(f) |-> f.coef[r] * Rollup(meta, k, r, i)]
  <2>1. terms(m) = terms(n)
    BY <1>3
  <2>2. \A k : EvalFormula(meta, k, f, i) = f.const + SumFunction(terms(k))
    BY DEF EvalFormula
  <2> HIDE DEF terms
  <2> QED BY <2>1, <2>2
<1> QED BY <1>2, <1>4

\* A formula writes its own Calc cells: a partner it has no cell to read for
\* keeps what it had.
LEMMA FormulaWrites ==
  ASSUME NEW meta, NEW input, NonZero(input), NEW t
  PROVE  LET n == ApplyFormula(meta, input, t)
             f == meta.formulas[t]
         IN  /\ \A c : c.acct # t => SameAt(n, input, c)
             /\ \A i : Val(n, CalcCell(t, i)) = IF i \in Tuples(meta, input, f)
                                                THEN Writable(EvalFormula(meta, input, f, i))
                                                ELSE Val(input, CalcCell(t, i))
<1> DEFINE f   == meta.formulas[t]
           at  == {CalcCell(t, i) : i \in Tuples(meta, input, f)}
           w(c) == Writable(EvalFormula(meta, input, f, c.ic))
           all == [c \in DOMAIN input \cup at |-> IF c \in at THEN w(c) ELSE input[c]]
           n   == Keep(all)
<1>1. ApplyFormula(meta, input, t) = n
  BY DEF ApplyFormula, CalcCell
<1>2. \A c \in at : c.acct = t
  BY DEF CalcCell
<1>3. \A i : /\ CalcCell(t, i) \in at <=> i \in Tuples(meta, input, f)
             /\ w(CalcCell(t, i)) = Writable(EvalFormula(meta, input, f, i))
  BY DEF CalcCell
<1> HIDE DEF w, at
<1>4. /\ DOMAIN all = DOMAIN input \cup at
      /\ \A c \in DOMAIN all : all[c] = IF c \in at THEN w(c) ELSE input[c]
  OBVIOUS
<1> HIDE DEF all
<1>5. /\ DOMAIN n = {x \in DOMAIN all : all[x] # 0}
      /\ \A x \in DOMAIN n : n[x] = all[x]
  BY KeepFacts
<1> HIDE DEF n
<1>6. ASSUME NEW c, c \notin at
      PROVE  SameAt(n, input, c)
  BY <1>4, <1>5, <1>6 DEF SameAt, NonZero
<1>7. ASSUME NEW c \in at
      PROVE  Val(n, c) = w(c)
  BY <1>4, <1>5 DEF Val
<1>8. \A c : c.acct # t => SameAt(n, input, c)
  BY <1>2, <1>6
<1>9. ASSUME NEW i
      PROVE  Val(n, CalcCell(t, i)) = IF i \in Tuples(meta, input, f)
                                      THEN Writable(EvalFormula(meta, input, f, i))
                                      ELSE Val(input, CalcCell(t, i))
  <2>1. CASE i \in Tuples(meta, input, f)
    BY <1>3, <1>7, <2>1
  <2>2. CASE i \notin Tuples(meta, input, f)
    BY <1>3, <1>6, <2>2 DEF SameAt, Val
  <2> QED BY <2>1, <2>2
<1> QED BY <1>1, <1>8, <1>9

\* Formulas k + 1 to l leave the cells of every other account alone.
LEMMA RunLeavesOthers ==
  ASSUME NEW meta, NEW order, NEW N \in Nat, NEW up, Steps(meta, order, N, up)
  PROVE  \A k \in 0 .. N, l \in 0 .. N : \A c :
           k <= l /\ (\A j \in k + 1 .. l : order[j] # c.acct) => SameAt(up[l], up[k], c)
<1> SUFFICES ASSUME NEW k \in 0 .. N, NEW l \in 0 .. N, NEW c, k <= l,
                    \A j \in k + 1 .. l : order[j] # c.acct
             PROVE  SameAt(up[l], up[k], c)
  OBVIOUS
<1> DEFINE Bad == {n \in k .. l : ~SameAt(up[n], up[k], c)}
<1> SUFFICES ASSUME Bad # {} PROVE FALSE
  OBVIOUS
<1>1. PICK m \in Bad : \A n \in Bad : m <= n
  <2>1. Bad \subseteq Nat
    OBVIOUS
  <2> HIDE DEF Bad
  <2> QED BY <2>1, LeastNatural
<1>2. m # k
  BY <1>1 DEF SameAt
<1>3. m \in k + 1 .. l /\ m \in 1 .. N /\ m - 1 \in k .. l /\ m - 1 \in 0 .. N /\ m - 1 \notin Bad
  BY <1>1, <1>2
<1>4. SameAt(up[m - 1], up[k], c)
  BY <1>3
<1>5. SameAt(up[m], up[m - 1], c)
  <2> DEFINE before == up[m - 1]
             t      == order[m]
  <2>1. NonZero(before) /\ up[m] = ApplyFormula(meta, before, t) /\ c.acct # t
    BY <1>3 DEF Steps
  <2> HIDE DEF before, t
  <2>2. \A d : d.acct # t => SameAt(ApplyFormula(meta, before, t), before, d)
    BY <2>1, FormulaWrites
  <2> QED BY <2>1, <2>2 DEF before
<1> QED BY <1>1, <1>4, <1>5 DEF SameAt

\* When the formulas ran in an order with all of them, each agrees with the
\* cells that are there in the end.
LEMMA AppliedIsConsistent ==
  ASSUME NEW meta, NEW order \in Orders(meta), NEW input, NonZero(input),
         \A c \in DOMAIN input : c.origin # "Calc",
         NEW k \in 1 .. Len(order), NEW i
  PROVE  LET out == Applied(meta, order, input)
             f   == meta.formulas[order[k]]
         IN  Val(out, CalcCell(order[k], i))
               = IF i \in Tuples(meta, out, f) THEN Writable(EvalFormula(meta, out, f, i)) ELSE 0
<1> DEFINE N  == Len(order)
           t  == order[k]
           f  == meta.formulas[t]
           z  == CalcCell(t, i)
<1>1. /\ order \in Seq(DOMAIN meta.formulas) /\ N \in Nat
      /\ t \in DOMAIN meta.formulas
      /\ \A j \in 1 .. N : order[j] \in DOMAIN meta.formulas
      /\ \A j, l \in 1 .. N : order[j] = order[l] => j = l
      /\ Deps(meta, t) \subseteq {order[j] : j \in 1 .. k - 1}
  BY DEF Orders
<1>2. PICK up : /\ Applied(meta, order, input) = up[N] /\ up[0] = input
                /\ Steps(meta, order, N, up)
  <2>1. N = Len(order) /\ N \in Nat
    BY <1>1
  <2> HIDE DEF N
  <2> QED BY <2>1, AppliedIsRun
<1>3. k \in 1 .. N /\ {0, k - 1, k, N} \subseteq 0 .. N /\ 0 <= k - 1 /\ k - 1 <= N /\ k <= N
  BY <1>1
<1> HIDE DEF N
<1>0. \A m \in 0 .. N, l \in 0 .. N : \A c :
        m <= l /\ (\A j \in m + 1 .. l : order[j] # c.acct) => SameAt(up[l], up[m], c)
  BY <1>1, <1>2, RunLeavesOthers
<1>4. Val(up[k - 1], z) = 0
  <2>1. \A j \in 0 + 1 .. k - 1 : order[j] # z.acct
    BY <1>1, <1>3 DEF CalcCell
  <2>2. SameAt(up[k - 1], up[0], z)
    BY <1>0, <1>3, <2>1
  <2>3. z \notin DOMAIN up[0]
    BY <1>2 DEF CalcCell
  <2> QED BY <2>2, <2>3 DEF SameAt, Val
<1>5. Val(up[N], z) = Val(up[k], z)
  <2>1. \A j \in k + 1 .. N : order[j] # z.acct
    BY <1>1, <1>3 DEF CalcCell
  <2>2. SameAt(up[N], up[k], z)
    BY <1>0, <1>3, <2>1
  <2> QED BY <2>2 DEF SameAt, Val
<1>6. Val(up[k], z) = IF i \in Tuples(meta, up[k - 1], f)
                      THEN Writable(EvalFormula(meta, up[k - 1], f, i)) ELSE 0
  <2> DEFINE before == up[k - 1]
  <2>1. NonZero(before) /\ up[k] = ApplyFormula(meta, before, t) /\ Val(before, z) = 0
    BY <1>2, <1>3, <1>4 DEF Steps
  <2> HIDE DEF before, t
  <2>2. Val(ApplyFormula(meta, before, t), CalcCell(t, i))
          = IF i \in Tuples(meta, before, meta.formulas[t])
            THEN Writable(EvalFormula(meta, before, meta.formulas[t], i))
            ELSE Val(before, CalcCell(t, i))
    BY <2>1, FormulaWrites
  <2> QED BY <2>1, <2>2 DEF before
<1>7. ASSUME NEW c, \E r \in Refs(f) : c.acct \in Below(meta, r)
      PROVE  SameAt(up[N], up[k - 1], c)
  <2>1. ASSUME NEW j \in k .. N, order[j] = c.acct
        PROVE  FALSE
    <3>1. j \in 1 .. N /\ order[j] \in Deps(meta, t)
      BY <1>1, <1>3, <1>7, <2>1 DEF Deps
    <3>2. PICK l \in 1 .. k - 1 : order[j] = order[l]
      BY <1>1, <3>1
    <3> QED BY <1>1, <1>3, <2>1, <3>1, <3>2
  <2>2. \A j \in (k - 1) + 1 .. N : order[j] # c.acct
    BY <1>3, <2>1
  <2> QED BY <1>0, <1>3, <2>2
<1>8. /\ Tuples(meta, up[N], f) = Tuples(meta, up[k - 1], f)
      /\ EvalFormula(meta, up[N], f, i) = EvalFormula(meta, up[k - 1], f, i)
  <2> DEFINE before == up[k - 1]
             after  == up[N]
  <2>1. SameToRead(meta, after, before, f)
    BY <1>7 DEF SameToRead
  <2> HIDE DEF before, after, f
  <2>2. /\ Tuples(meta, after, f) = Tuples(meta, before, f)
        /\ \A x : EvalFormula(meta, after, f, x) = EvalFormula(meta, before, f, x)
    BY <2>1, FormulaReadsBelow
  <2> QED BY <2>2 DEF before, after
<1> QED BY <1>2, <1>5, <1>6, <1>8

-----------------------------------------------------------------------------
(* Process.                                                                *)

\* Steps 2 to 4 leave Input as step 1 has it.
LEMMA ProcessInput ==
  ASSUME NEW meta, NEW us, NEW e \in Entities
  PROVE  Process(meta, us)[e]["Input"] = StoredCalcs(meta, TopoSort(meta), us[e]["Input"])
<1> DEFINE input == Calculated(meta, us)
<1>1. Process(meta, us)[e]["Input"] = input[e]
  <2> HIDE DEF input
  <2>1. Process(meta, us) = Derived(meta, input)
    BY DEF Process, input
  <2>2. Derived(meta, input)[e]["Input"] = input[e]
    BY DEF Derived, Stages
  <2> QED BY <2>1, <2>2
<1>2. input[e] = StoredCalcs(meta, TopoSort(meta), us[e]["Input"])
  BY StrictIsIdentity DEF Calculated
<1> QED BY <1>1, <1>2

(* Process rebuilds what it derives and leaves the cells of users in every *)
(* unit as they were, whatever the metadata and the formulas.              *)
THEOREM ProcessKeepsUserCells ==
  ASSUME NEW meta, IsFiniteSet(DOMAIN meta.formulas),
         NEW us, NEW e \in Entities, NonZero(us[e]["Input"])
  PROVE  SameForUsers(Process(meta, us)[e]["Input"], us[e]["Input"])
<1> DEFINE order == TopoSort(meta)
<1>1. Len(order) \in Nat
  BY OrderIsSequence
<1> HIDE DEF order
<1>2. SameForUsers(StoredCalcs(meta, order, us[e]["Input"]), us[e]["Input"])
  BY <1>1, StoredCalcsFacts
<1> QED BY <1>2, ProcessInput DEF order

(* runStoredCalcs orders the formulas so that, when all have run, each     *)
(* Calc cell agrees with its formula over the final Input, whatever the    *)
(* formulas, the account tree and the cells there were.                    *)
THEOREM FormulasAgreeWithInput ==
  ASSUME NEW meta, IsFiniteSet(DOMAIN meta.formulas), ~ProcessFails(meta),
         NEW us, NEW e \in Entities, NonZero(us[e]["Input"]),
         NEW t \in DOMAIN meta.formulas, NEW i
  PROVE  LET input == Process(meta, us)[e]["Input"]
             f     == meta.formulas[t]
         IN  Val(input, CalcCell(t, i)) = IF i \in Tuples(meta, input, f)
                                          THEN Writable(EvalFormula(meta, input, f, i)) ELSE 0
<1> DEFINE order   == TopoSort(meta)
           cleared == ClearOrigin(us[e]["Input"], "Calc")
<1>1. order \in Orders(meta) /\ ~(Len(order) < Cardinality(DOMAIN meta.formulas))
  BY OrderIsSorted DEF ProcessFails
<1>2. NonZero(cleared) /\ \A c \in DOMAIN cleared : c.origin # "Calc"
  BY ClearCalcFacts DEF SameForUsers, ClearOrigin
<1>3. Process(meta, us)[e]["Input"] = Applied(meta, order, cleared)
  BY ProcessInput DEF StoredCalcs
<1> HIDE DEF order, cleared
<1>4. PICK k \in 1 .. Len(order) : order[k] = t
  BY <1>1, OrderIsComplete
<1> DEFINE out == Applied(meta, order, cleared)
<1>5. Val(out, CalcCell(t, i))
        = IF i \in Tuples(meta, out, meta.formulas[t])
          THEN Writable(EvalFormula(meta, out, meta.formulas[t], i)) ELSE 0
  BY <1>1, <1>2, <1>4, AppliedIsConsistent
<1> QED BY <1>3, <1>5

\* What Process makes of a slice depends on its Input cells other than Calc.
LEMMA ProcessReadsInput ==
  ASSUME NEW meta, NEW us, NEW vs,
         \A e \in Entities : ClearOrigin(us[e]["Input"], "Calc") = ClearOrigin(vs[e]["Input"], "Calc")
  PROVE  Process(meta, us) = Process(meta, vs)
<1> DEFINE order == TopoSort(meta)
           calc(ws) == [e \in Entities |-> StoredCalcs(meta, order, ws[e]["Input"])]
<1>1. \A e \in Entities : StoredCalcs(meta, order, us[e]["Input"]) = StoredCalcs(meta, order, vs[e]["Input"])
  BY DEF StoredCalcs
<1>2. calc(us) = calc(vs)
  BY <1>1
<1>3. \A ws : Calculated(meta, ws) = Strict(calc(ws))
  BY DEF Calculated
<1> HIDE DEF calc
<1> QED BY <1>2, <1>3 DEF Process

-----------------------------------------------------------------------------
(* The derived stages.                                                     *)

\* A cell map of integers.
Whole(m) == \A c \in DOMAIN m : m[c] \in Int

LEMMA WholeValues == \A m, c : Whole(m) => Val(m, c) \in Int
  BY DEF Whole, Val

LEMMA WritableIsFinite == \A v : Writable(v) # 0 => Finite(Writable(v))
  BY DEF Writable

LEMMA WritableIsWhole == \A v \in Int : Writable(v) \in Int
  BY DEF Writable

\* The stages Derived builds from Input, without the evaluation hints.
AllTranslated(meta, input) == [e \in Entities |-> Translated(meta, e, input[e])]
AllEliminations(meta, tr)  == [e \in Entities |-> Elimination(meta, tr, e)]

LEMMA DerivedStages ==
  ASSUME NEW meta, NEW input, NEW tr, tr = AllTranslated(meta, input),
         NEW el, el = AllEliminations(meta, tr), NEW e \in Entities
  PROVE  LET u == Derived(meta, input)[e]
         IN  /\ DOMAIN u = Stages
             /\ u["Input"] = input[e] /\ u["Translated"] = tr[e] /\ u["Elimination"] = el[e]
             /\ u["Consolidated"] = IF Has(meta.ent, e) THEN Consolidated(meta, tr, el)[e] ELSE Empty
<1> DEFINE tr0 == Strict([x \in Entities |-> Translated(meta, x, input[x])])
           el0 == Strict([x \in Entities |-> Elimination(meta, tr0, x)])
           co0 == Strict(Consolidated(meta, tr0, el0))
<1>1. tr0 = tr
  BY StrictIsIdentity DEF AllTranslated
<1>2. el0 = el
  <2> HIDE DEF tr0
  <2> QED BY <1>1, StrictIsIdentity DEF AllEliminations
<1>3. co0 = Consolidated(meta, tr, el)
  <2> HIDE DEF tr0, el0
  <2> QED BY <1>1, <1>2, StrictIsIdentity
<1>4. Derived(meta, input) =
        [x \in Entities |->
          [s \in Stages |-> CASE s = "Input"        -> input[x]
                              [] s = "Translated"   -> tr0[x]
                              [] s = "Elimination"  -> el0[x]
                              [] s = "Consolidated" -> IF Has(meta.ent, x) THEN co0[x] ELSE Empty]]
  BY DEF Derived
<1> HIDE DEF tr0, el0, co0
<1> QED BY <1>1, <1>2, <1>3, <1>4 DEF Stages

\* What a non-leaf entity sums up, g giving the cells of its children.
Node(meta, tr, el, g, e) ==
  LET parts == Strict([p \in Children(meta.ent, e) |-> g[p]])
      cells == DOMAIN tr[e] \cup DOMAIN el[e] \cup UNION {DOMAIN parts[p] : p \in DOMAIN parts}
  IN  Keep([c \in cells |->
              Writable(Val(tr[e], c) + Val(el[e], c)
                + SumFunction([p \in DOMAIN parts |-> Contribution(p, Val(parts[p], c))]))])

\* Nodes of functions that agree on the children agree.
LEMMA NodeReadsChildren ==
  ASSUME NEW meta, NEW tr, NEW el, NEW e, NEW g, NEW h, \A p \in Children(meta.ent, e) : g[p] = h[p]
  PROVE  Node(meta, tr, el, g, e) = Node(meta, tr, el, h, e)
<1> DEFINE parts(k) == [p \in Children(meta.ent, e) |-> k[p]]
<1>1. parts(g) = parts(h)
  OBVIOUS
<1> HIDE DEF parts
<1>2. Strict(parts(g)) = Strict(parts(h))
  BY <1>1
<1> QED BY <1>2 DEF Node, parts

\* The cells of a node come from its own stages and its children; none is zero
\* or out of range, and all are whole when those are.
LEMMA NodeFacts ==
  ASSUME NEW meta, NEW tr, NEW el, NEW e, NEW g
  PROVE  LET m == Node(meta, tr, el, g, e)
         IN  /\ DOMAIN m \subseteq DOMAIN tr[e] \cup DOMAIN el[e]
                                   \cup UNION {DOMAIN g[p] : p \in Children(meta.ent, e)}
             /\ \A c \in DOMAIN m : m[c] # 0 /\ Finite(m[c])
             /\ /\ IsFiniteSet(DOMAIN meta.ent) /\ DOMAIN meta.ent \subseteq Entities
                /\ Whole(tr[e]) /\ Whole(el[e])
                /\ \A p \in Children(meta.ent, e) : Whole(g[p])
                => Whole(m)
<1> DEFINE plain == [p \in Children(meta.ent, e) |-> g[p]]
           parts == Strict(plain)
           cells == DOMAIN tr[e] \cup DOMAIN el[e] \cup UNION {DOMAIN parts[p] : p \in DOMAIN parts}
           w(c)  == [p \in DOMAIN parts |-> Contribution(p, Val(parts[p], c))]
           v(c)  == Val(tr[e], c) + Val(el[e], c) + SumFunction(w(c))
           all   == [c \in cells |-> Writable(v(c))]
<1>1. Node(meta, tr, el, g, e) = Keep(all)
  BY DEF Node
<1>2. parts = plain
  BY StrictIsIdentity
<1>3. UNION {DOMAIN parts[p] : p \in DOMAIN parts} = UNION {DOMAIN g[p] : p \in Children(meta.ent, e)}
  <2> HIDE DEF parts
  <2> QED BY <1>2
<1>4. ASSUME IsFiniteSet(DOMAIN meta.ent), DOMAIN meta.ent \subseteq Entities,
             Whole(tr[e]), Whole(el[e]),
             \A p \in Children(meta.ent, e) : Whole(g[p]), NEW c
      PROVE  v(c) \in Int
  <2> HIDE DEF parts
  <2>1. DOMAIN w(c) = Children(meta.ent, e) /\ IsFiniteSet(DOMAIN w(c))
    <3>1. DOMAIN w(c) = Children(meta.ent, e)
      BY <1>2
    <3>2. Children(meta.ent, e) \subseteq DOMAIN meta.ent
      BY DEF Children
    <3> QED BY <1>4, <3>1, <3>2, FS_Subset
  <2>2. ASSUME NEW p \in DOMAIN w(c)
        PROVE  w(c)[p] \in Int
    <3>1. p \in Children(meta.ent, e) /\ parts[p] = g[p] /\ p \in Entities
      BY <1>2, <1>4, <2>1 DEF Children
    <3>2. Val(parts[p], c) \in Int
      BY <1>4, <3>1, WholeValues
    <3>3. OwnershipPct(p) \in Int
      BY <3>1, FactorsAssumption
    <3>4. w(c)[p] = Contribution(p, Val(parts[p], c))
      BY <2>2
    <3> DEFINE x == Val(parts[p], c)
    <3> HIDE DEF x, w
    <3>5. (x * OwnershipPct(p)) \div 100 \in Int
      BY <3>2, <3>3 DEF x
    <3> QED BY <3>4, <3>5 DEF x, Contribution
  <2> HIDE DEF w
  <2>3. SumFunction(w(c)) \in Int
    BY <2>1, <2>2, SumIsInteger DEF SumFunction
  <2>4. Val(tr[e], c) \in Int /\ Val(el[e], c) \in Int
    BY <1>4, WholeValues
  <2> QED BY <2>3, <2>4
<1> HIDE DEF parts, v
<1>5. DOMAIN all = cells /\ \A c \in cells : all[c] = Writable(v(c))
  OBVIOUS
<1> HIDE DEF all
<1>6. /\ DOMAIN Keep(all) \subseteq DOMAIN all
      /\ \A c \in DOMAIN Keep(all) : Keep(all)[c] = all[c] /\ Keep(all)[c] # 0
  BY KeepFacts DEF NonZero
<1>7. \A c \in DOMAIN Keep(all) : Finite(Keep(all)[c])
  BY <1>5, <1>6, WritableIsFinite
<1>8. ASSUME IsFiniteSet(DOMAIN meta.ent), DOMAIN meta.ent \subseteq Entities,
             Whole(tr[e]), Whole(el[e]),
             \A p \in Children(meta.ent, e) : Whole(g[p])
      PROVE  Whole(Keep(all))
  BY <1>4, <1>5, <1>6, <1>8, WritableIsWhole DEF Whole
<1> QED BY <1>1, <1>3, <1>5, <1>6, <1>7, <1>8

\* The recursion of Consolidated over the entities of S.
Summed(meta, tr, el, S, g) == g = [e \in S |-> Node(meta, tr, el, g, e)]

\* In a tree the recursion, which has no bound but the leaves, defines a
\* function.
LEMMA SummedExists ==
  ASSUME NEW meta, IsFiniteSet(DOMAIN meta.ent), Acyclic(meta.ent), NEW tr, NEW el
  PROVE  \E g : Summed(meta, tr, el, DOMAIN meta.ent, g)
<1> DEFINE D == DOMAIN meta.ent
           Good(S) == /\ \A e \in S : Children(meta.ent, e) \subseteq S
                      /\ \E g : Summed(meta, tr, el, S, g)
           T == {n \in Nat : \E S \in SUBSET D : Good(S) /\ Cardinality(D \ S) = n}
<1>1. \A S \in SUBSET D : IsFiniteSet(D \ S) /\ Cardinality(D \ S) \in Nat
  BY FS_Difference, FS_CardinalityType
<1>2. Good({})
  <2> DEFINE none == [e \in {} |-> Empty]
  <2>1. Summed(meta, tr, el, {}, none)
    BY DEF Summed
  <2> HIDE DEF none
  <2> QED BY <2>1
<1> HIDE DEF Good
<1>3. T # {}
  <2>1. {} \in SUBSET D /\ Cardinality(D \ {}) \in Nat
    BY <1>1
  <2> QED BY <1>2, <2>1
<1>4. PICK n \in T : \A k \in T : n <= k
  <2> HIDE DEF T
  <2> QED BY <1>3, LeastNatural DEF T
<1>5. PICK S \in SUBSET D : Good(S) /\ Cardinality(D \ S) = n
  BY <1>4
<1>6. CASE D \ S = {}
  <2>1. S = D
    BY <1>6
  <2> QED BY <1>5, <2>1 DEF Good
<1>7. CASE D \ S # {}
  <2>1. PICK x \in D \ S : Children(meta.ent, x) \cap (D \ S) = {}
    <3>1. D \ S \in SUBSET DOMAIN meta.ent
      OBVIOUS
    <3> QED BY <1>7, <3>1 DEF Acyclic
  <2>2. PICK g : Summed(meta, tr, el, S, g)
    BY <1>5 DEF Good
  <2>3. Children(meta.ent, x) \subseteq S /\ \A e \in S : Children(meta.ent, e) \subseteq S
    BY <1>5, <2>1 DEF Good, Children
  <2> DEFINE R == S \cup {x}
             h == [e \in R |-> IF e = x THEN Node(meta, tr, el, g, x) ELSE g[e]]
  <2>4. ASSUME NEW e \in R
        PROVE  h[e] = Node(meta, tr, el, h, e)
    <3>1. Children(meta.ent, e) \subseteq S
      BY <2>3
    <3>2. \A p \in S : p # x /\ h[p] = g[p]
      OBVIOUS
    <3>3. h[e] = Node(meta, tr, el, g, e)
      <4>1. CASE e = x
        BY <4>1
      <4>2. CASE e # x
        <5>1. e \in S /\ h[e] = g[e]
          BY <4>2
        <5> HIDE DEF h
        <5> QED BY <2>2, <5>1 DEF Summed
      <4> QED BY <4>1, <4>2
    <3> HIDE DEF h
    <3> QED BY <3>1, <3>2, <3>3, NodeReadsChildren
  <2>5. h = [e \in R |-> h[e]]
    OBVIOUS
  <2> HIDE DEF h
  <2>6. Summed(meta, tr, el, R, h)
    BY <2>4, <2>5 DEF Summed
  <2>7. Good(R) /\ R \in SUBSET D
    BY <2>3, <2>6 DEF Good
  <2>8. Cardinality(D \ R) = n - 1 /\ Cardinality(D \ R) \in Nat
    <3> DEFINE old == D \ S
               new == D \ R
    <3>1. new = old \ {x} /\ x \in old /\ IsFiniteSet(old) /\ Cardinality(old) = n
      BY <1>1, <1>5
    <3>2. Cardinality(new) \in Nat
      BY <1>1, <2>7
    <3> HIDE DEF old, new
    <3>3. Cardinality(new) = Cardinality(old) - 1
      BY <3>1, FS_RemoveElement
    <3> QED BY <3>1, <3>2, <3>3 DEF new
  <2>9. n - 1 \in T
    BY <2>7, <2>8
  <2> QED BY <1>4, <2>9
<1> QED BY <1>6, <1>7

LEMMA ConsolidatedIsSummed ==
  ASSUME NEW meta, IsFiniteSet(DOMAIN meta.ent), Acyclic(meta.ent), NEW tr, NEW el
  PROVE  \A e \in DOMAIN meta.ent :
           Consolidated(meta, tr, el)[e] = Node(meta, tr, el, Consolidated(meta, tr, el), e)
<1> DEFINE cons == CHOOSE g : Summed(meta, tr, el, DOMAIN meta.ent, g)
<1>1. Summed(meta, tr, el, DOMAIN meta.ent, cons)
  BY SummedExists
<1>2. Consolidated(meta, tr, el) = cons
  BY DEF Consolidated, Summed, Node
<1> HIDE DEF cons
<1> QED BY <1>1, <1>2 DEF Summed

-----------------------------------------------------------------------------
(* Which cells there are, and of what size.                                *)

\* A cell map that a save can write: its cells are among K, all whole, none zero
\* and none out of range.
Fits(m, K) == /\ DOMAIN m \subseteq K /\ Whole(m)
              /\ \A c \in DOMAIN m : m[c] # 0 /\ Finite(m[c])

\* The cells an entity may have, K being those with names of the metadata.
Of(meta, K, e) == IF Has(meta.ent, e) THEN K ELSE {}

\* Metadata that Process computes whole amounts with.
Exact(meta) == /\ IsFiniteSet(DOMAIN meta.acc) /\ Closed(meta.acc) /\ DOMAIN meta.acc \subseteq Accounts
               /\ \A t \in DOMAIN meta.formulas : LinearForm(meta.formulas[t])
               /\ \A r \in DOMAIN meta.rates : meta.rates[r] \in Int

\* Formulas make cells of K only from cells of K ...
Calculable(meta, K) == /\ Exact(meta) /\ IsFiniteSet(K)
                       /\ \A c \in K, t \in DOMAIN meta.formulas : CalcCell(t, c.ic) \in K

\* ... and so does the rest of the engine.
Covers(meta, K) ==
  /\ Calculable(meta, K)
  /\ \A c \in K : c.ic = None \/ Has(meta.ent, c.ic)
  /\ \A c \in K : [c EXCEPT !.origin = "Elim"] \in K

\* Every computed cell goes through Writable, and zeros are dropped.
LEMMA WrittenFits ==
  ASSUME NEW K, NEW f, DOMAIN f \subseteq K,
         \A c \in DOMAIN f : f[c] \in Int /\ (f[c] # 0 => Finite(f[c]))
  PROVE  Fits(Keep(f), K)
  BY KeepFacts DEF Fits, Whole

\* The weights on a path are whole, and so is their product ...
LEMMA PathWeightIsWhole ==
  ASSUME NEW meta, Exact(meta), NEW a, NEW b
  PROVE  PathWeight(meta, a, b) \in Int
<1> DEFINE way == PathToRoot(meta.acc, b) \ PathToRoot(meta.acc, a)
           f   == [x \in way |-> AccountWeight(x)]
<1>1. PathToRoot(meta.acc, b) \subseteq DOMAIN meta.acc
  BY PathStaysInside DEF Exact
<1>2. IsFiniteSet(way) /\ \A x \in way : AccountWeight(x) \in Int
  <2>1. way \subseteq DOMAIN meta.acc
    BY <1>1
  <2> HIDE DEF way
  <2> QED BY <2>1, FS_Subset, FactorsAssumption DEF Exact
<1>3. PathWeight(meta, a, b) = Fold("product", f, DOMAIN f)
  BY ProductIsFold DEF PathWeight
<1> HIDE DEF way
<1>4. DOMAIN f = way /\ \A x \in way : f[x] \in Int
  BY <1>2
<1> HIDE DEF f
<1> QED BY <1>2, <1>3, <1>4, FoldIsInteger

\* ... so that a formula over whole cells comes to a whole amount.
LEMMA FormulaIsWhole ==
  ASSUME NEW meta, Exact(meta), NEW input, IsFiniteSet(DOMAIN input), Whole(input),
         NEW t \in DOMAIN meta.formulas, NEW i
  PROVE  EvalFormula(meta, input, meta.formulas[t], i) \in Int
<1> DEFINE f == meta.formulas[t]
<1>1. ASSUME NEW r
      PROVE  Rollup(meta, input, r, i) \in Int
  <2> DEFINE read == {x \in DOMAIN input : x.ic = i /\ x.acct \in Below(meta, r)}
             s == [c \in read |-> input[c] * PathWeight(meta, r, c.acct)]
  <2>1. IsFiniteSet(read)
    BY FS_Subset
  <2>2. ASSUME NEW c \in read
        PROVE  input[c] * PathWeight(meta, r, c.acct) \in Int
    <3>1. input[c] \in Int
      BY DEF Whole
    <3>2. PathWeight(meta, r, c.acct) \in Int
      BY PathWeightIsWhole
    <3> QED BY <3>1, <3>2
  <2> HIDE DEF read
  <2>3. DOMAIN s = read /\ \A c \in read : s[c] \in Int
    BY <2>2
  <2>4. Rollup(meta, input, r, i) = SumFunction(s)
    BY DEF Rollup, read
  <2> HIDE DEF s
  <2> QED BY <2>1, <2>3, <2>4, SumIsInteger DEF SumFunction
<1>2. IsFiniteSet(Refs(f)) /\ f.const \in Int /\ \A r \in Refs(f) : f.coef[r] \in Int
  BY DEF Exact, LinearForm
<1> HIDE DEF f
<1> DEFINE s == [r \in Refs(f) |-> f.coef[r] * Rollup(meta, input, r, i)]
<1>3. EvalFormula(meta, input, f, i) = f.const + SumFunction(s)
  BY DEF EvalFormula
<1>4. DOMAIN s = Refs(f) /\ \A r \in Refs(f) : s[r] \in Int
  <2>1. ASSUME NEW r \in Refs(f) PROVE f.coef[r] * Rollup(meta, input, r, i) \in Int
    BY <1>1, <1>2
  <2> QED BY <2>1
<1> HIDE DEF s
<1>5. SumFunction(s) \in Int
  BY <1>2, <1>4, SumIsInteger DEF SumFunction
<1> QED BY <1>2, <1>3, <1>5 DEF f

LEMMA FormulaFits ==
  ASSUME NEW meta, NEW K, Calculable(meta, K), NEW input, Fits(input, K), NEW t \in DOMAIN meta.formulas
  PROVE  Fits(ApplyFormula(meta, input, t), K)
<1> DEFINE f   == meta.formulas[t]
           at  == {CalcCell(t, i) : i \in Tuples(meta, input, f)}
           w(c) == Writable(EvalFormula(meta, input, f, c.ic))
           all == [c \in DOMAIN input \cup at |-> IF c \in at THEN w(c) ELSE input[c]]
<1>1. ApplyFormula(meta, input, t) = Keep(all)
  BY DEF ApplyFormula, CalcCell
<1>2. at \subseteq K
  BY DEF Tuples, Fits, Calculable
<1>3. \A c : w(c) \in Int /\ (w(c) # 0 => Finite(w(c)))
  <2>1. IsFiniteSet(DOMAIN input) /\ Whole(input) /\ Exact(meta)
    BY FS_Subset DEF Fits, Calculable
  <2>2. \A i : EvalFormula(meta, input, f, i) \in Int
    BY <2>1, FormulaIsWhole
  <2> QED BY <2>2, WritableIsFinite, WritableIsWhole
<1> HIDE DEF at, w
<1>4. DOMAIN all = DOMAIN input \cup at /\ \A c \in DOMAIN all : all[c] = IF c \in at THEN w(c) ELSE input[c]
  OBVIOUS
<1> HIDE DEF all
<1>5. DOMAIN all \subseteq K /\ \A c \in DOMAIN all : all[c] \in Int /\ (all[c] # 0 => Finite(all[c]))
  BY <1>2, <1>3, <1>4 DEF Fits, Whole
<1> QED BY <1>1, <1>5, WrittenFits

LEMMA StoredCalcsFit ==
  ASSUME NEW meta, NEW K, Calculable(meta, K), NEW order \in Orders(meta), NEW input, Fits(input, K)
  PROVE  Fits(StoredCalcs(meta, order, input), K)
<1> DEFINE N     == Len(order)
           start == ClearOrigin(input, "Calc")
<1>1. /\ N = Len(order) /\ N \in Nat
      /\ \A j \in 1 .. N : order[j] \in DOMAIN meta.formulas
  BY DEF Orders
<1>2. Fits(start, K) /\ NonZero(start)
  BY DEF Fits, ClearOrigin, NonZero, Whole
<1> HIDE DEF N, start
<1>3. PICK up : /\ Applied(meta, order, start) = up[N] /\ up[0] = start
                /\ Steps(meta, order, N, up)
  BY <1>1, <1>2, AppliedIsRun
<1> DEFINE Bad == {n \in 0 .. N : ~Fits(up[n], K)}
<1>4. Bad = {}
  <2> SUFFICES ASSUME Bad # {} PROVE FALSE
    OBVIOUS
  <2>1. PICK m \in Bad : \A n \in Bad : m <= n
    <3>1. Bad \subseteq Nat
      BY <1>1
    <3> HIDE DEF Bad
    <3> QED BY <3>1, LeastNatural
  <2>2. m # 0
    BY <1>2, <1>3, <2>1
  <2>3. m \in 1 .. N /\ m - 1 \in 0 .. N /\ m - 1 \notin Bad
    BY <1>1, <2>1, <2>2
  <2>4. Fits(up[m - 1], K) /\ up[m] = ApplyFormula(meta, up[m - 1], order[m])
    BY <1>3, <2>3 DEF Steps
  <2>5. Fits(up[m], K)
    BY <1>1, <2>3, <2>4, FormulaFits
  <2> QED BY <2>1, <2>5
<1> QED BY <1>1, <1>3, <1>4 DEF StoredCalcs, start

LEMMA TranslatedFits ==
  ASSUME NEW meta, Exact(meta), NEW K, NEW e, NEW input, Fits(input, K)
  PROVE  Fits(Translated(meta, e, input), K)
<1> DEFINE rate(c) == ToGroup(meta, EntityCurrency(meta, e), RateType(TypeOf(meta, c.acct)))
           v(c) == input[c] * rate(c)
           all  == [c \in DOMAIN input |-> Writable(v(c))]
<1>1. Translated(meta, e, input) = Keep(all)
  BY DEF Translated
<1>2. \A c \in DOMAIN input : v(c) \in Int
  <2>1. \A c : rate(c) \in Int
    BY DEF ToGroup, Exact
  <2> HIDE DEF rate
  <2> QED BY <2>1 DEF Fits, Whole
<1> HIDE DEF v
<1>3. DOMAIN all = DOMAIN input /\ \A c \in DOMAIN all : all[c] = Writable(v(c))
  OBVIOUS
<1> HIDE DEF all
<1> QED BY <1>1, <1>2, <1>3, WrittenFits, WritableIsFinite, WritableIsWhole DEF Fits

\* Eliminations are posted at entities that exist: where two partners have no
\* ancestor in common nothing is posted.
LEMMA EliminationFits ==
  ASSUME NEW meta, IsFiniteSet(DOMAIN meta.ent), Closed(meta.ent), Acyclic(meta.ent),
         NoParent \notin Entities, NEW K, Covers(meta, K),
         NEW tr, \A e \in Entities : Fits(tr[e], Of(meta, K, e)), NEW f \in Entities
  PROVE  Fits(Elimination(meta, tr, f), Of(meta, K, f))
<1> DEFINE posted == Eliminated(meta, tr, f)
           elim(c) == [c EXCEPT !.origin = "Elim"]
           sources(c) == {p \in posted : elim(p[2]) = c}
           v(c) == -SumFunction([p \in sources(c) |-> tr[p[1]][p[2]]])
           cells == {elim(p[2]) : p \in posted}
           all == [c \in cells |-> Writable(v(c))]
<1>1. Elimination(meta, tr, f) = Keep(all)
  BY DEF Elimination
<1>2. ASSUME NEW p \in posted
      PROVE  Has(meta.ent, f) /\ elim(p[2]) \in K
  <2>1. PICK e \in Entities : p \in {e} \X DOMAIN tr[e]
    BY DEF Eliminated
  <2>2. p[1] = e /\ p[2] \in DOMAIN tr[e] /\ p[2].ic # None /\ FCA(meta.ent, e, p[2].ic) = f
    BY <2>1 DEF Eliminated
  <2>3. Has(meta.ent, e) /\ p[2] \in K
    BY <2>1, <2>2 DEF Fits, Of
  <2> DEFINE t == meta.ent
             b == p[2].ic
             common == PathToRoot(t, e) \cap PathToRoot(t, b)
  <2>4. e \in DOMAIN t /\ b \in DOMAIN t
    BY <2>2, <2>3 DEF Covers, Has
  <2>5. FCA(t, e, b) = NoParent \/ FCA(t, e, b) \in PathToRoot(t, e)
    <3> HIDE DEF t, b
    <3>1. IF common = {} THEN FCA(t, e, b) = NoParent
          ELSE FCA(t, e, b) \in common /\ common \subseteq PathToRoot(t, FCA(t, e, b))
      BY <2>4, FirstCommonAncestor DEF t
    <3> QED BY <3>1
  <2>6. PathToRoot(t, e) \subseteq DOMAIN t
    BY <2>4, PathIsClosed
  <2>7. f \in DOMAIN t
    BY <2>2, <2>5, <2>6
  <2> QED BY <2>3, <2>7 DEF Has, Covers
<1>3. \A c : v(c) \in Int
  <2> SUFFICES ASSUME NEW c PROVE v(c) \in Int
    OBVIOUS
  <2> DEFINE s == [p \in sources(c) |-> tr[p[1]][p[2]]]
  <2>1. ASSUME NEW p \in posted
        PROVE  p \in (DOMAIN meta.ent) \X K /\ tr[p[1]][p[2]] \in Int
    <3>1. PICK e \in Entities : p \in {e} \X DOMAIN tr[e]
      BY DEF Eliminated
    <3>2. p = <<e, p[2]>> /\ p[1] = e /\ p[2] \in DOMAIN tr[e]
      BY <3>1
    <3>3. Has(meta.ent, e) /\ p[2] \in K /\ tr[e][p[2]] \in Int
      BY <3>2 DEF Fits, Of, Whole
    <3> DEFINE q == p[2]
    <3>4. p = <<e, q>> /\ e \in DOMAIN meta.ent /\ q \in K
      BY <3>2, <3>3 DEF Has
    <3>5. tr[p[1]][p[2]] \in Int
      BY <3>2, <3>3
    <3>6. <<e, q>> \in (DOMAIN meta.ent) \X K
      BY <3>4
    <3> HIDE DEF q
    <3> QED BY <3>4, <3>5, <3>6
  <2>2. IsFiniteSet((DOMAIN meta.ent) \X K)
    <3>1. IsFiniteSet(K)
      BY DEF Covers, Calculable
    <3> QED BY <3>1, FS_Product
  <2> HIDE DEF posted
  <2>3. IsFiniteSet(sources(c))
    <3>1. sources(c) \subseteq (DOMAIN meta.ent) \X K
      BY <2>1
    <3> HIDE DEF sources
    <3> QED BY <2>2, <3>1, FS_Subset
  <2>4. DOMAIN s = sources(c) /\ \A p \in sources(c) : s[p] \in Int
    BY <2>1
  <2> HIDE DEF s, sources
  <2>5. SumFunction(s) \in Int
    BY <2>3, <2>4, SumIsInteger DEF SumFunction
  <2> QED BY <2>5 DEF s
<1> HIDE DEF posted, v
<1>4. cells \subseteq Of(meta, K, f)
  BY <1>2 DEF Of
<1> HIDE DEF cells
<1>5. DOMAIN all = cells /\ \A c \in DOMAIN all : all[c] = Writable(v(c))
  OBVIOUS
<1> HIDE DEF all
<1> QED BY <1>1, <1>3, <1>4, <1>5, WrittenFits, WritableIsFinite, WritableIsWhole

LEMMA ConsolidatedFits ==
  ASSUME NEW meta, IsFiniteSet(DOMAIN meta.ent), Acyclic(meta.ent), DOMAIN meta.ent \subseteq Entities,
         NEW K, NEW tr, \A e \in Entities : Fits(tr[e], Of(meta, K, e)),
         NEW el, \A e \in Entities : Fits(el[e], Of(meta, K, e)),
         NEW e \in DOMAIN meta.ent
  PROVE  Fits(Consolidated(meta, tr, el)[e], K)
<1> DEFINE D    == DOMAIN meta.ent
           cons == Consolidated(meta, tr, el)
<1>1. \A x \in D : cons[x] = Node(meta, tr, el, cons, x)
  BY ConsolidatedIsSummed
<1> HIDE DEF cons
<1>2. ASSUME NEW x \in D
      PROVE  /\ DOMAIN cons[x] \subseteq K \cup UNION {DOMAIN cons[p] : p \in Children(meta.ent, x)}
             /\ \A c \in DOMAIN cons[x] : cons[x][c] # 0 /\ Finite(cons[x][c])
             /\ (\A p \in Children(meta.ent, x) : Whole(cons[p])) => Whole(cons[x])
  <2>1. DOMAIN tr[x] \subseteq K /\ DOMAIN el[x] \subseteq K /\ Whole(tr[x]) /\ Whole(el[x])
    BY DEF Fits, Of
  <2> DEFINE m == Node(meta, tr, el, cons, x)
  <2>2. /\ DOMAIN m \subseteq DOMAIN tr[x] \cup DOMAIN el[x]
                              \cup UNION {DOMAIN cons[p] : p \in Children(meta.ent, x)}
        /\ \A c \in DOMAIN m : m[c] # 0 /\ Finite(m[c])
        /\ (\A p \in Children(meta.ent, x) : Whole(cons[p])) => Whole(m)
    BY <2>1, NodeFacts
  <2> HIDE DEF m
  <2>3. cons[x] = m
    BY <1>1 DEF m
  <2> QED BY <2>1, <2>2, <2>3
<1> DEFINE Bad == {x \in D : ~(DOMAIN cons[x] \subseteq K /\ Whole(cons[x]))}
<1>3. Bad = {}
  <2> SUFFICES ASSUME Bad # {} PROVE FALSE
    OBVIOUS
  <2>1. PICK x \in Bad : Children(meta.ent, x) \cap Bad = {}
    BY DEF Acyclic
  <2>2. \A p \in Children(meta.ent, x) : DOMAIN cons[p] \subseteq K /\ Whole(cons[p])
    BY <2>1 DEF Children
  <2> QED BY <1>2, <2>1, <2>2
<1> QED BY <1>2, <1>3 DEF Fits, cons

(* A run of Process leaves cells under names of the metadata only, at      *)
(* entities that exist, and none that a save could not write: whatever the *)
(* formulas, the rates and the ownership make of what users entered.       *)
THEOREM ProcessFits ==
  ASSUME NEW meta, IsFiniteSet(DOMAIN meta.formulas),
         IsFiniteSet(DOMAIN meta.ent), Closed(meta.ent), Acyclic(meta.ent),
         DOMAIN meta.ent \subseteq Entities, NoParent \notin Entities,
         NEW K, Covers(meta, K),
         NEW us, \A e \in Entities : Fits(us[e]["Input"], Of(meta, K, e)),
         NEW e \in Entities
  PROVE  /\ DOMAIN Process(meta, us)[e] = Stages
         /\ \A s \in Stages : Fits(Process(meta, us)[e][s], Of(meta, K, e))
<1> DEFINE order == TopoSort(meta)
           input == Calculated(meta, us)
           tr    == AllTranslated(meta, input)
           el    == AllEliminations(meta, tr)
           cons  == Consolidated(meta, tr, el)
<1>1. order \in Orders(meta)
  BY OrderIsSorted
<1>2. \A x \in Entities : input[x] = StoredCalcs(meta, order, us[x]["Input"])
  BY StrictIsIdentity DEF Calculated
<1>3. Process(meta, us) = Derived(meta, input)
  BY DEF Process
<1> HIDE DEF order, input
<1>4. ASSUME NEW x \in Entities
      PROVE  Fits(input[x], Of(meta, K, x))
  <2> DEFINE J == Of(meta, K, x)
  <2>1. Calculable(meta, J) /\ Fits(us[x]["Input"], J)
    BY FS_EmptySet DEF Of, Covers, Calculable
  <2> HIDE DEF J
  <2>2. Fits(StoredCalcs(meta, order, us[x]["Input"]), J)
    BY <1>1, <2>1, StoredCalcsFit
  <2> QED BY <1>2, <2>2 DEF J
<1>5. \A x \in Entities : Fits(tr[x], Of(meta, K, x))
  BY <1>4, TranslatedFits DEF AllTranslated, Covers, Calculable
<1> HIDE DEF tr
<1>6. \A x \in Entities : Fits(el[x], Of(meta, K, x))
  BY <1>5, EliminationFits DEF AllEliminations
<1> HIDE DEF el
<1>7. Has(meta.ent, e) => Fits(cons[e], K)
  BY <1>5, <1>6, ConsolidatedFits DEF Has
<1>8. LET u == Derived(meta, input)[e]
      IN  /\ DOMAIN u = Stages
          /\ u["Input"] = input[e] /\ u["Translated"] = tr[e] /\ u["Elimination"] = el[e]
          /\ u["Consolidated"] = IF Has(meta.ent, e) THEN cons[e] ELSE Empty
  BY DerivedStages DEF tr, el
<1> HIDE DEF cons
<1>9. Fits(Empty, {})
  BY DEF Fits, Empty, Whole
<1> QED BY <1>3, <1>4, <1>5, <1>6, <1>7, <1>8, <1>9 DEF Stages, Of

\* Step 1 alone makes cells of those a formula can have.
LEMMA ProcessInputFits ==
  ASSUME NEW meta, IsFiniteSet(DOMAIN meta.formulas), NEW K, Calculable(meta, K),
         NEW us, NEW e \in Entities, Fits(us[e]["Input"], K)
  PROVE  Fits(Process(meta, us)[e]["Input"], K)
<1> DEFINE order == TopoSort(meta)
           input == us[e]["Input"]
<1>1. order \in Orders(meta) /\ Process(meta, us)[e]["Input"] = StoredCalcs(meta, order, input)
  BY OrderIsSorted, ProcessInput
<1> HIDE DEF order, input
<1> QED BY <1>1, StoredCalcsFit DEF input

-----------------------------------------------------------------------------
(* Queries: the weights of accounts.                                       *)

\* The product of the weights of the accounts of S.
WayWeight(S) == FoldFunction(LAMBDA x, y : x * y, 1, [x \in S |-> AccountWeight(x)])

LEMMA WayFacts ==
  ASSUME NEW S, IsFiniteSet(S), S \subseteq Accounts
  PROVE  /\ WayWeight({}) = 1
         /\ WayWeight(S) \in Int
         /\ \A e \in S : WayWeight(S) = AccountWeight(e) * WayWeight(S \ {e})
<1> DEFINE f(s) == [x \in s |-> AccountWeight(x)]
<1>1. \A s : WayWeight(s) = Fold("product", f(s), s)
  <2>1. \A s : DOMAIN f(s) = s
    OBVIOUS
  <2>2. \A s : WayWeight(s) = Fold("product", f(s), DOMAIN f(s))
    BY ProductIsFold DEF WayWeight
  <2> QED BY <2>1, <2>2
<1>2. \A x \in S : f(S)[x] = AccountWeight(x) /\ AccountWeight(x) \in Int
  BY FactorsAssumption
<1>3. \A e : \A x \in S \ {e} : f(S)[x] = f(S \ {e})[x]
  OBVIOUS
<1> HIDE DEF f
<1>4. WayWeight({}) = 1
  <2>1. IsFiniteSet({})
    BY FS_EmptySet
  <2>2. Fold("product", f({}), {}) = Neutral("product")
    BY <2>1, FoldUnfolds
  <2> QED BY <1>1, <2>2 DEF Neutral
<1>5. WayWeight(S) \in Int
  <2>1. \A x \in S : f(S)[x] \in Int
    BY <1>2
  <2>2. Fold("product", f(S), S) \in Int
    BY <2>1, FoldIsInteger
  <2> QED BY <1>1, <2>2
<1>6. ASSUME NEW e \in S
      PROVE  WayWeight(S) = AccountWeight(e) * WayWeight(S \ {e})
  <2>1. \A x \in S : f(S)[x] \in Int
    BY <1>2
  <2>2. Fold("product", f(S), S) = Combine("product", f(S)[e], Fold("product", f(S), S \ {e}))
    BY <2>1, FoldTakesAny
  <2>3. IsFiniteSet(S \ {e})
    BY FS_Subset
  <2>4. Fold("product", f(S), S \ {e}) = Fold("product", f(S \ {e}), S \ {e})
    BY <1>3, <2>3, FoldOfEqual
  <2>5. \A x, y : Combine("product", x, y) = x * y
    BY DEF Combine
  <2> QED BY <1>1, <1>2, <2>2, <2>4, <2>5
<1> QED BY <1>4, <1>5, <1>6

\* An account tree, and the way from an account up to, but without, another.
AccountTree(t) == /\ IsFiniteSet(DOMAIN t) /\ Closed(t) /\ Acyclic(t)
                  /\ DOMAIN t \subseteq Accounts /\ NoParent \notin Accounts

Way(t, x, a) == PathToRoot(t, x) \ PathToRoot(t, a)

\* The way from a member of a subtree starts with the member and goes on as
\* the way of its parent; it ends with a child of the subtree's top.
LEMMA WayUnfolds ==
  ASSUME NEW t, AccountTree(t), NEW a \in DOMAIN t, NEW x \in Subtree(t, a) \ {a}
  PROVE  /\ x \in DOMAIN t /\ t[x] \in Subtree(t, a)
         /\ x \in Way(t, x, a) /\ Way(t, t[x], a) = Way(t, x, a) \ {x}
<1>1. x \in DOMAIN t /\ a \in PathToRoot(t, x) /\ x # a
  BY DEF Subtree
<1>2. t[x] \in DOMAIN t /\ a \in PathToRoot(t, t[x])
  BY <1>1, PathOfParent DEF AccountTree
<1>3. t[x] # NoParent
  BY <1>2 DEF AccountTree
<1>4. PathToRoot(t, x) = {x} \cup PathToRoot(t, t[x]) /\ x \notin PathToRoot(t, t[x])
  BY <1>1, <1>3, PathUnfolds DEF AccountTree
<1>5. x \notin PathToRoot(t, a)
  BY <1>1, AboveOneWay DEF AccountTree
<1> QED BY <1>1, <1>2, <1>4, <1>5 DEF Way, Subtree

LEMMA WayStays ==
  ASSUME NEW t, AccountTree(t), NEW x, NEW a
  PROVE  IsFiniteSet(Way(t, x, a)) /\ Way(t, x, a) \subseteq Accounts
<1>1. PathToRoot(t, x) \subseteq DOMAIN t
  BY PathStaysInside DEF AccountTree
<1>2. Way(t, x, a) \subseteq DOMAIN t
  BY <1>1 DEF Way
<1> QED BY <1>2, FS_Subset DEF AccountTree

LEMMA WayThroughChild ==
  ASSUME NEW t, AccountTree(t), NEW a \in DOMAIN t, NEW k \in Children(t, a), NEW x \in Subtree(t, k)
  PROVE  k \in Way(t, x, a) /\ Way(t, x, k) = Way(t, x, a) \ {k}
<1>1. k \in DOMAIN t /\ t[k] = a /\ a # NoParent
  BY DEF Children, AccountTree
<1>2. PathToRoot(t, k) = {k} \cup PathToRoot(t, a) /\ k \notin PathToRoot(t, a)
  BY <1>1, PathUnfolds DEF AccountTree
<1>3. k \in PathToRoot(t, x)
  BY DEF Subtree
<1> QED BY <1>2, <1>3 DEF Way

\* What MemberWeights is defined as.
WeightsOf(w, t, a) == w = [x \in {a} \cup Subtree(t, a) |->
                             IF x = a THEN 1 ELSE w[t[x]] * AccountWeight(x)]

\* The weight of an account in a subtree is the product along the way.
LEMMA WeightsAreWays ==
  ASSUME NEW t, AccountTree(t), NEW a
  PROVE  /\ DOMAIN MemberWeights(t, a) = {a} \cup Subtree(t, a)
         /\ \A x \in {a} \cup Subtree(t, a) : MemberWeights(t, a)[x] = WayWeight(Way(t, x, a))
<1> DEFINE D == {a} \cup Subtree(t, a)
           g == [x \in D |-> WayWeight(Way(t, x, a))]
<1>1. Way(t, a, a) = {} /\ WayWeight({}) = 1
  <2>1. IsFiniteSet({}) /\ {} \subseteq Accounts
    BY FS_EmptySet
  <2> QED BY <2>1, WayFacts DEF Way
<1>2. ASSUME NEW x \in D, x # a
      PROVE  /\ x \in DOMAIN t /\ a \in DOMAIN t /\ t[x] \in D
             /\ WayWeight(Way(t, x, a)) = WayWeight(Way(t, t[x], a)) * AccountWeight(x)
             /\ PathToRoot(t, t[x]) = PathToRoot(t, x) \ {x} /\ x \in PathToRoot(t, x)
  <2>1. x \in Subtree(t, a) \ {a} /\ x \in DOMAIN t
    BY <1>2 DEF Subtree
  <2>2. a \in DOMAIN t
    BY <2>1, StrangerAlone DEF AccountTree
  <2>3. t[x] \in Subtree(t, a) /\ x \in Way(t, x, a) /\ Way(t, t[x], a) = Way(t, x, a) \ {x}
    BY <2>1, <2>2, WayUnfolds
  <2>4. IsFiniteSet(Way(t, x, a)) /\ Way(t, x, a) \subseteq Accounts
    BY WayStays
  <2>5. WayWeight(Way(t, x, a)) = AccountWeight(x) * WayWeight(Way(t, x, a) \ {x})
    BY <2>3, <2>4, WayFacts
  <2>6. WayWeight(Way(t, x, a) \ {x}) \in Int /\ AccountWeight(x) \in Int
    <3>1. IsFiniteSet(Way(t, x, a) \ {x}) /\ Way(t, x, a) \ {x} \subseteq Accounts
      BY <2>4, FS_Subset
    <3>2. WayWeight(Way(t, x, a) \ {x}) \in Int
      BY <3>1, WayFacts
    <3> QED BY <2>3, <2>4, <3>2, FactorsAssumption
  <2>7. \A p, q \in Int : p * q = q * p
    OBVIOUS
  <2>8. t[x] # NoParent
    <3>1. t[x] \in DOMAIN t
      BY <2>3 DEF Subtree
    <3> QED BY <3>1 DEF AccountTree
  <2>9. PathToRoot(t, t[x]) = PathToRoot(t, x) \ {x} /\ x \in PathToRoot(t, x)
    BY <2>1, <2>8, PathUnfolds DEF AccountTree
  <2> QED BY <2>1, <2>2, <2>3, <2>5, <2>6, <2>7, <2>9
<1> HIDE DEF D
<1>3. WeightsOf(g, t, a)
  <2>1. ASSUME NEW x \in D
        PROVE  g[x] = IF x = a THEN 1 ELSE g[t[x]] * AccountWeight(x)
    BY <1>1, <1>2
  <2> HIDE DEF g
  <2>2. g = [x \in D |-> g[x]]
    BY DEF g
  <2>3. g = [x \in D |-> IF x = a THEN 1 ELSE g[t[x]] * AccountWeight(x)]
    BY <2>1, <2>2
  <2> QED BY <2>3 DEF WeightsOf, D
<1> DEFINE w == MemberWeights(t, a)
<1>4. WeightsOf(w, t, a)
  <2>1. w = CHOOSE v : WeightsOf(v, t, a)
    BY DEF MemberWeights, WeightsOf
  <2> HIDE DEF w, g
  <2> QED BY <1>3, <2>1
<1>5. ASSUME NEW x \in D
      PROVE  w[x] = g[x]
  <2> DEFINE Bad == {y \in D : w[y] # g[y]}
             Size(y) == Cardinality(PathToRoot(t, y))
  <2> SUFFICES ASSUME Bad # {} PROVE FALSE
    OBVIOUS
  <2>1. \A y : Size(y) \in Nat
    <3>1. ASSUME NEW y PROVE IsFiniteSet(PathToRoot(t, y))
      BY PathStaysInside, FS_Subset DEF AccountTree
    <3> QED BY <3>1, FS_CardinalityType
  <2> DEFINE Sizes == {Size(y) : y \in Bad}
  <2>2. Sizes \subseteq Nat /\ Sizes # {}
    BY <2>1
  <2>3. PICK m \in Sizes : \A n \in Sizes : m <= n
    <3> HIDE DEF Sizes
    <3> QED BY <2>2, LeastNatural
  <2>4. PICK y \in Bad : m = Size(y)
    OBVIOUS
  <2>5. y \in D /\ w[y] # g[y]
    OBVIOUS
  <2>6. \A v, z : WeightsOf(v, t, a) /\ z \in D =>
          v[z] = IF z = a THEN 1 ELSE v[t[z]] * AccountWeight(z)
    BY DEF WeightsOf, D
  <2>7. y # a
    <3> HIDE DEF w, g
    <3> QED BY <1>3, <1>4, <2>5, <2>6
  <2>8. t[y] \in D /\ w[t[y]] # g[t[y]]
    <3> HIDE DEF w, g
    <3> QED BY <1>2, <1>3, <1>4, <2>5, <2>6, <2>7
  <2>9. Size(t[y]) \in Sizes
    BY <2>8
  <2>10. Size(t[y]) = Size(y) - 1
    <3>1. PathToRoot(t, t[y]) = PathToRoot(t, y) \ {y} /\ y \in PathToRoot(t, y)
      BY <1>2, <2>5, <2>7
    <3>2. IsFiniteSet(PathToRoot(t, y))
      BY PathStaysInside, FS_Subset DEF AccountTree
    <3> QED BY <3>1, <3>2, FS_RemoveElement
  <2> HIDE DEF Size, Sizes
  <2> QED BY <2>1, <2>3, <2>4, <2>9, <2>10
<1>6. DOMAIN w = D
  <2> HIDE DEF w
  <2> QED BY <1>4 DEF WeightsOf, D
<1>7. \A x \in D : w[x] = WayWeight(Way(t, x, a))
  <2> HIDE DEF w
  <2> QED BY <1>5
<1> QED BY <1>6, <1>7 DEF D

-----------------------------------------------------------------------------
(* Queries: what is read and summed.                                       *)

\* Units that can be summed: finitely many whole cells in every stage.
Readable == \A s \in Slices, e \in Entities, st \in Stages :
              IsFiniteSet(DOMAIN units[s][e][st]) /\ Whole(units[s][e][st])

Weighs(w) == \A x \in DOMAIN w : w[x] \in Int

\* The weight of an account, 0 where it is not part of what is queried.
Factor(w, a) == IF a \in DOMAIN w THEN w[a] ELSE 0

\* The cells read for one month, those of them that match, and their sum.
CellsAt(pov, m) == StageCells(UnitAt(pov.entity, pov.scenario, m), pov.stage,
                              EntityCurrency(Meta, pov.entity) = GroupCurrency)

Matching(pov, cells) == {c \in DOMAIN cells : Matches(pov, c)}

MonthSum(pov, w, m) == SumCells(pov, w, CellsAt(pov, m))

LEMMA CellsAreReadable ==
  ASSUME Readable, NEW pov, NEW m
  PROVE  IsFiniteSet(DOMAIN CellsAt(pov, m)) /\ Whole(CellsAt(pov, m))
<1> DEFINE u == UnitAt(pov.entity, pov.scenario, m)
<1>1. DOMAIN Empty = {} /\ IsFiniteSet(DOMAIN Empty) /\ Whole(Empty)
  BY FS_EmptySet DEF Empty, Whole
<1>2. ASSUME NEW st \in Stages
      PROVE  IsFiniteSet(DOMAIN u[st]) /\ Whole(u[st])
  <2>1. u = NoUnit \/ \E s \in Slices, e \in Entities : u = units[s][e]
    BY DEF UnitAt
  <2>2. NoUnit[st] = Empty
    BY DEF NoUnit
  <2> HIDE DEF u
  <2> QED BY <1>1, <2>1, <2>2 DEF Readable
<1>3. \/ CellsAt(pov, m) = Empty
      \/ \E st \in Stages : CellsAt(pov, m) = u[st]
  BY DEF CellsAt, StageCells, Stages
<1> HIDE DEF u
<1> QED BY <1>1, <1>2, <1>3

\* A sum of cells is one over all matching cells.
LEMMA CellSum ==
  ASSUME NEW cells, IsFiniteSet(DOMAIN cells), Whole(cells), NEW w, Weighs(w), NEW pov,
         NEW f, \A c \in Matching(pov, cells) : f[c] = cells[c] * Factor(w, c.acct)
  PROVE  /\ IsFiniteSet(Matching(pov, cells))
         /\ \A c \in Matching(pov, cells) : f[c] \in Int
         /\ SumCells(pov, w, cells) = SumFunctionOnSet(f, Matching(pov, cells))
         /\ SumCells(pov, w, cells) \in Int
<1> DEFINE M == Matching(pov, cells)
           R == {x \in DOMAIN cells : Matches(pov, x) /\ x.acct \in DOMAIN w}
           g == [c \in R |-> cells[c] * w[c.acct]]
<1>1. IsFiniteSet(M) /\ R \in SUBSET M /\ IsFiniteSet(R)
  <2>1. M \subseteq DOMAIN cells /\ R \subseteq M
    BY DEF Matching
  <2> HIDE DEF M, R
  <2> QED BY <2>1, FS_Subset
<1>2. \A c \in M : f[c] \in Int
  <2>1. ASSUME NEW c \in M PROVE cells[c] * Factor(w, c.acct) \in Int
    <3>1. cells[c] \in Int
      BY DEF Matching, Whole
    <3>2. Factor(w, c.acct) \in Int
      BY DEF Factor, Weighs
    <3> QED BY <3>1, <3>2
  <2> QED BY <2>1
<1>3. \A c \in M \ R : f[c] = 0
  <2>1. ASSUME NEW c \in M \ R PROVE cells[c] * Factor(w, c.acct) = 0
    <3>1. cells[c] \in Int
      BY DEF Matching, Whole
    <3>2. Factor(w, c.acct) = 0
      BY DEF Factor, Matching
    <3> QED BY <3>1, <3>2
  <2> QED BY <2>1
<1>4. \A c \in R : g[c] = f[c]
  BY <1>1 DEF Factor
<1>5. SumCells(pov, w, cells) = SumFunctionOnSet(g, R)
  <2>1. SumCells(pov, w, cells) = SumFunction(g)
    BY DEF SumCells
  <2>2. DOMAIN g = R
    OBVIOUS
  <2> HIDE DEF g, R
  <2> QED BY <2>1, <2>2 DEF SumFunction
<1> HIDE DEF M, R, g
<1>6. SumFunctionOnSet(g, R) = SumFunctionOnSet(f, R)
  BY <1>1, <1>4, SumOfEqual
<1>7. SumFunctionOnSet(f, M) = SumFunctionOnSet(f, R)
  BY <1>1, <1>2, <1>3, SumOfNonzero
<1>8. SumFunctionOnSet(f, M) \in Int
  BY <1>1, <1>2, SumIsInteger
<1> QED BY <1>1, <1>2, <1>5, <1>6, <1>7, <1>8 DEF M

LEMMA MonthIsWhole ==
  ASSUME Readable, NEW w, Weighs(w)
  PROVE  \A pov, m : MonthSum(pov, w, m) \in Int
<1> TAKE pov, m
<1> DEFINE cells == CellsAt(pov, m)
           f == [c \in Matching(pov, cells) |-> cells[c] * Factor(w, c.acct)]
<1>1. IsFiniteSet(DOMAIN cells) /\ Whole(cells)
  BY CellsAreReadable
<1> HIDE DEF cells
<1>2. \A c \in Matching(pov, cells) : f[c] = cells[c] * Factor(w, c.acct)
  OBVIOUS
<1> HIDE DEF f
<1>3. SumCells(pov, w, cells) \in Int
  BY <1>1, <1>2, CellSum
<1> QED BY <1>3 DEF MonthSum, cells

\* A query reads its months one by one.
LEMMA ReadIsSum ==
  ASSUME NEW pov, NEW w, NEW n \in Nat, DOMAIN MonthsRead(pov) = 1 .. n,
         NEW f, \A i \in 1 .. n : f[i] = MonthSum(pov, w, MonthsRead(pov)[i])
  PROVE  Read(pov, w) = SumFunctionOnSet(f, 1 .. n)
<1> DEFINE months == MonthsRead(pov)
           g == [i \in DOMAIN months |-> MonthSum(pov, w, months[i])]
<1>1. Read(pov, w) = SumFunction(g)
  BY DEF Read, MonthSum, CellsAt
<1>2. DOMAIN g = 1 .. n /\ \A i \in 1 .. n : g[i] = f[i]
  OBVIOUS
<1> HIDE DEF g
<1>3. Read(pov, w) = SumFunctionOnSet(g, 1 .. n)
  BY <1>1, <1>2 DEF SumFunction
<1>4. IsFiniteSet(1 .. n)
  BY FS_Interval
<1> QED BY <1>2, <1>3, <1>4, SumOfEqual

\* The first and the last month of a time member.
FirstMonth(x) == IF x.part = "M" THEN x.n ELSE IF x.part = "Q" THEN (x.n - 1) * 3 + 1 ELSE 1
LastMonth(x)  == IF x.part = "M" THEN x.n ELSE IF x.part = "Q" THEN x.n * 3 ELSE 12

LEMMA TimeMemberShape ==
  ASSUME NEW x \in TimeMembers(Years)
  PROVE  /\ x.year \in Years
         /\ \/ x = Year(x.year) /\ x.part = "Y"
            \/ x = Quarter(x.year, x.n) /\ x.part = "Q" /\ x.n \in 1 .. 4
            \/ x = Month(x.year, x.n) /\ x.part = "M" /\ x.n \in 1 .. 12
<1>1. PICK y \in Years : \/ x = Year(y)
                         \/ \E q \in 1 .. 4 : x = Quarter(y, q)
                         \/ \E m \in 1 .. 12 : x = Month(y, m)
  BY DEF TimeMembers
<1> QED BY <1>1 DEF Year, Quarter, Month

LEMMA MonthsUnderFacts ==
  ASSUME NEW x \in TimeMembers(Years)
  PROVE  /\ FirstMonth(x) \in 1 .. 12 /\ LastMonth(x) \in FirstMonth(x) .. 12
         /\ MonthsUnder(Years, x)
              = [i \in 1 .. LastMonth(x) - FirstMonth(x) + 1 |-> Month(x.year, FirstMonth(x) - 1 + i)]
<1>1. CASE x = Year(x.year) /\ x.part = "Y"
  BY <1>1 DEF FirstMonth, LastMonth, MonthsUnder
<1>2. CASE x = Quarter(x.year, x.n) /\ x.part = "Q" /\ x.n \in 1 .. 4
  BY <1>2 DEF FirstMonth, LastMonth, MonthsUnder
<1>3. CASE x = Month(x.year, x.n) /\ x.part = "M" /\ x.n \in 1 .. 12
  BY <1>3 DEF FirstMonth, LastMonth, MonthsUnder
<1> QED BY <1>1, <1>2, <1>3, TimeMemberShape

\* The first month that is read for a time member.
FromMonth(x, balance, view) ==
  IF balance THEN LastMonth(x) ELSE IF view = "YTD" THEN 1 ELSE FirstMonth(x)

LEMMA MonthsReadFacts ==
  ASSUME NEW pov, pov.time \in TimeMembers(Years),
         NEW x, x = pov.time, NEW lo, lo = FromMonth(x, Balance(pov.account), pov.view)
  PROVE  /\ lo \in 1 .. 12 /\ LastMonth(x) \in lo .. 12
         /\ DOMAIN MonthsRead(pov) = 1 .. LastMonth(x) - lo + 1
         /\ \A i \in 1 .. LastMonth(x) - lo + 1 : MonthsRead(pov)[i] = Month(x.year, lo - 1 + i)
<1> DEFINE months == MonthsUnder(Years, x)
           a == FirstMonth(x)
           b == LastMonth(x)
<1>1. a \in 1 .. 12 /\ b \in a .. 12
      /\ months = [i \in 1 .. b - a + 1 |-> Month(x.year, a - 1 + i)]
  BY MonthsUnderFacts
<1> HIDE DEF months, a, b
<1>2. /\ Len(months) = b - a + 1 /\ months # <<>>
      /\ \A i \in 1 .. b - a + 1 : months[i] = Month(x.year, a - 1 + i)
  <2>1. b - a + 1 \in Nat /\ b - a + 1 # 0 /\ DOMAIN months = 1 .. b - a + 1
    BY <1>1
  <2>2. months \in Seq({months[i] : i \in DOMAIN months})
    BY <1>1, <2>1
  <2> QED BY <1>1, <2>1, <2>2
<1>3. Last(months) = Month(x.year, b)
  <2>1. b - a + 1 \in 1 .. b - a + 1 /\ a - 1 + (b - a + 1) = b
    BY <1>1
  <2> QED BY <1>2, <2>1 DEF Last
<1>4. YTDMonths(Month(x.year, b)) = [i \in 1 .. b |-> Month(x.year, i)]
  BY DEF YTDMonths, Month
<1>5. MonthsRead(pov) = IF Balance(pov.account) THEN <<Month(x.year, b)>>
                        ELSE IF pov.view = "YTD" THEN [i \in 1 .. b |-> Month(x.year, i)]
                        ELSE months
  BY <1>2, <1>3, <1>4 DEF MonthsRead, months, Balance
<1>6. lo = IF Balance(pov.account) THEN b ELSE IF pov.view = "YTD" THEN 1 ELSE a
  BY DEF FromMonth, a, b
<1>7. lo \in 1 .. 12 /\ b \in lo .. 12
  BY <1>1, <1>6
<1>8. /\ DOMAIN MonthsRead(pov) = 1 .. b - lo + 1
      /\ \A i \in 1 .. b - lo + 1 : MonthsRead(pov)[i] = Month(x.year, lo - 1 + i)
  <2>1. CASE Balance(pov.account)
    <3>1. lo = b /\ MonthsRead(pov) = <<Month(x.year, b)>> /\ b - lo + 1 = 1 /\ b \in Int
      BY <1>1, <1>5, <1>6, <2>1
    <3>2. \A i \in 1 .. 1 : i = 1 /\ lo - 1 + i = b
      BY <3>1
    <3> QED BY <3>1, <3>2
  <2>2. CASE ~Balance(pov.account) /\ pov.view = "YTD"
    <3>1. lo = 1 /\ MonthsRead(pov) = [i \in 1 .. b |-> Month(x.year, i)] /\ b - lo + 1 = b /\ b \in Int
      BY <1>1, <1>5, <1>6, <2>2
    <3>2. \A i \in 1 .. b : lo - 1 + i = i
      BY <3>1
    <3> QED BY <3>1, <3>2
  <2>3. CASE ~Balance(pov.account) /\ pov.view # "YTD"
    BY <1>1, <1>5, <1>6, <2>3
  <2> QED BY <2>1, <2>2, <2>3
<1> QED BY <1>7, <1>8 DEF b

\* A query sums an interval of the months of a year.
LEMMA ReadIsInterval ==
  ASSUME Readable, NEW pov, pov.time \in TimeMembers(Years), NEW w, Weighs(w),
         NEW F, \A k \in 1 .. 12 : F[k] = MonthSum(pov, w, Month(pov.time.year, k))
  PROVE  LET lo == FromMonth(pov.time, Balance(pov.account), pov.view)
             hi == LastMonth(pov.time)
         IN  /\ lo \in 1 .. 12 /\ hi \in lo .. 12
             /\ Read(pov, w) = SumFunctionOnSet(F, lo .. hi)
<1> DEFINE lo == FromMonth(pov.time, Balance(pov.account), pov.view)
           hi == LastMonth(pov.time)
           n == hi - lo + 1
           months == MonthsRead(pov)
           h == [i \in 1 .. n |-> lo - 1 + i]
           f == [i \in 1 .. n |-> MonthSum(pov, w, months[i])]
<1>1. /\ lo \in 1 .. 12 /\ hi \in lo .. 12 /\ DOMAIN months = 1 .. n
      /\ \A i \in 1 .. n : months[i] = Month(pov.time.year, lo - 1 + i)
  BY MonthsReadFacts
<1> HIDE DEF lo, hi, months
<1>2. n \in Nat /\ \A i \in 1 .. n : lo - 1 + i \in 1 .. 12
  BY <1>1
<1>3. {h[i] : i \in 1 .. n} = lo .. hi
  <2>1. ASSUME NEW k \in lo .. hi
        PROVE  \E i \in 1 .. n : h[i] = k
    <3>1. k - lo + 1 \in 1 .. n /\ lo - 1 + (k - lo + 1) = k
      BY <1>1
    <3> QED BY <3>1
  <2>2. \A i \in 1 .. n : h[i] \in lo .. hi
    BY <1>1
  <2> QED BY <2>1, <2>2
<1>4. \A i, j \in 1 .. n : h[i] = h[j] => i = j
  BY <1>1
<1>5. \A i \in 1 .. n : f[i] \in Int /\ F[h[i]] = f[i]
  <2>1. ASSUME NEW i \in 1 .. n
        PROVE  MonthSum(pov, w, months[i]) \in Int /\ F[lo - 1 + i] = MonthSum(pov, w, months[i])
    BY <1>1, <1>2, MonthIsWhole
  <2> QED BY <2>1
<1>6. Read(pov, w) = SumFunctionOnSet(f, 1 .. n)
  <2>1. \A i \in 1 .. n : f[i] = MonthSum(pov, w, months[i])
    OBVIOUS
  <2> HIDE DEF f, n
  <2>2. DOMAIN MonthsRead(pov) = 1 .. n /\ \A i \in 1 .. n : f[i] = MonthSum(pov, w, MonthsRead(pov)[i])
    BY <1>1, <2>1 DEF months
  <2>3. n \in Nat
    BY <1>2
  <2> QED BY <2>2, <2>3, ReadIsSum
<1> HIDE DEF f, h
<1>7. IsFiniteSet(1 .. n)
  BY <1>2, FS_Interval
<1> HIDE DEF n
<1>8. Renames(h, 1 .. n, lo .. hi)
  BY <1>3, <1>4 DEF Renames
<1>9. SumFunctionOnSet(F, lo .. hi) = SumFunctionOnSet(f, 1 .. n)
  <2> DEFINE S == 1 .. n
             R == lo .. hi
  <2>1. IsFiniteSet(S) /\ Renames(h, S, R) /\ \A i \in S : f[i] \in Int /\ F[h[i]] = f[i]
    BY <1>5, <1>7, <1>8
  <2> HIDE DEF S, R
  <2>2. SumFunctionOnSet(F, R) = SumFunctionOnSet(f, S)
    BY <2>1, SumReindexed
  <2> QED BY <2>2 DEF S, R
<1> QED BY <1>1, <1>6, <1>9 DEF lo, hi

-----------------------------------------------------------------------------
(* Queries: periods.                                                       *)

LEMMA WeightsWeigh ==
  ASSUME NEW t, AccountTree(t), NEW a
  PROVE  Weighs(MemberWeights(t, a))
<1>1. ASSUME NEW x \in {a} \cup Subtree(t, a)
      PROVE  MemberWeights(t, a)[x] \in Int
  <2>1. MemberWeights(t, a)[x] = WayWeight(Way(t, x, a))
    BY WeightsAreWays
  <2> QED BY <2>1, WayStays, WayFacts
<1>2. DOMAIN MemberWeights(t, a) = {a} \cup Subtree(t, a)
  BY WeightsAreWays
<1> QED BY <1>1, <1>2 DEF Weighs

\* What is read for a month does not depend on time, view or account.
SameCells(p, q) == /\ p.entity = q.entity /\ p.scenario = q.scenario /\ p.stage = q.stage
                   /\ p.origin = q.origin /\ p.ic = q.ic

LEMMA MonthSumReads ==
  ASSUME NEW p, NEW q, SameCells(p, q)
  PROVE  \A w, m : MonthSum(p, w, m) = MonthSum(q, w, m)
<1>1. \A m : CellsAt(p, m) = CellsAt(q, m)
  BY DEF CellsAt, SameCells
<1>2. \A c : Matches(p, c) <=> Matches(q, c)
  BY DEF Matches, SameCells
<1>3. \A w, cells : SumCells(p, w, cells) = SumCells(q, w, cells)
  BY <1>2 DEF SumCells
<1> QED BY <1>1, <1>3 DEF MonthSum

LEMMA AtTimeAndView ==
  ASSUME NEW pov \in Points, NEW x, NEW v
  PROVE  LET p == At(At(pov, "time", x), "view", v)
         IN  p.time = x /\ p.view = v /\ p.account = pov.account /\ SameCells(p, pov)
<1>1. DOMAIN pov = {"entity", "account", "scenario", "time", "view", "stage", "origin", "ic"}
  BY PointsAssumption DEF AxisDims
<1> QED BY <1>1 DEF At, SameCells

LEMMA AtAccountToo ==
  ASSUME NEW pov \in Points, NEW x, NEW v, NEW r
  PROVE  LET p == At(At(pov, "time", x), "view", v)
             q == At(p, "account", r)
         IN  q.time = x /\ q.view = v /\ q.account = r /\ SameCells(q, pov) /\ SameCells(q, p)
<1>1. DOMAIN pov = {"entity", "account", "scenario", "time", "view", "stage", "origin", "ic"}
  BY PointsAssumption DEF AxisDims
<1> QED BY <1>1 DEF At, SameCells

LEMMA StoredIsInterval ==
  ASSUME Readable, AccountTree(acc), NEW pov, NEW p, SameCells(p, pov), p.time \in TimeMembers(Years),
         NEW F, \A k \in 1 .. 12 :
                  F[k] = MonthSum(pov, MemberWeights(acc, p.account), Month(p.time.year, k))
  PROVE  LET lo == FromMonth(p.time, Balance(p.account), p.view)
             hi == LastMonth(p.time)
         IN  /\ lo \in 1 .. 12 /\ hi \in lo .. 12
             /\ StoredCell(p) = SumFunctionOnSet(F, lo .. hi)
<1> DEFINE w == MemberWeights(acc, p.account)
<1>1. Weighs(w)
  BY WeightsWeigh
<1>2. StoredCell(p) = Read(p, w)
  BY DEF StoredCell
<1>3. \A k \in 1 .. 12 : F[k] = MonthSum(p, w, Month(p.time.year, k))
  BY MonthSumReads
<1> HIDE DEF w
<1> QED BY <1>1, <1>2, <1>3, ReadIsInterval

\* The values of the dynamic accounts, depth by depth.
Evaluation(pov, N, f) ==
  f = [n \in 0 .. N |-> [a \in DynamicAccounts |->
                          IF n = 0 \/ OnCycle(a) THEN 0 ELSE Evaluated(pov, a, f[n - 1])]]

LEMMA EvaluationExists ==
  ASSUME NEW pov, NEW N \in Nat
  PROVE  \E f : Evaluation(pov, N, f)
<1> DEFINE T == {n \in Nat : ~ \E f : Evaluation(pov, n, f)}
           Row(n, g) == [a \in DynamicAccounts |->
                          IF n = 0 \/ OnCycle(a) THEN 0 ELSE Evaluated(pov, a, g)]
<1> SUFFICES ASSUME T # {} PROVE FALSE
  OBVIOUS
<1>1. PICK m \in T : \A n \in T : m <= n
  <2> HIDE DEF T
  <2> QED BY LeastNatural DEF T
<1>2. CASE m = 0
  <2> DEFINE f == [n \in 0 .. 0 |-> Row(0, 0)]
  <2>1. \A n \in 0 .. 0 : n = 0 /\ Row(n, f[n - 1]) = Row(0, 0)
    OBVIOUS
  <2>2. f = [n \in 0 .. 0 |-> Row(n, f[n - 1])]
    BY <2>1
  <2> HIDE DEF f
  <2>3. Evaluation(pov, 0, f)
    BY <2>2 DEF Evaluation
  <2> QED BY <1>1, <1>2, <2>3
<1>3. CASE m # 0
  <2>1. m \in Nat /\ m - 1 \in Nat /\ m - 1 \notin T
    BY <1>1, <1>3
  <2>2. PICK g : Evaluation(pov, m - 1, g)
    BY <2>1
  <2> DEFINE f == [n \in 0 .. m |-> IF n = m THEN Row(m, g[m - 1]) ELSE g[n]]
  <2>3. \A n \in 0 .. m - 1 : g[n] = Row(n, g[n - 1])
    BY <2>2 DEF Evaluation
  <2> HIDE DEF Row
  <2>4. ASSUME NEW n \in 0 .. m
        PROVE  f[n] = Row(n, f[n - 1])
    <3>1. CASE n = m
      <4>1. f[n - 1] = g[m - 1] /\ f[n] = Row(m, g[m - 1])
        BY <2>1, <3>1
      <4> QED BY <4>1, <3>1
    <3>2. CASE n # m /\ n # 0
      <4>1. n \in 0 .. m - 1 /\ n - 1 \in 0 .. m /\ n - 1 # m /\ f[n] = g[n] /\ f[n - 1] = g[n - 1]
        BY <2>1, <3>2
      <4> QED BY <2>3, <4>1
    <3>3. CASE n # m /\ n = 0
      <4>1. n \in 0 .. m - 1 /\ f[n] = g[n]
        BY <2>1, <3>3
      <4>2. Row(0, g[n - 1]) = Row(0, f[n - 1])
        BY DEF Row
      <4> QED BY <2>3, <3>3, <4>1, <4>2
    <3> QED BY <3>1, <3>2, <3>3
  <2>5. f = [n \in 0 .. m |-> f[n]]
    OBVIOUS
  <2> HIDE DEF f
  <2>6. f = [n \in 0 .. m |-> Row(n, f[n - 1])]
    BY <2>4, <2>5
  <2>7. Evaluation(pov, m, f)
    BY <2>6 DEF Evaluation, Row
  <2> QED BY <1>1, <2>7
<1> QED BY <1>2, <1>3

\* A dynamic account whose formula refers to no other.
LEMMA DynamicIsSum ==
  ASSUME NEW pov, NEW a, a = pov.account, a \in DynamicAccounts, AddsUp(a)
  PROVE  DynamicCell(pov) = 0 + SumFunction([r \in Refs(expr[a]) |->
                                  expr[a].coef[r] * StoredCell(At(pov, "account", r))])
<1> DEFINE g == CHOOSE f : Evaluation(pov, 16, f)
<1>1. DynamicCell(pov) = g[16][a]
  BY DEF DynamicCell, MaxDynDepth, Evaluation
<1>2. Evaluation(pov, 16, g)
  <2>1. \E f : Evaluation(pov, 16, f)
    BY EvaluationExists
  <2> QED BY <2>1
<1> HIDE DEF g
<1>3. expr[a].const = 0 /\ DynamicRefs(a) = {}
  BY DEF AddsUp
<1>4. ~OnCycle(a)
  BY <1>3 DEF OnCycle
<1>5. g[16][a] = Evaluated(pov, a, g[15])
  <2>1. g[16] = [b \in DynamicAccounts |->
                   IF 16 = 0 \/ OnCycle(b) THEN 0 ELSE Evaluated(pov, b, g[16 - 1])]
    BY <1>2 DEF Evaluation
  <2>2. 16 # 0 /\ 16 - 1 = 15
    OBVIOUS
  <2> QED BY <1>4, <2>1, <2>2
<1>6. \A r \in Refs(expr[a]) : r \notin DynamicAccounts
  BY <1>3 DEF DynamicRefs
<1>7. [r \in Refs(expr[a]) |-> expr[a].coef[r] * IF r \in DynamicAccounts THEN g[15][r]
                                                 ELSE StoredCell(At(pov, "account", r))]
        = [r \in Refs(expr[a]) |-> expr[a].coef[r] * StoredCell(At(pov, "account", r))]
  BY <1>6
<1> QED BY <1>1, <1>3, <1>5, <1>7 DEF Evaluated

LinearExprs == \A a \in DOMAIN expr : LinearForm(expr[a])

\* What an account that adds up over time is worth in one month.
MonthValue(pov, m) ==
  LET a == pov.account
  IN  IF a \in DynamicAccounts
      THEN SumFunctionOnSet([r \in Refs(expr[a]) |->
                               expr[a].coef[r] * MonthSum(pov, MemberWeights(acc, r), m)], Refs(expr[a]))
      ELSE MonthSum(pov, MemberWeights(acc, a), m)

LEMMA MonthValueIsWhole ==
  ASSUME Readable, AccountTree(acc), LinearExprs, NEW pov, NEW m
  PROVE  MonthValue(pov, m) \in Int
<1> DEFINE a == pov.account
           R == Refs(expr[a])
           g == [r \in R |-> expr[a].coef[r] * MonthSum(pov, MemberWeights(acc, r), m)]
<1>1. \A r : MonthSum(pov, MemberWeights(acc, r), m) \in Int
  BY WeightsWeigh, MonthIsWhole
<1>2. CASE a \in DynamicAccounts
  <2>1. IsFiniteSet(R) /\ \A r \in R : expr[a].coef[r] \in Int
    BY <1>2 DEF LinearExprs, LinearForm, DynamicAccounts
  <2>2. \A i, j \in Int : i * j \in Int
    OBVIOUS
  <2>3. \A r \in R : g[r] \in Int
    BY <1>1, <2>1, <2>2
  <2>4. MonthValue(pov, m) = SumFunctionOnSet(g, R)
    BY <1>2 DEF MonthValue
  <2> HIDE DEF g, R
  <2> QED BY <2>1, <2>3, <2>4, SumIsInteger
<1>3. CASE a \notin DynamicAccounts
  BY <1>1, <1>3 DEF MonthValue
<1> QED BY <1>2, <1>3

\* A query of an account that adds up sums an interval of months.
LEMMA ValueIsInterval ==
  ASSUME Readable, AccountTree(acc), LinearExprs,
         NEW pov \in Points, NEW x \in TimeMembers(Years), NEW v, NEW bal,
         Kinds(pov.account) = {bal}, AddsUp(pov.account),
         NEW F, \A k \in 1 .. 12 : F[k] = MonthValue(pov, Month(x.year, k))
  PROVE  LET lo == FromMonth(x, bal, v)
             hi == LastMonth(x)
         IN  /\ lo \in 1 .. 12 /\ hi \in lo .. 12
             /\ GetCell(At(At(pov, "time", x), "view", v)) = SumFunctionOnSet(F, lo .. hi)
<1> DEFINE p  == At(At(pov, "time", x), "view", v)
           a  == pov.account
           lo == FromMonth(x, bal, v)
           hi == LastMonth(x)
<1>1. p.time = x /\ p.view = v /\ p.account = a /\ SameCells(p, pov)
  BY AtTimeAndView
<1>2. CASE a \notin DynamicAccounts
  <2>1. bal = Balance(a)
    BY <1>2 DEF Kinds
  <2>2. GetCell(p) = StoredCell(p)
    BY <1>1, <1>2 DEF GetCell
  <2>3. \A k \in 1 .. 12 : F[k] = MonthSum(pov, MemberWeights(acc, a), Month(x.year, k))
    BY <1>2 DEF MonthValue
  <2> HIDE DEF p
  <2>4. LET l == FromMonth(p.time, Balance(p.account), p.view)
            h == LastMonth(p.time)
        IN  l \in 1 .. 12 /\ h \in l .. 12 /\ StoredCell(p) = SumFunctionOnSet(F, l .. h)
    BY <1>1, <2>3, StoredIsInterval
  <2> QED BY <1>1, <2>1, <2>2, <2>4 DEF p
<1>3. CASE a \in DynamicAccounts
  <2> DEFINE R == Refs(expr[a])
             c == [r \in R |-> expr[a].coef[r]]
             h == [r \in R |-> [k \in 1 .. 12 |->
                                  MonthSum(pov, MemberWeights(acc, r), Month(x.year, k))]]
             S == lo .. hi
             Z == [k \in S |-> 0]
             q(r) == At(p, "account", r)
  <2>1. IsFiniteSet(R) /\ \A r \in R : c[r] \in Int /\ Balance(r) = bal
    <3>1. IsFiniteSet(R) /\ \A r \in R : c[r] \in Int
      BY <1>3 DEF LinearExprs, LinearForm, DynamicAccounts
    <3>2. \A r \in R : Balance(r) \in {bal}
      BY <1>3 DEF Kinds
    <3> QED BY <3>1, <3>2
  <2>2. ASSUME NEW r \in R
        PROVE  /\ lo \in 1 .. 12 /\ hi \in lo .. 12
               /\ StoredCell(q(r)) = SumFunctionOnSet(h[r], S)
    <3> DEFINE y == q(r)
               H == h[r]
    <3>1. y.time = x /\ y.view = v /\ y.account = r /\ SameCells(y, pov)
      BY AtAccountToo
    <3>2. \A k \in 1 .. 12 : H[k] = MonthSum(pov, MemberWeights(acc, r), Month(x.year, k))
      OBVIOUS
    <3> HIDE DEF y, H
    <3>3. LET l == FromMonth(y.time, Balance(y.account), y.view)
              u == LastMonth(y.time)
          IN  l \in 1 .. 12 /\ u \in l .. 12 /\ StoredCell(y) = SumFunctionOnSet(H, l .. u)
      BY <3>1, <3>2, StoredIsInterval
    <3> QED BY <2>1, <3>1, <3>3 DEF y, H
  <2>3. lo \in 1 .. 12 /\ hi \in lo .. 12
    <3>1. R # {}
      BY <1>3 DEF Kinds
    <3> QED BY <2>2, <3>1
  <2>4. IsFiniteSet(S) /\ S \subseteq 1 .. 12
    <3> HIDE DEF lo, hi
    <3> QED BY <2>3, FS_Interval
  <2> DEFINE G == [r \in R |-> c[r] * SumFunctionOnSet(h[r], S)]
  <2>5. GetCell(p) = 0 + SumFunction(G)
    <3>1. GetCell(p) = DynamicCell(p)
      BY <1>1, <1>3 DEF GetCell
    <3>2. DynamicCell(p) = 0 + SumFunction([r \in R |-> expr[a].coef[r] * StoredCell(q(r))])
      <4> HIDE DEF p
      <4> QED BY <1>1, <1>3, DynamicIsSum
    <3>3. [r \in R |-> expr[a].coef[r] * StoredCell(q(r))] = G
      <4> HIDE DEF q, S, h
      <4> QED BY <2>2
    <3> QED BY <3>1, <3>2, <3>3
  <2>6. SumFunction(G) = SumFunctionOnSet(G, R)
    <3>1. DOMAIN G = R
      OBVIOUS
    <3> HIDE DEF G
    <3> QED BY <3>1 DEF SumFunction
  <2>7. \A r \in R : \A k \in S : h[r][k] \in Int
    <3>1. \A r, m : MonthSum(pov, MemberWeights(acc, r), m) \in Int
      BY WeightsWeigh, MonthIsWhole
    <3> QED BY <2>4, <3>1
  <2>8. ASSUME NEW k \in S
        PROVE  F[k] = Z[k] + SumFunctionOnSet([r \in R |-> c[r] * h[r][k]], R)
    <3>1. k \in 1 .. 12
      BY <2>4
    <3>2. F[k] = MonthValue(pov, Month(x.year, k)) /\ F[k] \in Int
      BY <3>1, MonthValueIsWhole
    <3>3. [r \in R |-> c[r] * h[r][k]]
            = [r \in R |-> expr[a].coef[r] * MonthSum(pov, MemberWeights(acc, r), Month(x.year, k))]
      BY <3>1
    <3>4. F[k] = SumFunctionOnSet([r \in R |-> c[r] * h[r][k]], R)
      BY <1>3, <3>2, <3>3 DEF MonthValue
    <3>5. Z[k] = 0
      OBVIOUS
    <3> HIDE DEF Z, c, h, R
    <3> QED BY <3>2, <3>4, <3>5
  <2>9. \A k \in S : Z[k] = 0
    OBVIOUS
  <2> HIDE DEF Z, c, h, R, S
  <2>10. Parts(F, Z, c, h, S, R)
    BY <2>1, <2>7, <2>8, <2>9 DEF Parts
  <2>11. SumFunctionOnSet(F, S) = SumFunctionOnSet(Z, S) + SumFunctionOnSet(G, R)
    BY <2>1, <2>4, <2>10, SumOfParts
  <2>12. SumFunctionOnSet(Z, S) = 0
    <3>1. {} \in SUBSET S /\ (\A k \in S : Z[k] \in Int) /\ \A k \in S \ {} : Z[k] = 0
      BY <2>9
    <3>2. SumFunctionOnSet(Z, S) = SumFunctionOnSet(Z, {})
      BY <2>4, <3>1, SumOfNonzero
    <3> QED BY <3>2, EmptySum
  <2> HIDE DEF G
  <2>13. GetCell(p) = SumFunctionOnSet(F, S)
    BY <2>5, <2>6, <2>11, <2>12
  <2> HIDE DEF p, lo, hi
  <2>14. lo \in 1 .. 12 /\ hi \in lo .. 12 /\ GetCell(p) = SumFunctionOnSet(F, lo .. hi)
    BY <2>3, <2>13 DEF S
  <2> QED BY <2>14 DEF p, lo, hi
<1> QED BY <1>2, <1>3

\* The last part of a period.
LEMMA LastPartFacts ==
  ASSUME NEW x \in TimeMembers(Years), ~IsMonth(x)
  PROVE  /\ LastPart(x) \in TimeMembers(Years) /\ LastPart(x).year = x.year
         /\ LastMonth(LastPart(x)) = LastMonth(x)
<1>1. CASE x = Year(x.year) /\ x.part = "Y"
  <2>1. SubPeriods(x) = {Quarter(x.year, q) : q \in 1 .. 4}
    BY <1>1 DEF SubPeriods
  <2>2. Quarter(x.year, 4) \in SubPeriods(x) /\ \A q \in SubPeriods(x) : q.n <= 4
    BY <2>1 DEF Quarter
  <2>3. \A p \in SubPeriods(x) : p.n >= 4 => p = Quarter(x.year, 4)
    BY <2>1 DEF Quarter
  <2>4. LastPart(x) \in SubPeriods(x) /\ \A q \in SubPeriods(x) : q.n <= LastPart(x).n
    <3>1. Quarter(x.year, 4).n = 4
      BY DEF Quarter
    <3>2. \E p \in SubPeriods(x) : \A q \in SubPeriods(x) : q.n <= p.n
      BY <2>2, <3>1
    <3> QED BY <3>2 DEF LastPart
  <2>5. LastPart(x) = Quarter(x.year, 4)
    <3>1. Quarter(x.year, 4).n = 4
      BY DEF Quarter
    <3>2. LastPart(x).n \in Int
      BY <2>1, <2>4 DEF Quarter
    <3> QED BY <2>2, <2>3, <2>4, <3>1, <3>2
  <2>6. Quarter(x.year, 4) \in TimeMembers(Years)
    <3>1. x.year \in Years
      BY TimeMemberShape
    <3> QED BY <3>1 DEF TimeMembers
  <2>7. LastMonth(Quarter(x.year, 4)) = 12 /\ LastMonth(x) = 12 /\ Quarter(x.year, 4).year = x.year
    BY <1>1 DEF LastMonth, Quarter
  <2> QED BY <2>5, <2>6, <2>7
<1>2. CASE x = Quarter(x.year, x.n) /\ x.part = "Q" /\ x.n \in 1 .. 4
  <2> DEFINE z == x.n * 3
  <2>1. SubPeriods(x) = {Month(x.year, m) : m \in (x.n - 1) * 3 + 1 .. z}
    BY <1>2 DEF SubPeriods
  <2>2. z \in (x.n - 1) * 3 + 1 .. z /\ z \in 1 .. 12
    BY <1>2
  <2>3. /\ Month(x.year, z) \in SubPeriods(x) /\ Month(x.year, z).n = z
        /\ \A p \in SubPeriods(x) : p.n \in Int /\ p.n <= z /\ (p.n >= z => p = Month(x.year, z))
    BY <2>1, <2>2 DEF Month
  <2> HIDE DEF z
  <2>4. LastPart(x) \in SubPeriods(x) /\ \A q \in SubPeriods(x) : q.n <= LastPart(x).n
    <3>1. \E p \in SubPeriods(x) : \A q \in SubPeriods(x) : q.n <= p.n
      BY <2>3
    <3> QED BY <3>1 DEF LastPart
  <2>5. LastPart(x) = Month(x.year, z)
    BY <2>3, <2>4
  <2>6. Month(x.year, z) \in TimeMembers(Years)
    <3>1. x.year \in Years
      BY TimeMemberShape
    <3> QED BY <2>2, <3>1 DEF TimeMembers
  <2>7. LastMonth(Month(x.year, z)) = z /\ LastMonth(x) = z /\ Month(x.year, z).year = x.year
    BY <1>2 DEF LastMonth, Month, z
  <2> QED BY <2>5, <2>6, <2>7
<1> QED BY <1>1, <1>2, TimeMemberShape DEF IsMonth

\* The months of a year, quarter by quarter.
LEMMA YearOfQuarters ==
  ASSUME NEW F, \A k \in 1 .. 12 : F[k] \in Int,
         NEW Q, \A q \in 1 .. 4 : Q[q] = SumFunctionOnSet(F, (q - 1) * 3 + 1 .. q * 3)
  PROVE  /\ SumFunctionOnSet(F, 1 .. 12) = SumFunctionOnSet(Q, 1 .. 4)
         /\ \A q \in 1 .. 4 : Q[q] \in Int
<1>1. ASSUME NEW a \in 1 .. 12, NEW b \in a .. 12
      PROVE  /\ IsFiniteSet(1 .. b) /\ 1 .. a \in SUBSET (1 .. b) /\ (1 .. b) \ (1 .. a) = a + 1 .. b
             /\ \A k \in 1 .. b : F[k] \in Int
  <2>1. IsFiniteSet(1 .. b)
    BY FS_Interval
  <2>2. \A k \in 1 .. b : k \in 1 .. 12
    OBVIOUS
  <2>3. 1 .. a \in SUBSET (1 .. b)
    OBVIOUS
  <2>4. (1 .. b) \ (1 .. a) = a + 1 .. b
    OBVIOUS
  <2> QED BY <2>1, <2>2, <2>3, <2>4
<1>2. ASSUME NEW a \in 1 .. 12, NEW b \in a .. 12
      PROVE  SumFunctionOnSet(F, 1 .. b) = SumFunctionOnSet(F, 1 .. a) + SumFunctionOnSet(F, a + 1 .. b)
  <2> DEFINE S == 1 .. b
             R == 1 .. a
  <2>1. IsFiniteSet(S) /\ R \in SUBSET S /\ S \ R = a + 1 .. b /\ \A k \in S : F[k] \in Int
    BY <1>1
  <2> HIDE DEF S, R
  <2>2. SumFunctionOnSet(F, S) = SumFunctionOnSet(F, R) + SumFunctionOnSet(F, S \ R)
    BY <2>1, SumOfUnion
  <2> QED BY <2>1, <2>2 DEF S, R
<1>3. ASSUME NEW q \in 1 .. 4
      PROVE  Q[q] \in Int
  <2> DEFINE S == (q - 1) * 3 + 1 .. q * 3
  <2>1. IsFiniteSet(S) /\ \A k \in S : k \in 1 .. 12
    BY FS_Interval
  <2>2. \A k \in S : F[k] \in Int
    BY <2>1
  <2>3. Q[q] = SumFunctionOnSet(F, S)
    OBVIOUS
  <2> HIDE DEF S
  <2> QED BY <2>1, <2>2, <2>3, SumIsInteger
<1>4. /\ Q[1] = SumFunctionOnSet(F, 1 .. 3)
      /\ SumFunctionOnSet(F, 1 .. 6) = SumFunctionOnSet(F, 1 .. 3) + Q[2]
      /\ SumFunctionOnSet(F, 1 .. 9) = SumFunctionOnSet(F, 1 .. 6) + Q[3]
      /\ SumFunctionOnSet(F, 1 .. 12) = SumFunctionOnSet(F, 1 .. 9) + Q[4]
  <2>1. /\ Q[1] = SumFunctionOnSet(F, 1 .. 3) /\ Q[2] = SumFunctionOnSet(F, 4 .. 6)
        /\ Q[3] = SumFunctionOnSet(F, 7 .. 9) /\ Q[4] = SumFunctionOnSet(F, 10 .. 12)
    OBVIOUS
  <2>2. /\ SumFunctionOnSet(F, 1 .. 6) = SumFunctionOnSet(F, 1 .. 3) + SumFunctionOnSet(F, 3 + 1 .. 6)
        /\ SumFunctionOnSet(F, 1 .. 9) = SumFunctionOnSet(F, 1 .. 6) + SumFunctionOnSet(F, 6 + 1 .. 9)
        /\ SumFunctionOnSet(F, 1 .. 12) = SumFunctionOnSet(F, 1 .. 9) + SumFunctionOnSet(F, 9 + 1 .. 12)
    BY <1>2
  <2>3. 3 + 1 = 4 /\ 6 + 1 = 7 /\ 9 + 1 = 10
    OBVIOUS
  <2> QED BY <2>1, <2>2, <2>3
<1>5. /\ SumFunctionOnSet(Q, 1 .. 4) = Q[4] + SumFunctionOnSet(Q, 1 .. 3)
      /\ SumFunctionOnSet(Q, 1 .. 3) = Q[3] + SumFunctionOnSet(Q, 1 .. 2)
      /\ SumFunctionOnSet(Q, 1 .. 2) = Q[2] + SumFunctionOnSet(Q, 1 .. 1)
      /\ SumFunctionOnSet(Q, 1 .. 1) = Q[1] + SumFunctionOnSet(Q, 1 .. 0)
  <2>1. ASSUME NEW n \in 1 .. 4
        PROVE  SumFunctionOnSet(Q, 1 .. n) = Q[n] + SumFunctionOnSet(Q, 1 .. n - 1)
    <3>1. n \in Nat \ {0} /\ \A i \in 1 .. n : Q[i] \in Int
      BY <1>3
    <3> QED BY <3>1, SumOfInterval
  <2>2. 4 - 1 = 3 /\ 3 - 1 = 2 /\ 2 - 1 = 1 /\ 1 - 1 = 0
    OBVIOUS
  <2> QED BY <2>1, <2>2
<1>6. SumFunctionOnSet(Q, 1 .. 0) = 0
  <2>1. 1 .. 0 = {}
    OBVIOUS
  <2> QED BY <2>1, EmptySum
<1>7. Q[1] \in Int /\ Q[2] \in Int /\ Q[3] \in Int /\ Q[4] \in Int
  BY <1>3
<1> QED BY <1>3, <1>4, <1>5, <1>6, <1>7

\* The answers of the query engine for the periods of a point of view.
LEMMA QueriesAgree ==
  ASSUME Readable, AccountTree(acc), LinearExprs
  PROVE  PeriodsAgree
<1> SUFFICES ASSUME NEW pov \in Points, NEW t \in TimeMembers(Years), NEW v \in Views, NEW bal \in BOOLEAN,
                    Kinds(pov.account) = {bal}, AddsUp(pov.account)
             PROVE  LET value(x, w) == GetCell(At(At(pov, "time", x), "view", w))
                    IN  IF IsMonth(t)
                        THEN value(t, "YTD") = value(t, "Periodic")
                               + IF t.n = 1 \/ bal THEN 0 ELSE value(Month(t.year, t.n - 1), "YTD")
                        ELSE value(t, v) = IF v = "YTD" \/ bal THEN value(LastPart(t), v)
                                           ELSE SumFunction([p \in SubPeriods(t) |-> value(p, v)])
  BY DEF PeriodsAgree
<1> DEFINE value(x, w) == GetCell(At(At(pov, "time", x), "view", w))
           F == [k \in 1 .. 12 |-> MonthValue(pov, Month(t.year, k))]
<1>1. \A k \in 1 .. 12 : F[k] \in Int /\ F[k] = MonthValue(pov, Month(t.year, k))
  BY MonthValueIsWhole
<1> HIDE DEF F
<1>2. ASSUME NEW x \in TimeMembers(Years), x.year = t.year, NEW w
      PROVE  /\ FromMonth(x, bal, w) \in 1 .. 12 /\ LastMonth(x) \in FromMonth(x, bal, w) .. 12
             /\ value(x, w) = SumFunctionOnSet(F, FromMonth(x, bal, w) .. LastMonth(x))
  <2>1. \A k \in 1 .. 12 : F[k] = MonthValue(pov, Month(x.year, k))
    BY <1>1, <1>2
  <2> QED BY <2>1, ValueIsInterval
<1>3. t.year \in Years
  BY TimeMemberShape
<1>4. ASSUME NEW k \in 1 .. 12
      PROVE  /\ Month(t.year, k) \in TimeMembers(Years) /\ Month(t.year, k).year = t.year
             /\ LastMonth(Month(t.year, k)) = k
             /\ \A b, w : FromMonth(Month(t.year, k), b, w) = IF b THEN k ELSE IF w = "YTD" THEN 1 ELSE k
  <2>1. Month(t.year, k) \in TimeMembers(Years)
    BY <1>3 DEF TimeMembers
  <2> QED BY <2>1 DEF Month, LastMonth, FirstMonth, FromMonth
<1>5. ASSUME NEW k \in 1 .. 12
      PROVE  /\ SumFunctionOnSet(F, k .. k) = F[k]
             /\ SumFunctionOnSet(F, 1 .. k) = F[k] + SumFunctionOnSet(F, 1 .. k - 1)
  <2>1. SumFunctionOnSet(F, k .. k) = F[k]
    <3>1. k .. k = {k} /\ F[k] \in Int
      BY <1>1
    <3> QED BY <3>1, SumOfOne
  <2>2. SumFunctionOnSet(F, 1 .. k) = F[k] + SumFunctionOnSet(F, 1 .. k - 1)
    <3>1. k \in Nat \ {0} /\ \A i \in 1 .. k : F[i] \in Int
      BY <1>1
    <3> QED BY <3>1, SumOfInterval
  <2> QED BY <2>1, <2>2
<1>6. CASE IsMonth(t)
  <2>1. t = Month(t.year, t.n) /\ t.n \in 1 .. 12
    BY <1>6, TimeMemberShape DEF IsMonth
  <2>2. ASSUME NEW k \in 1 .. 12
        PROVE  /\ value(Month(t.year, k), "Periodic") = F[k]
               /\ value(Month(t.year, k), "YTD") = IF bal THEN F[k] ELSE SumFunctionOnSet(F, 1 .. k)
    <3> DEFINE x == Month(t.year, k)
    <3>1. /\ value(x, "Periodic") = SumFunctionOnSet(F, FromMonth(x, bal, "Periodic") .. LastMonth(x))
          /\ value(x, "YTD") = SumFunctionOnSet(F, FromMonth(x, bal, "YTD") .. LastMonth(x))
      BY <1>2, <1>4
    <3>2. /\ LastMonth(x) = k /\ FromMonth(x, bal, "Periodic") = k
          /\ FromMonth(x, bal, "YTD") = IF bal THEN k ELSE 1
      BY <1>4
    <3> HIDE DEF value, x
    <3>3. /\ value(x, "Periodic") = F[k]
          /\ value(x, "YTD") = IF bal THEN F[k] ELSE SumFunctionOnSet(F, 1 .. k)
      BY <1>5, <3>1, <3>2
    <3> QED BY <3>3 DEF x
  <2> DEFINE n == t.n
  <2>3. /\ value(t, "Periodic") = F[n]
        /\ value(t, "YTD") = IF bal THEN F[n] ELSE SumFunctionOnSet(F, 1 .. n)
    <3> HIDE DEF value
    <3> QED BY <2>1, <2>2
  <2>4. n # 1 => n - 1 \in 1 .. 12
    BY <2>1
  <2>5. n # 1 /\ ~bal => value(Month(t.year, n - 1), "YTD") = SumFunctionOnSet(F, 1 .. n - 1)
    <3> HIDE DEF value, n
    <3> QED BY <2>2, <2>4
  <2>6. n = 1 => SumFunctionOnSet(F, 1 .. n - 1) = 0
    <3>1. n = 1 => 1 .. n - 1 = {}
      OBVIOUS
    <3> QED BY <3>1, EmptySum
  <2>7. SumFunctionOnSet(F, 1 .. n) = F[n] + SumFunctionOnSet(F, 1 .. n - 1) /\ F[n] \in Int
    BY <1>1, <1>5, <2>1
  <2>8. value(t, "YTD") = value(t, "Periodic")
                            + IF n = 1 \/ bal THEN 0 ELSE value(Month(t.year, n - 1), "YTD")
    <3> HIDE DEF value, n
    <3> QED BY <2>3, <2>5, <2>6, <2>7
  <2> QED BY <1>6, <2>8
<1>7. CASE ~IsMonth(t) /\ (v = "YTD" \/ bal)
  <2> DEFINE l == LastPart(t)
  <2>1. l \in TimeMembers(Years) /\ l.year = t.year /\ LastMonth(l) = LastMonth(t)
    BY <1>7, LastPartFacts
  <2> HIDE DEF l
  <2>2. /\ value(t, v) = SumFunctionOnSet(F, FromMonth(t, bal, v) .. LastMonth(t))
        /\ value(l, v) = SumFunctionOnSet(F, FromMonth(l, bal, v) .. LastMonth(l))
    BY <1>2, <2>1
  <2>3. FromMonth(t, bal, v) = FromMonth(l, bal, v)
    BY <1>7, <2>1 DEF FromMonth
  <2>4. value(t, v) = value(l, v)
    <3> HIDE DEF value
    <3> QED BY <2>1, <2>2, <2>3
  <2> QED BY <1>7, <2>4 DEF l
<1>8. CASE ~IsMonth(t) /\ ~(v = "YTD" \/ bal)
  <2> DEFINE parts == SubPeriods(t)
             G == [p \in parts |-> value(p, v)]
  <2>1. SumFunction(G) = SumFunctionOnSet(G, parts)
    <3>1. DOMAIN G = parts
      OBVIOUS
    <3> HIDE DEF G
    <3> QED BY <3>1 DEF SumFunction
  <2>2. ASSUME NEW x \in TimeMembers(Years), x.year = t.year
        PROVE  value(x, v) = SumFunctionOnSet(F, FirstMonth(x) .. LastMonth(x))
    <3>1. FromMonth(x, bal, v) = FirstMonth(x)
      BY <1>8 DEF FromMonth
    <3>2. value(x, v) = SumFunctionOnSet(F, FromMonth(x, bal, v) .. LastMonth(x))
      BY <1>2, <2>2
    <3> HIDE DEF value
    <3> QED BY <3>1, <3>2
  <2>3. value(t, v) = SumFunctionOnSet(F, FirstMonth(t) .. LastMonth(t))
    BY <2>2
  <2>4. ASSUME t = Year(t.year), t.part = "Y"
        PROVE  value(t, v) = SumFunctionOnSet(G, parts)
    <3> DEFINE h == [q \in 1 .. 4 |-> Quarter(t.year, q)]
               Q == [q \in 1 .. 4 |-> value(Quarter(t.year, q), v)]
    <3>1. parts = {Quarter(t.year, q) : q \in 1 .. 4}
      BY <2>4 DEF SubPeriods
    <3>2. ASSUME NEW q \in 1 .. 4
          PROVE  /\ Quarter(t.year, q) \in parts
                 /\ value(Quarter(t.year, q), v) = SumFunctionOnSet(F, (q - 1) * 3 + 1 .. q * 3)
      <4> DEFINE x == Quarter(t.year, q)
      <4>1. x \in TimeMembers(Years) /\ x.year = t.year
        BY <1>3 DEF TimeMembers, Quarter
      <4>2. FirstMonth(x) = (q - 1) * 3 + 1 /\ LastMonth(x) = q * 3
        BY DEF FirstMonth, LastMonth, Quarter
      <4> HIDE DEF x, value
      <4>3. value(x, v) = SumFunctionOnSet(F, (q - 1) * 3 + 1 .. q * 3)
        BY <2>2, <4>1, <4>2
      <4> QED BY <3>1, <4>3 DEF x
    <3>3. Renames(h, 1 .. 4, parts)
      <4>1. \A p, q \in 1 .. 4 : Quarter(t.year, p) = Quarter(t.year, q) => p = q
        BY DEF Quarter
      <4>2. DOMAIN h = 1 .. 4 /\ \A q \in 1 .. 4 : h[q] = Quarter(t.year, q)
        OBVIOUS
      <4>3. {h[q] : q \in 1 .. 4} = parts
        BY <3>1, <4>2
      <4> HIDE DEF h, parts
      <4> QED BY <4>1, <4>2, <4>3 DEF Renames
    <3>4. \A q \in 1 .. 4 : Q[q] = SumFunctionOnSet(F, (q - 1) * 3 + 1 .. q * 3) /\ G[h[q]] = Q[q]
      BY <3>2
    <3> HIDE DEF h, Q, G, parts, value
    <3>5. SumFunctionOnSet(F, 1 .. 12) = SumFunctionOnSet(Q, 1 .. 4) /\ \A q \in 1 .. 4 : Q[q] \in Int
      <4>1. (\A k \in 1 .. 12 : F[k] \in Int)
            /\ \A q \in 1 .. 4 : Q[q] = SumFunctionOnSet(F, (q - 1) * 3 + 1 .. q * 3)
        BY <1>1, <3>4
      <4> QED BY <4>1, YearOfQuarters
    <3>6. SumFunctionOnSet(G, parts) = SumFunctionOnSet(Q, 1 .. 4)
      <4>1. IsFiniteSet(1 .. 4) /\ \A q \in 1 .. 4 : Q[q] \in Int /\ G[h[q]] = Q[q]
        <5>1. IsFiniteSet(1 .. 4)
          <6>1. \A n \in Nat : IsFiniteSet(1 .. n)
            BY FS_Interval
          <6> QED BY <6>1
        <5>2. \A q \in 1 .. 4 : Q[q] \in Int /\ G[h[q]] = Q[q]
          BY <3>4, <3>5
        <5> QED BY <5>1, <5>2
      <4> QED BY <3>3, <4>1, SumReindexed
    <3>7. FirstMonth(t) = 1 /\ LastMonth(t) = 12
      BY <2>4 DEF FirstMonth, LastMonth
    <3> QED BY <2>3, <3>5, <3>6, <3>7
  <2>5. ASSUME t = Quarter(t.year, t.n), t.part = "Q", t.n \in 1 .. 4
        PROVE  value(t, v) = SumFunctionOnSet(G, parts)
    <3> DEFINE lo == FirstMonth(t)
               hi == LastMonth(t)
               h == [m \in lo .. hi |-> Month(t.year, m)]
    <3>1. /\ lo \in 1 .. 12 /\ hi \in 1 .. 12
          /\ parts = {Month(t.year, m) : m \in lo .. hi}
      BY <2>5 DEF SubPeriods, FirstMonth, LastMonth
    <3> HIDE DEF lo, hi
    <3>2. ASSUME NEW m \in lo .. hi
          PROVE  /\ Month(t.year, m) \in parts /\ F[m] \in Int
                 /\ value(Month(t.year, m), v) = F[m]
      <4> DEFINE x == Month(t.year, m)
      <4>1. m \in 1 .. 12 /\ x \in parts
        BY <3>1
      <4>2. x \in TimeMembers(Years) /\ x.year = t.year
        BY <1>4, <4>1
      <4>3. FirstMonth(x) = m /\ LastMonth(x) = m
        BY DEF FirstMonth, LastMonth, Month
      <4> HIDE DEF x, value
      <4>4. value(x, v) = SumFunctionOnSet(F, m .. m)
        BY <2>2, <4>2, <4>3
      <4>5. value(x, v) = F[m] /\ F[m] \in Int
        BY <1>1, <1>5, <4>1, <4>4
      <4> QED BY <4>1, <4>5 DEF x
    <3>3. Renames(h, lo .. hi, parts)
      <4>1. \A p, q \in lo .. hi : Month(t.year, p) = Month(t.year, q) => p = q
        BY DEF Month
      <4>2. DOMAIN h = lo .. hi /\ \A q \in lo .. hi : h[q] = Month(t.year, q)
        OBVIOUS
      <4>3. {h[q] : q \in lo .. hi} = parts
        BY <3>1, <4>2
      <4> HIDE DEF h, parts
      <4> QED BY <4>1, <4>2, <4>3 DEF Renames
    <3>4. \A m \in lo .. hi : F[m] \in Int /\ G[h[m]] = F[m]
      BY <3>2
    <3>5. IsFiniteSet(lo .. hi)
      BY <3>1, FS_Interval
    <3> DEFINE S == lo .. hi
    <3> HIDE DEF h, G, parts, value, S
    <3>6. SumFunctionOnSet(G, parts) = SumFunctionOnSet(F, S)
      <4>1. IsFiniteSet(S) /\ Renames(h, S, parts) /\ \A m \in S : F[m] \in Int /\ G[h[m]] = F[m]
        BY <3>3, <3>4, <3>5 DEF S
      <4> QED BY <4>1, SumReindexed
    <3> QED BY <2>3, <3>6 DEF S, lo, hi
  <2>6. value(t, v) = SumFunctionOnSet(G, parts)
    <3> HIDE DEF value, G, parts
    <3> QED BY <1>8, <2>4, <2>5, TimeMemberShape DEF IsMonth
  <2> QED BY <1>8, <2>1, <2>6
<1> QED BY <1>6, <1>7, <1>8

-----------------------------------------------------------------------------
(* Queries: a parent and its children.                                     *)

\* The weight one level of the tree gives an account: its own if it is the
\* target, and what the child it is below gives it, times the child's.
LEMMA FactorUnfolds ==
  ASSUME NEW t, AccountTree(t), NEW a \in Accounts, NEW x
  PROVE  Factor(MemberWeights(t, a), x)
           = Factor([y \in {a} |-> 1], x)
               + SumFunctionOnSet([k \in Children(t, a) |->
                                     AccountWeight(k) * Factor(MemberWeights(t, k), x)], Children(t, a))
<1> DEFINE W(k) == MemberWeights(t, k)
           K    == Children(t, a)
           one  == [y \in {a} |-> 1]
           g    == [k \in K |-> AccountWeight(k) * Factor(W(k), x)]
<1>1. IsFiniteSet(K) /\ \A k \in K : AccountWeight(k) \in Int /\ k \in DOMAIN t
  <2>1. K \subseteq DOMAIN t
    BY DEF Children
  <2> HIDE DEF K
  <2> QED BY <2>1, FS_Subset, FactorsAssumption DEF AccountTree
<1>2. \A k : DOMAIN W(k) = {k} \cup Subtree(t, k)
  BY WeightsAreWays
<1>3. \A k : \A y \in {k} \cup Subtree(t, k) :
        W(k)[y] = WayWeight(Way(t, y, k)) /\ W(k)[y] \in Int
  <2>1. ASSUME NEW k, NEW y \in {k} \cup Subtree(t, k)
        PROVE  W(k)[y] = WayWeight(Way(t, y, k)) /\ W(k)[y] \in Int
    <3>1. W(k)[y] = WayWeight(Way(t, y, k))
      BY WeightsAreWays
    <3>2. WayWeight(Way(t, y, k)) \in Int
      BY WayStays, WayFacts
    <3> QED BY <3>1, <3>2
  <2> QED BY <2>1
<1> HIDE DEF W
<1>4. \A k : Factor(W(k), x) \in Int
  <2>1. ASSUME NEW k, x \in DOMAIN W(k) PROVE W(k)[x] \in Int
    BY <1>2, <1>3, <2>1
  <2> QED BY <2>1 DEF Factor
<1>5. DOMAIN g = K /\ \A k \in K : g[k] \in Int /\ g[k] = AccountWeight(k) * Factor(W(k), x)
  <2>1. ASSUME NEW k \in K PROVE AccountWeight(k) * Factor(W(k), x) \in Int
    BY <1>1, <1>4
  <2> QED BY <2>1
<1>6. Factor(one, x) = IF x = a THEN 1 ELSE 0
  BY DEF Factor
<1>7. ASSUME NEW k \in K, x \notin {k} \cup Subtree(t, k)
      PROVE  g[k] = 0
  <2>1. Factor(W(k), x) = 0
    BY <1>2, <1>7 DEF Factor
  <2> QED BY <1>1, <1>5, <2>1
<1>8. a # NoParent
  BY DEF AccountTree
<1>9. ASSUME a \in DOMAIN t
      PROVE  /\ a \in Subtree(t, a)
             /\ \A k \in K : k \in Subtree(t, k) /\ Subtree(t, k) \subseteq Subtree(t, a) \ {a}
             /\ \A y \in Subtree(t, a) \ {a} : \E k \in K : y \in Subtree(t, k)
             /\ \A y, k, l : k \in K /\ l \in K /\ y \in Subtree(t, k) /\ y \in Subtree(t, l) => k = l
  <2>1. \A k \in DOMAIN t : k # NoParent => k \in Subtree(t, k)
    BY SubtreeParts DEF AccountTree
  <2>2. \A k \in K : k \in Subtree(t, k)
    BY <1>1, <2>1 DEF AccountTree
  <2> QED BY <1>8, <1>9, <2>2, SubtreeParts DEF AccountTree
<1>10. a \notin DOMAIN t => K = {} /\ Subtree(t, a) = {}
  BY <1>8, StrangerAlone DEF AccountTree
<1>11. CASE x \notin Subtree(t, a) \/ x = a
  <2>1. \A k \in K : x \notin {k} \cup Subtree(t, k)
    <3>1. CASE a \in DOMAIN t
      BY <1>9, <1>11, <3>1
    <3>2. CASE a \notin DOMAIN t
      BY <1>10, <3>2
    <3> QED BY <3>1, <3>2
  <2>2. \A k \in K \ {} : g[k] = 0
    BY <1>7, <2>1
  <2>3. SumFunctionOnSet(g, K) = SumFunctionOnSet(g, {})
    <3>1. {} \in SUBSET K /\ \A k \in K : g[k] \in Int
      BY <1>5
    <3> HIDE DEF g, K
    <3> QED BY <1>1, <2>2, <3>1, SumOfNonzero
  <2>4. Factor(W(a), x) = IF x = a THEN 1 ELSE 0
    <3>1. CASE x = a
      <4>1. Way(t, a, a) = {}
        BY DEF Way
      <4>2. WayWeight({}) = 1
        BY FS_EmptySet, WayFacts
      <4> QED BY <1>2, <1>3, <3>1, <4>1, <4>2 DEF Factor
    <3>2. CASE x # a
      BY <1>2, <1>11, <3>2 DEF Factor
    <3> QED BY <3>1, <3>2
  <2>5. SumFunctionOnSet(g, K) = 0
    BY <2>3, EmptySum
  <2>6. Factor(W(a), x) = Factor(one, x) + SumFunctionOnSet(g, K)
    <3> HIDE DEF g, K, one
    <3> QED BY <1>6, <2>4, <2>5
  <2> QED BY <2>6 DEF W
<1>12. CASE x \in Subtree(t, a) /\ x # a
  <2>1. a \in DOMAIN t
    BY <1>10, <1>12
  <2>2. PICK k \in K : x \in Subtree(t, k)
    BY <1>9, <1>12, <2>1
  <2>3. \A l \in K \ {k} : x \notin {l} \cup Subtree(t, l)
    BY <1>9, <2>1, <2>2
  <2>4. \A l \in K \ {k} : g[l] = 0
    BY <1>7, <2>3
  <2>5. SumFunctionOnSet(g, K) = SumFunctionOnSet(g, {k})
    <3>1. {k} \in SUBSET K /\ \A l \in K : g[l] \in Int
      BY <1>5
    <3> HIDE DEF g, K
    <3> QED BY <1>1, <2>4, <3>1, SumOfNonzero
  <2>6. SumFunctionOnSet(g, {k}) = g[k]
    <3>1. g[k] \in Int
      BY <1>5
    <3> HIDE DEF g, K
    <3> QED BY <3>1, SumOfOne
  <2>7. k \in Way(t, x, a) /\ Way(t, x, k) = Way(t, x, a) \ {k}
    BY <2>1, <2>2, WayThroughChild
  <2>8. IsFiniteSet(Way(t, x, a)) /\ Way(t, x, a) \subseteq Accounts
    BY WayStays
  <2>9. WayWeight(Way(t, x, a)) = AccountWeight(k) * WayWeight(Way(t, x, k))
    BY <2>7, <2>8, WayFacts
  <2>10. Factor(W(a), x) = WayWeight(Way(t, x, a))
    BY <1>2, <1>3, <1>12 DEF Factor
  <2>11. Factor(W(k), x) = WayWeight(Way(t, x, k))
    BY <1>2, <1>3, <2>2 DEF Factor
  <2>12. Factor(W(a), x) = g[k]
    BY <1>5, <2>9, <2>10, <2>11
  <2>13. Factor(W(a), x) = Factor(one, x) + SumFunctionOnSet(g, K)
    <3>1. Factor(one, x) = 0 /\ g[k] \in Int
      BY <1>5, <1>6, <1>12
    <3> HIDE DEF g, K, one
    <3> QED BY <2>5, <2>6, <2>12, <3>1
  <2> QED BY <2>13 DEF W
<1> QED BY <1>11, <1>12

\* Weights that are made of the weights of parts, account by account, ...
MadeOf(w, one, K, V) ==
  /\ IsFiniteSet(K) /\ Weighs(w) /\ Weighs(one)
  /\ \A k \in K : AccountWeight(k) \in Int /\ Weighs(V[k])
  /\ \A x : Factor(w, x) = Factor(one, x)
                             + SumFunctionOnSet([k \in K |-> AccountWeight(k) * Factor(V[k], x)], K)

\* ... sum the cells of a month as the parts do, ...
LEMMA MonthMadeOf ==
  ASSUME Readable, NEW w, NEW one, NEW K, NEW V, MadeOf(w, one, K, V), NEW pov, NEW m
  PROVE  MonthSum(pov, w, m)
           = MonthSum(pov, one, m)
               + SumFunctionOnSet([k \in K |-> AccountWeight(k) * MonthSum(pov, V[k], m)], K)
<1> DEFINE cells == CellsAt(pov, m)
           S     == Matching(pov, cells)
           f     == [c \in S |-> cells[c] * Factor(w, c.acct)]
           g     == [c \in S |-> cells[c] * Factor(one, c.acct)]
           h     == [k \in K |-> [c \in S |-> cells[c] * Factor(V[k], c.acct)]]
           r     == [k \in K |-> AccountWeight(k)]
<1>1. IsFiniteSet(DOMAIN cells) /\ Whole(cells)
  BY CellsAreReadable
<1> HIDE DEF cells
<1>2. \A c \in S : cells[c] \in Int
  BY <1>1 DEF Matching, Whole
<1>3. /\ IsFiniteSet(K) /\ Weighs(w) /\ Weighs(one)
      /\ \A k \in K : AccountWeight(k) \in Int /\ Weighs(V[k])
  BY DEF MadeOf
<1>4. \A v, x : Weighs(v) => Factor(v, x) \in Int
  BY DEF Weighs, Factor
<1>5. /\ \A c \in S : f[c] = cells[c] * Factor(w, c.acct)
      /\ \A c \in S : g[c] = cells[c] * Factor(one, c.acct)
      /\ \A k \in K : \A c \in S : h[k][c] = cells[c] * Factor(V[k], c.acct)
      /\ \A k \in K : r[k] = AccountWeight(k) /\ r[k] \in Int
  BY <1>3
<1> HIDE DEF S, f, g, h, r
<1>6. ASSUME NEW v, Weighs(v), NEW p, \A c \in S : p[c] = cells[c] * Factor(v, c.acct)
      PROVE  /\ IsFiniteSet(S) /\ \A c \in S : p[c] \in Int
             /\ MonthSum(pov, v, m) = SumFunctionOnSet(p, S)
  <2>1. \A c \in Matching(pov, cells) : p[c] = cells[c] * Factor(v, c.acct)
    BY <1>6 DEF S
  <2>2. /\ IsFiniteSet(Matching(pov, cells))
        /\ \A c \in Matching(pov, cells) : p[c] \in Int
        /\ SumCells(pov, v, cells) = SumFunctionOnSet(p, Matching(pov, cells))
    BY <1>1, <1>6, <2>1, CellSum
  <2> QED BY <2>2 DEF S, MonthSum, cells
<1>7. MonthSum(pov, w, m) = SumFunctionOnSet(f, S) /\ IsFiniteSet(S)
  BY <1>3, <1>5, <1>6
<1>8. MonthSum(pov, one, m) = SumFunctionOnSet(g, S) /\ \A c \in S : g[c] \in Int
  BY <1>3, <1>5, <1>6
<1>9. ASSUME NEW k \in K
      PROVE  MonthSum(pov, V[k], m) = SumFunctionOnSet(h[k], S) /\ \A c \in S : h[k][c] \in Int
  <2>1. Weighs(V[k]) /\ \A c \in S : h[k][c] = cells[c] * Factor(V[k], c.acct)
    BY <1>3, <1>5
  <2> DEFINE v == V[k]
             p == h[k]
  <2>2. Weighs(v) /\ \A c \in S : p[c] = cells[c] * Factor(v, c.acct)
    BY <2>1
  <2> HIDE DEF v, p
  <2>3. MonthSum(pov, v, m) = SumFunctionOnSet(p, S) /\ \A c \in S : p[c] \in Int
    BY <2>2, <1>6
  <2> QED BY <2>3 DEF v, p
<1>10. ASSUME NEW c \in S
       PROVE  f[c] = g[c] + SumFunctionOnSet([k \in K |-> r[k] * h[k][c]], K)
  <2> DEFINE x == c.acct
             q == [k \in K |-> AccountWeight(k) * Factor(V[k], x)]
             e == [k \in K |-> r[k] * h[k][c]]
             n == cells[c]
  <2>1. n \in Int /\ Factor(w, x) \in Int /\ Factor(one, x) \in Int
    BY <1>2, <1>3, <1>4
  <2>2. Factor(w, x) = Factor(one, x) + SumFunctionOnSet(q, K)
    BY DEF MadeOf
  <2>3. \A k \in K : q[k] \in Int /\ e[k] = n * q[k]
    <3>1. ASSUME NEW k \in K
          PROVE  /\ AccountWeight(k) * Factor(V[k], x) \in Int
                 /\ r[k] * h[k][c] = n * (AccountWeight(k) * Factor(V[k], x))
      <4>1. AccountWeight(k) \in Int /\ Factor(V[k], x) \in Int
        BY <1>3, <1>4
      <4>2. r[k] = AccountWeight(k) /\ h[k][c] = n * Factor(V[k], x)
        BY <1>5
      <4>3. \A i, j, l \in Int : i * (j * l) = j * (i * l) /\ i * l \in Int
        OBVIOUS
      <4> HIDE DEF n, x
      <4> QED BY <2>1, <4>1, <4>2, <4>3
    <3> QED BY <3>1
  <2>4. f[c] = n * Factor(w, x) /\ g[c] = n * Factor(one, x)
    BY <1>5
  <2> HIDE DEF x, q, e, n
  <2>5. SumFunctionOnSet(e, K) = n * SumFunctionOnSet(q, K)
    BY <1>3, <2>1, <2>3, SumScaled
  <2>6. SumFunctionOnSet(q, K) \in Int
    BY <1>3, <2>3, SumIsInteger
  <2>7. \A i, j, l \in Int : i * (j + l) = i * j + i * l
    OBVIOUS
  <2>8. f[c] = g[c] + SumFunctionOnSet(e, K)
    BY <2>1, <2>2, <2>4, <2>5, <2>6, <2>7
  <2> QED BY <2>8 DEF e
<1>11. Parts(f, g, r, h, S, K)
  BY <1>5, <1>8, <1>9, <1>10 DEF Parts
<1>12. SumFunctionOnSet(f, S)
         = SumFunctionOnSet(g, S) + SumFunctionOnSet([k \in K |-> r[k] * SumFunctionOnSet(h[k], S)], K)
  BY <1>3, <1>7, <1>11, SumOfParts
<1>13. [k \in K |-> r[k] * SumFunctionOnSet(h[k], S)] = [k \in K |-> AccountWeight(k) * MonthSum(pov, V[k], m)]
  BY <1>5, <1>9
<1> QED BY <1>7, <1>8, <1>12, <1>13

\* ... and whole queries.
LEMMA ReadMadeOf ==
  ASSUME Readable, NEW w, NEW one, NEW K, NEW V, MadeOf(w, one, K, V), NEW pov,
         NEW n \in Nat, DOMAIN MonthsRead(pov) = 1 .. n
  PROVE  Read(pov, w) = Read(pov, one) + SumFunctionOnSet([k \in K |-> AccountWeight(k) * Read(pov, V[k])], K)
<1> DEFINE M    == MonthsRead(pov)
           S    == 1 .. n
           f    == [i \in S |-> MonthSum(pov, w, M[i])]
           g    == [i \in S |-> MonthSum(pov, one, M[i])]
           h    == [k \in K |-> [i \in S |-> MonthSum(pov, V[k], M[i])]]
           r    == [k \in K |-> AccountWeight(k)]
<1>1. /\ IsFiniteSet(K) /\ Weighs(w) /\ Weighs(one)
      /\ \A k \in K : AccountWeight(k) \in Int /\ Weighs(V[k])
  BY DEF MadeOf
<1>2. IsFiniteSet(S)
  BY FS_Interval
<1>3. /\ \A i \in S : f[i] = MonthSum(pov, w, M[i])
      /\ \A i \in S : g[i] = MonthSum(pov, one, M[i])
      /\ \A k \in K : \A i \in S : h[k][i] = MonthSum(pov, V[k], M[i])
      /\ \A k \in K : r[k] = AccountWeight(k) /\ r[k] \in Int
  BY <1>1
<1>4. \A v, p : (\A i \in S : p[i] = MonthSum(pov, v, M[i])) => Read(pov, v) = SumFunctionOnSet(p, S)
  <2>1. ASSUME NEW v, NEW p, \A i \in S : p[i] = MonthSum(pov, v, M[i])
        PROVE  Read(pov, v) = SumFunctionOnSet(p, S)
    <3>1. \A i \in 1 .. n : p[i] = MonthSum(pov, v, MonthsRead(pov)[i])
      BY <2>1
    <3> QED BY <3>1, ReadIsSum
  <2> QED BY <2>1
<1> HIDE DEF f, g, h, r, S, M
<1>5. /\ Read(pov, w) = SumFunctionOnSet(f, S) /\ Read(pov, one) = SumFunctionOnSet(g, S)
      /\ \A k \in K : Read(pov, V[k]) = SumFunctionOnSet(h[k], S)
  BY <1>3, <1>4
<1>6. \A i \in S : g[i] \in Int
  BY <1>1, <1>3, MonthIsWhole
<1>7. \A k \in K : \A i \in S : h[k][i] \in Int
  BY <1>1, <1>3, MonthIsWhole
<1>8. ASSUME NEW i \in S
      PROVE  f[i] = g[i] + SumFunctionOnSet([k \in K |-> r[k] * h[k][i]], K)
  <2>1. MonthSum(pov, w, M[i])
          = MonthSum(pov, one, M[i])
              + SumFunctionOnSet([k \in K |-> AccountWeight(k) * MonthSum(pov, V[k], M[i])], K)
    BY MonthMadeOf
  <2>2. [k \in K |-> r[k] * h[k][i]] = [k \in K |-> AccountWeight(k) * MonthSum(pov, V[k], M[i])]
    BY <1>3
  <2> QED BY <1>3, <2>1, <2>2
<1>9. Parts(f, g, r, h, S, K)
  BY <1>3, <1>6, <1>7, <1>8 DEF Parts
<1>10. SumFunctionOnSet(f, S)
         = SumFunctionOnSet(g, S) + SumFunctionOnSet([k \in K |-> r[k] * SumFunctionOnSet(h[k], S)], K)
  BY <1>1, <1>2, <1>9, SumOfParts
<1>11. [k \in K |-> r[k] * SumFunctionOnSet(h[k], S)] = [k \in K |-> AccountWeight(k) * Read(pov, V[k])]
  BY <1>3, <1>5
<1> QED BY <1>5, <1>10, <1>11

LEMMA AtAccount ==
  ASSUME NEW pov \in Points, NEW k
  PROVE  LET p == At(pov, "account", k)
         IN  p.time = pov.time /\ p.view = pov.view /\ p.account = k /\ SameCells(p, pov)
<1>1. DOMAIN pov = {"entity", "account", "scenario", "time", "view", "stage", "origin", "ic"}
  BY PointsAssumption DEF AxisDims
<1> QED BY <1>1 DEF At, SameCells

\* Some months are read, or none.
LEMMA MonthsAreCounted ==
  ASSUME NEW pov
  PROVE  \E n \in Nat : DOMAIN MonthsRead(pov) = 1 .. n
<1>1. CASE pov.time \in TimeMembers(Years)
  <2> DEFINE lo == FromMonth(pov.time, Balance(pov.account), pov.view)
  <2>1. lo \in 1 .. 12 /\ LastMonth(pov.time) \in lo .. 12
        /\ DOMAIN MonthsRead(pov) = 1 .. LastMonth(pov.time) - lo + 1
    BY <1>1, MonthsReadFacts
  <2> HIDE DEF lo
  <2>2. LastMonth(pov.time) - lo + 1 \in Nat
    BY <2>1
  <2> QED BY <2>1, <2>2
<1>2. CASE pov.time \notin TimeMembers(Years)
  <2>1. MonthsRead(pov) = <<>>
    BY <1>2 DEF MonthsRead, MonthsUnder
  <2>2. DOMAIN MonthsRead(pov) = 1 .. 0
    BY <2>1
  <2> QED BY <2>2
<1> QED BY <1>1, <1>2

\* A member is the weighted sum of its children, and of its own cells, where
\* all of them read the same months.
LEMMA ParentAdds ==
  ASSUME Readable, AccountTree(acc), NEW pov, pov.account \in Accounts,
         ({pov.account} \cup Children(acc, pov.account)) \cap DynamicAccounts = {},
         \A k \in Children(acc, pov.account) :
           LET p == At(pov, "account", k)
           IN  p.account = k /\ SameCells(p, pov) /\ MonthsRead(p) = MonthsRead(pov)
  PROVE  GetCell(pov) = Read(pov, [x \in {pov.account} |-> 1])
           + SumFunction([k \in Children(acc, pov.account) |->
                            AccountWeight(k) * GetCell(At(pov, "account", k))])
<1> DEFINE a   == pov.account
           K   == Children(acc, a)
           one == [x \in {a} |-> 1]
           V   == [k \in K |-> MemberWeights(acc, k)]
           w   == MemberWeights(acc, a)
<1>1. a \in Accounts /\ a # NoParent
  BY DEF AccountTree
<1>2. MadeOf(w, one, K, V)
  <2>1. K \subseteq DOMAIN acc
    BY DEF Children
  <2>2. IsFiniteSet(K) /\ \A k \in K : AccountWeight(k) \in Int
    <3> HIDE DEF K
    <3> QED BY <2>1, FS_Subset, FactorsAssumption DEF AccountTree
  <2>3. Weighs(one)
    BY DEF Weighs
  <2>4. \A k : Weighs(MemberWeights(acc, k))
    BY WeightsWeigh
  <2>5. ASSUME NEW x
        PROVE  Factor(w, x) = Factor(one, x)
                 + SumFunctionOnSet([k \in K |-> AccountWeight(k) * Factor(V[k], x)], K)
    <3>1. Factor(w, x) = Factor(one, x)
            + SumFunctionOnSet([k \in K |-> AccountWeight(k) * Factor(MemberWeights(acc, k), x)], K)
      BY <1>1, FactorUnfolds
    <3>2. [k \in K |-> AccountWeight(k) * Factor(MemberWeights(acc, k), x)]
            = [k \in K |-> AccountWeight(k) * Factor(V[k], x)]
      OBVIOUS
    <3> QED BY <3>1, <3>2
  <2>6. \A k \in K : Weighs(V[k])
    BY <2>4
  <2> HIDE DEF w, one, K, V
  <2> QED BY <2>2, <2>3, <2>4, <2>5, <2>6 DEF MadeOf, w
<1>3. ASSUME NEW k \in K
      PROVE  GetCell(At(pov, "account", k)) = Read(pov, V[k])
  <2> DEFINE p == At(pov, "account", k)
  <2>1. p.account = k /\ SameCells(p, pov) /\ MonthsRead(p) = MonthsRead(pov)
    OBVIOUS
  <2>2. k \notin DynamicAccounts
    OBVIOUS
  <2> HIDE DEF p
  <2>3. MonthsRead(p) = MonthsRead(pov)
    BY <2>1
  <2>4. PICK n \in Nat : DOMAIN MonthsRead(pov) = 1 .. n
    BY MonthsAreCounted
  <2> DEFINE f == [i \in 1 .. n |-> MonthSum(pov, V[k], MonthsRead(pov)[i])]
  <2>5. \A i \in 1 .. n : f[i] = MonthSum(pov, V[k], MonthsRead(pov)[i])
    OBVIOUS
  <2>6. \A i \in 1 .. n : f[i] = MonthSum(p, V[k], MonthsRead(p)[i])
    <3>1. \A v, m : MonthSum(p, v, m) = MonthSum(pov, v, m)
      BY <2>1, MonthSumReads
    <3> HIDE DEF f
    <3> QED BY <2>3, <2>5, <3>1
  <2>7. DOMAIN MonthsRead(p) = 1 .. n
    BY <2>3, <2>4
  <2> HIDE DEF f
  <2>8. Read(pov, V[k]) = SumFunctionOnSet(f, 1 .. n)
    BY <2>4, <2>5, ReadIsSum
  <2>9. Read(p, V[k]) = SumFunctionOnSet(f, 1 .. n)
    BY <2>6, <2>7, ReadIsSum
  <2>10. GetCell(p) = Read(p, V[k])
    BY <2>1, <2>2 DEF GetCell, StoredCell
  <2> QED BY <2>8, <2>9, <2>10 DEF p
<1>4. Read(pov, w) = Read(pov, one) + SumFunctionOnSet([k \in K |-> AccountWeight(k) * Read(pov, V[k])], K)
  <2>1. PICK n \in Nat : DOMAIN MonthsRead(pov) = 1 .. n
    BY MonthsAreCounted
  <2> HIDE DEF w, one, K, V
  <2> QED BY <1>2, <2>1, ReadMadeOf
<1> DEFINE G == [k \in K |-> AccountWeight(k) * GetCell(At(pov, "account", k))]
<1>5. G = [k \in K |-> AccountWeight(k) * Read(pov, V[k])]
  BY <1>3
<1>6. SumFunction(G) = SumFunctionOnSet(G, K)
  <2>1. DOMAIN G = K
    OBVIOUS
  <2> HIDE DEF G
  <2> QED BY <2>1 DEF SumFunction
<1>7. GetCell(pov) = Read(pov, w)
  BY DEF GetCell, StoredCell
<1>8. GetCell(pov) = Read(pov, one) + SumFunction(G)
  <2> HIDE DEF G, w, one
  <2> QED BY <1>4, <1>5, <1>6, <1>7
<1> QED BY <1>8

\* A month of a period, under either view.
LEMMA MonthIsRead ==
  ASSUME NEW pov, NEW m \in Range(MonthsRead(pov))
  PROVE  m \in TimeMembers(Years) /\ m.part = "M"
<1>1. pov.time \in TimeMembers(Years)
  <2>1. CASE pov.time \notin TimeMembers(Years)
    <3>1. MonthsRead(pov) = <<>>
      BY <2>1 DEF MonthsRead, MonthsUnder
    <3>2. Range(MonthsRead(pov)) = {}
      BY <3>1 DEF Range
    <3> QED BY <3>2
  <2> QED BY <2>1
<1> DEFINE x  == pov.time
           lo == FromMonth(x, Balance(pov.account), pov.view)
           hi == LastMonth(x)
<1>2. /\ lo \in 1 .. 12 /\ hi \in lo .. 12 /\ DOMAIN MonthsRead(pov) = 1 .. hi - lo + 1
      /\ \A i \in 1 .. hi - lo + 1 : MonthsRead(pov)[i] = Month(x.year, lo - 1 + i)
  BY <1>1, MonthsReadFacts
<1>3. x.year \in Years
  BY <1>1, TimeMemberShape
<1> HIDE DEF x, lo, hi
<1>4. PICK i \in 1 .. hi - lo + 1 : m = Month(x.year, lo - 1 + i)
  BY <1>2 DEF Range
<1>5. lo - 1 + i \in 1 .. 12
  BY <1>2, <1>4
<1> QED BY <1>3, <1>4, <1>5 DEF TimeMembers, Month

\* A month has no other months, whatever the account.
LEMMA MonthAlone ==
  ASSUME NEW p, NEW q, p.time = q.time, p.time \in TimeMembers(Years), p.time.part = "M",
         p.view = "Periodic", q.view = "Periodic"
  PROVE  MonthsRead(q) = MonthsRead(p)
<1>1. MonthsUnder(Years, p.time) = <<p.time>> /\ MonthsUnder(Years, q.time) = <<p.time>>
  BY DEF MonthsUnder
<1>2. Last(<<p.time>>) = p.time
  BY DEF Last
<1> QED BY <1>1, <1>2 DEF MonthsRead

LEMMA ParentsAgree ==
  ASSUME Readable, AccountTree(acc)
  PROVE  ParentIsWeightedSum
<1> DEFINE Adds(p, a) == GetCell(p) = Read(p, [x \in {a} |-> 1])
                           + SumFunction([k \in Children(acc, a) |->
                                            AccountWeight(k) * GetCell(At(p, "account", k))])
<1>1. SUFFICES ASSUME NEW pov \in Points,
                      ({pov.account} \cup Children(acc, pov.account)) \cap DynamicAccounts = {}
               PROVE  /\ \A m \in Range(MonthsRead(pov)) :
                           Adds(At(At(pov, "time", m), "view", "Periodic"), pov.account)
                      /\ (\A k \in Children(acc, pov.account) : Balance(k) = Balance(pov.account))
                           => Adds(pov, pov.account)
  BY DEF ParentIsWeightedSum
<1> DEFINE a == pov.account
           K == Children(acc, a)
<1>2. a \in Accounts
  BY PointsAssumption DEF AxisDims
<1>3. ASSUME NEW m \in Range(MonthsRead(pov))
      PROVE  Adds(At(At(pov, "time", m), "view", "Periodic"), a)
  <2> DEFINE p == At(At(pov, "time", m), "view", "Periodic")
  <2>1. p.time = m /\ p.view = "Periodic" /\ p.account = a
    BY AtTimeAndView
  <2>2. m \in TimeMembers(Years) /\ m.part = "M"
    BY MonthIsRead
  <2>3. ASSUME NEW k \in K
        PROVE  LET q == At(p, "account", k)
               IN  q.account = k /\ SameCells(q, p) /\ MonthsRead(q) = MonthsRead(p)
    <3> DEFINE q == At(p, "account", k)
    <3>1. q.time = m /\ q.view = "Periodic" /\ q.account = k /\ SameCells(q, p)
      BY AtAccountToo
    <3> HIDE DEF p, q
    <3>2. MonthsRead(q) = MonthsRead(p)
      BY <2>1, <2>2, <3>1, MonthAlone
    <3> QED BY <3>1, <3>2 DEF q
  <2> HIDE DEF p
  <2>4. Adds(p, p.account)
    BY <1>1, <1>2, <2>1, <2>3, ParentAdds
  <2> QED BY <2>1, <2>4 DEF p
<1>4. ASSUME \A k \in K : Balance(k) = Balance(a)
      PROVE  Adds(pov, a)
  <2>1. ASSUME NEW k \in K
        PROVE  LET q == At(pov, "account", k)
               IN  q.account = k /\ SameCells(q, pov) /\ MonthsRead(q) = MonthsRead(pov)
    <3> DEFINE q == At(pov, "account", k)
    <3>1. q.time = pov.time /\ q.view = pov.view /\ q.account = k /\ SameCells(q, pov)
      BY AtAccount
    <3>2. Balance(k) = Balance(a)
      BY <1>4
    <3> HIDE DEF q
    <3>3. MonthsRead(q) = MonthsRead(pov)
      BY <3>1, <3>2 DEF MonthsRead, Balance
    <3> QED BY <3>1, <3>3 DEF q
  <2> QED BY <1>1, <1>2, <2>1, ParentAdds
<1> QED BY <1>3, <1>4

-----------------------------------------------------------------------------
(* Queries: stored formulas.                                               *)

\* The local cell of an account, at an entity and a partner, in a month.
Local(s, e, i, a, o) == [entity |-> e, scenario |-> s[1], time |-> s[2], stage |-> "Local",
                         view |-> "Periodic", account |-> a, origin |-> o, ic |-> i]

LEMMA LocalQuery ==
  ASSUME Readable, AccountTree(acc), NEW s \in Slices, NEW e \in Entities, NEW i, NEW a, NEW o,
         a \notin DynamicAccounts
  PROVE  GetCell(Local(s, e, i, a, o))
           = SumCells(Local(s, e, i, a, o), MemberWeights(acc, a), units[s][e]["Input"])
<1> DEFINE p == Local(s, e, i, a, o)
           w == MemberWeights(acc, a)
<1>1. /\ p.entity = e /\ p.scenario = s[1] /\ p.time = s[2] /\ p.stage = "Local"
      /\ p.view = "Periodic" /\ p.account = a
  BY DEF Local
<1> HIDE DEF p, w
<1>2. s = <<s[1], s[2]>> /\ p.time \in TimeMembers(Years) /\ p.time.part = "M"
  BY <1>1, PointsAssumption DEF IsMonth, AxisDims
<1>3. p.time = Month(p.time.year, p.time.n) /\ p.time.n \in 1 .. 12
  BY <1>2, TimeMemberShape
<1>4. FromMonth(p.time, Balance(p.account), p.view) = p.time.n /\ LastMonth(p.time) = p.time.n
  BY <1>1, <1>2 DEF FromMonth, FirstMonth, LastMonth
<1>5. DOMAIN MonthsRead(p) = 1 .. 1 /\ MonthsRead(p)[1] = p.time
  <2> DEFINE n == p.time.n
             y == p.time.year
  <2>1. /\ DOMAIN MonthsRead(p) = 1 .. n - n + 1
        /\ \A k \in 1 .. n - n + 1 : MonthsRead(p)[k] = Month(y, n - 1 + k)
    <3> DEFINE x  == p.time
               lo == FromMonth(x, Balance(p.account), p.view)
    <3>1. /\ DOMAIN MonthsRead(p) = 1 .. LastMonth(x) - lo + 1
          /\ \A k \in 1 .. LastMonth(x) - lo + 1 : MonthsRead(p)[k] = Month(x.year, lo - 1 + k)
      BY <1>2, MonthsReadFacts
    <3>2. lo = n /\ LastMonth(x) = n /\ x.year = y
      BY <1>4
    <3> HIDE DEF lo, x, n, y
    <3> QED BY <3>1, <3>2
  <2>2. n - n + 1 = 1 /\ n - 1 + 1 = n /\ 1 \in 1 .. 1
    BY <1>3
  <2>3. MonthsRead(p)[1] = Month(y, n)
    BY <2>1, <2>2
  <2> QED BY <1>3, <2>1, <2>2, <2>3
<1>6. Weighs(w)
  BY WeightsWeigh DEF w
<1> DEFINE f == [k \in 1 .. 1 |-> MonthSum(p, w, MonthsRead(p)[k])]
<1>7. f[1] = MonthSum(p, w, p.time) /\ f[1] \in Int
  <2>1. f[1] = MonthSum(p, w, MonthsRead(p)[1])
    OBVIOUS
  <2> HIDE DEF f
  <2> QED BY <1>5, <1>6, <2>1, MonthIsWhole
<1>8. \A k \in 1 .. 1 : f[k] = MonthSum(p, w, MonthsRead(p)[k])
  OBVIOUS
<1> HIDE DEF f
<1>9. Read(p, w) = SumFunctionOnSet(f, 1 .. 1)
  <2> DEFINE n == 1
  <2>1. /\ n \in Nat /\ DOMAIN MonthsRead(p) = 1 .. n
        /\ \A k \in 1 .. n : f[k] = MonthSum(p, w, MonthsRead(p)[k])
    BY <1>5, <1>8
  <2> HIDE DEF n
  <2>2. Read(p, w) = SumFunctionOnSet(f, 1 .. n)
    BY <2>1, ReadIsSum
  <2> QED BY <2>2 DEF n
<1>10. SumFunctionOnSet(f, 1 .. 1) = f[1]
  <2>1. 1 .. 1 = {1}
    OBVIOUS
  <2> QED BY <1>7, <2>1, SumOfOne
<1>11. CellsAt(p, p.time) = units[s][e]["Input"]
  <2>1. UnitAt(p.entity, p.scenario, p.time) = units[s][e]
    BY <1>1, <1>2 DEF UnitAt
  <2> QED BY <1>1, <2>1 DEF CellsAt, StageCells
<1>12. GetCell(p) = Read(p, w)
  BY <1>1 DEF GetCell, StoredCell, w
<1>13. GetCell(p) = SumCells(p, w, units[s][e]["Input"])
  BY <1>7, <1>9, <1>10, <1>11, <1>12 DEF MonthSum
<1> QED BY <1>13 DEF p, w

\* Every cell has a coordinate.
Coordinated == \A s \in Slices, e \in Entities, st \in Stages : DOMAIN units[s][e][st] \subseteq Coords

\* A query of a leaf at origin Calc answers with its one Calc cell.
LEMMA CalcQuery ==
  ASSUME Readable, Coordinated, AccountTree(acc), NEW s \in Slices, NEW e \in Entities, NEW i, i # NoParent,
         NEW t, IsLeaf(acc, t), t \notin DynamicAccounts
  PROVE  GetCell(Local(s, e, i, t, "Calc")) = Val(units[s][e]["Input"], CalcCell(t, i))
<1> DEFINE p     == Local(s, e, i, t, "Calc")
           w     == MemberWeights(acc, t)
           input == units[s][e]["Input"]
           M     == Matching(p, input)
           f     == [c \in M |-> input[c] * Factor(w, c.acct)]
           x     == CalcCell(t, i)
<1>1. DOMAIN w = {t} /\ w[t] = 1
  <2>1. Subtree(acc, t) = {t}
    BY LeafAlone DEF AccountTree
  <2>2. Way(acc, t, t) = {} /\ WayWeight({}) = 1
    BY FS_EmptySet, WayFacts DEF Way
  <2>3. DOMAIN w = {t} \cup Subtree(acc, t) /\ \A y \in {t} \cup Subtree(acc, t) : w[y] = WayWeight(Way(acc, y, t))
    BY WeightsAreWays
  <2> QED BY <2>1, <2>2, <2>3
<1>2. Weighs(w)
  BY WeightsWeigh
<1>3. IsFiniteSet(DOMAIN input) /\ Whole(input) /\ DOMAIN input \subseteq Coords
  BY DEF Readable, Coordinated, Stages
<1>4. GetCell(p) = SumCells(p, w, input)
  BY LocalQuery
<1>5. ASSUME NEW c \in DOMAIN input
      PROVE  c \in M <=> c.origin = "Calc" /\ c.ic = i
  <2>1. p.origin = "Calc" /\ p.ic = i
    BY DEF Local
  <2> HIDE DEF p, input
  <2> QED BY <1>5, <2>1 DEF Matching, Matches, NoParent
<1>6. ASSUME NEW c \in Coords
      PROVE  c = x <=> c.acct = t /\ c.origin = "Calc" /\ c.ic = i
  <2>1. c = [acct |-> c.acct, origin |-> c.origin, ic |-> c.ic]
    BY DEF Coords
  <2> QED BY <2>1 DEF CalcCell
<1>7. M \subseteq DOMAIN input
  BY DEF Matching
<1>8. \A c \in M : f[c] = input[c] * Factor(w, c.acct)
  OBVIOUS
<1>9. x.acct = t /\ x.origin = "Calc" /\ x.ic = i
  BY DEF CalcCell
<1> HIDE DEF p, w, input, f, x, M
<1>10. /\ IsFiniteSet(M) /\ \A c \in M : f[c] \in Int
       /\ SumCells(p, w, input) = SumFunctionOnSet(f, M)
  <2>1. \A c \in Matching(p, input) : f[c] = input[c] * Factor(w, c.acct)
    BY <1>8 DEF M
  <2>2. /\ IsFiniteSet(Matching(p, input)) /\ \A c \in Matching(p, input) : f[c] \in Int
        /\ SumCells(p, w, input) = SumFunctionOnSet(f, Matching(p, input))
    BY <1>2, <1>3, <2>1, CellSum
  <2> QED BY <2>2 DEF M
<1>11. \A c \in M \ (M \cap {x}) : f[c] = 0
  <2>1. ASSUME NEW c \in M, c # x
        PROVE  input[c] * Factor(w, c.acct) = 0
    <3>1. c \in DOMAIN input /\ c \in Coords /\ input[c] \in Int
      BY <1>3, <1>7 DEF Whole
    <3>2. c.acct # t
      BY <1>5, <1>6, <2>1, <3>1
    <3>3. Factor(w, c.acct) = 0
      BY <1>1, <3>2 DEF Factor
    <3>4. \A n \in Int : n * 0 = 0
      OBVIOUS
    <3> QED BY <3>1, <3>3, <3>4
  <2> QED BY <1>8, <2>1
<1>12. SumFunctionOnSet(f, M) = SumFunctionOnSet(f, M \cap {x})
  <2>1. M \cap {x} \in SUBSET M
    OBVIOUS
  <2> QED BY <1>10, <1>11, <2>1, SumOfNonzero
<1>13. CASE x \in DOMAIN input
  <2>1. x \in M /\ M \cap {x} = {x}
    BY <1>5, <1>9, <1>13
  <2>2. f[x] = input[x]
    <3>1. Factor(w, x.acct) = 1 /\ input[x] \in Int
      BY <1>1, <1>3, <1>9, <1>13 DEF Factor, Whole
    <3>2. \A n \in Int : n * 1 = n
      OBVIOUS
    <3>3. f[x] = input[x] * Factor(w, x.acct)
      BY <1>8, <2>1
    <3> QED BY <3>1, <3>2, <3>3
  <2>3. SumFunctionOnSet(f, {x}) = f[x]
    BY <1>10, <2>1, SumOfOne
  <2>4. Val(input, x) = input[x]
    BY <1>13 DEF Val
  <2>5. GetCell(p) = Val(input, x)
    BY <1>4, <1>10, <1>12, <2>1, <2>2, <2>3, <2>4
  <2> QED BY <2>5 DEF p, input, x
<1>14. CASE x \notin DOMAIN input
  <2>1. M \cap {x} = {}
    BY <1>7, <1>14
  <2>2. Val(input, x) = 0
    BY <1>14 DEF Val
  <2>3. GetCell(p) = Val(input, x)
    BY <1>4, <1>10, <1>12, <2>1, <2>2, EmptySum
  <2> QED BY <2>3 DEF p, input, x
<1> QED BY <1>13, <1>14

\* A local query at every origin answers with the rollup a formula reads.
LEMMA RollupQuery ==
  ASSUME Readable, AccountTree(acc), NEW s \in Slices, NEW e \in Entities, NEW i, i # NoParent, NEW r,
         r \notin DynamicAccounts
  PROVE  GetCell(Local(s, e, i, r, "")) = Rollup(MetaAt(s), units[s][e]["Input"], r, i)
<1> DEFINE p     == Local(s, e, i, r, "")
           w     == MemberWeights(acc, r)
           input == units[s][e]["Input"]
           meta  == MetaAt(s)
           S     == {x \in DOMAIN input : Matches(p, x) /\ x.acct \in DOMAIN w}
           T     == {x \in DOMAIN input : x.ic = i /\ x.acct \in Below(meta, r)}
<1>1. GetCell(p) = SumCells(p, w, input)
  BY LocalQuery
<1>2. SumCells(p, w, input) = SumFunction([c \in S |-> input[c] * w[c.acct]])
  BY DEF SumCells
<1>3. Rollup(meta, input, r, i) = SumFunction([c \in T |-> input[c] * PathWeight(meta, r, c.acct)])
  BY DEF Rollup
<1>4. meta.acc = acc
  BY DEF MetaAt
<1>5. p.origin = "" /\ p.ic = i
  BY DEF Local
<1>6. /\ DOMAIN w = {r} \cup Subtree(acc, r)
      /\ \A y \in {r} \cup Subtree(acc, r) : w[y] = WayWeight(Way(acc, y, r))
  BY WeightsAreWays
<1> HIDE DEF p, w, input, meta
<1>7. S = T
  BY <1>4, <1>5, <1>6 DEF Matches, Below, NoParent
<1>8. \A b : PathWeight(meta, r, b) = WayWeight(Way(acc, b, r))
  BY <1>4 DEF PathWeight, WayWeight, Way
<1>9. \A c \in S : w[c.acct] = PathWeight(meta, r, c.acct)
  BY <1>6, <1>8
<1>10. [c \in S |-> input[c] * w[c.acct]] = [c \in T |-> input[c] * PathWeight(meta, r, c.acct)]
  <2> HIDE DEF S, T
  <2> QED BY <1>7, <1>9
<1>11. GetCell(p) = Rollup(meta, input, r, i)
  BY <1>1, <1>2, <1>3, <1>10
<1> QED BY <1>11 DEF p, input, meta

\* Stored formulas read back as queries compute them.
LEMMA FormulasReadBack ==
  ASSUME Readable, Coordinated, AccountTree(acc), CalcConsistent,
         DOMAIN ent \subseteq Entities, NoParent \notin Entities
  PROVE  StoredFormulaQueried
<1> SUFFICES ASSUME NEW s \in Slices, InSync(s),
                    NEW t \in DOMAIN StoredFormulas, DynamicRefs(t) = {},
                    NEW e \in DOMAIN ent, NEW i \in {None} \cup DOMAIN ent
             PROVE  LET f == StoredFormulas[t]
                        local(a, o) == GetCell(Local(s, e, i, a, o))
                    IN  local(t, "Calc") =
                          IF i \in Tuples(MetaAt(s), units[s][e]["Input"], f)
                          THEN Writable(f.const + SumFunction([r \in Refs(f) |-> f.coef[r] * local(r, "")]))
                          ELSE 0
  BY DEF StoredFormulaQueried, Local
<1> DEFINE f     == StoredFormulas[t]
           meta  == MetaAt(s)
           input == units[s][e]["Input"]
<1>1. e \in Entities /\ i \in Entities \cup {None} /\ i # NoParent
  BY DEF NoParent, None
<1>2. meta.formulas = StoredFormulas /\ meta.acc = acc
  BY DEF MetaAt
<1>3. ~ProcessFails(meta) /\ Processed(s)[e]["Input"] = input
  BY DEF InSync
<1>4. IsLeaf(acc, t)
  <2>1. t \in DOMAIN meta.formulas
    BY <1>2
  <2> HIDE DEF meta
  <2> QED BY <1>2, <1>3, <2>1 DEF ProcessFails
<1>5. GetCell(Local(s, e, i, t, "Calc")) = Val(input, CalcCell(t, i))
  <2>1. t \notin DynamicAccounts
    BY DEF StoredFormulas, StoredFormula, DynamicAccounts
  <2> QED BY <1>1, <1>4, <2>1, CalcQuery
<1>6. Val(input, CalcCell(t, i)) = IF i \in Tuples(meta, input, f)
                                   THEN Writable(EvalFormula(meta, input, f, i)) ELSE 0
  <2>1. t \in DOMAIN MetaAt(s).formulas /\ MetaAt(s).formulas[t] = f
    BY <1>2
  <2> HIDE DEF meta, input, f
  <2>2. Val(Processed(s)[e]["Input"], [acct |-> t, origin |-> "Calc", ic |-> i])
          = IF i \in Tuples(MetaAt(s), Processed(s)[e]["Input"], MetaAt(s).formulas[t])
            THEN Writable(EvalFormula(MetaAt(s), Processed(s)[e]["Input"], MetaAt(s).formulas[t], i)) ELSE 0
    BY <1>1, <1>3, <2>1 DEF CalcConsistent, meta
  <2> QED BY <1>3, <2>1, <2>2 DEF CalcCell, meta
<1>7. \A r \in Refs(f) : GetCell(Local(s, e, i, r, "")) = Rollup(meta, input, r, i)
  <2>1. f = expr[t]
    BY DEF StoredFormulas
  <2>2. \A r \in Refs(f) : r \notin DynamicAccounts
    BY <2>1 DEF DynamicRefs
  <2> QED BY <1>1, <2>2, RollupQuery
<1> HIDE DEF f, meta, input
<1>8. [r \in Refs(f) |-> f.coef[r] * GetCell(Local(s, e, i, r, ""))]
        = [r \in Refs(f) |-> f.coef[r] * Rollup(meta, input, r, i)]
  BY <1>7
<1>9. EvalFormula(meta, input, f, i)
        = f.const + SumFunction([r \in Refs(f) |-> f.coef[r] * GetCell(Local(s, e, i, r, ""))])
  BY <1>8 DEF EvalFormula
<1>10. GetCell(Local(s, e, i, t, "Calc"))
         = IF i \in Tuples(meta, input, f)
           THEN Writable(f.const + SumFunction([r \in Refs(f) |-> f.coef[r] * GetCell(Local(s, e, i, r, ""))]))
           ELSE 0
  BY <1>5, <1>6, <1>9
<1> QED BY <1>10 DEF f, meta, input

-----------------------------------------------------------------------------
(* Consolidation: the share an entity has in another.                      *)

Product(f) == FoldFunction(LAMBDA x, y : x * y, 1, f)

\* Any factor may be taken first.
LEMMA ProductTakesAny ==
  ASSUME NEW S, IsFiniteSet(S), NEW f, DOMAIN f = S, \A x \in S : f[x] \in Int,
         NEW e \in S, NEW g, DOMAIN g = S \ {e}, \A x \in S \ {e} : g[x] = f[x]
  PROVE  Product(f) = f[e] * Product(g) /\ Product(f) \in Int /\ Product(g) \in Int
<1> DEFINE R == S \ {e}
<1>1. Product(f) = Fold("product", f, S) /\ Product(g) = Fold("product", g, R)
  BY ProductIsFold DEF Product
<1>2. IsFiniteSet(R) /\ (\A x \in R : g[x] \in Int /\ f[x] = g[x])
  BY FS_Subset
<1>3. Fold("product", f, S) = Combine("product", f[e], Fold("product", f, R))
  BY FoldTakesAny
<1> HIDE DEF R
<1>4. Fold("product", f, R) = Fold("product", g, R)
  BY <1>2, FoldOfEqual
<1>5. Fold("product", f, S) \in Int /\ Fold("product", g, R) \in Int
  BY <1>2, FoldIsInteger
<1>6. \A x, y : Combine("product", x, y) = x * y
  BY DEF Combine
<1> QED BY <1>1, <1>3, <1>4, <1>5, <1>6

LEMMA EmptyProduct == ASSUME NEW f, DOMAIN f = {} PROVE Product(f) = 1
<1>1. Product(f) = Fold("product", f, {}) /\ IsFiniteSet({})
  BY ProductIsFold, FS_EmptySet DEF Product
<1>2. Fold("product", f, {}) = Neutral("product")
  BY <1>1, FoldUnfolds
<1> QED BY <1>1, <1>2 DEF Neutral

\* The product of the percentages of the entities of W, and of as many hundreds.
Percents(W) == Product([x \in W |-> OwnershipPct(x)])
Hundreds(W) == Product([x \in W |-> 100])

LEMMA PercentsFacts ==
  ASSUME NEW W, IsFiniteSet(W), W \subseteq Entities, NEW e \in W
  PROVE  /\ Percents(W) = OwnershipPct(e) * Percents(W \ {e})
         /\ Percents(W \ {e}) \in Int
         /\ Hundreds(W) = 100 * Hundreds(W \ {e})
<1> DEFINE f == [x \in W |-> OwnershipPct(x)]
           g == [x \in W \ {e} |-> OwnershipPct(x)]
           h == [x \in W |-> 100]
           k == [x \in W \ {e} |-> 100]
<1>1. /\ DOMAIN f = W /\ (\A x \in W : f[x] \in Int) /\ f[e] = OwnershipPct(e)
      /\ DOMAIN g = W \ {e} /\ (\A x \in W \ {e} : g[x] = f[x])
  BY FactorsAssumption
<1>2. /\ DOMAIN h = W /\ (\A x \in W : h[x] \in Int) /\ h[e] = 100
      /\ DOMAIN k = W \ {e} /\ (\A x \in W \ {e} : k[x] = h[x])
  OBVIOUS
<1>3. Percents(W) = Product(f) /\ Percents(W \ {e}) = Product(g)
      /\ Hundreds(W) = Product(h) /\ Hundreds(W \ {e}) = Product(k)
  BY DEF Percents, Hundreds
<1> HIDE DEF f, g, h, k
<1>4. Product(f) = f[e] * Product(g) /\ Product(f) \in Int /\ Product(g) \in Int
  BY <1>1, ProductTakesAny
<1>5. Product(h) = h[e] * Product(k)
  BY <1>2, ProductTakesAny
<1> QED BY <1>1, <1>2, <1>3, <1>4, <1>5

LEMMA NoPercents == Percents({}) = 1 /\ Hundreds({}) = 1
  BY EmptyProduct DEF Percents, Hundreds

LEMMA HundredsArePositive ==
  ASSUME NEW S, IsFiniteSet(S), S \subseteq Entities
  PROVE  Hundreds(S) \in Nat \ {0}
<1> DEFINE P == {s \in SUBSET S : Hundreds(s) \in Nat \ {0}}
<1>1. {} \in P
  BY NoPercents
<1>2. ASSUME NEW s \in SUBSET S, s # {}, \A x \in s : s \ {x} \in P
      PROVE  s \in P
  <2>1. PICK e \in s : TRUE
    BY <1>2
  <2>2. IsFiniteSet(s) /\ s \subseteq Entities
    BY FS_Subset
  <2>3. Hundreds(s) = 100 * Hundreds(s \ {e})
    BY <2>2, PercentsFacts
  <2>4. Hundreds(s \ {e}) \in Nat \ {0}
    BY <1>2
  <2> QED BY <2>3, <2>4
<1>3. S \in P
  <2> HIDE DEF P
  <2> QED BY <1>1, <1>2, SetInduction
<1> QED BY <1>3

\* An entity tree; a way up it passes the child it ends with.
EntityTree(t) == /\ IsFiniteSet(DOMAIN t) /\ Closed(t) /\ Acyclic(t)
                 /\ DOMAIN t \subseteq Entities /\ NoParent \notin Entities

LEMMA EntityWays ==
  ASSUME NEW t, EntityTree(t), NEW a \in DOMAIN t
  PROVE  /\ \A x : IsFiniteSet(Way(t, x, a)) /\ Way(t, x, a) \subseteq Entities
         /\ Way(t, a, a) = {}
         /\ \A k \in Children(t, a) : \A x \in Subtree(t, k) :
              k \in Way(t, x, a) /\ Way(t, x, k) = Way(t, x, a) \ {k}
<1>1. ASSUME NEW x
      PROVE  IsFiniteSet(Way(t, x, a)) /\ Way(t, x, a) \subseteq Entities
  <2>1. PathToRoot(t, x) \subseteq DOMAIN t
    BY PathStaysInside DEF EntityTree
  <2>2. Way(t, x, a) \subseteq DOMAIN t
    BY <2>1 DEF Way
  <2> QED BY <2>2, FS_Subset DEF EntityTree
<1>2. ASSUME NEW k \in Children(t, a), NEW x \in Subtree(t, k)
      PROVE  k \in Way(t, x, a) /\ Way(t, x, k) = Way(t, x, a) \ {k}
  <2>1. k \in DOMAIN t /\ t[k] = a /\ a # NoParent
    BY DEF Children, EntityTree
  <2>2. PathToRoot(t, k) = {k} \cup PathToRoot(t, a) /\ k \notin PathToRoot(t, a)
    BY <2>1, PathUnfolds DEF EntityTree
  <2>3. k \in PathToRoot(t, x)
    BY DEF Subtree
  <2> QED BY <2>2, <2>3 DEF Way
<1> QED BY <1>1, <1>2 DEF Way

\* What Share folds.
ShareOf(g, W) == g = [s \in SUBSET W |->
                       IF s = {} THEN 100
                       ELSE (OwnershipPct(Some(s)) * g[s \ {Some(s)}]) \div 100]

LEMMA ShareIsFold ==
  ASSUME NEW f, NEW x, IsFiniteSet(Way(ent, x, f)), Way(ent, x, f) \subseteq Entities
  PROVE  Share(f, x) \in Int
<1> DEFINE W == Way(ent, x, f)
           pct == [y \in W |-> OwnershipPct(y)]
           h == CHOOSE g : ShareOf(g, W)
<1>1. Share(f, x) = h[W]
  BY DEF Share, MapThenFoldSet, ShareOf, Some, Way
<1>2. \A y \in W : pct[y] \in Int /\ pct[y] = OwnershipPct(y)
  BY FactorsAssumption
<1>3. IsFiniteSet(W)
  OBVIOUS
<1> HIDE DEF W, pct, h
<1>4. \A g : ShareOf(g, W) <=> FoldsOf("share", g, pct, SUBSET W)
  <2> DEFINE p(g) == [s \in SUBSET W |-> IF s = {} THEN 100
                                         ELSE (OwnershipPct(Some(s)) * g[s \ {Some(s)}]) \div 100]
             q(g) == [s \in SUBSET W |-> IF s = {} THEN Neutral("share")
                                         ELSE Combine("share", pct[Some(s)], g[s \ {Some(s)}])]
  <2>1. Neutral("share") = 100 /\ \A a, b : Combine("share", a, b) = (a * b) \div 100
    BY DEF Neutral, Combine
  <2>2. \A s \in SUBSET W : s # {} => pct[Some(s)] = OwnershipPct(Some(s))
    BY <1>2, SomeIsMember
  <2>3. \A g : \A s \in SUBSET W : p(g)[s] = q(g)[s]
    BY <2>1, <2>2
  <2>4. \A g : p(g) = q(g)
    BY <2>3
  <2> QED BY <2>4 DEF ShareOf, FoldsOf
<1>5. ShareOf(h, W)
  <2>1. \E g : ShareOf(g, W)
    BY <1>3, <1>4, FoldsExist
  <2> QED BY <2>1 DEF h
<1>6. FoldsOf("share", h, pct, SUBSET W)
  BY <1>4, <1>5
<1>7. h[W] = Fold("share", pct, W)
  <2> DEFINE g == CHOOSE z : FoldsOf("share", z, pct, SUBSET W)
  <2>1. FoldsOf("share", g, pct, SUBSET W)
    BY <1>6
  <2>2. Fold("share", pct, W) = g[W]
    BY DEF Fold
  <2> HIDE DEF g
  <2> QED BY <1>3, <1>6, <2>1, <2>2, FoldsUnique
<1>8. Fold("share", pct, W) \in Int
  BY <1>2, <1>3, FoldIsInteger
<1> QED BY <1>1, <1>7, <1>8

\* Shares are the products of the percentages on the way, none of them rounded.
ExactShares ==
  \A f \in DOMAIN ent : \A x \in Subtree(ent, f) :
    Share(f, x) * Hundreds(Way(ent, x, f)) = 100 * Percents(Way(ent, x, f))

\* Then a share is one of the child that leads there.
LEMMA SharesCompose ==
  ASSUME EntityTree(ent), ExactShares, NEW f \in DOMAIN ent
  PROVE  /\ \A x : Share(f, x) \in Int
         /\ Share(f, f) = 100
         /\ \A k \in Children(ent, f) : \A x \in Subtree(ent, k) :
              100 * Share(f, x) = OwnershipPct(k) * Share(k, x)
<1>1. \A x : Share(f, x) \in Int
  BY EntityWays, ShareIsFold
<1>2. Share(f, f) = 100
  <2>1. f \in Subtree(ent, f)
    BY SubtreeParts DEF EntityTree
  <2>2. Share(f, f) * Hundreds({}) = 100 * Percents({})
    BY <2>1, EntityWays DEF ExactShares
  <2> QED BY <1>1, <2>2, NoPercents
<1>3. ASSUME NEW k \in Children(ent, f), NEW x \in Subtree(ent, k)
      PROVE  100 * Share(f, x) = OwnershipPct(k) * Share(k, x)
  <2> DEFINE W == Way(ent, x, f)
             V == Way(ent, x, k)
             s == Share(f, x)
             r == Share(k, x)
             h == Hundreds(V)
             p == Percents(V)
             o == OwnershipPct(k)
  <2>1. k \in DOMAIN ent /\ k \in W /\ V = W \ {k} /\ IsFiniteSet(W) /\ W \subseteq Entities
    BY EntityWays DEF Children
  <2>2. x \in Subtree(ent, f)
    <3>1. f # NoParent
      BY DEF EntityTree
    <3> QED BY <3>1, SubtreeParts DEF EntityTree
  <2>3. Percents(W) = o * p /\ p \in Int /\ Hundreds(W) = 100 * h
    <3> HIDE DEF W, V
    <3>1. /\ Percents(W) = OwnershipPct(k) * Percents(W \ {k})
          /\ Percents(W \ {k}) \in Int /\ Hundreds(W) = 100 * Hundreds(W \ {k})
      BY <2>1, PercentsFacts
    <3> QED BY <2>1, <3>1
  <2>4. h \in Nat \ {0}
    <3>1. IsFiniteSet(V) /\ V \subseteq Entities
      BY <2>1, FS_Subset
    <3> HIDE DEF V
    <3> QED BY <3>1, HundredsArePositive
  <2>5. s * Hundreds(W) = 100 * Percents(W)
    BY <2>2 DEF ExactShares
  <2>6. r * h = 100 * p
    BY <2>1 DEF ExactShares
  <2>7. s \in Int /\ r \in Int /\ o \in Int
    <3>1. s \in Int /\ r \in Int
      BY <1>1, <2>1, EntityWays, ShareIsFold
    <3> QED BY <3>1, <2>1, FactorsAssumption DEF EntityTree
  <2> HIDE DEF W, V, s, r, h, p, o
  <2>8. s * (100 * h) = 100 * (o * p)
    BY <2>3, <2>5
  <2>9. (100 * s) * h = (o * r) * h
    <3>1. (100 * s) * h = s * (100 * h)
      BY <2>4, <2>7
    <3>2. (o * r) * h = o * (r * h)
      BY <2>4, <2>7
    <3>3. o * (100 * p) = 100 * (o * p)
      BY <2>3, <2>7
    <3> QED BY <2>6, <2>8, <3>1, <3>2, <3>3
  <2>10. \A a, b \in Int : a * h = b * h => a = b
    BY <2>4
  <2>11. 100 * s \in Int /\ o * r \in Int
    BY <2>7
  <2>12. 100 * s = o * r
    BY <2>9, <2>10, <2>11
  <2> QED BY <2>12 DEF s, r, o
<1> QED BY <1>1, <1>2, <1>3

\* What every entity has is its own amount and the percentages of what its
\* children have, in hundredths.
Levelled(t, own, val, pct) ==
  \A f \in DOMAIN t :
    /\ own[f] \in Int /\ val[f] \in Int /\ pct[f] \in Int
    /\ 100 * val[f] = 100 * own[f]
                        + SumFunctionOnSet([k \in Children(t, f) |-> pct[k] * val[k]], Children(t, f))

Composed(t, share, pct) ==
  \A f \in DOMAIN t :
    /\ \A x \in Subtree(t, f) : share[f][x] \in Int
    /\ share[f][f] = 100
    /\ \A k \in Children(t, f) : \A x \in Subtree(t, k) : 100 * share[f][x] = pct[k] * share[k][x]

\* Then it has its share of what there is in its subtree.
LEMMA SubtreeShares ==
  ASSUME NEW t, EntityTree(t), NEW own, NEW val, NEW pct, Levelled(t, own, val, pct),
         NEW share, Composed(t, share, pct)
  PROVE  \A f \in DOMAIN t :
           100 * val[f] = SumFunctionOnSet([x \in Subtree(t, f) |-> share[f][x] * own[x]], Subtree(t, f))
<1> DEFINE D == DOMAIN t
           term(f) == [x \in Subtree(t, f) |-> share[f][x] * own[x]]
           Has100(f) == 100 * val[f] = SumFunctionOnSet(term(f), Subtree(t, f))
<1>0. \A a, b \in Int : a * b \in Int
  OBVIOUS
<1>1. ASSUME NEW f \in D, \A k \in Children(t, f) : Has100(k)
      PROVE  Has100(f)
  <2> DEFINE S == Subtree(t, f)
             T == Children(t, f)
             F == [x \in S |-> 100 * term(f)[x]]
             g == [x \in S |-> IF x = f THEN 10000 * own[f] ELSE 0]
             h == [k \in T |-> [x \in S |-> IF x \in Subtree(t, k) THEN share[k][x] * own[x] ELSE 0]]
             v == [k \in T |-> pct[k] * val[k]]
             r == [k \in T |-> pct[k] * SumFunctionOnSet(h[k], S)]
  <2>1. f # NoParent /\ f \in DOMAIN t
    BY DEF EntityTree
  <2>2. /\ f \in S
        /\ \A k \in T : k \in D /\ k # f /\ t[k] = f /\ Subtree(t, k) \subseteq S \ {f}
        /\ \A x \in S \ {f} : \E k \in T : x \in Subtree(t, k)
        /\ \A x, k, l : k \in T /\ l \in T /\ x \in Subtree(t, k) /\ x \in Subtree(t, l) => k = l
    BY <2>1, SubtreeParts DEF EntityTree
  <2>3. S \subseteq D /\ T \subseteq D /\ IsFiniteSet(S) /\ IsFiniteSet(T)
    <3>1. S \subseteq D /\ T \subseteq D
      BY DEF Subtree, Children
    <3> HIDE DEF S, T
    <3> QED BY <3>1, FS_Subset DEF EntityTree
  <2>4. \A x \in S : term(f)[x] \in Int /\ term(f)[x] = share[f][x] * own[x] /\ F[x] = 100 * term(f)[x]
    <3>1. \A x \in S : share[f][x] \in Int /\ own[x] \in Int
      BY <2>1, <2>3 DEF Composed, Levelled
    <3>2. \A x \in S : term(f)[x] = share[f][x] * own[x] /\ F[x] = 100 * term(f)[x]
      OBVIOUS
    <3> HIDE DEF term, F, S
    <3> QED BY <1>0, <3>1, <3>2
  <2>5. \A k \in T : /\ \A x \in S : h[k][x] = IF x \in Subtree(t, k) THEN share[k][x] * own[x] ELSE 0
                     /\ \A x \in Subtree(t, k) : h[k][x] = term(k)[x] /\ term(k)[x] \in Int
    <3> SUFFICES ASSUME NEW k \in T
                 PROVE  /\ \A x \in S : h[k][x] = IF x \in Subtree(t, k) THEN share[k][x] * own[x] ELSE 0
                        /\ \A x \in Subtree(t, k) : h[k][x] = term(k)[x] /\ term(k)[x] \in Int
      OBVIOUS
    <3>1. \A x \in S : h[k][x] = IF x \in Subtree(t, k) THEN share[k][x] * own[x] ELSE 0
      OBVIOUS
    <3>2. \A x \in Subtree(t, k) : term(k)[x] = share[k][x] * own[x]
      OBVIOUS
    <3>3. \A x \in Subtree(t, k) : x \in S /\ share[k][x] \in Int /\ own[x] \in Int
      BY <2>2, <2>3 DEF Composed, Levelled
    <3> HIDE DEF h, term, S, T
    <3> QED BY <1>0, <3>1, <3>2, <3>3
  <2>6. \A k \in T : \A x \in S : h[k][x] \in Int
    <3>1. ASSUME NEW k \in T, NEW x \in S PROVE h[k][x] \in Int
      <4>1. CASE x \in Subtree(t, k)
        BY <2>5, <4>1
      <4>2. CASE x \notin Subtree(t, k)
        BY <2>5, <4>2
      <4> QED BY <4>1, <4>2
    <3> QED BY <3>1
  <2>7. \A x \in S : g[x] \in Int
    <3>1. own[f] \in Int
      BY <2>1 DEF Levelled
    <3>2. 10000 * own[f] \in Int
      BY <1>0, <3>1
    <3> QED BY <3>2
  <2>8. ASSUME NEW x \in S
        PROVE  F[x] = g[x] + SumFunctionOnSet([k \in T |-> pct[k] * h[k][x]], T)
    <3> DEFINE c == [k \in T |-> pct[k] * h[k][x]]
    <3>1. \A k \in T : c[k] \in Int /\ c[k] = pct[k] * h[k][x]
      <4>1. \A k \in T : c[k] = pct[k] * h[k][x]
        OBVIOUS
      <4>2. \A k \in T : pct[k] \in Int /\ h[k][x] \in Int
        BY <2>3, <2>6 DEF Levelled
      <4> HIDE DEF c, h, T
      <4> QED BY <1>0, <4>1, <4>2
    <3>2. CASE x = f
      <4>1. \A k \in T : h[k][x] = 0
        BY <2>2, <2>5, <3>2
      <4>2. \A k \in T \ {} : c[k] = 0
        <5>1. \A k \in T : c[k] = pct[k] * 0 /\ pct[k] \in Int
          BY <2>3, <3>1, <4>1 DEF Levelled
        <5>2. \A a \in Int : a * 0 = 0
          OBVIOUS
        <5> HIDE DEF c, T
        <5> QED BY <5>1, <5>2
      <4> HIDE DEF c
      <4>3. SumFunctionOnSet(c, T) = 0
        <5>1. SumFunctionOnSet(c, T) = SumFunctionOnSet(c, {})
          BY <2>3, <3>1, <4>2, SumOfNonzero
        <5> QED BY <5>1, EmptySum
      <4>4. F[x] = 10000 * own[f] /\ g[x] = 10000 * own[f]
        <5>1. share[f][f] = 100 /\ own[f] \in Int
          BY <2>1 DEF Composed, Levelled
        <5>2. F[x] = 100 * (100 * own[f])
          BY <2>4, <3>2, <5>1
        <5> QED BY <3>2, <5>1, <5>2
      <4>5. own[f] \in Int
        BY <2>1 DEF Levelled
      <4> QED BY <4>3, <4>4, <4>5 DEF c
    <3>3. CASE x # f
      <4>1. PICK k \in T : x \in Subtree(t, k)
        BY <2>2, <3>3
      <4>2. \A l \in T \ {k} : c[l] = 0
        <5>1. ASSUME NEW l \in T \ {k} PROVE c[l] = 0
          <6>1. x \notin Subtree(t, l)
            BY <2>2, <4>1
          <6>2. h[l][x] = 0 /\ pct[l] \in Int
            BY <2>3, <2>5, <6>1 DEF Levelled
          <6> QED BY <3>1, <6>2
        <5> QED BY <5>1
      <4>3. c[k] = pct[k] * (share[k][x] * own[x]) /\ c[k] \in Int
        BY <2>5, <3>1, <4>1
      <4> HIDE DEF c
      <4>4. SumFunctionOnSet(c, T) = c[k]
        <5>1. {k} \in SUBSET T
          OBVIOUS
        <5>2. SumFunctionOnSet(c, T) = SumFunctionOnSet(c, {k})
          BY <2>3, <3>1, <4>2, <5>1, SumOfNonzero
        <5> QED BY <4>3, <5>2, SumOfOne
      <4>5. 100 * share[f][x] = pct[k] * share[k][x]
        BY <2>1, <4>1 DEF Composed
      <4>6. share[f][x] \in Int /\ share[k][x] \in Int /\ pct[k] \in Int /\ own[x] \in Int
        BY <2>1, <2>3, <4>1 DEF Composed, Levelled
      <4>7. F[x] = 100 * (share[f][x] * own[x]) /\ g[x] = 0
        BY <2>4, <3>3
      <4>8. 100 * (share[f][x] * own[x]) = pct[k] * (share[k][x] * own[x])
        <5>1. \A a, b, d, e \in Int : 100 * a = b * d => 100 * (a * e) = b * (d * e)
          <6> TAKE a, b, d, e \in Int
          <6>1. 100 * (a * e) = (100 * a) * e /\ b * (d * e) = (b * d) * e
            OBVIOUS
          <6> QED BY <6>1
        <5> QED BY <4>5, <4>6, <5>1
      <4> QED BY <4>3, <4>4, <4>7, <4>8 DEF c
    <3> QED BY <3>2, <3>3
  <2> HIDE DEF F, g, h, S, T
  <2>9. SumFunctionOnSet(F, S) = SumFunctionOnSet(g, S) + SumFunctionOnSet(r, T)
    <3>1. Parts(F, g, pct, h, S, T)
      BY <2>3, <2>6, <2>7, <2>8 DEF Parts, Levelled
    <3> QED BY <2>3, <3>1, SumOfParts
  <2>10. SumFunctionOnSet(g, S) = 10000 * own[f]
    <3>1. {f} \in SUBSET S /\ g[f] = 10000 * own[f] /\ g[f] \in Int /\ \A x \in S \ {f} : g[x] = 0
      BY <2>2, <2>7 DEF g
    <3>2. SumFunctionOnSet(g, S) = SumFunctionOnSet(g, {f})
      BY <2>3, <2>7, <3>1, SumOfNonzero
    <3> QED BY <3>1, <3>2, SumOfOne
  <2>11. \A k \in T : r[k] = 100 * v[k] /\ v[k] \in Int
    <3>1. ASSUME NEW k \in T
          PROVE  SumFunctionOnSet(h[k], S) = 100 * val[k]
      <4> DEFINE R == Subtree(t, k)
                 q == h[k]
                 z == term(k)
      <4>1. R \in SUBSET S /\ IsFiniteSet(R)
        BY <2>2, <2>3, FS_Subset
      <4>2. (\A x \in S : q[x] \in Int) /\ (\A x \in S \ R : q[x] = 0) /\ \A x \in R : q[x] = z[x]
        BY <2>5, <2>6
      <4>3. 100 * val[k] = SumFunctionOnSet(z, R)
        BY <1>1 DEF T
      <4> HIDE DEF R, q, z
      <4>4. SumFunctionOnSet(q, S) = SumFunctionOnSet(q, R)
        BY <2>3, <4>1, <4>2, SumOfNonzero
      <4>5. SumFunctionOnSet(q, R) = SumFunctionOnSet(z, R)
        BY <4>1, <4>2, SumOfEqual
      <4> QED BY <4>3, <4>4, <4>5 DEF q
    <3>2. \A k \in T : pct[k] \in Int /\ val[k] \in Int
      BY <2>3 DEF Levelled
    <3>3. \A a, b \in Int : a * (100 * b) = 100 * (a * b) /\ a * b \in Int
      OBVIOUS
    <3> QED BY <3>1, <3>2, <3>3
  <2> HIDE DEF r, v
  <2>12. SumFunctionOnSet(r, T) = 100 * SumFunctionOnSet(v, T) /\ SumFunctionOnSet(v, T) \in Int
    BY <2>3, <2>11, SumScaled, SumIsInteger
  <2>13. 100 * val[f] = 100 * own[f] + SumFunctionOnSet(v, T)
    BY <2>1 DEF Levelled, v, T
  <2> DEFINE z == term(f)
  <2> HIDE DEF z
  <2>14. SumFunctionOnSet(F, S) = 100 * SumFunctionOnSet(z, S) /\ SumFunctionOnSet(z, S) \in Int
    <3>1. \A x \in S : z[x] \in Int /\ F[x] = 100 * z[x]
      BY <2>4 DEF z
    <3> QED BY <2>3, <3>1, SumScaled, SumIsInteger
  <2>15. own[f] \in Int /\ val[f] \in Int
    BY <2>1 DEF Levelled
  <2>16. 100 * val[f] = SumFunctionOnSet(z, S)
    <3> DEFINE a == SumFunctionOnSet(v, T)
               b == SumFunctionOnSet(z, S)
               u == own[f]
               w == val[f]
    <3>1. 100 * b = 10000 * u + 100 * a
      BY <2>9, <2>10, <2>12, <2>14
    <3>2. 100 * w = 100 * u + a
      BY <2>13
    <3>3. a \in Int /\ b \in Int /\ u \in Int /\ w \in Int
      BY <2>12, <2>14, <2>15
    <3> HIDE DEF a, b, u, w
    <3>4. 100 * w = b
      BY <3>1, <3>2, <3>3
    <3> QED BY <3>4 DEF b, w
  <2> QED BY <2>16 DEF z, S
<1> DEFINE Bad == {f \in D : ~Has100(f)}
<1>2. Bad = {}
  <2> SUFFICES ASSUME Bad # {} PROVE FALSE
    OBVIOUS
  <2>1. PICK f \in Bad : Children(t, f) \cap Bad = {}
    <3>1. Bad \in SUBSET D
      OBVIOUS
    <3> HIDE DEF Bad
    <3> QED BY <3>1 DEF EntityTree, Acyclic
  <2>2. \A k \in Children(t, f) : Has100(k)
    <3>1. Children(t, f) \subseteq D
      BY DEF Children
    <3> HIDE DEF Has100
    <3> QED BY <2>1, <3>1
  <2> HIDE DEF Has100
  <2> QED BY <1>1, <2>1, <2>2
<1> QED BY <1>2

-----------------------------------------------------------------------------
(* Consolidation: what an entity gathers.                                  *)

\* A node holds what it adds up, where that can be written.
LEMMA NodeValue ==
  ASSUME NEW meta, IsFiniteSet(DOMAIN meta.ent), DOMAIN meta.ent \subseteq Entities,
         NEW tr, NEW el, NEW g, NEW e
  PROVE  \A c : Val(Node(meta, tr, el, g, e), c)
                  = Writable(Val(tr[e], c) + Val(el[e], c)
                      + SumFunction([p \in Children(meta.ent, e) |-> Contribution(p, Val(g[p], c))]))
<1> TAKE c
<1> DEFINE T     == Children(meta.ent, e)
           plain == [p \in T |-> g[p]]
           parts == Strict(plain)
           cells == DOMAIN tr[e] \cup DOMAIN el[e] \cup UNION {DOMAIN parts[p] : p \in DOMAIN parts}
           v(x)  == Val(tr[e], x) + Val(el[e], x)
                      + SumFunction([p \in DOMAIN parts |-> Contribution(p, Val(parts[p], x))])
           w     == [p \in T |-> Contribution(p, Val(g[p], c))]
           all   == [x \in cells |-> Writable(v(x))]
<1>1. Node(meta, tr, el, g, e) = Keep(all)
  BY DEF Node
<1>2. parts = plain
  BY StrictIsIdentity
<1>3. DOMAIN parts = T /\ \A p \in T : parts[p] = g[p]
  BY <1>2
<1> HIDE DEF parts
<1>4. v(c) = Val(tr[e], c) + Val(el[e], c) + SumFunction(w)
  <2>1. [p \in DOMAIN parts |-> Contribution(p, Val(parts[p], c))] = w
    BY <1>3
  <2> HIDE DEF w
  <2> QED BY <2>1
<1>5. DOMAIN all = cells /\ \A x \in cells : all[x] = Writable(v(x))
  OBVIOUS
<1>6. Val(Keep(all), c) = Val(all, c)
  <2> HIDE DEF all
  <2> QED BY KeepFacts DEF Val
<1>7. CASE c \in cells
  <2> HIDE DEF all, v, w, cells
  <2> QED BY <1>1, <1>4, <1>5, <1>6, <1>7 DEF Val, w
<1>8. CASE c \notin cells
  <2>1. Val(tr[e], c) = 0 /\ Val(el[e], c) = 0 /\ \A p \in T : Val(g[p], c) = 0
    BY <1>3, <1>8 DEF Val
  <2>2. T \subseteq Entities /\ IsFiniteSet(T)
    <3>1. T \subseteq DOMAIN meta.ent
      BY DEF Children
    <3> HIDE DEF T
    <3> QED BY <3>1, FS_Subset
  <2>3. \A p \in T : w[p] = 0
    <3>1. \A p \in T : w[p] = (0 * OwnershipPct(p)) \div 100 /\ OwnershipPct(p) \in Int
      BY <2>1, <2>2, FactorsAssumption DEF Contribution
    <3>2. \A a \in Int : (0 * a) \div 100 = 0
      OBVIOUS
    <3> QED BY <3>1, <3>2
  <2>4. SumFunction(w) = 0
    <3>1. SumFunction(w) = SumFunctionOnSet(w, T)
      BY DEF SumFunction
    <3>2. {} \in SUBSET T /\ (\A p \in T : w[p] \in Int) /\ \A p \in T \ {} : w[p] = 0
      BY <2>3
    <3> HIDE DEF T, w
    <3>3. SumFunctionOnSet(w, T) = SumFunctionOnSet(w, {})
      BY <2>2, <3>2, SumOfNonzero
    <3> QED BY <3>1, <3>3, EmptySum
  <2>5. Val(all, c) = 0
    <3> HIDE DEF all, cells
    <3> QED BY <1>5, <1>8 DEF Val
  <2>6. Val(tr[e], c) + Val(el[e], c) + SumFunction(w) = 0 /\ Writable(0) = 0
    BY <2>1, <2>4 DEF Writable
  <2> HIDE DEF all, w, cells
  <2> QED BY <1>1, <1>6, <2>5, <2>6 DEF w
<1> QED BY <1>7, <1>8

LEMMA OppositeIsWhole == \A i \in Int : -i \in Int
  OBVIOUS

LEMMA OppositesCancel == \A i, j \in Int : j = -i => i + j = 0
  OBVIOUS

LEMMA NothingLeft == \A i, j \in Int : i + j = 0 /\ i = 0 => j = 0
  OBVIOUS

LEMMA NoDebt == \A i, j : i = 0 /\ j = -i => j = 0
<1> SUFFICES ASSUME NEW i, NEW j, i = 0, j = -i PROVE j = 0
  OBVIOUS
<1>1. i \in Int
  OBVIOUS
<1>2. j \in Int
  BY <1>1, OppositeIsWhole
<1> QED BY <1>1, <1>2, OppositesCancel, NothingLeft

\* The amounts an entity has by itself; what consolidate adds up there.
Own(us, x, c) == Val(us[x]["Translated"], c) + Val(us[x]["Elimination"], c)

Gathered(us, f, c) ==
  Own(us, f, c)
    + SumFunction([k \in Children(ent, f) |-> Contribution(k, Val(us[k]["Consolidated"], c))])

\* The Translated cells whose amounts eliminate posts at f to c, each with its
\* entity, and their sum.
Postings(us, f, c) ==
  {p \in Eliminated(Meta, [e \in Entities |-> us[e]["Translated"]], f) :
     [p[2] EXCEPT !.origin = "Elim"] = c}

Posted(us, f, c) == SumFunction([p \in Postings(us, f, c) |-> us[p[1]]["Translated"][p[2]]])

\* What a run of Process has to write.
LEMMA RunGathers ==
  ASSUME EntityTree(ent), NEW s, NEW f \in DOMAIN ent
  PROVE  LET us == Processed(s)
         IN  \A c : /\ Val(us[f]["Consolidated"], c) = Writable(Gathered(us, f, c))
                    /\ Val(us[f]["Elimination"], c) = Writable(-Posted(us, f, c))
<1> DEFINE meta  == MetaAt(s)
           us    == Processed(s)
           input == Calculated(meta, units[s])
           tr    == AllTranslated(meta, input)
           el    == AllEliminations(meta, tr)
           cons  == Consolidated(meta, tr, el)
           g     == [e \in Entities |-> us[e]["Consolidated"]]
<1>1. us = Derived(meta, input) /\ meta.ent = ent
  BY DEF Processed, Process, MetaAt
<1>2. \A e \in Entities : /\ us[e]["Translated"] = tr[e] /\ us[e]["Elimination"] = el[e]
                          /\ us[e]["Consolidated"] = IF Has(ent, e) THEN cons[e] ELSE Empty
  <2> HIDE DEF meta, us, input, tr, el, cons
  <2>1. \A e \in Entities :
          LET u == Derived(meta, input)[e]
          IN  /\ DOMAIN u = Stages
              /\ u["Input"] = input[e] /\ u["Translated"] = tr[e] /\ u["Elimination"] = el[e]
              /\ u["Consolidated"] = IF Has(meta.ent, e) THEN Consolidated(meta, tr, el)[e] ELSE Empty
    BY DerivedStages DEF tr, el
  <2> QED BY <1>1, <2>1 DEF cons
<1>3. IsFiniteSet(DOMAIN meta.ent) /\ Acyclic(meta.ent) /\ DOMAIN meta.ent \subseteq Entities
      /\ f \in Entities
  BY <1>1 DEF EntityTree
<1> HIDE DEF meta, us, input, tr, el
<1>4. cons[f] = Node(meta, tr, el, cons, f)
  <2> HIDE DEF cons
  <2> QED BY <1>1, <1>3, ConsolidatedIsSummed DEF cons
<1> HIDE DEF cons
<1>5. ASSUME NEW c
      PROVE  Val(us[f]["Consolidated"], c) = Writable(Gathered(us, f, c))
  <2> DEFINE w(h) == [p \in Children(ent, f) |-> Contribution(p, Val(h[p], c))]
             z    == [k \in Children(ent, f) |-> Contribution(k, Val(us[k]["Consolidated"], c))]
  <2>1. Val(Node(meta, tr, el, cons, f), c)
          = Writable(Val(tr[f], c) + Val(el[f], c) + SumFunction(w(cons)))
    BY <1>1, <1>3, NodeValue
  <2>2. us[f]["Consolidated"] = cons[f]
    BY <1>2, <1>3 DEF Has
  <2>3. w(cons) = z
    <3>1. \A k \in Children(ent, f) : cons[k] = us[k]["Consolidated"]
      BY <1>1, <1>2, <1>3 DEF Children, Has
    <3> QED BY <3>1
  <2>4. Own(us, f, c) = Val(tr[f], c) + Val(el[f], c)
    BY <1>2, <1>3 DEF Own
  <2> HIDE DEF w
  <2> QED BY <1>4, <2>1, <2>2, <2>3, <2>4 DEF Gathered
<1>6. ASSUME NEW c
      PROVE  Val(us[f]["Elimination"], c) = Writable(-Posted(us, f, c))
  <2> DEFINE trans   == [e \in Entities |-> us[e]["Translated"]]
             posted  == Eliminated(meta, tr, f)
             elim(x) == [x EXCEPT !.origin = "Elim"]
             sources(x) == {p \in posted : elim(p[2]) = x}
             v(x)    == -SumFunction([p \in sources(x) |-> tr[p[1]][p[2]]])
             cells   == {elim(p[2]) : p \in posted}
             all     == [x \in cells |-> Writable(v(x))]
  <2>1. el[f] = Keep(all)
    BY <1>3 DEF el, AllEliminations, Elimination
  <2>2. trans = tr
    BY <1>2 DEF tr, AllTranslated
  <2>3. posted = Eliminated(Meta, trans, f)
    BY <1>1, <2>2 DEF Eliminated, Meta
  <2>4. sources(c) = Postings(us, f, c)
    BY <2>3 DEF Postings
  <2>5. v(c) = -Posted(us, f, c)
    <3>1. \A p \in posted : p[1] \in Entities
      BY DEF Eliminated
    <3>2. [p \in sources(c) |-> tr[p[1]][p[2]]]
            = [p \in Postings(us, f, c) |-> us[p[1]]["Translated"][p[2]]]
      BY <1>2, <2>4, <3>1
    <3> HIDE DEF sources, posted
    <3> QED BY <3>2 DEF Posted
  <2>6. DOMAIN all = cells /\ \A x \in cells : all[x] = Writable(v(x))
    OBVIOUS
  <2>7. Val(Keep(all), c) = Val(all, c)
    <3> HIDE DEF all
    <3> QED BY KeepFacts DEF Val
  <2>8. c \notin cells => Writable(v(c)) = 0
    <3> SUFFICES ASSUME c \notin cells PROVE Writable(v(c)) = 0
      OBVIOUS
    <3> DEFINE q == [p \in sources(c) |-> tr[p[1]][p[2]]]
    <3>1. sources(c) = {}
      OBVIOUS
    <3>2. SumFunction(q) = SumFunctionOnSet(q, {})
      BY <3>1 DEF SumFunction
    <3>3. v(c) = -SumFunction(q)
      OBVIOUS
    <3> HIDE DEF q, v
    <3>4. SumFunction(q) = 0
      BY <3>2, EmptySum
    <3>5. v(c) = 0
      <4> DEFINE a == SumFunction(q)
      <4>1. a = 0 /\ v(c) = -a
        BY <3>3, <3>4
      <4> HIDE DEF a
      <4> QED BY <4>1, NoDebt
    <3> QED BY <3>5 DEF Writable
  <2>9. Val(all, c) = Writable(v(c))
    <3> HIDE DEF all, v, cells
    <3> QED BY <2>6, <2>8 DEF Val
  <2>10. us[f]["Elimination"] = el[f]
    BY <1>2, <1>3
  <2> HIDE DEF all, v
  <2> QED BY <2>1, <2>5, <2>7, <2>9, <2>10
<1> QED BY <1>5, <1>6 DEF us

\* The stages of a run are cell maps of whole amounts at entities there are.
RunFits(us) ==
  \A e \in Entities, st \in Stages :
    /\ IsFiniteSet(DOMAIN us[e][st]) /\ DOMAIN us[e][st] \subseteq Coords /\ Whole(us[e][st])
    /\ ~Has(ent, e) => DOMAIN us[e][st] = {}

\* v is a number of hundreds.
Hundredfold(v) == 100 * (v \div 100) = v

\* A run that skips no amount for its size, and rounds no share.
ExactRun(us) ==
  /\ \A f \in DOMAIN ent, c \in Coords : Finite(Gathered(us, f, c)) /\ Finite(-Posted(us, f, c))
  /\ \A f \in DOMAIN ent, c \in Coords : \A k \in Children(ent, f) :
        Hundredfold(Val(us[k]["Consolidated"], c) * OwnershipPct(k))
  /\ \A f \in DOMAIN ent, c \in Coords : \A x \in Subtree(ent, f) :
        Hundredfold(Share(f, x) * Own(us, x, c))

\* Nothing is lost to rounding or size, in any slice that can be consolidated.
AmountsAreExact ==
  ExactShares /\ \A s \in Slices : ~ProcessFails(MetaAt(s)) => ExactRun(Processed(s))

LEMMA OwnIsWhole ==
  ASSUME NEW us, RunFits(us), NEW x \in Entities
  PROVE  \A c : /\ \A st \in Stages : Val(us[x][st], c) \in Int
                /\ Own(us, x, c) \in Int
  BY WholeValues DEF RunFits, Own, Stages

\* An entity has its share of what there is in its subtree.
LEMMA SharesOfRun ==
  ASSUME EntityTree(ent), ExactShares, NEW s, NEW us, us = Processed(s), RunFits(us), ExactRun(us),
         NEW f \in DOMAIN ent, NEW c \in Coords
  PROVE  100 * Val(us[f]["Consolidated"], c)
           = SumFunctionOnSet([x \in Subtree(ent, f) |-> Share(f, x) * Own(us, x, c)], Subtree(ent, f))
<1> DEFINE D     == DOMAIN ent
           own   == [x \in D |-> Own(us, x, c)]
           val   == [x \in D |-> Val(us[x]["Consolidated"], c)]
           pct   == [x \in D |-> OwnershipPct(x)]
           share == [g \in D |-> [x \in D |-> Share(g, x)]]
<1>1. IsFiniteSet(D) /\ D \subseteq Entities
  BY DEF EntityTree
<1>2. \A x \in D : own[x] = Own(us, x, c) /\ val[x] = Val(us[x]["Consolidated"], c) /\ pct[x] = OwnershipPct(x)
                   /\ \A y \in D : share[x][y] = Share(x, y)
  OBVIOUS
<1>3. \A x \in D : own[x] \in Int /\ val[x] \in Int /\ pct[x] \in Int
  <2> HIDE DEF own, val, pct
  <2> QED BY <1>1, <1>2, OwnIsWhole, FactorsAssumption DEF Stages
<1> HIDE DEF own, val, pct, share
<1>4. Levelled(ent, own, val, pct)
  <2> SUFFICES ASSUME NEW g \in D
               PROVE  100 * val[g] = 100 * own[g]
                        + SumFunctionOnSet([k \in Children(ent, g) |-> pct[k] * val[k]], Children(ent, g))
    BY <1>3 DEF Levelled
  <2> DEFINE T == Children(ent, g)
             a == [k \in T |-> Contribution(k, Val(us[k]["Consolidated"], c))]
             b == [k \in T |-> pct[k] * val[k]]
  <2>1. T \subseteq D
    BY DEF Children
  <2>2. IsFiniteSet(T)
    <3> HIDE DEF T
    <3> QED BY <1>1, <2>1, FS_Subset
  <2>3. \A k \in T : b[k] = 100 * a[k] /\ a[k] \in Int
    <3> SUFFICES ASSUME NEW k \in T PROVE b[k] = 100 * a[k] /\ a[k] \in Int
      OBVIOUS
    <3> DEFINE v == val[k] * pct[k]
    <3>1. k \in D /\ val[k] \in Int /\ pct[k] \in Int
      BY <1>3, <2>1
    <3>2. val[k] = Val(us[k]["Consolidated"], c) /\ pct[k] = OwnershipPct(k)
      BY <1>2, <3>1
    <3>3. Hundredfold(Val(us[k]["Consolidated"], c) * OwnershipPct(k))
      BY DEF ExactRun
    <3>4. a[k] = Contribution(k, Val(us[k]["Consolidated"], c))
      OBVIOUS
    <3>5. b[k] = pct[k] * val[k]
      OBVIOUS
    <3> HIDE DEF a, b
    <3>6. Hundredfold(v) /\ a[k] = v \div 100
      BY <3>2, <3>3, <3>4 DEF Contribution
    <3>7. v \in Int /\ b[k] = v
      BY <3>1, <3>5
    <3> HIDE DEF v
    <3>8. v \div 100 \in Int
      BY <3>7
    <3> QED BY <3>6, <3>7, <3>8 DEF Hundredfold
  <2>4. Val(us[g]["Consolidated"], c) = Own(us, g, c) + SumFunctionOnSet(a, T)
    <3>1. Val(us[g]["Consolidated"], c) = Writable(Gathered(us, g, c))
      BY RunGathers
    <3>2. Finite(Gathered(us, g, c))
      BY DEF ExactRun
    <3>3. Gathered(us, g, c) = Own(us, g, c) + SumFunction(a)
      BY DEF Gathered
    <3>4. SumFunction(a) = SumFunctionOnSet(a, T)
      BY DEF SumFunction
    <3> HIDE DEF a
    <3> QED BY <3>1, <3>2, <3>3, <3>4 DEF Writable
  <2>5. val[g] = Val(us[g]["Consolidated"], c) /\ own[g] = Own(us, g, c) /\ own[g] \in Int
    BY <1>2, <1>3
  <2> HIDE DEF T, a, b
  <2>6. SumFunctionOnSet(b, T) = 100 * SumFunctionOnSet(a, T) /\ SumFunctionOnSet(a, T) \in Int
    BY <2>2, <2>3, SumScaled, SumIsInteger
  <2>7. 100 * val[g] = 100 * own[g] + SumFunctionOnSet(b, T)
    <3> DEFINE i == SumFunctionOnSet(a, T)
               j == own[g]
    <3>1. val[g] = j + i
      BY <2>4, <2>5
    <3>2. SumFunctionOnSet(b, T) = 100 * i /\ i \in Int /\ j \in Int
      BY <2>5, <2>6
    <3> HIDE DEF i, j
    <3>3. 100 * val[g] = 100 * j + SumFunctionOnSet(b, T)
      BY <3>1, <3>2
    <3> QED BY <3>3 DEF j
  <2> QED BY <2>7 DEF b, T
<1>5. Composed(ent, share, pct)
  <2> SUFFICES ASSUME NEW g \in D
               PROVE  /\ \A x \in Subtree(ent, g) : share[g][x] \in Int
                      /\ share[g][g] = 100
                      /\ \A k \in Children(ent, g) : \A x \in Subtree(ent, k) :
                           100 * share[g][x] = pct[k] * share[k][x]
    BY DEF Composed
  <2>1. Subtree(ent, g) \subseteq D /\ Children(ent, g) \subseteq D
        /\ \A k : Subtree(ent, k) \subseteq D
    BY DEF Subtree, Children
  <2>2. /\ \A x : Share(g, x) \in Int
        /\ Share(g, g) = 100
        /\ \A k \in Children(ent, g) : \A x \in Subtree(ent, k) :
             100 * Share(g, x) = OwnershipPct(k) * Share(k, x)
    BY SharesCompose
  <2> QED BY <1>2, <2>1, <2>2
<1> DEFINE S == Subtree(ent, f)
           p == [x \in S |-> share[f][x] * own[x]]
           q == [x \in S |-> Share(f, x) * Own(us, x, c)]
<1>6. 100 * val[f] = SumFunctionOnSet(p, S)
  BY <1>4, <1>5, SubtreeShares
<1>7. p = q
  <2>1. S \subseteq D
    BY DEF Subtree
  <2> QED BY <1>2, <2>1
<1> HIDE DEF p, q
<1> QED BY <1>2, <1>6, <1>7 DEF q, S

\* Every entity has its share of all Translated and Elimination cells below it.
LEMMA OwnershipWeighs ==
  ASSUME EntityTree(ent), AmountsAreExact,
         \A s \in Slices : ~ProcessFails(MetaAt(s)) => RunFits(Processed(s))
  PROVE  OwnershipWeighted
<1> SUFFICES ASSUME NEW s \in Slices, NEW f \in DOMAIN ent, ~ProcessFails(MetaAt(s))
             PROVE  Weighted(Processed(s), f)
  BY DEF OwnershipWeighted
<1> DEFINE us == Processed(s)
<1>1. ExactShares /\ RunFits(us) /\ ExactRun(us)
  BY DEF AmountsAreExact
<1> HIDE DEF us
<1>2. \A c \in UNION {DOMAIN us[x][st] : x \in Entities, st \in Stages} : c \in Coords
  BY <1>1 DEF RunFits
<1>3. ASSUME NEW c \in Coords
      PROVE  Val(us[f]["Consolidated"], c)
               = SumFunction([x \in Subtree(ent, f) |->
                    (Share(f, x) * (Val(us[x]["Translated"], c) + Val(us[x]["Elimination"], c))) \div 100])
  <2> DEFINE S == Subtree(ent, f)
             q == [x \in S |-> Share(f, x) * Own(us, x, c)]
             z == [x \in S |-> (Share(f, x) * Own(us, x, c)) \div 100]
             w == [x \in S |-> (Share(f, x) * (Val(us[x]["Translated"], c)
                                                 + Val(us[x]["Elimination"], c))) \div 100]
  <2>1. S \subseteq DOMAIN ent /\ S \subseteq Entities
    BY DEF Subtree, EntityTree
  <2>2. IsFiniteSet(S)
    <3> HIDE DEF S
    <3> QED BY <2>1, FS_Subset DEF EntityTree
  <2>3. 100 * Val(us[f]["Consolidated"], c) = SumFunctionOnSet(q, S)
    BY <1>1, SharesOfRun DEF us
  <2>4. w = z
    BY DEF Own
  <2>5. \A x \in S : q[x] = 100 * z[x] /\ z[x] \in Int
    <3> SUFFICES ASSUME NEW x \in S PROVE q[x] = 100 * z[x] /\ z[x] \in Int
      OBVIOUS
    <3> DEFINE v == Share(f, x) * Own(us, x, c)
    <3>1. Hundredfold(v)
      BY <1>1 DEF ExactRun
    <3>2. Share(f, x) \in Int /\ Own(us, x, c) \in Int
      BY <1>1, <2>1, SharesCompose, OwnIsWhole
    <3>3. v \in Int
      BY <3>2
    <3>4. q[x] = v /\ z[x] = v \div 100
      OBVIOUS
    <3> HIDE DEF v, q, z
    <3>5. v \div 100 \in Int
      BY <3>3
    <3> QED BY <3>1, <3>4, <3>5 DEF Hundredfold
  <2>6. SumFunction(z) = SumFunctionOnSet(z, S)
    BY DEF SumFunction
  <2> HIDE DEF S, q, z, w
  <2>7. SumFunctionOnSet(q, S) = 100 * SumFunctionOnSet(z, S) /\ SumFunctionOnSet(z, S) \in Int
    BY <2>2, <2>5, SumScaled, SumIsInteger
  <2>8. Val(us[f]["Consolidated"], c) \in Int
    <3>1. f \in Entities
      BY DEF EntityTree
    <3> QED BY <1>1, <3>1, OwnIsWhole DEF Stages
  <2>9. Val(us[f]["Consolidated"], c) = SumFunctionOnSet(z, S)
    <3> DEFINE a == Val(us[f]["Consolidated"], c)
               b == SumFunctionOnSet(z, S)
    <3>1. 100 * a = 100 * b /\ a \in Int /\ b \in Int
      BY <2>3, <2>7, <2>8
    <3> HIDE DEF a, b
    <3>2. a = b
      BY <3>1
    <3> QED BY <3>2 DEF a, b
  <2> QED BY <2>4, <2>6, <2>9 DEF w, S
<1> QED BY <1>2, <1>3 DEF us, Weighted

-----------------------------------------------------------------------------
(* Consolidation: what is eliminated.                                      *)

\* Members of S hold the amounts held[<<x, c>>], which posts the amounts of x
\* once more at meet[x], a member with the same weight if there are any.
Posting(S, C, w, meet, held, at, posted) ==
  /\ \A x \in S : w[x] \in Int /\ meet[x] \in S
  /\ \A q \in S \X C : held[q] \in Int /\ (held[q] # 0 => w[meet[q[1]]] = w[q[1]])
  /\ \A x \in S : /\ at[x] = SumFunctionOnSet([c \in C |-> held[<<x, c>>]], C)
                  /\ posted[x] = SumFunctionOnSet([q \in S \X C |-> IF meet[q[1]] = x THEN held[q] ELSE 0], S \X C)

\* One weight for each of two members, the second of which counts.
LEMMA WeightOfOne ==
  ASSUME NEW S, IsFiniteSet(S), NEW y \in S, NEW w, NEW v, \A x \in S : w[x] \in Int, v \in Int,
         NEW f, \A x \in S : f[x] = w[x] * (IF y = x THEN v ELSE 0)
  PROVE  SumFunctionOnSet(f, S) = w[y] * v
<1>0. \A a, b \in Int : a * b \in Int /\ a * 0 = 0
  OBVIOUS
<1>2. f[y] = w[y] * v /\ f[y] \in Int /\ \A x \in S \ {y} : f[x] = 0
  BY <1>0
<1>3. \A x \in S : f[x] \in Int
  BY <1>2
<1>4. SumFunctionOnSet(f, S) = SumFunctionOnSet(f, {y})
  <2>1. {y} \in SUBSET S
    OBVIOUS
  <2> QED BY <1>2, <1>3, <2>1, SumOfNonzero
<1> QED BY <1>2, <1>4, SumOfOne

\* What is posted weighs as much as what is held.
LEMMA PostingsWeighAlike ==
  ASSUME NEW S, IsFiniteSet(S), NEW C, IsFiniteSet(C),
         NEW w, NEW meet, NEW held, NEW at, NEW posted, Posting(S, C, w, meet, held, at, posted)
  PROVE  SumFunctionOnSet([x \in S |-> w[x] * at[x]], S)
           = SumFunctionOnSet([x \in S |-> w[x] * posted[x]], S)
<1> DEFINE P == S \X C
           F == [q \in P |-> w[q[1]] * held[q]]
           Z == [q \in P |-> 0]
           h == [x \in S |-> [q \in P |-> IF q[1] = x THEN held[q] ELSE 0]]
           k == [x \in S |-> [q \in P |-> IF meet[q[1]] = x THEN held[q] ELSE 0]]
<1>0. \A a, b \in Int : a * b \in Int /\ a * 0 = 0
  OBVIOUS
<1>1. IsFiniteSet(P)
  BY FS_Product
<1>2. \A q \in P : q[1] \in S /\ meet[q[1]] \in S /\ held[q] \in Int /\ w[q[1]] \in Int
  BY DEF Posting
<1>3. \A x \in S : \A q \in P : /\ h[x][q] = IF q[1] = x THEN held[q] ELSE 0
                                /\ k[x][q] = IF meet[q[1]] = x THEN held[q] ELSE 0
  OBVIOUS
<1>4. \A q \in P : F[q] = w[q[1]] * held[q] /\ Z[q] = 0
  OBVIOUS
<1>5. \A x \in S : w[x] \in Int
  BY DEF Posting
<1>6. \A q \in P : held[q] # 0 => w[meet[q[1]]] = w[q[1]]
  BY DEF Posting
<1> HIDE DEF P, F, Z, h, k
<1>7. \A x \in S : \A q \in P : h[x][q] \in Int /\ k[x][q] \in Int
  BY <1>2, <1>3
<1>8. \A q \in P : w[meet[q[1]]] * held[q] = w[q[1]] * held[q] /\ w[q[1]] * held[q] \in Int
  BY <1>0, <1>2, <1>5, <1>6
<1>9. ASSUME NEW q \in P
      PROVE  /\ F[q] = Z[q] + SumFunctionOnSet([x \in S |-> w[x] * h[x][q]], S)
             /\ F[q] = Z[q] + SumFunctionOnSet([x \in S |-> w[x] * k[x][q]], S)
  <2> DEFINE v == held[q]
             y == q[1]
             z == meet[q[1]]
             f == [x \in S |-> w[x] * h[x][q]]
             g == [x \in S |-> w[x] * k[x][q]]
  <2>1. \A x \in S : f[x] = w[x] * (IF y = x THEN v ELSE 0)
    BY <1>3
  <2>2. \A x \in S : g[x] = w[x] * (IF z = x THEN v ELSE 0)
    BY <1>3
  <2>3. v \in Int /\ y \in S /\ z \in S
    BY <1>2
  <2>4. w[y] * v = F[q] /\ w[z] * v = F[q] /\ F[q] \in Int /\ Z[q] = 0
    BY <1>4, <1>8
  <2> HIDE DEF v, y, z, f, g
  <2>5. SumFunctionOnSet(f, S) = w[y] * v
    BY <1>5, <2>1, <2>3, WeightOfOne
  <2>6. SumFunctionOnSet(g, S) = w[z] * v
    BY <1>5, <2>2, <2>3, WeightOfOne
  <2>7. F[q] = Z[q] + SumFunctionOnSet(f, S) /\ F[q] = Z[q] + SumFunctionOnSet(g, S)
    BY <2>4, <2>5, <2>6
  <2> QED BY <2>7 DEF f, g
<1>10. Parts(F, Z, w, h, P, S) /\ Parts(F, Z, w, k, P, S)
  <2>1. \A q \in P : Z[q] \in Int
    BY <1>4
  <2>2. Parts(F, Z, w, h, P, S)
    BY <1>5, <1>7, <1>9, <2>1 DEF Parts
  <2>3. Parts(F, Z, w, k, P, S)
    BY <1>5, <1>7, <1>9, <2>1 DEF Parts
  <2> QED BY <2>2, <2>3
<1>11. /\ SumFunctionOnSet(F, P) = SumFunctionOnSet(Z, P)
             + SumFunctionOnSet([x \in S |-> w[x] * SumFunctionOnSet(h[x], P)], S)
       /\ SumFunctionOnSet(F, P) = SumFunctionOnSet(Z, P)
             + SumFunctionOnSet([x \in S |-> w[x] * SumFunctionOnSet(k[x], P)], S)
  BY <1>1, <1>10, SumOfParts
<1>12. ASSUME NEW x \in S
       PROVE  SumFunctionOnSet(h[x], P) = at[x] /\ SumFunctionOnSet(k[x], P) = posted[x]
  <2>1. SumFunctionOnSet(k[x], P) = posted[x]
    <3>1. k[x] = [q \in S \X C |-> IF meet[q[1]] = x THEN held[q] ELSE 0]
      BY DEF k, P
    <3> QED BY <3>1 DEF Posting, P
  <2> DEFINE R == {<<x, c>> : c \in C}
             u == h[x]
             a == [c \in C |-> held[<<x, c>>]]
             n == [c \in C |-> <<x, c>>]
  <2>2. R \in SUBSET P /\ \A q \in P \ R : q[1] # x
    BY DEF P
  <2>3. \A c \in C : n[c] = <<x, c>> /\ <<x, c>> \in P /\ a[c] = held[<<x, c>>]
    BY DEF P
  <2>4. Renames(n, C, R)
    BY <2>3 DEF Renames
  <2>5. (\A q \in P : u[q] \in Int) /\ (\A q \in P \ R : u[q] = 0)
        /\ \A c \in C : u[n[c]] = a[c] /\ a[c] \in Int
    BY <1>2, <1>3, <1>7, <2>2, <2>3
  <2> HIDE DEF R, u, a, n
  <2>6. SumFunctionOnSet(u, P) = SumFunctionOnSet(u, R)
    BY <1>1, <2>2, <2>5, SumOfNonzero
  <2>7. SumFunctionOnSet(u, R) = SumFunctionOnSet(a, C)
    BY <2>4, <2>5, SumReindexed
  <2>8. at[x] = SumFunctionOnSet(a, C)
    BY DEF Posting, a
  <2> QED BY <2>1, <2>6, <2>7, <2>8 DEF u
<1>13. /\ [x \in S |-> w[x] * SumFunctionOnSet(h[x], P)] = [x \in S |-> w[x] * at[x]]
       /\ [x \in S |-> w[x] * SumFunctionOnSet(k[x], P)] = [x \in S |-> w[x] * posted[x]]
  BY <1>12
<1>14. SumFunctionOnSet(Z, P) = 0
  <2>1. {} \in SUBSET P /\ (\A q \in P : Z[q] \in Int) /\ \A q \in P \ {} : Z[q] = 0
    BY <1>4
  <2>2. SumFunctionOnSet(Z, P) = SumFunctionOnSet(Z, {})
    BY <1>1, <2>1, SumOfNonzero
  <2> QED BY <2>2, EmptySum
<1> DEFINE A == SumFunctionOnSet([x \in S |-> w[x] * at[x]], S)
           B == SumFunctionOnSet([x \in S |-> w[x] * posted[x]], S)
<1>15. A \in Int /\ B \in Int
  <2>1. \A x \in S : at[x] \in Int /\ posted[x] \in Int
    <3> SUFFICES ASSUME NEW x \in S PROVE at[x] \in Int /\ posted[x] \in Int
      OBVIOUS
    <3>1. SumFunctionOnSet(h[x], P) \in Int /\ SumFunctionOnSet(k[x], P) \in Int
      BY <1>1, <1>7, SumIsInteger
    <3> QED BY <1>12, <3>1
  <2>2. \A x \in S : [z \in S |-> w[z] * at[z]][x] \in Int /\ [z \in S |-> w[z] * posted[z]][x] \in Int
    BY <1>0, <1>5, <2>1
  <2> QED BY <2>2, SumIsInteger
<1>16. SumFunctionOnSet(F, P) = 0 + A /\ SumFunctionOnSet(F, P) = 0 + B
  BY <1>11, <1>13, <1>14
<1> HIDE DEF A, B
<1>17. A = B
  BY <1>15, <1>16
<1> QED BY <1>17 DEF A, B

\* What is below a member of a subtree is below its top.
LEMMA BelowTheTop ==
  ASSUME EntityTree(ent), NEW f, NEW x \in Subtree(ent, f), NEW e \in Subtree(ent, x)
  PROVE  e \in Subtree(ent, f)
<1>1. e \in DOMAIN ent /\ x \in PathToRoot(ent, e) /\ f \in PathToRoot(ent, x)
  BY DEF Subtree
<1>2. PathToRoot(ent, x) \subseteq PathToRoot(ent, e)
  BY <1>1, PathOfMember DEF EntityTree
<1> QED BY <1>1, <1>2 DEF Subtree

\* An entity that is wholly owned has the shares of its owner.
LEMMA OwnedIsShared ==
  ASSUME EntityTree(ent), ExactShares, NEW x \in DOMAIN ent, NEW e \in Subtree(ent, x), Share(x, e) = 100
  PROVE  \A f \in DOMAIN ent : x \in Subtree(ent, f) => Share(f, e) = Share(f, x)
<1> DEFINE Bad == {f \in DOMAIN ent : x \in Subtree(ent, f) /\ Share(f, e) # Share(f, x)}
<1> SUFFICES ASSUME Bad # {} PROVE FALSE
  OBVIOUS
<1>1. PICK f \in Bad : Children(ent, f) \cap Bad = {}
  <2>1. Bad \in SUBSET DOMAIN ent
    OBVIOUS
  <2> HIDE DEF Bad
  <2> QED BY <2>1 DEF EntityTree, Acyclic
<1>2. f \in DOMAIN ent /\ x \in Subtree(ent, f) /\ Share(f, e) # Share(f, x)
  BY <1>1
<1>3. f # x
  <2>1. Share(x, x) = 100
    BY SharesCompose
  <2> QED BY <1>2, <2>1
<1>4. PICK k \in Children(ent, f) : x \in Subtree(ent, k)
  BY <1>2, <1>3, SubtreeParts DEF EntityTree
<1>5. k \in DOMAIN ent /\ e \in Subtree(ent, k)
  BY <1>4, BelowTheTop DEF Children
<1>6. Share(k, e) = Share(k, x)
  BY <1>1, <1>4, <1>5
<1>7. /\ 100 * Share(f, e) = OwnershipPct(k) * Share(k, e)
      /\ 100 * Share(f, x) = OwnershipPct(k) * Share(k, x)
      /\ Share(f, e) \in Int /\ Share(f, x) \in Int
  BY <1>2, <1>4, <1>5, SharesCompose
<1> DEFINE i == Share(f, e)
           j == Share(f, x)
<1>8. 100 * i = 100 * j /\ i \in Int /\ j \in Int /\ i # j
  BY <1>2, <1>6, <1>7
<1> HIDE DEF i, j
<1> QED BY <1>8

\* An entity and its partner meet at their first common ancestor.
LEMMA PartnersMeet ==
  ASSUME EntityTree(ent), NEW f \in DOMAIN ent, NEW e \in Subtree(ent, f), NEW p \in Subtree(ent, f)
  PROVE  /\ FCA(ent, e, p) \in Subtree(ent, f)
         /\ e \in Subtree(ent, FCA(ent, e, p))
         /\ Meet(FCA(ent, e, p), e, p)
<1> DEFINE g == FCA(ent, e, p)
           common == PathToRoot(ent, e) \cap PathToRoot(ent, p)
<1>1. IsFiniteSet(DOMAIN ent) /\ Closed(ent) /\ Acyclic(ent) /\ e \in DOMAIN ent /\ p \in DOMAIN ent
  BY DEF EntityTree, Subtree
<1>2. f \in common
  BY DEF Subtree
<1>3. g \in common /\ common \subseteq PathToRoot(ent, g)
  <2>1. common # {}
    BY <1>2
  <2> QED BY <1>1, <2>1, FirstCommonAncestor
<1>4. g \in DOMAIN ent
  BY <1>1, <1>3, PathStaysInside
<1>5. e \in Subtree(ent, g) /\ p \in Subtree(ent, g) /\ g \in Subtree(ent, f)
  BY <1>1, <1>2, <1>3, <1>4 DEF Subtree
<1>6. ASSUME NEW k \in Children(ent, g), e \in Subtree(ent, k), p \in Subtree(ent, k)
      PROVE  FALSE
  <2>1. k \in DOMAIN ent /\ ent[k] = g
    BY DEF Children
  <2>2. k \in common
    BY <1>6 DEF Subtree
  <2>3. k \in PathToRoot(ent, g)
    BY <1>3, <2>2
  <2>4. g # NoParent
    BY <1>4 DEF EntityTree
  <2>5. g \in PathToRoot(ent, k)
    BY <1>1, <2>1, <2>4, PathIsClosed
  <2>6. g = k
    <3> SUFFICES ASSUME g # k PROVE FALSE
      OBVIOUS
    <3> HIDE DEF g
    <3> QED BY <1>1, <2>1, <2>3, <2>5, AboveOneWay
  <2>7. k # ent[k]
    BY <1>1, <1>4, <2>1, <2>4, SubtreeParts
  <2> QED BY <2>1, <2>6, <2>7
<1> QED BY <1>5, <1>6 DEF Meet

\* The cells of an account with a partner, and the one that eliminations write.
ElimCell(a, p) == [acct |-> a, origin |-> "Elim", ic |-> p]
Pair(a, p) == [acct : {a}, origin : Origins, ic : {p}]

LEMMA PairFacts ==
  ASSUME NEW a \in Accounts, NEW p \in Entities
  PROVE  /\ IsFiniteSet(Pair(a, p)) /\ Pair(a, p) \subseteq Coords
         /\ ElimCell(a, p) \in Pair(a, p)
         /\ \A c \in Coords : /\ c \in Pair(a, p) <=> c.acct = a /\ c.ic = p
                              /\ [c EXCEPT !.origin = "Elim"] = ElimCell(a, p) <=> c \in Pair(a, p)
         /\ \A c \in Pair(a, p) \ {ElimCell(a, p)} : \A d \in Coords : [d EXCEPT !.origin = "Elim"] # c
<1>1. IsFiniteSet(Origins)
  <2>1. Origins = {"Import", "Forms", "Adj", "Calc", "Elim"}
    BY DEF Origins, UserOrigins
  <2>2. IsFiniteSet({"Import"} \cup {"Forms"} \cup {"Adj"} \cup {"Calc"} \cup {"Elim"})
    BY FS_Singleton, FS_Union
  <2> QED BY <2>1, <2>2
<1>2. IsFiniteSet(Pair(a, p))
  <2> DEFINE f == [o \in Origins |-> [acct |-> a, origin |-> o, ic |-> p]]
  <2>1. Pair(a, p) = {f[o] : o \in Origins}
    <3>1. ASSUME NEW c \in Pair(a, p) PROVE \E o \in Origins : f[o] = c
      <4>1. c = [acct |-> c.acct, origin |-> c.origin, ic |-> c.ic]
            /\ c.acct = a /\ c.ic = p /\ c.origin \in Origins
        BY DEF Pair
      <4> QED BY <4>1
    <3>2. ASSUME NEW o \in Origins PROVE f[o] \in Pair(a, p)
      BY DEF Pair
    <3> QED BY <3>1, <3>2
  <2>2. DOMAIN f = Origins
    OBVIOUS
  <2> HIDE DEF f
  <2> QED BY <1>1, <2>1, <2>2, ImageIsFinite
<1>3. "Elim" \in Origins
  BY DEF Origins
<1>4. Pair(a, p) \subseteq Coords /\ ElimCell(a, p) \in Pair(a, p)
  BY <1>3 DEF Pair, Coords, ElimCell
<1>5. ASSUME NEW c \in Coords
      PROVE  /\ c \in Pair(a, p) <=> c.acct = a /\ c.ic = p
             /\ [c EXCEPT !.origin = "Elim"] = ElimCell(a, p) <=> c.acct = a /\ c.ic = p
  <2>1. c = [acct |-> c.acct, origin |-> c.origin, ic |-> c.ic] /\ c.origin \in Origins
    BY DEF Coords
  <2>2. [c EXCEPT !.origin = "Elim"] = ElimCell(c.acct, c.ic)
    BY <2>1 DEF ElimCell
  <2>3. \A b, q : ElimCell(b, q).acct = b /\ ElimCell(b, q).ic = q
    BY DEF ElimCell
  <2>4. c \in Pair(a, p) <=> c.acct = a /\ c.ic = p
    BY <2>1 DEF Pair
  <2> QED BY <2>2, <2>3, <2>4
<1>6. ASSUME NEW c \in Pair(a, p) \ {ElimCell(a, p)}, NEW d \in Coords,
             [d EXCEPT !.origin = "Elim"] = c
      PROVE  FALSE
  <2>1. d = [acct |-> d.acct, origin |-> d.origin, ic |-> d.ic]
    BY DEF Coords
  <2>2. c.origin = "Elim" /\ c.acct = a /\ c.ic = p
    BY <1>6, <2>1 DEF Pair
  <2>3. c = [acct |-> c.acct, origin |-> c.origin, ic |-> c.ic]
    BY DEF Pair
  <2> QED BY <2>2, <2>3 DEF ElimCell
<1> QED BY <1>2, <1>4, <1>5, <1>6

\* A sum over the cells there are is one over all of them.
LEMMA TotalIsSum ==
  ASSUME NEW m, Whole(m), NEW K, IsFiniteSet(K)
  PROVE  Total(m, K) = SumFunctionOnSet([c \in K |-> Val(m, c)], K)
<1> DEFINE v == [c \in K |-> Val(m, c)]
           R == DOMAIN m \cap K
<1>1. /\ \A c \in K : v[c] = Val(m, c) /\ v[c] \in Int
      /\ \A c \in K \ R : v[c] = 0
      /\ \A c \in R : v[c] = m[c]
      /\ R \in SUBSET K
  <2>1. \A c \in K : v[c] = Val(m, c)
    OBVIOUS
  <2> HIDE DEF v
  <2> QED BY <2>1, WholeValues DEF Val
<1>2. IsFiniteSet(R)
  BY <1>1, FS_Subset
<1> HIDE DEF v, R
<1>3. SumFunctionOnSet(v, K) = SumFunctionOnSet(v, R)
  BY <1>1, SumOfNonzero
<1>4. SumFunctionOnSet(m, R) = SumFunctionOnSet(v, R)
  BY <1>1, <1>2, SumOfEqual
<1> QED BY <1>3, <1>4 DEF Total, v, R

\* The amounts eliminate posts at x of what f holds of account a with p, as
\* a sum over everything below f.
PostedTerms(us, f, a, p, x) ==
  [q \in Subtree(ent, f) \X Pair(a, p) |->
     IF FCA(ent, q[1], p) = x THEN Val(us[q[1]]["Translated"], q[2]) ELSE 0]

LEMMA PostedOfPair ==
  ASSUME EntityTree(ent), NEW us, RunFits(us), NEW f \in DOMAIN ent,
         NEW a \in Accounts, a \in ICAccounts, NEW p \in Subtree(ent, f), p # None, NEW x \in Subtree(ent, f)
  PROVE  /\ Posted(us, x, ElimCell(a, p))
              = SumFunctionOnSet(PostedTerms(us, f, a, p, x), Subtree(ent, f) \X Pair(a, p))
         /\ \A c \in Pair(a, p) \ {ElimCell(a, p)} : Postings(us, x, c) = {}
<1> DEFINE K == Pair(a, p)
           S == Subtree(ent, f)
           P == S \X K
           t(e) == us[e]["Translated"]
           R == Postings(us, x, ElimCell(a, p))
           v == PostedTerms(us, f, a, p, x)
           w == [q \in R |-> t(q[1])[q[2]]]
<1>1. /\ IsFiniteSet(S) /\ S \subseteq DOMAIN ent /\ S \subseteq Entities /\ p \in Entities
  <2>1. S \subseteq DOMAIN ent
    BY DEF Subtree
  <2>2. IsFiniteSet(S)
    <3> HIDE DEF S
    <3> QED BY <2>1, FS_Subset DEF EntityTree
  <2> QED BY <2>1, <2>2 DEF EntityTree
<1>2. IsFiniteSet(P) /\ K \subseteq Coords
  BY <1>1, PairFacts, FS_Product
<1>3. \A e \in Entities : /\ DOMAIN t(e) \subseteq Coords /\ Whole(t(e))
                          /\ e \notin DOMAIN ent => DOMAIN t(e) = {}
  BY DEF RunFits, Stages, Has
<1>4. \A q : q \in Eliminated(Meta, [e \in Entities |-> us[e]["Translated"]], x)
               <=> /\ q = <<q[1], q[2]>> /\ q[1] \in Entities /\ q[2] \in DOMAIN t(q[1])
                   /\ q[2].ic # None /\ q[2].acct \in ICAccounts
                   /\ FCA(ent, q[1], q[2].ic) = x
  BY DEF Eliminated, Meta
<1>5. \A q \in R : q[1] \in Entities /\ q[2] \in DOMAIN t(q[1]) /\ q[2] \in Coords
  BY <1>3, <1>4 DEF Postings
<1>6. \A q : q \in R <=> q \in P /\ q[2] \in DOMAIN t(q[1]) /\ FCA(ent, q[1], p) = x
  <2>1. ASSUME NEW q \in R
        PROVE  q \in P /\ q[2] \in DOMAIN t(q[1]) /\ FCA(ent, q[1], p) = x
    <3>1. /\ q = <<q[1], q[2]>> /\ q[1] \in Entities /\ q[2] \in DOMAIN t(q[1])
          /\ FCA(ent, q[1], q[2].ic) = x /\ [q[2] EXCEPT !.origin = "Elim"] = ElimCell(a, p)
      BY <1>4 DEF Postings
    <3>2. q[2] \in K /\ q[2].ic = p
      BY <1>3, <1>1, <3>1, PairFacts
    <3>3. q[1] \in DOMAIN ent
      BY <1>3, <3>1
    <3>4. x \in PathToRoot(ent, q[1])
      <4>1. p \in DOMAIN ent /\ x \in DOMAIN ent /\ x # NoParent
        BY <1>1 DEF EntityTree
      <4>2. FCA(ent, q[1], p) = x
        BY <3>1, <3>2
      <4> QED BY <3>3, <4>1, <4>2, FirstCommonAncestor DEF EntityTree
    <3>5. q[1] \in S
      <4>1. q[1] \in Subtree(ent, x)
        BY <3>3, <3>4 DEF Subtree
      <4> QED BY <4>1, BelowTheTop
    <3> QED BY <3>1, <3>2, <3>5
  <2>2. ASSUME NEW q \in P, q[2] \in DOMAIN t(q[1]), FCA(ent, q[1], p) = x
        PROVE  q \in R
    <3>1. q = <<q[1], q[2]>> /\ q[1] \in S /\ q[2] \in K
      OBVIOUS
    <3>2. q[1] \in Entities /\ q[2] \in Coords
      BY <1>1, <1>2, <3>1
    <3>3. q[2].ic = p /\ q[2].acct = a /\ [q[2] EXCEPT !.origin = "Elim"] = ElimCell(a, p)
      BY <1>1, <3>1, <3>2, PairFacts
    <3>4. q \in Eliminated(Meta, [e \in Entities |-> us[e]["Translated"]], x)
      BY <1>4, <2>2, <3>1, <3>2, <3>3
    <3> QED BY <3>3, <3>4 DEF Postings
  <2> QED BY <2>1, <2>2
<1>7. ASSUME NEW c \in K \ {ElimCell(a, p)} PROVE Postings(us, x, c) = {}
  <2>1. ASSUME NEW q \in Postings(us, x, c) PROVE FALSE
    <3>1. q[2] \in Coords /\ [q[2] EXCEPT !.origin = "Elim"] = c
      BY <1>3, <1>4 DEF Postings
    <3> QED BY <1>1, <3>1, PairFacts
  <2> QED BY <2>1
<1>8. Posted(us, x, ElimCell(a, p)) = SumFunctionOnSet(w, R)
  <2>1. Posted(us, x, ElimCell(a, p)) = SumFunction(w)
    BY DEF Posted
  <2>2. DOMAIN w = R
    OBVIOUS
  <2> HIDE DEF w
  <2> QED BY <2>1, <2>2 DEF SumFunction
<1>9. /\ R \in SUBSET P
      /\ \A q \in P : v[q] \in Int
      /\ \A q \in P \ R : v[q] = 0
      /\ \A q \in R : w[q] = v[q]
  <2>1. /\ \A q \in P : v[q] = IF FCA(ent, q[1], p) = x THEN Val(t(q[1]), q[2]) ELSE 0
        /\ \A q \in R : w[q] = t(q[1])[q[2]]
    BY DEF PostedTerms
  <2>2. \A q \in P : q[1] \in Entities
    BY <1>1
  <2> HIDE DEF v, w, P, R
  <2> QED BY <1>3, <1>6, <2>1, <2>2, WholeValues DEF Val
<1> HIDE DEF K, S, P, R, v, w
<1>10. IsFiniteSet(R)
  BY <1>2, <1>9, FS_Subset
<1>11. SumFunctionOnSet(v, P) = SumFunctionOnSet(v, R)
  BY <1>2, <1>9, SumOfNonzero
<1>12. SumFunctionOnSet(w, R) = SumFunctionOnSet(v, R)
  BY <1>9, <1>10, SumOfEqual
<1> QED BY <1>7, <1>8, <1>11, <1>12 DEF v, P, S, K

LEMMA PostedIsWhole ==
  ASSUME EntityTree(ent), NEW us, RunFits(us), NEW f \in DOMAIN ent,
         NEW a \in Accounts, a \in ICAccounts, NEW p \in Subtree(ent, f), p # None, NEW x \in Subtree(ent, f)
  PROVE  Posted(us, x, ElimCell(a, p)) \in Int
<1>1. Posted(us, x, ElimCell(a, p))
        = SumFunctionOnSet(PostedTerms(us, f, a, p, x), Subtree(ent, f) \X Pair(a, p))
  BY PostedOfPair
<1> DEFINE S == Subtree(ent, f)
           K == Pair(a, p)
           P == S \X K
           v == PostedTerms(us, f, a, p, x)
<1>2. S \subseteq DOMAIN ent /\ S \subseteq Entities /\ p \in Entities
  BY DEF Subtree, EntityTree
<1>3. IsFiniteSet(S) /\ IsFiniteSet(K)
  <2>1. IsFiniteSet(K)
    BY <1>2, PairFacts
  <2> HIDE DEF S
  <2> QED BY <1>2, <2>1, FS_Subset DEF EntityTree
<1>4. \A q \in P : v[q] \in Int
  <2>1. \A q \in P : v[q] = IF FCA(ent, q[1], p) = x THEN Val(us[q[1]]["Translated"], q[2]) ELSE 0
    BY DEF PostedTerms
  <2>2. \A q \in P : Val(us[q[1]]["Translated"], q[2]) \in Int
    BY <1>2, OwnIsWhole DEF Stages
  <2> HIDE DEF P, v
  <2> QED BY <2>1, <2>2
<1>5. IsFiniteSet(P)
  <2> HIDE DEF S, K
  <2> QED BY <1>3, FS_Product
<1> HIDE DEF P, v
<1>6. SumFunctionOnSet(v, P) \in Int
  BY <1>4, <1>5, SumIsInteger
<1> QED BY <1>1, <1>6 DEF P, v

\* What x gathers of account a with p by itself: what it holds, less what is
\* posted there.
LEMMA OwnOfPair ==
  ASSUME EntityTree(ent), NEW s, NEW us, us = Processed(s), RunFits(us), ExactRun(us), NEW f \in DOMAIN ent,
         NEW a \in Accounts, a \in ICAccounts, NEW p \in Subtree(ent, f), p # None, NEW x \in Subtree(ent, f)
  PROVE  SumFunctionOnSet([c \in Pair(a, p) |-> Own(us, x, c)], Pair(a, p))
           = SumFunctionOnSet([c \in Pair(a, p) |-> Val(us[x]["Translated"], c)], Pair(a, p))
               - Posted(us, x, ElimCell(a, p))
<1> DEFINE K == Pair(a, p)
           z == ElimCell(a, p)
           posted == Posted(us, x, z)
           o == [c \in K |-> Own(us, x, c)]
           t == [c \in K |-> Val(us[x]["Translated"], c)]
           l == [c \in K |-> Val(us[x]["Elimination"], c)]
<1>1. x \in DOMAIN ent /\ x \in Entities /\ p \in Entities
  BY DEF Subtree, EntityTree
<1>2. IsFiniteSet(K) /\ K \subseteq Coords /\ z \in K
  BY <1>1, PairFacts
<1>3. posted \in Int
  BY PostedIsWhole
<1>4. \A c \in K : /\ o[c] = t[c] + l[c] /\ t[c] = Val(us[x]["Translated"], c)
                   /\ l[c] = Val(us[x]["Elimination"], c)
  BY DEF Own
<1>5. \A c \in K : t[c] \in Int /\ l[c] \in Int
  <2> HIDE DEF t, l, K
  <2> QED BY <1>1, <1>4, OwnIsWhole DEF Stages
<1>6. \A c \in K : l[c] = -Posted(us, x, c)
  <2> SUFFICES ASSUME NEW c \in K PROVE l[c] = -Posted(us, x, c)
    OBVIOUS
  <2>1. Val(us[x]["Elimination"], c) = Writable(-Posted(us, x, c))
    BY <1>1, RunGathers
  <2>2. Finite(-Posted(us, x, c))
    BY <1>1, <1>2 DEF ExactRun
  <2> HIDE DEF l, K
  <2> QED BY <1>4, <2>1, <2>2 DEF Writable
<1>7. \A c \in K \ {z} : l[c] = 0
  <2> SUFFICES ASSUME NEW c \in K \ {z} PROVE l[c] = 0
    OBVIOUS
  <2>1. Postings(us, x, c) = {}
    BY PostedOfPair
  <2>2. Posted(us, x, c) = 0
    <3> DEFINE q == [y \in Postings(us, x, c) |-> us[y[1]]["Translated"][y[2]]]
    <3>1. Posted(us, x, c) = SumFunction(q) /\ DOMAIN q = {}
      BY <2>1 DEF Posted
    <3> HIDE DEF q
    <3> QED BY <3>1, EmptySum DEF SumFunction
  <2>3. l[c] = -Posted(us, x, c)
    BY <1>6
  <2> DEFINE i == Posted(us, x, c)
             j == l[c]
  <2>4. i = 0 /\ j = -i
    BY <2>2, <2>3
  <2> HIDE DEF i, j
  <2>5. j = 0
    BY <2>4, NoDebt
  <2> QED BY <2>5 DEF j
<1>8. l[z] = -posted
  BY <1>2, <1>6
<1> HIDE DEF K, z, o, t, l, posted
<1>9. SumFunctionOnSet(o, K) = SumFunctionOnSet(t, K) + SumFunctionOnSet(l, K)
  BY <1>2, <1>4, <1>5, SumOfBoth
<1>10. SumFunctionOnSet(l, K) = l[z]
  <2>1. {z} \in SUBSET K /\ l[z] \in Int
    BY <1>2, <1>5
  <2>2. SumFunctionOnSet(l, K) = SumFunctionOnSet(l, {z})
    BY <1>2, <1>5, <1>7, <2>1, SumOfNonzero
  <2> QED BY <2>1, <2>2, SumOfOne
<1>11. SumFunctionOnSet(t, K) \in Int
  BY <1>2, <1>5, SumIsInteger
<1>12. SumFunctionOnSet(o, K) = SumFunctionOnSet(t, K) - posted
  BY <1>3, <1>8, <1>9, <1>10, <1>11
<1> QED BY <1>12 DEF K, z, o, t, posted

\* What is held, and what is posted, of account a with p at each entity below f.
PairAmounts(us, f, a, p, at, posted) ==
  \A x \in Subtree(ent, f) :
    /\ at[x] = SumFunctionOnSet([c \in Pair(a, p) |-> Val(us[x]["Translated"], c)], Pair(a, p))
    /\ posted[x] = Posted(us, x, ElimCell(a, p))

\* Of an account and a partner f has its share of what is held, and owes its
\* share of what is posted, below it.
LEMMA PairOfRun ==
  ASSUME EntityTree(ent), ExactShares, NEW s, NEW us, us = Processed(s), RunFits(us), ExactRun(us),
         NEW f \in DOMAIN ent, NEW a \in Accounts, a \in ICAccounts, NEW p \in Subtree(ent, f), p # None,
         NEW at, NEW posted, PairAmounts(us, f, a, p, at, posted)
  PROVE  100 * Total(us[f]["Consolidated"], Pair(a, p))
           = SumFunctionOnSet([x \in Subtree(ent, f) |-> Share(f, x) * (at[x] - posted[x])], Subtree(ent, f))
<1> DEFINE K == Pair(a, p)
           S == Subtree(ent, f)
           v == [c \in K |-> Val(us[f]["Consolidated"], c)]
           F == [c \in K |-> 100 * v[c]]
           Z == [c \in K |-> 0]
           w == [x \in S |-> Share(f, x)]
           h == [x \in S |-> [c \in K |-> Own(us, x, c)]]
           r == [x \in S |-> Share(f, x) * (at[x] - posted[x])]
           m == us[f]["Consolidated"]
<1>1. f \in Entities /\ p \in Entities /\ S \subseteq Entities /\ S \subseteq DOMAIN ent
  BY DEF Subtree, EntityTree
<1>2. IsFiniteSet(S)
  <2> HIDE DEF S
  <2> QED BY <1>1, FS_Subset DEF EntityTree
<1>3. IsFiniteSet(K) /\ K \subseteq Coords
  BY <1>1, PairFacts
<1>4. Total(m, K) = SumFunctionOnSet(v, K)
  <2>1. Whole(m)
    BY <1>1 DEF RunFits, Stages
  <2> HIDE DEF m, K
  <2>2. Total(m, K) = SumFunctionOnSet([c \in K |-> Val(m, c)], K)
    BY <1>3, <2>1, TotalIsSum
  <2> QED BY <2>2 DEF m
<1>5. /\ \A c \in K : v[c] = Val(us[f]["Consolidated"], c) /\ F[c] = 100 * v[c] /\ Z[c] = 0
      /\ \A x \in S : w[x] = Share(f, x) /\ \A c \in K : h[x][c] = Own(us, x, c)
  OBVIOUS
<1>6. (\A c \in K : v[c] \in Int) /\ (\A x \in S : w[x] \in Int) /\ \A x \in S : \A c \in K : h[x][c] \in Int
  <2> HIDE DEF K, S, v, w, h
  <2> QED BY <1>1, <1>5, OwnIsWhole, SharesCompose DEF Stages
<1>7. ASSUME NEW c \in K
      PROVE  F[c] = Z[c] + SumFunctionOnSet([x \in S |-> w[x] * h[x][c]], S)
  <2> DEFINE q == [x \in S |-> Share(f, x) * Own(us, x, c)]
  <2>1. q = [x \in S |-> w[x] * h[x][c]]
    OBVIOUS
  <2>2. 100 * v[c] = SumFunctionOnSet(q, S)
    <3>1. 100 * Val(us[f]["Consolidated"], c) = SumFunctionOnSet(q, S)
      BY <1>3, SharesOfRun
    <3> QED BY <1>5, <3>1
  <2>3. \A x \in S : q[x] \in Int
    <3>1. \A x \in S : q[x] = w[x] * h[x][c]
      BY <2>1
    <3>2. \A i, j \in Int : i * j \in Int
      OBVIOUS
    <3> HIDE DEF q, S, K, w, h
    <3> QED BY <1>6, <3>1, <3>2
  <2> HIDE DEF q, S, v, Z, F, w, h
  <2>4. SumFunctionOnSet(q, S) \in Int
    BY <1>2, <2>3, SumIsInteger
  <2>5. F[c] = Z[c] + SumFunctionOnSet(q, S)
    BY <1>5, <2>2, <2>4
  <2> QED BY <2>1, <2>5
<1>8. \A x \in S : /\ SumFunctionOnSet(h[x], K) = at[x] - posted[x]
                   /\ r[x] = w[x] * SumFunctionOnSet(h[x], K)
  <2> SUFFICES ASSUME NEW x \in S
               PROVE  SumFunctionOnSet(h[x], K) = at[x] - posted[x]
    OBVIOUS
  <2>1. SumFunctionOnSet([c \in Pair(a, p) |-> Own(us, x, c)], Pair(a, p))
          = SumFunctionOnSet([c \in Pair(a, p) |-> Val(us[x]["Translated"], c)], Pair(a, p))
              - Posted(us, x, ElimCell(a, p))
    BY OwnOfPair
  <2>2. h[x] = [c \in Pair(a, p) |-> Own(us, x, c)]
    OBVIOUS
  <2>3. /\ at[x] = SumFunctionOnSet([c \in Pair(a, p) |-> Val(us[x]["Translated"], c)], Pair(a, p))
        /\ posted[x] = Posted(us, x, ElimCell(a, p))
    BY DEF PairAmounts
  <2> HIDE DEF h
  <2> QED BY <2>1, <2>2, <2>3
<1>9. [x \in S |-> w[x] * SumFunctionOnSet(h[x], K)] = r
  BY <1>8
<1> HIDE DEF K, S, v, F, Z, w, h, r, m
<1>10. Parts(F, Z, w, h, K, S)
  <2>1. \A c \in K : Z[c] \in Int
    BY <1>5
  <2> QED BY <1>6, <1>7, <2>1 DEF Parts
<1>11. SumFunctionOnSet(F, K) = SumFunctionOnSet(Z, K) + SumFunctionOnSet(r, S)
  <2>1. SumFunctionOnSet(F, K)
          = SumFunctionOnSet(Z, K)
              + SumFunctionOnSet([x \in S |-> w[x] * SumFunctionOnSet(h[x], K)], S)
    BY <1>2, <1>3, <1>10, SumOfParts
  <2> QED BY <1>9, <2>1
<1>12. SumFunctionOnSet(Z, K) = 0
  <2>1. {} \in SUBSET K /\ (\A c \in K : Z[c] \in Int) /\ \A c \in K \ {} : Z[c] = 0
    BY <1>5
  <2>2. SumFunctionOnSet(Z, K) = SumFunctionOnSet(Z, {})
    BY <1>3, <2>1, SumOfNonzero
  <2> QED BY <2>2, EmptySum
<1>13. SumFunctionOnSet(F, K) = 100 * SumFunctionOnSet(v, K)
  BY <1>3, <1>5, <1>6, SumScaled
<1>14. SumFunctionOnSet(r, S) \in Int
  <2>1. \A x \in S : r[x] \in Int
    <3>1. \A x \in S : SumFunctionOnSet(h[x], K) \in Int
      BY <1>3, <1>6, SumIsInteger
    <3>2. \A i, j \in Int : i * j \in Int
      OBVIOUS
    <3> QED BY <1>6, <1>8, <3>1, <3>2
  <2> QED BY <1>2, <2>1, SumIsInteger
<1>15. 100 * Total(m, K) = SumFunctionOnSet(r, S)
  BY <1>4, <1>11, <1>12, <1>13, <1>14
<1> QED BY <1>15 DEF m, K, S, r

\* Where the ancestors at which entities meet their partner wholly own them,
\* what they hold nets to nothing.
LEMMA EliminationsNet ==
  ASSUME EntityTree(ent), AmountsAreExact,
         \A s \in Slices : ~ProcessFails(MetaAt(s)) => RunFits(Processed(s))
  PROVE  EliminationNets
<1> SUFFICES ASSUME NEW s \in Slices, ~ProcessFails(MetaAt(s)), NEW us, us = Processed(s),
                    NEW f \in DOMAIN ent, NEW a \in ICAccounts, NEW p \in Subtree(ent, f) \ {None},
                    \A x \in Holders(us, f, a, p) : \A g \in DOMAIN ent : Meet(g, x, p) => Share(g, x) = 100
             PROVE  Total(us[f]["Consolidated"], Pair(a, p)) = 0
  BY DEF EliminationNets, Pair
<1>1. ExactShares /\ RunFits(us) /\ ExactRun(us)
  BY DEF AmountsAreExact
<1> DEFINE K == Pair(a, p)
           S == Subtree(ent, f)
           m == us[f]["Consolidated"]
           w == [x \in S |-> Share(f, x)]
           meet == [x \in S |-> FCA(ent, x, p)]
           held == [q \in S \X K |-> Val(us[q[1]]["Translated"], q[2])]
           at == [x \in S |-> SumFunctionOnSet([c \in K |-> held[<<x, c>>]], K)]
           posted == [x \in S |-> Posted(us, x, ElimCell(a, p))]
<1>2. f \in Entities /\ p \in Entities /\ S \subseteq Entities /\ S \subseteq DOMAIN ent
  BY DEF Subtree, EntityTree
<1>3. CASE a \notin Accounts
  <2>1. DOMAIN m \cap K = {}
    <3>1. DOMAIN m \subseteq Coords
      BY <1>1, <1>2 DEF RunFits, Stages
    <3>2. \A c \in Coords : c.acct \in Accounts
      BY DEF Coords
    <3>3. \A c \in K : c.acct = a
      BY DEF Pair
    <3> HIDE DEF m, K
    <3> QED BY <1>3, <3>1, <3>2, <3>3
  <2> HIDE DEF m, K
  <2>2. Total(m, K) = 0
    BY <2>1, EmptySum DEF Total
  <2> QED BY <2>2 DEF m, K
<1>4. CASE a \in Accounts
  <2>1. IsFiniteSet(S)
    <3> HIDE DEF S
    <3> QED BY <1>2, FS_Subset DEF EntityTree
  <2>2. IsFiniteSet(K) /\ K \subseteq Coords
    BY <1>2, <1>4, PairFacts
  <2>3. \A x \in S : w[x] \in Int
    BY <1>1, SharesCompose
  <2>4. \A x \in S : meet[x] \in S /\ x \in Subtree(ent, meet[x]) /\ Meet(meet[x], x, p) /\ meet[x] \in DOMAIN ent
    <3>1. \A x \in S : meet[x] = FCA(ent, x, p)
      OBVIOUS
    <3> HIDE DEF meet
    <3> QED BY <1>2, <3>1, PartnersMeet
  <2>5. \A q \in S \X K : /\ held[q] = Val(us[q[1]]["Translated"], q[2])
                          /\ held[q] \in Int
                          /\ q[1] \in S /\ q[2] \in K
    <3>1. \A q \in S \X K : held[q] = Val(us[q[1]]["Translated"], q[2]) /\ q[1] \in S /\ q[2] \in K
      OBVIOUS
    <3> HIDE DEF held, K, S
    <3> QED BY <1>1, <1>2, <3>1, OwnIsWhole DEF Stages
  <2>6. ASSUME NEW q \in S \X K, held[q] # 0
        PROVE  w[meet[q[1]]] = w[q[1]]
    <3> DEFINE x == q[1]
               g == meet[x]
    <3>1. x \in S /\ q[2] \in K /\ q[2] \in DOMAIN us[x]["Translated"]
      BY <2>5, <2>6 DEF Val
    <3>2. q[2].acct = a /\ q[2].ic = p
      BY <3>1 DEF Pair
    <3>3. x \in Holders(us, f, a, p)
      BY <3>1, <3>2 DEF Holders
    <3>4. g \in S /\ x \in Subtree(ent, g) /\ Meet(g, x, p) /\ g \in DOMAIN ent
      BY <2>4, <3>1
    <3>5. Share(g, x) = 100
      BY <3>3, <3>4
    <3>6. w[g] = Share(f, g) /\ w[x] = Share(f, x)
      BY <3>1, <3>4
    <3> HIDE DEF x, g, S, w, meet
    <3>7. Share(f, x) = Share(f, g)
      BY <1>1, <3>4, <3>5, OwnedIsShared DEF S
    <3>8. w[g] = w[x]
      BY <3>6, <3>7
    <3> QED BY <3>8 DEF x, g
  <2>7. \A x \in S : /\ at[x] = SumFunctionOnSet([c \in K |-> Val(us[x]["Translated"], c)], K)
                     /\ posted[x] = Posted(us, x, ElimCell(a, p))
    <3> SUFFICES ASSUME NEW x \in S
                 PROVE  at[x] = SumFunctionOnSet([c \in K |-> Val(us[x]["Translated"], c)], K)
      OBVIOUS
    <3>1. [c \in K |-> held[<<x, c>>]] = [c \in K |-> Val(us[x]["Translated"], c)]
      OBVIOUS
    <3>2. at[x] = SumFunctionOnSet([c \in K |-> held[<<x, c>>]], K)
      OBVIOUS
    <3> HIDE DEF at, held
    <3> QED BY <3>1, <3>2
  <2>8. \A x \in S : posted[x] = SumFunctionOnSet([q \in S \X K |->
                                   IF meet[q[1]] = x THEN held[q] ELSE 0], S \X K)
    <3> SUFFICES ASSUME NEW x \in S
                 PROVE  posted[x] = SumFunctionOnSet([q \in S \X K |->
                                   IF meet[q[1]] = x THEN held[q] ELSE 0], S \X K)
      OBVIOUS
    <3>1. Posted(us, x, ElimCell(a, p)) = SumFunctionOnSet(PostedTerms(us, f, a, p, x), S \X K)
      BY <1>1, <1>4, PostedOfPair
    <3>2. PostedTerms(us, f, a, p, x) = [q \in S \X K |-> IF meet[q[1]] = x THEN held[q] ELSE 0]
      BY DEF PostedTerms
    <3> QED BY <3>1, <3>2
  <2>9. \A x \in S : at[x] = SumFunctionOnSet([c \in K |-> held[<<x, c>>]], K)
    OBVIOUS
  <2>10. 100 * Total(m, K) = SumFunctionOnSet([x \in S |-> Share(f, x) * (at[x] - posted[x])], S)
    <3>1. PairAmounts(us, f, a, p, at, posted)
      <4> HIDE DEF at, posted, held, w, meet
      <4> QED BY <2>7 DEF PairAmounts
    <3>2. p \in Subtree(ent, f) /\ p # None
      OBVIOUS
    <3> HIDE DEF at, posted, held, w, meet
    <3> QED BY <1>1, <1>4, <3>1, <3>2, PairOfRun
  <2>11. [x \in S |-> Share(f, x) * (at[x] - posted[x])] = [x \in S |-> w[x] * (at[x] - posted[x])]
    <3> HIDE DEF at, posted
    <3> QED OBVIOUS
  <2>12. Posting(S, K, w, meet, held, at, posted)
    <3> HIDE DEF S, K, w, meet, held, at, posted
    <3> QED BY <2>3, <2>4, <2>5, <2>6, <2>8, <2>9 DEF Posting
  <2>13. Total(m, K) \in Int
    <3>1. Whole(m)
      BY <1>1, <1>2 DEF RunFits, Stages
    <3>2. \A c \in DOMAIN m \cap K : m[c] \in Int
      BY <3>1 DEF Whole
    <3> HIDE DEF m, K
    <3>3. IsFiniteSet(DOMAIN m \cap K)
      BY <2>2, FS_Subset
    <3> QED BY <3>2, <3>3, SumIsInteger DEF Total
  <2> DEFINE A == [x \in S |-> w[x] * at[x]]
             B == [x \in S |-> w[x] * posted[x]]
             R == [x \in S |-> w[x] * (at[x] - posted[x])]
  <2>14. \A x \in S : at[x] \in Int /\ posted[x] \in Int
    <3>0. ASSUME NEW x \in Subtree(ent, f) PROVE Posted(us, x, ElimCell(a, p)) \in Int
      <4>1. p \in Subtree(ent, f) /\ p # None
        OBVIOUS
      <4> QED BY <1>1, <1>4, <4>1, PostedIsWhole
    <3> HIDE DEF K, S, w, held, at, posted
    <3> SUFFICES ASSUME NEW x \in S PROVE at[x] \in Int /\ posted[x] \in Int
      OBVIOUS
    <3> DEFINE u == [c \in K |-> held[<<x, c>>]]
    <3>1. \A c \in K : u[c] \in Int
      BY <2>5
    <3>2. at[x] = SumFunctionOnSet(u, K)
      BY <2>9
    <3> HIDE DEF u
    <3>3. at[x] \in Int
      BY <2>2, <3>1, <3>2, SumIsInteger
    <3>4. posted[x] \in Int
      BY <2>7, <3>0 DEF S
    <3> QED BY <3>3, <3>4
  <2>15. \A x \in S : A[x] \in Int /\ B[x] \in Int /\ R[x] \in Int /\ A[x] = R[x] + B[x]
    <3>1. \A x \in S : A[x] = w[x] * at[x] /\ B[x] = w[x] * posted[x] /\ R[x] = w[x] * (at[x] - posted[x])
      OBVIOUS
    <3> HIDE DEF S, w, at, posted, A, B, R
    <3>2. \A i, j, k \in Int : /\ i * j \in Int /\ j - k \in Int
                               /\ i * j = i * (j - k) + i * k
      OBVIOUS
    <3> QED BY <2>3, <2>14, <3>1, <3>2
  <2>16. SumFunctionOnSet(A, S) = SumFunctionOnSet(B, S)
    <3> HIDE DEF S, K, w, meet, held, at, posted
    <3> QED BY <2>1, <2>2, <2>12, PostingsWeighAlike
  <2> HIDE DEF S, A, B, R, w, at, posted, m, K
  <2>17. SumFunctionOnSet(A, S) = SumFunctionOnSet(R, S) + SumFunctionOnSet(B, S)
    BY <2>1, <2>15, SumOfBoth
  <2>18. SumFunctionOnSet(A, S) \in Int /\ SumFunctionOnSet(B, S) \in Int /\ SumFunctionOnSet(R, S) \in Int
    BY <2>1, <2>15, SumIsInteger
  <2>19. SumFunctionOnSet(R, S) = 0
    BY <2>16, <2>17, <2>18
  <2>20. 100 * Total(m, K) = SumFunctionOnSet(R, S)
    BY <2>10, <2>11 DEF R
  <2>21. Total(m, K) = 0
    BY <2>13, <2>19, <2>20
  <2> QED BY <2>21 DEF m, K
<1> QED BY <1>3, <1>4

-----------------------------------------------------------------------------
(* Consolidated queries: what stageCells falls back to.                    *)

\* Cells as users and formulas leave them in Input.
Entered(m) == \A c \in DOMAIN m : c.origin # "Elim" /\ m[c] # 0 /\ Finite(m[c])

LEMMA TranslatedOfRun ==
  ASSUME NEW s, NEW f \in Entities
  PROVE  /\ Processed(s)[f]["Translated"] = Translated(MetaAt(s), f, Processed(s)[f]["Input"])
         /\ ~Has(ent, f) => Processed(s)[f]["Consolidated"] = Empty
<1> DEFINE meta  == MetaAt(s)
           input == Calculated(meta, units[s])
           us    == Processed(s)
<1>1. us = Derived(meta, input) /\ meta.ent = ent
  BY DEF Processed, Process, MetaAt
<1>2. AllTranslated(meta, input)[f] = Translated(meta, f, input[f])
  BY DEF AllTranslated
<1> HIDE DEF meta, us, input
<1>3. LET u == Derived(meta, input)[f]
      IN  /\ u["Input"] = input[f] /\ u["Translated"] = AllTranslated(meta, input)[f]
          /\ ~Has(meta.ent, f) => u["Consolidated"] = Empty
  BY DerivedStages
<1>4. us[f]["Translated"] = Translated(meta, f, us[f]["Input"]) /\ (~Has(ent, f) => us[f]["Consolidated"] = Empty)
  BY <1>1, <1>2, <1>3
<1> QED BY <1>4 DEF meta, us

\* A cell map made by Keep is Empty when it has no cell.
LEMMA KeepsNothing == \A f : DOMAIN Keep(f) = {} => Keep(f) = Empty
<1> SUFFICES ASSUME NEW f, DOMAIN Keep(f) = {} PROVE Keep(f) = Empty
  OBVIOUS
<1> DEFINE m == Strict(f)
           S == {x \in DOMAIN m : m[x] # 0}
<1>1. Keep(f) = [c \in S |-> m[c]]
  BY DEF Keep
<1> HIDE DEF m, S
<1>2. S = {}
  BY <1>1
<1> QED BY <1>1, <1>2 DEF Empty

\* The cells translate writes, and at the group's currency leaves as they are.
LEMMA TranslatedCells ==
  ASSUME NEW meta, NEW f, NEW input, Whole(input), Entered(input)
  PROVE  LET tr == Translated(meta, f, input)
         IN  /\ NonZero(tr) /\ DOMAIN tr \subseteq DOMAIN input
             /\ DOMAIN tr = {} => tr = Empty
             /\ EntityCurrency(meta, f) = GroupCurrency /\ tr = Empty => DOMAIN input = {}
<1> DEFINE rate(c) == ToGroup(meta, EntityCurrency(meta, f), RateType(TypeOf(meta, c.acct)))
           all == [c \in DOMAIN input |-> Writable(input[c] * rate(c))]
<1>1. Translated(meta, f, input) = Keep(all)
  BY DEF Translated
<1>2. DOMAIN all = DOMAIN input
  OBVIOUS
<1>3. NonZero(Keep(all)) /\ DOMAIN Keep(all) = {c \in DOMAIN input : all[c] # 0}
      /\ (DOMAIN Keep(all) = {} => Keep(all) = Empty)
  <2> HIDE DEF all
  <2> QED BY <1>2, KeepFacts, KeepsNothing
<1>4. ASSUME EntityCurrency(meta, f) = GroupCurrency, Keep(all) = Empty, NEW c \in DOMAIN input
      PROVE  FALSE
  <2>1. rate(c) = 1
    BY <1>4 DEF ToGroup
  <2>2. all[c] = Writable(input[c] * 1)
    BY <2>1
  <2>3. input[c] * 1 = input[c]
    BY DEF Whole
  <2>4. all[c] = input[c] /\ input[c] # 0
    BY <2>2, <2>3 DEF Entered, Writable
  <2>5. DOMAIN Keep(all) = {}
    BY <1>4 DEF Empty
  <2> HIDE DEF all
  <2> QED BY <1>3, <2>4, <2>5
<1> HIDE DEF all
<1> QED BY <1>1, <1>3, <1>4

\* eliminate writes cells of origin Elim alone.
LEMMA NoOtherEliminated ==
  ASSUME EntityTree(ent), NEW s, NEW us, us = Processed(s), RunFits(us), NEW f \in DOMAIN ent,
         NEW c, c.origin # "Elim"
  PROVE  Val(us[f]["Elimination"], c) = 0
<1>1. Postings(us, f, c) = {}
  <2>1. ASSUME NEW q \in Postings(us, f, c) PROVE FALSE
    <3>1. /\ q[1] \in Entities /\ q[2] \in DOMAIN us[q[1]]["Translated"]
          /\ [q[2] EXCEPT !.origin = "Elim"] = c
      BY DEF Postings, Eliminated, Meta
    <3>2. q[2] \in Coords
      BY <3>1 DEF RunFits, Stages
    <3>3. q[2] = [acct |-> q[2].acct, origin |-> q[2].origin, ic |-> q[2].ic]
      BY <3>2 DEF Coords
    <3>4. [q[2] EXCEPT !.origin = "Elim"].origin = "Elim"
      BY <3>3
    <3> QED BY <3>1, <3>4
  <2> QED BY <2>1
<1> DEFINE q == [p \in Postings(us, f, c) |-> us[p[1]]["Translated"][p[2]]]
           i == Posted(us, f, c)
           j == -Posted(us, f, c)
<1>2. i = SumFunction(q) /\ DOMAIN q = {}
  BY <1>1 DEF Posted
<1>3. i = 0
  <2> HIDE DEF q, i
  <2> QED BY <1>2, EmptySum DEF SumFunction
<1>4. j = -i
  OBVIOUS
<1>5. Val(us[f]["Elimination"], c) = Writable(j)
  BY RunGathers
<1> HIDE DEF i, j, q
<1>6. j = 0
  BY <1>3, <1>4, NoDebt
<1> QED BY <1>5, <1>6 DEF Writable

\* A stage without cells is read as another one only where that is empty too.
LEMMA FallbackFindsNothing ==
  ASSUME EntityTree(ent), NEW s, NEW us, us = Processed(s), RunFits(us), ExactRun(us), NEW f \in DOMAIN ent,
         Entered(us[f]["Input"]),
         IsLeaf(ent, f) \/ us[f]["Input"] = Empty \/ us[f]["Consolidated"] # Empty
  PROVE  LET cells == StageCells(us[f], "Consolidated", EntityCurrency(Meta, f) = GroupCurrency)
         IN  cells = us[f]["Consolidated"] \/ (DOMAIN cells = {} /\ DOMAIN us[f]["Consolidated"] = {})
<1> DEFINE meta  == MetaAt(s)
           input == us[f]["Input"]
           tr    == us[f]["Translated"]
           cons  == us[f]["Consolidated"]
           same  == EntityCurrency(Meta, f) = GroupCurrency
<1>1. f \in Entities
  BY DEF EntityTree
<1>2. tr = Translated(meta, f, input)
  BY <1>1, TranslatedOfRun
<1>3. Whole(input) /\ DOMAIN tr \subseteq Coords
  BY <1>1 DEF RunFits, Stages
<1>4. EntityCurrency(meta, f) = EntityCurrency(Meta, f)
  BY DEF EntityCurrency, MetaAt, Meta
<1> HIDE DEF meta, input, tr, cons
<1>5. /\ NonZero(tr) /\ DOMAIN tr \subseteq DOMAIN input
      /\ DOMAIN tr = {} => tr = Empty
      /\ same /\ tr = Empty => DOMAIN input = {}
  BY <1>2, <1>3, <1>4, TranslatedCells DEF input
<1>6. ASSUME cons = Empty PROVE tr = Empty
  <2>1. CASE input = Empty
    BY <1>5, <2>1 DEF Empty
  <2>2. CASE IsLeaf(ent, f)
    <3>1. ASSUME NEW c \in DOMAIN tr PROVE FALSE
      <4>1. c \in Coords /\ c.origin # "Elim" /\ tr[c] # 0 /\ tr[c] \in Int
        BY <1>1, <1>3, <1>5 DEF Entered, NonZero, input, RunFits, Stages, Whole, tr
      <4>2. Val(us[f]["Elimination"], c) = 0
        BY <4>1, NoOtherEliminated
      <4>3. Own(us, f, c) = tr[c]
        BY <4>1, <4>2 DEF Own, Val, tr
      <4> DEFINE z == [k \in Children(ent, f) |-> Contribution(k, Val(us[k]["Consolidated"], c))]
      <4>4. DOMAIN z = {}
        BY <2>2 DEF IsLeaf
      <4>5. Gathered(us, f, c) = Own(us, f, c) + SumFunction(z)
        BY DEF Gathered
      <4> HIDE DEF z
      <4>6. Gathered(us, f, c) = tr[c]
        BY <4>1, <4>3, <4>4, <4>5, EmptySum DEF SumFunction
      <4>7. Val(cons, c) = Writable(tr[c])
        BY <4>6, RunGathers DEF cons
      <4>8. Finite(tr[c])
        BY <4>1, <4>6 DEF ExactRun
      <4>9. Val(cons, c) = 0
        BY <1>6 DEF Val, Empty
      <4> QED BY <4>1, <4>7, <4>8, <4>9 DEF Writable
    <3> QED BY <1>5, <3>1
  <2> QED BY <1>6, <2>1, <2>2 DEF cons, input
<1>7. CASE cons # Empty
  BY <1>7 DEF StageCells, cons
<1>8. CASE cons = Empty
  <2>1. tr = Empty /\ (same => DOMAIN input = {})
    BY <1>5, <1>6, <1>8
  <2>2. StageCells(us[f], "Consolidated", same) = IF same THEN input ELSE Empty
    BY <1>8, <2>1 DEF StageCells, cons, tr, input
  <2>3. DOMAIN StageCells(us[f], "Consolidated", same) = {} /\ DOMAIN cons = {}
    BY <1>8, <2>1, <2>2 DEF Empty
  <2> QED BY <2>3 DEF cons
<1> QED BY <1>7, <1>8

-----------------------------------------------------------------------------
(* Consolidated queries: shares of sums.                                   *)

\* What a cell counts for in a query.
Counts(pov, w, c) == IF Matches(pov, c) THEN Factor(w, c.acct) ELSE 0

LEMMA CountsIsWhole == \A pov, w, c : Weighs(w) => Counts(pov, w, c) \in Int
  BY DEF Counts, Factor, Weighs

\* A sum of cells is one over any set that holds them.
LEMMA CellsCounted ==
  ASSUME NEW U, IsFiniteSet(U), NEW cells, DOMAIN cells \subseteq U, Whole(cells),
         NEW w, Weighs(w), NEW pov, NEW f, \A c \in U : f[c] = Counts(pov, w, c) * Val(cells, c)
  PROVE  SumCells(pov, w, cells) = SumFunctionOnSet(f, U) /\ \A c \in U : f[c] \in Int
<1> DEFINE M == Matching(pov, cells)
           g == [c \in M |-> cells[c] * Factor(w, c.acct)]
<1>1. IsFiniteSet(DOMAIN cells) /\ M \in SUBSET U
  BY FS_Subset DEF Matching
<1>2. \A c \in M : g[c] = cells[c] * Factor(w, c.acct)
  OBVIOUS
<1> HIDE DEF g
<1>3. IsFiniteSet(M) /\ (\A c \in M : g[c] \in Int) /\ SumCells(pov, w, cells) = SumFunctionOnSet(g, M)
  BY <1>1, <1>2, CellSum
<1>4. \A a, b \in Int : a * b \in Int /\ a * b = b * a /\ a * 0 = 0 /\ 0 * a = 0
  OBVIOUS
<1>5. \A c \in U : f[c] \in Int
  <2>1. \A c \in U : Counts(pov, w, c) \in Int /\ Val(cells, c) \in Int
    BY CountsIsWhole, WholeValues
  <2> QED BY <1>4, <2>1
<1>6. \A c \in M : f[c] = g[c]
  <2>1. \A c \in M : /\ Counts(pov, w, c) = Factor(w, c.acct) /\ Val(cells, c) = cells[c]
                     /\ Counts(pov, w, c) \in Int /\ Val(cells, c) \in Int
    BY CountsIsWhole, WholeValues DEF Matching, Counts, Val
  <2>2. \A c \in M : f[c] = Counts(pov, w, c) * Val(cells, c)
    BY <1>1
  <2> HIDE DEF M
  <2> QED BY <1>2, <1>4, <2>1, <2>2
<1>7. \A c \in U \ M : f[c] = 0
  <2>1. \A c \in U \ M : Counts(pov, w, c) = 0 \/ Val(cells, c) = 0
    BY DEF Matching, Counts, Val
  <2>2. \A c \in U : Counts(pov, w, c) \in Int /\ Val(cells, c) \in Int
    BY CountsIsWhole, WholeValues
  <2> QED BY <1>4, <2>1, <2>2
<1> HIDE DEF M
<1>8. SumFunctionOnSet(f, U) = SumFunctionOnSet(f, M)
  BY <1>1, <1>5, <1>7, SumOfNonzero
<1>9. SumFunctionOnSet(f, M) = SumFunctionOnSet(g, M)
  BY <1>3, <1>6, SumOfEqual
<1> QED BY <1>3, <1>5, <1>8, <1>9

LEMMA EmptyCells == ASSUME NEW pov, NEW w, NEW cells, DOMAIN cells = {} PROVE SumCells(pov, w, cells) = 0
<1> DEFINE g == [c \in {x \in DOMAIN cells : Matches(pov, x) /\ x.acct \in DOMAIN w} |-> cells[c] * w[c.acct]]
<1>1. SumCells(pov, w, cells) = SumFunction(g) /\ DOMAIN g = {}
  BY DEF SumCells
<1> HIDE DEF g
<1> QED BY <1>1, EmptySum DEF SumFunction

\* Numbers of hundreds add up to one.
LEMMA HundredsAdd ==
  ASSUME NEW S, IsFiniteSet(S), NEW f, \A x \in S : f[x] \in Int /\ Hundredfold(f[x])
  PROVE  Hundredfold(SumFunctionOnSet(f, S))
<1> DEFINE g == [x \in S |-> f[x] \div 100]
<1>1. \A x \in S : g[x] \in Int /\ f[x] = 100 * g[x]
  BY DEF Hundredfold
<1> HIDE DEF g
<1>2. SumFunctionOnSet(f, S) = 100 * SumFunctionOnSet(g, S) /\ SumFunctionOnSet(g, S) \in Int
  BY <1>1, SumScaled, SumIsInteger
<1> DEFINE a == SumFunctionOnSet(f, S)
           b == SumFunctionOnSet(g, S)
<1>3. a = 100 * b /\ b \in Int
  BY <1>2
<1> HIDE DEF a, b
<1>4. (100 * b) \div 100 = b
  BY <1>3
<1>5. Hundredfold(a)
  BY <1>3, <1>4 DEF Hundredfold
<1> QED BY <1>5 DEF a

LEMMA HundredsTimes ==
  ASSUME NEW a \in Int, NEW b \in Int, Hundredfold(a)
  PROVE  Hundredfold(b * a)
<1>1. a \div 100 \in Int /\ a = 100 * (a \div 100)
  BY DEF Hundredfold
<1> DEFINE q == a \div 100
           r == b * q
<1>2. q \in Int /\ b * a = b * (100 * q)
  BY <1>1
<1> HIDE DEF q
<1>3. r \in Int /\ b * (100 * q) = 100 * r
  BY <1>2
<1> HIDE DEF r
<1>4. (100 * r) \div 100 = r
  BY <1>3
<1>5. b * a = 100 * r
  BY <1>2, <1>3
<1> QED BY <1>4, <1>5 DEF Hundredfold

\* The cells of a run are those of a finite set of coordinates.
LEMMA RunUniverse ==
  ASSUME EntityTree(ent), NEW us, RunFits(us)
  PROVE  \E U : /\ IsFiniteSet(U) /\ U \subseteq Coords
                /\ \A x \in DOMAIN ent, st \in Stages : DOMAIN us[x][st] \subseteq U
<1> DEFINE P == (DOMAIN ent) \X Stages
           f == [p \in P |-> DOMAIN us[p[1]][p[2]]]
           F == {f[p] : p \in P}
           U == UNION F
<1>1. IsFiniteSet(Stages)
  <2>1. Stages = {"Input"} \cup {"Translated"} \cup {"Elimination"} \cup {"Consolidated"}
    BY DEF Stages
  <2> QED BY <2>1, FS_Singleton, FS_Union
<1>2. IsFiniteSet(P)
  BY <1>1, FS_Product DEF EntityTree
<1>3. IsFiniteSet(F)
  <2>1. DOMAIN f = P
    OBVIOUS
  <2> HIDE DEF f, P
  <2> QED BY <1>2, <2>1, ImageIsFinite
<1>4. \A p \in P : f[p] = DOMAIN us[p[1]][p[2]] /\ IsFiniteSet(f[p]) /\ f[p] \subseteq Coords
  BY DEF RunFits, EntityTree
<1>5. \A T \in F : IsFiniteSet(T) /\ T \subseteq Coords
  <2> HIDE DEF f, P
  <2> QED BY <1>4
<1>6. IsFiniteSet(U)
  <2> HIDE DEF F
  <2> QED BY <1>3, <1>5, FS_UNION
<1>7. U \subseteq Coords
  <2> HIDE DEF F
  <2> QED BY <1>5
<1>8. \A x \in DOMAIN ent, st \in Stages : DOMAIN us[x][st] \subseteq U
  <2> SUFFICES ASSUME NEW x \in DOMAIN ent, NEW st \in Stages PROVE DOMAIN us[x][st] \in F
    OBVIOUS
  <2> DEFINE p == <<x, st>>
  <2>1. p \in P /\ f[p] = DOMAIN us[x][st]
    OBVIOUS
  <2> HIDE DEF f, P, p
  <2> QED BY <2>1
<1> HIDE DEF U
<1> QED BY <1>6, <1>7, <1>8

\* a is what matches in two stages of each entity below f, b the share of f in it.
RunAmounts(us, f, pov, w, a, b) ==
  \A x \in Subtree(ent, f) : /\ a[x] = SumCells(pov, w, us[x]["Translated"])
                                      + SumCells(pov, w, us[x]["Elimination"])
                             /\ b[x] = Share(f, x) * a[x]

\* Of the matching cells of a month an entity has its share of those below it.
LEMMA MonthOfRun ==
  ASSUME EntityTree(ent), ExactShares, NEW s, NEW us, us = Processed(s), RunFits(us), ExactRun(us),
         NEW f \in DOMAIN ent, NEW pov, NEW w, Weighs(w),
         NEW a, NEW b, RunAmounts(us, f, pov, w, a, b)
  PROVE  /\ \A x \in Subtree(ent, f) : a[x] \in Int /\ Hundredfold(b[x])
         /\ 100 * SumCells(pov, w, us[f]["Consolidated"]) = SumFunctionOnSet(b, Subtree(ent, f))
<1> DEFINE S == Subtree(ent, f)
           n(c) == Counts(pov, w, c)
<1>1. PICK U : /\ IsFiniteSet(U) /\ U \subseteq Coords
               /\ \A x \in DOMAIN ent, st \in Stages : DOMAIN us[x][st] \subseteq U
  BY RunUniverse
<1> USE DEF RunAmounts
<1>2. f \in Entities /\ S \subseteq Entities /\ S \subseteq DOMAIN ent
  BY DEF Subtree, EntityTree
<1>3. IsFiniteSet(S)
  <2> HIDE DEF S
  <2> QED BY <1>2, FS_Subset DEF EntityTree
<1>4. \A c : n(c) \in Int
  BY CountsIsWhole
<1>5. \A x \in DOMAIN ent, st \in Stages : Whole(us[x][st]) /\ \A c : Val(us[x][st], c) \in Int
  BY WholeValues DEF RunFits, EntityTree
<1>6. \A x : Share(f, x) \in Int
  BY SharesCompose
<1> DEFINE W == [x \in S |-> Share(f, x)]
           h == [x \in S |-> [c \in U |-> n(c) * Own(us, x, c)]]
           v == [c \in U |-> n(c) * Val(us[f]["Consolidated"], c)]
           F == [c \in U |-> 100 * v[c]]
           Z == [c \in U |-> 0]
           r == [x \in S |-> Share(f, x) * a[x]]
<1>0. \A i, j \in Int : i * j \in Int
  OBVIOUS
<1>7. /\ \A x \in S : W[x] = Share(f, x) /\ r[x] = Share(f, x) * a[x]
                      /\ \A c \in U : h[x][c] = n(c) * Own(us, x, c)
      /\ \A c \in U : v[c] = n(c) * Val(us[f]["Consolidated"], c) /\ F[c] = 100 * v[c] /\ Z[c] = 0
  OBVIOUS
<1>8. ASSUME NEW x \in S
      PROVE  /\ \A c \in U : h[x][c] \in Int
             /\ SumFunctionOnSet(h[x], U) = a[x] /\ a[x] \in Int
  <2> DEFINE t == [c \in U |-> n(c) * Val(us[x]["Translated"], c)]
             l == [c \in U |-> n(c) * Val(us[x]["Elimination"], c)]
             hx == h[x]
             T == us[x]["Translated"]
             E == us[x]["Elimination"]
  <2>1. DOMAIN T \subseteq U /\ DOMAIN E \subseteq U /\ Whole(T) /\ Whole(E)
        /\ \A c : Val(T, c) \in Int /\ Val(E, c) \in Int
    BY <1>1, <1>2, <1>5 DEF Stages
  <2>2. \A c \in U : t[c] = Counts(pov, w, c) * Val(T, c) /\ l[c] = Counts(pov, w, c) * Val(E, c)
    OBVIOUS
  <2>3. \A c \in U : hx[c] = n(c) * (Val(T, c) + Val(E, c))
    BY DEF Own
  <2>4. a[x] = SumCells(pov, w, T) + SumCells(pov, w, E)
    OBVIOUS
  <2> HIDE DEF t, l, hx, h, T, E, n, S
  <2>5. SumCells(pov, w, T) = SumFunctionOnSet(t, U) /\ \A c \in U : t[c] \in Int
    <3>1. DOMAIN T \subseteq U /\ Whole(T) /\ \A c \in U : t[c] = Counts(pov, w, c) * Val(T, c)
      BY <2>1, <2>2
    <3> QED BY <1>1, <3>1, CellsCounted
  <2>6. SumCells(pov, w, E) = SumFunctionOnSet(l, U) /\ \A c \in U : l[c] \in Int
    <3>1. DOMAIN E \subseteq U /\ Whole(E) /\ \A c \in U : l[c] = Counts(pov, w, c) * Val(E, c)
      BY <2>1, <2>2
    <3> QED BY <1>1, <3>1, CellsCounted
  <2>7. \A c \in U : hx[c] = t[c] + l[c]
    <3>1. \A i, j, k \in Int : i * (j + k) = i * j + i * k
      OBVIOUS
    <3> QED BY <1>4, <2>1, <2>2, <2>3, <3>1 DEF n
  <2>8. SumFunctionOnSet(hx, U) = SumFunctionOnSet(t, U) + SumFunctionOnSet(l, U)
    BY <1>1, <2>5, <2>6, <2>7, SumOfBoth
  <2>9. SumFunctionOnSet(t, U) \in Int /\ SumFunctionOnSet(l, U) \in Int
    BY <1>1, <2>5, <2>6, SumIsInteger
  <2>10. \A c \in U : hx[c] \in Int
    BY <2>5, <2>6, <2>7
  <2> QED BY <2>4, <2>5, <2>6, <2>8, <2>9, <2>10 DEF hx
<1>9. ASSUME NEW x \in S
      PROVE  Hundredfold(Share(f, x) * a[x])
  <2> DEFINE q == [c \in U |-> Share(f, x) * h[x][c]]
             hx == h[x]
             k == Share(f, x)
  <2>1. \A c \in U : q[c] \in Int /\ Hundredfold(q[c])
    <3> SUFFICES ASSUME NEW c \in U PROVE q[c] \in Int /\ Hundredfold(q[c])
      OBVIOUS
    <3> DEFINE o == Own(us, x, c)
               m == n(c)
    <3>1. o \in Int
      BY <1>2, OwnIsWhole
    <3>2. m \in Int /\ k \in Int
      BY <1>4, <1>6
    <3>3. Hundredfold(k * o)
      BY <1>1 DEF ExactRun
    <3>4. q[c] = k * (m * o)
      OBVIOUS
    <3> HIDE DEF o, m, k, q
    <3>5. k * o \in Int /\ k * (m * o) = m * (k * o)
      BY <3>1, <3>2
    <3>6. m * (k * o) \in Int
      BY <1>0, <3>2, <3>5
    <3>7. Hundredfold(m * (k * o))
      <4> DEFINE z == k * o
      <4>1. z \in Int /\ Hundredfold(z)
        BY <3>3, <3>5
      <4> HIDE DEF z
      <4>2. Hundredfold(m * z)
        BY <3>2, <4>1, HundredsTimes
      <4> QED BY <4>2 DEF z
    <3> QED BY <3>4, <3>5, <3>6, <3>7
  <2>2. \A c \in U : q[c] = k * hx[c]
    OBVIOUS
  <2>3. k \in Int /\ (\A c \in U : hx[c] \in Int) /\ SumFunctionOnSet(hx, U) = a[x]
    BY <1>6, <1>8
  <2> HIDE DEF q, hx, k
  <2>4. SumFunctionOnSet(q, U) = k * SumFunctionOnSet(hx, U)
    BY <1>1, <2>2, <2>3, SumScaled
  <2>5. Hundredfold(SumFunctionOnSet(q, U))
    BY <1>1, <2>1, HundredsAdd
  <2>6. Hundredfold(k * a[x])
    BY <2>3, <2>4, <2>5
  <2> QED BY <2>6 DEF k
<1>10. ASSUME NEW c \in U
       PROVE  /\ v[c] \in Int
              /\ F[c] = Z[c] + SumFunctionOnSet([x \in S |-> W[x] * h[x][c]], S)
  <2> DEFINE d == [x \in S |-> Share(f, x) * Own(us, x, c)]
             e == [x \in S |-> W[x] * h[x][c]]
             m == n(c)
             z == Val(us[f]["Consolidated"], c)
  <2>1. 100 * z = SumFunctionOnSet(d, S)
    BY <1>1, SharesOfRun
  <2>2. \A x \in S : d[x] \in Int /\ e[x] = m * d[x]
    <3> SUFFICES ASSUME NEW x \in S PROVE d[x] \in Int /\ e[x] = m * d[x]
      OBVIOUS
    <3> DEFINE k == Share(f, x)
               o == Own(us, x, c)
    <3>1. k \in Int /\ o \in Int /\ m \in Int
      BY <1>2, <1>4, <1>6, OwnIsWhole
    <3>2. d[x] = k * o /\ e[x] = k * (m * o)
      OBVIOUS
    <3> HIDE DEF k, o, m, d, e
    <3>3. k * o \in Int /\ k * (m * o) = m * (k * o)
      BY <3>1
    <3> QED BY <3>2, <3>3
  <2>3. m \in Int /\ z \in Int
    BY <1>2, <1>4, <1>5 DEF Stages
  <2>4. v[c] = m * z /\ F[c] = 100 * v[c] /\ Z[c] = 0
    OBVIOUS
  <2> HIDE DEF d, e, m, z, S, v, F, Z
  <2>5. SumFunctionOnSet(e, S) = m * SumFunctionOnSet(d, S) /\ SumFunctionOnSet(d, S) \in Int
    BY <1>3, <2>2, <2>3, SumScaled, SumIsInteger
  <2>6. m * z \in Int /\ 100 * (m * z) = m * (100 * z)
    BY <2>3
  <2>7. F[c] = SumFunctionOnSet(e, S) /\ v[c] \in Int
    BY <2>1, <2>4, <2>5, <2>6
  <2>8. SumFunctionOnSet(e, S) \in Int
    BY <2>4, <2>6, <2>7
  <2>9. F[c] = Z[c] + SumFunctionOnSet(e, S)
    BY <2>4, <2>7, <2>8
  <2> QED BY <2>7, <2>9 DEF e
<1>11. SumCells(pov, w, us[f]["Consolidated"]) = SumFunctionOnSet(v, U)
  <2> DEFINE cells == us[f]["Consolidated"]
  <2>1. DOMAIN cells \subseteq U /\ Whole(cells)
    BY <1>1, <1>5 DEF Stages
  <2>2. \A c \in U : v[c] = Counts(pov, w, c) * Val(cells, c)
    OBVIOUS
  <2> HIDE DEF cells, v
  <2>3. SumCells(pov, w, cells) = SumFunctionOnSet(v, U)
    BY <1>1, <2>1, <2>2, CellsCounted
  <2> QED BY <2>3 DEF cells
<1> HIDE DEF S, W, h, v, F, Z, r, n
<1>12. Parts(F, Z, W, h, U, S)
  <2>1. (\A c \in U : Z[c] \in Int) /\ \A x \in S : W[x] \in Int
    BY <1>6, <1>7
  <2> QED BY <1>8, <1>10, <2>1 DEF Parts
<1>13. SumFunctionOnSet(F, U) = SumFunctionOnSet(Z, U)
         + SumFunctionOnSet([x \in S |-> W[x] * SumFunctionOnSet(h[x], U)], S)
  BY <1>1, <1>3, <1>12, SumOfParts
<1>14. [x \in S |-> W[x] * SumFunctionOnSet(h[x], U)] = [x \in S |-> Share(f, x) * a[x]]
  BY <1>7, <1>8
<1>15. SumFunctionOnSet(Z, U) = 0
  <2>1. {} \in SUBSET U /\ (\A c \in U : Z[c] \in Int) /\ \A c \in U \ {} : Z[c] = 0
    BY <1>7
  <2>2. SumFunctionOnSet(Z, U) = SumFunctionOnSet(Z, {})
    BY <1>1, <2>1, SumOfNonzero
  <2> QED BY <2>2, EmptySum
<1>16. SumFunctionOnSet(F, U) = 100 * SumFunctionOnSet(v, U)
  <2>1. \A c \in U : v[c] \in Int /\ F[c] = 100 * v[c]
    BY <1>7, <1>10
  <2> QED BY <1>1, <2>1, SumScaled
<1>17. SumFunctionOnSet(r, S) = SumFunctionOnSet(b, S) /\ SumFunctionOnSet(r, S) \in Int
  <2>1. \A x \in S : r[x] \in Int
    BY <1>0, <1>6, <1>7, <1>8
  <2>2. \A x \in S : r[x] = b[x]
    BY <1>7 DEF S
  <2> QED BY <1>3, <2>1, <2>2, SumIsInteger, SumOfEqual
<1>18. 100 * SumCells(pov, w, us[f]["Consolidated"]) = SumFunctionOnSet(r, S)
  <2>1. [x \in S |-> Share(f, x) * a[x]] = r
    BY DEF r
  <2> QED BY <1>11, <1>13, <1>14, <1>15, <1>16, <1>17, <2>1
<1>19. \A x \in S : Hundredfold(b[x])
  BY <1>9 DEF S
<1> QED BY <1>8, <1>17, <1>18, <1>19 DEF S

-----------------------------------------------------------------------------
(* Consolidated queries: months.                                           *)

\* The point of view of one entity and stage.
Asked(pov, x, st) == [pov EXCEPT !.entity = x, !.stage = st]

LEMMA AskedPoint ==
  ASSUME NEW pov \in Points, NEW x, NEW st
  PROVE  LET p == Asked(pov, x, st)
         IN  /\ p.entity = x /\ p.stage = st /\ p.account = pov.account /\ p.scenario = pov.scenario
             /\ MonthsRead(p) = MonthsRead(pov)
             /\ \A w, cells : SumCells(p, w, cells) = SumCells(pov, w, cells)
<1> DEFINE p == Asked(pov, x, st)
<1>1. DOMAIN pov = {"entity", "account", "scenario", "time", "view", "stage", "origin", "ic"}
  BY PointsAssumption DEF AxisDims
<1>2. /\ p.entity = x /\ p.stage = st /\ p.account = pov.account /\ p.scenario = pov.scenario
      /\ p.time = pov.time /\ p.view = pov.view /\ p.origin = pov.origin /\ p.ic = pov.ic
  BY <1>1 DEF Asked
<1> HIDE DEF p
<1>3. MonthsRead(p) = MonthsRead(pov)
  BY <1>2 DEF MonthsRead
<1>4. \A c : Matches(p, c) <=> Matches(pov, c)
  BY <1>2 DEF Matches
<1>5. \A w, cells : SumCells(p, w, cells) = SumCells(pov, w, cells)
  BY <1>4 DEF SumCells
<1> QED BY <1>2, <1>3, <1>5 DEF p

\* If there is a slice s it is consolidated, and f has no amounts in Input
\* alone: the fallback of stageCells has nothing to find.
UpToDate(s, f) ==
  s \in Slices => /\ units[s] = Processed(s) /\ RunFits(units[s]) /\ ExactRun(units[s])
                  /\ Entered(units[s][f]["Input"])
                  /\ \/ IsLeaf(ent, f)
                     \/ units[s][f]["Input"] = Empty
                     \/ units[s][f]["Consolidated"] # Empty

\* a is what two stages of each entity below f answer with for a month, b the
\* share of f in it.
MonthAmounts(pov, w, m, f, a, b) ==
  \A x \in Subtree(ent, f) : /\ a[x] = MonthSum(Asked(pov, x, "Translated"), w, m)
                                      + MonthSum(Asked(pov, x, "Elimination"), w, m)
                             /\ b[x] = Share(f, x) * a[x]

\* Of what a month holds an entity has its share of what its subtree has.
LEMMA MonthIsShared ==
  ASSUME EntityTree(ent), ExactShares, NEW pov \in Points, NEW w, Weighs(w), NEW f \in DOMAIN ent,
         NEW m, UpToDate(<<pov.scenario, m>>, f), NEW a, NEW b, MonthAmounts(pov, w, m, f, a, b)
  PROVE  /\ \A x \in Subtree(ent, f) : a[x] \in Int /\ Hundredfold(b[x])
         /\ 100 * MonthSum(Asked(pov, f, "Consolidated"), w, m) = SumFunctionOnSet(b, Subtree(ent, f))
<1> DEFINE s == <<pov.scenario, m>>
<1> DEFINE S == Subtree(ent, f)
<1>1. f \in Entities /\ S \subseteq Entities /\ S \subseteq DOMAIN ent
  BY DEF Subtree, EntityTree
<1>2. IsFiniteSet(S)
  <2> HIDE DEF S
  <2> QED BY <1>1, FS_Subset DEF EntityTree
<1>3. \A x, st : MonthSum(Asked(pov, x, st), w, m)
                   = SumCells(pov, w, StageCells(UnitAt(x, pov.scenario, m), st,
                                                 EntityCurrency(Meta, x) = GroupCurrency))
  BY AskedPoint DEF MonthSum, CellsAt
<1>4. \A u, same : StageCells(u, "Translated", same) = u["Translated"]
                   /\ StageCells(u, "Elimination", same) = u["Elimination"]
  BY DEF StageCells
<1>5. CASE s \in Slices
  <2> DEFINE us == units[s]
             cells == StageCells(us[f], "Consolidated", EntityCurrency(Meta, f) = GroupCurrency)
  <2>1. \A x \in S : UnitAt(x, pov.scenario, m) = us[x]
    BY <1>1, <1>5 DEF UnitAt
  <2>2. f \in S
    BY SubtreeParts DEF EntityTree
  <2>3. MonthSum(Asked(pov, f, "Consolidated"), w, m) = SumCells(pov, w, cells)
    BY <1>3, <2>1, <2>2
  <2>0. us = Processed(s) /\ RunFits(us) /\ ExactRun(us)
    BY <1>5 DEF UpToDate
  <2>4. cells = us[f]["Consolidated"] \/ (DOMAIN cells = {} /\ DOMAIN us[f]["Consolidated"] = {})
    <3>1. /\ us = Processed(s) /\ RunFits(us) /\ ExactRun(us) /\ Entered(us[f]["Input"])
          /\ (IsLeaf(ent, f) \/ us[f]["Input"] = Empty \/ us[f]["Consolidated"] # Empty)
      BY <1>5 DEF UpToDate
    <3> HIDE DEF us
    <3> QED BY <3>1, FallbackFindsNothing
  <2>5. MonthSum(Asked(pov, f, "Consolidated"), w, m) = SumCells(pov, w, us[f]["Consolidated"])
    <3> HIDE DEF cells
    <3> QED BY <2>3, <2>4, EmptyCells
  <2>6. \A x \in S : a[x] = SumCells(pov, w, us[x]["Translated"]) + SumCells(pov, w, us[x]["Elimination"])
    BY <1>3, <1>4, <2>1 DEF MonthAmounts
  <2> HIDE DEF us
  <2>8. /\ \A x \in S : a[x] \in Int /\ Hundredfold(b[x])
        /\ 100 * SumCells(pov, w, us[f]["Consolidated"]) = SumFunctionOnSet(b, S)
    <3>1. RunAmounts(us, f, pov, w, a, b)
      BY <2>6 DEF RunAmounts, MonthAmounts
    <3> HIDE DEF S
    <3>3. /\ \A x \in Subtree(ent, f) : a[x] \in Int /\ Hundredfold(b[x])
          /\ 100 * SumCells(pov, w, us[f]["Consolidated"]) = SumFunctionOnSet(b, Subtree(ent, f))
      BY <2>0, <3>1, MonthOfRun
    <3> QED BY <3>3 DEF S
  <2> QED BY <2>5, <2>8
<1>6. CASE s \notin Slices
  <2>1. \A x : UnitAt(x, pov.scenario, m) = NoUnit
    BY <1>6 DEF UnitAt
  <2>2. \A st \in Stages : NoUnit[st] = Empty
    BY DEF NoUnit
  <2>3. \A st \in {"Translated", "Elimination", "Consolidated"} : \A same : StageCells(NoUnit, st, same) = Empty
    BY <2>2 DEF StageCells, Stages
  <2>4. SumCells(pov, w, Empty) = 0
    BY EmptyCells DEF Empty
  <2>5. \A x, st : st \in {"Translated", "Elimination", "Consolidated"} => MonthSum(Asked(pov, x, st), w, m) = 0
    BY <1>3, <2>1, <2>3, <2>4
  <2>6. \A x \in S : a[x] = 0 /\ b[x] = 0
    <3>1. \A x \in S : a[x] = 0
      BY <2>5 DEF MonthAmounts
    <3>2. \A x \in S : Share(f, x) * 0 = 0
      BY SharesCompose
    <3> QED BY <3>1, <3>2 DEF MonthAmounts
  <2>7. Hundredfold(0)
    BY DEF Hundredfold
  <2>8. SumFunctionOnSet(b, S) = 0
    <3>1. {} \in SUBSET S /\ (\A x \in S : b[x] \in Int) /\ \A x \in S \ {} : b[x] = 0
      BY <2>6
    <3> HIDE DEF S
    <3>2. SumFunctionOnSet(b, S) = SumFunctionOnSet(b, {})
      BY <1>2, <3>1, SumOfNonzero
    <3> QED BY <3>2, EmptySum
  <2>9. \A x \in S : a[x] \in Int /\ Hundredfold(b[x])
    BY <2>6, <2>7
  <2>10. 100 * MonthSum(Asked(pov, f, "Consolidated"), w, m) = 0
    BY <2>5
  <2> QED BY <2>8, <2>9, <2>10
<1> QED BY <1>5, <1>6

LEMMA IntervalsAreFinite == \A n \in Nat : IsFiniteSet(1 .. n)
  BY FS_Interval

\* Each v[i] is what the shares W of the i-th numbers of h add up to, exactly,
\* and q has the shares of what h adds up to.
Shared(n, S, W, v, h, b, q) ==
  /\ \A i \in 1 .. n : /\ v[i] \in Int
                       /\ \A x \in S : b[i][x] = W[x] * h[x][i]
                       /\ 100 * v[i] = SumFunctionOnSet(b[i], S)
  /\ \A x \in S : /\ W[x] \in Int
                  /\ \A i \in 1 .. n : h[x][i] \in Int /\ Hundredfold(W[x] * h[x][i])
                  /\ q[x] = (W[x] * SumFunctionOnSet(h[x], 1 .. n)) \div 100

LEMMA SharesAddUp ==
  ASSUME NEW n \in Nat, NEW S, IsFiniteSet(S), NEW W, NEW v, NEW h, NEW b, NEW q,
         Shared(n, S, W, v, h, b, q)
  PROVE  SumFunctionOnSet(v, 1 .. n) = SumFunctionOnSet(q, S)
<1> DEFINE T == 1 .. n
           F == [i \in T |-> 100 * v[i]]
           Z == [i \in T |-> 0]
           r == [x \in S |-> W[x] * SumFunctionOnSet(h[x], T)]
<1> USE DEF Shared
<1>1. IsFiniteSet(T)
  BY FS_Interval
<1>2. /\ \A i \in T : F[i] = 100 * v[i] /\ F[i] \in Int /\ Z[i] = 0
      /\ \A x \in S : r[x] = W[x] * SumFunctionOnSet(h[x], T)
  OBVIOUS
<1>3. r = [x \in S |-> W[x] * SumFunctionOnSet(h[x], T)]
  OBVIOUS
<1> HIDE DEF F, Z, r, T
<1>4. Parts(F, Z, W, h, T, S)
  <2>1. ASSUME NEW i \in T
        PROVE  F[i] = SumFunctionOnSet([x \in S |-> W[x] * h[x][i]], S)
    <3> DEFINE c == [x \in S |-> W[x] * h[x][i]]
               d == b[i]
    <3>1. \A x \in S : c[x] = d[x]
      BY DEF T
    <3>2. F[i] = SumFunctionOnSet(d, S)
      BY <1>2 DEF T
    <3> HIDE DEF c, d
    <3>3. SumFunctionOnSet(c, S) = SumFunctionOnSet(d, S)
      BY <3>1, SumOfEqual
    <3> QED BY <3>2, <3>3 DEF c
  <2>2. \A i \in T : F[i] = Z[i] + SumFunctionOnSet([x \in S |-> W[x] * h[x][i]], S)
    <3> SUFFICES ASSUME NEW i \in T
                 PROVE  F[i] = Z[i] + SumFunctionOnSet([x \in S |-> W[x] * h[x][i]], S)
      OBVIOUS
    <3>1. F[i] = Z[i] + F[i]
      BY <1>2
    <3> QED BY <2>1, <3>1
  <2>3. \A i \in T : Z[i] \in Int
    BY <1>2
  <2>4. \A x \in S : \A i \in T : h[x][i] \in Int
    BY DEF T
  <2> QED BY <2>2, <2>3, <2>4 DEF Parts
<1>5. SumFunctionOnSet(F, T) = SumFunctionOnSet(Z, T) + SumFunctionOnSet(r, S)
  BY <1>1, <1>3, <1>4, SumOfParts
<1>6. SumFunctionOnSet(Z, T) = 0
  <2>1. {} \in SUBSET T /\ (\A i \in T : Z[i] \in Int) /\ \A i \in T \ {} : Z[i] = 0
    BY <1>2
  <2>2. SumFunctionOnSet(Z, T) = SumFunctionOnSet(Z, {})
    BY <1>1, <2>1, SumOfNonzero
  <2> QED BY <2>2, EmptySum
<1>7. SumFunctionOnSet(F, T) = 100 * SumFunctionOnSet(v, T) /\ SumFunctionOnSet(v, T) \in Int
  <2>1. \A i \in T : v[i] \in Int /\ F[i] = 100 * v[i]
    BY <1>2 DEF T
  <2> QED BY <1>1, <2>1, SumScaled, SumIsInteger
<1>8. ASSUME NEW x \in S
       PROVE  q[x] \in Int /\ r[x] = 100 * q[x]
  <2> DEFINE hx == h[x]
             k == W[x]
             g == [i \in T |-> k * hx[i]]
             o == SumFunctionOnSet(hx, T)
             z == k * o
  <2>1. \A i, j \in Int : i * j \in Int
    OBVIOUS
  <2>2. k \in Int /\ \A i \in T : hx[i] \in Int /\ Hundredfold(k * hx[i])
    BY DEF T
  <2>3. r[x] = z /\ q[x] = z \div 100
    BY <1>2 DEF T
  <2>4. \A i \in T : g[i] = k * hx[i]
    OBVIOUS
  <2> HIDE DEF k, hx, g
  <2>5. o \in Int /\ SumFunctionOnSet(g, T) = z
    BY <1>1, <2>2, <2>4, SumScaled, SumIsInteger
  <2>6. \A i \in T : g[i] \in Int /\ Hundredfold(g[i])
    BY <2>1, <2>2, <2>4
  <2>7. Hundredfold(z) /\ z \in Int
    BY <1>1, <2>1, <2>2, <2>5, <2>6, HundredsAdd
  <2> HIDE DEF z
  <2> QED BY <2>3, <2>7 DEF Hundredfold
<1>9. SumFunctionOnSet(r, S) = 100 * SumFunctionOnSet(q, S) /\ SumFunctionOnSet(q, S) \in Int
  BY <1>8, SumScaled, SumIsInteger
<1>10. SumFunctionOnSet(v, T) = SumFunctionOnSet(q, S)
  <2> DEFINE i == SumFunctionOnSet(v, T)
             j == SumFunctionOnSet(q, S)
             k == SumFunctionOnSet(r, S)
  <2>1. i \in Int /\ j \in Int /\ k = 100 * j /\ 100 * i = 0 + k
    BY <1>5, <1>6, <1>7, <1>9
  <2> HIDE DEF i, j, k
  <2>2. i = j
    BY <2>1
  <2> QED BY <2>2 DEF i, j
<1> QED BY <1>10 DEF T

\* What two stages of an entity answer, over the months that are read.
LEMMA AnswersAreSums ==
  ASSUME Readable, AccountTree(acc), NEW pov \in Points, pov.account \notin DynamicAccounts,
         NEW x, NEW st,
         NEW n \in Nat, DOMAIN MonthsRead(pov) = 1 .. n,
         NEW t, \A i \in 1 .. n : t[i] = MonthSum(Asked(pov, x, st), MemberWeights(acc, pov.account),
                                                  MonthsRead(pov)[i])
  PROVE  GetCell(Asked(pov, x, st)) = SumFunctionOnSet(t, 1 .. n) /\ \A i \in 1 .. n : t[i] \in Int
<1> DEFINE p == Asked(pov, x, st)
           w == MemberWeights(acc, pov.account)
<1>1. p.account = pov.account /\ MonthsRead(p) = MonthsRead(pov)
  BY AskedPoint
<1>2. \A i \in 1 .. n : t[i] = MonthSum(p, w, MonthsRead(p)[i])
  BY <1>1
<1>3. GetCell(p) = Read(p, w)
  BY <1>1 DEF GetCell, StoredCell
<1>4. Weighs(w)
  BY WeightsWeigh
<1> HIDE DEF p, w
<1>5. Read(p, w) = SumFunctionOnSet(t, 1 .. n)
  BY <1>1, <1>2, ReadIsSum
<1>6. \A i \in 1 .. n : t[i] \in Int
  BY <1>2, <1>4, MonthIsWhole
<1> QED BY <1>3, <1>5, <1>6 DEF p

\* A group answers with its share of what its subtree answers.
LEMMA ConsolidatedAgrees ==
  ASSUME Readable, AccountTree(acc), EntityTree(ent), AmountsAreExact,
         \A s \in Slices : ~ProcessFails(MetaAt(s)) => RunFits(Processed(s)),
         \A s \in Slices, e \in Entities : Entered(units[s][e]["Input"])
  PROVE  ConsolidatedQuery
<1> DEFINE Read1(pov) == {<<pov.scenario, m>> : m \in Range(MonthsRead(pov))} \cap Slices
           Above(s, f) == \/ IsLeaf(ent, f)
                          \/ units[s][f]["Input"] = Empty
                          \/ units[s][f]["Consolidated"] # Empty
           Answer(pov, f) == SumFunction([x \in Subtree(ent, f) |->
                               (Share(f, x) * (GetCell(Asked(pov, x, "Translated"))
                                                 + GetCell(Asked(pov, x, "Elimination")))) \div 100])
<1>1. SUFFICES ASSUME NEW pov \in Points, pov.account \notin DynamicAccounts, Has(ent, pov.entity),
                      Read1(pov) \subseteq {s \in Slices : InSync(s)},
                      \A s \in Read1(pov) : Above(s, pov.entity)
               PROVE  GetCell(Asked(pov, pov.entity, "Consolidated")) = Answer(pov, pov.entity)
  BY DEF ConsolidatedQuery, Asked
<1> DEFINE f == pov.entity
           S == Subtree(ent, f)
           w == MemberWeights(acc, pov.account)
           months == MonthsRead(pov)
<1>2. PICK n \in Nat : DOMAIN months = 1 .. n
  BY MonthsAreCounted
<1>3. f \in DOMAIN ent /\ f \in Entities /\ S \subseteq DOMAIN ent /\ IsFiniteSet(1 .. n) /\ Weighs(w)
  <2>1. IsFiniteSet(1 .. n)
    BY IntervalsAreFinite
  <2>2. f \in DOMAIN ent
    BY <1>1 DEF Has
  <2> QED BY <2>1, <2>2, WeightsWeigh DEF EntityTree, Subtree
<1>4. IsFiniteSet(S) /\ \A x \in S : Share(f, x) \in Int
  <2>1. ExactShares
    BY DEF AmountsAreExact
  <2>2. IsFiniteSet(S)
    <3> HIDE DEF S
    <3> QED BY <1>3, FS_Subset DEF EntityTree
  <2> QED BY <1>3, <2>1, <2>2, SharesCompose
<1>5. ASSUME NEW i \in 1 .. n, NEW s, s = <<pov.scenario, months[i]>>, s \in Slices
      PROVE  /\ units[s] = Processed(s) /\ RunFits(units[s]) /\ ExactRun(units[s])
             /\ Entered(units[s][f]["Input"]) /\ Above(s, f)
  <2>1. s \in Read1(pov)
    BY <1>2, <1>5 DEF Range
  <2>2. InSync(s) /\ Above(s, f)
    BY <1>1, <2>1
  <2>3. ~ProcessFails(MetaAt(s)) /\ units[s] = Processed(s)
    BY <2>2 DEF InSync
  <2>4. RunFits(Processed(s)) /\ ExactRun(Processed(s))
    BY <1>5, <2>3 DEF AmountsAreExact
  <2>5. Entered(units[s][f]["Input"])
    BY <1>3, <1>5
  <2> QED BY <2>2, <2>3, <2>4, <2>5
<1> DEFINE t == [x \in S |-> [i \in 1 .. n |-> MonthSum(Asked(pov, x, "Translated"), w, months[i])]]
           l == [x \in S |-> [i \in 1 .. n |-> MonthSum(Asked(pov, x, "Elimination"), w, months[i])]]
           h == [x \in S |-> [i \in 1 .. n |-> t[x][i] + l[x][i]]]
           v == [i \in 1 .. n |-> MonthSum(Asked(pov, f, "Consolidated"), w, months[i])]
           F == [i \in 1 .. n |-> 100 * v[i]]
           Z == [i \in 1 .. n |-> 0]
           W == [x \in S |-> Share(f, x)]
           b == [i \in 1 .. n |-> [x \in S |-> W[x] * h[x][i]]]
<1>6. /\ \A i \in 1 .. n : v[i] = MonthSum(Asked(pov, f, "Consolidated"), w, months[i])
                           /\ F[i] = 100 * v[i] /\ Z[i] = 0
      /\ \A x \in S : W[x] = Share(f, x) /\ \A i \in 1 .. n :
           /\ t[x][i] = MonthSum(Asked(pov, x, "Translated"), w, months[i])
           /\ l[x][i] = MonthSum(Asked(pov, x, "Elimination"), w, months[i])
           /\ h[x][i] = t[x][i] + l[x][i] /\ b[i][x] = W[x] * h[x][i]
      /\ \A i \in 1 .. n : b[i] = [x \in S |-> W[x] * h[x][i]]
  OBVIOUS
<1> HIDE DEF t, l, h, v, F, Z, W, b
<1>7. GetCell(Asked(pov, f, "Consolidated")) = SumFunctionOnSet(v, 1 .. n) /\ \A i \in 1 .. n : v[i] \in Int
  BY <1>1, <1>2, <1>6, AnswersAreSums
<1>8. ASSUME NEW x \in S
      PROVE  /\ \A i \in 1 .. n : h[x][i] \in Int
             /\ SumFunctionOnSet(h[x], 1 .. n) = GetCell(Asked(pov, x, "Translated"))
                                                  + GetCell(Asked(pov, x, "Elimination"))
  <2> DEFINE tx == t[x]
             lx == l[x]
             hx == h[x]
  <2>1. \A i \in 1 .. n : tx[i] = MonthSum(Asked(pov, x, "Translated"), w, months[i])
                          /\ lx[i] = MonthSum(Asked(pov, x, "Elimination"), w, months[i])
                          /\ hx[i] = tx[i] + lx[i]
    BY <1>6
  <2> HIDE DEF tx, lx, hx, S
  <2>2. GetCell(Asked(pov, x, "Translated")) = SumFunctionOnSet(tx, 1 .. n) /\ \A i \in 1 .. n : tx[i] \in Int
    <3>1. \A i \in 1 .. n : tx[i] = MonthSum(Asked(pov, x, "Translated"), MemberWeights(acc, pov.account),
                                               MonthsRead(pov)[i])
      BY <2>1
    <3>2. DOMAIN MonthsRead(pov) = 1 .. n
      BY <1>2
    <3> QED BY <1>1, <3>1, <3>2, AnswersAreSums
  <2>3. GetCell(Asked(pov, x, "Elimination")) = SumFunctionOnSet(lx, 1 .. n) /\ \A i \in 1 .. n : lx[i] \in Int
    <3>1. \A i \in 1 .. n : lx[i] = MonthSum(Asked(pov, x, "Elimination"), MemberWeights(acc, pov.account),
                                               MonthsRead(pov)[i])
      BY <2>1
    <3>2. DOMAIN MonthsRead(pov) = 1 .. n
      BY <1>2
    <3> QED BY <1>1, <3>1, <3>2, AnswersAreSums
  <2>4. SumFunctionOnSet(hx, 1 .. n) = SumFunctionOnSet(tx, 1 .. n) + SumFunctionOnSet(lx, 1 .. n)
    BY <1>3, <2>1, <2>2, <2>3, SumOfBoth
  <2> QED BY <2>1, <2>2, <2>3, <2>4 DEF hx
<1>9. ASSUME NEW i \in 1 .. n
      PROVE  F[i] = SumFunctionOnSet(b[i], S) /\ \A x \in S : Hundredfold(b[i][x])
  <2> DEFINE m == months[i]
             a == [x \in S |-> h[x][i]]
             bi == b[i]
  <2>1. UpToDate(<<pov.scenario, m>>, f)
    BY <1>5 DEF UpToDate
  <2>2. MonthAmounts(pov, w, m, f, a, bi)
    BY <1>6 DEF MonthAmounts
  <2>3. ExactShares
    BY DEF AmountsAreExact
  <2> HIDE DEF m, a, bi, w
  <2>4. /\ \A x \in S : a[x] \in Int /\ Hundredfold(bi[x])
        /\ 100 * MonthSum(Asked(pov, f, "Consolidated"), w, m) = SumFunctionOnSet(bi, S)
    BY <1>3, <2>1, <2>2, <2>3, MonthIsShared
  <2> QED BY <1>6, <2>4 DEF m, bi
<1> HIDE DEF S, w, months, f
<1> DEFINE q == [x \in S |-> (Share(f, x) * (GetCell(Asked(pov, x, "Translated"))
                                               + GetCell(Asked(pov, x, "Elimination")))) \div 100]
<1>10. \A x \in S : q[x] = (W[x] * SumFunctionOnSet(h[x], 1 .. n)) \div 100
  BY <1>6, <1>8
<1>11. Answer(pov, f) = SumFunctionOnSet(q, S)
  <2>1. Answer(pov, f) = SumFunction(q) /\ DOMAIN q = S
    BY DEF S
  <2> HIDE DEF q
  <2> QED BY <2>1 DEF SumFunction
<1> HIDE DEF q, Answer
<1>12. Shared(n, S, W, v, h, b, q)
  <2>1. \A x \in S : /\ W[x] \in Int
                     /\ \A i \in 1 .. n : h[x][i] \in Int /\ Hundredfold(W[x] * h[x][i])
    BY <1>4, <1>6, <1>8, <1>9
  <2>2. \A i \in 1 .. n : /\ v[i] \in Int
                          /\ \A x \in S : b[i][x] = W[x] * h[x][i]
                          /\ 100 * v[i] = SumFunctionOnSet(b[i], S)
    BY <1>6, <1>7, <1>9
  <2> QED BY <1>10, <2>1, <2>2 DEF Shared
<1>13. SumFunctionOnSet(v, 1 .. n) = SumFunctionOnSet(q, S)
  BY <1>4, <1>12, SharesAddUp
<1> QED BY <1>7, <1>11, <1>13 DEF f

-----------------------------------------------------------------------------
(* Grids.                                                                  *)

\* f is the sequence of sequences FlattenSeq goes through, up to the n-th.
Flattening(ss, n, f) ==
  f = [i \in 1 .. n |-> IF i = 1 THEN ss[i] ELSE f[i - 1] \o ss[i]]

LEMMA FlatteningExists ==
  ASSUME NEW ss, NEW N \in Nat
  PROVE  \E f : Flattening(ss, N, f)
<1> DEFINE T == {n \in Nat : ~ \E f : Flattening(ss, n, f)}
<1> SUFFICES ASSUME T # {} PROVE FALSE
  OBVIOUS
<1>1. PICK m \in T : \A n \in T : m <= n
  <2> HIDE DEF T
  <2> QED BY LeastNatural DEF T
<1>2. CASE m = 0
  <2> DEFINE none == [i \in {} |-> <<>>]
  <2>1. 1 .. 0 = {}
    OBVIOUS
  <2>2. none = [i \in 1 .. 0 |-> IF i = 1 THEN ss[i] ELSE none[i - 1] \o ss[i]]
    BY <2>1
  <2> HIDE DEF none
  <2>3. Flattening(ss, 0, none)
    BY <2>2 DEF Flattening
  <2> QED BY <1>1, <1>2, <2>3
<1>3. CASE m # 0
  <2>1. m \in Nat /\ m - 1 \in Nat /\ m - 1 \notin T
    BY <1>1, <1>3
  <2>2. PICK g : Flattening(ss, m - 1, g)
    BY <2>1
  <2> DEFINE f == [i \in 1 .. m |-> IF i = m THEN IF m = 1 THEN ss[m] ELSE g[m - 1] \o ss[m]
                                    ELSE g[i]]
  <2>3. ASSUME NEW i \in 1 .. m
        PROVE  f[i] = IF i = 1 THEN ss[i] ELSE f[i - 1] \o ss[i]
    <3>1. CASE i = m
      <4>1. m # 1 => f[i - 1] = g[m - 1]
        BY <2>1, <3>1
      <4>2. f[i] = IF m = 1 THEN ss[m] ELSE g[m - 1] \o ss[m]
        BY <2>1, <3>1
      <4> HIDE DEF f
      <4> QED BY <4>1, <4>2, <3>1
    <3>2. CASE i # m
      <4>1. i \in 1 .. m - 1 /\ f[i] = g[i]
        BY <2>1, <3>2
      <4>2. i # 1 => i - 1 \in 1 .. m - 1 /\ f[i - 1] = g[i - 1]
        BY <2>1, <4>1
      <4>3. g[i] = IF i = 1 THEN ss[i] ELSE g[i - 1] \o ss[i]
        BY <2>2, <4>1 DEF Flattening
      <4> HIDE DEF f
      <4> QED BY <4>1, <4>2, <4>3
    <3> QED BY <3>1, <3>2
  <2>4. f = [i \in 1 .. m |-> f[i]]
    OBVIOUS
  <2> HIDE DEF f
  <2>5. Flattening(ss, m, f)
    BY <2>3, <2>4 DEF Flattening
  <2> QED BY <1>1, <2>5
<1> QED BY <1>2, <1>3

\* FlattenSeq is the last of them.
LEMMA FlattenUnfolds ==
  ASSUME NEW ss, Len(ss) \in Nat
  PROVE  \E f : /\ Len(ss) = 0 => FlattenSeq(ss) = ss
                /\ Len(ss) # 0 => FlattenSeq(ss) = f[Len(ss)] /\ f[1] = ss[1]
                /\ \A i \in 2 .. Len(ss) : f[i] = f[i - 1] \o ss[i]
<1> DEFINE f == CHOOSE g : Flattening(ss, Len(ss), g)
<1>1. Flattening(ss, Len(ss), f)
  BY FlatteningExists
<1>2. FlattenSeq(ss) = IF Len(ss) = 0 THEN ss ELSE f[Len(ss)]
  BY DEF FlattenSeq, Flattening
<1> HIDE DEF f
<1>3. \A i \in 1 .. Len(ss) : f[i] = IF i = 1 THEN ss[i] ELSE f[i - 1] \o ss[i]
  BY <1>1 DEF Flattening
<1>4. Len(ss) # 0 => f[1] = ss[1]
  BY <1>3
<1>5. ASSUME NEW i \in 2 .. Len(ss)
      PROVE  f[i] = f[i - 1] \o ss[i]
  <2>1. i \in 1 .. Len(ss) /\ i # 1
    OBVIOUS
  <2> QED BY <1>3, <2>1
<1> QED BY <1>2, <1>4, <1>5

\* What is joined from sequences over S is one.
LEMMA FlattenIsSeq ==
  ASSUME NEW S, NEW ss \in Seq(Seq(S))
  PROVE  FlattenSeq(ss) \in Seq(S)
<1> DEFINE N == Len(ss)
<1>1. N \in Nat /\ \A i \in 1 .. N : ss[i] \in Seq(S)
  OBVIOUS
<1>2. PICK f : /\ N = 0 => FlattenSeq(ss) = ss
               /\ N # 0 => FlattenSeq(ss) = f[N] /\ f[1] = ss[1]
               /\ \A i \in 2 .. N : f[i] = f[i - 1] \o ss[i]
  BY <1>1, FlattenUnfolds
<1>3. CASE N = 0
  <2>1. ss = <<>> /\ FlattenSeq(ss) = ss
    BY <1>2, <1>3
  <2>2. <<>> \in Seq(S)
    OBVIOUS
  <2> QED BY <2>1, <2>2
<1>4. CASE N # 0
  <2> DEFINE T == {n \in Nat : n \in 1 .. N /\ f[n] \notin Seq(S)}
  <2>1. T = {}
    <3> SUFFICES ASSUME T # {} PROVE FALSE
      OBVIOUS
    <3>1. PICK m \in T : \A n \in T : m <= n
      <4> HIDE DEF T
      <4> QED BY LeastNatural DEF T
    <3> HIDE DEF N
    <3>2. CASE m = 1
      BY <1>1, <1>2, <1>4, <3>1, <3>2
    <3>3. CASE m # 1
      <4>1. m \in 2 .. N /\ m - 1 \in 1 .. N /\ m - 1 \notin T
        BY <1>1, <3>1, <3>3
      <4>2. f[m - 1] \in Seq(S) /\ ss[m] \in Seq(S) /\ f[m] = f[m - 1] \o ss[m]
        <5>1. m \in 1 .. N /\ m - 1 \in Nat
          BY <3>1
        <5> QED BY <1>1, <1>2, <4>1, <5>1
      <4>3. f[m - 1] \o ss[m] \in Seq(S)
        BY <4>2
      <4> QED BY <3>1, <4>2, <4>3
    <3> QED BY <3>2, <3>3
  <2> HIDE DEF N
  <2>2. N \in Nat /\ N \in 1 .. N
    BY <1>1, <1>4
  <2> QED BY <1>2, <1>4, <2>1, <2>2
<1> QED BY <1>3, <1>4

\* The j-th place of the k-th row lies before the m-th row.
LEMMA PlaceInRows ==
  ASSUME NEW m \in Nat, NEW n \in Nat, NEW k \in 1 .. m, k # m, NEW j \in 1 .. n
  PROVE  k \in 1 .. m - 1 /\ (k - 1) * n + j \in 1 .. (m - 1) * n
<1>1. k \in 1 .. m - 1 /\ k - 1 \in Nat /\ m - 1 - k \in Nat
  OBVIOUS
<1>2. (k - 1) * n \in Nat /\ (m - 1 - k) * n \in Nat
  BY <1>1
<1>3. (m - 1) * n = (k - 1) * n + n + (m - 1 - k) * n
  OBVIOUS
<1> DEFINE x == (k - 1) * n
           y == (m - 1 - k) * n
           z == (m - 1) * n
<1>4. x \in Nat /\ y \in Nat /\ z = x + n + y
  BY <1>2, <1>3
<1> HIDE DEF x, y, z
<1>5. x + j \in 1 .. z
  BY <1>4
<1> QED BY <1>1, <1>5 DEF x, z

\* Two sequences joined.
LEMMA JoinFacts ==
  \A S : \A p, q \in Seq(S) :
    /\ p \o q \in Seq(S) /\ Len(p \o q) = Len(p) + Len(q)
    /\ \A i \in 1 .. Len(p) : (p \o q)[i] = p[i]
    /\ \A j \in 1 .. Len(q) : (p \o q)[Len(p) + j] = q[j]
<1> SUFFICES ASSUME NEW S, NEW p \in Seq(S), NEW q \in Seq(S)
             PROVE  /\ p \o q \in Seq(S) /\ Len(p \o q) = Len(p) + Len(q)
                    /\ \A i \in 1 .. Len(p) : (p \o q)[i] = p[i]
                    /\ \A j \in 1 .. Len(q) : (p \o q)[Len(p) + j] = q[j]
  OBVIOUS
<1>1. p \o q \in Seq(S)
  OBVIOUS
<1>2. Len(p \o q) = Len(p) + Len(q)
  OBVIOUS
<1>3. ASSUME NEW i \in 1 .. Len(p) PROVE (p \o q)[i] = p[i]
  OBVIOUS
<1>4. ASSUME NEW j \in 1 .. Len(q) PROVE (p \o q)[Len(p) + j] = q[j]
  OBVIOUS
<1> QED BY <1>1, <1>2, <1>3, <1>4

\* Rows of one length, joined: the k-th lies after k - 1 of them.
LEMMA FlattenOfRows ==
  ASSUME NEW S, NEW ss \in Seq(Seq(S)), NEW n \in Nat, \A i \in 1 .. Len(ss) : Len(ss[i]) = n
  PROVE  /\ Len(FlattenSeq(ss)) = Len(ss) * n /\ FlattenSeq(ss) \in Seq(S)
         /\ \A k \in 1 .. Len(ss), j \in 1 .. n : FlattenSeq(ss)[(k - 1) * n + j] = ss[k][j]
<1> DEFINE N == Len(ss)
<1>1. N \in Nat /\ \A i \in 1 .. N : ss[i] \in Seq(S) /\ Len(ss[i]) = n
  OBVIOUS
<1>2. PICK f : /\ N = 0 => FlattenSeq(ss) = ss
               /\ N # 0 => FlattenSeq(ss) = f[N] /\ f[1] = ss[1]
               /\ \A i \in 2 .. N : f[i] = f[i - 1] \o ss[i]
  BY <1>1, FlattenUnfolds
<1>3. CASE N = 0
  <2>1. Len(FlattenSeq(ss)) = 0 /\ 0 * n = 0
    BY <1>2, <1>3
  <2> QED BY <2>1, <1>3, FlattenIsSeq
<1>4. CASE N # 0
  <2> DEFINE Good(m) == /\ f[m] \in Seq(S) /\ Len(f[m]) = m * n
                        /\ \A k \in 1 .. m, j \in 1 .. n : f[m][(k - 1) * n + j] = ss[k][j]
             T == {m \in Nat : m \in 1 .. N /\ ~Good(m)}
  <2>1. T = {}
    <3> SUFFICES ASSUME T # {} PROVE FALSE
      OBVIOUS
    <3>1. PICK m \in T : \A x \in T : m <= x
      <4> HIDE DEF T
      <4> QED BY LeastNatural DEF T
    <3> HIDE DEF N
    <3>2. CASE m = 1
      <4>1. f[1] = ss[1] /\ ss[1] \in Seq(S) /\ Len(ss[1]) = n /\ 1 * n = n
        BY <1>1, <1>2, <1>4, <3>1, <3>2
      <4>2. ASSUME NEW k \in 1 .. 1, NEW j \in 1 .. n PROVE (k - 1) * n + j = j /\ k = 1
        OBVIOUS
      <4> QED BY <3>1, <3>2, <4>1, <4>2
    <3>3. CASE m # 1
      <4>1. m \in 2 .. N /\ m \in 1 .. N /\ m - 1 \in 1 .. N /\ m - 1 \notin T /\ m \in Nat /\ m - 1 \in Nat
        BY <1>1, <3>1, <3>3
      <4>2. Good(m - 1) /\ ss[m] \in Seq(S) /\ Len(ss[m]) = n /\ f[m] = f[m - 1] \o ss[m]
        <5>1. m \in 1 .. N
          BY <3>1
        <5> HIDE DEF Good
        <5>2. Good(m - 1)
          BY <4>1
        <5> QED BY <1>1, <1>2, <4>1, <5>1, <5>2
      <4>3. PICK p \in Seq(S), q \in Seq(S) : /\ p = f[m - 1] /\ q = ss[m] /\ f[m] = p \o q
                                             /\ Len(p) = (m - 1) * n /\ Len(q) = n
        BY <4>2
      <4>4. /\ p \o q \in Seq(S) /\ Len(p \o q) = Len(p) + n
            /\ \A i \in 1 .. Len(p) : (p \o q)[i] = p[i]
            /\ \A j \in 1 .. n : (p \o q)[Len(p) + j] = q[j]
        <5>1. /\ p \o q \in Seq(S) /\ Len(p \o q) = Len(p) + Len(q)
              /\ \A i \in 1 .. Len(p) : (p \o q)[i] = p[i]
              /\ \A j \in 1 .. Len(q) : (p \o q)[Len(p) + j] = q[j]
          BY JoinFacts
        <5> QED BY <4>3, <5>1
      <4>5. (m - 1) * n + n = m * n /\ (m - 1) * n \in Nat
        BY <4>1
      <4>6. ASSUME NEW k \in 1 .. m, NEW j \in 1 .. n
            PROVE  f[m][(k - 1) * n + j] = ss[k][j]
        <5> DEFINE i == (k - 1) * n + j
        <5>1. CASE k = m
          <6>1. i = Len(p) + j
            BY <4>3, <5>1
          <6> HIDE DEF i
          <6>2. (p \o q)[i] = q[j]
            BY <4>4, <6>1
          <6> QED BY <4>3, <5>1, <6>2 DEF i
        <5>2. CASE k # m
          <6>1. k \in 1 .. m - 1 /\ i \in 1 .. (m - 1) * n
            BY <4>1, <5>2, PlaceInRows
          <6>5. i \in 1 .. Len(p)
            BY <4>3, <6>1
          <6> HIDE DEF i
          <6>6. p[i] = ss[k][j]
            BY <4>2, <6>1, <4>3 DEF i
          <6> QED BY <4>3, <4>4, <6>5, <6>6 DEF i
        <5> QED BY <5>1, <5>2
      <4>7. Good(m)
        BY <4>3, <4>4, <4>5, <4>6
      <4> QED BY <3>1, <4>7
    <3> QED BY <3>2, <3>3
  <2> HIDE DEF N
  <2>2. N \in Nat /\ N \in 1 .. N
    BY <1>1, <1>4
  <2>3. Good(N)
    BY <2>1, <2>2
  <2> QED BY <1>2, <1>4, <2>3 DEF N
<1> QED BY <1>3, <1>4

\* The members of a finite set, listed.
LEMMA SetIsListed ==
  ASSUME NEW S, IsFiniteSet(S)
  PROVE  SetToSeq(S) \in Seq(S)
<1>1. Cardinality(S) \in Nat /\ ExistsBijection(1 .. Cardinality(S), S)
  BY FS_CardinalityType
<1>2. \E f \in [1 .. Cardinality(S) -> S] : IsInjective(f)
  BY <1>1 DEF ExistsBijection, Bijection, Injection, IsInjective
<1>3. SetToSeq(S) \in [1 .. Cardinality(S) -> S]
  BY <1>2 DEF SetToSeq
<1> QED BY <1>1, <1>3

\* The headers of a dimension.
Heads(dim) == [dim : {dim}, name : Members(dim), depth : Nat, leaf : BOOLEAN]

\* The walk of x, given those of its children, and w holds the walks of S.
Walked(dim, w, x) ==
  LET kids == SetToSeq(ChildrenIn(dim, x))
  IN  <<Header(dim, x, kids = <<>>)>> \o FlattenSeq([i \in DOMAIN kids |-> Deeper(w[kids[i]])])

Walks(dim, S, w) == w = [x \in S |-> Walked(dim, w, x)]

\* The members of a dimension have finitely many children among them, and some
\* of any members has no child among them.
Climbable(dim) ==
  /\ \A x \in Members(dim) : IsFiniteSet(ChildrenIn(dim, x)) /\ ChildrenIn(dim, x) \subseteq Members(dim)
  /\ \A S \in SUBSET Members(dim) : S # {} => \E x \in S : ChildrenIn(dim, x) \cap S = {}

LEMMA WalkReadsChildren ==
  ASSUME NEW dim, NEW x, NEW S, IsFiniteSet(ChildrenIn(dim, x)), ChildrenIn(dim, x) \subseteq S,
         NEW v, NEW w, \A y \in S : v[y] = w[y]
  PROVE  Walked(dim, v, x) = Walked(dim, w, x)
<1> DEFINE kids == SetToSeq(ChildrenIn(dim, x))
<1>1. kids \in Seq(ChildrenIn(dim, x))
  BY SetIsListed
<1> HIDE DEF kids
<1>2. \A i \in DOMAIN kids : v[kids[i]] = w[kids[i]]
  BY <1>1
<1>3. [i \in DOMAIN kids |-> Deeper(v[kids[i]])] = [i \in DOMAIN kids |-> Deeper(w[kids[i]])]
  BY <1>2
<1> QED BY <1>3 DEF Walked, kids

LEMMA WalksExist ==
  ASSUME NEW dim, IsFiniteSet(Members(dim)), Climbable(dim)
  PROVE  \E w : Walks(dim, Members(dim), w)
<1> DEFINE D == Members(dim)
           G == {S \in SUBSET D : /\ \A x \in S : ChildrenIn(dim, x) \subseteq S
                                  /\ \E w : Walks(dim, S, w)}
<1>1. {} \in G
  <2> DEFINE none == [x \in {} |-> <<>>]
  <2>1. Walks(dim, {}, none)
    BY DEF Walks
  <2> HIDE DEF none
  <2> QED BY <2>1
<1>2. ASSUME NEW S \in SUBSET D, S \in G, S # D
      PROVE  \E x \in D \ S : S \cup {x} \in G
  <2>1. PICK x \in D \ S : ChildrenIn(dim, x) \cap (D \ S) = {}
    <3>1. D \ S \in SUBSET D /\ D \ S # {}
      BY <1>2
    <3> QED BY <3>1 DEF Climbable
  <2>2. PICK g : Walks(dim, S, g)
    BY <1>2
  <2>3. /\ ChildrenIn(dim, x) \subseteq S /\ \A y \in S : ChildrenIn(dim, y) \subseteq S
        /\ \A y \in D : IsFiniteSet(ChildrenIn(dim, y))
    BY <1>2, <2>1 DEF Climbable
  <2> DEFINE R == S \cup {x}
             h == [y \in R |-> IF y = x THEN Walked(dim, g, x) ELSE g[y]]
  <2>4. ASSUME NEW y \in R
        PROVE  h[y] = Walked(dim, h, y)
    <3>1. ChildrenIn(dim, y) \subseteq S /\ IsFiniteSet(ChildrenIn(dim, y))
      BY <2>3
    <3>2. \A p \in S : h[p] = g[p]
      OBVIOUS
    <3>3. h[y] = Walked(dim, g, y)
      <4>1. CASE y = x
        BY <4>1
      <4>2. CASE y # x
        <5>1. y \in S /\ h[y] = g[y]
          BY <4>2
        <5> HIDE DEF h
        <5> QED BY <2>2, <5>1 DEF Walks
      <4> QED BY <4>1, <4>2
    <3> HIDE DEF h
    <3> QED BY <3>1, <3>2, <3>3, WalkReadsChildren
  <2>5. h = [y \in R |-> h[y]]
    OBVIOUS
  <2> HIDE DEF h
  <2>6. Walks(dim, R, h)
    BY <2>4, <2>5 DEF Walks
  <2>7. R \in SUBSET D /\ \A y \in R : ChildrenIn(dim, y) \subseteq R
    BY <2>3
  <2> QED BY <2>6, <2>7
<1>3. D \in G
  <2> HIDE DEF G
  <2> QED BY <1>1, <1>2, SetGrowth
<1> QED BY <1>3

\* Members without children are walks of one header.
LEMMA FlatWalksExist ==
  ASSUME NEW dim, \A x \in Members(dim) : ChildrenIn(dim, x) = {}
  PROVE  \E w : Walks(dim, Members(dim), w)
<1> DEFINE v == [x \in {} |-> <<>>]
           w == [x \in Members(dim) |-> Walked(dim, v, x)]
<1>1. ASSUME NEW x \in Members(dim)
      PROVE  w[x] = Walked(dim, w, x)
  <2>1. w[x] = Walked(dim, v, x)
    OBVIOUS
  <2>2. IsFiniteSet(ChildrenIn(dim, x)) /\ ChildrenIn(dim, x) \subseteq {}
    BY FS_EmptySet
  <2>3. \A y \in {} : v[y] = w[y]
    OBVIOUS
  <2> HIDE DEF v, w
  <2>4. Walked(dim, v, x) = Walked(dim, w, x)
    BY <2>2, <2>3, WalkReadsChildren
  <2> QED BY <2>1, <2>4
<1>2. w = [x \in Members(dim) |-> w[x]]
  OBVIOUS
<1> HIDE DEF w
<1>3. Walks(dim, Members(dim), w)
  BY <1>1, <1>2 DEF Walks
<1> QED BY <1>3

\* A walk is a sequence of headers, and begins with that of its member.
LEMMA DeeperIsSeq ==
  ASSUME NEW dim, NEW hs \in Seq(Heads(dim))
  PROVE  Deeper(hs) \in Seq(Heads(dim))
<1>1. \A i \in 1 .. Len(hs) : hs[i] \in Heads(dim)
  OBVIOUS
<1>2. ASSUME NEW h \in Heads(dim)
      PROVE  [h EXCEPT !.depth = @ + 1] \in Heads(dim)
  BY DEF Heads
<1>3. Deeper(hs) = [i \in 1 .. Len(hs) |-> [hs[i] EXCEPT !.depth = @ + 1]]
  BY DEF Deeper
<1>4. Deeper(hs) \in [1 .. Len(hs) -> Heads(dim)]
  BY <1>1, <1>2, <1>3
<1>5. Len(hs) \in Nat
  OBVIOUS
<1> QED BY <1>4, <1>5

LEMMA WalkedIsSeq ==
  ASSUME NEW dim, NEW x \in Members(dim), IsFiniteSet(ChildrenIn(dim, x)), NEW w,
         \A y \in ChildrenIn(dim, x) : w[y] \in Seq(Heads(dim))
  PROVE  Walked(dim, w, x) \in Seq(Heads(dim)) /\ Len(Walked(dim, w, x)) > 0
<1> DEFINE kids == SetToSeq(ChildrenIn(dim, x))
           subs == [i \in DOMAIN kids |-> Deeper(w[kids[i]])]
           head == Header(dim, x, kids = <<>>)
<1>1. kids \in Seq(ChildrenIn(dim, x))
  BY SetIsListed
<1>2. head \in Heads(dim)
  BY DEF Heads, Header
<1> HIDE DEF kids, head
<1>3. subs \in Seq(Seq(Heads(dim)))
  <2>1. \A i \in DOMAIN kids : Deeper(w[kids[i]]) \in Seq(Heads(dim))
    BY <1>1, DeeperIsSeq
  <2>2. DOMAIN kids = 1 .. Len(kids) /\ Len(kids) \in Nat
    BY <1>1
  <2>3. subs \in [1 .. Len(kids) -> Seq(Heads(dim))]
    BY <2>1, <2>2
  <2> HIDE DEF subs
  <2> QED BY <2>2, <2>3
<1> HIDE DEF subs
<1>4. FlattenSeq(subs) \in Seq(Heads(dim))
  BY <1>3, FlattenIsSeq
<1>5. <<head>> \in Seq(Heads(dim)) /\ Len(<<head>>) = 1
  BY <1>2
<1>6. <<head>> \o FlattenSeq(subs) \in Seq(Heads(dim)) /\ Len(<<head>> \o FlattenSeq(subs)) > 0
  <2>1. PICK p, q \in Seq(Heads(dim)) : p = <<head>> /\ q = FlattenSeq(subs) /\ Len(p) = 1
    BY <1>4, <1>5
  <2>2. p \o q \in Seq(Heads(dim)) /\ Len(p \o q) = Len(p) + Len(q)
    BY JoinFacts
  <2> QED BY <2>1, <2>2
<1> QED BY <1>6 DEF Walked, kids, subs, head

LEMMA WalkIsSeq ==
  ASSUME NEW dim, Climbable(dim), \E w : Walks(dim, Members(dim), w), NEW m \in Members(dim)
  PROVE  TreeWalk(dim, m) \in Seq(Heads(dim)) /\ Len(TreeWalk(dim, m)) > 0
<1> DEFINE w == CHOOSE v : Walks(dim, Members(dim), v)
           Good(x) == w[x] \in Seq(Heads(dim)) /\ Len(w[x]) > 0
           B == {x \in Members(dim) : ~Good(x)}
<1>1. Walks(dim, Members(dim), w)
  OBVIOUS
<1>2. TreeWalk(dim, m) = w[m]
  BY DEF TreeWalk, Walks, Walked
<1> HIDE DEF w
<1>3. B = {}
  <2> SUFFICES ASSUME B # {} PROVE FALSE
    OBVIOUS
  <2>1. PICK x \in B : ChildrenIn(dim, x) \cap B = {}
    <3>1. B \in SUBSET Members(dim)
      OBVIOUS
    <3> HIDE DEF B
    <3> QED BY <3>1 DEF Climbable
  <2>2. /\ x \in Members(dim) /\ IsFiniteSet(ChildrenIn(dim, x))
        /\ \A y \in ChildrenIn(dim, x) : Good(y)
    BY <2>1 DEF Climbable
  <2>3. w[x] = Walked(dim, w, x)
    BY <1>1, <2>2 DEF Walks
  <2>4. Good(x)
    BY <2>2, <2>3, WalkedIsSeq
  <2> QED BY <2>1, <2>4
<1> QED BY <1>2, <1>3

LEMMA FlatIsSeq ==
  ASSUME NEW dim, NEW hs \in Seq(Heads(dim)), NEW chosen
  PROVE  Flat(hs, chosen) \in Seq(Heads(dim))
<1> DEFINE subs == [i \in DOMAIN hs |-> IF i \in chosen THEN <<[hs[i] EXCEPT !.depth = 0]>> ELSE <<>>]
<1>1. DOMAIN hs = 1 .. Len(hs) /\ Len(hs) \in Nat /\ \A i \in 1 .. Len(hs) : hs[i] \in Heads(dim)
  OBVIOUS
<1>2. ASSUME NEW h \in Heads(dim)
      PROVE  <<[h EXCEPT !.depth = 0]>> \in Seq(Heads(dim))
  <2>1. [h EXCEPT !.depth = 0] \in Heads(dim)
    BY DEF Heads
  <2> QED BY <2>1
<1>3. <<>> \in Seq(Heads(dim))
  OBVIOUS
<1>4. subs \in [1 .. Len(hs) -> Seq(Heads(dim))]
  <2> SUFFICES ASSUME NEW i \in 1 .. Len(hs)
               PROVE  (IF i \in chosen THEN <<[hs[i] EXCEPT !.depth = 0]>> ELSE <<>>) \in Seq(Heads(dim))
    BY <1>1
  <2> QED BY <1>1, <1>2, <1>3
<1> HIDE DEF subs
<1>5. subs \in Seq(Seq(Heads(dim)))
  BY <1>1, <1>4
<1>6. FlattenSeq(subs) \in Seq(Heads(dim))
  BY <1>5, FlattenIsSeq
<1> QED BY <1>6 DEF Flat, subs

\* Every dimension can be walked.
Walkable == \A dim \in AxisDims : Climbable(dim) /\ \E w : Walks(dim, Members(dim), w)

AnyHead == UNION {Heads(dim) : dim \in AxisDims}

LEMMA SingleIsSeq == \A S : \A x \in S : <<x>> \in Seq(S) /\ Len(<<x>>) > 0
  OBVIOUS

LEMMA SpecIsSeq ==
  ASSUME Walkable, NEW spec, SpecOK(spec)
  PROVE  ExpandSpec(spec) \in Seq(AnyHead)
<1> DEFINE d    == spec.dim
           walk == IF d = "ic" /\ spec.member = None THEN <<Header("ic", None, TRUE)>>
                   ELSE TreeWalk(d, spec.member)
<1>1. d \in AxisDims /\ spec.member \in Members(d) /\ Heads(d) \subseteq AnyHead
  BY DEF SpecOK, AnyHead
<1>2. walk \in Seq(Heads(d)) /\ Len(walk) > 0
  <2>1. CASE d = "ic" /\ spec.member = None
    <3>1. Header(d, spec.member, TRUE) \in Heads(d)
      BY <1>1 DEF Heads, Header
    <3>2. walk = <<Header(d, spec.member, TRUE)>>
      BY <2>1
    <3> HIDE DEF walk, d
    <3> QED BY <3>1, <3>2, SingleIsSeq
  <2>2. CASE ~(d = "ic" /\ spec.member = None)
    <3>1. TreeWalk(d, spec.member) \in Seq(Heads(d)) /\ Len(TreeWalk(d, spec.member)) > 0
      BY <1>1, WalkIsSeq DEF Walkable
    <3> QED BY <2>2, <3>1
  <2> QED BY <2>1, <2>2
<1>3. ExpandSpec(spec) = CASE spec.expand = "member"   -> <<Head(walk)>>
                           [] spec.expand = "children" -> Flat(walk, {i \in DOMAIN walk : walk[i].depth = 1})
                           [] spec.expand = "leaves"   -> Flat(walk, {i \in DOMAIN walk : walk[i].leaf})
                           [] spec.expand = "tree"     -> walk
  BY DEF ExpandSpec
<1> HIDE DEF walk, d
<1>4. <<Head(walk)>> \in Seq(Heads(d))
  <2>1. Head(walk) = walk[1] /\ walk[1] \in Heads(d)
    BY <1>2
  <2> QED BY <2>1
<1>5. \A c : Flat(walk, c) \in Seq(Heads(d))
  BY <1>2, FlatIsSeq
<1>6. ExpandSpec(spec) \in Seq(Heads(d))
  BY <1>2, <1>3, <1>4, <1>5 DEF SpecOK
<1> QED BY <1>1, <1>6

LEMMA AxesAreSeq ==
  ASSUME Walkable, NEW level, level \in Seq(Range(level)), \A i \in DOMAIN level : SpecOK(level[i])
  PROVE  ExpandAxes(level) \in Seq(AnyHead)
<1> DEFINE subs == [i \in DOMAIN level |-> ExpandSpec(level[i])]
<1>1. DOMAIN level = 1 .. Len(level) /\ Len(level) \in Nat
  OBVIOUS
<1>2. subs \in [1 .. Len(level) -> Seq(AnyHead)]
  BY <1>1, SpecIsSeq
<1> HIDE DEF subs
<1>3. subs \in Seq(Seq(AnyHead))
  BY <1>1, <1>2
<1>4. FlattenSeq(subs) \in Seq(AnyHead)
  BY <1>3, FlattenIsSeq
<1> QED BY <1>4 DEF ExpandAxes, subs

-----------------------------------------------------------------------------
(* One or two levels of a grid.                                            *)
LEMMA MaxOfTwo == Max({1}) = 1 /\ Max({2}) = 2 /\ Max({1, 2}) = 2
  BY DEF Max

LEMMA SubsetsOfTwo ==
  /\ SUBSET {1} = {{}, {1}} /\ SUBSET {1, 2} = {{}, {1}, {2}, {1, 2}}
  /\ {1} \ {1} = {} /\ {2} \ {2} = {} /\ {1, 2} \ {2} = {1}
  /\ {1} # {} /\ {2} # {} /\ {1, 2} # {} /\ {1} # {2} /\ {1} # {1, 2} /\ {2} # {1, 2}
  OBVIOUS

LEMMA OverlayOfOne ==
  ASSUME NEW p, NEW h
  PROVE  Overlay(p, <<h>>) = ApplyHeader(p, h)
<1> DEFINE D == SUBSET {1}
           IsIter(f) == f = [s \in D |-> IF s = {} THEN p
                             ELSE ApplyHeader(f[s \ {Max(s)}], <<h>>[Max(s)])]
           g == [s \in D |-> IF s = {} THEN p ELSE ApplyHeader(p, h)]
           iter == CHOOSE f : IsIter(f)
<1>1. IsIter(g)
  <2>1. g[{}] = p /\ {} \in D
    OBVIOUS
  <2>2. ASSUME NEW s \in D
        PROVE  g[s] = IF s = {} THEN p ELSE ApplyHeader(g[s \ {Max(s)}], <<h>>[Max(s)])
    <3>1. CASE s = {}
      BY <2>1, <3>1
    <3>2. CASE s # {}
      <4>1. s = {1} /\ Max(s) = 1 /\ s \ {Max(s)} = {} /\ <<h>>[1] = h
        BY <3>2, MaxOfTwo, SubsetsOfTwo
      <4>2. g[s] = ApplyHeader(p, h)
        BY <3>2
      <4> HIDE DEF g
      <4> QED BY <2>1, <3>2, <4>1, <4>2
    <3> QED BY <3>1, <3>2
  <2>3. g = [s \in D |-> g[s]]
    OBVIOUS
  <2> HIDE DEF g, D
  <2> QED BY <2>2, <2>3
<1> HIDE DEF g
<1>2. IsIter(iter)
  <2> HIDE DEF IsIter
  <2> QED BY <1>1
<1>3. DOMAIN <<h>> = {1}
  OBVIOUS
<1>4. Overlay(p, <<h>>) = iter[{1}]
  BY <1>3 DEF Overlay, FoldLeft, MapThenFoldSet
<1> HIDE DEF iter
<1>5. {} \in D /\ {1} \in D
  OBVIOUS
<1> HIDE DEF D
<1>6. iter[{}] = p
  BY <1>2, <1>5
<1>7. iter[{1}] = ApplyHeader(iter[{1} \ {Max({1})}], <<h>>[Max({1})])
  BY <1>2, <1>5
<1>8. {1} \ {Max({1})} = {} /\ <<h>>[Max({1})] = h
  BY MaxOfTwo
<1> QED BY <1>4, <1>6, <1>7, <1>8

LEMMA OverlayOfTwo ==
  ASSUME NEW p, NEW h, NEW k
  PROVE  Overlay(p, <<h, k>>) = ApplyHeader(ApplyHeader(p, h), k)
<1> DEFINE D == SUBSET {1, 2}
           t == <<h, k>>
           IsIter(f) == f = [s \in D |-> IF s = {} THEN p
                             ELSE ApplyHeader(f[s \ {Max(s)}], t[Max(s)])]
           g == [s \in D |-> IF s = {} THEN p
                             ELSE IF s = {1} THEN ApplyHeader(p, h)
                             ELSE IF s = {2} THEN ApplyHeader(p, k)
                             ELSE ApplyHeader(ApplyHeader(p, h), k)]
           iter == CHOOSE f : IsIter(f)
<1>1. t[1] = h /\ t[2] = k /\ DOMAIN t = {1, 2}
  OBVIOUS
<1>2. Overlay(p, t) = iter[{1, 2}]
  BY <1>1 DEF Overlay, FoldLeft, MapThenFoldSet
<1> HIDE DEF t
<1>3. {} \in D /\ {1} \in D /\ {2} \in D /\ {1, 2} \in D
  OBVIOUS
<1>4. IsIter(g)
  <2>1. /\ g[{}] = p /\ g[{1}] = ApplyHeader(p, h) /\ g[{2}] = ApplyHeader(p, k)
        /\ g[{1, 2}] = ApplyHeader(ApplyHeader(p, h), k)
    BY SubsetsOfTwo
  <2>2. \A s \in D : s \in {{}, {1}, {2}, {1, 2}}
    BY SubsetsOfTwo
  <2>3. g = [s \in D |-> g[s]]
    OBVIOUS
  <2> HIDE DEF g, D
  <2>4. ASSUME NEW s \in D
        PROVE  g[s] = IF s = {} THEN p ELSE ApplyHeader(g[s \ {Max(s)}], t[Max(s)])
    <3>1. CASE s = {}
      BY <2>1, <3>1
    <3>2. CASE s = {1}
      <4>1. Max(s) = 1 /\ s \ {1} = {} /\ s # {}
        BY <3>2, MaxOfTwo
      <4> QED BY <1>1, <2>1, <3>2, <4>1
    <3>3. CASE s = {2}
      <4>1. Max(s) = 2 /\ s \ {2} = {} /\ s # {}
        BY <3>3, MaxOfTwo
      <4> QED BY <1>1, <2>1, <3>3, <4>1
    <3>4. CASE s = {1, 2}
      <4>1. Max(s) = 2 /\ s \ {2} = {1} /\ s # {}
        BY <3>4, MaxOfTwo
      <4> QED BY <1>1, <2>1, <3>4, <4>1
    <3> QED BY <2>2, <3>1, <3>2, <3>3, <3>4
  <2> QED BY <2>3, <2>4
<1> HIDE DEF g
<1>5. IsIter(iter)
  <2> HIDE DEF IsIter
  <2> QED BY <1>4
<1> HIDE DEF iter, D
<1>6. iter[{}] = p
  BY <1>3, <1>5
<1>7. iter[{1}] = ApplyHeader(iter[{1} \ {Max({1})}], t[Max({1})])
  BY <1>3, <1>5
<1>8. iter[{1, 2}] = ApplyHeader(iter[{1, 2} \ {Max({1, 2})}], t[Max({1, 2})])
  BY <1>3, <1>5
<1>9. iter[{1}] = ApplyHeader(p, h) /\ iter[{1, 2}] = ApplyHeader(iter[{1}], k)
  BY <1>1, <1>6, <1>7, <1>8, MaxOfTwo, SubsetsOfTwo
<1> QED BY <1>2, <1>9 DEF t

\* The axes of one and of two levels.
LEMMA NestOfOne ==
  ASSUME NEW a
  PROVE  ExpandNested(<<a>>) = NestLevel(<< <<>> >>, a)
<1> DEFINE D == SUBSET {1}
           p == << <<>> >>
           IsIter(f) == f = [s \in D |-> IF s = {} THEN p
                             ELSE NestLevel(f[s \ {Max(s)}], <<a>>[Max(s)])]
           g == [s \in D |-> IF s = {} THEN p ELSE NestLevel(p, a)]
           iter == CHOOSE f : IsIter(f)
<1>1. DOMAIN <<a>> = {1}
  OBVIOUS
<1>2. ExpandNested(<<a>>) = iter[{1}]
  BY <1>1 DEF ExpandNested, FoldLeft, MapThenFoldSet
<1> HIDE DEF p
<1>3. IsIter(g)
  <2>1. g[{}] = p /\ {} \in D
    OBVIOUS
  <2>2. ASSUME NEW s \in D
        PROVE  g[s] = IF s = {} THEN p ELSE NestLevel(g[s \ {Max(s)}], <<a>>[Max(s)])
    <3>1. CASE s = {}
      BY <2>1, <3>1
    <3>2. CASE s # {}
      <4>1. s = {1} /\ Max(s) = 1 /\ s \ {Max(s)} = {} /\ <<a>>[1] = a
        BY <3>2, MaxOfTwo, SubsetsOfTwo
      <4>2. g[s] = NestLevel(p, a)
        BY <3>2
      <4> HIDE DEF g
      <4> QED BY <2>1, <3>2, <4>1, <4>2
    <3> QED BY <3>1, <3>2
  <2>3. g = [s \in D |-> g[s]]
    OBVIOUS
  <2> HIDE DEF g, D
  <2> QED BY <2>2, <2>3
<1> HIDE DEF g
<1>4. IsIter(iter)
  <2> HIDE DEF IsIter
  <2> QED BY <1>3
<1> HIDE DEF iter
<1>5. {} \in D /\ {1} \in D
  OBVIOUS
<1> HIDE DEF D
<1>6. iter[{}] = p
  BY <1>4, <1>5
<1>7. iter[{1}] = NestLevel(iter[{1} \ {Max({1})}], <<a>>[Max({1})])
  BY <1>4, <1>5
<1>8. {1} \ {Max({1})} = {} /\ <<a>>[Max({1})] = a
  BY MaxOfTwo
<1> QED BY <1>2, <1>6, <1>7, <1>8 DEF p

LEMMA NestOfTwo ==
  ASSUME NEW a, NEW b
  PROVE  ExpandNested(<<a, b>>) = NestLevel(NestLevel(<< <<>> >>, a), b)
<1> DEFINE D == SUBSET {1, 2}
           p == << <<>> >>
           t == <<a, b>>
           IsIter(f) == f = [s \in D |-> IF s = {} THEN p
                             ELSE NestLevel(f[s \ {Max(s)}], t[Max(s)])]
           g == [s \in D |-> IF s = {} THEN p
                             ELSE IF s = {1} THEN NestLevel(p, a)
                             ELSE IF s = {2} THEN NestLevel(p, b)
                             ELSE NestLevel(NestLevel(p, a), b)]
           iter == CHOOSE f : IsIter(f)
<1>1. t[1] = a /\ t[2] = b /\ DOMAIN t = {1, 2}
  OBVIOUS
<1>2. ExpandNested(t) = iter[{1, 2}]
  BY <1>1 DEF ExpandNested, FoldLeft, MapThenFoldSet
<1> HIDE DEF t, p
<1>3. {} \in D /\ {1} \in D /\ {2} \in D /\ {1, 2} \in D
  OBVIOUS
<1>4. IsIter(g)
  <2>1. /\ g[{}] = p /\ g[{1}] = NestLevel(p, a) /\ g[{2}] = NestLevel(p, b)
        /\ g[{1, 2}] = NestLevel(NestLevel(p, a), b)
    BY SubsetsOfTwo
  <2>2. \A s \in D : s \in {{}, {1}, {2}, {1, 2}}
    BY SubsetsOfTwo
  <2>3. g = [s \in D |-> g[s]]
    OBVIOUS
  <2> HIDE DEF g, D
  <2>4. ASSUME NEW s \in D
        PROVE  g[s] = IF s = {} THEN p ELSE NestLevel(g[s \ {Max(s)}], t[Max(s)])
    <3>1. CASE s = {}
      BY <2>1, <3>1
    <3>2. CASE s = {1}
      <4>1. Max(s) = 1 /\ s \ {1} = {} /\ s # {}
        BY <3>2, MaxOfTwo
      <4> QED BY <1>1, <2>1, <3>2, <4>1
    <3>3. CASE s = {2}
      <4>1. Max(s) = 2 /\ s \ {2} = {} /\ s # {}
        BY <3>3, MaxOfTwo
      <4> QED BY <1>1, <2>1, <3>3, <4>1
    <3>4. CASE s = {1, 2}
      <4>1. Max(s) = 2 /\ s \ {2} = {1} /\ s # {}
        BY <3>4, MaxOfTwo
      <4> QED BY <1>1, <2>1, <3>4, <4>1
    <3> QED BY <2>2, <3>1, <3>2, <3>3, <3>4
  <2> QED BY <2>3, <2>4
<1> HIDE DEF g
<1>5. IsIter(iter)
  <2> HIDE DEF IsIter
  <2> QED BY <1>4
<1> HIDE DEF iter, D
<1>6. iter[{}] = p
  BY <1>3, <1>5
<1>7. iter[{1}] = NestLevel(iter[{1} \ {Max({1})}], t[Max({1})])
  BY <1>3, <1>5
<1>8. iter[{1, 2}] = NestLevel(iter[{1, 2} \ {Max({1, 2})}], t[Max({1, 2})])
  BY <1>3, <1>5
<1>9. iter[{1}] = NestLevel(p, a) /\ iter[{1, 2}] = NestLevel(iter[{1}], b)
  BY <1>1, <1>6, <1>7, <1>8, MaxOfTwo, SubsetsOfTwo
<1> QED BY <1>2, <1>9 DEF t, p

LEMMA SeqIsFunction == \A S : \A s \in Seq(S) : s \in [1 .. Len(s) -> S]
  OBVIOUS

LEMMA AppendShort ==
  /\ \A y : Append(<<>>, y) = <<y>>
  /\ \A x, y : Append(<<x>>, y) = <<x, y>>
<1>1. ASSUME NEW y PROVE Append(<<>>, y) = <<y>>
  <2>1. <<>> \in Seq({y}) /\ Len(<<>>) = 0
    OBVIOUS
  <2>2. Append(<<>>, y) = [i \in 1 .. 1 |-> y]
    BY <2>1
  <2> QED BY <2>2
<1>2. ASSUME NEW x, NEW y PROVE Append(<<x>>, y) = <<x, y>>
  <2>1. <<x>> \in Seq({x, y}) /\ y \in {x, y} /\ Len(<<x>>) = 1
    OBVIOUS
  <2>2. Append(<<x>>, y) \in Seq({x, y}) /\ Len(Append(<<x>>, y)) = 2
    BY <2>1
  <2>3. Append(<<x>>, y)[1] = x /\ Append(<<x>>, y)[2] = y
    BY <2>1
  <2>4. PICK s \in Seq({x, y}) : s = Append(<<x>>, y) /\ Len(s) = 2 /\ s[1] = x /\ s[2] = y
    BY <2>2, <2>3
  <2>5. s \in [1 .. 2 -> {x, y}]
    BY <2>4, SeqIsFunction
  <2>6. <<x, y>> \in [1 .. 2 -> {x, y}] /\ <<x, y>>[1] = x /\ <<x, y>>[2] = y
    OBVIOUS
  <2>7. \A i \in 1 .. 2 : i = 1 \/ i = 2
    OBVIOUS
  <2>8. \A i \in 1 .. 2 : s[i] = <<x, y>>[i]
    BY <2>4, <2>6, <2>7
  <2>9. s = <<x, y>>
    BY <2>5, <2>6, <2>8
  <2> QED BY <2>4, <2>9
<1> QED BY <1>1, <1>2

\* Where the i-th of n times m places lies.
LEMMA PlaceOfRow ==
  ASSUME NEW n \in Nat, NEW m \in Nat, NEW i \in 1 .. n * m
  PROVE  LET k == ((i - 1) \div m) + 1
             j == ((i - 1) % m) + 1
         IN  k \in 1 .. n /\ j \in 1 .. m /\ i = (k - 1) * m + j
<1>1. m > 0
  <2>1. m = 0 => n * m = 0
    OBVIOUS
  <2> QED BY <2>1
<1> DEFINE x == i - 1
           q == x \div m
           r == x % m
<1>2. x \in Nat /\ i = x + 1
  OBVIOUS
<1>3. q \in Int /\ r \in 0 .. m - 1 /\ x = q * m + r
  BY <1>1, <1>2
<1>4. x < n * m
  BY <1>2
<1> HIDE DEF x, q, r
<1>5. q >= 0
  <2>1. q <= -1 => q * m <= -m
    BY <1>1, <1>3
  <2> QED BY <1>1, <1>2, <1>3, <2>1
<1>6. q < n
  <2>1. q >= n => q * m >= n * m
    BY <1>1, <1>3
  <2>2. q * m \in Int /\ n * m \in Int
    BY <1>3
  <2> QED BY <1>2, <1>3, <1>4, <2>1, <2>2
<1>7. i = (q + 1 - 1) * m + (r + 1)
  <2>1. q + 1 - 1 = q
    BY <1>3
  <2>2. q * m \in Int
    BY <1>3
  <2> QED BY <1>2, <1>3, <2>1, <2>2
<1> QED BY <1>3, <1>5, <1>6, <1>7 DEF q, r, x

\* One level makes a row of one header for each of them.
LEMMA NestsOne ==
  ASSUME NEW a, NEW S, ExpandAxes(a) \in Seq(S)
  PROVE  NestLevel(<< <<>> >>, a) = [i \in 1 .. Len(ExpandAxes(a)) |-> <<ExpandAxes(a)[i]>>]
<1> DEFINE c == ExpandAxes(a)
           n == Len(c)
           p == << <<>> >>
<1>1. n \in Nat /\ Len(p) = 1 /\ p[1] = <<>> /\ 1 * n = n
  OBVIOUS
<1>2. NestLevel(p, a) = [i \in 1 .. Len(p) * n |-> Append(p[((i - 1) \div n) + 1], c[((i - 1) % n) + 1])]
  BY DEF NestLevel
<1> HIDE DEF c, p
<1>3. Len(p) * n = n
  BY <1>1
<1>4. ASSUME NEW i \in 1 .. n
      PROVE  Append(p[((i - 1) \div n) + 1], c[((i - 1) % n) + 1]) = <<c[i]>>
  <2>1. n \in Nat /\ i \in 1 .. 1 * n
    BY <1>1
  <2> HIDE DEF n
  <2> DEFINE k == ((i - 1) \div n) + 1
             j == ((i - 1) % n) + 1
  <2>2. k \in 1 .. 1 /\ j \in 1 .. n /\ i = (k - 1) * n + j
    BY <2>1, PlaceOfRow
  <2> HIDE DEF k, j
  <2>3. k = 1 /\ j \in Int /\ i = (k - 1) * n + j
    BY <2>1, <2>2
  <2>4. j = i
    <3>1. (k - 1) * n = 0
      BY <2>1, <2>3
    <3> QED BY <2>3, <3>1
  <2>5. Append(p[k], c[j]) = <<c[i]>>
    BY <1>1, <2>3, <2>4, AppendShort
  <2> QED BY <2>5 DEF k, j
<1> HIDE DEF n
<1>5. NestLevel(p, a) = [i \in 1 .. n |-> <<c[i]>>]
  BY <1>2, <1>3, <1>4
<1> QED BY <1>5 DEF c, n, p

\* Two levels make a row of two for each pair, the inner header running faster.
LEMMA NestsTwo ==
  ASSUME NEW a, NEW b, NEW S, ExpandAxes(a) \in Seq(S), ExpandAxes(b) \in Seq(S)
  PROVE  LET n == Len(ExpandAxes(a))
             m == Len(ExpandAxes(b))
         IN  NestLevel(NestLevel(<< <<>> >>, a), b)
               = [i \in 1 .. n * m |-> <<ExpandAxes(a)[((i - 1) \div m) + 1],
                                         ExpandAxes(b)[((i - 1) % m) + 1]>>]
<1> DEFINE c == ExpandAxes(a)
           d == ExpandAxes(b)
           n == Len(c)
           m == Len(d)
           p == [i \in 1 .. n |-> <<c[i]>>]
<1>1. n \in Nat /\ m \in Nat
  OBVIOUS
<1>2. NestLevel(<< <<>> >>, a) = p
  BY NestsOne
<1>3. NestLevel(p, b) = [i \in 1 .. Len(p) * m |-> Append(p[((i - 1) \div m) + 1], d[((i - 1) % m) + 1])]
  BY DEF NestLevel
<1> HIDE DEF c, d, n, m
<1>4. Len(p) = n /\ \A k \in 1 .. n : p[k] = <<c[k]>>
  BY <1>1
<1> HIDE DEF p
<1>5. ASSUME NEW i \in 1 .. n * m
      PROVE  Append(p[((i - 1) \div m) + 1], d[((i - 1) % m) + 1])
               = <<c[((i - 1) \div m) + 1], d[((i - 1) % m) + 1]>>
  <2> DEFINE k == ((i - 1) \div m) + 1
             j == ((i - 1) % m) + 1
  <2>1. k \in 1 .. n
    BY <1>1, PlaceOfRow
  <2> HIDE DEF k, j
  <2>2. p[k] = <<c[k]>>
    BY <1>4, <2>1
  <2>3. Append(<<c[k]>>, d[j]) = <<c[k], d[j]>>
    BY AppendShort
  <2>4. Append(p[k], d[j]) = <<c[k], d[j]>>
    BY <2>2, <2>3
  <2> QED BY <2>4 DEF k, j
<1>6. NestLevel(p, b) = [i \in 1 .. n * m |-> <<c[((i - 1) \div m) + 1], d[((i - 1) % m) + 1]>>]
  BY <1>3, <1>4, <1>5
<1> QED BY <1>2, <1>6 DEF c, d, n, m

\* One row of a grid, at a point of view that its headers are laid over.
RowAt(cols, p) == [j \in DOMAIN cols |-> GetCell(Overlay(p, cols[j]))]

LEMMA CellsAreRows ==
  ASSUME NEW req
  PROVE  Cells(req) = [i \in DOMAIN ExpandNested(req.rows) |->
                         RowAt(ExpandNested(req.cols), Overlay(req.pov, ExpandNested(req.rows)[i]))]
  BY DEF Cells, RowAt

\* Row under header h of the outer and k of the inner level.
RowOf(g, h, k) == RowAt(ExpandNested(g.cols), ApplyHeader(ApplyHeader(g.pov, h), k))

\* The grid of the inner level under one header of the outer.
Inner(g, b, h)     == [g EXCEPT !.rows = <<b>>, !.pov = At(g.pov, h.dim, h.name)]
InnerRows(g, b, h) == [i \in 1 .. Len(ExpandAxes(b)) |-> RowOf(g, h, ExpandAxes(b)[i])]

LEMMA InnerGrid ==
  ASSUME NEW g, {"pov", "rows", "cols"} \subseteq DOMAIN g, NEW b, ExpandAxes(b) \in Seq(AnyHead), NEW h
  PROVE  Cells(Inner(g, b, h)) = InnerRows(g, b, h)
<1> DEFINE r == [g EXCEPT !.rows = <<b>>, !.pov = At(g.pov, h.dim, h.name)]
           d == ExpandAxes(b)
<1>1. r.rows = <<b>> /\ r.pov = ApplyHeader(g.pov, h) /\ r.cols = g.cols
  BY DEF At, ApplyHeader
<1> HIDE DEF r
<1>2. ExpandNested(r.rows) = [i \in 1 .. Len(d) |-> <<d[i]>>]
  BY <1>1, NestOfOne, NestsOne
<1>3. ASSUME NEW i \in 1 .. Len(d)
      PROVE  Overlay(r.pov, ExpandNested(r.rows)[i]) = ApplyHeader(ApplyHeader(g.pov, h), d[i])
  <2>1. ExpandNested(r.rows)[i] = <<d[i]>>
    BY <1>2
  <2> QED BY <1>1, <2>1, OverlayOfOne
<1>4. Cells(r) = [i \in 1 .. Len(d) |->
                    RowAt(ExpandNested(g.cols), Overlay(r.pov, ExpandNested(r.rows)[i]))]
  <2>1. DOMAIN ExpandNested(r.rows) = 1 .. Len(d)
    BY <1>2
  <2> QED BY <1>1, <2>1, CellsAreRows
<1> HIDE DEF d
<1>5. Cells(r) = [i \in 1 .. Len(d) |->
                    RowAt(ExpandNested(g.cols), ApplyHeader(ApplyHeader(g.pov, h), d[i]))]
  BY <1>3, <1>4
<1> QED BY <1>5 DEF r, d, Inner, InnerRows, RowOf

\* A grid of two levels, row by row.
AllRows(g, a, b) ==
  LET n == Len(ExpandAxes(a))
      m == Len(ExpandAxes(b))
  IN  [i \in 1 .. n * m |-> RowOf(g, ExpandAxes(a)[((i - 1) \div m) + 1], ExpandAxes(b)[((i - 1) % m) + 1])]

LEMMA WholeGrid ==
  ASSUME NEW g, NEW a, NEW b, g.rows = <<a, b>>,
         ExpandAxes(a) \in Seq(AnyHead), ExpandAxes(b) \in Seq(AnyHead)
  PROVE  Cells(g) = AllRows(g, a, b)
<1> DEFINE c == ExpandAxes(a)
           d == ExpandAxes(b)
           n == Len(c)
           m == Len(d)
           w == [i \in 1 .. n * m |-> <<c[((i - 1) \div m) + 1], d[((i - 1) % m) + 1]>>]
<1>1. ExpandNested(g.rows) = w
  BY NestOfTwo, NestsTwo
<1> HIDE DEF c, d, n, m
<1>2. DOMAIN w = 1 .. n * m
  OBVIOUS
<1>3. ASSUME NEW i \in 1 .. n * m
      PROVE  Overlay(g.pov, w[i])
               = ApplyHeader(ApplyHeader(g.pov, c[((i - 1) \div m) + 1]), d[((i - 1) % m) + 1])
  <2>1. w[i] = <<c[((i - 1) \div m) + 1], d[((i - 1) % m) + 1]>>
    OBVIOUS
  <2> HIDE DEF w
  <2> QED BY <2>1, OverlayOfTwo
<1> HIDE DEF w
<1>4. Cells(g) = [i \in 1 .. n * m |-> RowAt(ExpandNested(g.cols), Overlay(g.pov, w[i]))]
  BY <1>1, <1>2, CellsAreRows
<1>5. Cells(g) = [i \in 1 .. n * m |->
        RowAt(ExpandNested(g.cols),
              ApplyHeader(ApplyHeader(g.pov, c[((i - 1) \div m) + 1]), d[((i - 1) % m) + 1]))]
  BY <1>3, <1>4
<1> QED BY <1>5 DEF c, d, n, m, AllRows, RowOf

LEMMA GridsNest ==
  ASSUME Walkable
  PROVE  NestedGrid
<1> SUFFICES ASSUME NEW g \in Grids, RequestOK(g)
             PROVE  LET outer    == ExpandAxes(g.rows[1])
                        inner(h) == [g EXCEPT !.rows = <<g.rows[2]>>, !.pov = At(g.pov, h.dim, h.name)]
                    IN  Cells(g) = FlattenSeq([k \in DOMAIN outer |-> Cells(inner(outer[k]))])
  BY DEF NestedGrid
<1> DEFINE a == g.rows[1]
           b == g.rows[2]
           c == ExpandAxes(a)
           d == ExpandAxes(b)
           n == Len(c)
           m == Len(d)
           row(k, j) == RowOf(g, c[k], d[j])
           ss == [k \in DOMAIN c |-> Cells(Inner(g, b, c[k]))]
           S == {row(k, j) : k \in 1 .. n, j \in 1 .. m}
<1>1. /\ {"pov", "rows", "cols"} \subseteq DOMAIN g
      /\ g.rows = <<a, b>> /\ 1 \in DOMAIN g.rows /\ 2 \in DOMAIN g.rows
      /\ a \in Seq(Range(a)) /\ b \in Seq(Range(b))
  BY GridsAssumption
<1>2. c \in Seq(AnyHead) /\ d \in Seq(AnyHead)
  <2>1. /\ \A i \in DOMAIN a : SpecOK(a[i])
        /\ \A i \in DOMAIN b : SpecOK(b[i])
    BY <1>1 DEF RequestOK
  <2> HIDE DEF a, b
  <2> QED BY <1>1, <2>1, AxesAreSeq
<1> HIDE DEF a, b
<1>3. Cells(g) = [i \in 1 .. n * m |-> row(((i - 1) \div m) + 1, ((i - 1) % m) + 1)]
  <2>1. g.rows = <<a, b>> /\ ExpandAxes(a) \in Seq(AnyHead) /\ ExpandAxes(b) \in Seq(AnyHead)
    BY <1>1, <1>2
  <2>2. Cells(g) = AllRows(g, a, b)
    BY <2>1, WholeGrid
  <2> QED BY <2>2 DEF AllRows
<1>4. \A k : Cells(Inner(g, b, c[k])) = [j \in 1 .. m |-> row(k, j)]
  <2>1. ExpandAxes(b) \in Seq(AnyHead) /\ {"pov", "rows", "cols"} \subseteq DOMAIN g
    BY <1>1, <1>2
  <2>2. \A h : Cells(Inner(g, b, h)) = InnerRows(g, b, h)
    BY <2>1, InnerGrid
  <2> QED BY <2>2 DEF InnerRows
<1>5. DOMAIN c = 1 .. n /\ n \in Nat /\ m \in Nat
  BY <1>2
<1> HIDE DEF c, d, n, m, row
<1>6. /\ ss \in Seq(Seq(S)) /\ Len(ss) = n
      /\ \A k \in 1 .. n : Len(ss[k]) = m /\ \A j \in 1 .. m : ss[k][j] = row(k, j)
  <2>1. \A k \in 1 .. n : ss[k] = [j \in 1 .. m |-> row(k, j)]
    BY <1>4, <1>5
  <2>2. \A k \in 1 .. n : /\ [j \in 1 .. m |-> row(k, j)] \in Seq(S)
                          /\ Len([j \in 1 .. m |-> row(k, j)]) = m
    <3>1. \A k \in 1 .. n : [j \in 1 .. m |-> row(k, j)] \in [1 .. m -> S]
      OBVIOUS
    <3> HIDE DEF S, ss
    <3>2. \A f \in [1 .. m -> S] : f \in Seq(S) /\ Len(f) = m
      BY <1>5
    <3> QED BY <3>1, <3>2
  <2> HIDE DEF S
  <2>3. ss \in [1 .. n -> Seq(S)]
    BY <1>5, <2>1, <2>2
  <2> HIDE DEF ss
  <2>4. ss \in Seq(Seq(S)) /\ Len(ss) = n
    BY <1>5, <2>3
  <2> QED BY <2>1, <2>2, <2>4
<1> HIDE DEF ss, S
<1>7. /\ Len(FlattenSeq(ss)) = n * m /\ FlattenSeq(ss) \in Seq(S)
      /\ \A k \in 1 .. n, j \in 1 .. m : FlattenSeq(ss)[(k - 1) * m + j] = row(k, j)
  <2>1. \A k \in 1 .. Len(ss) : Len(ss[k]) = m
    BY <1>6
  <2>2. /\ Len(FlattenSeq(ss)) = Len(ss) * m /\ FlattenSeq(ss) \in Seq(S)
        /\ \A k \in 1 .. Len(ss), j \in 1 .. m : FlattenSeq(ss)[(k - 1) * m + j] = ss[k][j]
    BY <1>5, <1>6, <2>1, FlattenOfRows
  <2> QED BY <1>6, <2>2
<1>8. ASSUME NEW i \in 1 .. n * m
      PROVE  FlattenSeq(ss)[i] = row(((i - 1) \div m) + 1, ((i - 1) % m) + 1)
  <2> DEFINE k == ((i - 1) \div m) + 1
             j == ((i - 1) % m) + 1
  <2>1. k \in 1 .. n /\ j \in 1 .. m /\ i = (k - 1) * m + j
    BY <1>5, PlaceOfRow
  <2> HIDE DEF k, j
  <2>2. FlattenSeq(ss)[(k - 1) * m + j] = row(k, j)
    BY <1>7, <2>1
  <2>3. FlattenSeq(ss)[i] = row(k, j)
    BY <2>1, <2>2
  <2> QED BY <2>3 DEF k, j
<1>9. FlattenSeq(ss) = [i \in 1 .. n * m |-> row(((i - 1) \div m) + 1, ((i - 1) % m) + 1)]
  <2>1. FlattenSeq(ss) \in [1 .. n * m -> S]
    BY <1>7, SeqIsFunction
  <2> QED BY <1>8, <2>1
<1>10. Cells(g) = FlattenSeq(ss)
  BY <1>3, <1>9
<1> QED BY <1>10 DEF ss, Inner, c, a, b

-----------------------------------------------------------------------------
(* Every dimension can be walked.                                          *)
LEMMA TreeIsWalkable ==
  ASSUME NEW dim, NEW t, IsFiniteSet(Members(dim)), DOMAIN t \subseteq Members(dim), Acyclic(t),
         \A x : ChildrenIn(dim, x) = Children(t, x)
  PROVE  Climbable(dim) /\ \E w : Walks(dim, Members(dim), w)
<1>1. ASSUME NEW x \in Members(dim)
      PROVE  IsFiniteSet(ChildrenIn(dim, x)) /\ ChildrenIn(dim, x) \subseteq Members(dim)
  <2>1. ChildrenIn(dim, x) \in SUBSET Members(dim)
    BY DEF Children
  <2> QED BY <2>1, FS_Subset
<1>2. ASSUME NEW S \in SUBSET Members(dim), S # {}
      PROVE  \E x \in S : ChildrenIn(dim, x) \cap S = {}
  <2> DEFINE U == S \cap DOMAIN t
  <2>1. CASE U = {}
    BY <1>2, <2>1 DEF Children
  <2>2. CASE U # {}
    <3>1. U \in SUBSET DOMAIN t
      OBVIOUS
    <3>2. PICK x \in U : Children(t, x) \cap U = {}
      BY <2>2, <3>1 DEF Acyclic
    <3>3. ChildrenIn(dim, x) \cap S = {}
      BY <3>2 DEF Children
    <3> QED BY <3>3
  <2> QED BY <2>1, <2>2
<1>3. Climbable(dim)
  BY <1>1, <1>2 DEF Climbable
<1> QED BY <1>3, WalksExist

LEMMA FlatIsWalkable ==
  ASSUME NEW dim, \A x : ChildrenIn(dim, x) = {}
  PROVE  Climbable(dim) /\ \E w : Walks(dim, Members(dim), w)
<1>1. Climbable(dim)
  BY FS_EmptySet DEF Climbable
<1> QED BY <1>1, FlatWalksExist

LEMMA TimeIsFinite == IsFiniteSet(TimeMembers(Years))
<1> DEFINE of(y) == {Year(y)} \cup {Quarter(y, q) : q \in 1 .. 4} \cup {Month(y, m) : m \in 1 .. 12}
           all == {of(y) : y \in Years}
<1>1. ASSUME NEW y PROVE IsFiniteSet(of(y))
  <2>1. IsFiniteSet(1 .. 4) /\ IsFiniteSet(1 .. 12)
    BY IntervalsAreFinite
  <2>2. IsFiniteSet({[q \in 1 .. 4 |-> Quarter(y, q)][i] : i \in 1 .. 4})
    BY <2>1, ImageIsFinite
  <2>3. IsFiniteSet({[m \in 1 .. 12 |-> Month(y, m)][i] : i \in 1 .. 12})
    BY <2>1, ImageIsFinite
  <2>4. /\ {[q \in 1 .. 4 |-> Quarter(y, q)][i] : i \in 1 .. 4} = {Quarter(y, q) : q \in 1 .. 4}
        /\ {[m \in 1 .. 12 |-> Month(y, m)][i] : i \in 1 .. 12} = {Month(y, m) : m \in 1 .. 12}
    OBVIOUS
  <2>5. IsFiniteSet({Quarter(y, q) : q \in 1 .. 4}) /\ IsFiniteSet({Month(y, m) : m \in 1 .. 12})
    BY <2>2, <2>3, <2>4
  <2>6. IsFiniteSet({Year(y)} \cup {Quarter(y, q) : q \in 1 .. 4})
    BY <2>5, FS_Singleton, FS_Union
  <2> QED BY <2>5, <2>6, FS_Union
<1>2. IsFiniteSet(all)
  <2>1. IsFiniteSet({[y \in Years |-> of(y)][z] : z \in Years})
    BY GridsAssumption, ImageIsFinite
  <2>2. {[y \in Years |-> of(y)][z] : z \in Years} = all
    OBVIOUS
  <2> QED BY <2>1, <2>2
<1>3. \A T \in all : IsFiniteSet(T)
  BY <1>1
<1>4. TimeMembers(Years) = UNION all
  BY DEF TimeMembers
<1> HIDE DEF all
<1> QED BY <1>2, <1>3, <1>4, FS_UNION

LEMMA TimeIsWalkable ==
  Climbable("time") /\ \E w : Walks("time", Members("time"), w)
<1>1. Members("time") = TimeMembers(Years) /\ \A x : ChildrenIn("time", x) = SubPeriods(x)
  BY DEF Members, ChildrenIn
<1>2. ASSUME NEW x \in TimeMembers(Years)
      PROVE  /\ x.part \in {"Y", "Q", "M"} /\ SubPeriods(x) \subseteq TimeMembers(Years)
             /\ x.part = "M" => SubPeriods(x) = {}
             /\ x.part = "Q" => \A y \in SubPeriods(x) : y.part = "M"
             /\ x.part = "Y" => \A y \in SubPeriods(x) : y.part = "Q"
  <2>1. x.year \in Years
    BY TimeMemberShape
  <2>2. CASE x.part = "M"
    BY <2>2 DEF SubPeriods
  <2>3. CASE x.part = "Q" /\ x.n \in 1 .. 4
    <3>1. SubPeriods(x) = {Month(x.year, m) : m \in (x.n - 1) * 3 + 1 .. x.n * 3}
      BY <2>3 DEF SubPeriods
    <3>2. (x.n - 1) * 3 + 1 .. x.n * 3 \subseteq 1 .. 12
      BY <2>3
    <3>3. \A m \in 1 .. 12 : Month(x.year, m) \in TimeMembers(Years) /\ Month(x.year, m).part = "M"
      BY <2>1 DEF TimeMembers, Month
    <3> QED BY <2>3, <3>1, <3>2, <3>3
  <2>4. CASE x.part = "Y"
    <3>1. SubPeriods(x) = {Quarter(x.year, q) : q \in 1 .. 4}
      BY <2>4 DEF SubPeriods
    <3>2. \A q \in 1 .. 4 : Quarter(x.year, q) \in TimeMembers(Years) /\ Quarter(x.year, q).part = "Q"
      BY <2>1 DEF TimeMembers, Quarter
    <3> QED BY <2>4, <3>1, <3>2
  <2> QED BY <2>2, <2>3, <2>4, TimeMemberShape
<1>3. ASSUME NEW S \in SUBSET TimeMembers(Years), S # {}
      PROVE  \E x \in S : SubPeriods(x) \cap S = {}
  <2>1. CASE \E x \in S : x.part = "M"
    BY <1>2, <2>1
  <2>2. CASE (\A x \in S : x.part # "M") /\ \E x \in S : x.part = "Q"
    BY <1>2, <2>2
  <2>3. CASE \A x \in S : x.part # "M" /\ x.part # "Q"
    BY <1>2, <1>3, <2>3
  <2> QED BY <2>1, <2>2, <2>3
<1>4. Climbable("time")
  <2>1. \A x \in TimeMembers(Years) : IsFiniteSet(SubPeriods(x))
    BY <1>2, TimeIsFinite, FS_Subset
  <2> QED BY <1>1, <1>2, <1>3, <2>1 DEF Climbable
<1> QED BY <1>1, <1>4, TimeIsFinite, WalksExist

LEMMA AllWalkable ==
  ASSUME IsFiniteSet(DOMAIN ent), Acyclic(ent), IsFiniteSet(DOMAIN acc), Acyclic(acc)
  PROVE  Walkable
<1> DEFINE Can(dim) == Climbable(dim) /\ \E w : Walks(dim, Members(dim), w)
<1>1. Can("entity")
  <2>1. Members("entity") = DOMAIN ent /\ \A x : ChildrenIn("entity", x) = Children(ent, x)
    BY DEF Members, ChildrenIn
  <2> QED BY <2>1, TreeIsWalkable
<1>2. Can("account")
  <2>1. Members("account") = DOMAIN acc /\ \A x : ChildrenIn("account", x) = Children(acc, x)
    BY DEF Members, ChildrenIn
  <2> QED BY <2>1, TreeIsWalkable
<1>3. Can("ic")
  <2>1. Members("ic") = {None} \cup DOMAIN ent /\ \A x : ChildrenIn("ic", x) = Children(ent, x)
    BY DEF Members, ChildrenIn
  <2>2. IsFiniteSet({None} \cup DOMAIN ent)
    BY FS_Singleton, FS_Union
  <2> QED BY <2>1, <2>2, TreeIsWalkable
<1>4. Can("scenario") /\ Can("view") /\ Can("stage") /\ Can("origin")
  <2>1. \A x : /\ ChildrenIn("scenario", x) = {} /\ ChildrenIn("view", x) = {}
               /\ ChildrenIn("stage", x) = {} /\ ChildrenIn("origin", x) = {}
    BY DEF ChildrenIn
  <2> QED BY <2>1, FlatIsWalkable
<1>5. Can("time")
  BY TimeIsWalkable
<1> QED BY <1>1, <1>2, <1>3, <1>4, <1>5 DEF Walkable, AxisDims
=============================================================================
