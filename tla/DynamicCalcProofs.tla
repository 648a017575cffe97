------------------------- MODULE DynamicCalcProofs --------------------------
(***************************************************************************)
(* Proofs about the evaluation of dynamic formulas, for any finite set of  *)
(* accounts, any formulas on them, any limit and any order of references.  *)
(***************************************************************************)
EXTENDS DynamicCalc, TreeProofs

-----------------------------------------------------------------------------
(* What formulas refer to.                                                 *)

LEMMA UsesFacts ==
  ASSUME formula \in FormulaSets
  PROVE  /\ Dynamic \subseteq Accounts /\ IsFiniteSet(Dynamic)
         /\ \A a : Uses(a) \subseteq Accounts
         /\ \A a \in Dynamic : /\ formula[a].test \in Accounts \cup {NoTest}
                               /\ formula[a].then \subseteq Uses(a) /\ formula[a].else \subseteq Uses(a)
                               /\ formula[a].test # NoTest => formula[a].test \in Uses(a)
                               /\ formula[a].test = NoTest => Uses(a) = formula[a].then
                               /\ IsFiniteSet(formula[a].then) /\ IsFiniteSet(formula[a].else)
         /\ \A a : a \notin Dynamic => Uses(a) = {}
<1>1. /\ Dynamic \subseteq Accounts
      /\ \A a \in Dynamic : /\ formula[a].test \in Accounts \cup {NoTest}
                            /\ formula[a].then \subseteq Accounts /\ formula[a].else \subseteq Accounts
                            /\ formula[a].test = NoTest => formula[a].else = {}
  BY FormulasAssumption DEF Dynamic
<1>2. ASSUME NEW a \in Dynamic
      PROVE  /\ formula[a].test \in Accounts \cup {NoTest}
             /\ formula[a].then \subseteq Uses(a) /\ formula[a].else \subseteq Uses(a)
             /\ formula[a].test # NoTest => formula[a].test \in Uses(a)
             /\ formula[a].test = NoTest => Uses(a) = formula[a].then
             /\ Uses(a) \subseteq Accounts
  <2> DEFINE t == formula[a].test
             A == formula[a].then
             B == formula[a].else
  <2>1. Uses(a) = (A \cup B \cup {t}) \ {NoTest}
    BY DEF Uses
  <2>2. t \in Accounts \cup {NoTest} /\ A \subseteq Accounts /\ B \subseteq Accounts /\ (t = NoTest => B = {})
    BY <1>1
  <2> HIDE DEF t, A, B
  <2>3. t \in Accounts \cup {NoTest} /\ A \subseteq Uses(a) /\ B \subseteq Uses(a)
        /\ (t # NoTest => t \in Uses(a)) /\ (t = NoTest => Uses(a) = A) /\ Uses(a) \subseteq Accounts
    BY <2>1, <2>2, LimitsAssumption
  <2> QED BY <2>3 DEF t, A, B
<1>3. \A S \in SUBSET Accounts : IsFiniteSet(S)
  BY LimitsAssumption, FS_Subset
<1>4. \A a : a \notin Dynamic => Uses(a) = {}
  BY DEF Uses
<1>5. \A a \in Dynamic : IsFiniteSet(formula[a].then) /\ IsFiniteSet(formula[a].else)
  <2> SUFFICES ASSUME NEW a \in Dynamic PROVE formula[a].then \subseteq Accounts /\ formula[a].else \subseteq Accounts
    BY <1>3
  <2> QED BY <1>1
<1> QED BY <1>1, <1>2, <1>3, <1>4, <1>5

\* What is reached is closed under references, and least so.
LEMMA ReachesIsClosed ==
  ASSUME formula \in FormulaSets, NEW a
  PROVE  /\ Uses(a) \subseteq Reaches(a) /\ Reaches(a) \subseteq Accounts
         /\ \A b \in Reaches(a) : Uses(b) \subseteq Reaches(a)
  BY UsesFacts DEF Reaches

LEMMA ReachesIsLeast ==
  ASSUME NEW a, NEW S \in SUBSET Accounts, Uses(a) \subseteq S, \A x \in S : Uses(x) \subseteq S
  PROVE  Reaches(a) \subseteq S
  BY DEF Reaches

LEMMA ReachesIsTransitive ==
  ASSUME formula \in FormulaSets, NEW a, NEW b \in Reaches(a)
  PROVE  Reaches(b) \subseteq Reaches(a)
<1>1. Reaches(a) \in SUBSET Accounts /\ Uses(b) \subseteq Reaches(a)
      /\ \A x \in Reaches(a) : Uses(x) \subseteq Reaches(a)
  BY ReachesIsClosed
<1> QED BY <1>1, ReachesIsLeast

\* A path begins with a reference.
LEMMA ReachesStepwise ==
  ASSUME formula \in FormulaSets, NEW a, NEW b \in Reaches(a)
  PROVE  \E y \in Uses(a) : b = y \/ b \in Reaches(y)
<1> DEFINE S == Uses(a) \cup UNION {Reaches(y) : y \in Uses(a)}
<1>1. S \in SUBSET Accounts /\ Uses(a) \subseteq S
  BY UsesFacts, ReachesIsClosed
<1>2. \A x \in S : Uses(x) \subseteq S
  BY ReachesIsClosed
<1> HIDE DEF S
<1>3. b \in S
  BY <1>1, <1>2, ReachesIsLeast
<1> QED BY <1>3 DEF S

\* No cycle can be met from a.
Tame(a) == (Reaches(a) \cup {a}) \cap Cyclic = {}

\* A formula of accounts that meet no cycle meets none.
LEMMA TameByParts ==
  ASSUME formula \in FormulaSets, NEW a \in Accounts, \A y \in Uses(a) : Tame(y)
  PROVE  Tame(a)
<1>1. \A b \in Reaches(a) : b \notin Cyclic
  BY ReachesStepwise DEF Tame
<1>2. a \notin Cyclic
  BY <1>1 DEF Cyclic
<1> QED BY <1>1, <1>2 DEF Tame

LEMMA TameParts ==
  ASSUME formula \in FormulaSets, NEW a, Tame(a), NEW y \in Uses(a)
  PROVE  Tame(y)
<1>1. y \in Reaches(a)
  BY ReachesIsClosed
<1> QED BY <1>1, ReachesIsTransitive DEF Tame

\* Formulas stay, and with them all this.
LEMMA ReferencesKept ==
  ASSUME UNCHANGED formula
  PROVE  /\ Dynamic' = Dynamic /\ SumsOnly' = SumsOnly /\ Cyclic' = Cyclic
         /\ \A a : Uses(a)' = Uses(a) /\ Reaches(a)' = Reaches(a) /\ Tame(a)' = Tame(a)
<1>1. Dynamic' = Dynamic /\ \A a : Uses(a)' = Uses(a)
  BY DEF Dynamic, Uses
<1>2. \A a : Reaches(a)' = Reaches(a)
  BY <1>1 DEF Reaches
<1>3. Cyclic' = Cyclic
  BY <1>2 DEF Cyclic
<1>4. \A a : Tame(a)' = Tame(a)
  BY <1>2, <1>3 DEF Tame
<1>5. SumsOnly' = SumsOnly
  BY <1>1 DEF SumsOnly
<1> QED BY <1>1, <1>2, <1>3, <1>4, <1>5

-----------------------------------------------------------------------------
(* The stack.                                                              *)

Frames == [acct : Accounts, test : Accounts \cup {NoTest}, sum : Int, todo : SUBSET Accounts]

Answers == [acct : Accounts, value : Int]

\* Frame f evaluates the formula of its account, and has yet to read what
\* the formula may read.
Underway(f) == /\ f.acct \in Dynamic
               /\ f.test # NoTest => f.test = formula[f.acct].test /\ f.sum = 1 /\ f.todo = {}
               /\ f.test = NoTest => f.todo \subseteq Uses(f.acct)
               /\ f.test = NoTest /\ formula[f.acct].test = NoTest => f.todo \subseteq formula[f.acct].then

\* A frame was called for a reference of the one below it, so that each is
\* reached from those below.
Shapes == /\ formula \in FormulaSets /\ limit \in Limits
          /\ stack \in Seq(Frames) /\ answers \in Seq(Answers)
          /\ \A i \in 1 .. Len(stack) : Underway(stack[i])

Chained == /\ \A i \in 1 .. Len(stack) : i # 1 => stack[i].acct \in Wanted(stack[i - 1])
           /\ \A i, j \in 1 .. Len(stack) : i < j => stack[j].acct \in Reaches(stack[i].acct)
           /\ \A i, j \in 1 .. Len(stack) : stack[i].acct = stack[j].acct => i = j

StackInv ==
  /\ Shapes /\ Chained
  /\ inFlight = {stack[i].acct : i \in 1 .. Len(stack)}
  /\ IsFiniteSet(inFlight) /\ Cardinality(inFlight) = Len(stack)
  /\ Len(stack) <= limit
  /\ cycled \subseteq Dynamic /\ cycled \subseteq Cyclic
  /\ Len(answers) <= MaxCells /\ (stack # <<>> => Len(answers) < MaxCells)

LEMMA StackParts == StackInv => Shapes /\ Chained
  BY DEF StackInv

\* What a frame may call for is a reference of its formula.
LEMMA WantedFacts ==
  ASSUME formula \in FormulaSets, NEW f \in Frames, Underway(f), NEW r \in Wanted(f)
  PROVE  r \in Uses(f.acct) /\ r \in Accounts
<1>1. CASE f.test # NoTest
  <2>1. r = formula[f.acct].test /\ r # NoTest
    BY <1>1 DEF Wanted, Underway
  <2> QED BY <2>1, UsesFacts DEF Underway
<1>2. CASE f.test = NoTest
  BY <1>2, UsesFacts DEF Wanted, Underway
<1> QED BY <1>1, <1>2

LEMMA ShapeFacts ==
  ASSUME Shapes
  PROVE  /\ formula \in FormulaSets /\ Len(stack) \in Nat /\ limit \in Nat /\ limit > 0
         /\ DOMAIN stack = 1 .. Len(stack)
         /\ \A i \in 1 .. Len(stack) : stack[i] \in Frames /\ Underway(stack[i])
         /\ \A i \in 1 .. Len(stack) : stack[i].acct \in Dynamic /\ stack[i].acct \in Accounts
<1>1. \A i \in 1 .. Len(stack) : stack[i] \in Frames /\ Underway(stack[i])
  BY DEF Shapes
<1>2. \A f \in Frames : Underway(f) => f.acct \in Dynamic /\ f.acct \in Accounts
  BY DEF Underway, Frames
<1> QED BY <1>1, <1>2, LimitsAssumption DEF Shapes

\* The chain of a next stack, while the formulas stay.
LEMMA ChainedNext ==
  ASSUME UNCHANGED formula, NEW m, Len(stack') = m,
         \A i \in 1 .. m : i # 1 => stack'[i].acct \in Wanted(stack'[i - 1]),
         \A i, j \in 1 .. m : i < j => stack'[j].acct \in Reaches(stack'[i].acct),
         \A i, j \in 1 .. m : stack'[i].acct = stack'[j].acct => i = j
  PROVE  Chained'
<1>1. (\A f : Wanted(f)' = Wanted(f)) /\ \A a : Reaches(a)' = Reaches(a)
  BY ReferencesKept DEF Wanted
<1> QED BY <1>1 DEF Chained

\* What was called for, whose frame is or would be the one after the n-th,
\* is reached from every frame up to it.
LEMMA CalledIsReached ==
  ASSUME StackInv, NEW n \in 1 .. Len(stack), NEW a \in Wanted(stack[n])
  PROVE  /\ a \in Uses(stack[n].acct) /\ a \in Accounts
         /\ \A i \in 1 .. n : a \in Reaches(stack[i].acct)
<1>1. a \in Uses(stack[n].acct) /\ a \in Accounts
  <2>1. stack[n] \in Frames /\ Underway(stack[n])
    BY ShapeFacts DEF StackInv
  <2> QED BY <2>1, WantedFacts DEF StackInv, Shapes
<1>2. ASSUME NEW i \in 1 .. n PROVE a \in Reaches(stack[i].acct)
  <2>1. CASE i = n
    BY <1>1, <2>1, ReachesIsClosed, ShapeFacts DEF StackInv
  <2>2. CASE i # n
    <3>1. stack[n].acct \in Reaches(stack[i].acct)
      <4> Len(stack) \in Nat
        BY ShapeFacts DEF StackInv
      <4>1. i \in 1 .. Len(stack) /\ i < n
        BY <2>2
      <4> QED BY <4>1 DEF StackInv, Chained
    <3> QED BY <1>1, <3>1, ReachesIsClosed, ShapeFacts DEF StackInv
  <2> QED BY <2>1, <2>2
<1> QED BY <1>1, <1>2

\* So an account in flight that is called for again is on a cycle.
LEMMA InFlightAgain ==
  ASSUME StackInv, NEW n \in 1 .. Len(stack), NEW a \in Wanted(stack[n]), NEW i \in 1 .. n, a = stack[i].acct
  PROVE  a \in Cyclic
  BY CalledIsReached DEF Cyclic

\* What telling a frame makes of it.
LEMMA ToldFacts ==
  ASSUME formula \in FormulaSets, NEW f \in Frames, Underway(f), NEW r \in Wanted(f), NEW v \in Int
  PROVE  /\ Told(f, r, v) \in Frames /\ Underway(Told(f, r, v)) /\ Told(f, r, v).acct = f.acct
<1> DEFINE g == Told(f, r, v)
<1>1. CASE f.test # NoTest
  <2> DEFINE branch == IF v = 0 THEN formula[f.acct].then ELSE formula[f.acct].else
  <2>1. g = [acct |-> f.acct, test |-> NoTest, sum |-> f.sum, todo |-> branch]
    BY <1>1 DEF Told
  <2>2. branch \subseteq Uses(f.acct) /\ branch \subseteq Accounts /\ formula[f.acct].test # NoTest
    BY <1>1, UsesFacts DEF Underway
  <2> HIDE DEF branch
  <2> QED BY <1>1, <2>1, <2>2 DEF Frames, Underway
<1>2. CASE f.test = NoTest
  <2>1. g = [acct |-> f.acct, test |-> NoTest, sum |-> f.sum + v, todo |-> f.todo \ {r}]
    BY <1>2 DEF Told
  <2>2. f.sum + v \in Int /\ f.todo \ {r} \subseteq Accounts
    BY DEF Frames
  <2> QED BY <1>2, <2>1, <2>2 DEF Frames, Underway
<1> QED BY <1>1, <1>2

\* a has been called for by the n-th frame, which is the last one of st, or
\* by Query when st has none.
Caller(n, st, a) == /\ n \in 0 .. Len(stack)
                    /\ st \in Seq(Frames) /\ Len(st) = n /\ \A i \in 1 .. n : st[i] = stack[i]
                    /\ a \in Accounts
                    /\ n # 0 => a \in Wanted(stack[n])
                    /\ n = 0 => Len(answers) < MaxCells

\* getCell returns to its caller, and only there.
LEMMA ReturnFacts ==
  ASSUME StackInv, NEW n, NEW st, NEW a, Caller(n, st, a), NEW v \in Int, Return(st, a, v)
  PROVE  /\ stack' \in Seq(Frames) /\ Len(stack') = n /\ n \in Nat
         /\ \A i \in 1 .. n : /\ i # n => stack'[i] = stack[i]
                              /\ i = n => stack'[i] = Told(stack[n], a, v)
                              /\ stack'[i].acct = stack[i].acct /\ Underway(stack'[i])
         /\ n # 0 => answers' = answers
         /\ n = 0 => answers' = Append(answers, [acct |-> a, value |-> v])
         /\ answers' \in Seq(Answers) /\ Len(answers') <= MaxCells
         /\ stack' # <<>> => Len(answers') < MaxCells
<1>0. Len(stack) \in Nat /\ n \in Nat /\ n <= Len(stack) /\ answers \in Seq(Answers) /\ Len(answers) <= MaxCells
  <2>1. Len(stack) \in Nat
    BY ShapeFacts DEF StackInv
  <2>2. n \in 0 .. Len(stack)
    BY DEF Caller
  <2>3. answers \in Seq(Answers) /\ Len(answers) <= MaxCells
    BY DEF StackInv, Shapes
  <2> QED BY <2>1, <2>2, <2>3
<1>1. CASE n = 0
  <2>1. st = <<>> /\ [acct |-> a, value |-> v] \in Answers
    BY <1>1 DEF Caller, Answers
  <2>2. stack' = st /\ answers' = Append(answers, [acct |-> a, value |-> v])
    BY <2>1 DEF Return
  <2>3. Len(answers) < MaxCells
    BY <1>1 DEF Caller
  <2>4. answers' \in Seq(Answers) /\ Len(answers') = Len(answers) + 1
    BY <1>0, <2>1, <2>2
  <2>5. Len(answers) \in Nat /\ MaxCells \in Nat
    BY <1>0, LimitsAssumption
  <2>6. stack' \in Seq(Frames) /\ Len(stack') = n /\ stack' = <<>>
    BY <1>1, <2>1, <2>2 DEF Caller
  <2> QED BY <1>1, <2>2, <2>3, <2>4, <2>5, <2>6
<1>2. CASE n # 0
  <2> DEFINE f == Told(stack[n], a, v)
  <2>1. n \in 1 .. n /\ n \in 1 .. Len(stack) /\ st # <<>> /\ a \in Wanted(stack[n]) /\ st[n] = stack[n]
    BY <1>0, <1>2 DEF Caller
  <2>2. stack' = [st EXCEPT ![n] = Told(st[n], a, v)] /\ answers' = answers
    BY <2>1 DEF Return, Caller
  <2>3. stack[n] \in Frames /\ Underway(stack[n])
    BY <2>1, ShapeFacts DEF StackInv
  <2>4. f \in Frames /\ Underway(f) /\ f.acct = stack[n].acct
    BY <2>1, <2>3, ToldFacts DEF StackInv, Shapes
  <2> HIDE DEF f
  <2>5. stack' = [st EXCEPT ![n] = f]
    BY <2>1, <2>2 DEF f
  <2>6. stack' \in Seq(Frames) /\ Len(stack') = n /\ \A i \in 1 .. n : stack'[i] = IF i = n THEN f ELSE st[i]
    BY <1>0, <2>1, <2>4, <2>5 DEF Caller
  <2>7. \A i \in 1 .. n : st[i] = stack[i] /\ Underway(stack[i])
    <3>1. \A i \in 1 .. n : i \in 1 .. Len(stack)
      BY <1>0
    <3> QED BY <3>1, ShapeFacts DEF StackInv, Caller
  <2>8. Len(answers) < MaxCells
    <3>1. stack # <<>>
      BY <1>0, <1>2
    <3> QED BY <3>1 DEF StackInv
  <2> QED BY <1>0, <1>2, <2>2, <2>4, <2>6, <2>7, <2>8 DEF f
<1> QED BY <1>1, <1>2

LEMMA ReturnKeepsStack ==
  ASSUME StackInv, UNCHANGED <<formula, limit>>,
         NEW n, NEW st, NEW a, Caller(n, st, a), NEW v \in Int, Return(st, a, v),
         inFlight' = {stack[i].acct : i \in 1 .. n},
         IsFiniteSet(inFlight'), Cardinality(inFlight') = n,
         cycled' \subseteq Dynamic, cycled' \subseteq Cyclic
  PROVE  StackInv'
<1>1. /\ stack' \in Seq(Frames) /\ Len(stack') = n /\ n \in Nat
      /\ \A i \in 1 .. n : /\ i # n => stack'[i] = stack[i]
                           /\ stack'[i].acct = stack[i].acct /\ Underway(stack'[i])
      /\ answers' \in Seq(Answers) /\ Len(answers') <= MaxCells
      /\ stack' # <<>> => Len(answers') < MaxCells
  BY ReturnFacts
<1>2. Len(stack) \in Nat /\ n <= Len(stack) /\ limit \in Nat
  <2>1. Len(stack) \in Nat /\ limit \in Nat
    BY ShapeFacts DEF StackInv
  <2>2. n \in 0 .. Len(stack)
    BY DEF Caller
  <2> QED BY <2>1, <2>2
<1>3. \A i \in 1 .. n : i \in 1 .. Len(stack)
  BY <1>1, <1>2
<1>4. Shapes'
  <2>1. Frames' = Frames /\ Answers' = Answers
    BY DEF Frames, Answers
  <2>2. \A f : Underway(f)' <=> Underway(f)
    BY ReferencesKept DEF Underway
  <2> QED BY <1>1, <2>1, <2>2 DEF Shapes, StackInv
<1>5. Chained'
  <2>1. ASSUME NEW i \in 1 .. n, NEW j \in 1 .. n, i < j
        PROVE  stack'[j].acct \in Reaches(stack'[i].acct)
    <3>1. stack[j].acct \in Reaches(stack[i].acct)
      BY <1>3, <2>1, StackParts DEF Chained
    <3> QED BY <1>1, <3>1
  <2>2. ASSUME NEW i \in 1 .. n, NEW j \in 1 .. n, stack'[i].acct = stack'[j].acct
        PROVE  i = j
    <3>1. stack[i].acct = stack[j].acct
      BY <1>1, <2>2
    <3> QED BY <1>3, <3>1, StackParts DEF Chained
  <2>3. ASSUME NEW i \in 1 .. n, i # 1
        PROVE  stack'[i].acct \in Wanted(stack'[i - 1])
    <3>1. i - 1 \in 1 .. n /\ i - 1 # n /\ i \in 1 .. Len(stack)
      BY <1>1, <1>3, <2>3
    <3>2. stack[i].acct \in Wanted(stack[i - 1])
      BY <2>3, <3>1, StackParts DEF Chained
    <3> QED BY <1>1, <3>1, <3>2
  <2> QED BY <1>1, <2>1, <2>2, <2>3, ChainedNext
<1>6. inFlight' = {stack'[i].acct : i \in 1 .. Len(stack')}
  BY <1>1
<1>7. Len(stack') <= limit'
  <2>1. Len(stack) <= limit
    BY DEF StackInv
  <2> QED BY <1>1, <1>2, <2>1
<1> QED BY <1>1, <1>4, <1>5, <1>6, <1>7, ReferencesKept DEF StackInv

LEMMA CalledHasCaller ==
  ASSUME StackInv, NEW a \in Called
  PROVE  Caller(Len(stack), stack, a)
<1>1. Len(stack) \in Nat /\ stack \in Seq(Frames)
  BY ShapeFacts DEF StackInv, Shapes
<1>2. CASE stack = <<>>
  <2>1. a \in Accounts /\ Len(answers) < MaxCells
    BY <1>2 DEF Called
  <2> QED BY <1>1, <1>2, <2>1 DEF Caller
<1>3. CASE stack # <<>>
  <2>1. a \in Wanted(stack[Len(stack)]) /\ Len(stack) \in 1 .. Len(stack)
    BY <1>1, <1>3 DEF Called, Top
  <2>2. a \in Accounts
    BY <2>1, CalledIsReached
  <2> QED BY <1>1, <2>1, <2>2 DEF Caller
<1> QED BY <1>2, <1>3

LEMMA LeavingHasCaller ==
  ASSUME StackInv, stack # <<>>
  PROVE  /\ Caller(Len(stack) - 1, Under, Top.acct)
         /\ Len(stack) \in 1 .. Len(stack) /\ Top = stack[Len(stack)] /\ Top \in Frames /\ Underway(Top)
<1>1. Len(stack) \in Nat \ {0} /\ stack \in Seq(Frames) /\ Top = stack[Len(stack)]
  <2>1. stack \in Seq(Frames)
    BY StackParts DEF Shapes
  <2>2. Len(stack) \in Nat \ {0}
    BY <2>1
  <2> QED BY <2>1, <2>2 DEF Top
<1> DEFINE n == Len(stack) - 1
<1>2. n \in Nat /\ n \in 0 .. Len(stack) /\ n + 1 = Len(stack) /\ n + 1 \in 1 .. Len(stack) /\ n + 1 - 1 = n
  BY <1>1
<1>3. Under \in Seq(Frames) /\ Len(Under) = n /\ \A i \in 1 .. n : Under[i] = stack[i]
  <2>1. \A s \in Seq(Frames) : \A k \in Nat : k + 1 = Len(s) =>
          /\ SubSeq(s, 1, k) \in Seq(Frames) /\ Len(SubSeq(s, 1, k)) = k
          /\ \A i \in 1 .. k : SubSeq(s, 1, k)[i] = s[i]
    OBVIOUS
  <2> QED BY <1>1, <1>2, <2>1 DEF Under
<1>4. n # 0 => Top.acct \in Wanted(stack[n])
  <2>1. \A i \in 1 .. Len(stack) : i # 1 => stack[i].acct \in Wanted(stack[i - 1])
    BY StackParts DEF Chained
  <2> HIDE DEF n
  <2>2. n # 0 => stack[n + 1].acct \in Wanted(stack[n + 1 - 1])
    BY <1>2, <2>1
  <2> QED BY <1>1, <1>2, <2>2
<1>5. Top.acct \in Accounts /\ Top \in Frames /\ Underway(Top)
  BY <1>1, <1>2, ShapeFacts DEF StackInv
<1> QED BY <1>1, <1>2, <1>3, <1>4, <1>5 DEF Caller, StackInv

\* An evaluation starts on top of the stack.
LEMMA EvaluateKeepsStack ==
  ASSUME StackInv, NEW a \in Called, Evaluate(a)
  PROVE  /\ StackInv'
         /\ Len(stack') = Len(stack) + 1 /\ Len(stack) < limit
         /\ \A i \in 1 .. Len(stack) : stack'[i] = stack[i]
         /\ stack'[Len(stack) + 1] = Frame(a)
<1> DEFINE n == Len(stack)
<1>1. /\ n \in Nat /\ stack \in Seq(Frames) /\ limit \in Nat /\ formula \in FormulaSets
      /\ \A i \in 1 .. n : stack[i] \in Frames /\ Underway(stack[i])
  BY ShapeFacts DEF StackInv, Shapes
<1>2. a \in Dynamic /\ a \notin inFlight /\ stack' = Append(stack, Frame(a)) /\ inFlight' = inFlight \cup {a}
      /\ n < limit /\ UNCHANGED <<formula, limit, cycled, answers>>
  BY <1>1 DEF Evaluate, TooDeep
<1>3. a \in Accounts
  BY <1>1, <1>2, UsesFacts
<1>4. Frame(a) \in Frames /\ Underway(Frame(a)) /\ Frame(a).acct = a
  <2>1. formula[a].test \in Accounts \cup {NoTest} /\ formula[a].then \subseteq Accounts
        /\ formula[a].then \subseteq Uses(a)
    BY <1>1, <1>2, UsesFacts
  <2>2. CASE formula[a].test = NoTest
    <3>1. Frame(a) = [acct |-> a, test |-> NoTest, sum |-> 1, todo |-> formula[a].then]
      BY <2>2 DEF Frame
    <3> QED BY <1>2, <1>3, <2>1, <2>2, <3>1 DEF Frames, Underway
  <2>3. CASE formula[a].test # NoTest
    <3>1. Frame(a) = [acct |-> a, test |-> formula[a].test, sum |-> 1, todo |-> {}]
      BY <2>3 DEF Frame
    <3> QED BY <1>2, <1>3, <2>1, <2>3, <3>1 DEF Frames, Underway
  <2> QED BY <2>2, <2>3
<1> HIDE DEF n
<1>5. /\ stack' \in Seq(Frames) /\ Len(stack') = n + 1 /\ stack'[n + 1] = Frame(a)
      /\ \A i \in 1 .. n : stack'[i] = stack[i]
  BY <1>1, <1>2, <1>4 DEF n
<1>6. \A i \in 1 .. n + 1 : i = n + 1 \/ i \in 1 .. n
  BY <1>1
<1>7. \A i \in 1 .. n : a \in Reaches(stack[i].acct) /\ a # stack[i].acct
  <2>1. ASSUME n # 0 PROVE n \in 1 .. n /\ a \in Wanted(stack[n])
    <3>1. stack # <<>>
      BY <1>1, <2>1 DEF n
    <3> QED BY <1>1, <2>1, <3>1 DEF Called, Top, n
  <2>2. n # 0 => \A i \in 1 .. n : a \in Reaches(stack[i].acct)
    BY <2>1, CalledIsReached DEF n
  <2>3. n = 0 => 1 .. n = {}
    BY <1>1
  <2>4. inFlight = {stack[i].acct : i \in 1 .. n}
    BY DEF StackInv, n
  <2> QED BY <1>2, <2>2, <2>3, <2>4
<1>8. Shapes'
  <2>1. Frames' = Frames /\ Answers' = Answers
    BY DEF Frames, Answers
  <2>2. \A f : Underway(f)' <=> Underway(f)
    BY <1>2, ReferencesKept DEF Underway
  <2>3. \A i \in 1 .. n + 1 : Underway(stack'[i])
    BY <1>1, <1>4, <1>5, <1>6
  <2> QED BY <1>2, <1>5, <2>1, <2>2, <2>3 DEF Shapes, StackInv
<1>9. Chained'
  <2>1. ASSUME NEW i \in 1 .. n + 1, NEW j \in 1 .. n + 1, i < j
        PROVE  stack'[j].acct \in Reaches(stack'[i].acct)
    <3>1. i \in 1 .. n /\ stack'[i] = stack[i]
      BY <1>1, <1>5, <2>1
    <3>2. CASE j = n + 1
      BY <1>4, <1>5, <1>7, <3>1, <3>2
    <3>3. CASE j \in 1 .. n
      <4>1. stack[j].acct \in Reaches(stack[i].acct)
        BY <2>1, <3>1, <3>3, StackParts DEF Chained, n
      <4> QED BY <1>5, <3>1, <3>3, <4>1
    <3> QED BY <1>6, <3>2, <3>3
  <2>2. ASSUME NEW i \in 1 .. n + 1, NEW j \in 1 .. n + 1, stack'[i].acct = stack'[j].acct
        PROVE  i = j
    <3>1. CASE i = n + 1 \/ j = n + 1
      BY <1>4, <1>5, <1>6, <1>7, <2>2, <3>1
    <3>2. CASE i \in 1 .. n /\ j \in 1 .. n
      <4>1. stack[i].acct = stack[j].acct
        BY <1>5, <2>2, <3>2
      <4> QED BY <3>2, <4>1, StackParts DEF Chained, n
    <3> QED BY <1>6, <3>1, <3>2
  <2>3. ASSUME NEW i \in 1 .. n + 1, i # 1
        PROVE  stack'[i].acct \in Wanted(stack'[i - 1])
    <3>1. i - 1 \in 1 .. n /\ stack'[i - 1] = stack[i - 1]
      BY <1>1, <1>5, <2>3
    <3>2. stack'[i].acct \in Wanted(stack[i - 1])
      <4>1. CASE i = n + 1
        <5>1. stack # <<>> /\ i - 1 = n
          BY <1>1, <3>1, <4>1 DEF n
        <5>2. a \in Wanted(stack[n])
          BY <5>1 DEF Called, Top, n
        <5> QED BY <1>4, <1>5, <4>1, <5>1, <5>2
      <4>2. CASE i \in 1 .. n
        <5>1. stack[i].acct \in Wanted(stack[i - 1])
          BY <2>3, <4>2, StackParts DEF Chained, n
        <5> QED BY <1>5, <4>2, <5>1
      <4> QED BY <1>6, <4>1, <4>2
    <3> QED BY <3>1, <3>2
  <2> QED BY <1>2, <1>5, <2>1, <2>2, <2>3, ChainedNext
<1>10. inFlight' = {stack'[i].acct : i \in 1 .. n + 1}
  <2>1. inFlight = {stack[i].acct : i \in 1 .. n}
    BY DEF StackInv, n
  <2>2. \A i \in 1 .. n : i \in 1 .. n + 1
    BY <1>1
  <2>3. n + 1 \in 1 .. n + 1
    BY <1>1
  <2>4. \A i \in 1 .. n : stack'[i].acct = stack[i].acct
    BY <1>5
  <2>5. stack'[n + 1].acct = a
    BY <1>4, <1>5
  <2> DEFINE next(i) == stack'[i].acct
  <2>6. inFlight' = {next(i) : i \in 1 .. n} \cup {next(n + 1)}
    BY <1>2, <2>1, <2>4, <2>5
  <2> HIDE DEF next
  <2>7. inFlight' = {next(i) : i \in 1 .. n + 1}
    BY <1>6, <2>2, <2>3, <2>6
  <2> QED BY <2>7 DEF next
<1>11. IsFiniteSet(inFlight') /\ Cardinality(inFlight') = n + 1
  BY <1>2, FS_AddElement DEF StackInv, n
<1>12. Len(answers') <= MaxCells /\ Len(answers') < MaxCells
  <2>1. Len(answers) < MaxCells
    <3>1. CASE stack = <<>>
      BY <3>1 DEF Called
    <3>2. CASE stack # <<>>
      BY <3>2 DEF StackInv
    <3> QED BY <3>1, <3>2
  <2> QED BY <1>2, <2>1 DEF StackInv
<1>13. n + 1 <= limit' /\ cycled' \subseteq Dynamic' /\ cycled' \subseteq Cyclic'
  <2>1. cycled \subseteq Dynamic /\ cycled \subseteq Cyclic
    BY DEF StackInv
  <2> QED BY <1>1, <1>2, <2>1, ReferencesKept
<1>14. StackInv'
  BY <1>5, <1>8, <1>9, <1>10, <1>11, <1>12, <1>13 DEF StackInv
<1> QED BY <1>2, <1>5, <1>14 DEF n

\* What the actions return, and to whom.
Returning(n, st, a, v) == /\ Caller(n, st, a) /\ Return(st, a, v)
                          /\ UNCHANGED <<formula, limit>>
                          /\ inFlight' = {stack[i].acct : i \in 1 .. n}

LEMMA StackInvInit == Init => StackInv
<1> SUFFICES ASSUME Init PROVE StackInv
  OBVIOUS
<1>1. stack = <<>> /\ answers = <<>> /\ Len(stack) = 0 /\ Len(answers) = 0 /\ 1 .. 0 = {}
  BY DEF Init
<1>2. inFlight = {} /\ cycled = {} /\ limit \in Nat /\ MaxCells \in Nat
  BY LimitsAssumption DEF Init
<1> QED BY <1>1, <1>2, FS_EmptySet DEF Init, StackInv, Shapes, Chained

LEMMA StackInvStep == StackInv /\ [Next]_vars => StackInv'
<1> SUFFICES ASSUME StackInv, [Next]_vars PROVE StackInv'
  OBVIOUS
<1> DEFINE n == Len(stack)
<1>0. n \in Nat /\ formula \in FormulaSets
  BY ShapeFacts DEF StackInv
<1>1. ASSUME NEW a \in Called, NEW v \in Int, Return(stack, a, v), UNCHANGED <<formula, limit, inFlight>>,
             cycled' = cycled \/ (cycled' = cycled \cup {a} /\ a \in Dynamic \cap inFlight)
      PROVE  StackInv'
  <2>1. Caller(n, stack, a)
    BY CalledHasCaller
  <2>2. inFlight' = {stack[i].acct : i \in 1 .. n} /\ IsFiniteSet(inFlight') /\ Cardinality(inFlight') = n
    BY <1>1 DEF StackInv
  <2>3. cycled' \subseteq Dynamic /\ cycled' \subseteq Cyclic
    <3>1. ASSUME a \in inFlight PROVE a \in Cyclic
      <4>1. PICK i \in 1 .. n : a = stack[i].acct
        BY <3>1 DEF StackInv
      <4>2. n # 0 /\ n \in 1 .. n /\ n \in 1 .. Len(stack)
        BY <1>0
      <4>3. a \in Wanted(stack[n])
        BY <2>1, <4>2 DEF Caller
      <4> QED BY <4>1, <4>2, <4>3, InFlightAgain
    <3> QED BY <1>1, <3>1 DEF StackInv
  <2> QED BY <1>1, <2>1, <2>2, <2>3, ReturnKeepsStack
<1>2. CASE \E a \in Called : ReadStored(a)
  BY <1>1, <1>2 DEF ReadStored, Stored
<1>3. CASE \E a \in Called : Cycle(a)
  BY <1>1, <1>3 DEF Cycle
<1>4. CASE \E a \in Called : CutOff(a)
  BY <1>1, <1>4 DEF CutOff
<1>5. CASE \E a \in Called : Evaluate(a)
  BY <1>5, EvaluateKeepsStack
<1>6. CASE Leave
  <2>1. stack # <<>> /\ inFlight' = inFlight \ {Top.acct} /\ Return(Under, Top.acct, Yield(Top))
        /\ UNCHANGED <<formula, limit, cycled>>
    BY <1>6 DEF Leave
  <2>2. Caller(n - 1, Under, Top.acct) /\ n \in 1 .. n /\ Top = stack[n] /\ Top \in Frames
    BY <2>1, LeavingHasCaller
  <2>3. Yield(Top) \in Int
    BY <2>2 DEF Yield, Frames
  <2>4. inFlight' = {stack[i].acct : i \in 1 .. n - 1}
    <3>1. inFlight = {stack[i].acct : i \in 1 .. n}
      BY DEF StackInv
    <3>2. \A i \in 1 .. n : (i \in 1 .. n - 1 <=> i # n)
      BY <1>0
    <3>3. \A i \in 1 .. n - 1 : i \in 1 .. n
      BY <1>0
    <3>4. \A i \in 1 .. n : stack[i].acct = Top.acct => i = n
      BY <2>2, StackParts DEF Chained
    <3> QED BY <2>1, <2>2, <3>1, <3>2, <3>3, <3>4
  <2>5. IsFiniteSet(inFlight') /\ Cardinality(inFlight') = n - 1
    <3>1. Top.acct \in inFlight
      BY <2>2 DEF StackInv
    <3> QED BY <2>1, <3>1, FS_RemoveElement DEF StackInv
  <2>6. cycled' \subseteq Dynamic /\ cycled' \subseteq Cyclic
    BY <2>1 DEF StackInv
  <2> HIDE DEF n
  <2> QED BY <2>1, <2>2, <2>3, <2>4, <2>5, <2>6, ReturnKeepsStack
<1>7. CASE UNCHANGED vars
  <2>1. UNCHANGED <<formula, limit, stack, inFlight, cycled, answers>>
    BY <1>7 DEF vars
  <2>2. Frames' = Frames /\ Answers' = Answers /\ \A f : Underway(f)' <=> Underway(f)
    BY <2>1, ReferencesKept DEF Frames, Answers, Underway
  <2>3. Shapes'
    BY <2>1, <2>2, StackParts DEF Shapes
  <2>4. Chained'
    <3>1. (\A f : Wanted(f)' = Wanted(f)) /\ \A a : Reaches(a)' = Reaches(a)
      BY <2>1, ReferencesKept DEF Wanted
    <3> QED BY <2>1, <3>1, StackParts DEF Chained
  <2> QED BY <2>1, <2>3, <2>4, ReferencesKept DEF StackInv
<1> QED BY <1>2, <1>3, <1>4, <1>5, <1>6, <1>7 DEF Next

LEMMA StackInvHolds == Spec => []StackInv
<1> QED BY StackInvInit, StackInvStep, PTL DEF Spec

(* The recursion never nests deeper than maxDynDepth, and inFlight holds   *)
(* the accounts on the stack, each evaluated once at a time.               *)
THEOREM TypeCorrect == Spec => []TypeOK
<1>1. StackInv => TypeOK
  <2> SUFFICES ASSUME StackInv PROVE TypeOK
    OBVIOUS
  <2>1. DOMAIN stack = 1 .. Len(stack)
    BY ShapeFacts DEF StackInv
  <2> QED BY <2>1 DEF StackInv, TypeOK
<1> QED BY <1>1, StackInvHolds, PTL

-----------------------------------------------------------------------------
(* The value of a formula, cut off at a depth.                             *)

\* What the formula of a reads when references have the values v.
Branch(g, a, v) == IF g[a].test = NoTest \/ v[g[a].test] = 0 THEN g[a].then ELSE g[a].else

Deeper(g, v) == [a \in Accounts |-> IF a \in DOMAIN g THEN 1 + SumFunctionOnSet(v, Branch(g, a, v)) ELSE Stored]

Shallow(g) == [a \in Accounts |-> IF a \in DOMAIN g THEN 0 ELSE Stored]

\* val is the function Meaning defines by recursion, up to n.
Levels(g, n, val) == val = [i \in 0 .. n |-> IF i = 0 THEN Shallow(g) ELSE Deeper(g, val[i - 1])]

LEMMA LevelsExist ==
  ASSUME NEW g, NEW N \in Nat
  PROVE  \E f : Levels(g, N, f)
<1> DEFINE T == {n \in Nat : ~ \E f : Levels(g, n, f)}
<1> SUFFICES ASSUME T # {} PROVE FALSE
  OBVIOUS
<1>1. PICK m \in T : \A n \in T : m <= n
  <2> HIDE DEF T
  <2> QED BY LeastNatural DEF T
<1>2. CASE m = 0
  <2>1. Levels(g, 0, [i \in 0 .. 0 |-> Shallow(g)])
    BY DEF Levels
  <2> QED BY <1>1, <1>2, <2>1
<1>3. CASE m # 0
  <2>1. m \in Nat /\ m - 1 \in Nat /\ m - 1 \notin T
    BY <1>1, <1>3
  <2>2. PICK h : Levels(g, m - 1, h)
    BY <2>1
  <2> DEFINE f == [i \in 0 .. m |-> IF i = m THEN Deeper(g, h[m - 1]) ELSE h[i]]
  <2>3. ASSUME NEW i \in 0 .. m
        PROVE  f[i] = IF i = 0 THEN Shallow(g) ELSE Deeper(g, f[i - 1])
    <3>1. CASE i = m
      <4>1. f[i - 1] = h[m - 1] /\ f[i] = Deeper(g, h[m - 1])
        BY <2>1, <3>1
      <4> QED BY <4>1, <1>3, <3>1
    <3>2. CASE i # m
      <4>1. i \in 0 .. m - 1 /\ f[i] = h[i]
        BY <2>1, <3>2
      <4>2. h[i] = IF i = 0 THEN Shallow(g) ELSE Deeper(g, h[i - 1])
        BY <2>2, <4>1 DEF Levels
      <4>3. i # 0 => i - 1 \in 0 .. m /\ i - 1 # m
        BY <2>1, <4>1
      <4> QED BY <4>1, <4>2, <4>3
    <3> QED BY <3>1, <3>2
  <2>4. Levels(g, m, f)
    <3>1. f = [i \in 0 .. m |-> f[i]]
      OBVIOUS
    <3> HIDE DEF f
    <3> QED BY <2>3, <3>1 DEF Levels
  <2> QED BY <1>1, <2>1, <2>4
<1> QED BY <1>2, <1>3

Level(g, n) == CHOOSE val : Levels(g, n, val)

\* The value of account a when formulas nested more than i deep are 0.
Worth(i, a) == Level(formula, limit)[i][a]

LEMMA MeaningIsLevel == \A a : Meaning[a] = Worth(limit, a)
<1>1. Meaning = Level(formula, limit)[limit]
  BY DEF Meaning, Level, Levels, Shallow, Deeper, Branch, Dynamic
<1> QED BY <1>1 DEF Worth

\* The references formula a reads at depth i.
Read(i, a) == Branch(formula, a, Level(formula, limit)[i])

LEMMA WorthFacts ==
  ASSUME formula \in FormulaSets, limit \in Limits
  PROVE  /\ \A i \in 0 .. limit : \A a \in Accounts \ Dynamic : Worth(i, a) = Stored
         /\ \A a \in Dynamic : Worth(0, a) = 0
         /\ \A i \in 1 .. limit, a \in Dynamic :
              Worth(i, a) = 1 + SumFunctionOnSet(Level(formula, limit)[i - 1], Read(i - 1, a))
<1>1. limit \in Nat /\ Dynamic \subseteq Accounts
  BY LimitsAssumption, UsesFacts
<1> DEFINE val == Level(formula, limit)
<1>2. Levels(formula, limit, val)
  BY <1>1, LevelsExist DEF Level
<1> HIDE DEF val
<1>3. \A i \in 0 .. limit : val[i] = IF i = 0 THEN Shallow(formula) ELSE Deeper(formula, val[i - 1])
  BY <1>2 DEF Levels
<1>4. 0 \in 0 .. limit /\ \A i \in 1 .. limit : i \in 0 .. limit /\ i # 0
  BY <1>1
<1>5. \A a \in Accounts \ Dynamic : Shallow(formula)[a] = Stored /\ \A v : Deeper(formula, v)[a] = Stored
  BY DEF Shallow, Deeper, Dynamic
<1>6. \A a \in Dynamic : Shallow(formula)[a] = 0
  BY <1>1 DEF Shallow, Dynamic
<1>7. \A a \in Dynamic : \A v : Deeper(formula, v)[a] = 1 + SumFunctionOnSet(v, Branch(formula, a, v))
  BY <1>1 DEF Deeper, Dynamic
<1>8. \A i \in 0 .. limit : \A a \in Accounts \ Dynamic : val[i][a] = Stored
  BY <1>3, <1>5
<1>9. \A a \in Dynamic : val[0][a] = 0
  BY <1>3, <1>4, <1>6
<1>10. \A i \in 1 .. limit, a \in Dynamic :
         val[i][a] = 1 + SumFunctionOnSet(val[i - 1], Branch(formula, a, val[i - 1]))
  <2> SUFFICES ASSUME NEW i \in 1 .. limit, NEW a \in Dynamic
               PROVE  val[i][a] = 1 + SumFunctionOnSet(val[i - 1], Branch(formula, a, val[i - 1]))
    OBVIOUS
  <2>1. val[i] = Deeper(formula, val[i - 1])
    BY <1>3, <1>4
  <2> QED BY <1>7, <2>1
<1> QED BY <1>8, <1>9, <1>10 DEF Worth, Read, val

LEMMA ReadFacts ==
  ASSUME formula \in FormulaSets, NEW i, NEW a \in Dynamic
  PROVE  /\ Read(i, a) \subseteq Uses(a) /\ Read(i, a) \subseteq Accounts /\ IsFiniteSet(Read(i, a))
         /\ formula[a].test = NoTest => Read(i, a) = formula[a].then
         /\ formula[a].test # NoTest =>
              Read(i, a) = IF Worth(i, formula[a].test) = 0 THEN formula[a].then ELSE formula[a].else
<1>1. Read(i, a) = IF formula[a].test = NoTest \/ Worth(i, formula[a].test) = 0
                     THEN formula[a].then ELSE formula[a].else
  BY DEF Read, Branch, Worth
<1> QED BY <1>1, UsesFacts

\* Values are integers.
LEMMA WorthIsInteger ==
  ASSUME formula \in FormulaSets, limit \in Limits
  PROVE  \A i \in 0 .. limit, a \in Accounts : Worth(i, a) \in Int
<1>0. limit \in Nat
  BY LimitsAssumption
<1> DEFINE T == {i \in 0 .. limit : \E a \in Accounts : Worth(i, a) \notin Int}
<1> SUFFICES ASSUME T # {} PROVE FALSE
  OBVIOUS
<1>1. PICK m \in T : \A i \in T : m <= i
  <2>1. T \subseteq Nat
    BY <1>0
  <2> HIDE DEF T
  <2> QED BY <2>1, LeastNatural
<1>2. PICK a \in Accounts : Worth(m, a) \notin Int
  OBVIOUS
<1>3. m \in 0 .. limit /\ m \in Int /\ Stored \in Int
  BY <1>0 DEF Stored
<1>4. a \in Dynamic /\ m # 0
  BY <1>2, <1>3, WorthFacts
<1>5. m \in 1 .. limit /\ m - 1 \in 0 .. limit /\ m - 1 \notin T
  <2>1. m \in 1 .. limit /\ m - 1 \in 0 .. limit /\ ~(m <= m - 1)
    BY <1>0, <1>3, <1>4
  <2> HIDE DEF T
  <2> QED BY <1>1, <2>1
<1> DEFINE v == Level(formula, limit)[m - 1]
           R == Read(m - 1, a)
<1>6. \A r \in Accounts : v[r] \in Int
  BY <1>5 DEF Worth
<1>7. IsFiniteSet(R) /\ R \subseteq Accounts
  BY <1>4, ReadFacts
<1>8. SumFunctionOnSet(v, R) \in Int
  <2> HIDE DEF v, R
  <2> QED BY <1>6, <1>7, SumIsInteger
<1>9. Worth(m, a) = 1 + SumFunctionOnSet(v, R)
  BY <1>4, <1>5, WorthFacts
<1> HIDE DEF v, R
<1> QED BY <1>2, <1>8, <1>9

-----------------------------------------------------------------------------
(* Evaluations that meet no cycle.                                         *)

\* The i-th frame comes to the value of its account at its depth.
OnCourse(f, i) ==
  f.test = NoTest =>
    f.sum + SumFunctionOnSet(Level(formula, limit)[limit - i], f.todo) = Worth(limit - i + 1, f.acct)

LEMMA FrameOnCourse ==
  ASSUME formula \in FormulaSets, limit \in Limits, NEW a \in Dynamic, NEW i \in 1 .. limit
  PROVE  OnCourse(Frame(a), i)
<1> DEFINE v == Level(formula, limit)[limit - i]
           k == limit - i + 1
<1>1. CASE formula[a].test = NoTest
  <2>1. Frame(a).todo = formula[a].then /\ Frame(a).sum = 1 /\ Frame(a).acct = a
    BY <1>1 DEF Frame
  <2>2. k \in 1 .. limit /\ k - 1 = limit - i
    BY LimitsAssumption
  <2>3. Worth(k, a) = 1 + SumFunctionOnSet(v, Read(limit - i, a))
    BY <2>2, WorthFacts
  <2>4. Read(limit - i, a) = formula[a].then
    BY <1>1, ReadFacts
  <2> HIDE DEF v, k
  <2>5. Frame(a).sum + SumFunctionOnSet(v, Frame(a).todo) = Worth(k, Frame(a).acct)
    BY <2>1, <2>3, <2>4
  <2> USE DEF v, k
  <2> QED BY <2>5 DEF OnCourse
<1>2. CASE formula[a].test # NoTest
  <2>1. Frame(a).test # NoTest
    BY <1>2 DEF Frame
  <2> QED BY <2>1 DEF OnCourse
<1> QED BY <1>1, <1>2

\* A frame that is told the value of a reference stays on course.
LEMMA ToldOnCourse ==
  ASSUME formula \in FormulaSets, limit \in Limits, NEW f \in Frames, Underway(f), NEW r \in Wanted(f),
         NEW i \in 1 .. limit, OnCourse(f, i)
  PROVE  OnCourse(Told(f, r, Worth(limit - i, r)), i)
<1> DEFINE v == Level(formula, limit)[limit - i]
<1>1. limit - i \in 0 .. limit /\ limit - i + 1 \in 1 .. limit /\ limit - i + 1 - 1 = limit - i
  BY LimitsAssumption
<1>2. f.acct \in Dynamic /\ r \in Accounts /\ r \in Uses(f.acct)
  BY WantedFacts DEF Underway
<1>3. Worth(limit - i, r) = v[r] /\ \A x \in Accounts : v[x] \in Int
  BY <1>1, WorthIsInteger DEF Worth
<1>4. CASE f.test # NoTest
  <2>1. r = formula[f.acct].test /\ f.sum = 1 /\ formula[f.acct].test # NoTest
    BY <1>4 DEF Wanted, Underway
  <2>2. Told(f, r, Worth(limit - i, r)) = [acct |-> f.acct, test |-> NoTest, sum |-> 1, todo |-> Read(limit - i, f.acct)]
    BY <1>2, <1>4, <2>1, ReadFacts DEF Told
  <2>3. Worth(limit - i + 1, f.acct) = 1 + SumFunctionOnSet(v, Read(limit - i, f.acct))
    BY <1>1, <1>2, WorthFacts
  <2> HIDE DEF v
  <2> QED BY <2>2, <2>3 DEF OnCourse, v
<1>5. CASE f.test = NoTest
  <2>1. Told(f, r, v[r]) = [acct |-> f.acct, test |-> NoTest, sum |-> f.sum + v[r], todo |-> f.todo \ {r}]
    BY <1>5 DEF Told
  <2>2. r \in f.todo /\ f.todo \subseteq Accounts /\ f.sum \in Int
    BY <1>5 DEF Wanted, Frames
  <2>3. IsFiniteSet(f.todo) /\ IsFiniteSet(f.todo \ {r})
    BY <2>2, LimitsAssumption, FS_Subset
  <2>4. f.sum + SumFunctionOnSet(v, f.todo) = Worth(limit - i + 1, f.acct)
    BY <1>5 DEF OnCourse
  <2> HIDE DEF v
  <2>5. SumFunctionOnSet(v, f.todo) = v[r] + SumFunctionOnSet(v, f.todo \ {r})
    BY <1>3, <2>2, <2>3, SumTakesAny
  <2>6. SumFunctionOnSet(v, f.todo \ {r}) \in Int
    BY <1>3, <2>2, <2>3, SumIsInteger
  <2>7. f.sum + v[r] + SumFunctionOnSet(v, f.todo \ {r}) = Worth(limit - i + 1, f.acct)
    BY <1>2, <1>3, <2>2, <2>4, <2>5, <2>6
  <2> DEFINE g == Told(f, r, v[r])
  <2>8. g.sum = f.sum + v[r] /\ g.todo = f.todo \ {r} /\ g.acct = f.acct
    BY <2>1
  <2> HIDE DEF g
  <2>9. g.sum + SumFunctionOnSet(v, g.todo) = Worth(limit - i + 1, g.acct)
    BY <2>7, <2>8
  <2>10. OnCourse(g, i)
    BY <2>9 DEF OnCourse, v
  <2> QED BY <1>3, <2>10 DEF g
<1> QED BY <1>4, <1>5

\* A frame that has read all its formula asks for has its value.
LEMMA DoneOnCourse ==
  ASSUME NEW f, NEW i, Wanted(f) = {}, OnCourse(f, i), f.sum \in Int
  PROVE  f.test = NoTest /\ f.todo = {} /\ f.sum = Worth(limit - i + 1, f.acct)
<1>1. f.test = NoTest /\ f.todo = {}
  BY DEF Wanted
<1>2. \A v : SumFunctionOnSet(v, {}) = 0
  BY EmptySum
<1> QED BY <1>1, <1>2 DEF OnCourse

\* While the grid has the issues s, the value of account a is exact.
Trusted(s, a) == s = {} \/ Tame(a)

\* Nothing the evaluation has read so far can meet a cycle.
NoCycleSoFar ==
  /\ \A i \in 1 .. Len(stack) : \A r \in formula[stack[i].acct].then \ stack[i].todo : Tame(r)
  /\ \A k \in 1 .. Len(answers) : Tame(answers[k].acct)

ValueInv ==
  /\ \A i \in 1 .. Len(stack) : Trusted(issues, stack[i].acct) => OnCourse(stack[i], i)
  /\ \A k \in 1 .. Len(answers) :
       Trusted(issues, answers[k].acct) => answers[k].value = Worth(limit, answers[k].acct)
  /\ SumsOnly /\ issues = {} => NoCycleSoFar
  /\ issues = {} => cycled = {}

\* The values of a next state, while the formulas stay.
LEMMA ValueInvNext ==
  ASSUME UNCHANGED <<formula, limit>>, NEW m, Len(stack') = m, NEW p, Len(answers') = p,
         \A i \in 1 .. m : Trusted(issues', stack'[i].acct) => OnCourse(stack'[i], i),
         \A k \in 1 .. p : Trusted(issues', answers'[k].acct) => answers'[k].value = Worth(limit, answers'[k].acct),
         SumsOnly /\ issues' = {} =>
           /\ \A i \in 1 .. m : \A r \in formula[stack'[i].acct].then \ stack'[i].todo : Tame(r)
           /\ \A k \in 1 .. p : Tame(answers'[k].acct),
         issues' = {} => cycled' = {}
  PROVE  ValueInv'
<1>1. SumsOnly' = SumsOnly /\ \A x : Tame(x)' = Tame(x)
  BY ReferencesKept
<1>2. \A s, x : Trusted(s, x)' <=> Trusted(s, x)
  BY <1>1 DEF Trusted
<1>3. \A f, i : (OnCourse(f, i)' <=> OnCourse(f, i)) /\ Worth(i, f)' = Worth(i, f)
  BY DEF OnCourse, Worth
<1>4. \A i \in 1 .. Len(stack') : (Trusted(issues, stack[i].acct) => OnCourse(stack[i], i))'
  BY <1>2, <1>3
<1>5. \A k \in 1 .. Len(answers') :
        (Trusted(issues, answers[k].acct) => answers[k].value = Worth(limit, answers[k].acct))'
  BY <1>2, <1>3
<1>6. (SumsOnly /\ issues = {} => NoCycleSoFar)'
  BY <1>1 DEF NoCycleSoFar
<1> QED BY <1>4, <1>5, <1>6 DEF ValueInv

LEMMA ValuesReturned ==
  ASSUME StackInv, ValueInv, NEW n, NEW st, NEW a, NEW v \in Int, Caller(n, st, a), Return(st, a, v),
         UNCHANGED <<formula, limit>>, issues \subseteq issues', issues' = {} => cycled' = {},
         Trusted(issues', a) => v = Worth(limit - n, a),
         SumsOnly /\ issues' = {} => Tame(a)
  PROVE  ValueInv'
<1>1. /\ Len(stack') = n /\ n \in Nat
      /\ \A i \in 1 .. n : /\ i # n => stack'[i] = stack[i]
                           /\ i = n => stack'[i] = Told(stack[n], a, v)
                           /\ stack'[i].acct = stack[i].acct
      /\ n # 0 => answers' = answers
      /\ n = 0 => answers' = Append(answers, [acct |-> a, value |-> v])
  BY ReturnFacts
<1>2. Len(stack) \in Nat /\ n <= Len(stack) /\ limit \in Nat /\ Len(stack) <= limit
      /\ formula \in FormulaSets /\ limit \in Limits /\ answers \in Seq(Answers)
  <2>1. Len(stack) \in Nat /\ limit \in Nat
    BY StackParts, ShapeFacts
  <2>2. n \in 0 .. Len(stack)
    BY DEF Caller
  <2>3. formula \in FormulaSets /\ limit \in Limits /\ answers \in Seq(Answers)
    BY StackParts DEF Shapes
  <2>4. Len(stack) <= limit
    BY DEF StackInv
  <2> QED BY <2>1, <2>2, <2>3, <2>4
<1>3. \A i \in 1 .. n : i \in 1 .. Len(stack) /\ i \in 1 .. limit
  BY <1>1, <1>2
<1>4. \A x : Trusted(issues', x) => Trusted(issues, x)
  BY DEF Trusted
<1>6. n # 0 => /\ n \in 1 .. Len(stack) /\ n \in 1 .. limit /\ a \in Wanted(stack[n])
               /\ stack[n] \in Frames /\ Underway(stack[n])
  <2>1. n # 0 => n \in 1 .. Len(stack) /\ n \in 1 .. limit
    BY <1>1, <1>2
  <2>2. n # 0 => a \in Wanted(stack[n])
    BY DEF Caller
  <2> QED BY <2>1, <2>2, StackParts, ShapeFacts
<1>7. ASSUME NEW i \in 1 .. n, Trusted(issues', stack'[i].acct)
      PROVE  OnCourse(stack'[i], i)
  <2>1. Trusted(issues', stack[i].acct) /\ OnCourse(stack[i], i)
    <3>1. Trusted(issues', stack[i].acct)
      BY <1>1, <1>7
    <3> QED BY <1>3, <1>4, <3>1 DEF ValueInv
  <2>2. CASE i # n
    BY <1>1, <2>1, <2>2
  <2>3. CASE i = n
    <3>1. n # 0 /\ stack'[i] = Told(stack[n], a, v)
      BY <1>1, <2>3
    <3>2. a \in Uses(stack[n].acct)
      BY <1>2, <1>6, <3>1, WantedFacts
    <3>3. Trusted(issues', a)
      <4>1. Tame(stack[n].acct) => Tame(a)
        BY <1>2, <3>2, TameParts
      <4> QED BY <2>1, <2>3, <4>1 DEF Trusted
    <3>4. OnCourse(stack[n], n) /\ v = Worth(limit - n, a)
      BY <2>1, <2>3, <3>3
    <3>5. OnCourse(Told(stack[n], a, Worth(limit - n, a)), n)
      BY <1>2, <1>6, <3>1, <3>4, ToldOnCourse
    <3> QED BY <2>3, <3>1, <3>4, <3>5
  <2> QED BY <2>2, <2>3
<1>8. ASSUME n = 0
      PROVE  /\ Len(answers') = Len(answers) + 1 /\ Len(answers) \in Nat
             /\ answers'[Len(answers) + 1].acct = a /\ answers'[Len(answers) + 1].value = v
             /\ \A k \in 1 .. Len(answers) : answers'[k] = answers[k]
             /\ \A k \in 1 .. Len(answers) + 1 : k = Len(answers) + 1 \/ k \in 1 .. Len(answers)
  <2>1. answers' = Append(answers, [acct |-> a, value |-> v]) /\ Len(answers) \in Nat
    BY <1>1, <1>2, <1>8
  <2>2. /\ Len(answers') = Len(answers) + 1 /\ answers'[Len(answers) + 1] = [acct |-> a, value |-> v]
        /\ \A k \in 1 .. Len(answers) : answers'[k] = answers[k]
    BY <1>2, <2>1
  <2> QED BY <2>1, <2>2
<1>9. ASSUME NEW k \in 1 .. Len(answers'), Trusted(issues', answers'[k].acct)
      PROVE  answers'[k].value = Worth(limit, answers'[k].acct)
  <2>1. ASSUME NEW j \in 1 .. Len(answers), answers'[k] = answers[j]
        PROVE  answers'[k].value = Worth(limit, answers'[k].acct)
    <3>1. Trusted(issues, answers[j].acct)
      BY <1>4, <1>9, <2>1
    <3>2. answers[j].value = Worth(limit, answers[j].acct)
      BY <3>1 DEF ValueInv
    <3> QED BY <2>1, <3>2
  <2>2. CASE n # 0
    BY <1>1, <2>1, <2>2
  <2>3. CASE n = 0
    <3>1. CASE k = Len(answers) + 1
      <4>1. answers'[k].acct = a /\ answers'[k].value = v /\ limit - n = limit
        BY <1>2, <1>8, <2>3, <3>1
      <4> QED BY <1>9, <4>1
    <3>2. CASE k \in 1 .. Len(answers)
      BY <1>8, <2>1, <2>3, <3>2
    <3> QED BY <1>8, <2>3, <3>1, <3>2
  <2> QED BY <2>2, <2>3
<1>10. ASSUME SumsOnly, issues' = {}
       PROVE  /\ \A i \in 1 .. n : \A r \in formula[stack'[i].acct].then \ stack'[i].todo : Tame(r)
              /\ \A k \in 1 .. Len(answers') : Tame(answers'[k].acct)
  <2>1. issues = {} /\ Tame(a) /\ NoCycleSoFar
    BY <1>10 DEF ValueInv
  <2>3. ASSUME NEW i \in 1 .. n, NEW r \in formula[stack'[i].acct].then \ stack'[i].todo
        PROVE  Tame(r)
    <3>0. r \in formula[stack[i].acct].then
      BY <1>1, <2>3
    <3>1. CASE i # n
      <4>1. r \notin stack[i].todo
        BY <1>1, <2>3, <3>1
      <4> QED BY <1>3, <2>1, <3>0, <4>1 DEF NoCycleSoFar
    <3>2. CASE i = n
      <4>1. n # 0 /\ stack'[i] = Told(stack[n], a, v)
        BY <1>1, <3>2
      <4>2. stack[n].acct \in Dynamic /\ stack[n].test = NoTest
        BY <1>6, <1>10, <4>1 DEF SumsOnly, Underway
      <4>3. stack'[i].todo = stack[n].todo \ {a}
        BY <4>1, <4>2 DEF Told
      <4>4. r = a \/ r \in formula[stack[n].acct].then \ stack[n].todo
        BY <2>3, <3>0, <3>2, <4>3
      <4> QED BY <1>6, <2>1, <4>1, <4>4 DEF NoCycleSoFar
    <3> QED BY <3>1, <3>2
  <2>4. \A k \in 1 .. Len(answers') : Tame(answers'[k].acct)
    <3>1. CASE n # 0
      BY <1>1, <2>1, <3>1 DEF NoCycleSoFar
    <3>2. CASE n = 0
      BY <1>8, <2>1, <3>2 DEF NoCycleSoFar
    <3> QED BY <3>1, <3>2
  <2> QED BY <2>3, <2>4
<1> QED BY <1>1, <1>7, <1>9, <1>10, ValueInvNext

LEMMA ValueInvStep == StackInv /\ StackInv' /\ ValueInv /\ [Next]_vars => ValueInv'
<1> SUFFICES ASSUME StackInv, StackInv', ValueInv, [Next]_vars PROVE ValueInv'
  OBVIOUS
<1> DEFINE n == Len(stack)
<1>0. n \in Nat /\ formula \in FormulaSets /\ limit \in Limits /\ limit \in Nat /\ n <= limit
  <2>1. Len(stack) <= limit
    BY DEF StackInv
  <2> QED BY <2>1, StackParts, ShapeFacts DEF Shapes
<1>1. CASE \E a \in Called : ReadStored(a)
  <2>1. PICK a \in Called : ReadStored(a)
    BY <1>1
  <2>2. Caller(n, stack, a) /\ a \in Accounts /\ a \notin Dynamic
    BY <2>1, CalledHasCaller DEF ReadStored, Caller
  <2>3. Worth(limit - n, a) = Stored
    <3>1. limit - n \in 0 .. limit
      BY <1>0
    <3> QED BY <1>0, <2>2, <3>1, WorthFacts
  <2>4. Tame(a)
    <3>1. Uses(a) = {}
      BY <2>2 DEF Uses
    <3> QED BY <1>0, <2>2, <3>1, TameByParts
  <2>5. Stored \in Int /\ Return(stack, a, Stored) /\ UNCHANGED <<formula, limit, issues, cycled>>
    BY <2>1 DEF ReadStored, Stored
  <2>6. issues' = {} => cycled' = {}
    BY <2>5 DEF ValueInv
  <2> HIDE DEF n
  <2> QED BY <2>2, <2>3, <2>4, <2>5, <2>6, ValuesReturned
<1>2. CASE \E a \in Called : Cycle(a)
  <2>1. PICK a \in Called : Cycle(a)
    BY <1>2
  <2>2. Caller(n, stack, a) /\ a \in inFlight
    BY <2>1, CalledHasCaller DEF Cycle
  <2>3. a \in Cyclic
    <3>1. PICK i \in 1 .. n : a = stack[i].acct
      BY <2>2 DEF StackInv
    <3>2. n # 0 /\ n \in 1 .. n
      BY <1>0
    <3>3. a \in Wanted(stack[n])
      BY <2>2, <3>2 DEF Caller
    <3> QED BY <3>1, <3>2, <3>3, InFlightAgain
  <2>4. Return(stack, a, 0) /\ UNCHANGED <<formula, limit>>
    BY <2>1 DEF Cycle
  <2>5. issues \subseteq issues' /\ issues' # {} /\ 0 \in Int
    <3>1. issues' = issues \cup {<<"cycle", a>>}
      BY <2>1 DEF Cycle
    <3>2. \A S, e : S \subseteq S \cup {e} /\ S \cup {e} # {}
      OBVIOUS
    <3>3. issues \subseteq issues' /\ issues' # {}
      BY <3>1, <3>2
    <3> QED BY <3>3
  <2>6. ~Trusted(issues', a)
    BY <2>3, <2>5 DEF Trusted, Tame
  <2>7. /\ issues' = {} => cycled' = {}
        /\ Trusted(issues', a) => 0 = Worth(limit - n, a)
        /\ SumsOnly /\ issues' = {} => Tame(a)
    BY <2>5, <2>6
  <2> HIDE DEF n
  <2> QED BY <2>2, <2>4, <2>5, <2>7, ValuesReturned
<1>3. CASE \E a \in Called : CutOff(a)
  <2>1. PICK a \in Called : CutOff(a)
    BY <1>3
  <2>2. Caller(n, stack, a) /\ a \in Dynamic /\ n = limit
    <3>1. Caller(n, stack, a)
      BY CalledHasCaller
    <3> QED BY <1>0, <2>1, <3>1 DEF CutOff, TooDeep
  <2>3. Return(stack, a, 0) /\ UNCHANGED <<formula, limit>>
    BY <2>1 DEF CutOff
  <2>4. issues \subseteq issues' /\ issues' # {} /\ 0 \in Int
    <3>1. issues' = issues \cup {<<"depth", a>>}
      BY <2>1 DEF CutOff
    <3>2. \A S, e : S \subseteq S \cup {e} /\ S \cup {e} # {}
      OBVIOUS
    <3>3. issues \subseteq issues' /\ issues' # {}
      BY <3>1, <3>2
    <3> QED BY <3>3
  <2>5. Worth(limit - n, a) = 0
    <3>1. limit - n = 0
      BY <1>0, <2>2
    <3> QED BY <1>0, <2>2, <3>1, WorthFacts
  <2>6. /\ issues' = {} => cycled' = {}
        /\ Trusted(issues', a) => 0 = Worth(limit - n, a)
        /\ SumsOnly /\ issues' = {} => Tame(a)
    BY <2>4, <2>5
  <2> HIDE DEF n
  <2> QED BY <2>2, <2>3, <2>4, <2>6, ValuesReturned
<1>4. CASE \E a \in Called : Evaluate(a)
  <2>1. PICK a \in Called : Evaluate(a)
    BY <1>4
  <2>2. /\ Len(stack') = n + 1 /\ n < limit /\ stack'[n + 1] = Frame(a)
        /\ \A i \in 1 .. n : stack'[i] = stack[i]
    BY <2>1, EvaluateKeepsStack
  <2>3. UNCHANGED <<formula, limit, cycled, issues, answers>> /\ a \in Dynamic
    BY <2>1 DEF Evaluate
  <2>4. \A i \in 1 .. n + 1 : i \in 1 .. n \/ i = n + 1
    BY <1>0
  <2>5. OnCourse(Frame(a), n + 1)
    <3>1. n + 1 \in 1 .. limit
      BY <1>0, <2>2
    <3> QED BY <1>0, <2>3, <3>1, FrameOnCourse
  <2>8. ASSUME NEW i \in 1 .. n + 1, Trusted(issues', stack'[i].acct)
        PROVE  OnCourse(stack'[i], i)
    <3>1. CASE i = n + 1
      BY <2>2, <2>5, <3>1
    <3>2. CASE i \in 1 .. n
      <4>1. stack'[i] = stack[i] /\ Trusted(issues, stack[i].acct)
        BY <2>2, <2>3, <2>8, <3>2
      <4>2. OnCourse(stack[i], i)
        BY <3>2, <4>1 DEF ValueInv
      <4> QED BY <4>1, <4>2
    <3> QED BY <2>4, <3>1, <3>2
  <2>9. ASSUME NEW k \in 1 .. Len(answers'), Trusted(issues', answers'[k].acct)
        PROVE  answers'[k].value = Worth(limit, answers'[k].acct)
    <3>1. k \in 1 .. Len(answers) /\ answers'[k] = answers[k] /\ Trusted(issues, answers[k].acct)
      BY <2>3, <2>9
    <3>2. answers[k].value = Worth(limit, answers[k].acct)
      BY <3>1 DEF ValueInv
    <3> QED BY <3>1, <3>2
  <2>10. ASSUME SumsOnly, issues' = {}
         PROVE  /\ \A i \in 1 .. n + 1 : \A r \in formula[stack'[i].acct].then \ stack'[i].todo : Tame(r)
                /\ \A k \in 1 .. Len(answers') : Tame(answers'[k].acct)
    <3>1. NoCycleSoFar
      BY <2>3, <2>10 DEF ValueInv
    <3>2. formula[a].then \ Frame(a).todo = {} /\ Frame(a).acct = a
      BY <2>3, <2>10 DEF Frame, SumsOnly
    <3>3. \A i \in 1 .. n + 1 : \A r \in formula[stack'[i].acct].then \ stack'[i].todo : Tame(r)
      BY <2>2, <2>4, <3>1, <3>2 DEF NoCycleSoFar
    <3>4. \A k \in 1 .. Len(answers') : Tame(answers'[k].acct)
      BY <2>3, <3>1 DEF NoCycleSoFar
    <3> QED BY <3>3, <3>4
  <2>11. issues' = {} => cycled' = {}
    BY <2>3 DEF ValueInv
  <2> HIDE DEF n
  <2> QED BY <2>2, <2>3, <2>8, <2>9, <2>10, <2>11, ValueInvNext
<1>5. CASE Leave
  <2> DEFINE a == Top.acct
             m == n - 1
  <2>1. stack # <<>> /\ Wanted(Top) = {} /\ Return(Under, a, Yield(Top))
        /\ UNCHANGED <<formula, limit, cycled, issues>>
    BY <1>5 DEF Leave
  <2>2. Caller(m, Under, a) /\ n \in 1 .. n /\ Top = stack[n] /\ Top \in Frames /\ Underway(Top)
    BY <2>1, LeavingHasCaller
  <2>3. Yield(Top) \in Int /\ Top.sum \in Int
    BY <2>2 DEF Yield, Frames
  <2>4. ASSUME Trusted(issues', a) PROVE Yield(Top) = Worth(limit - m, a)
    <3>1. Trusted(issues, a)
      BY <2>1, <2>4
    <3>2. a \notin cycled
      <4>1. cycled \subseteq Cyclic /\ (issues = {} => cycled = {})
        BY DEF StackInv, ValueInv
      <4> QED BY <3>1, <4>1 DEF Trusted, Tame
    <3>3. OnCourse(Top, n)
      BY <2>2, <3>1 DEF ValueInv
    <3>4. Top.sum = Worth(limit - n + 1, a)
      <4> HIDE DEF n
      <4> QED BY <2>1, <2>3, <3>3, DoneOnCourse
    <3>5. limit - n + 1 = limit - m
      BY <1>0
    <3>6. Yield(Top) = Top.sum
      BY <3>2 DEF Yield
    <3> QED BY <3>4, <3>5, <3>6
  <2>5. ASSUME SumsOnly, issues' = {} PROVE Tame(a)
    <3>1. NoCycleSoFar
      BY <2>1, <2>5 DEF ValueInv
    <3>2. a \in Dynamic /\ a \in Accounts /\ formula[a].test = NoTest
      BY <2>2, <2>5 DEF Underway, SumsOnly, Frames
    <3>3. Uses(a) = formula[a].then
      BY <1>0, <3>2, UsesFacts
    <3>4. Top.todo = {}
      BY <2>1 DEF Wanted
    <3>5. \A r \in Uses(a) : Tame(r)
      BY <2>2, <3>1, <3>3, <3>4 DEF NoCycleSoFar
    <3> QED BY <1>0, <3>2, <3>5, TameByParts
  <2>6. issues' = {} => cycled' = {}
    BY <2>1 DEF ValueInv
  <2> HIDE DEF a, m
  <2> QED BY <2>1, <2>2, <2>3, <2>4, <2>5, <2>6, ValuesReturned
<1>6. CASE UNCHANGED vars
  <2>1. UNCHANGED <<formula, limit, stack, cycled, issues, answers>>
    BY <1>6 DEF vars
  <2>2. /\ \A i \in 1 .. Len(stack') : Trusted(issues', stack'[i].acct) => OnCourse(stack'[i], i)
        /\ \A k \in 1 .. Len(answers') :
             Trusted(issues', answers'[k].acct) => answers'[k].value = Worth(limit, answers'[k].acct)
        /\ issues' = {} => cycled' = {}
    BY <2>1 DEF ValueInv
  <2>3. SumsOnly /\ issues' = {} =>
          /\ \A i \in 1 .. Len(stack') : \A r \in formula[stack'[i].acct].then \ stack'[i].todo : Tame(r)
          /\ \A k \in 1 .. Len(answers') : Tame(answers'[k].acct)
    BY <2>1 DEF ValueInv, NoCycleSoFar
  <2> QED BY <2>1, <2>2, <2>3, ValueInvNext
<1> QED BY <1>1, <1>2, <1>3, <1>4, <1>5, <1>6 DEF Next

LEMMA ValueInvHolds == Spec => []ValueInv
<1>1. Init => ValueInv
  <2> SUFFICES ASSUME Init PROVE ValueInv
    OBVIOUS
  <2>1. stack = <<>> /\ answers = <<>> /\ cycled = {} /\ Len(stack) = 0 /\ Len(answers) = 0 /\ 1 .. 0 = {}
    BY DEF Init
  <2> QED BY <2>1 DEF ValueInv, NoCycleSoFar
<1> QED BY <1>1, ValueInvStep, StackInvHolds, PTL DEF Spec

\* What the invariant says of the answers.
LEMMA AnswersOfInv ==
  ASSUME StackInv, ValueInv, NEW k \in DOMAIN answers
  PROVE  /\ k \in 1 .. Len(answers)
         /\ Trusted(issues, answers[k].acct) => answers[k].value = Meaning[answers[k].acct]
<1>1. answers \in Seq(Answers)
  BY DEF StackInv, Shapes
<1>2. k \in 1 .. Len(answers)
  BY <1>1
<1> QED BY <1>2, MeaningIsLevel DEF ValueInv

(* A cell whose formulas lead to no cycle is exact, whatever cyclic cells   *)
(* the grid resolves before it, and for formulas with IF too.              *)
THEOREM AcyclicCellsAreExact == Spec => []AcyclicIsExact
<1>1. StackInv /\ ValueInv => AcyclicIsExact
  BY AnswersOfInv DEF AcyclicIsExact, Trusted, Tame
<1> QED BY <1>1, StackInvHolds, ValueInvHolds, PTL

(* A grid without an issue is exact, and of sums, without a cycle.         *)
THEOREM SilenceIsExact == Spec => []SilentIsExact
<1>1. StackInv /\ ValueInv => SilentIsExact
  <2> SUFFICES ASSUME StackInv, ValueInv, issues = {}, NEW k \in DOMAIN answers
               PROVE  /\ answers[k].value = Meaning[answers[k].acct]
                      /\ SumsOnly => answers[k].acct \notin Cyclic
    BY DEF SilentIsExact
  <2>1. k \in 1 .. Len(answers) /\ answers[k].value = Meaning[answers[k].acct]
    BY AnswersOfInv DEF Trusted
  <2> QED BY <2>1 DEF ValueInv, NoCycleSoFar, Tame
<1> QED BY <1>1, StackInvHolds, ValueInvHolds, PTL

-----------------------------------------------------------------------------
(* The value of a set of sums when a cell on a cycle is worth 0.           *)

CutDeeper(g, C, v) ==
  [a \in Accounts |-> IF a \notin DOMAIN g THEN Stored
                      ELSE IF a \in C THEN 0 ELSE 1 + SumFunctionOnSet(v, g[a].then)]

\* val is the function CycleMeaning defines by recursion, C the cyclic accounts.
CutLevels(g, C, N, val) ==
  val = [n \in 0 .. N |-> IF n = 0 THEN [a \in Accounts |-> 0] ELSE CutDeeper(g, C, val[n - 1])]

LEMMA CutLevelsExist ==
  ASSUME NEW g, NEW C, NEW N \in Nat
  PROVE  \E f : CutLevels(g, C, N, f)
<1> DEFINE T == {n \in Nat : ~ \E f : CutLevels(g, C, n, f)}
           bottom == [a \in Accounts |-> 0]
<1> SUFFICES ASSUME T # {} PROVE FALSE
  OBVIOUS
<1>1. PICK m \in T : \A n \in T : m <= n
  <2> HIDE DEF T
  <2> QED BY LeastNatural DEF T
<1>2. CASE m = 0
  <2>1. CutLevels(g, C, 0, [i \in 0 .. 0 |-> bottom])
    BY DEF CutLevels
  <2> QED BY <1>1, <1>2, <2>1
<1>3. CASE m # 0
  <2>1. m \in Nat /\ m - 1 \in Nat /\ m - 1 \notin T
    BY <1>1, <1>3
  <2>2. PICK h : CutLevels(g, C, m - 1, h)
    BY <2>1
  <2> DEFINE f == [i \in 0 .. m |-> IF i = m THEN CutDeeper(g, C, h[m - 1]) ELSE h[i]]
  <2>3. ASSUME NEW i \in 0 .. m
        PROVE  f[i] = IF i = 0 THEN bottom ELSE CutDeeper(g, C, f[i - 1])
    <3>1. CASE i = m
      <4>1. f[i - 1] = h[m - 1] /\ f[i] = CutDeeper(g, C, h[m - 1])
        BY <2>1, <3>1
      <4> QED BY <4>1, <1>3, <3>1
    <3>2. CASE i # m
      <4>1. i \in 0 .. m - 1 /\ f[i] = h[i]
        BY <2>1, <3>2
      <4>2. h[i] = IF i = 0 THEN bottom ELSE CutDeeper(g, C, h[i - 1])
        BY <2>2, <4>1 DEF CutLevels
      <4>3. i # 0 => i - 1 \in 0 .. m /\ i - 1 # m
        BY <2>1, <4>1
      <4> QED BY <4>1, <4>2, <4>3
    <3> QED BY <3>1, <3>2
  <2>4. CutLevels(g, C, m, f)
    <3>1. f = [i \in 0 .. m |-> f[i]]
      OBVIOUS
    <3> HIDE DEF f
    <3> QED BY <2>3, <3>1 DEF CutLevels
  <2> QED BY <1>1, <2>1, <2>4
<1> QED BY <1>2, <1>3

CutLevel(g, C, N) == CHOOSE val : CutLevels(g, C, N, val)

Cut(i, a) == CutLevel(formula, Cyclic, Cardinality(Accounts))[i][a]

\* What every cell is worth.
CutMeaning == CutLevel(formula, Cyclic, Cardinality(Accounts))[Cardinality(Accounts)]

LEMMA CycleMeaningIsCut == CycleMeaning = CutMeaning
  BY DEF CycleMeaning, CutMeaning, CutLevel, CutLevels, CutDeeper, Dynamic

LEMMA AccountsFacts ==
  /\ Cardinality(Accounts) \in Nat
  /\ \A S \in SUBSET Accounts : IsFiniteSet(S) /\ Cardinality(S) \in Nat
<1>1. \A S \in SUBSET Accounts : IsFiniteSet(S)
  BY LimitsAssumption, FS_Subset
<1>2. \A S \in SUBSET Accounts : Cardinality(S) \in Nat
  BY <1>1, FS_CardinalityType
<1> QED BY <1>1, <1>2

LEMMA CyclicFacts ==
  ASSUME formula \in FormulaSets
  PROVE  /\ Cyclic \subseteq Dynamic
         /\ \A a \in Accounts : Cardinality(Reaches(a)) \in Nat
         /\ \A a \in Accounts \ Cyclic : Cardinality(Reaches(a)) + 1 <= Cardinality(Accounts)
         /\ \A a \in Accounts : \A r \in Uses(a) \ Cyclic : Cardinality(Reaches(r)) + 1 <= Cardinality(Reaches(a))
<1>1. \A a : Reaches(a) \in SUBSET Accounts
  BY ReachesIsClosed
<1>2. ASSUME NEW S \in SUBSET Accounts, NEW a \in Accounts \ S, NEW T \in SUBSET Accounts, S \subseteq T, a \in T
      PROVE  Cardinality(S) + 1 <= Cardinality(T)
  <2>1. Cardinality(S \cup {a}) = Cardinality(S) + 1
    BY AccountsFacts, FS_AddElement
  <2>2. S \cup {a} \subseteq T
    BY <1>2
  <2>3. Cardinality(S \cup {a}) <= Cardinality(T)
    BY <2>2, AccountsFacts, FS_Subset
  <2> QED BY <2>1, <2>3
<1>3. \A a \in Accounts \ Cyclic : a \notin Reaches(a)
  BY DEF Cyclic
<1>4. \A a \in Accounts : \A r \in Uses(a) : r \in Accounts /\ r \in Reaches(a) /\ Reaches(r) \subseteq Reaches(a)
  BY <1>1, ReachesIsClosed, ReachesIsTransitive
<1>5. Cyclic \subseteq Dynamic
  <2> SUFFICES ASSUME NEW a \in Cyclic, a \notin Dynamic PROVE FALSE
    OBVIOUS
  <2>1. Uses(a) = {} /\ a \in Reaches(a)
    BY UsesFacts DEF Cyclic
  <2> QED BY <2>1, ReachesStepwise
<1>6. \A a \in Accounts \ Cyclic : Cardinality(Reaches(a)) + 1 <= Cardinality(Accounts)
  BY <1>1, <1>2, <1>3
<1>7. \A a \in Accounts : \A r \in Uses(a) \ Cyclic : Cardinality(Reaches(r)) + 1 <= Cardinality(Reaches(a))
  BY <1>1, <1>2, <1>3, <1>4
<1> QED BY <1>1, <1>5, <1>6, <1>7, AccountsFacts

LEMMA CutFacts ==
  ASSUME formula \in FormulaSets
  PROVE  /\ \A a \in Accounts : Cut(0, a) = 0
         /\ \A i \in 1 .. Cardinality(Accounts) :
              /\ \A a \in Accounts \ Dynamic : Cut(i, a) = Stored
              /\ \A a \in Cyclic : Cut(i, a) = 0
              /\ \A a \in Dynamic \ Cyclic :
                   Cut(i, a) = 1 + SumFunctionOnSet(CutLevel(formula, Cyclic, Cardinality(Accounts))[i - 1],
                                                    formula[a].then)
<1> DEFINE N   == Cardinality(Accounts)
           val == CutLevel(formula, Cyclic, N)
<1>1. N \in Nat /\ Dynamic \subseteq Accounts /\ Cyclic \subseteq Dynamic
  BY UsesFacts, CyclicFacts, AccountsFacts
<1>2. CutLevels(formula, Cyclic, N, val)
  BY <1>1, CutLevelsExist DEF CutLevel
<1> HIDE DEF val
<1>3. \A i \in 0 .. N : val[i] = IF i = 0 THEN [a \in Accounts |-> 0] ELSE CutDeeper(formula, Cyclic, val[i - 1])
  BY <1>2 DEF CutLevels
<1> HIDE DEF N
<1>4. 0 \in 0 .. N /\ \A i \in 1 .. N : i \in 0 .. N /\ i # 0
  BY <1>1
<1>5. \A v : /\ \A a \in Accounts \ Dynamic : CutDeeper(formula, Cyclic, v)[a] = Stored
             /\ \A a \in Cyclic : CutDeeper(formula, Cyclic, v)[a] = 0
             /\ \A a \in Dynamic \ Cyclic :
                  CutDeeper(formula, Cyclic, v)[a] = 1 + SumFunctionOnSet(v, formula[a].then)
  BY <1>1 DEF CutDeeper, Dynamic
<1>6. \A i \in 1 .. N : val[i] = CutDeeper(formula, Cyclic, val[i - 1])
  BY <1>3, <1>4
<1>7. \A a \in Accounts : val[0][a] = 0
  BY <1>3, <1>4
<1>8. \A i \in 1 .. N : /\ \A a \in Accounts \ Dynamic : val[i][a] = Stored
                        /\ \A a \in Cyclic : val[i][a] = 0
                        /\ \A a \in Dynamic \ Cyclic :
                             val[i][a] = 1 + SumFunctionOnSet(val[i - 1], formula[a].then)
  BY <1>5, <1>6
<1> QED BY <1>7, <1>8 DEF Cut, val, N

\* From some depth on the values no longer change.
LEMMA CutIsStable ==
  ASSUME formula \in FormulaSets, SumsOnly
  PROVE  \A n \in Nat : \A a \in Accounts :
           Cardinality(Reaches(a)) + 1 <= n /\ n + 1 <= Cardinality(Accounts) => Cut(n, a) = Cut(n + 1, a)
<1> DEFINE N == Cardinality(Accounts)
           Bad(n, a) == a \in Accounts /\ Cardinality(Reaches(a)) + 1 <= n /\ n + 1 <= N /\ Cut(n, a) # Cut(n + 1, a)
           T == {n \in Nat : \E a : Bad(n, a)}
<1> SUFFICES ASSUME T # {} PROVE FALSE
  OBVIOUS
<1>1. PICK m \in T : \A n \in T : m <= n
  <2> HIDE DEF T
  <2> QED BY LeastNatural DEF T
<1>2. PICK a : Bad(m, a)
  BY <1>1
<1>3. N \in Nat /\ Cardinality(Reaches(a)) \in Nat /\ a \in Accounts /\ m \in Nat
  BY <1>1, <1>2, AccountsFacts, CyclicFacts
<1>4. m \in 1 .. N /\ m + 1 \in 1 .. N /\ m + 1 - 1 = m /\ m - 1 \in Nat /\ m - 1 + 1 = m
  BY <1>2, <1>3
<1>5. a \in Dynamic \ Cyclic
  BY <1>2, <1>3, <1>4, CutFacts
<1> DEFINE v == CutLevel(formula, Cyclic, N)
<1>6. formula[a].then = Uses(a) /\ Uses(a) \subseteq Accounts /\ IsFiniteSet(Uses(a))
  BY <1>5, UsesFacts, AccountsFacts DEF SumsOnly
<1>7. \A r \in Uses(a) : v[m - 1][r] = v[m][r]
  <2> SUFFICES ASSUME NEW r \in Uses(a) PROVE Cut(m - 1, r) = Cut(m, r)
    BY DEF Cut
  <2>1. CASE r \in Cyclic
    <3>1. Cut(m, r) = 0
      BY <1>4, <2>1, CutFacts
    <3>2. CASE m - 1 = 0
      <4>1. Cut(0, r) = 0
        BY <1>6, CutFacts
      <4> QED BY <3>1, <3>2, <4>1
    <3>3. CASE m - 1 # 0
      <4>1. m - 1 \in 1 .. N
        <5> HIDE DEF N
        <5> QED BY <1>3, <1>4, <3>3
      <4> QED BY <2>1, <3>1, <4>1, CutFacts
    <3> QED BY <3>2, <3>3
  <2>2. CASE r \notin Cyclic
    <3>1. Cardinality(Reaches(r)) + 1 <= Cardinality(Reaches(a)) /\ Cardinality(Reaches(r)) \in Nat /\ r \in Accounts
      BY <1>3, <1>6, <2>2, CyclicFacts
    <3>2. Cardinality(Reaches(r)) + 1 <= m - 1 /\ m - 1 + 1 <= N /\ ~(m <= m - 1)
      BY <1>2, <1>3, <1>4, <3>1
    <3>3. ~Bad(m - 1, r)
      <4>1. m - 1 \notin T
        <5> HIDE DEF T
        <5> QED BY <1>1, <3>2
      <4> QED BY <1>4, <4>1
    <3> QED BY <1>4, <3>1, <3>2, <3>3
  <2> QED BY <2>1, <2>2
<1>8. Cut(m, a) = 1 + SumFunctionOnSet(v[m - 1], Uses(a)) /\ Cut(m + 1, a) = 1 + SumFunctionOnSet(v[m], Uses(a))
  BY <1>4, <1>5, <1>6, CutFacts
<1>9. SumFunctionOnSet(v[m - 1], Uses(a)) = SumFunctionOnSet(v[m], Uses(a))
  <2> HIDE DEF v
  <2> QED BY <1>6, <1>7, SumOfEqual
<1> HIDE DEF v
<1> QED BY <1>2, <1>8, <1>9

\* What every cell is worth satisfies the equations of its formulas.
LEMMA CutMeaningFacts ==
  ASSUME formula \in FormulaSets, SumsOnly
  PROVE  /\ \A a \in Accounts \ Dynamic : CutMeaning[a] = Stored
         /\ \A a \in Cyclic : CutMeaning[a] = 0
         /\ \A a \in Dynamic \ Cyclic : CutMeaning[a] = 1 + SumFunctionOnSet(CutMeaning, formula[a].then)
         /\ \A a \in Accounts : CutMeaning[a] \in Int
<1> DEFINE N == Cardinality(Accounts)
           v == CutLevel(formula, Cyclic, N)
<1>1. N \in Nat /\ Dynamic \subseteq Accounts /\ Cyclic \subseteq Dynamic
  BY UsesFacts, CyclicFacts, AccountsFacts
<1>2. \A a \in Accounts : N \in 1 .. N
  <2>1. Accounts # {} => N # 0
    BY LimitsAssumption, FS_EmptySet
  <2> QED BY <1>1, <2>1
<1>3. v[N] = CutMeaning /\ \A i, a : Cut(i, a) = v[i][a]
  BY DEF CutMeaning, Cut
<1>4. \A a \in Accounts \ Dynamic : CutMeaning[a] = Stored
  BY <1>2, <1>3, CutFacts
<1>5. \A a \in Cyclic : CutMeaning[a] = 0
  BY <1>1, <1>2, <1>3, CutFacts
<1>6. ASSUME NEW a \in Dynamic \ Cyclic
      PROVE  CutMeaning[a] = 1 + SumFunctionOnSet(CutMeaning, formula[a].then)
  <2>1. formula[a].then = Uses(a) /\ Uses(a) \subseteq Accounts /\ IsFiniteSet(Uses(a)) /\ a \in Accounts
    BY <1>1, UsesFacts, AccountsFacts DEF SumsOnly
  <2>2. N \in 1 .. N /\ N - 1 \in Nat /\ N - 1 + 1 = N
    BY <1>1, <1>2, <2>1
  <2>3. CutMeaning[a] = 1 + SumFunctionOnSet(v[N - 1], Uses(a))
    BY <1>3, <2>1, <2>2, CutFacts
  <2>4. \A r \in Uses(a) : v[N - 1][r] = CutMeaning[r]
    <3> SUFFICES ASSUME NEW r \in Uses(a) PROVE Cut(N - 1, r) = Cut(N, r)
      BY <1>3
    <3>1. CASE r \in Cyclic
      <4>1. CASE N - 1 = 0
        BY <1>3, <1>5, <2>1, <3>1, <4>1, CutFacts
      <4>2. CASE N - 1 # 0
        <5>1. N - 1 \in 1 .. N
          BY <2>2, <4>2
        <5> QED BY <1>3, <1>5, <3>1, <5>1, CutFacts
      <4> QED BY <4>1, <4>2
    <3>2. CASE r \notin Cyclic
      <4>1. Cardinality(Reaches(r)) + 1 <= Cardinality(Reaches(a)) /\ Cardinality(Reaches(a)) + 1 <= N
            /\ Cardinality(Reaches(r)) \in Nat /\ Cardinality(Reaches(a)) \in Nat
        BY <2>1, <3>2, CyclicFacts
      <4>2. Cardinality(Reaches(r)) + 1 <= N - 1 /\ N - 1 + 1 <= N
        BY <1>1, <4>1
      <4> QED BY <2>1, <2>2, <4>2, CutIsStable
    <3> QED BY <3>1, <3>2
  <2>5. SumFunctionOnSet(v[N - 1], Uses(a)) = SumFunctionOnSet(CutMeaning, Uses(a))
    <3> HIDE DEF v
    <3> QED BY <2>1, <2>4, SumOfEqual
  <2> HIDE DEF v, N
  <2> QED BY <2>1, <2>3, <2>5
<1>7. \A a \in Accounts : CutMeaning[a] \in Int
  <2> DEFINE T == {n \in 0 .. N : \E a \in Accounts : Cut(n, a) \notin Int}
  <2>1. ASSUME T # {} PROVE FALSE
    <3>1. PICK m \in T : \A i \in T : m <= i
      <4>1. T \subseteq Nat
        BY <1>1
      <4> HIDE DEF T
      <4> QED BY <2>1, <4>1, LeastNatural
    <3>2. PICK a \in Accounts : Cut(m, a) \notin Int
      OBVIOUS
    <3>3. m # 0
      BY <3>2, CutFacts
    <3>4. m \in 1 .. N /\ m - 1 \in 0 .. N /\ ~(m <= m - 1)
      BY <1>1, <3>3
    <3>5. m - 1 \notin T
      <4> HIDE DEF T
      <4> QED BY <3>1, <3>4
    <3>6. \A x \in Accounts : v[m - 1][x] \in Int
      BY <1>3, <3>4, <3>5
    <3>7. a \in Dynamic \ Cyclic
      BY <3>2, <3>4, CutFacts DEF Stored
    <3>8. formula[a].then \subseteq Accounts /\ IsFiniteSet(formula[a].then)
      BY <3>7, UsesFacts
    <3>9. SumFunctionOnSet(v[m - 1], formula[a].then) \in Int
      <4> HIDE DEF v
      <4> QED BY <3>6, <3>8, SumIsInteger
    <3>10. Cut(m, a) = 1 + SumFunctionOnSet(v[m - 1], formula[a].then)
      BY <3>4, <3>7, CutFacts
    <3> HIDE DEF v
    <3> QED BY <3>2, <3>9, <3>10
  <2>2. \A a \in Accounts : N \in 0 .. N /\ Cut(N, a) \in Int
    <3>1. N \in 0 .. N
      BY <1>1
    <3> QED BY <2>1, <3>1
  <2> QED BY <1>3, <2>2
<1> QED BY <1>4, <1>5, <1>6, <1>7

-----------------------------------------------------------------------------
(* Evaluations that meet cycles.                                           *)

\* What references lead to from r without entering X ...
Free(r, X) ==
  {b \in Accounts : \A S \in SUBSET Accounts :
                     (r \notin X => r \in S) /\ (\A y \in S : Uses(y) \ X \subseteq S) => b \in S}

\* ... and whether they lead to x, a member of X.
Meets(r, x, X) == x \in X /\ (x = r \/ \E y \in Free(r, X) : x \in Uses(y))

LEMMA FreeIsClosed ==
  ASSUME formula \in FormulaSets, NEW r \in Accounts, NEW X
  PROVE  /\ r \notin X => r \in Free(r, X)
         /\ \A y \in Free(r, X) : y \notin X /\ Uses(y) \ X \subseteq Free(r, X)
         /\ Free(r, X) \subseteq Accounts
<1>1. ASSUME NEW y \in Free(r, X) PROVE y \notin X
  <2>1. Accounts \ X \in SUBSET Accounts /\ \A z \in Accounts \ X : Uses(z) \ X \subseteq Accounts \ X
    BY UsesFacts
  <2> QED BY <2>1 DEF Free
<1> QED BY <1>1, UsesFacts DEF Free

LEMMA FreeIsLeast ==
  ASSUME NEW r, NEW X, NEW S \in SUBSET Accounts, r \notin X => r \in S, \A y \in S : Uses(y) \ X \subseteq S
  PROVE  Free(r, X) \subseteq S
  BY DEF Free

\* What is met from an account is met from one of its references, on a way
\* that does not come back to it.
LEMMA MeetsByReference ==
  ASSUME formula \in FormulaSets, NEW a \in Accounts, NEW X, a \notin X, NEW x, Meets(a, x, X)
  PROVE  \E r \in Uses(a) : Meets(r, x, X \cup {a})
<1> DEFINE Y == X \cup {a}
           S == {a} \cup UNION {Free(r, Y) : r \in Uses(a)}
<1>0. Uses(a) \subseteq Accounts
  BY UsesFacts
<1>1. \A r \in Uses(a) : /\ r \notin Y => r \in Free(r, Y)
                         /\ \A y \in Free(r, Y) : y \notin Y /\ Uses(y) \ Y \subseteq Free(r, Y)
                         /\ Free(r, Y) \subseteq Accounts
  <2> HIDE DEF Y
  <2> QED BY <1>0, FreeIsClosed
<1>2. \A y \in S : Uses(y) \ X \subseteq S
  <2> SUFFICES ASSUME NEW y \in S, NEW z \in Uses(y) \ X PROVE z \in S
    OBVIOUS
  <2>1. CASE z = a
    BY <2>1
  <2>2. CASE z # a /\ y = a
    BY <1>1, <2>2
  <2>3. CASE z # a /\ y # a
    <3>1. PICK r \in Uses(a) : y \in Free(r, Y)
      BY <2>3
    <3>2. z \in Free(r, Y)
      BY <1>1, <2>3, <3>1
    <3> QED BY <3>2
  <2> QED BY <2>1, <2>2, <2>3
<1>3. Free(a, X) \subseteq S
  <2>1. S \in SUBSET Accounts /\ a \in S
    BY <1>1
  <2> HIDE DEF S
  <2> QED BY <1>2, <2>1, FreeIsLeast
<1>4. x \in X /\ x # a
  BY DEF Meets
<1>5. PICK y \in Free(a, X) : x \in Uses(y)
  BY <1>4 DEF Meets
<1>6. CASE y = a
  BY <1>4, <1>5, <1>6 DEF Meets
<1>7. CASE y # a
  <2>1. PICK r \in Uses(a) : y \in Free(r, Y)
    BY <1>3, <1>5, <1>7
  <2> QED BY <1>4, <1>5, <2>1 DEF Meets
<1> QED BY <1>6, <1>7

\* A cycle that runs through none of X is met from a reference.
LEMMA CycleIsMet ==
  ASSUME formula \in FormulaSets, NEW a \in Cyclic, NEW X, a \notin X, X \cap Reaches(a) = {}
  PROVE  \E r \in Uses(a) : Meets(r, a, X \cup {a})
<1> SUFFICES ASSUME \A r \in Uses(a) : ~Meets(r, a, X \cup {a}) PROVE FALSE
  OBVIOUS
<1> DEFINE Y == X \cup {a}
           Z == UNION {Free(r, Y) : r \in Uses(a)}
<1>0. a \in Accounts /\ a \in Reaches(a) /\ Uses(a) \subseteq Accounts /\ Uses(a) \subseteq Reaches(a)
      /\ Reaches(a) \in SUBSET Accounts /\ \A b \in Reaches(a) : Uses(b) \subseteq Reaches(a)
  BY UsesFacts, ReachesIsClosed DEF Cyclic
<1>1. \A r \in Uses(a) : /\ r \notin Y => r \in Free(r, Y)
                         /\ \A y \in Free(r, Y) : y \notin Y /\ Uses(y) \ Y \subseteq Free(r, Y)
                         /\ Free(r, Y) \subseteq Accounts
  <2> HIDE DEF Y
  <2> QED BY <1>0, FreeIsClosed
<1>2. \A r \in Uses(a) : r # a /\ r \notin Y
  BY <1>0 DEF Meets
<1>3. \A r \in Uses(a) : Free(r, Y) \subseteq Reaches(a)
  <2> SUFFICES ASSUME NEW r \in Uses(a) PROVE Free(r, Y) \subseteq Reaches(a)
    OBVIOUS
  <2>1. \A y \in Reaches(a) : Uses(y) \ Y \subseteq Reaches(a)
    BY <1>0
  <2> HIDE DEF Y
  <2> QED BY <1>0, <2>1, FreeIsLeast
<1>4. \A y \in Z : Uses(y) \subseteq Z
  <2> SUFFICES ASSUME NEW r \in Uses(a), NEW y \in Free(r, Y), NEW z \in Uses(y) PROVE z \in Free(r, Y)
    BY DEF Z
  <2>1. z \in Reaches(a)
    BY <1>0, <1>3
  <2>2. z # a
    BY DEF Meets
  <2>3. z \notin Y
    BY <2>1, <2>2
  <2> HIDE DEF Y
  <2> QED BY <1>1, <2>3
<1>5. Z \in SUBSET Accounts /\ Uses(a) \subseteq Z
  BY <1>1, <1>2
<1>6. a \notin Z
  BY <1>1
<1>7. Reaches(a) \subseteq Z
  <2> HIDE DEF Z
  <2> QED BY <1>4, <1>5, ReachesIsLeast
<1> QED BY <1>0, <1>6, <1>7

\* The accounts of the first i frames.
Below(i) == {stack[j].acct : j \in 1 .. i}

\* Every frame whose references so far lead back to a frame up to it has it
\* marked as cyclic already ...
Marked == \A i \in 1 .. Len(stack) : \A r \in formula[stack[i].acct].then \ stack[i].todo :
            \A x \in Below(i) : Meets(r, x, Below(i)) => x \in cycled

\* ... and off the cycles what each frame has read is what it is worth.
Tallied == \A i \in 1 .. Len(stack) : stack[i].acct \notin Cyclic =>
             stack[i].sum + SumFunctionOnSet(CutMeaning, stack[i].todo) = CutMeaning[stack[i].acct]

Resolved == \A k \in 1 .. Len(answers) : answers[k].value = CutMeaning[answers[k].acct]

NeverCutOff == SumsOnly /\ Cardinality(Dynamic) <= limit

CycleInv == NeverCutOff => Marked /\ Tallied /\ Resolved

LEMMA MeetsKept ==
  ASSUME UNCHANGED formula
  PROVE  /\ \A r, x, X : Meets(r, x, X)' <=> Meets(r, x, X)
         /\ CutMeaning' = CutMeaning
<1>1. \A r, X : Free(r, X)' = Free(r, X)
  BY ReferencesKept DEF Free
<1> QED BY <1>1, ReferencesKept DEF Meets, CutMeaning

LEMMA TestsNothing ==
  ASSUME StackInv, SumsOnly, NEW i \in 1 .. Len(stack)
  PROVE  /\ stack[i].test = NoTest /\ stack[i].acct \in Dynamic \cap Accounts
         /\ formula[stack[i].acct].then = Uses(stack[i].acct)
         /\ stack[i].todo \subseteq Accounts /\ IsFiniteSet(stack[i].todo) /\ stack[i].sum \in Int
<1>1. stack[i] \in Frames /\ Underway(stack[i]) /\ formula \in FormulaSets
  BY ShapeFacts DEF StackInv
<1>2. stack[i].acct \in Dynamic \cap Accounts /\ stack[i].todo \subseteq Accounts /\ stack[i].sum \in Int
  BY <1>1 DEF Frames, Underway
<1>3. formula[stack[i].acct].test = NoTest
  BY <1>2 DEF SumsOnly
<1>4. stack[i].test = NoTest
  BY <1>1, <1>3 DEF Underway
<1> QED BY <1>1, <1>2, <1>3, <1>4, UsesFacts, AccountsFacts

LEMMA CyclesReturned ==
  ASSUME StackInv, CycleInv, NeverCutOff,
         NEW n, NEW st, NEW a, NEW v \in Int, Caller(n, st, a), Return(st, a, v),
         UNCHANGED <<formula, limit>>, cycled \subseteq cycled',
         \A x \in Below(n) : Meets(a, x, Below(n)) => x \in cycled',
         n = 0 \/ stack[n].acct \notin Cyclic => v = CutMeaning[a]
  PROVE  CycleInv'
<1>1. /\ Len(stack') = n /\ n \in Nat
      /\ \A i \in 1 .. n : /\ i # n => stack'[i] = stack[i]
                           /\ i = n => stack'[i] = Told(stack[n], a, v)
                           /\ stack'[i].acct = stack[i].acct
      /\ n # 0 => answers' = answers
      /\ n = 0 => answers' = Append(answers, [acct |-> a, value |-> v])
  BY ReturnFacts
<1>2. Len(stack) \in Nat /\ n <= Len(stack) /\ formula \in FormulaSets /\ answers \in Seq(Answers)
  <2>1. Len(stack) \in Nat
    BY StackParts, ShapeFacts
  <2>2. n \in 0 .. Len(stack)
    BY DEF Caller
  <2>3. formula \in FormulaSets /\ answers \in Seq(Answers)
    BY StackParts DEF Shapes
  <2> QED BY <2>1, <2>2, <2>3
<1>3. \A i \in 1 .. n : i \in 1 .. Len(stack)
  BY <1>1, <1>2
<1>4. SumsOnly /\ Marked /\ Tallied /\ Resolved
  BY DEF CycleInv, NeverCutOff
<1>5. ASSUME NEW i \in 1 .. n, i = n
      PROVE  /\ stack[n].test = NoTest /\ a \in stack[n].todo
             /\ stack'[i] = [acct |-> stack[n].acct, test |-> NoTest, sum |-> stack[n].sum + v,
                             todo |-> stack[n].todo \ {a}]
  <2>1. n \in 1 .. Len(stack) /\ n # 0 /\ a \in Wanted(stack[n])
    BY <1>1, <1>3, <1>5 DEF Caller
  <2>2. stack[n].test = NoTest
    BY <1>4, <2>1, TestsNothing
  <2> QED BY <1>1, <1>5, <2>1, <2>2 DEF Told, Wanted
<1>6. ASSUME NEW i \in 1 .. n, NEW r \in formula[stack[i].acct].then \ stack'[i].todo,
             NEW x \in Below(i), Meets(r, x, Below(i))
      PROVE  x \in cycled'
  <2>1. CASE r \in stack[i].todo
    <3>1. i = n
      BY <1>1, <1>6, <2>1
    <3>2. r = a
      BY <1>5, <1>6, <2>1, <3>1
    <3> QED BY <1>6, <3>1, <3>2
  <2>2. CASE r \notin stack[i].todo
    BY <1>3, <1>4, <1>6, <2>2 DEF Marked
  <2> QED BY <2>1, <2>2
<1>7. \A i \in 1 .. n : Below(i)' = Below(i)
  <2> SUFFICES ASSUME NEW i \in 1 .. n PROVE Below(i)' = Below(i)
    OBVIOUS
  <2>1. \A j \in 1 .. i : j \in 1 .. n
    BY <1>1
  <2> QED BY <1>1, <2>1 DEF Below
<1>8. Marked'
  <2>1. \A i \in 1 .. n : \A r \in formula[stack[i].acct].then \ stack'[i].todo : \A x \in Below(i) :
          Meets(r, x, Below(i)) => x \in cycled'
    BY <1>6
  <2>2. \A i \in 1 .. n : \A r \in formula'[stack'[i].acct].then \ stack'[i].todo : \A x \in Below(i)' :
          Meets(r, x, Below(i)') => x \in cycled'
    BY <1>1, <1>7, <2>1
  <2>3. \A r, x, X : Meets(r, x, X)' <=> Meets(r, x, X)
    BY MeetsKept
  <2>4. \A i \in 1 .. n : \A r \in formula'[stack'[i].acct].then \ stack'[i].todo : \A x \in Below(i)' :
          Meets(r, x, Below(i))' => x \in cycled'
    BY <2>2, <2>3 DEF Meets
  <2> QED BY <1>1, <2>4 DEF Marked
<1>9. Tallied'
  <2>1. ASSUME NEW i \in 1 .. n, stack[i].acct \notin Cyclic
        PROVE  stack'[i].sum + SumFunctionOnSet(CutMeaning, stack'[i].todo) = CutMeaning[stack[i].acct]
    <3>1. stack[i].sum + SumFunctionOnSet(CutMeaning, stack[i].todo) = CutMeaning[stack[i].acct]
      BY <1>3, <1>4, <2>1 DEF Tallied
    <3>2. CASE i # n
      BY <1>1, <3>1, <3>2
    <3>3. CASE i = n
      <4>1. v = CutMeaning[a] /\ a \in stack[n].todo
        BY <1>5, <2>1, <3>3
      <4>2. stack'[i].sum = stack[n].sum + v /\ stack'[i].todo = stack[n].todo \ {a}
        BY <1>5, <3>3
      <4>3. stack[n].todo \subseteq Accounts /\ IsFiniteSet(stack[n].todo) /\ stack[n].sum \in Int
            /\ IsFiniteSet(stack[n].todo \ {a})
        BY <1>3, <1>4, <3>3, TestsNothing, FS_Subset
      <4>4. \A y \in stack[n].todo : CutMeaning[y] \in Int
        BY <1>2, <1>4, <4>3, CutMeaningFacts
      <4>5. SumFunctionOnSet(CutMeaning, stack[n].todo)
              = CutMeaning[a] + SumFunctionOnSet(CutMeaning, stack[n].todo \ {a})
        BY <4>1, <4>3, <4>4, SumTakesAny
      <4>6. SumFunctionOnSet(CutMeaning, stack[n].todo \ {a}) \in Int
        BY <4>3, <4>4, SumIsInteger
      <4>7. stack[n].sum + v + SumFunctionOnSet(CutMeaning, stack[n].todo \ {a})
              = stack[n].sum + SumFunctionOnSet(CutMeaning, stack[n].todo)
        BY <4>1, <4>3, <4>5, <4>6
      <4> QED BY <3>1, <3>3, <4>2, <4>7
    <3> QED BY <3>2, <3>3
  <2> QED BY <1>1, <2>1, MeetsKept, ReferencesKept DEF Tallied
<1>10. Resolved'
  <2>1. CASE n # 0
    BY <1>1, <1>4, <2>1, MeetsKept DEF Resolved
  <2>2. CASE n = 0
    <3>1. v = CutMeaning[a] /\ answers' = Append(answers, [acct |-> a, value |-> v]) /\ Len(answers) \in Nat
      BY <1>1, <1>2, <2>2
    <3>2. /\ Len(answers') = Len(answers) + 1 /\ answers'[Len(answers) + 1] = [acct |-> a, value |-> v]
          /\ \A k \in 1 .. Len(answers) : answers'[k] = answers[k]
          /\ \A k \in 1 .. Len(answers) + 1 : k = Len(answers) + 1 \/ k \in 1 .. Len(answers)
      BY <1>2, <3>1
    <3>3. \A k \in 1 .. Len(answers') : answers'[k].value = CutMeaning[answers'[k].acct]
      <4> SUFFICES ASSUME NEW k \in 1 .. Len(answers') PROVE answers'[k].value = CutMeaning[answers'[k].acct]
        OBVIOUS
      <4>1. CASE k = Len(answers) + 1
        <5>1. answers'[k].acct = a /\ answers'[k].value = v
          BY <3>2, <4>1
        <5> QED BY <3>1, <5>1
      <4>2. CASE k \in 1 .. Len(answers)
        BY <1>4, <3>2, <4>2 DEF Resolved
      <4> QED BY <3>2, <4>1, <4>2
    <3> QED BY <3>3, MeetsKept DEF Resolved
  <2> QED BY <2>1, <2>2
<1> QED BY <1>8, <1>9, <1>10 DEF CycleInv

LEMMA NextKeepsFormulas == [Next]_vars => UNCHANGED <<formula, limit>>
<1>1. \A a : ReadStored(a) => UNCHANGED <<formula, limit>>
  BY DEF ReadStored
<1>2. \A a : Cycle(a) => UNCHANGED <<formula, limit>>
  BY DEF Cycle
<1>3. \A a : CutOff(a) => UNCHANGED <<formula, limit>>
  BY DEF CutOff
<1>4. \A a : Evaluate(a) => UNCHANGED <<formula, limit>>
  BY DEF Evaluate
<1>5. Leave => UNCHANGED <<formula, limit>>
  BY DEF Leave
<1>6. UNCHANGED vars => UNCHANGED <<formula, limit>>
  BY DEF vars
<1> QED BY <1>1, <1>2, <1>3, <1>4, <1>5, <1>6 DEF Next

LEMMA CycleInvStep == StackInv /\ StackInv' /\ CycleInv /\ [Next]_vars => CycleInv'
<1> SUFFICES ASSUME StackInv, StackInv', CycleInv, [Next]_vars PROVE NeverCutOff => CycleInv'
  <2>1. [Next]_vars => (NeverCutOff' <=> NeverCutOff)
    BY NextKeepsFormulas, ReferencesKept DEF NeverCutOff
  <2> QED BY <2>1 DEF CycleInv
<1> SUFFICES ASSUME NeverCutOff PROVE CycleInv'
  OBVIOUS
<1> DEFINE n == Len(stack)
<1>0. /\ n \in Nat /\ formula \in FormulaSets /\ SumsOnly /\ Cyclic \subseteq Dynamic /\ Dynamic \subseteq Accounts
      /\ Marked /\ Tallied /\ Resolved
  BY ShapeFacts, CyclicFacts, UsesFacts DEF StackInv, NeverCutOff, CycleInv
<1>1. Below(n) = inFlight /\ Below(n) \subseteq Dynamic
  <2>1. Below(n) = inFlight
    BY DEF StackInv, Below
  <2> QED BY <2>1, ShapeFacts DEF StackInv
<1>2. CASE \E a \in Called : ReadStored(a)
  <2>1. PICK a \in Called : ReadStored(a)
    BY <1>2
  <2>2. Caller(n, stack, a) /\ a \in Accounts /\ a \notin Dynamic /\ Uses(a) = {}
    BY <1>0, <2>1, CalledHasCaller, UsesFacts DEF ReadStored, Caller
  <2>3. ASSUME NEW x \in Below(n) PROVE ~Meets(a, x, Below(n))
    <3>1. Free(a, Below(n)) \subseteq {a}
      <4> DEFINE S == {a}
      <4>1. S \in SUBSET Accounts /\ a \in S /\ \A y \in S : Uses(y) \ Below(n) \subseteq S
        BY <2>2
      <4> HIDE DEF S, n
      <4>2. Free(a, Below(n)) \subseteq S
        BY <4>1, FreeIsLeast
      <4> QED BY <4>2 DEF S
    <3>2. x # a
      BY <1>1, <2>2
    <3> QED BY <2>2, <3>1, <3>2 DEF Meets
  <2>4. Stored \in Int /\ Return(stack, a, Stored) /\ UNCHANGED <<formula, limit, cycled>>
    BY <2>1 DEF ReadStored, Stored
  <2>5. CutMeaning[a] = Stored
    BY <1>0, <2>2, CutMeaningFacts
  <2> HIDE DEF n
  <2> QED BY <2>2, <2>3, <2>4, <2>5, CyclesReturned
<1>3. CASE \E a \in Called : Cycle(a)
  <2>1. PICK a \in Called : Cycle(a)
    BY <1>3
  <2>2. Caller(n, stack, a) /\ a \in Below(n) /\ cycled' = cycled \cup {a}
    BY <1>1, <2>1, CalledHasCaller DEF Cycle
  <2>3. ASSUME NEW x \in Below(n), Meets(a, x, Below(n)) PROVE x \in cycled'
    <3>1. Free(a, Below(n)) \subseteq {}
      <4>1. {} \in SUBSET Accounts /\ \A y \in {} : Uses(y) \ Below(n) \subseteq {}
        OBVIOUS
      <4> QED BY <2>2, <4>1, FreeIsLeast
    <3> QED BY <2>2, <2>3, <3>1 DEF Meets
  <2>4. n # 0 /\ stack[n].acct \in Cyclic
    <3>1. PICK i \in 1 .. n : a = stack[i].acct
      BY <2>2 DEF Below
    <3>2. n \in 1 .. n /\ n # 0
      BY <1>0
    <3>3. a \in Wanted(stack[n])
      BY <2>2, <3>2 DEF Caller
    <3>4. a \in Reaches(stack[n].acct) /\ stack[n].acct \in Accounts
      BY <3>2, <3>3, CalledIsReached, ShapeFacts DEF StackInv
    <3>5. stack[n].acct = a \/ stack[n].acct \in Reaches(a)
      <4>1. i < n \/ i = n
        BY <1>0
      <4> QED BY <3>1, <3>2, <4>1 DEF StackInv, Chained
    <3>6. stack[n].acct \in Reaches(stack[n].acct)
      BY <1>0, <3>4, <3>5, ReachesIsTransitive
    <3> QED BY <3>2, <3>4, <3>6 DEF Cyclic
  <2>5. 0 \in Int /\ Return(stack, a, 0) /\ cycled \subseteq cycled' /\ UNCHANGED <<formula, limit>>
    BY <2>1 DEF Cycle
  <2> HIDE DEF n
  <2> QED BY <2>2, <2>3, <2>4, <2>5, CyclesReturned
<1>4. CASE \E a \in Called : CutOff(a)
  <2>1. PICK a \in Called : a \in Dynamic \ inFlight /\ n >= limit
    BY <1>4 DEF CutOff, TooDeep
  <2>2. Cardinality(inFlight \cup {a}) = n + 1
    BY <2>1, FS_AddElement DEF StackInv
  <2>3. inFlight \cup {a} \subseteq Dynamic /\ IsFiniteSet(Dynamic) /\ Cardinality(Dynamic) \in Nat
    BY <1>0, <1>1, <2>1, AccountsFacts
  <2>4. n + 1 <= Cardinality(Dynamic)
    BY <2>2, <2>3, FS_Subset
  <2>5. limit \in Nat /\ Cardinality(Dynamic) <= limit
    BY ShapeFacts DEF StackInv, NeverCutOff
  <2> QED BY <1>0, <2>1, <2>3, <2>4, <2>5
<1>5. CASE \E a \in Called : Evaluate(a)
  <2>1. PICK a \in Called : Evaluate(a)
    BY <1>5
  <2>2. /\ Len(stack') = n + 1 /\ stack'[n + 1] = Frame(a)
        /\ \A i \in 1 .. n : stack'[i] = stack[i]
    BY <2>1, EvaluateKeepsStack
  <2>3. UNCHANGED <<formula, limit, cycled, issues, answers>> /\ a \in Dynamic
    BY <2>1 DEF Evaluate
  <2>4. \A i \in 1 .. n + 1 : i \in 1 .. n \/ i = n + 1
    BY <1>0
  <2>5. Frame(a).acct = a /\ Frame(a).sum = 1 /\ Frame(a).todo = formula[a].then
    BY <1>0, <2>3 DEF Frame, SumsOnly
  <2>6. \A i \in 1 .. n : Below(i)' = Below(i)
    <3> SUFFICES ASSUME NEW i \in 1 .. n PROVE Below(i)' = Below(i)
      OBVIOUS
    <3>1. \A j \in 1 .. i : j \in 1 .. n
      BY <1>0
    <3> QED BY <2>2, <3>1 DEF Below
  <2>7. Marked'
    <3>1. ASSUME NEW i \in 1 .. n + 1, NEW r \in formula[stack'[i].acct].then \ stack'[i].todo,
                 NEW x \in Below(i)', Meets(r, x, Below(i)')
          PROVE  x \in cycled
      <4>1. i # n + 1
        BY <2>2, <2>5, <3>1
      <4>2. i \in 1 .. n /\ stack'[i] = stack[i] /\ Below(i)' = Below(i)
        BY <2>2, <2>4, <2>6, <4>1
      <4> QED BY <1>0, <3>1, <4>2 DEF Marked
    <3>2. \A r, x, X : Meets(r, x, X)' <=> Meets(r, x, X)
      BY <2>3, MeetsKept
    <3>3. \A i \in 1 .. n + 1 : \A r \in formula'[stack'[i].acct].then \ stack'[i].todo : \A x \in Below(i)' :
            Meets(r, x, Below(i))' => x \in cycled'
      BY <2>3, <3>1, <3>2 DEF Meets
    <3> QED BY <2>2, <3>3 DEF Marked
  <2>8. Tallied'
    <3>1. ASSUME NEW i \in 1 .. n + 1, stack'[i].acct \notin Cyclic
          PROVE  stack'[i].sum + SumFunctionOnSet(CutMeaning, stack'[i].todo) = CutMeaning[stack'[i].acct]
      <4>1. CASE i = n + 1
        <5>1. a \notin Cyclic
          BY <2>2, <2>5, <3>1, <4>1
        <5>2. CutMeaning[a] = 1 + SumFunctionOnSet(CutMeaning, formula[a].then)
          BY <1>0, <2>3, <5>1, CutMeaningFacts
        <5> QED BY <2>2, <2>5, <4>1, <5>2
      <4>2. CASE i \in 1 .. n
        BY <1>0, <2>2, <3>1, <4>2 DEF Tallied
      <4> QED BY <2>4, <4>1, <4>2
    <3> QED BY <2>2, <2>3, <3>1, MeetsKept, ReferencesKept DEF Tallied
  <2>9. Resolved'
    BY <1>0, <2>3, MeetsKept DEF Resolved
  <2> QED BY <2>7, <2>8, <2>9 DEF CycleInv
<1>6. CASE Leave
  <2> DEFINE a == Top.acct
             m == n - 1
             X == Below(m)
  <2>1. stack # <<>> /\ Wanted(Top) = {} /\ Return(Under, a, Yield(Top)) /\ UNCHANGED <<formula, limit, cycled>>
    BY <1>6 DEF Leave
  <2>2. Caller(m, Under, a) /\ n \in 1 .. n /\ n \in 1 .. Len(stack) /\ Top = stack[n]
    BY <2>1, LeavingHasCaller
  <2>3. m \in 0 .. n /\ m + 1 = n /\ m < n
    BY <1>0, <2>2
  <2>4. /\ Top.test = NoTest /\ a \in Dynamic \cap Accounts /\ formula[a].then = Uses(a)
        /\ Top.todo = {} /\ Top.sum \in Int
    BY <1>0, <2>1, <2>2, TestsNothing DEF Wanted
  <2>5. Yield(Top) \in Int
    BY <2>4 DEF Yield
  <2>6. a \notin X /\ Below(n) = X \cup {a}
    <3>1. \A j \in 1 .. n : j = n \/ j \in 1 .. m
      BY <1>0
    <3>2. \A j \in 1 .. m : j \in 1 .. n /\ j # n
      BY <1>0
    <3>3. \A j \in 1 .. n : stack[j].acct = a => j = n
      BY <2>2 DEF StackInv, Chained
    <3> QED BY <2>2, <3>1, <3>2, <3>3 DEF Below
  <2>7. \A r \in Uses(a) : \A x \in X \cup {a} : Meets(r, x, X \cup {a}) => x \in cycled
    <3>1. \A r \in formula[stack[n].acct].then \ stack[n].todo : \A x \in Below(n) : Meets(r, x, Below(n)) => x \in cycled
      BY <1>0, <2>2 DEF Marked
    <3> HIDE DEF X
    <3> QED BY <2>2, <2>4, <2>6, <3>1
  <2>8. ASSUME NEW x \in X, Meets(a, x, X) PROVE x \in cycled'
    <3> HIDE DEF X, a
    <3>1. \E r \in Uses(a) : Meets(r, x, X \cup {a})
      BY <1>0, <2>4, <2>6, <2>8, MeetsByReference
    <3> QED BY <2>1, <2>7, <3>1
  <2>9. ASSUME m = 0 \/ stack[m].acct \notin Cyclic
        PROVE  Yield(Top) = CutMeaning[a]
    <3>1. CASE a \in Cyclic
      <4>1. ASSUME NEW x \in X, x \in Reaches(a) PROVE FALSE
        <5>1. PICK j \in 1 .. m : x = stack[j].acct
          BY <4>1 DEF Below
        <5>2. m # 0 /\ m \in 1 .. Len(stack) /\ m \in 1 .. m /\ (j < m \/ j = m)
          <6>1. \A k \in Nat : \A p \in 0 .. k : \A i \in 1 .. p :
                  p # 0 /\ p \in 1 .. k /\ p \in 1 .. p /\ (i < p \/ i = p)
            OBVIOUS
          <6>2. m \in 0 .. n /\ j \in 1 .. m /\ n \in Nat
            BY <1>0, <2>3, <5>1
          <6> HIDE DEF m
          <6> QED BY <6>1, <6>2
        <5>3. a \in Wanted(stack[m])
          BY <2>2, <5>2 DEF Caller
        <5>4. a \in Reaches(stack[m].acct) /\ stack[m].acct \in Accounts
          BY <5>2, <5>3, CalledIsReached, ShapeFacts DEF StackInv
        <5>5. stack[m].acct = x \/ stack[m].acct \in Reaches(x)
          <6>1. j \in 1 .. Len(stack)
            BY <1>0, <2>3
          <6> QED BY <5>1, <5>2, <6>1 DEF StackInv, Chained
        <5> HIDE DEF a
        <5>6. stack[m].acct \in Reaches(a)
          BY <1>0, <4>1, <5>5, ReachesIsTransitive
        <5>7. stack[m].acct \in Reaches(stack[m].acct)
          BY <1>0, <5>4, <5>6, ReachesIsTransitive
        <5> QED BY <2>9, <5>2, <5>4, <5>7 DEF Cyclic
      <4>2. \E r \in Uses(a) : Meets(r, a, X \cup {a})
        <5> HIDE DEF X, a
        <5> QED BY <1>0, <2>6, <3>1, <4>1, CycleIsMet
      <4>3. a \in cycled
        BY <2>7, <4>2
      <4> QED BY <1>0, <3>1, <4>3, CutMeaningFacts DEF Yield
    <3>2. CASE a \notin Cyclic
      <4>1. a \notin cycled
        BY <3>2 DEF StackInv
      <4>2. Top.sum + SumFunctionOnSet(CutMeaning, {}) = CutMeaning[a]
        BY <1>0, <2>2, <2>4, <3>2 DEF Tallied
      <4>3. SumFunctionOnSet(CutMeaning, {}) = 0
        BY EmptySum
      <4> QED BY <2>4, <4>1, <4>2, <4>3 DEF Yield
    <3> QED BY <3>1, <3>2
  <2> HIDE DEF a, m
  <2> QED BY <2>1, <2>2, <2>5, <2>8, <2>9, CyclesReturned
<1>7. CASE UNCHANGED vars
  <2>1. UNCHANGED <<formula, limit, stack, cycled, issues, answers>>
    BY <1>7 DEF vars
  <2>2. \A i : Below(i)' = Below(i)
    BY <2>1 DEF Below
  <2>3. \A r, x, X : Meets(r, x, X)' <=> Meets(r, x, X)
    BY <2>1, MeetsKept
  <2>4. Marked'
    <3>1. \A i \in 1 .. Len(stack) : \A r \in formula[stack[i].acct].then \ stack[i].todo : \A x \in Below(i)' :
            Meets(r, x, Below(i))' => x \in cycled'
      BY <1>0, <2>1, <2>2, <2>3 DEF Marked, Meets
    <3> QED BY <2>1, <3>1 DEF Marked
  <2>5. Tallied' /\ Resolved'
    BY <1>0, <2>1, MeetsKept, ReferencesKept DEF Tallied, Resolved
  <2> QED BY <2>4, <2>5 DEF CycleInv
<1> QED BY <1>2, <1>3, <1>4, <1>5, <1>6, <1>7 DEF Next

(* Formulas that are sums, and no more of them than the limit: a cell on a *)
(* cycle yields 0, and one that refers to it reads 0 there, whatever the   *)
(* order of the cells and of the references.                               *)
THEOREM CyclicCellsYieldZero == Spec => []CyclesYieldZero
<1>1. Init => CycleInv
  <2> SUFFICES ASSUME Init PROVE CycleInv
    OBVIOUS
  <2>1. stack = <<>> /\ answers = <<>> /\ Len(stack) = 0 /\ Len(answers) = 0 /\ 1 .. 0 = {}
    BY DEF Init
  <2> QED BY <2>1 DEF CycleInv, Marked, Tallied, Resolved
<1>2. StackInv /\ CycleInv => CyclesYieldZero
  <2> SUFFICES ASSUME StackInv, CycleInv, NeverCutOff, NEW k \in DOMAIN answers
               PROVE  answers[k].value = CycleMeaning[answers[k].acct]
    BY DEF CyclesYieldZero, NeverCutOff
  <2>1. k \in 1 .. Len(answers)
    <3>1. answers \in Seq(Answers)
      BY DEF StackInv, Shapes
    <3> QED BY <3>1
  <2> QED BY <2>1, CycleMeaningIsCut DEF CycleInv, Resolved
<1> QED BY <1>1, <1>2, CycleInvStep, StackInvHolds, PTL DEF Spec
=============================================================================
