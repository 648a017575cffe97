----------------------------- MODULE TreeProofs -----------------------------
(***************************************************************************)
(* Facts about the operators of Trees: the path to the root is the least   *)
(* set that holds a member and is closed under the parent, so that what a  *)
(* removal leaves refers to nothing it took.  At the end, what the sums    *)
(* and products of the engine are: folds that may take any element first.  *)
(***************************************************************************)
EXTENDS Trees, Integers, Functions, FiniteSetTheorems, TLAPS

\* S and the parents of its members.
OneUp(t, S) == S \cup ({t[y] : y \in S} \ {NoParent})

\* f is the sequence of sets PathToRoot builds, up to the n-th.
Climb(t, x, n, f) ==
  f = [i \in 0 .. n |-> IF i = 0 THEN {x} \cap DOMAIN t ELSE OneUp(t, f[i - 1])]

-----------------------------------------------------------------------------
\* A non-empty set of naturals has a least element.
LEMMA LeastNatural ==
  ASSUME NEW S, S \subseteq Nat, S # {}
  PROVE  \E m \in S : \A n \in S : m <= n
<1> DEFINE T == {0 .. n : n \in S}
           R == StrictSubsetOrdering(Nat)
<1>1. \A n \in S : 0 .. n \in FiniteSubsetsOf(Nat)
  BY FS_Interval DEF FiniteSubsetsOf
<1>2. T \subseteq FiniteSubsetsOf(Nat) /\ T # {}
  BY <1>1
<1>3. \E a \in T : \A b \in T : <<b, a>> \notin R
  <2>1. IsWellFoundedOn(R, FiniteSubsetsOf(Nat))
    BY FS_StrictSubsetOrderingWellFounded
  <2> HIDE DEF R, T
  <2> QED BY <1>2, <2>1, WFMin
<1>4. PICK m \in S : \A n \in S : <<0 .. n, 0 .. m>> \notin R
  BY <1>3
<1>5. ASSUME NEW n \in S, n < m
      PROVE  FALSE
  <2>1. 0 .. n \subseteq 0 .. m /\ m \in 0 .. m /\ m \notin 0 .. n
    BY <1>5
  <2>2. 0 .. n \in SUBSET Nat /\ 0 .. m \in SUBSET Nat
    OBVIOUS
  <2> QED BY <1>4, <2>1, <2>2 DEF StrictSubsetOrdering
<1> QED BY <1>5

\* A non-empty set of numbers up to n has a greatest element.
LEMMA GreatestOfInterval ==
  ASSUME NEW n \in Nat, NEW S, S \subseteq 1 .. n, S # {}
  PROVE  \E m \in S : \A k \in S : k <= m
<1> DEFINE T == {n - k : k \in S}
<1>1. \A k \in S : k \in Int /\ n - k \in Nat
  <2> SUFFICES ASSUME NEW k \in S PROVE k \in Int /\ n - k \in Nat
    OBVIOUS
  <2>1. k \in 1 .. n
    OBVIOUS
  <2> QED BY <2>1
<1>2. PICK l \in T : \A k \in T : l <= k
  <2>1. T \subseteq Nat /\ T # {}
    BY <1>1
  <2> HIDE DEF T
  <2> QED BY <2>1, LeastNatural
<1>3. PICK m \in S : l = n - m
  OBVIOUS
<1>4. \A k \in S : n - m <= n - k
  BY <1>2, <1>3
<1>5. ASSUME NEW k \in S PROVE k <= m
  <2>1. n - m <= n - k /\ k \in Int /\ m \in Int /\ n \in Int
    BY <1>1, <1>4
  <2> QED BY <2>1
<1> QED BY <1>5

\* A function takes finitely many values on a finite set.
LEMMA ImageIsFinite ==
  ASSUME NEW S, IsFiniteSet(S), NEW f, DOMAIN f = S
  PROVE  IsFiniteSet({f[x] : x \in S})
<1> DEFINE T == {f[x] : x \in S}
           g == [x \in S |-> f[x]]
<1>1. g \in Surjection(S, T)
  BY DEF Surjection
<1> HIDE DEF g, T
<1>2. IsFiniteSet(T)
  BY <1>1, FS_Surjection
<1> QED BY <1>2 DEF T

\* The recursion of PathToRoot defines a function.
LEMMA ClimbExists ==
  ASSUME NEW t, NEW x, NEW N \in Nat
  PROVE  \E f : Climb(t, x, N, f)
<1> DEFINE T == {n \in Nat : ~ \E f : Climb(t, x, n, f)}
<1> SUFFICES ASSUME T # {} PROVE FALSE
  OBVIOUS
<1>1. PICK m \in T : \A n \in T : m <= n
  <2> HIDE DEF T
  <2> QED BY LeastNatural DEF T
<1>2. CASE m = 0
  <2>1. Climb(t, x, 0, [i \in 0 .. 0 |-> {x} \cap DOMAIN t])
    BY DEF Climb
  <2> QED BY <1>1, <1>2, <2>1
<1>3. CASE m # 0
  <2>1. m \in Nat /\ m - 1 \in Nat /\ m - 1 \notin T
    BY <1>1, <1>3
  <2>2. PICK g : Climb(t, x, m - 1, g)
    BY <2>1
  <2> DEFINE f == [i \in 0 .. m |-> IF i = m THEN OneUp(t, g[m - 1]) ELSE g[i]]
  <2>3. ASSUME NEW i \in 0 .. m
        PROVE  f[i] = IF i = 0 THEN {x} \cap DOMAIN t ELSE OneUp(t, f[i - 1])
    <3>1. CASE i = m
      <4>1. f[i - 1] = g[m - 1] /\ f[i] = OneUp(t, g[m - 1])
        BY <2>1, <3>1
      <4> QED BY <4>1, <1>3, <3>1
    <3>2. CASE i # m
      <4>1. i \in 0 .. m - 1 /\ f[i] = g[i]
        BY <2>1, <3>2
      <4>2. i # 0 => i - 1 \in 0 .. m - 1 /\ f[i - 1] = g[i - 1]
        BY <2>1, <4>1
      <4>3. g[i] = IF i = 0 THEN {x} \cap DOMAIN t ELSE OneUp(t, g[i - 1])
        BY <2>2, <4>1 DEF Climb
      <4> QED BY <4>1, <4>2, <4>3
    <3> QED BY <3>1, <3>2
  <2>4. DOMAIN f = 0 .. m
    OBVIOUS
  <2>5. f = [i \in 0 .. m |-> f[i]]
    OBVIOUS
  <2> HIDE DEF f
  <2>6. Climb(t, x, m, f)
    BY <2>3, <2>4, <2>5 DEF Climb
  <2> QED BY <1>1, <2>6
<1> QED BY <1>2, <1>3

\* PathToRoot is the last set of the climb.
LEMMA PathIsClimb ==
  ASSUME NEW t, NEW x, Cardinality(DOMAIN t) \in Nat
  PROVE  \E f : Climb(t, x, Cardinality(DOMAIN t), f) /\ PathToRoot(t, x) = f[Cardinality(DOMAIN t)]
<1> DEFINE N == Cardinality(DOMAIN t)
           up == CHOOSE f : Climb(t, x, N, f)
<1>1. Climb(t, x, N, up)
  BY ClimbExists
<1>2. PathToRoot(t, x) = up[N]
  BY DEF PathToRoot, Climb, OneUp
<1> QED BY <1>1, <1>2

-----------------------------------------------------------------------------
\* In a finite tree the climb has come to a stand by then: a set that is not
\* closed under the parent grows, and there are not that many members.
LEMMA ClimbFacts ==
  ASSUME NEW t, NEW x \in DOMAIN t, IsFiniteSet(DOMAIN t), Closed(t),
         NEW f, Climb(t, x, Cardinality(DOMAIN t), f)
  PROVE  LET N == Cardinality(DOMAIN t)
         IN  /\ \A n \in 0 .. N : x \in f[n] /\ f[n] \subseteq DOMAIN t
             /\ OneUp(t, f[N]) = f[N]
<1> DEFINE N == Cardinality(DOMAIN t)
<1>1. N \in Nat
  BY FS_CardinalityType
<1>2. /\ f[0] = {x}
      /\ \A n \in 1 .. N : f[n] = OneUp(t, f[n - 1])
  BY <1>1 DEF Climb
<1>3. ASSUME NEW S, S \subseteq DOMAIN t
      PROVE  OneUp(t, S) \subseteq DOMAIN t
  BY <1>3 DEF OneUp, Closed
<1> DEFINE Bad == {n \in 0 .. N : ~(x \in f[n] /\ f[n] \subseteq DOMAIN t)}
<1>4. Bad = {}
  <2> SUFFICES ASSUME Bad # {} PROVE FALSE
    OBVIOUS
  <2>1. PICK m \in Bad : \A n \in Bad : m <= n
    <3>1. Bad \subseteq Nat
      BY <1>1
    <3> HIDE DEF Bad
    <3> QED BY <3>1, LeastNatural
  <2>2. m # 0
    BY <1>2, <2>1
  <2>3. m - 1 \in 0 .. N /\ m - 1 \notin Bad
    BY <1>1, <2>1, <2>2
  <2>4. x \in f[m - 1] /\ f[m - 1] \subseteq DOMAIN t
    BY <2>3
  <2>5. f[m] = OneUp(t, f[m - 1])
    BY <1>1, <1>2, <2>1, <2>2
  <2> QED BY <1>3, <2>1, <2>4, <2>5 DEF OneUp
<1>5. \A n \in 0 .. N : x \in f[n] /\ f[n] \subseteq DOMAIN t
  BY <1>4
<1> DEFINE Grown(n) == Cardinality(f[n]) >= n + 1 \/ OneUp(t, f[n]) = f[n]
           Stuck == {n \in 0 .. N : ~Grown(n)}
<1>6. \A n \in 0 .. N : IsFiniteSet(f[n]) /\ Cardinality(f[n]) \in Nat /\ Cardinality(f[n]) <= N
  <2> SUFFICES ASSUME NEW n \in 0 .. N
               PROVE  IsFiniteSet(f[n]) /\ Cardinality(f[n]) \in Nat /\ Cardinality(f[n]) <= N
    OBVIOUS
  <2>1. f[n] \in SUBSET DOMAIN t
    BY <1>5
  <2>2. IsFiniteSet(f[n]) /\ Cardinality(f[n]) <= N
    BY <2>1, FS_Subset
  <2> QED BY <2>2, FS_CardinalityType
<1>7. Stuck = {}
  <2> SUFFICES ASSUME Stuck # {} PROVE FALSE
    OBVIOUS
  <2>1. PICK m \in Stuck : \A n \in Stuck : m <= n
    <3>1. Stuck \subseteq Nat
      BY <1>1
    <3> HIDE DEF Stuck
    <3> QED BY <3>1, LeastNatural
  <2>2. m # 0
    <3>1. Cardinality({x}) = 1
      BY FS_Singleton
    <3>2. ASSUME m = 0 PROVE Grown(m)
      <4>1. f[m] = {x}
        BY <1>2, <3>2
      <4>2. Cardinality(f[m]) = 1
        BY <3>1, <4>1
      <4> QED BY <3>2, <4>2
    <3> QED BY <2>1, <3>2
  <2>3. m \in 1 .. N /\ m - 1 \in 0 .. N /\ m - 1 \notin Stuck
    BY <1>1, <2>1, <2>2
  <2>4. f[m] = OneUp(t, f[m - 1])
    BY <1>2, <2>3
  <2>5. OneUp(t, f[m - 1]) # f[m - 1]
    BY <2>1, <2>4
  <2>6. Cardinality(f[m - 1]) >= m
    BY <1>1, <2>3, <2>5
  <2>7. f[m - 1] \subseteq f[m] /\ f[m - 1] # f[m]
    BY <2>4, <2>5 DEF OneUp
  <2>8. Cardinality(f[m - 1]) <= Cardinality(f[m]) /\ Cardinality(f[m - 1]) # Cardinality(f[m])
    <3>1. IsFiniteSet(f[m])
      BY <1>6, <2>1
    <3> QED BY <2>7, <3>1, FS_Subset
  <2>9. Cardinality(f[m]) \in Nat /\ Cardinality(f[m - 1]) \in Nat
    BY <1>6, <2>1, <2>3
  <2>10. Cardinality(f[m]) >= m + 1
    BY <2>3, <2>6, <2>8, <2>9
  <2> QED BY <2>1, <2>10
<1>8. OneUp(t, f[N]) = f[N]
  <2>1. N \in 0 .. N
    BY <1>1
  <2>2. Grown(N)
    BY <1>7, <2>1
  <2> QED BY <1>1, <1>6, <2>1, <2>2
<1> QED BY <1>5, <1>8

\* The path to the root holds the member and is closed under the parent ...
LEMMA PathIsClosed ==
  ASSUME NEW t, NEW x \in DOMAIN t, IsFiniteSet(DOMAIN t), Closed(t)
  PROVE  /\ x \in PathToRoot(t, x) /\ PathToRoot(t, x) \subseteq DOMAIN t
         /\ \A y \in PathToRoot(t, x) : t[y] # NoParent => t[y] \in PathToRoot(t, x)
<1> DEFINE N == Cardinality(DOMAIN t)
<1>1. N \in Nat
  BY FS_CardinalityType
<1>2. PICK f : Climb(t, x, N, f) /\ PathToRoot(t, x) = f[N]
  BY <1>1, PathIsClimb
<1>3. x \in f[N] /\ f[N] \subseteq DOMAIN t /\ OneUp(t, f[N]) = f[N]
  BY <1>1, <1>2, ClimbFacts
<1> QED BY <1>2, <1>3 DEF OneUp

\* ... and is part of every set that does and is.
LEMMA PathIsLeast ==
  ASSUME NEW t, NEW x \in DOMAIN t, IsFiniteSet(DOMAIN t),
         NEW S \in SUBSET DOMAIN t, x \in S, \A y \in S : t[y] # NoParent => t[y] \in S
  PROVE  PathToRoot(t, x) \subseteq S
<1> DEFINE N == Cardinality(DOMAIN t)
<1>1. N \in Nat
  BY FS_CardinalityType
<1>2. PICK f : Climb(t, x, N, f) /\ PathToRoot(t, x) = f[N]
  BY <1>1, PathIsClimb
<1>3. /\ f[0] = {x}
      /\ \A n \in 1 .. N : f[n] = OneUp(t, f[n - 1])
  <2> HIDE DEF N
  <2>1. f = [i \in 0 .. N |-> IF i = 0 THEN {x} \cap DOMAIN t ELSE OneUp(t, f[i - 1])]
    BY <1>2 DEF Climb
  <2>2. f[0] = {x}
    BY <1>1, <2>1
  <2>3. ASSUME NEW n \in 1 .. N PROVE f[n] = OneUp(t, f[n - 1])
    <3>1. n \in 0 .. N /\ n # 0
      BY <1>1
    <3> QED BY <2>1, <3>1
  <2> QED BY <2>2, <2>3
<1> DEFINE Bad == {n \in 0 .. N : ~(f[n] \subseteq S)}
<1>4. Bad = {}
  <2> SUFFICES ASSUME Bad # {} PROVE FALSE
    OBVIOUS
  <2>1. PICK m \in Bad : \A n \in Bad : m <= n
    <3>1. Bad \subseteq Nat
      BY <1>1
    <3> HIDE DEF Bad
    <3> QED BY <3>1, LeastNatural
  <2>2. m # 0
    BY <1>3, <2>1
  <2>3. m \in 1 .. N /\ m - 1 \in 0 .. N /\ f[m - 1] \subseteq S
    BY <1>1, <2>1, <2>2
  <2>4. f[m] = OneUp(t, f[m - 1])
    BY <1>3, <2>3
  <2> QED BY <2>1, <2>3, <2>4 DEF OneUp
<1> QED BY <1>1, <1>2, <1>4

\* The path of any name, a member or not, runs through members.
LEMMA PathStaysInside ==
  ASSUME NEW t, IsFiniteSet(DOMAIN t), Closed(t), NEW x
  PROVE  PathToRoot(t, x) \subseteq DOMAIN t
<1> DEFINE N == Cardinality(DOMAIN t)
<1>1. N \in Nat
  BY FS_CardinalityType
<1>2. PICK f : Climb(t, x, N, f) /\ PathToRoot(t, x) = f[N]
  BY <1>1, PathIsClimb
<1> HIDE DEF N
<1> DEFINE Bad == {n \in 0 .. N : ~(f[n] \subseteq DOMAIN t)}
<1>3. Bad = {}
  <2> SUFFICES ASSUME Bad # {} PROVE FALSE
    OBVIOUS
  <2>1. PICK m \in Bad : \A n \in Bad : m <= n
    <3>1. Bad \subseteq Nat
      BY <1>1
    <3> HIDE DEF Bad
    <3> QED BY <3>1, LeastNatural
  <2>2. m # 0
    BY <1>1, <1>2, <2>1 DEF Climb
  <2>3. m \in 1 .. N /\ m - 1 \in 0 .. N /\ f[m - 1] \subseteq DOMAIN t
    BY <1>1, <2>1, <2>2
  <2>4. f[m] = OneUp(t, f[m - 1])
    BY <1>2, <2>2, <2>3 DEF Climb
  <2> QED BY <2>1, <2>3, <2>4 DEF OneUp, Closed
<1> QED BY <1>1, <1>2, <1>3

\* The path of a member on the path is part of it ...
LEMMA PathOfMember ==
  ASSUME NEW t, IsFiniteSet(DOMAIN t), Closed(t), NEW x \in DOMAIN t, NEW y \in PathToRoot(t, x)
  PROVE  y \in DOMAIN t /\ PathToRoot(t, y) \subseteq PathToRoot(t, x)
<1> DEFINE S == PathToRoot(t, x)
<1>1. y \in DOMAIN t /\ y \in S /\ S \in SUBSET DOMAIN t /\ \A w \in S : t[w] # NoParent => t[w] \in S
  BY PathIsClosed
<1> HIDE DEF S
<1>2. PathToRoot(t, y) \subseteq S
  BY <1>1, PathIsLeast
<1> QED BY <1>1, <1>2 DEF S

\* ... and beyond the member itself it is the path of its parent.
LEMMA PathOfParent ==
  ASSUME NEW t, IsFiniteSet(DOMAIN t), Closed(t), NEW x \in DOMAIN t, NEW y \in PathToRoot(t, x), y # x
  PROVE  t[x] \in DOMAIN t /\ y \in PathToRoot(t, t[x])
<1> DEFINE p == t[x]
           S == {x} \cup (IF p = NoParent THEN {} ELSE PathToRoot(t, p))
<1>1. p # NoParent => p \in DOMAIN t
  BY DEF Closed
<1>2. CASE p = NoParent
  <2>1. x \in {x} /\ {x} \in SUBSET DOMAIN t /\ \A w \in {x} : t[w] # NoParent => t[w] \in {x}
    BY <1>2
  <2>2. PathToRoot(t, x) \subseteq {x}
    BY <2>1, PathIsLeast
  <2> QED BY <2>2
<1>3. CASE p # NoParent
  <2> HIDE DEF p
  <2>1. p \in DOMAIN t
    BY <1>1, <1>3
  <2>2. /\ p \in PathToRoot(t, p) /\ PathToRoot(t, p) \subseteq DOMAIN t
        /\ \A w \in PathToRoot(t, p) : t[w] # NoParent => t[w] \in PathToRoot(t, p)
    BY <2>1, PathIsClosed
  <2>3. S = {x} \cup PathToRoot(t, p)
    BY <1>3
  <2> HIDE DEF S
  <2>4. x \in S /\ S \in SUBSET DOMAIN t /\ \A w \in S : t[w] # NoParent => t[w] \in S
    BY <2>2, <2>3 DEF p
  <2>5. PathToRoot(t, x) \subseteq S
    BY <2>4, PathIsLeast
  <2> QED BY <2>1, <2>3, <2>5 DEF p
<1> QED BY <1>2, <1>3

\* Of two members on a path one is above the other.
LEMMA PathIsChain ==
  ASSUME NEW t, IsFiniteSet(DOMAIN t), Closed(t), NEW x \in DOMAIN t,
         NEW y \in PathToRoot(t, x), NEW z \in PathToRoot(t, x)
  PROVE  z \in PathToRoot(t, y) \/ y \in PathToRoot(t, z)
<1> DEFINE P == PathToRoot(t, x)
           S == {w \in P : z \in PathToRoot(t, w) \/ w \in PathToRoot(t, z)}
<1>1. x \in P /\ P \subseteq DOMAIN t /\ \A w \in P : t[w] # NoParent => t[w] \in P
  BY PathIsClosed
<1>2. z \in DOMAIN t /\ z \in PathToRoot(t, z)
      /\ \A w \in PathToRoot(t, z) : t[w] # NoParent => t[w] \in PathToRoot(t, z)
  BY <1>1, PathIsClosed
<1>3. ASSUME NEW w \in S, t[w] # NoParent
      PROVE  t[w] \in S
  <2>1. w \in DOMAIN t /\ t[w] \in P
    BY <1>1, <1>3
  <2>2. CASE w \in PathToRoot(t, z)
    BY <1>2, <1>3, <2>1, <2>2
  <2>3. CASE z \in PathToRoot(t, w) /\ z # w
    <3>1. z \in PathToRoot(t, t[w])
      BY <2>1, <2>3, PathOfParent
    <3> QED BY <2>1, <3>1
  <2>4. CASE z = w
    BY <1>2, <2>2, <2>4
  <2> QED BY <2>2, <2>3, <2>4
<1>4. x \in S /\ S \in SUBSET DOMAIN t /\ \A w \in S : t[w] # NoParent => t[w] \in S
  BY <1>1, <1>3
<1> HIDE DEF S
<1>5. PathToRoot(t, x) \subseteq S
  BY <1>4, PathIsLeast
<1> QED BY <1>5 DEF S

\* A path reaches a member from one of its children.
LEMMA PathEntersByChild ==
  ASSUME NEW t, IsFiniteSet(DOMAIN t), Closed(t), NEW x \in DOMAIN t, NEW y \in PathToRoot(t, x), y # x
  PROVE  \E c \in PathToRoot(t, x) : c \in Children(t, y)
<1> SUFFICES ASSUME \A c \in PathToRoot(t, x) : c \notin Children(t, y) PROVE FALSE
  OBVIOUS
<1> DEFINE S == PathToRoot(t, x) \ {y}
<1>1. /\ x \in PathToRoot(t, x) /\ PathToRoot(t, x) \subseteq DOMAIN t
      /\ \A w \in PathToRoot(t, x) : t[w] # NoParent => t[w] \in PathToRoot(t, x)
  BY PathIsClosed
<1>2. x \in S /\ S \in SUBSET DOMAIN t /\ \A w \in S : t[w] # NoParent => t[w] \in S
  BY <1>1 DEF Children
<1> HIDE DEF S
<1>3. PathToRoot(t, x) \subseteq S
  BY <1>2, PathIsLeast
<1> QED BY <1>3 DEF S

\* Of two members only one can be above the other.
LEMMA AboveOneWay ==
  ASSUME NEW t, IsFiniteSet(DOMAIN t), Closed(t), Acyclic(t), NEW x \in DOMAIN t,
         NEW y \in PathToRoot(t, x), y # x
  PROVE  x \notin PathToRoot(t, y)
<1> SUFFICES ASSUME x \in PathToRoot(t, y) PROVE FALSE
  OBVIOUS
<1> DEFINE S == PathToRoot(t, y)
<1>1. y \in DOMAIN t /\ S \in SUBSET DOMAIN t /\ x \in S
  BY PathIsClosed, PathOfMember
<1>2. ASSUME NEW z \in S
      PROVE  \E c \in S : c \in Children(t, z)
  <2>1. z \in DOMAIN t /\ z \in PathToRoot(t, y)
    BY <1>1
  <2>2. CASE z # y
    BY <1>1, <2>1, <2>2, PathEntersByChild
  <2>3. CASE z = y
    <3>1. \E c \in PathToRoot(t, x) : c \in Children(t, y)
      BY PathEntersByChild
    <3>2. PathToRoot(t, x) \subseteq S
      BY <1>1, PathOfMember
    <3> QED BY <2>3, <3>1, <3>2
  <2> QED BY <2>2, <2>3
<1>3. S # {}
  BY <1>1
<1> HIDE DEF S
<1> QED BY <1>1, <1>2, <1>3 DEF Acyclic

\* A path is the member and the path of its parent.
LEMMA PathUnfolds ==
  ASSUME NEW t, IsFiniteSet(DOMAIN t), Closed(t), Acyclic(t), NEW x \in DOMAIN t, t[x] # NoParent
  PROVE  /\ t[x] \in DOMAIN t
         /\ PathToRoot(t, x) = {x} \cup PathToRoot(t, t[x])
         /\ x \notin PathToRoot(t, t[x])
         /\ t[x] \in PathToRoot(t, x) /\ t[x] # x
<1>1. x \in PathToRoot(t, x)
  BY PathIsClosed
<1>2. t[x] \in PathToRoot(t, x) /\ t[x] \in DOMAIN t
  BY <1>1, PathIsClosed
<1>3. t[x] # x
  <2>1. x \in Children(t, x) \/ t[x] # x
    BY DEF Children
  <2>2. {x} \in SUBSET DOMAIN t /\ {x} # {}
    OBVIOUS
  <2>3. \E y \in {x} : Children(t, y) \cap {x} = {}
    BY <2>2 DEF Acyclic
  <2> QED BY <2>1, <2>3
<1>4. PathToRoot(t, t[x]) \subseteq PathToRoot(t, x)
  BY <1>2, PathOfMember
<1>5. \A y \in PathToRoot(t, x) : y # x => y \in PathToRoot(t, t[x])
  BY PathOfParent
<1>6. x \notin PathToRoot(t, t[x])
  BY <1>2, <1>3, AboveOneWay
<1> QED BY <1>1, <1>2, <1>3, <1>4, <1>5, <1>6

\* The subtrees of the children of a member are apart, and with the member
\* they make up its subtree.
LEMMA SubtreeParts ==
  ASSUME NEW t, IsFiniteSet(DOMAIN t), Closed(t), Acyclic(t), NEW a \in DOMAIN t, a # NoParent
  PROVE  /\ a \in Subtree(t, a)
         /\ \A k \in Children(t, a) : k \in DOMAIN t /\ k # a /\ t[k] = a
                                      /\ Subtree(t, k) \subseteq Subtree(t, a) \ {a}
         /\ \A x \in Subtree(t, a) \ {a} : \E k \in Children(t, a) : x \in Subtree(t, k)
         /\ \A x, k, l : k \in Children(t, a) /\ l \in Children(t, a)
                         /\ x \in Subtree(t, k) /\ x \in Subtree(t, l) => k = l
<1>1. a \in Subtree(t, a)
  BY PathIsClosed DEF Subtree
<1>2. ASSUME NEW k \in Children(t, a)
      PROVE  /\ k \in DOMAIN t /\ k # a /\ t[k] = a
             /\ a \in PathToRoot(t, k) /\ k \notin PathToRoot(t, a)
  <2>1. k \in DOMAIN t /\ t[k] = a
    BY DEF Children
  <2> QED BY <2>1, PathUnfolds
<1>3. ASSUME NEW k \in Children(t, a), NEW x \in Subtree(t, k)
      PROVE  x \in Subtree(t, a) \ {a}
  <2>1. x \in DOMAIN t /\ k \in PathToRoot(t, x)
    BY DEF Subtree
  <2>2. PathToRoot(t, k) \subseteq PathToRoot(t, x)
    BY <2>1, PathOfMember
  <2> QED BY <1>2, <2>1, <2>2 DEF Subtree
<1>4. ASSUME NEW x \in Subtree(t, a) \ {a}
      PROVE  \E k \in Children(t, a) : x \in Subtree(t, k)
  <2>1. x \in DOMAIN t /\ a \in PathToRoot(t, x) /\ x # a
    BY DEF Subtree
  <2>2. \E k \in PathToRoot(t, x) : k \in Children(t, a)
    BY <2>1, PathEntersByChild
  <2> QED BY <2>1, <2>2 DEF Subtree
<1>5. ASSUME NEW x, NEW k \in Children(t, a), NEW l \in PathToRoot(t, k), l \in Children(t, a)
      PROVE  k = l
  <2>1. k \in DOMAIN t /\ t[k] = a /\ l \notin PathToRoot(t, a)
    BY <1>2, <1>5
  <2>2. l # k => l \in PathToRoot(t, t[k])
    BY <2>1, PathOfParent
  <2> QED BY <2>1, <2>2
<1>6. ASSUME NEW x, NEW k \in Children(t, a), NEW l \in Children(t, a),
             x \in Subtree(t, k), x \in Subtree(t, l)
      PROVE  k = l
  <2>1. x \in DOMAIN t /\ k \in PathToRoot(t, x) /\ l \in PathToRoot(t, x)
    BY <1>6 DEF Subtree
  <2>2. l \in PathToRoot(t, k) \/ k \in PathToRoot(t, l)
    BY <2>1, PathIsChain
  <2> QED BY <2>2, <1>5
<1> QED BY <1>1, <1>2, <1>3, <1>4, <1>6

\* A leaf is alone in its subtree.
LEMMA LeafAlone ==
  ASSUME NEW t, IsFiniteSet(DOMAIN t), Closed(t), NEW a, IsLeaf(t, a)
  PROVE  Subtree(t, a) = {a}
<1>1. a \in DOMAIN t /\ Children(t, a) = {}
  BY DEF IsLeaf, Has
<1>2. a \in Subtree(t, a)
  BY <1>1, PathIsClosed DEF Subtree
<1>3. ASSUME NEW x \in Subtree(t, a), x # a
      PROVE  FALSE
  <2>1. x \in DOMAIN t /\ a \in PathToRoot(t, x)
    BY DEF Subtree
  <2> QED BY <1>1, <1>3, <2>1, PathEntersByChild
<1> QED BY <1>2, <1>3

\* A stranger has no subtree and, unless it is the name of none, no children.
LEMMA StrangerAlone ==
  ASSUME NEW t, IsFiniteSet(DOMAIN t), Closed(t), NEW a, a \notin DOMAIN t
  PROVE  Subtree(t, a) = {} /\ (a # NoParent => Children(t, a) = {})
<1>1. ASSUME NEW x \in Subtree(t, a)
      PROVE  FALSE
  BY PathIsClosed DEF Subtree
<1> QED BY <1>1 DEF Children, Closed

(* The first common ancestor of two members is above both, and nothing     *)
(* above both is below it; only members of different trees have none.      *)
THEOREM FirstCommonAncestor ==
  ASSUME NEW t, IsFiniteSet(DOMAIN t), Closed(t), Acyclic(t), NEW a \in DOMAIN t, NEW b \in DOMAIN t
  PROVE  LET common == PathToRoot(t, a) \cap PathToRoot(t, b)
         IN  IF common = {} THEN FCA(t, a, b) = NoParent
             ELSE FCA(t, a, b) \in common /\ common \subseteq PathToRoot(t, FCA(t, a, b))
<1> DEFINE common == PathToRoot(t, a) \cap PathToRoot(t, b)
<1>1. a \in PathToRoot(t, a) /\ b \in PathToRoot(t, b) /\ common \in SUBSET DOMAIN t
  BY PathIsClosed
<1>2. CASE a = b
  BY <1>1, <1>2 DEF FCA
<1>3. CASE a # b /\ common = {}
  BY <1>3 DEF FCA
<1>4. CASE a # b /\ common # {}
  <2>1. PICK x \in common : Children(t, x) \cap common = {}
    BY <1>1, <1>4 DEF Acyclic
  <2>2. ASSUME NEW z \in common, z \notin PathToRoot(t, x)
        PROVE  FALSE
    <3>1. z \in DOMAIN t /\ z \in PathToRoot(t, a) /\ x \in PathToRoot(t, a) /\ z \in PathToRoot(t, b)
      BY <1>1
    <3>2. x \in PathToRoot(t, z)
      BY <2>2, <3>1, PathIsChain
    <3>3. x # z
      BY <2>2, <3>1, PathIsClosed
    <3>4. PICK c \in PathToRoot(t, z) : c \in Children(t, x)
      BY <3>1, <3>2, <3>3, PathEntersByChild
    <3>5. c \in common
      BY <3>1, <3>4, PathOfMember
    <3> QED BY <2>1, <3>4, <3>5
  <2>3. \E y \in common : common \subseteq PathToRoot(t, y)
    BY <2>2
  <2>4. FCA(t, a, b) = CHOOSE y \in common : common \subseteq PathToRoot(t, y)
    BY <1>4 DEF FCA
  <2>5. FCA(t, a, b) \in common /\ common \subseteq PathToRoot(t, FCA(t, a, b))
    <3> HIDE DEF common
    <3> QED BY <2>3, <2>4
  <2> QED BY <1>4, <2>5
<1> QED BY <1>2, <1>3, <1>4

-----------------------------------------------------------------------------
(* Edits keep a tree free of cycles.                                       *)

\* A new member is hung somewhere, with no children.
LEMMA AdditionIsAcyclic ==
  ASSUME NEW t, Closed(t), Acyclic(t), NEW x, x \notin DOMAIN t, x # NoParent,
         NEW p, p # x, NEW n, n = [y \in DOMAIN t \cup {x} |-> IF y = x THEN p ELSE t[y]]
  PROVE  Acyclic(n)
<1> SUFFICES ASSUME NEW S \in SUBSET DOMAIN n, S # {}
             PROVE  \E y \in S : Children(n, y) \cap S = {}
  BY DEF Acyclic
<1>1. CASE x \in S
  <2>1. \A c \in DOMAIN n : n[c] # x
    BY DEF Closed
  <2> QED BY <1>1, <2>1 DEF Children
<1>2. CASE x \notin S
  <2>1. S \in SUBSET DOMAIN t
    BY <1>2
  <2>2. PICK y \in S : Children(t, y) \cap S = {}
    BY <2>1 DEF Acyclic
  <2>3. Children(n, y) \cap S = {}
    BY <1>2, <2>2 DEF Children
  <2> QED BY <2>3
<1> QED BY <1>1, <1>2

\* MoveMember refuses a parent that is below the member it moves.
LEMMA MoveIsAcyclic ==
  ASSUME NEW t, IsFiniteSet(DOMAIN t), Closed(t), Acyclic(t), NoParent \notin DOMAIN t,
         NEW x \in DOMAIN t, NEW p, p = NoParent \/ (p \in DOMAIN t /\ x \notin PathToRoot(t, p)),
         NEW n, n = [t EXCEPT ![x] = p]
  PROVE  Acyclic(n)
<1> SUFFICES ASSUME NEW S \in SUBSET DOMAIN t, S # {}
             PROVE  \E y \in S : Children(n, y) \cap S = {}
  BY DEF Acyclic
<1> DEFINE D == Subtree(t, x)
<1>1. x \in D /\ D \subseteq DOMAIN t /\ p \notin D
  BY PathIsClosed DEF Subtree
<1>2. ASSUME NEW c \in DOMAIN t, t[c] \in D
      PROVE  c \in D
  <2>1. t[c] # NoParent /\ t[c] \in DOMAIN t /\ x \in PathToRoot(t, t[c])
    BY <1>2 DEF Subtree
  <2>2. t[c] \in PathToRoot(t, c)
    BY <2>1, PathIsClosed
  <2>3. x \in PathToRoot(t, c)
    BY <2>1, <2>2, PathOfMember
  <2> QED BY <2>3 DEF Subtree
<1>3. \A y : Children(n, y) \subseteq Children(t, y) \cup (IF y = p THEN {x} ELSE {})
  BY DEF Children
<1> HIDE DEF D
<1>4. CASE S \cap D # {}
  <2>1. PICK y \in S \cap D : Children(t, y) \cap (S \cap D) = {}
    <3>1. S \cap D \in SUBSET DOMAIN t
      OBVIOUS
    <3> QED BY <1>4, <3>1 DEF Acyclic
  <2>2. Children(t, y) \subseteq D /\ y # p
    BY <1>1, <1>2 DEF Children
  <2> QED BY <1>3, <2>1, <2>2
<1>5. CASE S \cap D = {}
  <2>1. PICK y \in S : Children(t, y) \cap S = {}
    BY DEF Acyclic
  <2> QED BY <1>1, <1>3, <1>5, <2>1
<1> QED BY <1>4, <1>5

\* A part of the members has no cycle either.
LEMMA RemovalIsAcyclic ==
  ASSUME NEW t, Acyclic(t), NEW S \in SUBSET DOMAIN t, NEW n, n = [y \in S |-> t[y]]
  PROVE  Acyclic(n)
<1> SUFFICES ASSUME NEW R \in SUBSET S, R # {}
             PROVE  \E y \in R : Children(n, y) \cap R = {}
  BY DEF Acyclic
<1>1. PICK y \in R : Children(t, y) \cap R = {}
  <2>1. R \in SUBSET DOMAIN t
    OBVIOUS
  <2> QED BY <2>1 DEF Acyclic
<1> QED BY <1>1 DEF Children

(* What a recursive removal takes is a whole subtree: the parent of a      *)
(* member it leaves is none or stays.                                      *)
THEOREM RemovalLeavesATree ==
  ASSUME NEW t, IsFiniteSet(DOMAIN t), Closed(t), NEW x, NEW y \in DOMAIN t \ Subtree(t, x)
  PROVE  t[y] = NoParent \/ t[y] \in DOMAIN t \ Subtree(t, x)
<1> SUFFICES ASSUME t[y] # NoParent, t[y] \in Subtree(t, x) PROVE FALSE
  BY DEF Closed
<1>1. t[y] \in DOMAIN t /\ x \in PathToRoot(t, t[y])
  BY DEF Subtree
<1>2. /\ y \in PathToRoot(t, y) /\ PathToRoot(t, y) \in SUBSET DOMAIN t
      /\ \A z \in PathToRoot(t, y) : t[z] # NoParent => t[z] \in PathToRoot(t, y)
  BY PathIsClosed
<1>3. PathToRoot(t, t[y]) \subseteq PathToRoot(t, y)
  <2>1. t[y] \in PathToRoot(t, y)
    BY <1>2
  <2> DEFINE z == t[y]
             S == PathToRoot(t, y)
  <2>2. z \in DOMAIN t /\ z \in S /\ S \in SUBSET DOMAIN t /\ \A w \in S : t[w] # NoParent => t[w] \in S
    BY <1>1, <1>2, <2>1
  <2> HIDE DEF z, S
  <2>3. PathToRoot(t, z) \subseteq S
    BY <2>2, PathIsLeast
  <2> QED BY <2>3 DEF z, S
<1> QED BY <1>1, <1>3 DEF Subtree

-----------------------------------------------------------------------------
(* Sums and products over finite sets, as the community modules fold them. *)

\* The element a sum or a product takes from a set first.
Some(s) == CHOOSE x \in s : TRUE

\* A sum, a product or a share in hundredths, op, of two terms, and of none.
Combine(op, a, b) == IF op = "sum" THEN a + b ELSE IF op = "share" THEN (a * b) \div 100 ELSE a * b
Neutral(op)       == IF op = "sum" THEN 0 ELSE IF op = "share" THEN 100 ELSE 1

\* g holds what op makes of the values of f over each set of D.
FoldsOf(op, g, f, D) ==
  g = [s \in D |-> IF s = {} THEN Neutral(op) ELSE Combine(op, f[Some(s)], g[s \ {Some(s)}])]

Fold(op, f, S) == (CHOOSE g : FoldsOf(op, g, f, SUBSET S))[S]

LEMMA SumIsFold == \A f, S : SumFunctionOnSet(f, S) = Fold("sum", f, S)
BY DEF SumFunctionOnSet, FoldFunctionOnSet, MapThenFoldSet, Fold, FoldsOf, Combine, Neutral, Some

LEMMA ProductIsFold ==
  \A f : FoldFunction(LAMBDA x, y : x * y, 1, f) = Fold("product", f, DOMAIN f)
BY DEF FoldFunction, FoldFunctionOnSet, MapThenFoldSet, Fold, FoldsOf, Combine, Neutral, Some

LEMMA SomeIsMember == \A s : s # {} => Some(s) \in s
BY DEF Some

\* The recursion of a sum over a finite set defines a function.  So does that
\* of a product.
LEMMA FoldsExist ==
  ASSUME NEW S, IsFiniteSet(S), NEW f, NEW op
  PROVE  \E g : FoldsOf(op, g, f, SUBSET S)
<1> DEFINE Low(n) == {s \in SUBSET S : Cardinality(s) <= n}
           N == Cardinality(S)
           T == {n \in Nat : n <= N /\ \E g : FoldsOf(op, g, f, Low(N - n))}
<1>1. N \in Nat /\ \A s \in SUBSET S : IsFiniteSet(s) /\ Cardinality(s) \in Nat /\ Cardinality(s) <= N
  BY FS_CardinalityType, FS_Subset
<1>2. \A s \in SUBSET S : s = {} <=> Cardinality(s) = 0
  BY <1>1, FS_EmptySet
<1>3. T # {}
  <2> DEFINE g == [s \in Low(0) |-> Neutral(op)]
  <2>1. \A s \in Low(0) : s = {}
    BY <1>1, <1>2
  <2>2. FoldsOf(op, g, f, Low(0))
    BY <2>1 DEF FoldsOf
  <2> HIDE DEF g
  <2>3. N \in T
    <3>1. N - N = 0
      BY <1>1
    <3> HIDE DEF Low
    <3> QED BY <1>1, <2>2, <3>1
  <2> QED BY <2>3
<1>4. PICK n \in T : \A k \in T : n <= k
  <2>1. T \subseteq Nat
    OBVIOUS
  <2> HIDE DEF T
  <2> QED BY <1>3, <2>1, LeastNatural
<1>5. PICK g : FoldsOf(op, g, f, Low(N - n))
  BY <1>4
<1>6. CASE n = 0
  <2>1. Low(N - 0) = SUBSET S
    BY <1>1
  <2> HIDE DEF Low
  <2> QED BY <1>5, <1>6, <2>1
<1>7. CASE n # 0
  <2> DEFINE m == N - n
             h == [s \in Low(m + 1) |-> IF s = {} THEN Neutral(op) ELSE Combine(op, f[Some(s)], g[s \ {Some(s)}])]
  <2>1. m \in Nat /\ n - 1 \in Nat /\ N - (n - 1) = m + 1 /\ n - 1 <= N
    BY <1>1, <1>4, <1>7
  <2>2. ASSUME NEW s \in Low(m + 1), s # {}
        PROVE  g[s \ {Some(s)}] = h[s \ {Some(s)}]
    <3> DEFINE r == s \ {Some(s)}
    <3>1. r \in SUBSET S /\ Cardinality(r) = Cardinality(s) - 1
      <4>1. Some(s) \in s /\ IsFiniteSet(s)
        BY <1>1, <2>2, SomeIsMember
      <4> QED BY <4>1, FS_RemoveElement
    <3>2. r \in Low(m) /\ r \in Low(m + 1)
      BY <1>1, <2>1, <3>1
    <3> HIDE DEF Low, r
    <3>3. g[r] = IF r = {} THEN Neutral(op) ELSE Combine(op, f[Some(r)], g[r \ {Some(r)}])
      BY <1>5, <3>2 DEF FoldsOf
    <3> QED BY <3>2, <3>3 DEF r
  <2>3. FoldsOf(op, h, f, Low(m + 1))
    <3> HIDE DEF Low
    <3> QED BY <2>2 DEF FoldsOf
  <2> HIDE DEF h, Low
  <2>4. n - 1 \in T
    BY <2>1, <2>3
  <2> QED BY <1>4, <2>1, <2>4
<1> QED BY <1>6, <1>7

\* Sums of functions that agree are the same.
LEMMA FoldsAgree ==
  ASSUME NEW S, IsFiniteSet(S), NEW f, NEW h, \A x \in S : f[x] = h[x]
  PROVE  \A D, E : S \subseteq D /\ S \subseteq E
           => \A op, p, q : FoldsOf(op, p, f, SUBSET D) /\ FoldsOf(op, q, h, SUBSET E) => p[S] = q[S]
<1> SUFFICES ASSUME NEW op, NEW D, NEW E, S \subseteq D, S \subseteq E,
                    NEW p, NEW q, FoldsOf(op, p, f, SUBSET D), FoldsOf(op, q, h, SUBSET E), p[S] # q[S]
             PROVE  FALSE
  OBVIOUS
<1> DEFINE Bad(s) == s \in SUBSET S /\ p[s] # q[s]
           T == {Cardinality(s) : s \in {x \in SUBSET S : Bad(x)}}
<1>1. \A s \in SUBSET S : IsFiniteSet(s) /\ Cardinality(s) \in Nat
  BY FS_CardinalityType, FS_Subset
<1>2. PICK n \in T : \A k \in T : n <= k
  <2>1. T \subseteq Nat /\ T # {}
    BY <1>1
  <2> HIDE DEF T
  <2> QED BY <2>1, LeastNatural
<1>3. PICK s \in SUBSET S : Bad(s) /\ Cardinality(s) = n
  OBVIOUS
<1> DEFINE r == s \ {Some(s)}
<1>4. /\ p[s] = IF s = {} THEN Neutral(op) ELSE Combine(op, f[Some(s)], p[r])
      /\ q[s] = IF s = {} THEN Neutral(op) ELSE Combine(op, h[Some(s)], q[r])
  BY DEF FoldsOf
<1>5. s # {} /\ Some(s) \in s
  BY <1>3, <1>4, SomeIsMember
<1>6. p[r] # q[r]
  BY <1>3, <1>4, <1>5
<1>7. Cardinality(r) = n - 1 /\ Cardinality(r) \in Nat /\ n \in Int
  <2>1. IsFiniteSet(s) /\ r \in SUBSET S
    BY <1>1
  <2> QED BY <1>1, <1>3, <1>5, <2>1, FS_RemoveElement
<1>8. n - 1 \in T
  BY <1>6, <1>7
<1> QED BY <1>2, <1>7, <1>8

LEMMA FoldsUnique ==
  ASSUME NEW S, IsFiniteSet(S), NEW f
  PROVE  \A op, p, q : FoldsOf(op, p, f, SUBSET S) /\ FoldsOf(op, q, f, SUBSET S) => p[S] = q[S]
<1>1. \A h : (\A x \in S : f[x] = h[x]) => \A D, E : S \subseteq D /\ S \subseteq E
        => \A op, p, q : FoldsOf(op, p, f, SUBSET D) /\ FoldsOf(op, q, h, SUBSET E) => p[S] = q[S]
  BY FoldsAgree
<1>2. \A D, E : S \subseteq D /\ S \subseteq E
        => \A op, p, q : FoldsOf(op, p, f, SUBSET D) /\ FoldsOf(op, q, f, SUBSET E) => p[S] = q[S]
  BY <1>1
<1> QED BY <1>2

\* So both are what the recursion says.
LEMMA FoldUnfolds ==
  ASSUME NEW S, IsFiniteSet(S), NEW f, NEW op
  PROVE  Fold(op, f, S)
           = IF S = {} THEN Neutral(op) ELSE Combine(op, f[Some(S)], Fold(op, f, S \ {Some(S)}))
<1> DEFINE sums(D) == CHOOSE g : FoldsOf(op, g, f, SUBSET D)
<1>1. \A D : Fold(op, f, D) = sums(D)[D]
  BY DEF Fold
<1>2. FoldsOf(op, sums(S), f, SUBSET S)
  BY FoldsExist
<1>3. CASE S = {}
  <2> HIDE DEF sums
  <2> QED BY <1>1, <1>2, <1>3 DEF FoldsOf
<1>4. CASE S # {}
  <2> DEFINE R == S \ {Some(S)}
  <2>1. FoldsOf(op, sums(R), f, SUBSET R)
    <3>1. IsFiniteSet(R)
      BY FS_Subset
    <3> HIDE DEF R
    <3> QED BY <3>1, FoldsExist
  <2>2. \A s \in SUBSET R : sums(S)[s] = sums(R)[s]
    <3> SUFFICES ASSUME NEW s \in SUBSET R PROVE sums(S)[s] = sums(R)[s]
      OBVIOUS
    <3>1. IsFiniteSet(s) /\ s \subseteq S /\ s \subseteq R
      BY FS_Subset
    <3>2. \A D, E : s \subseteq D /\ s \subseteq E
            => \A o, p, q : FoldsOf(o, p, f, SUBSET D) /\ FoldsOf(o, q, f, SUBSET E) => p[s] = q[s]
      <4>1. \A h : (\A x \in s : f[x] = h[x]) => \A D, E : s \subseteq D /\ s \subseteq E
              => \A o, p, q : FoldsOf(o, p, f, SUBSET D) /\ FoldsOf(o, q, h, SUBSET E) => p[s] = q[s]
        BY <3>1, FoldsAgree
      <4> QED BY <4>1
    <3>3. \A o, p, q : FoldsOf(o, p, f, SUBSET S) /\ FoldsOf(o, q, f, SUBSET R) => p[s] = q[s]
      <4> HIDE DEF R
      <4> QED BY <3>1, <3>2
    <3> HIDE DEF sums, R
    <3> QED BY <1>2, <2>1, <3>3
  <2>3. R \in SUBSET S /\ R \in SUBSET R
    OBVIOUS
  <2> HIDE DEF sums
  <2>4. sums(S)[S] = Combine(op, f[Some(S)], sums(S)[R])
    BY <1>2, <1>4 DEF FoldsOf
  <2>5. sums(S)[R] = sums(R)[R]
    BY <2>2
  <2>6. Fold(op, f, S) = sums(S)[S] /\ Fold(op, f, R) = sums(R)[R]
    BY <1>1
  <2> QED BY <1>4, <2>4, <2>5, <2>6
<1> QED BY <1>3, <1>4

\* Folds, so sums, over the same values are the same.
LEMMA FoldOfEqual ==
  ASSUME NEW S, IsFiniteSet(S), NEW f, NEW h, \A x \in S : f[x] = h[x], NEW op
  PROVE  Fold(op, f, S) = Fold(op, h, S)
<1> DEFINE folds(k) == CHOOSE g : FoldsOf(op, g, k, SUBSET S)
<1>1. \A k : Fold(op, k, S) = folds(k)[S]
  BY DEF Fold
<1>2. FoldsOf(op, folds(f), f, SUBSET S) /\ FoldsOf(op, folds(h), h, SUBSET S)
  BY FoldsExist
<1> HIDE DEF folds
<1>3. folds(f)[S] = folds(h)[S]
  BY <1>2, FoldsAgree
<1> QED BY <1>1, <1>3

LEMMA SumOfEqual ==
  ASSUME NEW S, IsFiniteSet(S), NEW f, NEW h, \A x \in S : f[x] = h[x]
  PROVE  SumFunctionOnSet(f, S) = SumFunctionOnSet(h, S)
BY SumIsFold, FoldOfEqual

\* Finite sums and products of integers are integers.
LEMMA FoldIsInteger ==
  ASSUME NEW S, IsFiniteSet(S), NEW f, \A x \in S : f[x] \in Int, NEW op
  PROVE  Fold(op, f, S) \in Int
<1> SUFFICES ASSUME Fold(op, f, S) \notin Int PROVE FALSE
  OBVIOUS
<1> DEFINE Bad(s) == Fold(op, f, s) \notin Int
           T == {Cardinality(s) : s \in {x \in SUBSET S : Bad(x)}}
<1>1. \A s \in SUBSET S : IsFiniteSet(s) /\ Cardinality(s) \in Nat
  BY FS_CardinalityType, FS_Subset
<1>2. PICK n \in T : \A k \in T : n <= k
  <2>1. T \subseteq Nat /\ T # {}
    BY <1>1
  <2> HIDE DEF T
  <2> QED BY <2>1, LeastNatural
<1>3. PICK s \in SUBSET S : Bad(s) /\ Cardinality(s) = n
  OBVIOUS
<1> DEFINE r == s \ {Some(s)}
<1>4. Fold(op, f, s) = IF s = {} THEN Neutral(op) ELSE Combine(op, f[Some(s)], Fold(op, f, r))
  BY <1>1, FoldUnfolds
<1>5. s # {} /\ Some(s) \in s
  BY <1>3, <1>4, SomeIsMember DEF Neutral
<1>6. Bad(r)
  <2> SUFFICES ASSUME Fold(op, f, r) \in Int PROVE FALSE
    OBVIOUS
  <2>1. Fold(op, f, s) = Combine(op, f[Some(s)], Fold(op, f, r)) /\ f[Some(s)] \in Int
    BY <1>4, <1>5
  <2>2. \A a, b \in Int : Combine(op, a, b) \in Int
    <3>1. \A a, b \in Int : a * b \in Int /\ a + b \in Int
      OBVIOUS
    <3>2. \A c \in Int : c \div 100 \in Int
      OBVIOUS
    <3> QED BY <3>1, <3>2 DEF Combine
  <2> HIDE DEF r
  <2> QED BY <1>3, <2>1, <2>2
<1>7. Cardinality(r) = n - 1 /\ Cardinality(r) \in Nat /\ n \in Int
  <2>1. IsFiniteSet(s) /\ r \in SUBSET S
    BY <1>1
  <2> QED BY <1>1, <1>3, <1>5, <2>1, FS_RemoveElement
<1>8. n - 1 \in T
  BY <1>6, <1>7
<1> QED BY <1>2, <1>7, <1>8

LEMMA SumIsInteger ==
  ASSUME NEW S, IsFiniteSet(S), NEW f, \A x \in S : f[x] \in Int
  PROVE  SumFunctionOnSet(f, S) \in Int
BY FoldIsInteger, SumIsFold

LEMMA EmptySum == \A f : SumFunctionOnSet(f, {}) = 0
BY FoldUnfolds, SumIsFold, FS_EmptySet DEF Neutral

LEMMA SumUnfolds ==
  ASSUME NEW S, IsFiniteSet(S), S # {}, NEW f
  PROVE  SumFunctionOnSet(f, S) = f[Some(S)] + SumFunctionOnSet(f, S \ {Some(S)})
BY FoldUnfolds, SumIsFold DEF Combine

\* What holds of the empty set, and of a set when it holds of the set without
\* one of its members, holds of every finite set.
LEMMA SetInduction ==
  ASSUME NEW S, IsFiniteSet(S), NEW P, {} \in P,
         \A s \in SUBSET S : (s # {} /\ \A x \in s : s \ {x} \in P) => s \in P
  PROVE  S \in P
<1> DEFINE T == {Cardinality(s) : s \in {x \in SUBSET S : x \notin P}}
<1> SUFFICES ASSUME S \notin P PROVE FALSE
  OBVIOUS
<1>1. \A s \in SUBSET S : IsFiniteSet(s) /\ Cardinality(s) \in Nat
  BY FS_CardinalityType, FS_Subset
<1>2. PICK n \in T : \A k \in T : n <= k
  <2>1. T \subseteq Nat /\ T # {}
    BY <1>1
  <2> HIDE DEF T
  <2> QED BY <2>1, LeastNatural
<1>3. PICK s \in SUBSET S : s \notin P /\ Cardinality(s) = n
  OBVIOUS
<1>4. PICK x \in s : s \ {x} \notin P
  BY <1>3
<1>5. Cardinality(s \ {x}) = n - 1 /\ Cardinality(s \ {x}) \in Nat /\ n \in Int
  <2>1. IsFiniteSet(s) /\ s \ {x} \in SUBSET S
    BY <1>1
  <2> QED BY <1>1, <1>3, <2>1, FS_RemoveElement
<1>6. n - 1 \in T
  BY <1>4, <1>5
<1> HIDE DEF T
<1>7. n <= n - 1
  BY <1>2, <1>6
<1> QED BY <1>5, <1>7

\* A property of sets that holds of the empty set, and can always be had of one
\* member more, is had of the whole of a finite set.
LEMMA SetGrowth ==
  ASSUME NEW D, IsFiniteSet(D), NEW G, {} \in G,
         \A S \in SUBSET D : S \in G /\ S # D => \E x \in D \ S : S \cup {x} \in G
  PROVE  D \in G
<1> DEFINE T == {Cardinality(D \ S) : S \in {X \in SUBSET D : X \in G}}
<1>1. \A S \in SUBSET D : IsFiniteSet(D \ S) /\ Cardinality(D \ S) \in Nat
  BY FS_Difference, FS_CardinalityType
<1>2. PICK n \in T : \A k \in T : n <= k
  <2>1. T \subseteq Nat /\ T # {}
    <3>1. {} \in {X \in SUBSET D : X \in G}
      OBVIOUS
    <3>2. Cardinality(D \ {}) \in T
      BY <3>1
    <3> QED BY <1>1, <3>2
  <2> HIDE DEF T
  <2> QED BY <2>1, LeastNatural
<1>3. PICK S \in SUBSET D : S \in G /\ Cardinality(D \ S) = n
  OBVIOUS
<1> SUFFICES ASSUME S # D PROVE FALSE
  BY <1>3
<1>4. PICK x \in D \ S : S \cup {x} \in G
  BY <1>3
<1>5. Cardinality(D \ (S \cup {x})) = n - 1 /\ n - 1 \in Nat /\ n \in Nat
  <2>1. D \ (S \cup {x}) = (D \ S) \ {x} /\ S \cup {x} \in SUBSET D
    BY <1>4
  <2>2. Cardinality((D \ S) \ {x}) = Cardinality(D \ S) - 1
    BY <1>1, <1>4, FS_RemoveElement
  <2> QED BY <1>1, <1>3, <2>1, <2>2
<1>6. n - 1 \in T
  BY <1>4, <1>5
<1> HIDE DEF T
<1>7. n <= n - 1
  BY <1>2, <1>6
<1> QED BY <1>5, <1>7

LEMMA CombineSwaps ==
  \A op : op # "share" =>
    \A a, b, c \in Int : Combine(op, a, Combine(op, b, c)) = Combine(op, b, Combine(op, a, c))
  BY DEF Combine

\* Any term of a sum or a product may be taken first.
LEMMA FoldTakesAny ==
  ASSUME NEW S, IsFiniteSet(S), NEW f, \A x \in S : f[x] \in Int, NEW op, op # "share"
  PROVE  \A e \in S : Fold(op, f, S) = Combine(op, f[e], Fold(op, f, S \ {e}))
<1> DEFINE F(s) == Fold(op, f, s)
           Good(s) == \A e \in s : F(s) = Combine(op, f[e], F(s \ {e}))
           P == {s \in SUBSET S : Good(s)}
<1>1. \A s \in SUBSET S : IsFiniteSet(s) /\ F(s) \in Int
  BY FS_Subset, FoldIsInteger
<1>2. ASSUME NEW s \in SUBSET S, s # {}, \A x \in s : s \ {x} \in P, NEW e \in s
      PROVE  F(s) = Combine(op, f[e], F(s \ {e}))
  <2> DEFINE y == Some(s)
             both == s \ {e, y}
  <2>1. y \in s
    BY <1>2, SomeIsMember
  <2>2. F(s) = Combine(op, f[y], F(s \ {y}))
    BY <1>1, <1>2, FoldUnfolds
  <2>3. CASE e = y
    BY <2>2, <2>3
  <2>4. CASE e # y
    <3>1. F(s \ {y}) = Combine(op, f[e], F(both))
      <4>1. (s \ {y}) \ {e} = both /\ e \in s \ {y} /\ Good(s \ {y})
        BY <1>2, <2>1, <2>4
      <4> HIDE DEF F, both, y
      <4> QED BY <4>1
    <3>2. F(s \ {e}) = Combine(op, f[y], F(both))
      <4>1. (s \ {e}) \ {y} = both /\ y \in s \ {e} /\ Good(s \ {e})
        BY <1>2, <2>1, <2>4
      <4> HIDE DEF F, both, y
      <4> QED BY <4>1
    <3>3. f[e] \in Int /\ f[y] \in Int /\ F(both) \in Int
      BY <1>1, <1>2, <2>1
    <3> HIDE DEF F, both, y
    <3> QED BY <2>2, <3>1, <3>2, <3>3, CombineSwaps
  <2> QED BY <2>3, <2>4
<1>3. {} \in P
  OBVIOUS
<1>4. \A s \in SUBSET S : (s # {} /\ \A x \in s : s \ {x} \in P) => s \in P
  BY <1>2
<1>5. S \in P
  <2> HIDE DEF P
  <2> QED BY <1>3, <1>4, SetInduction
<1> QED BY <1>5

LEMMA SumTakesAny ==
  ASSUME NEW S, IsFiniteSet(S), NEW f, \A x \in S : f[x] \in Int, NEW e \in S
  PROVE  SumFunctionOnSet(f, S) = f[e] + SumFunctionOnSet(f, S \ {e})
<1>1. Fold("sum", f, S) = Combine("sum", f[e], Fold("sum", f, S \ {e}))
  BY FoldTakesAny
<1> QED BY <1>1, SumIsFold DEF Combine

-----------------------------------------------------------------------------
(* Sums.                                                                   *)

LEMMA SumScaled ==
  ASSUME NEW S, IsFiniteSet(S), NEW f, \A x \in S : f[x] \in Int, NEW w \in Int,
         NEW g, \A x \in S : g[x] = w * f[x]
  PROVE  SumFunctionOnSet(g, S) = w * SumFunctionOnSet(f, S)
<1> DEFINE P == {s \in SUBSET S : SumFunctionOnSet(g, s) = w * SumFunctionOnSet(f, s)}
<1>1. {} \in P
  BY EmptySum
<1>2. ASSUME NEW s \in SUBSET S, s # {}, \A x \in s : s \ {x} \in P
      PROVE  s \in P
  <2>1. PICK e \in s : TRUE
    BY <1>2
  <2>2. IsFiniteSet(s) /\ IsFiniteSet(s \ {e})
    BY FS_Subset
  <2>3. f[e] \in Int /\ g[e] = w * f[e] /\ \A x \in s : f[x] \in Int /\ g[x] \in Int
    OBVIOUS
  <2>4. /\ SumFunctionOnSet(f, s) = f[e] + SumFunctionOnSet(f, s \ {e})
        /\ SumFunctionOnSet(g, s) = g[e] + SumFunctionOnSet(g, s \ {e})
    BY <2>2, <2>3, SumTakesAny
  <2>5. SumFunctionOnSet(f, s \ {e}) \in Int
    BY <2>2, <2>3, SumIsInteger
  <2>6. SumFunctionOnSet(g, s \ {e}) = w * SumFunctionOnSet(f, s \ {e})
    BY <1>2
  <2> QED BY <2>3, <2>4, <2>5, <2>6
<1>3. S \in P
  <2> HIDE DEF P
  <2> QED BY <1>1, <1>2, SetInduction
<1> QED BY <1>3

LEMMA SumOfBoth ==
  ASSUME NEW S, IsFiniteSet(S), NEW f, NEW g, \A x \in S : f[x] \in Int /\ g[x] \in Int,
         NEW h, \A x \in S : h[x] = f[x] + g[x]
  PROVE  SumFunctionOnSet(h, S) = SumFunctionOnSet(f, S) + SumFunctionOnSet(g, S)
<1> DEFINE P == {s \in SUBSET S :
                   SumFunctionOnSet(h, s) = SumFunctionOnSet(f, s) + SumFunctionOnSet(g, s)}
<1>1. {} \in P
  BY EmptySum
<1>2. ASSUME NEW s \in SUBSET S, s # {}, \A x \in s : s \ {x} \in P
      PROVE  s \in P
  <2>1. PICK e \in s : TRUE
    BY <1>2
  <2>2. IsFiniteSet(s) /\ IsFiniteSet(s \ {e})
    BY FS_Subset
  <2>3. \A x \in s : f[x] \in Int /\ g[x] \in Int /\ h[x] \in Int
    OBVIOUS
  <2>4. /\ SumFunctionOnSet(f, s) = f[e] + SumFunctionOnSet(f, s \ {e})
        /\ SumFunctionOnSet(g, s) = g[e] + SumFunctionOnSet(g, s \ {e})
        /\ SumFunctionOnSet(h, s) = h[e] + SumFunctionOnSet(h, s \ {e})
    BY <2>2, <2>3, SumTakesAny
  <2>5. SumFunctionOnSet(f, s \ {e}) \in Int /\ SumFunctionOnSet(g, s \ {e}) \in Int
    BY <2>2, <2>3, SumIsInteger
  <2>6. SumFunctionOnSet(h, s \ {e}) = SumFunctionOnSet(f, s \ {e}) + SumFunctionOnSet(g, s \ {e})
    BY <1>2
  <2> QED BY <2>3, <2>4, <2>5, <2>6
<1>3. S \in P
  <2> HIDE DEF P
  <2> QED BY <1>1, <1>2, SetInduction
<1> QED BY <1>3

\* Terms that are 0 may be left out.
LEMMA SumOfNonzero ==
  ASSUME NEW S, IsFiniteSet(S), NEW f, \A x \in S : f[x] \in Int,
         NEW R \in SUBSET S, \A x \in S \ R : f[x] = 0
  PROVE  SumFunctionOnSet(f, S) = SumFunctionOnSet(f, R)
<1> DEFINE P == {s \in SUBSET S : SumFunctionOnSet(f, s) = SumFunctionOnSet(f, s \cap R)}
<1>1. {} \in P
  <2>1. {} \cap R = {}
    OBVIOUS
  <2> QED BY <2>1
<1>2. ASSUME NEW s \in SUBSET S, s # {}, \A x \in s : s \ {x} \in P
      PROVE  s \in P
  <2>1. PICK e \in s : TRUE
    BY <1>2
  <2>2. IsFiniteSet(s) /\ IsFiniteSet(s \cap R) /\ IsFiniteSet((s \cap R) \ {e})
    BY FS_Subset
  <2>3. f[e] \in Int /\ \A x \in s : f[x] \in Int
    OBVIOUS
  <2>4. SumFunctionOnSet(f, s) = f[e] + SumFunctionOnSet(f, s \ {e})
    BY <2>2, <2>3, SumTakesAny
  <2>5. SumFunctionOnSet(f, s \ {e}) = SumFunctionOnSet(f, (s \ {e}) \cap R)
    BY <1>2
  <2>6. CASE e \in R
    <3>1. (s \ {e}) \cap R = (s \cap R) \ {e} /\ e \in s \cap R /\ \A x \in s \cap R : f[x] \in Int
      BY <2>3, <2>6
    <3>2. SumFunctionOnSet(f, s \cap R) = f[e] + SumFunctionOnSet(f, (s \cap R) \ {e})
      BY <2>2, <3>1, SumTakesAny
    <3>3. SumFunctionOnSet(f, s \ {e}) = SumFunctionOnSet(f, (s \cap R) \ {e})
      BY <2>5, <3>1
    <3>4. SumFunctionOnSet(f, s) = SumFunctionOnSet(f, s \cap R)
      BY <2>4, <3>2, <3>3
    <3> QED BY <3>4
  <2>7. CASE e \notin R
    <3>1. (s \ {e}) \cap R = s \cap R /\ f[e] = 0 /\ \A x \in s \cap R : f[x] \in Int
      BY <2>3, <2>7
    <3>2. SumFunctionOnSet(f, s \cap R) \in Int
      BY <2>2, <3>1, SumIsInteger
    <3>3. SumFunctionOnSet(f, s \ {e}) = SumFunctionOnSet(f, s \cap R)
      BY <2>5, <3>1
    <3>4. SumFunctionOnSet(f, s) = SumFunctionOnSet(f, s \cap R)
      BY <2>4, <3>1, <3>2, <3>3
    <3> QED BY <3>4
  <2> QED BY <2>6, <2>7
<1>3. S \in P
  <2> HIDE DEF P
  <2> QED BY <1>1, <1>2, SetInduction
<1>4. S \cap R = R
  OBVIOUS
<1> QED BY <1>3, <1>4

\* h gives each of S another name, all of them in R.
Renames(h, S, R) == R = {h[x] : x \in S} /\ \A x, y \in S : h[x] = h[y] => x = y

\* The terms of a sum may be counted by other names.
LEMMA SumReindexed ==
  ASSUME NEW S, IsFiniteSet(S), NEW h, NEW R, Renames(h, S, R),
         NEW f, NEW g, \A x \in S : f[x] \in Int /\ g[h[x]] = f[x]
  PROVE  SumFunctionOnSet(g, R) = SumFunctionOnSet(f, S)
<1>0. R = {h[x] : x \in S} /\ \A x, y \in S : h[x] = h[y] => x = y
  BY DEF Renames
<1> DEFINE image(s) == {h[x] : x \in s}
           P == {s \in SUBSET S : SumFunctionOnSet(g, image(s)) = SumFunctionOnSet(f, s)}
<1>1. {} \in P
  <2>1. image({}) = {}
    OBVIOUS
  <2> QED BY <2>1, EmptySum
<1>2. ASSUME NEW s \in SUBSET S, s # {}, \A x \in s : s \ {x} \in P
      PROVE  s \in P
  <2>1. PICK e \in s : TRUE
    BY <1>2
  <2>2. IsFiniteSet(s) /\ IsFiniteSet(image(s))
    <3> DEFINE k == [x \in s |-> h[x]]
    <3>1. IsFiniteSet(s) /\ DOMAIN k = s /\ \A x \in s : k[x] = h[x]
      BY FS_Subset
    <3>2. image(s) = {k[x] : x \in s}
      BY <3>1
    <3> HIDE DEF k, image
    <3> QED BY <3>1, <3>2, ImageIsFinite
  <2>3. f[e] \in Int /\ g[h[e]] = f[e] /\ (\A x \in s : f[x] \in Int) /\ \A y \in image(s) : g[y] \in Int
    OBVIOUS
  <2>4. h[e] \in image(s) /\ image(s) \ {h[e]} = image(s \ {e})
    BY <1>0
  <2>5. SumFunctionOnSet(g, image(s \ {e})) = SumFunctionOnSet(f, s \ {e})
    BY <1>2
  <2> HIDE DEF image
  <2>6. SumFunctionOnSet(f, s) = f[e] + SumFunctionOnSet(f, s \ {e})
    BY <2>2, <2>3, SumTakesAny
  <2>7. SumFunctionOnSet(g, image(s)) = g[h[e]] + SumFunctionOnSet(g, image(s) \ {h[e]})
    BY <2>2, <2>3, <2>4, SumTakesAny
  <2> QED BY <2>3, <2>4, <2>5, <2>6, <2>7
<1>3. S \in P
  <2> HIDE DEF P
  <2> QED BY <1>1, <1>2, SetInduction
<1> QED BY <1>0, <1>3

\* F and its transpose G have an integer for each of S and each of T.
Table(F, G, S, T) == \A x \in S : \A y \in T : F[x][y] \in Int /\ G[y][x] = F[x][y]

\* A table may be summed by rows or by columns.
LEMMA SumsSwap ==
  ASSUME NEW S, IsFiniteSet(S), NEW T, IsFiniteSet(T), NEW F, NEW G, Table(F, G, S, T),
         NEW f, \A x \in S : f[x] = SumFunctionOnSet(F[x], T),
         NEW g, \A y \in T : g[y] = SumFunctionOnSet(G[y], S)
  PROVE  SumFunctionOnSet(f, S) = SumFunctionOnSet(g, T)
<1>0. \A x \in S : \A y \in T : F[x][y] \in Int /\ G[y][x] = F[x][y]
  BY DEF Table
<1> DEFINE column(y) == G[y]
           foot(s) == [y \in T |-> SumFunctionOnSet(column(y), s)]
           P == {s \in SUBSET S : SumFunctionOnSet(f, s) = SumFunctionOnSet(foot(s), T)}
<1>1. {} \in P
  <2>1. \A y \in T : foot({})[y] = 0
    BY EmptySum
  <2>2. SumFunctionOnSet(foot({}), T) = SumFunctionOnSet(foot({}), {})
    <3> HIDE DEF foot
    <3> QED BY <2>1, SumOfNonzero
  <2> QED BY <2>2, EmptySum
<1>2. ASSUME NEW s \in SUBSET S, s # {}, \A x \in s : s \ {x} \in P
      PROVE  s \in P
  <2>1. PICK e \in s : TRUE
    BY <1>2
  <2>2. IsFiniteSet(s) /\ IsFiniteSet(s \ {e})
    BY FS_Subset
  <2>3. ASSUME NEW y \in T
        PROVE  /\ foot(s)[y] = F[e][y] + foot(s \ {e})[y]
               /\ F[e][y] \in Int /\ foot(s \ {e})[y] \in Int
    <3>1. column(y)[e] = F[e][y] /\ (\A x \in s : column(y)[x] \in Int) /\ F[e][y] \in Int
      BY <1>0
    <3> HIDE DEF column
    <3>2. SumFunctionOnSet(column(y), s) = column(y)[e] + SumFunctionOnSet(column(y), s \ {e})
      BY <2>2, <3>1, SumTakesAny
    <3>3. SumFunctionOnSet(column(y), s \ {e}) \in Int
      BY <2>2, <3>1, SumIsInteger
    <3> QED BY <3>1, <3>2, <3>3
  <2> HIDE DEF foot
  <2>4. SumFunctionOnSet(foot(s), T) = SumFunctionOnSet(F[e], T) + SumFunctionOnSet(foot(s \ {e}), T)
    BY <2>3, SumOfBoth
  <2>5. \A x \in s : f[x] \in Int
    <3>1. ASSUME NEW x \in s PROVE SumFunctionOnSet(F[x], T) \in Int
      <4>1. \A y \in T : F[x][y] \in Int
        BY <1>0
      <4> QED BY <4>1, SumIsInteger
    <3> QED BY <3>1
  <2>6. SumFunctionOnSet(f, s) = f[e] + SumFunctionOnSet(f, s \ {e})
    BY <2>2, <2>5, SumTakesAny
  <2>7. SumFunctionOnSet(f, s \ {e}) = SumFunctionOnSet(foot(s \ {e}), T)
    BY <1>2
  <2>8. f[e] = SumFunctionOnSet(F[e], T)
    OBVIOUS
  <2>9. SumFunctionOnSet(f, s) = SumFunctionOnSet(foot(s), T)
    BY <2>4, <2>6, <2>7, <2>8
  <2> QED BY <2>9
<1>3. S \in P
  <2> HIDE DEF P
  <2> QED BY <1>1, <1>2, SetInduction
<1>4. SumFunctionOnSet(foot(S), T) = SumFunctionOnSet(g, T)
  <2>1. \A y \in T : foot(S)[y] = g[y]
    OBVIOUS
  <2> HIDE DEF foot
  <2> QED BY <2>1, SumOfEqual
<1> QED BY <1>3, <1>4

\* A sum over 1 .. n is one over 1 .. n - 1 and its last term.
LEMMA SumOfInterval ==
  ASSUME NEW n \in Nat \ {0}, NEW f, \A i \in 1 .. n : f[i] \in Int
  PROVE  SumFunctionOnSet(f, 1 .. n) = f[n] + SumFunctionOnSet(f, 1 .. n - 1)
<1>1. IsFiniteSet(1 .. n)
  BY FS_Interval
<1>2. n \in 1 .. n /\ (1 .. n) \ {n} = 1 .. n - 1
  OBVIOUS
<1> QED BY <1>1, <1>2, SumTakesAny

\* A sum over two sets that are apart is the two sums.
LEMMA SumOfUnion ==
  ASSUME NEW S, IsFiniteSet(S), NEW R \in SUBSET S, NEW f, \A x \in S : f[x] \in Int
  PROVE  SumFunctionOnSet(f, S) = SumFunctionOnSet(f, R) + SumFunctionOnSet(f, S \ R)
<1> DEFINE g == [x \in S |-> IF x \in R THEN f[x] ELSE 0]
           h == [x \in S |-> IF x \in R THEN 0 ELSE f[x]]
<1>1. \A x \in S : g[x] \in Int /\ h[x] \in Int /\ f[x] = g[x] + h[x]
  OBVIOUS
<1>2. /\ \A x \in S \ R : g[x] = 0
      /\ \A x \in S \ (S \ R) : h[x] = 0
      /\ \A x \in R : g[x] = f[x]
      /\ \A x \in S \ R : h[x] = f[x]
  OBVIOUS
<1> HIDE DEF g, h
<1>3. SumFunctionOnSet(f, S) = SumFunctionOnSet(g, S) + SumFunctionOnSet(h, S)
  BY <1>1, SumOfBoth
<1>4. IsFiniteSet(R) /\ IsFiniteSet(S \ R) /\ S \ R \in SUBSET S
  BY FS_Subset
<1>5. /\ SumFunctionOnSet(g, S) = SumFunctionOnSet(g, R)
      /\ SumFunctionOnSet(h, S) = SumFunctionOnSet(h, S \ R)
  BY <1>1, <1>2, <1>4, SumOfNonzero
<1>6. /\ SumFunctionOnSet(g, R) = SumFunctionOnSet(f, R)
      /\ SumFunctionOnSet(h, S \ R) = SumFunctionOnSet(f, S \ R)
  BY <1>2, <1>4, SumOfEqual
<1> QED BY <1>3, <1>5, <1>6

\* A sum of one term.
LEMMA SumOfOne ==
  ASSUME NEW f, NEW e, f[e] \in Int
  PROVE  SumFunctionOnSet(f, {e}) = f[e]
<1>1. IsFiniteSet({e}) /\ {e} \ {e} = {}
  BY FS_Singleton
<1> QED BY <1>1, SumTakesAny, EmptySum

\* Each term of f is one of g and the weighted terms of the parts h.
Parts(f, g, w, h, S, T) ==
  /\ \A i \in S : g[i] \in Int
  /\ \A k \in T : w[k] \in Int
  /\ \A k \in T : \A i \in S : h[k][i] \in Int
  /\ \A i \in S : f[i] = g[i] + SumFunctionOnSet([k \in T |-> w[k] * h[k][i]], T)

\* Then the sum of f is that of g and the weighted sums of the parts.
LEMMA SumOfParts ==
  ASSUME NEW S, IsFiniteSet(S), NEW T, IsFiniteSet(T),
         NEW f, NEW g, NEW w, NEW h, Parts(f, g, w, h, S, T)
  PROVE  SumFunctionOnSet(f, S)
           = SumFunctionOnSet(g, S)
               + SumFunctionOnSet([k \in T |-> w[k] * SumFunctionOnSet(h[k], S)], T)
<1>0. /\ \A i \in S : g[i] \in Int
      /\ \A k \in T : w[k] \in Int
      /\ \A k \in T : \A i \in S : h[k][i] \in Int
      /\ \A i \in S : f[i] = g[i] + SumFunctionOnSet([k \in T |-> w[k] * h[k][i]], T)
  BY DEF Parts
<1> DEFINE F == [i \in S |-> [k \in T |-> w[k] * h[k][i]]]
           G == [k \in T |-> [i \in S |-> w[k] * h[k][i]]]
           q == [i \in S |-> SumFunctionOnSet(F[i], T)]
           r == [k \in T |-> w[k] * SumFunctionOnSet(h[k], S)]
<1>1. \A i \in S : F[i] = [k \in T |-> w[k] * h[k][i]]
  OBVIOUS
<1>2. \A i \in S : \A k \in T : F[i][k] \in Int /\ F[i][k] = w[k] * h[k][i] /\ G[k][i] = F[i][k]
  BY <1>0
<1>3. \A i \in S : q[i] = SumFunctionOnSet(F[i], T)
  OBVIOUS
<1>9. \A k \in T : r[k] = w[k] * SumFunctionOnSet(h[k], S)
  OBVIOUS
<1> HIDE DEF F, G, q, r
<1>4. \A i \in S : q[i] \in Int
  <2>1. ASSUME NEW i \in S
        PROVE  SumFunctionOnSet(F[i], T) \in Int
    <3>1. \A k \in T : F[i][k] \in Int
      BY <1>2
    <3> QED BY <3>1, SumIsInteger
  <2> QED BY <1>3, <2>1
<1>5. \A i \in S : f[i] = g[i] + q[i]
  BY <1>0, <1>1, <1>3
<1>6. SumFunctionOnSet(f, S) = SumFunctionOnSet(g, S) + SumFunctionOnSet(q, S)
  BY <1>0, <1>4, <1>5, SumOfBoth
<1>7. ASSUME NEW k \in T
      PROVE  r[k] = SumFunctionOnSet(G[k], S)
  <2> DEFINE c == G[k]
             b == h[k]
  <2>1. \A i \in S : b[i] \in Int /\ c[i] = w[k] * b[i]
    BY <1>0, <1>2
  <2> HIDE DEF c, b
  <2>2. SumFunctionOnSet(c, S) = w[k] * SumFunctionOnSet(b, S)
    BY <1>0, <2>1, SumScaled
  <2> QED BY <1>9, <2>2 DEF c, b
<1>8. SumFunctionOnSet(q, S) = SumFunctionOnSet(r, T)
  <2>1. Table(F, G, S, T)
    BY <1>2 DEF Table
  <2>2. \A k \in T : r[k] = SumFunctionOnSet(G[k], S)
    BY <1>7
  <2> QED BY <1>3, <2>1, <2>2, SumsSwap
<1> QED BY <1>6, <1>8 DEF r
=============================================================================
