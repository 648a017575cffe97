--------------------------- MODULE FormulasProofs ---------------------------
(***************************************************************************)
(* Proofs about formulas on their way from a text to their place in the    *)
(* order.  The sort, for every finite set of names and every table of      *)
(* dependencies: an order respects every dependency, it is complete or a   *)
(* real cycle is reported, and the walk that looks for the cycle never     *)
(* gets stuck; the argument is the inductive invariant IInv of TopoSort, a *)
(* node is ready when nothing it waits for remains.  The parser, for every *)
(* sequence of tokens: a tree refers to what its tokens name, and it is    *)
(* the one tree that the grammar derives.  The table of results is right   *)
(* from some place on, Right: each result is derived, and is the only one  *)
(* derived up to a place where no operator goes on with it.  The lexer,    *)
(* for every formula and all legal names: the grammar says which tokens    *)
(* may stand side by side (Phrase), so where each word ends is seen from   *)
(* its own last character and the first one of the next, and the lexer     *)
(* reads word after word; the first name with two hyphens in a row is      *)
(* where it goes wrong.                                                    *)
(***************************************************************************)
EXTENDS Formulas, TreeProofs

-----------------------------------------------------------------------------
\* What Append does to the elements of a sequence.
LEMMA ListedAppend ==
  ASSUME NEW S, NEW s \in Seq(S), NEW e
  PROVE  Listed(Append(s, e)) = Listed(s) \cup {e}
<1> DEFINE t == Append(s, e)
<1>1. Len(t) = Len(s) + 1 /\ DOMAIN t = 1 .. Len(s) + 1 /\ DOMAIN s = 1 .. Len(s) /\ Len(s) \in Nat
  OBVIOUS
<1>2. \A i \in 1 .. Len(s) : t[i] = s[i]
  OBVIOUS
<1>3. t[Len(s) + 1] = e
  OBVIOUS
<1>4. \A x \in Listed(t) : x \in Listed(s) \cup {e}
  BY <1>1, <1>2, <1>3 DEF Listed
<1>5. \A x \in Listed(s) \cup {e} : x \in Listed(t)
  <2>1. \A i \in DOMAIN s : i \in DOMAIN t /\ s[i] = t[i]
    BY <1>1, <1>2
  <2>2. Len(s) + 1 \in DOMAIN t
    BY <1>1
  <2> QED
    BY <2>1, <2>2, <1>3 DEF Listed
<1> QED
  BY <1>4, <1>5

\* The keys are finitely many names.
LEMMA KeysFinite ==
  ASSUME TypeOK
  PROVE  /\ IsFiniteSet(Keys)
         /\ \A n \in Keys : IsFiniteSet(Waits(n))
<1>1. IsFiniteSet(Keys)
  BY NodesAssumption, FS_Subset DEF TypeOK
<1>2. ASSUME NEW n \in Keys PROVE Waits(n) \subseteq Keys
  BY DEF TypeOK, Waits
<1> QED
  BY <1>1, <1>2, FS_Subset

\* When fewer nodes are sorted than there are, one remains; when as many are,
\* none does.
LEMMA CountedAll ==
  ASSUME TypeOK
  PROVE  Len(order) = Cardinality(Keys) <=> Remaining = {}
<1>1. Listed(order) \subseteq Keys /\ Len(order) = Cardinality(Listed(order))
  BY DEF TypeOK, Listed
<1>2. IsFiniteSet(Keys)
  BY KeysFinite
<1>3. Cardinality(Listed(order)) = Cardinality(Keys) <=> Listed(order) = Keys
  BY <1>1, <1>2, FS_Subset
<1> QED
  BY <1>1, <1>3 DEF Remaining

-----------------------------------------------------------------------------
LEMMA InvInit == SortInit => IInv
<1> SUFFICES ASSUME SortInit PROVE IInv
  OBVIOUS
<1> USE DEF SortInit, Keys, Listed, Remaining
<1>1. TypeOK
  <2>1. Listed(order) = {} /\ Cardinality({}) = 0
    BY FS_EmptySet
  <2> QED
    BY <2>1 DEF TypeOK
<1>2. CountsInv /\ WalkInv /\ DependenciesFirst /\ VerdictRight
  BY DEF CountsInv, WalkInv, DependenciesFirst, VerdictRight
<1> QED
  BY <1>1, <1>2 DEF IInv

-----------------------------------------------------------------------------
\* The sort starts: nothing is in order, every node waits for its dependencies.
LEMMA StartStep ==
  ASSUME NEW K \in SUBSET Nodes, NEW allDeps \in [K -> SUBSET Nodes], Start(allDeps)
  PROVE  IInv'
<1> USE DEF Start
<1>1. DOMAIN allDeps = K /\ Keys' = K /\ deps' = [n \in K |-> allDeps[n] \cap K]
  BY DEF Keys
<1>2. Listed(order)' = {} /\ Remaining' = K
  BY <1>1 DEF Listed, Remaining
<1>3. \A n \in K : IsFiniteSet(deps'[n]) /\ indeg'[n] = Cardinality(deps'[n])
  <2>1. IsFiniteSet(K)
    BY NodesAssumption, FS_Subset
  <2> QED
    BY <2>1, <1>1, FS_Subset
<1>4. \A n \in K : indeg'[n] \in Nat /\ (indeg'[n] = 0 <=> deps'[n] = {})
  BY <1>3, FS_CardinalityType, FS_EmptySet
<1>5. TypeOK'
  <2>1. indeg' \in [K -> Nat]
    BY <1>1, <1>4
  <2>2. Len(order') = Cardinality(Listed(order)')
    BY <1>2, FS_EmptySet
  <2>3. ready' \subseteq K /\ deps' \in [K -> SUBSET K]
    BY <1>1
  <2> QED
    BY <1>1, <1>2, <2>1, <2>2, <2>3 DEF TypeOK
<1>6. CountsInv'
  <2>1. \A n \in K : Waits(n)' = deps'[n]
    BY <1>1, <1>2 DEF Waits
  <2>2. ready' = {n \in K : indeg'[n] = 0}
    BY <1>1
  <2>3. ready' = {n \in K : Waits(n)' = {}}
    BY <1>4, <2>1, <2>2
  <2>4. \A n \in Keys' : indeg'[n] = Cardinality(Waits(n)')
    BY <1>1, <1>3, <2>1
  <2>5. ready' = {n \in Remaining' : Waits(n)' = {}}
    BY <1>2, <2>3
  <2> USE DEF CountsInv
  <2> HIDE DEF Start
  <2> QED
    BY <2>4, <2>5
<1>7. WalkInv' /\ DependenciesFirst' /\ VerdictRight'
  BY DEF WalkInv, DependenciesFirst, VerdictRight
<1> QED
  BY <1>5, <1>6, <1>7 DEF IInv

-----------------------------------------------------------------------------
\* A ready node goes into the order: the counters of its dependents drop by
\* one, and those that reach zero are ready.
LEMMA TakeStep == ASSUME IInv, Take PROVE IInv'
<1> USE DEF IInv
<1>1. PICK n \in ready :
        /\ order' = Append(order, n)
        /\ indeg' = [m \in Keys |-> IF n \in deps[m] THEN indeg[m] - 1 ELSE indeg[m]]
        /\ ready' = (ready \ {n}) \cup {m \in Keys : n \in deps[m] /\ indeg'[m] = 0}
  BY DEF Take
<1>2. /\ stage = "sorting" /\ stage' = "sorting" /\ deps' = deps /\ path' = path
      /\ Keys' = Keys
  BY DEF Take, Keys
<1>3. n \in Keys /\ n \notin Listed(order) /\ Waits(n) = {} /\ deps[n] \subseteq Listed(order)
  BY <1>2 DEF TypeOK, CountsInv, Remaining, Waits
<1>4. Listed(order)' = Listed(order) \cup {n}
  BY <1>1, ListedAppend DEF TypeOK
<1>5. Remaining' = Remaining \ {n}
  BY <1>2, <1>4 DEF Remaining
<1>6. \A m \in Keys : Waits(m)' = Waits(m) \ {n}
  BY <1>2, <1>4 DEF Waits
<1>7. \A m \in Keys : n \in Waits(m) <=> n \in deps[m]
  BY <1>3 DEF Waits
<1>8. \A m \in Keys : /\ indeg'[m] \in Nat
                      /\ indeg'[m] = Cardinality(Waits(m)')
                      /\ indeg'[m] = 0 <=> Waits(m)' = {}
  <2> SUFFICES ASSUME NEW m \in Keys
               PROVE  /\ indeg'[m] \in Nat
                      /\ indeg'[m] = Cardinality(Waits(m)')
                      /\ indeg'[m] = 0 <=> Waits(m)' = {}
    OBVIOUS
  <2>1. IsFiniteSet(Waits(m)) /\ indeg[m] = Cardinality(Waits(m)) /\ indeg[m] \in Nat
    BY <1>2, KeysFinite DEF CountsInv, TypeOK
  <2>2. IsFiniteSet(Waits(m) \ {n})
    BY <2>1, FS_Subset
  <2>3. CASE n \in deps[m]
    <3>1. Cardinality(Waits(m) \ {n}) = Cardinality(Waits(m)) - 1
      BY <2>1, <2>3, <1>7, FS_RemoveElement
    <3>2. indeg'[m] = indeg[m] - 1
      BY <1>1, <2>3
    <3> QED
      BY <3>1, <3>2, <2>1, <2>2, <1>6, FS_CardinalityType, FS_EmptySet
  <2>4. CASE n \notin deps[m]
    <3>1. Waits(m) \ {n} = Waits(m)
      BY <2>4, <1>7
    <3>2. indeg'[m] = indeg[m]
      BY <1>1, <2>4
    <3> QED
      BY <3>1, <3>2, <2>1, <1>6, FS_EmptySet
  <2> QED
    BY <2>3, <2>4
<1>9. ready' = {m \in Remaining' : Waits(m)' = {}}
  <2>1. ready = {m \in Remaining : Waits(m) = {}} /\ Remaining \subseteq Keys
    BY <1>2 DEF CountsInv, Remaining
  <2>2. ASSUME NEW m \in Keys, n \in deps[m], indeg'[m] = 0 PROVE m \in Remaining' /\ Waits(m)' = {}
    <3>1. Waits(m)' = {}
      BY <2>2, <1>8
    <3>2. m # n
      BY <2>2, <1>3
    <3>3. m \notin Listed(order)
      <4>1. ASSUME m \in Listed(order) PROVE FALSE
        <5>1. PICK i \in DOMAIN order : order[i] = m
          BY <4>1 DEF Listed
        <5>2. deps[m] \subseteq Listed(order)
          <6>1. deps[m] \subseteq {order[j] : j \in 1 .. i - 1}
            BY <5>1 DEF DependenciesFirst
          <6>2. DOMAIN order = 1 .. Len(order) /\ Len(order) \in Nat
            BY DEF TypeOK
          <6>3. 1 .. i - 1 \subseteq DOMAIN order
            BY <5>1, <6>2
          <6> QED BY <6>1, <6>3 DEF Listed
        <5> QED
          BY <5>2, <2>2, <1>3
      <4> QED
        BY <4>1
    <3> QED
      BY <3>1, <3>2, <3>3, <1>5 DEF Remaining
  <2>3. ASSUME NEW m \in ready, m # n PROVE m \in Remaining' /\ Waits(m)' = {}
    BY <2>1, <2>3, <1>5, <1>6
  <2>4. ASSUME NEW m \in Remaining', Waits(m)' = {} PROVE m \in ready'
    <3>1. m \in Keys /\ m \in Remaining /\ m # n
      BY <1>5, <2>1
    <3>2. CASE n \in deps[m]
      BY <3>1, <3>2, <2>4, <1>1, <1>8
    <3>3. CASE n \notin deps[m]
      <4>1. Waits(m) = {}
        BY <3>1, <3>3, <2>4, <1>6, <1>7
      <4> QED
        BY <4>1, <3>1, <2>1, <1>1
    <3> QED
      BY <3>2, <3>3
  <2>5. \A m \in ready' : m \in Remaining' /\ Waits(m)' = {}
    BY <2>2, <2>3, <1>1
  <2> QED
    BY <2>4, <2>5
<1>10. TypeOK'
  <2>1. order' \in Seq(Keys)
    BY <1>1, <1>3 DEF TypeOK
  <2>2. Len(order') = Cardinality(Listed(order)')
    <3>1. IsFiniteSet(Listed(order))
      BY KeysFinite, FS_Subset DEF TypeOK, Listed
    <3>2. Cardinality(Listed(order) \cup {n}) = Cardinality(Listed(order)) + 1
      BY <3>1, <1>3, FS_AddElement
    <3>3. Len(order') = Len(order) + 1
      BY <1>1 DEF TypeOK
    <3> QED
      BY <3>2, <3>3, <1>4 DEF TypeOK
  <2>3. indeg' \in [Keys -> Nat]
    BY <1>1, <1>8
  <2>4. path' \in Seq(Remaining')
    <3>1. path = <<>>
      BY <1>2 DEF WalkInv
    <3> QED
      BY <3>1, <1>2
  <2>5. ready' \subseteq Remaining'
    BY <1>9
  <2> QED
    BY <1>2, <2>1, <2>2, <2>3, <2>4, <2>5 DEF TypeOK
<1>11. CountsInv'
  BY <1>2, <1>8, <1>9 DEF CountsInv
<1>12. DependenciesFirst'
  <2> SUFFICES ASSUME NEW i \in DOMAIN order'
               PROVE  deps[order'[i]] \subseteq {order'[j] : j \in 1 .. i - 1}
    BY <1>2 DEF DependenciesFirst
  <2>1. /\ order \in Seq(Keys) /\ Len(order) \in Nat /\ DOMAIN order = 1 .. Len(order)
        /\ DOMAIN order' = 1 .. Len(order) + 1 /\ i \in Nat
        /\ order'[Len(order) + 1] = n
        /\ \A j \in 1 .. Len(order) : order'[j] = order[j]
    BY <1>1, <1>3 DEF TypeOK
  <2>2. CASE i = Len(order) + 1
    <3>1. \A x \in Listed(order) : \E j \in 1 .. i - 1 : order'[j] = x
      BY <2>1, <2>2 DEF Listed
    <3> QED
      BY <3>1, <2>1, <2>2, <1>3
  <2>3. CASE i # Len(order) + 1
    <3>1. i \in DOMAIN order /\ order'[i] = order[i]
      BY <2>1, <2>3
    <3>2. \A j \in 1 .. i - 1 : order'[j] = order[j]
      BY <2>1, <3>1
    <3>3. deps[order[i]] \subseteq {order[j] : j \in 1 .. i - 1}
      BY <3>1 DEF DependenciesFirst
    <3> QED
      BY <3>1, <3>2, <3>3
  <2> QED
    BY <2>2, <2>3
<1>13. WalkInv' /\ VerdictRight'
  BY <1>2 DEF WalkInv, VerdictRight
<1> QED
  BY <1>10, <1>11, <1>12, <1>13 DEF IInv

-----------------------------------------------------------------------------
\* Nothing is ready: the sort is over, or every remaining node waits for one
\* that remains.
LEMMA FinishStep == ASSUME IInv, Finish PROVE IInv'
<1> USE DEF IInv, Finish
<1>1. Remaining = {}
  BY CountedAll
<1>2. /\ Keys' = Keys /\ Listed(order)' = Listed(order) /\ Remaining' = Remaining
      /\ path = <<>>
  BY DEF Keys, Listed, Remaining, WalkInv
<1>3. TypeOK'
  BY <1>2 DEF TypeOK
<1>4. VerdictRight'
  <2>1. Listed(order) \subseteq Keys
    BY DEF TypeOK, Listed
  <2> QED
    BY <2>1, <1>1, <1>2 DEF VerdictRight, Remaining
<1>5. CountsInv' /\ WalkInv' /\ DependenciesFirst'
  BY <1>2 DEF CountsInv, WalkInv, DependenciesFirst
<1> QED
  BY <1>3, <1>4, <1>5

LEMMA LookForCycleStep == ASSUME IInv, LookForCycle PROVE IInv'
<1> USE DEF IInv, LookForCycle
<1>1. PICK n \in Remaining : path' = <<n>>
  OBVIOUS
<1>2. Keys' = Keys /\ Listed(order)' = Listed(order) /\ Remaining' = Remaining /\ deps' = deps
  BY DEF Keys, Listed, Remaining
<1>3. ASSUME NEW m \in Remaining PROVE deps[m] \cap Remaining # {}
  <2>1. Waits(m) # {}
    BY DEF CountsInv
  <2>2. m \in Keys /\ deps[m] \subseteq Keys
    BY DEF TypeOK, Remaining
  <2> QED
    BY <2>1, <2>2 DEF Waits, Remaining
<1>4. Len(path') = 1 /\ path'[1] = n /\ path' \in Seq(Remaining) /\ DOMAIN path' = {1}
  BY <1>1
<1>5. TypeOK'
  BY <1>2, <1>4 DEF TypeOK
<1>6. WalkInv'
  BY <1>2, <1>3, <1>4 DEF WalkInv
<1>7. VerdictRight'
  BY <1>1, <1>2, <1>3, <1>4 DEF VerdictRight, Onward
<1>8. CountsInv' /\ DependenciesFirst'
  BY <1>2 DEF CountsInv, DependenciesFirst
<1> QED
  BY <1>5, <1>6, <1>7, <1>8

-----------------------------------------------------------------------------
\* The walk goes on to a node it has not seen.
LEMMA WalkStep == ASSUME IInv, Walk PROVE IInv'
<1> USE DEF IInv, Walk
<1>1. PICK n \in Onward \ Listed(path) : path' = Append(path, n)
  OBVIOUS
<1>2. Keys' = Keys /\ Listed(order)' = Listed(order) /\ Remaining' = Remaining /\ deps' = deps
  BY DEF Keys, Listed, Remaining
<1>3. /\ path \in Seq(Remaining) /\ path # <<>> /\ n \in Remaining
      /\ n \in deps[path[Len(path)]]
  BY DEF TypeOK, VerdictRight, Onward
<1>4. /\ Len(path) \in Nat \ {0} /\ DOMAIN path = 1 .. Len(path)
      /\ path' \in Seq(Remaining) /\ Len(path') = Len(path) + 1
      /\ DOMAIN path' = 1 .. Len(path) + 1
      /\ path'[Len(path) + 1] = n
      /\ \A i \in 1 .. Len(path) : path'[i] = path[i]
  BY <1>1, <1>3
<1>5. TypeOK'
  <2>1. \A i \in 1 .. Len(path) : path[i] # n
    BY <1>1, <1>4 DEF Listed
  <2>2. ASSUME NEW i \in DOMAIN path', NEW j \in DOMAIN path', path'[i] = path'[j] PROVE i = j
    <3>1. \A k \in DOMAIN path' : k \in 1 .. Len(path) \/ k = Len(path) + 1
      BY <1>4
    <3>2. CASE i \in 1 .. Len(path) /\ j \in 1 .. Len(path)
      <4>1. path[i] = path[j]
        BY <3>2, <2>2, <1>4
      <4> QED
        BY <4>1, <3>2, <1>4 DEF TypeOK
    <3>3. CASE i = Len(path) + 1 /\ j \in 1 .. Len(path)
      BY <3>3, <2>1, <2>2, <1>4
    <3>4. CASE i \in 1 .. Len(path) /\ j = Len(path) + 1
      BY <3>4, <2>1, <2>2, <1>4
    <3> QED
      BY <3>1, <3>2, <3>3, <3>4
  <2> QED
    BY <1>2, <1>4, <2>2 DEF TypeOK
<1>6. WalkInv'
  <2>1. ASSUME NEW i \in 1 .. Len(path) PROVE path'[i + 1] \in deps[path'[i]]
    <3>1. CASE i = Len(path)
      BY <3>1, <1>3, <1>4
    <3>2. CASE i # Len(path)
      <4>1. Len(path) \in Nat
        BY <1>4
      <4>2. i \in 1 .. Len(path) - 1 /\ i + 1 \in 1 .. Len(path) /\ i \in 1 .. Len(path)
        BY <3>2, <4>1
      <4> QED
        BY <4>2, <1>4 DEF WalkInv
    <3> QED
      BY <3>1, <3>2
  <2>2. Len(path') - 1 = Len(path)
    BY <1>4
  <2> QED
    BY <2>1, <2>2, <1>2 DEF WalkInv
<1>7. VerdictRight'
  <2>1. deps[n] \cap Remaining # {}
    BY <1>3 DEF WalkInv
  <2>2. path'[Len(path')] = n /\ path' # <<>>
    BY <1>4
  <2> QED
    BY <2>1, <2>2, <1>2 DEF VerdictRight, Onward
<1>8. CountsInv' /\ DependenciesFirst'
  BY <1>2 DEF CountsInv, DependenciesFirst
<1> QED
  BY <1>5, <1>6, <1>7, <1>8

\* A node repeats: what lies between is a loop.
LEMMA CloseStep == ASSUME IInv, Close PROVE IInv'
<1> USE DEF IInv, Close
<1>1. PICK at \in DOMAIN path : path[at] \in Onward /\ path' = SubSeq(path, at, Len(path))
  OBVIOUS
<1>2. Keys' = Keys /\ Listed(order)' = Listed(order) /\ Remaining' = Remaining /\ deps' = deps
  BY DEF Keys, Listed, Remaining
<1>3. path \in Seq(Remaining) /\ Len(path) \in Nat /\ DOMAIN path = 1 .. Len(path)
  BY DEF TypeOK
<1> DEFINE n == Len(path) - at + 1
<1>4. /\ n \in Nat \ {0} /\ at \in 1 .. Len(path)
      /\ path' \in Seq(Remaining) /\ Len(path') = n /\ DOMAIN path' = 1 .. n
      /\ \A i \in 1 .. n : path'[i] = path[at + i - 1]
  BY <1>1, <1>3
<1>5. TypeOK'
  <2>1. ASSUME NEW i \in DOMAIN path', NEW j \in DOMAIN path', path'[i] = path'[j] PROVE i = j
    <3>1. at + i - 1 \in DOMAIN path /\ at + j - 1 \in DOMAIN path
      BY <1>3, <1>4
    <3>2. path[at + i - 1] = path[at + j - 1]
      BY <2>1, <1>4
    <3>3. at + i - 1 = at + j - 1
      BY <3>1, <3>2 DEF TypeOK
    <3>4. i \in Int /\ j \in Int /\ at \in Int
      BY <1>4
    <3> HIDE DEF n, IInv, Close
    <3> QED
      BY <3>3, <3>4
  <2> QED
    BY <1>2, <1>4, <2>1 DEF TypeOK
<1>6. VerdictRight'
  <2>1. ASSUME NEW i \in 1 .. n
        PROVE  path'[IF i = n THEN 1 ELSE i + 1] \in deps[path'[i]]
    <3>1. CASE i = n
      <4>1. at + i - 1 = Len(path) /\ at + 1 - 1 = at /\ 1 \in 1 .. n
        BY <3>1, <1>3, <1>4
      <4>2. path'[i] = path[Len(path)] /\ path'[1] = path[at]
        BY <4>1, <1>4
      <4> QED
        BY <4>2, <3>1, <1>1 DEF Onward
    <3>2. CASE i # n
      <4>1. /\ at + (i + 1) - 1 = (at + i - 1) + 1 /\ i + 1 \in 1 .. n
            /\ at + i - 1 \in 1 .. Len(path) - 1
        BY <3>2, <1>3, <1>4
      <4>2. path'[i] = path[at + i - 1] /\ path'[i + 1] = path[at + (i + 1) - 1]
        BY <4>1, <1>4
      <4> QED
        BY <4>1, <4>2, <3>2 DEF WalkInv
    <3> QED
      BY <3>1, <3>2
  <2>2. path' # <<>>
    BY <1>4
  <2> HIDE DEF n
  <2> QED
    BY <2>1, <2>2, <1>2, <1>4 DEF VerdictRight
<1>7. CountsInv' /\ WalkInv' /\ DependenciesFirst'
  BY <1>2 DEF CountsInv, WalkInv, DependenciesFirst
<1> QED
  BY <1>5, <1>6, <1>7

-----------------------------------------------------------------------------
LEMMA ReturnStep == ASSUME Return PROVE IInv'
<1>1. SortInit'
  BY DEF Return, SortInit
<1> USE DEF SortInit, Keys, Listed, Remaining
<1>2. TypeOK'
  <2>1. Listed(order)' = {} /\ Cardinality({}) = 0
    BY <1>1, FS_EmptySet
  <2> QED
    BY <1>1, <2>1 DEF TypeOK
<1>3. CountsInv' /\ WalkInv' /\ DependenciesFirst' /\ VerdictRight'
  BY <1>1 DEF CountsInv, WalkInv, DependenciesFirst, VerdictRight
<1> QED
  BY <1>2, <1>3 DEF IInv

LEMMA StutterStep == ASSUME IInv, UNCHANGED sortVars PROVE IInv'
<1> USE DEF sortVars
<1>1. /\ Keys' = Keys /\ Listed(order)' = Listed(order) /\ Remaining' = Remaining
      /\ Onward' = Onward /\ \A n : Waits(n)' = Waits(n)
  BY DEF Keys, Listed, Remaining, Onward, Waits
<1>2. TypeOK'
  BY <1>1 DEF IInv, TypeOK
<1>3. CountsInv'
  BY <1>1 DEF IInv, CountsInv
<1>4. WalkInv' /\ DependenciesFirst'
  BY <1>1 DEF IInv, WalkInv, DependenciesFirst
<1>5. VerdictRight'
  BY <1>1 DEF IInv, VerdictRight
<1> QED
  BY <1>2, <1>3, <1>4, <1>5 DEF IInv

LEMMA Inductive == IInv /\ [SortNext]_sortVars => IInv'
<1> SUFFICES ASSUME IInv, [SortNext]_sortVars PROVE IInv'
  OBVIOUS
<1>1. ASSUME NEW K \in SUBSET Nodes, NEW allDeps \in [K -> SUBSET Nodes], Start(allDeps) PROVE IInv'
  BY <1>1, StartStep
<1>2. CASE SortStep
  BY <1>2, TakeStep, FinishStep, LookForCycleStep, WalkStep, CloseStep DEF SortStep
<1>3. CASE Return
  BY <1>3, ReturnStep
<1>4. CASE UNCHANGED sortVars
  BY <1>4, StutterStep
<1> QED
  BY <1>1, <1>2, <1>3, <1>4 DEF SortNext

THEOREM Invariant == SortSpec => []IInv
<1> QED
  BY InvInit, Inductive, PTL DEF SortSpec

-----------------------------------------------------------------------------
(* The counters, the order and the walk stay well formed whatever is       *)
(* sorted: TopoSortDeps neither orders nor visits a name twice.            *)
THEOREM TypeCorrect == SortSpec => []TypeOK
<1>1. IInv => TypeOK
  BY DEF IInv
<1> QED
  BY Invariant, <1>1, PTL

(* calc.go, at TopoSortDeps: every listed dependency comes before its      *)
(* dependent.                                                              *)
THEOREM OrderRespectsDependencies == SortSpec => []DependenciesFirst
<1>1. IInv => DependenciesFirst
  BY DEF IInv
<1> QED
  BY Invariant, <1>1, PTL

(* The sort orders every name or reports a loop of dependencies, and the   *)
(* branch that calc.go marks as unreachable is.                            *)
THEOREM VerdictIsRight == SortSpec => []VerdictRight
<1>1. IInv => VerdictRight
  BY DEF IInv
<1> QED
  BY Invariant, <1>1, PTL

-----------------------------------------------------------------------------
(* Recursion and induction over numbers.                                   *)
LEMMA Stepwise ==
  ASSUME NEW N \in Nat, NEW S, 0 \in S, \A k \in 0 .. N - 1 : k \in S => k + 1 \in S
  PROVE  0 .. N \subseteq S
<1> SUFFICES ASSUME ~(0 .. N \subseteq S) PROVE FALSE
  OBVIOUS
<1> DEFINE B == {k \in 0 .. N : k \notin S}
<1>1. B \subseteq Nat /\ B # {}
  OBVIOUS
<1>2. PICK m \in B : \A k \in B : m <= k
  BY <1>1, LeastNatural
<1>3. m \in Nat /\ m # 0 /\ m <= N /\ m \notin S
  OBVIOUS
<1>4. m - 1 \in 0 .. N - 1 /\ m - 1 \notin B /\ (m - 1) + 1 = m /\ m - 1 \in 0 .. N
  BY <1>2, <1>3
<1> QED BY <1>3, <1>4

\* Steps of a function, one for each number, can be taken one after the other.
StepFunctions(N, S) == [(0 .. N) \X S -> S]
Runs(N, S, x, f)    == {t \in [0 .. N -> S] : t[0] = x /\ \A k \in 1 .. N : t[k] = f[<<k, t[k - 1]>>]}

LEMMA StepsExist ==
  ASSUME NEW N \in Nat, NEW S
  PROVE  \A x \in S : \A f \in StepFunctions(N, S) : Runs(N, S, x, f) # {}
<1> SUFFICES ASSUME NEW x \in S, NEW f \in [(0 .. N) \X S -> S]
             PROVE  \E t \in [0 .. N -> S] : t[0] = x /\ \A k \in 1 .. N : t[k] = f[<<k, t[k - 1]>>]
  BY DEF StepFunctions, Runs
<1> DEFINE G == {n \in 0 .. N : \E t \in [0 .. n -> S] :
                    t[0] = x /\ \A k \in 1 .. n : t[k] = f[<<k, t[k - 1]>>]}
<1>1. 0 \in G
  <2> DEFINE t == [k \in 0 .. 0 |-> x]
  <2>1. t \in [0 .. 0 -> S] /\ t[0] = x /\ \A k \in 1 .. 0 : t[k] = f[<<k, t[k - 1]>>]
    OBVIOUS
  <2> HIDE DEF t
  <2> QED BY <2>1
<1>2. ASSUME NEW n \in 0 .. N - 1, n \in G
      PROVE  n + 1 \in G
  <2>1. PICK g \in [0 .. n -> S] : g[0] = x /\ \A k \in 1 .. n : g[k] = f[<<k, g[k - 1]>>]
    BY <1>2
  <2> DEFINE t == [k \in 0 .. n + 1 |-> IF k = n + 1 THEN f[<<n + 1, g[n]>>] ELSE g[k]]
  <2>2. n \in Nat /\ n + 1 \in 0 .. N /\ g[n] \in S /\ <<n + 1, g[n]>> \in (0 .. N) \X S
    OBVIOUS
  <2>3. f[<<n + 1, g[n]>>] \in S
    BY <2>2
  <2>4. t \in [0 .. n + 1 -> S]
    BY <2>2, <2>3
  <2>5. t[n + 1] = f[<<n + 1, g[n]>>] /\ \A k \in 0 .. n : t[k] = g[k]
    BY <2>2
  <2> HIDE DEF t
  <2>6. ASSUME NEW k \in 1 .. n + 1
        PROVE  t[k] = f[<<k, t[k - 1]>>]
    <3>1. CASE k = n + 1
      <4>1. k - 1 = n /\ n \in 0 .. n
        BY <2>2, <3>1
      <4> QED BY <2>5, <3>1, <4>1
    <3>2. CASE k # n + 1
      <4>1. k \in 1 .. n /\ k \in 0 .. n /\ k - 1 \in 0 .. n
        BY <2>2, <3>2
      <4> QED BY <2>1, <2>5, <4>1
    <3> QED BY <3>1, <3>2
  <2>7. t[0] = x
    <3>1. 0 \in 0 .. n
      BY <2>2
    <3> QED BY <2>1, <2>5, <3>1
  <2> QED BY <2>2, <2>4, <2>6, <2>7
<1>3. N \in G
  <2> HIDE DEF G
  <2>1. 0 .. N \subseteq G
    BY <1>1, <1>2, Stepwise
  <2> QED BY <2>1
<1> QED BY <1>3

-----------------------------------------------------------------------------
(* The trees of a text, and the accounts they refer to.                    *)
Toks(s)    == {s[i] : i \in DOMAIN s} \cup {"neg"}
TreesOf(s) == UNION {[D -> Toks(s)] : D \in SUBSET Seq(Nat)}

RefsIn(trees) == UNION {Refs(trees[k]) : k \in DOMAIN trees}

\* Sequences with the same elements are the same.
LEMMA SameSeq ==
  ASSUME NEW S, NEW a \in Seq(S), NEW b \in Seq(S), Len(a) = Len(b), \A k \in 1 .. Len(a) : a[k] = b[k]
  PROVE  a = b
  OBVIOUS

\* The way to an argument's node goes over the argument.
LEMMA WayOfArgument ==
  ASSUME NEW i \in Nat, NEW w \in Seq(Nat)
  PROVE  /\ <<i>> \o w \in Seq(Nat) /\ <<i>> \o w # <<>>
         /\ Head(<<i>> \o w) = i /\ Tail(<<i>> \o w) = w
<1> DEFINE v == <<i>> \o w
<1>1. /\ v \in Seq(Nat) /\ Len(v) = Len(w) + 1 /\ v[1] = i
      /\ \A k \in 1 .. Len(w) : v[k + 1] = w[k]
  OBVIOUS
<1>2. Len(w) \in Nat /\ w = [k \in 1 .. Len(w) |-> w[k]]
  OBVIOUS
<1> HIDE DEF v
<1>3. v # <<>> /\ Head(v) = i
  BY <1>1, <1>2
<1>4. /\ Tail(v) \in Seq(Nat) /\ Len(Tail(v)) = Len(w)
      /\ \A k \in 1 .. Len(w) : Tail(v)[k] = v[k + 1]
  BY <1>1, <1>2, <1>3
<1>5. Tail(v) = w
  <2>1. \A k \in 1 .. Len(w) : Tail(v)[k] = w[k]
    BY <1>1, <1>4
  <2> QED BY <1>4, <2>1, SameSeq
<1> QED BY <1>1, <1>3, <1>5 DEF v

LEMMA NodeMadeOf ==
  ASSUME NEW s, NEW op \in Toks(s), NEW args \in Seq(TreesOf(s))
  PROVE  /\ Node(op, args) \in TreesOf(s)
         /\ Refs(Node(op, args)) = ({op} \cap Accounts) \cup RefsIn(args)
<1> DEFINE ways(i) == {<<i>> \o w : w \in DOMAIN args[i]}
           D == {<<>>} \cup UNION {ways(i) : i \in DOMAIN args}
           t == Node(op, args)
<1>1. /\ DOMAIN args \subseteq Nat
      /\ \A i \in DOMAIN args : DOMAIN args[i] \subseteq Seq(Nat) /\ \A w \in DOMAIN args[i] : args[i][w] \in Toks(s)
  BY DEF TreesOf
<1>2. t = [way \in D |-> IF way = <<>> THEN op ELSE args[Head(way)][Tail(way)]]
  BY DEF Node
<1>3. <<>> \in D /\ \A i \in DOMAIN args : \A w \in DOMAIN args[i] : <<i>> \o w \in D
  <2>1. \A i \in DOMAIN args : \A w \in DOMAIN args[i] : <<i>> \o w \in ways(i)
    OBVIOUS
  <2>2. \A i \in DOMAIN args : ways(i) \subseteq D
    OBVIOUS
  <2> QED BY <2>1, <2>2
<1>4. \A way \in D : way = <<>> \/ \E i \in DOMAIN args : \E w \in DOMAIN args[i] : way = <<i>> \o w
  OBVIOUS
<1> HIDE DEF D, t
<1>5. t[<<>>] = op
  BY <1>2, <1>3
<1>6. ASSUME NEW i \in DOMAIN args, NEW w \in DOMAIN args[i]
      PROVE  <<i>> \o w \in Seq(Nat) /\ t[<<i>> \o w] = args[i][w]
  <2>1. i \in Nat /\ w \in Seq(Nat)
    BY <1>1
  <2>2. <<i>> \o w \in D
    BY <1>3
  <2> QED BY <1>2, <2>1, <2>2, WayOfArgument
<1>7. D \subseteq Seq(Nat)
  <2>1. <<>> \in Seq(Nat)
    OBVIOUS
  <2> QED BY <1>4, <1>6, <2>1
<1>8. ASSUME NEW way \in D PROVE t[way] \in Toks(s)
  <2>1. CASE way = <<>>
    BY <1>5, <2>1
  <2>2. CASE way # <<>>
    <3>1. PICK i \in DOMAIN args : \E w \in DOMAIN args[i] : way = <<i>> \o w
      BY <1>4, <2>2
    <3>2. PICK w \in DOMAIN args[i] : way = <<i>> \o w
      BY <3>1
    <3> QED BY <1>1, <1>6, <3>2
  <2> QED BY <2>1, <2>2
<1>9. t \in TreesOf(s)
  BY <1>2, <1>7, <1>8 DEF TreesOf
<1>10. Refs(t) = {t[way] : way \in D} \cap Accounts
  <2>1. DOMAIN t = D
    BY <1>2
  <2> QED BY <2>1 DEF Refs
<1>11. \A x : (\E way \in D : x = t[way]) <=>
              (x = op \/ \E i \in DOMAIN args : \E w \in DOMAIN args[i] : x = args[i][w])
  <2>1. ASSUME NEW way \in D
        PROVE  t[way] = op \/ \E i \in DOMAIN args : \E w \in DOMAIN args[i] : t[way] = args[i][w]
    <3>1. CASE way = <<>>
      BY <1>5, <3>1
    <3>2. CASE way # <<>>
      <4>1. PICK i \in DOMAIN args : \E w \in DOMAIN args[i] : way = <<i>> \o w
        BY <1>4, <3>2
      <4>2. PICK w \in DOMAIN args[i] : way = <<i>> \o w
        BY <4>1
      <4>3. t[way] = args[i][w]
        BY <1>6, <4>2
      <4> QED BY <4>3
    <3> QED BY <3>1, <3>2
  <2>2. \E way \in D : op = t[way]
    BY <1>3, <1>5
  <2>3. ASSUME NEW i \in DOMAIN args, NEW w \in DOMAIN args[i]
        PROVE  \E way \in D : args[i][w] = t[way]
    BY <1>3, <1>6
  <2> QED BY <2>1, <2>2, <2>3
<1>12. \A x : x \in RefsIn(args) <=> x \in Accounts /\ \E i \in DOMAIN args : \E w \in DOMAIN args[i] : x = args[i][w]
  BY DEF RefsIn, Refs
<1> QED BY <1>9, <1>10, <1>11, <1>12 DEF t

-----------------------------------------------------------------------------
(* Results: the trees refer to the accounts among the tokens that were     *)
(* passed.                                                                 *)
Named(s, i, j) == {s[k] : k \in i .. j - 1} \cap Accounts

AllResults(s)  == [trees : Seq(TreesOf(s)), at : 0 .. Len(s) + 1]
Results(s, i)  == {r \in AllResults(s) : r.at # 0 => i <= r.at /\ RefsIn(r.trees) = Named(s, i, r.at)}

\* What a parse function returns at place i: an error, or one tree.
Entries(s, i)  == {r \in Results(s, i) : r.at # 0 => i < r.at /\ Len(r.trees) = 1}

Tables(s) ==
  {p \in [0 .. Len(s) + 1 -> AllResults(s) \X AllResults(s) \X AllResults(s)] :
     \A n \in 1 .. 3 : /\ p[0][n] = Error
                       /\ \A i \in 1 .. Len(s) + 1 : p[i][n] \in Entries(s, i)}

LEMMA TextFacts ==
  ASSUME NEW s, IsText(s)
  PROVE  /\ Len(s) \in Nat /\ DOMAIN s = 1 .. Len(s)
         /\ \A i \in 1 .. Len(s) : s[i] \in Toks(s)
  BY DEF IsText, Toks

\* Accounts are no other tokens, and the end of the text is none at all.
LEMMA AccountsApart ==
  /\ \A t \in Accounts : /\ t \notin Funcs /\ t \notin Cmps /\ t \notin Numbers
                         /\ t \notin {"(", ")", ",", "", "-", "neg", End}
                         /\ \A n \in {1, 2} : t \notin Levels[n]
  /\ \A n \in {1, 2} : End \notin Levels[n]
  /\ End \notin Cmps /\ End \notin Funcs
<1>1. Levels[1] = {"+", "-"} /\ Levels[2] = {"*", "/"}
  BY DEF Levels
<1>2. Operators = {"+", "-", "*", "/", "neg"}
  BY <1>1 DEF Operators
<1>3. \A n \in {1, 2} : Levels[n] \subseteq Operators
  BY <1>1, <1>2
<1>4. \A t \in Accounts : /\ t \notin Numbers /\ t \notin Funcs /\ t \notin Cmps
                           /\ t \notin Operators /\ t \notin Punctuation
  BY TokensAssumption
<1>5. \A t \in Accounts : t \notin {"(", ")", ",", "", "-", "neg", End}
  BY <1>2, <1>4 DEF Punctuation
<1>6. \A n \in {1, 2} : End \notin Levels[n]
  <2>1. End \notin {"+", "-"} /\ End \notin {"*", "/"}
    BY DEF End
  <2>2. End \notin Levels[1] /\ End \notin Levels[2]
    BY <1>1, <2>1
  <2> QED BY <2>2
<1>7. End \notin Cmps /\ End \notin Funcs
  BY DEF Cmps, Funcs, End
<1> QED BY <1>3, <1>4, <1>5, <1>6, <1>7

LEMMA PeekFacts ==
  ASSUME NEW s, IsText(s), NEW i \in Nat, Peek(s, i) # End
  PROVE  i \in 1 .. Len(s) /\ Peek(s, i) = s[i] /\ s[i] \in Toks(s)
  BY TextFacts DEF Peek

LEMMA RefsOfJoin ==
  ASSUME NEW S, NEW a \in Seq(S), NEW b \in Seq(S)
  PROVE  RefsIn(a \o b) = RefsIn(a) \cup RefsIn(b)
<1> DEFINE c == a \o b
<1>1. /\ Len(a) \in Nat /\ Len(b) \in Nat /\ DOMAIN a = 1 .. Len(a) /\ DOMAIN b = 1 .. Len(b)
      /\ DOMAIN c = 1 .. Len(a) + Len(b)
      /\ \A k \in 1 .. Len(a) : c[k] = a[k]
      /\ \A k \in 1 .. Len(b) : c[Len(a) + k] = b[k]
  OBVIOUS
<1> HIDE DEF c
<1>2. \A k \in DOMAIN a : k \in DOMAIN c /\ c[k] = a[k]
  BY <1>1
<1>3. \A k \in DOMAIN b : Len(a) + k \in DOMAIN c /\ c[Len(a) + k] = b[k]
  BY <1>1
<1>4. ASSUME NEW k \in DOMAIN c
      PROVE  (\E j \in DOMAIN a : c[k] = a[j]) \/ (\E j \in DOMAIN b : c[k] = b[j])
  <2>1. CASE k <= Len(a)
    BY <1>1, <2>1
  <2>2. CASE k > Len(a)
    <3>1. k - Len(a) \in 1 .. Len(b) /\ Len(a) + (k - Len(a)) = k
      BY <1>1, <2>2
    <3> QED BY <1>1, <3>1
  <2> QED BY <1>1, <2>1, <2>2
<1>5. \A x : x \in RefsIn(c) <=> \E k \in DOMAIN c : x \in Refs(c[k])
  BY DEF RefsIn
<1>6. \A x : x \in RefsIn(a) \cup RefsIn(b) <=>
             (\E k \in DOMAIN a : x \in Refs(a[k])) \/ (\E k \in DOMAIN b : x \in Refs(b[k]))
  BY DEF RefsIn
<1>7. \A x : x \in RefsIn(c) => x \in RefsIn(a) \cup RefsIn(b)
  BY <1>4, <1>5, <1>6
<1>8. \A x : x \in RefsIn(a) \cup RefsIn(b) => x \in RefsIn(c)
  BY <1>2, <1>3, <1>5, <1>6
<1> QED BY <1>7, <1>8 DEF c

LEMMA RefsOfOne == \A t : RefsIn(<<t>>) = Refs(t)
  BY DEF RefsIn

LEMMA RefsOfNone == RefsIn(<<>>) = {}
  BY DEF RefsIn

LEMMA NamedSplit ==
  \A s : \A i, j, k \in Nat : i <= j /\ j <= k => Named(s, i, k) = Named(s, i, j) \cup Named(s, j, k)
<1> SUFFICES ASSUME NEW s, NEW i \in Nat, NEW j \in Nat, NEW k \in Nat, i <= j, j <= k
             PROVE  Named(s, i, k) = Named(s, i, j) \cup Named(s, j, k)
  OBVIOUS
<1>1. i .. k - 1 = (i .. j - 1) \cup (j .. k - 1)
  OBVIOUS
<1> QED BY <1>1 DEF Named

LEMMA NamedNone == \A s : \A i \in Nat : Named(s, i, i) = {}
<1>1. \A i \in Nat : i .. i - 1 = {}
  OBVIOUS
<1> QED BY <1>1 DEF Named

LEMMA NamedSkip ==
  \A s : \A i, j \in Nat : i <= j /\ s[j] \notin Accounts => Named(s, i, j + 1) = Named(s, i, j)
<1> SUFFICES ASSUME NEW s, NEW i \in Nat, NEW j \in Nat, i <= j, s[j] \notin Accounts
             PROVE  Named(s, i, j + 1) = Named(s, i, j)
  OBVIOUS
<1>1. i .. (j + 1) - 1 = (i .. j - 1) \cup {j}
  OBVIOUS
<1> QED BY <1>1 DEF Named

LEMMA NamedWiden ==
  \A s : \A i, j \in Nat : i < j /\ s[i] \notin Accounts => Named(s, i, j) = Named(s, i + 1, j)
<1> SUFFICES ASSUME NEW s, NEW i \in Nat, NEW j \in Nat, i < j, s[i] \notin Accounts
             PROVE  Named(s, i, j) = Named(s, i + 1, j)
  OBVIOUS
<1>1. i .. j - 1 = {i} \cup ((i + 1) .. j - 1)
  OBVIOUS
<1> QED BY <1>1 DEF Named

-----------------------------------------------------------------------------
(* The pieces of a parse function keep results well formed.                *)
LEMMA ErrorIsResult == \A s : IsText(s) => \A i : Error \in Results(s, i) /\ Error \in Entries(s, i)
<1>1. ASSUME NEW s, IsText(s) PROVE Error \in AllResults(s) /\ Error.at = 0
  <2>1. Len(s) \in Nat
    BY <1>1, TextFacts
  <2>2. <<>> \in Seq(TreesOf(s))
    OBVIOUS
  <2> QED BY <2>1, <2>2 DEF Error, Done, AllResults
<1> QED BY <1>1 DEF Results, Entries

\* A result past place i has trees of the tokens up to its end.
LEMMA ResultFacts ==
  ASSUME NEW s, IsText(s)
  PROVE  \A i : \A r \in Results(s, i) :
           /\ r.trees \in Seq(TreesOf(s)) /\ r.at \in 0 .. Len(s) + 1 /\ r.at \in Nat
           /\ r = [trees |-> r.trees, at |-> r.at]
           /\ r.at # 0 => i <= r.at /\ RefsIn(r.trees) = Named(s, i, r.at)
  BY TextFacts DEF Results, AllResults

LEMMA ResultMade ==
  ASSUME NEW s, IsText(s)
  PROVE  \A i : \A trees \in Seq(TreesOf(s)) : \A at \in 1 .. Len(s) + 1 :
           i <= at /\ RefsIn(trees) = Named(s, i, at) =>
             /\ Done(trees, at) \in Results(s, i)
             /\ Done(trees, at).at = at /\ Done(trees, at).trees = trees
  BY TextFacts DEF Results, AllResults, Done

LEMMA OperandFits ==
  ASSUME NEW s, IsText(s), NEW p \in Tables(s), NEW i \in Nat, NEW r \in Results(s, i), NEW n \in 1 .. 3
  PROVE  LET e == Operand(n, p, r)
         IN  /\ e \in Results(s, i)
             /\ e.at # 0 => /\ r.at # 0 /\ r.at < e.at /\ e = Done(r.trees \o p[r.at][n].trees, p[r.at][n].at)
                            /\ p[r.at][n] \in Entries(s, r.at)
             /\ r.at = 0 => e = Error
<1>1. PICK a \in Nat : a = r.at /\ a \in 0 .. Len(s) + 1 /\ r.trees \in Seq(TreesOf(s))
  BY ResultFacts
<1>2. r.at = 0 => Operand(n, p, r) = Error /\ Error.at = 0
  BY DEF Tables, Operand, Error, Failed, Done
<1>3. CASE r.at = 0
  BY <1>2, <1>3, ErrorIsResult
<1>4. CASE r.at # 0
  <2>1. PICK e : e = p[a][n]
    OBVIOUS
  <2>2. e \in Entries(s, a) /\ e \in Results(s, a)
    BY <1>1, <1>4, <2>1, TextFacts DEF Tables, Entries
  <2>3. PICK b \in Nat : b = e.at /\ b \in 0 .. Len(s) + 1 /\ e.trees \in Seq(TreesOf(s))
    BY <2>2, ResultFacts
  <2>4. CASE b = 0
    BY <1>1, <2>1, <2>3, <2>4, ErrorIsResult DEF Operand, Failed, Error, Done
  <2>5. CASE b # 0
    <3>1. Operand(n, p, r) = Done(r.trees \o e.trees, b)
      BY <1>1, <2>1, <2>3, <2>5 DEF Operand, Failed
    <3>2. i <= a /\ RefsIn(r.trees) = Named(s, i, a)
      BY <1>1, <1>4, ResultFacts
    <3>3. a < b /\ RefsIn(e.trees) = Named(s, a, b)
      BY <2>2, <2>3, <2>5, ResultFacts DEF Entries
    <3>4. a <= b /\ i <= b /\ b \in 1 .. Len(s) + 1
      <4>1. a <= b /\ i <= a /\ b \in Nat /\ b # 0 /\ b <= Len(s) + 1 /\ Len(s) \in Nat
        BY <2>3, <2>5, <3>2, <3>3, TextFacts
      <4> QED BY <4>1
    <3>5. Named(s, i, b) = Named(s, i, a) \cup Named(s, a, b)
      BY <3>2, <3>4, NamedSplit
    <3>6. RefsIn(r.trees \o e.trees) = RefsIn(r.trees) \cup RefsIn(e.trees)
      BY <1>1, <2>3, RefsOfJoin
    <3>7. r.trees \o e.trees \in Seq(TreesOf(s))
      BY <1>1, <2>3
    <3>8. RefsIn(r.trees \o e.trees) = Named(s, i, b)
      BY <3>2, <3>3, <3>5, <3>6
    <3>9. PICK ts : ts = r.trees \o e.trees
      OBVIOUS
    <3>10. Done(ts, b) \in Results(s, i) /\ Done(ts, b).at = b
      <4>1. ts \in Seq(TreesOf(s)) /\ RefsIn(ts) = Named(s, i, b) /\ i <= b
        BY <3>4, <3>7, <3>8, <3>9
      <4> QED BY <3>4, <4>1, ResultMade
    <3> QED BY <1>1, <1>4, <2>1, <2>2, <2>3, <2>5, <3>1, <3>3, <3>9, <3>10
  <2> QED BY <2>4, <2>5
<1> QED BY <1>3, <1>4

\* A token that is no account may be passed.
LEMMA SkipFits ==
  ASSUME NEW s, IsText(s), NEW i \in Nat, NEW r \in Results(s, i), NEW a \in 1 .. Len(s),
         r.at = a, s[a] \notin Accounts
  PROVE  Skip(r) \in Results(s, i) /\ Skip(r) = Done(r.trees, a + 1)
<1>1. a \in Nat /\ r.trees \in Seq(TreesOf(s)) /\ a # 0
  BY ResultFacts, TextFacts
<1>2. i <= a /\ RefsIn(r.trees) = Named(s, i, a)
  BY <1>1, ResultFacts
<1>3. Named(s, i, a + 1) = Named(s, i, a)
  BY <1>1, <1>2, NamedSkip
<1>4. a + 1 \in 1 .. Len(s) + 1 /\ i <= a + 1
  <2>1. Len(s) \in Nat /\ i <= a
    BY <1>2, TextFacts
  <2> QED BY <2>1
<1> QED BY <1>1, <1>2, <1>3, <1>4, ResultMade DEF Skip

LEMMA MadeFits ==
  ASSUME NEW s, IsText(s), NEW i \in Nat, NEW r \in Results(s, i), NEW op \in Toks(s), op \notin Accounts
  PROVE  LET e == Made(op, r)
         IN  /\ e \in Results(s, i) /\ e.at = r.at
             /\ e.at # 0 => Len(e.trees) = 1 /\ e = Done(<<Node(op, r.trees)>>, r.at)
<1>1. PICK a \in Nat : a = r.at /\ a \in 0 .. Len(s) + 1 /\ r.trees \in Seq(TreesOf(s))
  BY ResultFacts
<1>2. CASE a = 0
  BY <1>1, <1>2, ErrorIsResult DEF Made, Failed, Error, Done
<1>3. CASE a # 0
  <2>1. PICK t : t = Node(op, r.trees)
    OBVIOUS
  <2>2. Made(op, r) = Done(<<t>>, a)
    BY <1>1, <1>3, <2>1 DEF Made, Failed
  <2>3. t \in TreesOf(s) /\ Refs(t) = ({op} \cap Accounts) \cup RefsIn(r.trees)
    BY <1>1, <2>1, NodeMadeOf
  <2>4. <<t>> \in Seq(TreesOf(s)) /\ Len(<<t>>) = 1
    BY <2>3
  <2>5. i <= a /\ RefsIn(<<t>>) = Named(s, i, a)
    BY <1>1, <1>3, <2>3, ResultFacts, RefsOfOne
  <2>6. a \in 1 .. Len(s) + 1
    BY <1>1, <1>3
  <2>7. PICK ts : ts = <<t>>
    OBVIOUS
  <2>8. ts \in Seq(TreesOf(s)) /\ RefsIn(ts) = Named(s, i, a) /\ i <= a
    BY <2>4, <2>5, <2>7
  <2>9. Done(ts, a) \in Results(s, i) /\ Done(ts, a).at = a /\ Done(ts, a).trees = ts
    BY <2>6, <2>8, ResultMade
  <2> QED BY <1>1, <2>1, <2>2, <2>4, <2>7, <2>9
<1> QED BY <1>2, <1>3

\* What starts behind a token that is no account may start at it.
LEMMA WidenFits ==
  ASSUME NEW s, IsText(s), NEW i \in 1 .. Len(s), s[i] \notin Accounts, NEW r \in Results(s, i + 1)
  PROVE  r \in Results(s, i) /\ (r.at # 0 => i < r.at)
<1>1. PICK a \in Nat : a = r.at
  BY ResultFacts
<1>2. a # 0 => i + 1 <= a /\ RefsIn(r.trees) = Named(s, i + 1, a)
  BY <1>1, ResultFacts
<1>3. i \in Nat
  BY TextFacts
<1>4. a # 0 => i < a /\ i <= a
  BY <1>2, <1>3
<1>5. a # 0 => Named(s, i, a) = Named(s, i + 1, a)
  BY <1>3, <1>4, NamedWiden
<1> QED BY <1>1, <1>2, <1>4, <1>5 DEF Results

LEMMA ExpectFits ==
  ASSUME NEW s, IsText(s), NEW i \in Nat, NEW r \in Results(s, i), NEW tok, tok \notin Accounts, tok # End
  PROVE  LET e == Expect(s, r, tok)
         IN  /\ e \in Results(s, i)
             /\ e.at # 0 => /\ r.at \in 1 .. Len(s) /\ s[r.at] = tok /\ e = Done(r.trees, r.at + 1)
<1>1. PICK a \in Nat : a = r.at /\ a \in 0 .. Len(s) + 1
  BY ResultFacts
<1>2. CASE Peek(s, a) = tok
  <2>1. a \in 1 .. Len(s) /\ s[a] = tok
    BY <1>2, PeekFacts
  <2>2. Skip(r) \in Results(s, i) /\ Skip(r) = Done(r.trees, a + 1)
    BY <1>1, <2>1, SkipFits
  <2> QED BY <1>1, <1>2, <2>1, <2>2 DEF Expect
<1>3. CASE Peek(s, a) # tok
  BY <1>1, <1>3, ErrorIsResult DEF Expect, Error, Done
<1> QED BY <1>2, <1>3

-----------------------------------------------------------------------------
(* The loops.                                                              *)
LEMMA OneMoreFits ==
  ASSUME NEW s, IsText(s), NEW p \in Tables(s), NEW i \in Nat, NEW r \in Results(s, i)
  PROVE  OneMore(s, p, r) \in Results(s, i)
<1>1. PICK a \in Nat : a = r.at
  BY ResultFacts
<1>2. CASE Peek(s, a) = ","
  <2>1. a \in 1 .. Len(s) /\ s[a] = ","
    <3>1. "," # End
      BY DEF End
    <3> QED BY <1>2, <3>1, PeekFacts
  <2>2. "," \notin Accounts
    BY AccountsApart
  <2>3. Skip(r) \in Results(s, i)
    BY <1>1, <2>1, <2>2, SkipFits
  <2>4. 1 \in 1 .. 3
    OBVIOUS
  <2>5. Operand(1, p, Skip(r)) \in Results(s, i)
    BY <2>3, <2>4, OperandFits
  <2> QED BY <1>1, <1>2, <2>5 DEF OneMore
<1>3. CASE Peek(s, a) # ","
  BY <1>1, <1>3 DEF OneMore
<1> QED BY <1>2, <1>3

\* The turns of a loop, each made of the one before it.
MoreTurns(s, p, t)    == \A k \in 1 .. Len(s) : t[k] = OneMore(s, p, t[k - 1])
RestTurns(n, s, p, t) == \A k \in 1 .. Len(s) : t[k] = OneTurn(n, s, p, t[k - 1])

LEMMA MoreIsLast ==
  ASSUME NEW s, IsText(s), NEW p \in Tables(s), NEW i \in Nat, NEW r \in Results(s, i)
  PROVE  \E t \in [0 .. Len(s) -> Results(s, i)] :
           t[0] = r /\ MoreTurns(s, p, t) /\ More(s, p, r) = t[Len(s)]
<1> DEFINE N == Len(s)
           S == Results(s, i)
           f == [x \in (0 .. N) \X S |-> OneMore(s, p, x[2])]
           Is(t) == t = [k \in 0 .. N |-> IF k = 0 THEN r ELSE OneMore(s, p, t[k - 1])]
           c == CHOOSE t : Is(t)
<1>1. N \in Nat
  BY TextFacts
<1>2. f \in [(0 .. N) \X S -> S]
  <2>1. \A x \in (0 .. N) \X S : OneMore(s, p, x[2]) \in S
    BY OneMoreFits
  <2> QED BY <2>1
<1>3. \A k \in 0 .. N : \A x \in S : f[<<k, x>>] = OneMore(s, p, x)
  OBVIOUS
<1>4. PICK t \in [0 .. N -> S] : t[0] = r /\ \A k \in 1 .. N : t[k] = f[<<k, t[k - 1]>>]
  <2>1. r \in S
    OBVIOUS
  <2> HIDE DEF N, S, f
  <2>2. f \in StepFunctions(N, S)
    BY <1>2 DEF StepFunctions
  <2>3. Runs(N, S, r, f) # {}
    BY <1>1, <2>1, <2>2, StepsExist
  <2> QED BY <2>3 DEF Runs
<1>5. ASSUME NEW k \in 0 .. N
      PROVE  t[k] = IF k = 0 THEN r ELSE OneMore(s, p, t[k - 1])
  <2>1. CASE k = 0
    BY <1>4, <2>1
  <2>2. CASE k # 0
    <3>1. k \in 1 .. N /\ k - 1 \in 0 .. N
      BY <1>1, <2>2
    <3>2. t[k - 1] \in S
      BY <3>1
    <3> HIDE DEF N, S, f
    <3> QED BY <1>3, <1>4, <2>2, <3>1, <3>2
  <2> QED BY <2>1, <2>2
<1>6. Is(t)
  <2>1. t = [k \in 0 .. N |-> t[k]]
    OBVIOUS
  <2> HIDE DEF N
  <2> QED BY <1>5, <2>1
<1>7. Is(c)
  <2> HIDE DEF Is
  <2> QED BY <1>6
<1>8. More(s, p, r) = c[N]
  BY DEF More
<1> HIDE DEF c
<1>9. /\ DOMAIN c = 0 .. N /\ c[0] = r
      /\ \A k \in 1 .. N : k - 1 \in 0 .. N /\ c[k] = OneMore(s, p, c[k - 1])
  <2> HIDE DEF N
  <2>1. 0 \in 0 .. N /\ \A k \in 1 .. N : k \in 0 .. N /\ k # 0 /\ k - 1 \in 0 .. N
    BY <1>1
  <2> QED BY <1>7, <2>1
<1>10. 0 .. N \subseteq {k \in 0 .. N : c[k] \in S}
  <2> DEFINE G == {k \in 0 .. N : c[k] \in S}
  <2>1. 0 \in G
    <3>1. 0 \in 0 .. N
      BY <1>1
    <3> HIDE DEF N
    <3> QED BY <1>9, <3>1
  <2>2. ASSUME NEW k \in 0 .. N - 1, k \in G
        PROVE  k + 1 \in G
    <3>1. k + 1 \in 1 .. N /\ (k + 1) - 1 = k /\ k + 1 \in 0 .. N
      BY <1>1
    <3>2. c[k] \in S
      BY <2>2
    <3> HIDE DEF N
    <3>3. c[k + 1] = OneMore(s, p, c[k])
      BY <1>9, <3>1
    <3> QED BY <3>1, <3>2, <3>3, OneMoreFits
  <2> HIDE DEF G
  <2>3. 0 .. N \subseteq G
    BY <1>1, <2>1, <2>2, Stepwise
  <2> QED BY <2>3 DEF G
<1>11. c \in [0 .. N -> S]
  <2>1. c = [k \in 0 .. N |-> c[k]]
    BY <1>7
  <2> HIDE DEF N, S
  <2> QED BY <1>10, <2>1
<1> HIDE DEF S
<1>12. MoreTurns(s, p, c)
  BY <1>9 DEF MoreTurns
<1> QED BY <1>8, <1>9, <1>11, <1>12 DEF S

LEMMA OneTurnFits ==
  ASSUME NEW s, IsText(s), NEW p \in Tables(s), NEW i \in Nat, NEW r \in Entries(s, i), NEW n \in {1, 2}
  PROVE  OneTurn(n, s, p, r) \in Entries(s, i)
<1>1. r \in Results(s, i)
  BY DEF Entries
<1>2. PICK a \in Nat : a = r.at
  BY <1>1, ResultFacts
<1>3. CASE Peek(s, a) \in Levels[n]
  <2>1. Peek(s, a) # End
    BY <1>3, AccountsApart
  <2>2. a \in 1 .. Len(s) /\ s[a] = Peek(s, a) /\ s[a] \in Toks(s) /\ a # 0
    <3>1. a \in 1 .. Len(s) /\ s[a] = Peek(s, a) /\ s[a] \in Toks(s)
      BY <2>1, PeekFacts
    <3> QED BY <3>1, TextFacts
  <2>3. s[a] \notin Accounts
    BY <1>3, <2>2, AccountsApart
  <2>4. Skip(r) \in Results(s, i) /\ Skip(r) = Done(r.trees, a + 1) /\ Skip(r).at = a + 1
    <3>1. Skip(r) \in Results(s, i) /\ Skip(r) = Done(r.trees, a + 1)
      BY <1>1, <1>2, <2>2, <2>3, SkipFits
    <3> QED BY <3>1 DEF Done
  <2>5. n + 1 \in 1 .. 3
    OBVIOUS
  <2>6. PICK e : e = Operand(n + 1, p, Skip(r))
    OBVIOUS
  <2>7. e \in Results(s, i) /\ (e.at # 0 => Skip(r).at < e.at)
    BY <2>4, <2>5, <2>6, OperandFits
  <2>8. PICK m : m = Made(s[a], e)
    OBVIOUS
  <2>9. m \in Results(s, i) /\ m.at = e.at /\ (m.at # 0 => Len(m.trees) = 1)
    BY <2>2, <2>3, <2>7, <2>8, MadeFits
  <2>10. m.at # 0 => i < m.at
    <3>1. PICK b \in Nat : b = m.at
      BY <2>9, ResultFacts
    <3>2. b # 0 => a + 1 < b
      BY <2>4, <2>7, <2>9, <3>1
    <3>3. i < a
      BY <1>2, <2>2 DEF Entries
    <3>4. b # 0 => i < b
      BY <3>2, <3>3
    <3> QED BY <3>1, <3>4
  <2>11. OneTurn(n, s, p, r) = m
    BY <1>2, <1>3, <2>6, <2>8 DEF OneTurn
  <2> QED BY <2>9, <2>10, <2>11 DEF Entries
<1>4. CASE Peek(s, a) \notin Levels[n]
  BY <1>2, <1>4 DEF OneTurn
<1> QED BY <1>3, <1>4

LEMMA RestIsLast ==
  ASSUME NEW s, IsText(s), NEW p \in Tables(s), NEW i \in Nat, NEW r \in Entries(s, i), NEW n \in {1, 2}
  PROVE  \E t \in [0 .. Len(s) -> Entries(s, i)] :
           t[0] = r /\ RestTurns(n, s, p, t) /\ Rest(n, s, p, r) = t[Len(s)]
<1> DEFINE N == Len(s)
           S == Entries(s, i)
           f == [x \in (0 .. N) \X S |-> OneTurn(n, s, p, x[2])]
           Is(t) == t = [k \in 0 .. N |-> IF k = 0 THEN r ELSE OneTurn(n, s, p, t[k - 1])]
           c == CHOOSE t : Is(t)
<1>1. N \in Nat
  BY TextFacts
<1>2. f \in [(0 .. N) \X S -> S]
  <2>1. \A x \in (0 .. N) \X S : OneTurn(n, s, p, x[2]) \in S
    BY OneTurnFits
  <2> QED BY <2>1
<1>3. \A k \in 0 .. N : \A x \in S : f[<<k, x>>] = OneTurn(n, s, p, x)
  OBVIOUS
<1>4. PICK t \in [0 .. N -> S] : t[0] = r /\ \A k \in 1 .. N : t[k] = f[<<k, t[k - 1]>>]
  <2>1. r \in S
    OBVIOUS
  <2> HIDE DEF N, S, f
  <2>2. f \in StepFunctions(N, S)
    BY <1>2 DEF StepFunctions
  <2>3. Runs(N, S, r, f) # {}
    BY <1>1, <2>1, <2>2, StepsExist
  <2> QED BY <2>3 DEF Runs
<1>5. ASSUME NEW k \in 0 .. N
      PROVE  t[k] = IF k = 0 THEN r ELSE OneTurn(n, s, p, t[k - 1])
  <2>1. CASE k = 0
    BY <1>4, <2>1
  <2>2. CASE k # 0
    <3>1. k \in 1 .. N /\ k - 1 \in 0 .. N
      BY <1>1, <2>2
    <3>2. t[k - 1] \in S
      BY <3>1
    <3> HIDE DEF N, S, f
    <3> QED BY <1>3, <1>4, <2>2, <3>1, <3>2
  <2> QED BY <2>1, <2>2
<1>6. Is(t)
  <2>1. t = [k \in 0 .. N |-> t[k]]
    OBVIOUS
  <2> HIDE DEF N
  <2> QED BY <1>5, <2>1
<1>7. Is(c)
  <2> HIDE DEF Is
  <2> QED BY <1>6
<1>8. Rest(n, s, p, r) = c[N]
  BY DEF Rest
<1> HIDE DEF c
<1>9. /\ DOMAIN c = 0 .. N /\ c[0] = r
      /\ \A k \in 1 .. N : k - 1 \in 0 .. N /\ c[k] = OneTurn(n, s, p, c[k - 1])
  <2> HIDE DEF N
  <2>1. 0 \in 0 .. N /\ \A k \in 1 .. N : k \in 0 .. N /\ k # 0 /\ k - 1 \in 0 .. N
    BY <1>1
  <2> QED BY <1>7, <2>1
<1>10. 0 .. N \subseteq {k \in 0 .. N : c[k] \in S}
  <2> DEFINE G == {k \in 0 .. N : c[k] \in S}
  <2>1. 0 \in G
    <3>1. 0 \in 0 .. N
      BY <1>1
    <3> HIDE DEF N
    <3> QED BY <1>9, <3>1
  <2>2. ASSUME NEW k \in 0 .. N - 1, k \in G
        PROVE  k + 1 \in G
    <3>1. k + 1 \in 1 .. N /\ (k + 1) - 1 = k /\ k + 1 \in 0 .. N
      BY <1>1
    <3>2. c[k] \in S
      BY <2>2
    <3> HIDE DEF N
    <3>3. c[k + 1] = OneTurn(n, s, p, c[k])
      BY <1>9, <3>1
    <3> QED BY <3>1, <3>2, <3>3, OneTurnFits
  <2> HIDE DEF G
  <2>3. 0 .. N \subseteq G
    BY <1>1, <2>1, <2>2, Stepwise
  <2> QED BY <2>3 DEF G
<1>11. c \in [0 .. N -> S]
  <2>1. c = [k \in 0 .. N |-> c[k]]
    BY <1>7
  <2> HIDE DEF N, S
  <2> QED BY <1>10, <2>1
<1> HIDE DEF S
<1>12. RestTurns(n, s, p, c)
  BY <1>9 DEF RestTurns
<1> QED BY <1>8, <1>9, <1>11, <1>12 DEF S

-----------------------------------------------------------------------------
(* The parse functions.                                                    *)
LEMMA Nonterminals == 1 \in 1 .. 3 /\ 2 \in 1 .. 3 /\ 3 \in 1 .. 3
  OBVIOUS

LEMMA PunctuationApart ==
  /\ \A t \in {"(", ")", ",", "-"} : t \notin Accounts /\ t # End
  /\ \A t \in Cmps \cup Funcs : t \notin Accounts /\ t # End
  /\ End \notin Accounts
<1>1. "(" # End /\ ")" # End /\ "," # End /\ "-" # End
  BY DEF End
<1> QED BY <1>1, AccountsApart

LEMMA CondFits ==
  ASSUME NEW s, IsText(s), NEW p \in Tables(s), NEW i \in Nat, NEW r \in Results(s, i)
  PROVE  Cond(s, p, r) \in Results(s, i)
<1>1. PICK left : left = Operand(1, p, r)
  OBVIOUS
<1>2. left \in Results(s, i)
  BY <1>1, Nonterminals, OperandFits
<1>3. PICK a \in Nat : a = left.at
  BY <1>2, ResultFacts
<1>4. CASE Peek(s, a) \in Cmps
  <2>1. a \in 1 .. Len(s) /\ s[a] = Peek(s, a) /\ s[a] \in Toks(s) /\ s[a] \notin Accounts
    BY <1>4, PunctuationApart, PeekFacts
  <2>2. Skip(left) \in Results(s, i)
    BY <1>2, <1>3, <2>1, SkipFits
  <2>3. Operand(1, p, Skip(left)) \in Results(s, i)
    BY <2>2, Nonterminals, OperandFits
  <2>4. Made(s[a], Operand(1, p, Skip(left))) \in Results(s, i)
    BY <2>1, <2>3, MadeFits
  <2> QED BY <1>1, <1>3, <1>4, <2>1, <2>4 DEF Cond
<1>5. CASE Peek(s, a) \notin Cmps
  BY <1>1, <1>3, <1>5, ErrorIsResult DEF Cond
<1> QED BY <1>4, <1>5

LEMMA CallFits ==
  ASSUME NEW s, IsText(s), NEW p \in Tables(s), NEW i \in 1 .. Len(s), s[i] \in Funcs
  PROVE  Call(s, p, s[i], i + 1) \in Entries(s, i)
<1>1. i \in Nat /\ i + 1 \in Nat /\ s[i] \in Toks(s) /\ s[i] \notin Accounts
  <2>1. s[i] \notin Accounts
    BY PunctuationApart
  <2>2. Len(s) \in Nat /\ s[i] \in Toks(s)
    BY TextFacts
  <2> QED BY <2>1, <2>2
<1> DEFINE R == Results(s, i + 1)
<1>2. Done(<<>>, i + 1) \in R
  <2>1. i + 1 \in 1 .. Len(s) + 1 /\ i + 1 <= i + 1 /\ <<>> \in Seq(TreesOf(s))
    BY TextFacts
  <2>2. RefsIn(<<>>) = Named(s, i + 1, i + 1)
    BY <1>1, RefsOfNone, NamedNone
  <2> QED BY <2>1, <2>2, ResultMade
<1>3. \A r \in R : /\ Operand(1, p, r) \in R /\ Cond(s, p, r) \in R /\ More(s, p, r) \in R
  <2> SUFFICES ASSUME NEW r \in R
               PROVE  Operand(1, p, r) \in R /\ Cond(s, p, r) \in R /\ More(s, p, r) \in R
    OBVIOUS
  <2>1. Operand(1, p, r) \in R /\ Cond(s, p, r) \in R
    BY <1>1, Nonterminals, OperandFits, CondFits
  <2>2. PICK t \in [0 .. Len(s) -> R] : More(s, p, r) = t[Len(s)]
    BY <1>1, MoreIsLast
  <2>3. Len(s) \in 0 .. Len(s)
    BY TextFacts
  <2> HIDE DEF R
  <2> QED BY <2>1, <2>2, <2>3
<1>4. \A r \in R : Expect(s, r, "(") \in R /\ Expect(s, r, ")") \in R /\ Expect(s, r, ",") \in R
  <2>1. \A tok \in {"(", ")", ","} : tok \notin Accounts /\ tok # End
    BY PunctuationApart
  <2>2. \A tok \in {"(", ")", ","} : \A r \in R : Expect(s, r, tok) \in R
    BY <1>1, <2>1, ExpectFits
  <2> QED BY <2>2
<1> DEFINE open == Expect(s, Done(<<>>, i + 1), "(")
           args == IF s[i] = "IF"
                     THEN Operand(1, p, Expect(s, Operand(1, p, Expect(s, Cond(s, p, open), ",")), ","))
                     ELSE More(s, p, Operand(1, p, open))
           call == Made(s[i], Expect(s, args, ")"))
<1>5. args \in R
  <2> HIDE DEF R
  <2>1. open \in R
    BY <1>2, <1>4
  <2> HIDE DEF open
  <2>2. More(s, p, Operand(1, p, open)) \in R
    BY <2>1, <1>3
  <2>3. Operand(1, p, Expect(s, Cond(s, p, open), ",")) \in R
    BY <2>1, <1>3, <1>4
  <2>4. Operand(1, p, Expect(s, Operand(1, p, Expect(s, Cond(s, p, open), ",")), ",")) \in R
    BY <2>3, <1>3, <1>4
  <2> QED BY <2>2, <2>4
<1>6. call \in R /\ (call.at # 0 => Len(call.trees) = 1)
  <2> HIDE DEF args
  <2>1. Expect(s, args, ")") \in R
    BY <1>4, <1>5
  <2> QED BY <1>1, <2>1, MadeFits
<1>7. Call(s, p, s[i], i + 1) \in {call, Error}
  BY DEF Call
<1>8. call \in Entries(s, i)
  <2> HIDE DEF call
  <2>1. call \in Results(s, i) /\ (call.at # 0 => i < call.at)
    BY <1>1, <1>6, WidenFits
  <2> QED BY <1>6, <2>1 DEF Entries
<1> QED BY <1>7, <1>8, ErrorIsResult

\* The cases of a factor exclude each other.
FactorCases(s, p, t, i, b, f) ==
  /\ t = "-" => f = Made("neg", Operand(3, p, b))
  /\ t \in Numbers \cup Accounts => f = Done(<<Leaf(t)>>, i)
  /\ t = "(" => f = Expect(s, Operand(1, p, b), ")")
  /\ t \in Funcs => f = Call(s, p, t, i)
  /\ t \notin {"-", "("} \cup Numbers \cup Accounts \cup Funcs => f = Error

LEMMA FactorIs ==
  \A s, p, i : FactorCases(s, p, Peek(s, i), i + 1, Done(<<>>, i + 1), Factor(s, p, i))
<1> SUFFICES ASSUME NEW s, NEW p, NEW i
             PROVE  FactorCases(s, p, Peek(s, i), i + 1, Done(<<>>, i + 1), Factor(s, p, i))
  OBVIOUS
<1>1. PICK t : t = Peek(s, i)
  OBVIOUS
<1>2. PICK b, j, f : b = Done(<<>>, j) /\ j = i + 1 /\ f = Factor(s, p, i)
  OBVIOUS
<1>3. \A x \in Numbers \cup Accounts : x # "-" /\ x # "(" /\ x \notin Funcs
  BY TokensAssumption DEF Operators, Levels, Punctuation
<1>4. "-" \notin Funcs /\ "(" \notin Funcs
  BY DEF Funcs
<1>5. f = CASE t = "-"                     -> Made("neg", Operand(3, p, b))
            [] t \in Numbers \cup Accounts -> Done(<<Leaf(t)>>, j)
            [] t = "("                     -> Expect(s, Operand(1, p, b), ")")
            [] t \in Funcs                 -> Call(s, p, t, j)
            [] OTHER                       -> Error
  BY <1>1, <1>2 DEF Factor
<1>6. t = "-" => f = Made("neg", Operand(3, p, b))
  BY <1>3, <1>4, <1>5
<1>7. t \in Numbers \cup Accounts => f = Done(<<Leaf(t)>>, j)
  BY <1>3, <1>5
<1>8. t = "(" => f = Expect(s, Operand(1, p, b), ")")
  BY <1>3, <1>4, <1>5
<1>9. t \in Funcs => f = Call(s, p, t, j)
  BY <1>3, <1>4, <1>5
<1>10. t \notin {"-", "("} \cup Numbers \cup Accounts \cup Funcs => f = Error
  BY <1>5
<1>11. FactorCases(s, p, t, j, b, f)
  BY <1>6, <1>7, <1>8, <1>9, <1>10 DEF FactorCases
<1> QED BY <1>1, <1>2, <1>11

\* An operand behind a token is one tree.
LEMMA FirstOperand ==
  ASSUME NEW s, IsText(s), NEW p \in Tables(s), NEW j \in 1 .. Len(s) + 1, NEW n \in 1 .. 3
  PROVE  /\ Done(<<>>, j) \in Results(s, j)
         /\ Operand(n, p, Done(<<>>, j)) \in Results(s, j)
         /\ Operand(n, p, Done(<<>>, j)).at # 0 => Len(Operand(n, p, Done(<<>>, j)).trees) = 1
<1>1. j \in Nat
  BY TextFacts
<1>2. PICK d : d = Done(<<>>, j)
  OBVIOUS
<1>3. d \in Results(s, j) /\ d.trees = <<>> /\ d.at = j
  <2>1. PICK none : none = <<>>
    OBVIOUS
  <2>2. j <= j /\ none \in Seq(TreesOf(s)) /\ RefsIn(none) = Named(s, j, j)
    <3>1. RefsIn(none) = {} /\ Named(s, j, j) = {}
      BY <1>1, <2>1, RefsOfNone, NamedNone
    <3>2. none \in Seq(TreesOf(s)) /\ j <= j
      BY <1>1, <2>1
    <3> QED BY <3>1, <3>2
  <2>3. Done(none, j) \in Results(s, j) /\ Done(none, j).trees = none /\ Done(none, j).at = j
    BY <2>2, ResultMade
  <2> QED BY <1>2, <2>1, <2>3
<1>4. PICK e, q : e = Operand(n, p, d) /\ q = p[j][n]
  OBVIOUS
<1>5. e \in Results(s, j) /\ (e.at # 0 => e = Done(<<>> \o q.trees, q.at) /\ q \in Entries(s, j))
  <2>7. d \in Results(s, j) /\ e = Operand(n, p, d)
    BY <1>3, <1>4
  <2>1. e \in Results(s, j)
    BY <1>1, <2>7, OperandFits
  <2>2. e.at # 0 => e = Done(d.trees \o p[d.at][n].trees, p[d.at][n].at)
    BY <1>1, <2>7, OperandFits
  <2>3. e.at # 0 => p[d.at][n] \in Entries(s, d.at)
    BY <1>1, <2>7, OperandFits
  <2>4. p[d.at][n] = q /\ d.at = j
    BY <1>3, <1>4
  <2>5. Done(d.trees \o q.trees, q.at) = Done(<<>> \o q.trees, q.at)
    BY <1>3
  <2>6. e.at # 0 => e = Done(d.trees \o q.trees, q.at) /\ q \in Entries(s, j)
    BY <2>2, <2>3, <2>4
  <2> QED BY <2>1, <2>5, <2>6
<1>6. ASSUME e.at # 0
      PROVE  Len(e.trees) = 1
  <2>1. q \in Entries(s, j) /\ e = Done(<<>> \o q.trees, q.at) /\ q \in Results(s, j)
    BY <1>5, <1>6 DEF Entries
  <2>2. q.trees \in Seq(TreesOf(s)) /\ e.trees = <<>> \o q.trees /\ e.at = q.at
    BY <2>1, ResultFacts DEF Done
  <2>3. <<>> \o q.trees = q.trees
    BY <2>2
  <2> QED BY <1>6, <2>1, <2>2, <2>3 DEF Entries
<1> QED BY <1>2, <1>3, <1>4, <1>5, <1>6

\* A number or a reference is a tree of its own.
LEMMA LeafFits ==
  ASSUME NEW s, IsText(s), NEW i \in 1 .. Len(s)
  PROVE  Done(<<Leaf(s[i])>>, i + 1) \in Entries(s, i)
<1>1. i \in Nat /\ i < i + 1 /\ i <= i + 1 /\ i + 1 \in 1 .. Len(s) + 1 /\ i .. (i + 1) - 1 = {i}
  <2>1. Len(s) \in Nat
    BY TextFacts
  <2> QED BY <2>1
<1>2. PICK x : x = s[i] /\ x \in Toks(s)
  BY TextFacts
<1>3. PICK none : none = <<>> /\ none \in Seq(TreesOf(s)) /\ RefsIn(none) = {}
  <2>1. PICK none : none = <<>>
    OBVIOUS
  <2>2. none \in Seq(TreesOf(s)) /\ RefsIn(none) = {}
    BY <2>1, RefsOfNone
  <2> QED BY <2>1, <2>2
<1>4. PICK t : t = Node(x, none)
  OBVIOUS
<1>5. t \in TreesOf(s) /\ Refs(t) = ({x} \cap Accounts) \cup RefsIn(none)
  BY <1>2, <1>3, <1>4, NodeMadeOf
<1>6. PICK ts : ts = <<t>>
  OBVIOUS
<1>7. ts \in Seq(TreesOf(s)) /\ Len(ts) = 1 /\ RefsIn(ts) = {x} \cap Accounts
  BY <1>3, <1>5, <1>6, RefsOfOne
<1>8. Named(s, i, i + 1) = {x} \cap Accounts
  BY <1>1, <1>2 DEF Named
<1>9. Done(ts, i + 1) \in Results(s, i) /\ Done(ts, i + 1).at = i + 1 /\ Done(ts, i + 1).trees = ts
  <2>1. PICK j : j = i + 1 /\ j \in 1 .. Len(s) + 1 /\ i <= j
    BY <1>1
  <2>2. RefsIn(ts) = Named(s, i, j) /\ ts \in Seq(TreesOf(s)) /\ j \in 1 .. Len(s) + 1 /\ i <= j
    BY <1>7, <1>8, <2>1
  <2>3. Done(ts, j) \in Results(s, i) /\ Done(ts, j).at = j /\ Done(ts, j).trees = ts
    BY <2>2, ResultMade
  <2> QED BY <2>1, <2>3
<1>10. Done(ts, i + 1) \in Entries(s, i)
  BY <1>1, <1>7, <1>9 DEF Entries
<1> QED BY <1>2, <1>3, <1>4, <1>6, <1>10 DEF Leaf

LEMMA FactorFits ==
  ASSUME NEW s, IsText(s), NEW p \in Tables(s), NEW i \in 1 .. Len(s) + 1
  PROVE  Factor(s, p, i) \in Entries(s, i)
<1>1. i \in Nat /\ Len(s) \in Nat
  BY TextFacts
<1>2. PICK f, b, j, t : /\ f = Factor(s, p, i) /\ b = Done(<<>>, j) /\ j = i + 1 /\ t = Peek(s, i)
                        /\ FactorCases(s, p, t, j, b, f)
  BY FactorIs
<1>3. CASE i \notin 1 .. Len(s)
  <2>1. t = End
    BY <1>2, <1>3, TextFacts DEF Peek
  <2>2. End \notin {"-", "("} /\ End \notin Numbers \cup Accounts /\ End \notin Funcs
    <3>1. End # "-" /\ End # "("
      BY DEF End
    <3>2. End \notin Numbers
      BY TokensAssumption DEF Punctuation
    <3> QED BY <3>1, <3>2, PunctuationApart
  <2>3. f = Error
    BY <1>2, <2>1, <2>2 DEF FactorCases
  <2> QED BY <1>2, <2>3, ErrorIsResult
<1>4. CASE i \in 1 .. Len(s)
  <2>1. t = s[i] /\ t \in Toks(s) /\ j \in Nat /\ j \in 1 .. Len(s) + 1 /\ i < j
    BY <1>1, <1>2, <1>4, TextFacts DEF Peek
  <2>2. \A n \in 1 .. 3 : /\ Operand(n, p, b) \in Results(s, j)
                          /\ Operand(n, p, b).at # 0 => Len(Operand(n, p, b).trees) = 1
    BY <1>2, <2>1, FirstOperand
  <2>3. \A e : t \notin Accounts /\ e \in Results(s, j) /\ (e.at # 0 => Len(e.trees) = 1) => e \in Entries(s, i)
    BY <1>2, <1>4, <2>1, WidenFits DEF Entries
  <2>4. CASE t = "-"
    <3>1. t \notin Accounts /\ "neg" \in Toks(s) /\ "neg" \notin Accounts
      BY <2>4, AccountsApart DEF Toks
    <3>2. PICK d : d = Operand(3, p, b)
      OBVIOUS
    <3>5. d \in Results(s, j)
      BY <2>2, <3>2, Nonterminals
    <3>3. Made("neg", d) \in Results(s, j) /\ (Made("neg", d).at # 0 => Len(Made("neg", d).trees) = 1)
      BY <2>1, <3>1, <3>5, MadeFits
    <3>4. f = Made("neg", d)
      BY <1>2, <2>4, <3>2 DEF FactorCases
    <3> QED BY <1>2, <2>3, <3>1, <3>3, <3>4
  <2>5. CASE t \in Numbers \cup Accounts
    <3>1. f = Done(<<Leaf(t)>>, j)
      BY <1>2, <2>5 DEF FactorCases
    <3> QED BY <1>2, <1>4, <2>1, <3>1, LeafFits
  <2>6. CASE t = "("
    <3>1. t \notin Accounts /\ ")" \notin Accounts /\ ")" # End
      BY <2>6, PunctuationApart
    <3>2. PICK d : d = Operand(1, p, b)
      OBVIOUS
    <3>7. d \in Results(s, j) /\ (d.at # 0 => Len(d.trees) = 1)
      BY <2>2, <3>2, Nonterminals
    <3>3. PICK e : e = Expect(s, d, ")")
      OBVIOUS
    <3>4. e \in Results(s, j) /\ (e.at # 0 => d.at \in 1 .. Len(s) /\ e = Done(d.trees, d.at + 1))
      BY <2>1, <3>1, <3>3, <3>7, ExpectFits
    <3>5. e.at # 0 => Len(e.trees) = 1
      <4>1. d.at \in 1 .. Len(s) => d.at # 0
        OBVIOUS
      <4> QED BY <3>4, <3>7, <4>1 DEF Done
    <3>6. f = e
      BY <1>2, <2>6, <3>2, <3>3 DEF FactorCases
    <3> QED BY <1>2, <2>3, <3>1, <3>4, <3>5, <3>6
  <2>7. CASE t \in Funcs
    <3>1. f = Call(s, p, t, j)
      BY <1>2, <2>7 DEF FactorCases
    <3>2. Call(s, p, s[i], i + 1) \in Entries(s, i)
      BY <1>4, <2>1, <2>7, CallFits
    <3> QED BY <1>2, <2>1, <3>1, <3>2
  <2>8. CASE t \notin {"-", "("} \cup Numbers \cup Accounts \cup Funcs
    <3>1. f = Error
      BY <1>2, <2>8 DEF FactorCases
    <3> QED BY <1>2, <3>1, ErrorIsResult
  <2> QED BY <2>4, <2>5, <2>6, <2>7, <2>8
<1> QED BY <1>3, <1>4

-----------------------------------------------------------------------------
(* The table, and what it says of a formula.                               *)
LEMMA ResultsAtFit ==
  ASSUME NEW s, IsText(s), NEW p \in Tables(s), NEW i \in 1 .. Len(s) + 1
  PROVE  \A n \in 1 .. 3 : ResultsAt(s, p, i)[n] \in Entries(s, i)
<1>1. i \in Nat /\ Len(s) \in Nat
  BY TextFacts
<1>2. \A n \in {1, 2} : \A r \in Entries(s, i) : Rest(n, s, p, r) \in Entries(s, i)
  <2> SUFFICES ASSUME NEW n \in {1, 2}, NEW r \in Entries(s, i) PROVE Rest(n, s, p, r) \in Entries(s, i)
    OBVIOUS
  <2>1. PICK t \in [0 .. Len(s) -> Entries(s, i)] : Rest(n, s, p, r) = t[Len(s)]
    BY <1>1, RestIsLast
  <2>2. Len(s) \in 0 .. Len(s)
    BY <1>1
  <2> QED BY <2>1, <2>2
<1>3. PICK factor : factor = Factor(s, p, i) /\ factor \in Entries(s, i)
  BY FactorFits
<1>4. PICK term : term = Rest(2, s, p, factor) /\ term \in Entries(s, i)
  BY <1>2, <1>3
<1>5. PICK expr : expr = Rest(1, s, p, term) /\ expr \in Entries(s, i)
  BY <1>2, <1>4
<1>6. ResultsAt(s, p, i) = <<expr, term, factor>>
  BY <1>3, <1>4, <1>5 DEF ResultsAt
<1> QED BY <1>3, <1>4, <1>5, <1>6

\* The table before anything is parsed, and with the results of one place.
NoTable(s)       == [j \in 0 .. Len(s) + 1 |-> <<Error, Error, Error>>]
Entered(s, p, i) == [p EXCEPT ![i] = ResultsAt(s, p, i)]

LEMMA NoTableFits == \A s : IsText(s) => NoTable(s) \in Tables(s)
<1> SUFFICES ASSUME NEW s, IsText(s) PROVE NoTable(s) \in Tables(s)
  OBVIOUS
<1>1. PICK x : x = Error /\ x \in AllResults(s) /\ \A i : x \in Entries(s, i)
  BY ErrorIsResult DEF Results
<1>2. NoTable(s) = [j \in 0 .. Len(s) + 1 |-> <<x, x, x>>]
  BY <1>1 DEF NoTable
<1>3. \A n \in 1 .. 3 : <<x, x, x>>[n] = x
  OBVIOUS
<1>4. NoTable(s) \in [0 .. Len(s) + 1 -> AllResults(s) \X AllResults(s) \X AllResults(s)]
  BY <1>1, <1>2
<1>5. \A n \in 1 .. 3 : \A i \in 0 .. Len(s) + 1 : NoTable(s)[i][n] = x
  BY <1>2, <1>3
<1>6. 0 \in 0 .. Len(s) + 1 /\ \A i \in 1 .. Len(s) + 1 : i \in 0 .. Len(s) + 1
  BY TextFacts
<1> QED BY <1>1, <1>4, <1>5, <1>6 DEF Tables

LEMMA EnteredFits ==
  ASSUME NEW s, IsText(s), NEW p \in Tables(s), NEW i \in 1 .. Len(s) + 1
  PROVE  Entered(s, p, i) \in Tables(s)
<1>1. \A n \in 1 .. 3 : ResultsAt(s, p, i)[n] \in Entries(s, i)
  BY ResultsAtFit
<1>2. PICK r : r = ResultsAt(s, p, i) /\ r = <<r[1], r[2], r[3]>>
  <2>1. PICK a, b, c : ResultsAt(s, p, i) = <<a, b, c>>
    BY DEF ResultsAt
  <2>2. PICK r : r = <<a, b, c>>
    OBVIOUS
  <2>3. r[1] = a /\ r[2] = b /\ r[3] = c
    BY <2>2
  <2> QED BY <2>1, <2>2, <2>3
<1>3. r \in AllResults(s) \X AllResults(s) \X AllResults(s)
  <2>1. r[1] \in AllResults(s) /\ r[2] \in AllResults(s) /\ r[3] \in AllResults(s)
    BY <1>1, <1>2, Nonterminals DEF Entries, Results
  <2> QED BY <1>2, <2>1
<1>4. PICK q : q = Entered(s, p, i) /\ q = [p EXCEPT ![i] = r]
  BY <1>2 DEF Entered
<1>5. p \in [0 .. Len(s) + 1 -> AllResults(s) \X AllResults(s) \X AllResults(s)] /\ i \in 0 .. Len(s) + 1
  BY TextFacts DEF Tables
<1>6. q \in [0 .. Len(s) + 1 -> AllResults(s) \X AllResults(s) \X AllResults(s)]
  BY <1>3, <1>4, <1>5
<1>7. q[i] = r /\ \A j \in 0 .. Len(s) + 1 : j # i => q[j] = p[j]
  BY <1>4, <1>5
<1>8. \A n \in 1 .. 3 : q[0][n] = Error
  <2>1. 0 \in 0 .. Len(s) + 1 /\ 0 # i
    BY TextFacts
  <2> QED BY <1>7, <2>1 DEF Tables
<1>9. ASSUME NEW n \in 1 .. 3, NEW j \in 1 .. Len(s) + 1
      PROVE  q[j][n] \in Entries(s, j)
  <2>1. CASE j = i
    BY <1>1, <1>2, <1>7, <2>1
  <2>2. CASE j # i
    <3>1. j \in 0 .. Len(s) + 1
      BY TextFacts
    <3> QED BY <1>7, <2>2, <3>1 DEF Tables
  <2> QED BY <2>1, <2>2
<1> QED BY <1>4, <1>6, <1>8, <1>9 DEF Tables

\* The table is filled from the last place to the first.
Fills(s, from) ==
  /\ from \in [1 .. Len(s) + 2 -> Tables(s)]
  /\ from[Len(s) + 2] = NoTable(s)
  /\ \A i \in 1 .. Len(s) + 1 : from[i] = Entered(s, from[i + 1], i)

LEMMA TableIsFilled ==
  ASSUME NEW s, IsText(s)
  PROVE  \E from : Fills(s, from) /\ ParseTable(s) = from[1]
<1> DEFINE N == Len(s) + 1
           S == Tables(s)
           f == [x \in (0 .. N) \X S |-> IF x[1] = 0 THEN x[2] ELSE Entered(s, x[2], N + 1 - x[1])]
           Is(from) == from = [i \in 1 .. N + 1 |-> IF i = N + 1 THEN NoTable(s) ELSE Entered(s, from[i + 1], i)]
           c == CHOOSE from : Is(from)
<1>1. N \in Nat /\ N = Len(s) + 1 /\ N + 1 = Len(s) + 2 /\ N # 0
  BY TextFacts
<1>2. f \in StepFunctions(N, S)
  <2>1. ASSUME NEW x \in (0 .. N) \X S
        PROVE  (IF x[1] = 0 THEN x[2] ELSE Entered(s, x[2], N + 1 - x[1])) \in S
    <3>1. x[1] \in 0 .. N /\ x[2] \in S
      OBVIOUS
    <3>2. x[1] # 0 => N + 1 - x[1] \in 1 .. N
      <4> HIDE DEF N
      <4> QED BY <1>1, <3>1
    <3> QED BY <3>1, <3>2, EnteredFits
  <2> QED BY <2>1 DEF StepFunctions
<1>3. \A k \in 1 .. N : \A x \in S : f[<<k, x>>] = Entered(s, x, N + 1 - k)
  <2>1. \A k \in 1 .. N : k \in 0 .. N /\ k # 0
    BY <1>1
  <2> HIDE DEF N, S
  <2> QED BY <2>1
<1>4. NoTable(s) \in S
  BY NoTableFits
<1> HIDE DEF f, S, N
<1>5. PICK t \in Runs(N, S, NoTable(s), f) : TRUE
  BY <1>1, <1>2, <1>4, StepsExist
<1> DEFINE g == [i \in 1 .. N + 1 |-> t[N + 1 - i]]
<1>6. /\ t \in [0 .. N -> S] /\ t[0] = NoTable(s)
      /\ \A k \in 1 .. N : t[k] = f[<<k, t[k - 1]>>]
  BY <1>5 DEF Runs
<1>7. \A i \in 1 .. N + 1 : N + 1 - i \in 0 .. N /\ g[i] = t[N + 1 - i] /\ g[i] \in S
  <2>1. \A i \in 1 .. N + 1 : N + 1 - i \in 0 .. N
    BY <1>1
  <2> QED BY <1>6, <2>1
<1>8. ASSUME NEW i \in 1 .. N + 1
      PROVE  g[i] = IF i = N + 1 THEN NoTable(s) ELSE Entered(s, g[i + 1], i)
  <2>1. CASE i = N + 1
    <3>1. N + 1 - i = 0
      BY <1>1, <2>1
    <3> QED BY <1>6, <1>7, <2>1, <3>1
  <2>2. CASE i # N + 1
    <3>1. PICK k : k = N + 1 - i /\ k \in 1 .. N /\ k - 1 \in 0 .. N /\ N + 1 - k = i /\ k - 1 = N + 1 - (i + 1) /\ i + 1 \in 1 .. N + 1
      BY <1>1, <2>2
    <3>2. g[i] = t[k] /\ g[i + 1] = t[k - 1]
      BY <1>7, <3>1
    <3>3. t[k] = f[<<k, t[k - 1]>>] /\ t[k - 1] \in S
      BY <1>6, <3>1
    <3>4. f[<<k, t[k - 1]>>] = Entered(s, t[k - 1], i)
      BY <1>3, <3>1, <3>3
    <3> HIDE DEF g
    <3> QED BY <2>2, <3>2, <3>3, <3>4
  <2> QED BY <2>1, <2>2
<1>9. g = [i \in 1 .. N + 1 |-> g[i]]
  OBVIOUS
<1> HIDE DEF g
<1>10. Is(g)
  BY <1>8, <1>9
<1>11. Is(c)
  <2> HIDE DEF Is
  <2> QED BY <1>10
<1>12. ParseTable(s) = c[1]
  BY <1>1 DEF ParseTable, NoTable, Entered, N
<1> HIDE DEF c
<1>13. /\ DOMAIN c = 1 .. N + 1 /\ c[N + 1] = NoTable(s)
       /\ \A i \in 1 .. N : i + 1 \in 1 .. N + 1 /\ c[i] = Entered(s, c[i + 1], i)
  <2>1. N + 1 \in 1 .. N + 1 /\ \A i \in 1 .. N : i \in 1 .. N + 1 /\ i # N + 1 /\ i + 1 \in 1 .. N + 1
    BY <1>1
  <2> QED BY <1>11, <2>1
<1>14. 0 .. N \subseteq {k \in 0 .. N : c[N + 1 - k] \in S}
  <2> DEFINE G == {k \in 0 .. N : c[N + 1 - k] \in S}
  <2>1. 0 \in G
    <3>1. 0 \in 0 .. N /\ N + 1 - 0 = N + 1
      BY <1>1
    <3> QED BY <1>4, <1>13, <3>1
  <2>2. ASSUME NEW k \in 0 .. N - 1, k \in G
        PROVE  k + 1 \in G
    <3>1. PICK i : i = N + 1 - (k + 1) /\ i \in 1 .. N /\ i + 1 = N + 1 - k /\ k + 1 \in 0 .. N
      BY <1>1
    <3>2. c[i + 1] \in S /\ c[i] = Entered(s, c[i + 1], i)
      BY <1>13, <2>2, <3>1
    <3>3. i \in 1 .. Len(s) + 1
      BY <1>1, <3>1
    <3>4. c[i] \in S
      BY <3>2, <3>3, EnteredFits DEF S
    <3> QED BY <3>1, <3>4
  <2> HIDE DEF G
  <2>3. 0 .. N \subseteq G
    BY <1>1, <2>1, <2>2, Stepwise
  <2> QED BY <2>3 DEF G
<1>15. \A i \in 1 .. N + 1 : c[i] \in S
  <2>1. \A i \in 1 .. N + 1 : N + 1 - i \in 0 .. N /\ N + 1 - (N + 1 - i) = i
    BY <1>1
  <2> QED BY <1>14, <2>1
<1>16. c \in [1 .. N + 1 -> S]
  <2>1. c = [i \in 1 .. N + 1 |-> c[i]]
    BY <1>11
  <2> QED BY <1>15, <2>1
<1>17. Fills(s, c)
  BY <1>1, <1>13, <1>16 DEF Fills, S
<1> QED BY <1>12, <1>17

\* The accounts that the tokens of a formula name.
NamedIn(s) == {s[i] : i \in DOMAIN s} \cap Accounts

LEMMA ParseRefersToTokens ==
  ASSUME NEW s, IsText(s), Parse(s) # NotAFormula
  PROVE  Refs(Parse(s)) = NamedIn(s)
<1>1. PICK from : Fills(s, from) /\ ParseTable(s) = from[1]
  BY TableIsFilled
<1>2. PICK N \in Nat : N = Len(s) /\ DOMAIN s = 1 .. N
  BY TextFacts
<1>3. PICK p \in Tables(s) : p = ParseTable(s)
  <2>1. 1 \in 1 .. Len(s) + 2
    BY <1>2
  <2> QED BY <1>1, <2>1 DEF Fills
<1>4. PICK e : e = p[1][1]
  OBVIOUS
<1>5. e \in Entries(s, 1) /\ e \in Results(s, 1)
  <2>1. 1 \in 1 .. Len(s) + 1 /\ 1 \in 1 .. 3
    BY <1>2
  <2> QED BY <1>4, <2>1 DEF Tables, Entries
<1>6. e.at = N + 1 /\ Parse(s) = e.trees[1]
  BY <1>2, <1>3, <1>4 DEF Parse
<1>7. N + 1 # 0
  BY <1>2
<1>8. RefsIn(e.trees) = Named(s, 1, N + 1) /\ Len(e.trees) = 1 /\ e.trees \in Seq(TreesOf(s))
  BY <1>5, <1>6, <1>7, ResultFacts DEF Entries
<1>9. DOMAIN e.trees = {1}
  BY <1>8
<1>10. RefsIn(e.trees) = Refs(e.trees[1])
  BY <1>9 DEF RefsIn
<1>11. Named(s, 1, N + 1) = NamedIn(s)
  <2>1. 1 .. (N + 1) - 1 = 1 .. N
    BY <1>2
  <2> QED BY <1>2, <2>1 DEF Named, NamedIn
<1> QED BY <1>6, <1>8, <1>10, <1>11

-----------------------------------------------------------------------------
(* From the texts to the order.                                            *)
LEMMA SeqIsText == \A S : \A q \in Seq(S) : IsText(q)
<1> SUFFICES ASSUME NEW S, NEW q \in Seq(S) PROVE q \in Seq(Listed(q))
  BY DEF IsText
<1>1. \A i \in 1 .. Len(q) : q[i] \in Listed(q)
  BY DEF Listed
<1> QED BY <1>1

\* An edit of a text leaves a text.
LEMMA EditIsText ==
  ASSUME NEW s, IsText(s), NEW i \in 1 .. Len(s) + 1, NEW t
  PROVE  /\ IsText(InsertAt(s, i, t))
         /\ i \in DOMAIN s => IsText(RemoveAt(s, i)) /\ IsText([s EXCEPT ![i] = t])
<1> DEFINE S == Listed(s) \cup {t}
<1>1. s \in Seq(S) /\ Len(s) \in Nat
  BY DEF IsText
<1>2. i \in Nat /\ i - 1 \in Nat /\ i - 1 <= Len(s)
  BY <1>1
<1> HIDE DEF S
<1>3. SubSeq(s, 1, i - 1) \in Seq(S) /\ SubSeq(s, i, Len(s)) \in Seq(S) /\ SubSeq(s, i + 1, Len(s)) \in Seq(S)
  BY <1>1, <1>2
<1>4. <<t>> \in Seq(S)
  BY DEF S
<1>5. InsertAt(s, i, t) \in Seq(S) /\ RemoveAt(s, i) \in Seq(S)
  BY <1>3, <1>4 DEF InsertAt, RemoveAt
<1>6. i \in DOMAIN s => [s EXCEPT ![i] = t] \in Seq(S)
  BY <1>1 DEF S
<1> QED BY <1>5, <1>6, SeqIsText

\* The sort is given what the tokens of the stored formulas name.
LEMMA DepsAreRead ==
  ASSUME TextsInv, NEW a \in DOMAIN texts
  PROVE  Deps(a) = Read(a)
<1>1. IsText(texts[a]) /\ Parse(texts[a]) # NotAFormula
  BY DEF TextsInv
<1>2. Refs(Parse(texts[a])) = NamedIn(texts[a])
  BY <1>1, ParseRefersToTokens
<1> QED BY <1>2 DEF Deps, Read, NamedIn

FInv == IInv /\ TextsInv /\ DepsInv

LEMMA FormulasInit == Init => FInv
<1> SUFFICES ASSUME Init PROVE FInv
  OBVIOUS
<1>1. IInv
  BY InvInit DEF Init
<1>2. TextsInv
  BY FormulasAssumption DEF Init, TextsInv
<1>3. DepsInv
  BY DEF Init, SortInit, DepsInv
<1> QED BY <1>1, <1>2, <1>3 DEF FInv

\* Outside the sort only the texts change, and only when nothing is sorted.
LEMMA TextStep ==
  ASSUME FInv, stage = "idle", UNCHANGED sortVars, TextsInv'
  PROVE  FInv'
<1>1. IInv'
  BY StutterStep DEF FInv
<1>2. DepsInv'
  BY DEF DepsInv, sortVars
<1> QED BY <1>1, <1>2 DEF FInv

LEMMA EditStep == ASSUME FInv, Edit PROVE FInv'
<1>1. IsText(draft) /\ DOMAIN draft = 1 .. Len(draft) /\ Len(draft) \in Nat
  BY DEF FInv, TextsInv, IsText
<1>2. IsText(draft')
  <2>1. CASE draft' \in Inserted
    <3>1. PICK i \in 1 .. Len(draft) + 1, t \in Vocabulary : draft' = InsertAt(draft, i, t)
      BY <2>1 DEF Inserted
    <3> QED BY <1>1, <3>1, EditIsText
  <2>2. CASE draft' \in Removed
    <3>1. PICK i \in DOMAIN draft : draft' = RemoveAt(draft, i)
      BY <2>2 DEF Removed
    <3>2. i \in 1 .. Len(draft) + 1
      BY <1>1
    <3> QED BY <1>1, <3>1, <3>2, EditIsText
  <2>3. CASE draft' \in Replaced
    <3>1. PICK i \in DOMAIN draft, t \in Vocabulary : draft' = [draft EXCEPT ![i] = t]
      BY <2>3 DEF Replaced
    <3>2. i \in 1 .. Len(draft) + 1
      BY <1>1
    <3> QED BY <1>1, <3>1, <3>2, EditIsText
  <2> QED BY <2>1, <2>2, <2>3 DEF Edit
<1>3. TextsInv'
  BY <1>2 DEF Edit, FInv, TextsInv
<1> QED BY <1>3, TextStep DEF Edit

LEMMA PutStep == ASSUME FInv, NEW a \in Accounts, PutFormula(a) PROVE FInv'
<1>1. IsText(draft) /\ Parse(draft) # NotAFormula /\ draft' = draft
  BY DEF FInv, TextsInv, PutFormula
<1>2. /\ DOMAIN texts' = DOMAIN texts \cup {a} /\ texts'[a] = draft
      /\ \A b \in DOMAIN texts : b # a => texts'[b] = texts[b]
  BY DEF PutFormula
<1>3. TextsInv'
  BY <1>1, <1>2 DEF FInv, TextsInv
<1> QED BY <1>3, TextStep DEF PutFormula

LEMMA ClearStep == ASSUME FInv, NEW a \in Accounts, ClearFormula(a) PROVE FInv'
<1>1. DOMAIN texts' = DOMAIN texts \ {a} /\ \A b \in DOMAIN texts' : texts'[b] = texts[b]
  BY DEF ClearFormula
<1>2. TextsInv'
  BY <1>1 DEF ClearFormula, FInv, TextsInv
<1> QED BY <1>2, TextStep DEF ClearFormula

LEMMA RunStep == ASSUME FInv, RunStoredCalcs PROVE FInv'
<1> DEFINE K == DOMAIN texts
           allDeps == [a \in K |-> Deps(a)]
<1>1. K \in SUBSET Nodes
  BY FormulasAssumption DEF FInv, TextsInv
<1>2. allDeps \in [K -> SUBSET Nodes] /\ \A a \in K : Deps(a) \subseteq K
  BY <1>1 DEF Deps
<1>3. Start(allDeps)
  BY DEF RunStoredCalcs
<1>4. IInv'
  BY <1>1, <1>2, <1>3, StartStep
<1>5. deps' = allDeps /\ texts' = texts /\ draft' = draft
  <2>1. deps' = [n \in K |-> allDeps[n] \cap K]
    BY <1>3 DEF Start
  <2>2. \A n \in K : allDeps[n] \cap K = Deps(n)
    BY <1>2
  <2> QED BY <2>1, <2>2 DEF RunStoredCalcs
<1>6. TextsInv'
  BY <1>5 DEF FInv, TextsInv
<1>7. DepsInv'
  BY <1>5 DEF DepsInv, Deps
<1> QED BY <1>4, <1>6, <1>7 DEF FInv

LEMMA SortingStep == ASSUME FInv, Sort PROVE FInv'
<1>1. texts' = texts /\ draft' = draft
  BY DEF Sort
<1>2. IInv'
  BY TakeStep, FinishStep, LookForCycleStep, WalkStep, CloseStep, ReturnStep DEF Sort, SortStep, FInv
<1>3. TextsInv'
  BY <1>1 DEF FInv, TextsInv
<1>4. DepsInv'
  <2>1. CASE SortStep
    <3>1. stage # "idle" /\ deps' = deps
      BY <2>1 DEF SortStep, Take, Finish, LookForCycle, Walk, Close
    <3> QED BY <1>1, <3>1 DEF FInv, DepsInv, Deps
  <2>2. CASE Return
    BY <2>2 DEF Return, DepsInv
  <2> QED BY <2>1, <2>2 DEF Sort
<1> QED BY <1>2, <1>3, <1>4 DEF FInv

LEMMA FormulasInductive == FInv /\ [Next]_vars => FInv'
<1> SUFFICES ASSUME FInv, [Next]_vars PROVE FInv'
  OBVIOUS
<1>1. CASE Edit
  BY <1>1, EditStep
<1>2. ASSUME NEW a \in Accounts, PutFormula(a) \/ ClearFormula(a) PROVE FInv'
  BY <1>2, PutStep, ClearStep
<1>3. CASE RunStoredCalcs
  BY <1>3, RunStep
<1>4. CASE Sort
  BY <1>4, SortingStep
<1>5. CASE UNCHANGED vars
  <2>1. UNCHANGED sortVars /\ texts' = texts /\ draft' = draft
    BY <1>5 DEF vars
  <2>2. IInv'
    BY <2>1, StutterStep DEF FInv
  <2>3. TextsInv' /\ DepsInv'
    BY <2>1 DEF FInv, TextsInv, DepsInv, Deps, sortVars
  <2> QED BY <2>2, <2>3 DEF FInv
<1> QED BY <1>1, <1>2, <1>3, <1>4, <1>5 DEF Next

THEOREM FormulasInvariant == Spec => []FInv
<1> QED BY FormulasInit, FormulasInductive, PTL DEF Spec

LEMMA OrderIsInputsFirst == FInv => InputsFirst
<1> SUFFICES ASSUME FInv, stage = "ordered"
             PROVE  /\ Listed(order) = DOMAIN texts
                    /\ \A i \in DOMAIN order : Read(order[i]) \subseteq {order[j] : j \in 1 .. i - 1}
  BY DEF InputsFirst
<1>1. TextsInv /\ deps = [a \in DOMAIN texts |-> Deps(a)] /\ Keys = DOMAIN texts
  BY DEF FInv, DepsInv, Keys
<1>2. Listed(order) = DOMAIN texts
  BY <1>1 DEF FInv, IInv, VerdictRight
<1>3. ASSUME NEW i \in DOMAIN order
      PROVE  Read(order[i]) \subseteq {order[j] : j \in 1 .. i - 1}
  <2>1. order[i] \in DOMAIN texts
    BY <1>2 DEF Listed
  <2>2. deps[order[i]] = Read(order[i])
    BY <1>1, <2>1, DepsAreRead
  <2> QED BY <2>2 DEF FInv, IInv, DependenciesFirst
<1> QED BY <1>2, <1>3

(* SPEC.md section 5, step 1: whatever is typed, stored and cleared, and    *)
(* in whatever order the sort takes ready formulas, a formula stands behind *)
(* all that its tokens name, directly or through a parent account.          *)
THEOREM FormulasFollowInputs == Spec => []InputsFirst
<1> QED BY FormulasInvariant, OrderIsInputsFirst, PTL

LEMMA CycleIsRead == FInv => CycleIsReal
<1> SUFFICES ASSUME FInv, stage = "cycle", NEW i \in DOMAIN path
             PROVE  path[IF i = Len(path) THEN 1 ELSE i + 1] \in Read(path[i])
  BY DEF CycleIsReal
<1>1. TextsInv /\ deps = [a \in DOMAIN texts |-> Deps(a)] /\ Keys = DOMAIN texts
  BY DEF FInv, DepsInv, Keys
<1>2. path[IF i = Len(path) THEN 1 ELSE i + 1] \in deps[path[i]]
  BY DEF FInv, IInv, VerdictRight
<1>3. path[i] \in DOMAIN texts
  BY <1>1 DEF FInv, IInv, TypeOK, Remaining
<1> QED BY <1>1, <1>2, <1>3, DepsAreRead

(* calc.go, at TopoSortDeps: a consolidation is refused for a cycle only if *)
(* the accounts it names refer to each other in that order.                 *)
THEOREM ReportedCyclesAreRead == Spec => []CycleIsReal
<1> QED BY FormulasInvariant, CycleIsRead, PTL

-----------------------------------------------------------------------------
(* The grammar: what is derived from a span of tokens is made of what is   *)
(* derived from shorter ones, or of the same one by a later line.          *)
Derivation(s, d) ==
  \A n \in 0 .. 3 : \A i \in 1 .. Len(s) + 2 : \A j \in 0 .. Len(s) : d[<<n, i, j>>] = Line(s, d, n, i, j)

SameInside(f, g, n, i, j) ==
  /\ \A m \in 0 .. 3 : \A a \in i .. j + 1 : \A b \in i - 1 .. j : b - a < j - i => f[<<m, a, b>>] = g[<<m, a, b>>]
  /\ \A m \in 0 .. 3 : m > n => f[<<m, i, j>>] = g[<<m, i, j>>]

SameSides(f, g, n, i, j, m) ==
  \A k \in i .. j : f[<<n, i, k - 1>>] = g[<<n, i, k - 1>>] /\ f[<<m, k + 1, j>>] = g[<<m, k + 1, j>>]

LEMMA BinaryInside ==
  ASSUME NEW s, NEW f, NEW g, NEW S, NEW i, NEW j, NEW n, NEW m, SameSides(f, g, n, i, j, m)
  PROVE  Binary(s, f, S, n, i, j, m) = Binary(s, g, S, n, i, j, m)
<1> DEFINE F(d, k) == NodeOf(s[k], Join(d[<<n, i, k - 1>>], d[<<m, k + 1, j>>]))
<1>1. Where(s, S, i, j) \subseteq i .. j
  BY DEF Where
<1>2. \A k \in Where(s, S, i, j) : F(f, k) = F(g, k)
  BY <1>1 DEF SameSides
<1>3. /\ Binary(s, f, S, n, i, j, m) = UNION {F(f, k) : k \in Where(s, S, i, j)}
      /\ Binary(s, g, S, n, i, j, m) = UNION {F(g, k) : k \in Where(s, S, i, j)}
  BY DEF Binary
<1> HIDE DEF F
<1> QED BY <1>2, <1>3

LEMMA ListsInside ==
  ASSUME NEW s, NEW f, NEW g, NEW i \in Int, NEW j \in Int, f[<<1, i, j>>] = g[<<1, i, j>>],
         \A k \in i .. j : f[<<0, i, k - 1>>] = g[<<0, i, k - 1>>] /\ f[<<1, k + 1, j>>] = g[<<1, k + 1, j>>]
  PROVE  ListsOf(s, f, i, j) = ListsOf(s, g, i, j)
<1> DEFINE F(d, k) == Join(d[<<0, i, k - 1>>], d[<<1, k + 1, j>>])
<1>1. Where(s, {","}, i, j) \subseteq i .. j
  BY DEF Where
<1>2. \A k \in Where(s, {","}, i, j) : F(f, k) = F(g, k)
  BY <1>1
<1>3. /\ ListsOf(s, f, i, j) = f[<<1, i, j>>] \cup UNION {F(f, k) : k \in Where(s, {","}, i, j)}
      /\ ListsOf(s, g, i, j) = g[<<1, i, j>>] \cup UNION {F(g, k) : k \in Where(s, {","}, i, j)}
  BY DEF ListsOf
<1> HIDE DEF F
<1> QED BY <1>2, <1>3

SameWithin(f, g, i, j) ==
  \A m \in 0 .. 3 : \A a \in i .. j + 1 : \A b \in i - 1 .. j : f[<<m, a, b>>] = g[<<m, a, b>>]

LEMMA ArgsInside ==
  ASSUME NEW s, NEW f, NEW g, NEW c, NEW i \in Int, NEW j \in Int, i <= j, SameWithin(f, g, i, j)
  PROVE  ArgsOf(c, s, f, i, j) = ArgsOf(c, s, g, i, j)
<1> DEFINE F(d, k) == Join(Binary(s, d, Cmps, 1, i, k - 1, 1), {l \in d[<<0, k + 1, j>>] : Len(l) = 2})
<1>1. f[<<1, i, j>>] = g[<<1, i, j>>] /\ f[<<0, i, j>>] = g[<<0, i, j>>]
  <2>1. 0 \in 0 .. 3 /\ 1 \in 0 .. 3 /\ i \in i .. j + 1 /\ j \in i - 1 .. j
    OBVIOUS
  <2> QED BY <2>1 DEF SameWithin
<1>2. ASSUME NEW k \in i .. j
      PROVE  F(f, k) = F(g, k)
  <2>1. f[<<0, k + 1, j>>] = g[<<0, k + 1, j>>]
    <3>1. 0 \in 0 .. 3 /\ k + 1 \in i .. j + 1 /\ j \in i - 1 .. j
      OBVIOUS
    <3> QED BY <3>1 DEF SameWithin
  <2>2. PICK e \in Int : e = k - 1
    OBVIOUS
  <2>3. ASSUME NEW h \in i .. e
        PROVE  f[<<1, i, h - 1>>] = g[<<1, i, h - 1>>] /\ f[<<1, h + 1, e>>] = g[<<1, h + 1, e>>]
    <3>1. /\ 1 \in 0 .. 3 /\ i \in i .. j + 1 /\ h - 1 \in i - 1 .. j /\ h + 1 \in i .. j + 1
          /\ e \in i - 1 .. j
      BY <2>2
    <3> QED BY <3>1 DEF SameWithin
  <2>4. Binary(s, f, Cmps, 1, i, e, 1) = Binary(s, g, Cmps, 1, i, e, 1)
    <3>1. SameSides(f, g, 1, i, e, 1)
      BY <2>3 DEF SameSides
    <3> QED BY <3>1, BinaryInside
  <2> QED BY <2>1, <2>2, <2>4
<1>3. Where(s, {","}, i, j) \subseteq i .. j
  BY DEF Where
<1>4. ArgsOf(c, s, f, i, j) = CASE c = "ABS" -> f[<<1, i, j>>]
                                [] c = "IF"  -> UNION {F(f, k) : k \in Where(s, {","}, i, j)}
                                [] OTHER     -> f[<<0, i, j>>]
  BY DEF ArgsOf
<1>5. ArgsOf(c, s, g, i, j) = CASE c = "ABS" -> g[<<1, i, j>>]
                                [] c = "IF"  -> UNION {F(g, k) : k \in Where(s, {","}, i, j)}
                                [] OTHER     -> g[<<0, i, j>>]
  BY DEF ArgsOf
<1> HIDE DEF F
<1>6. UNION {F(f, k) : k \in Where(s, {","}, i, j)} = UNION {F(g, k) : k \in Where(s, {","}, i, j)}
  BY <1>2, <1>3
<1> QED BY <1>1, <1>4, <1>5, <1>6

LEMMA FactorsInside ==
  ASSUME NEW s, NEW f, NEW g, NEW i \in Int, NEW j \in Int, i <= j, SameInside(f, g, 3, i, j)
  PROVE  FactorsOf(s, f, i, j) = FactorsOf(s, g, i, j)
<1>1. f[<<3, i + 1, j>>] = g[<<3, i + 1, j>>]
  <2>1. 3 \in 0 .. 3 /\ i + 1 \in i .. j + 1 /\ j \in i - 1 .. j /\ j - (i + 1) < j - i
    OBVIOUS
  <2> QED BY <2>1 DEF SameInside
<1>2. f[<<1, i + 1, j - 1>>] = g[<<1, i + 1, j - 1>>]
  <2>1. 1 \in 0 .. 3 /\ i + 1 \in i .. j + 1 /\ j - 1 \in i - 1 .. j /\ (j - 1) - (i + 1) < j - i
    OBVIOUS
  <2> QED BY <2>1 DEF SameInside
<1>3. \A c : i + 1 < j => ArgsOf(c, s, f, i + 2, j - 1) = ArgsOf(c, s, g, i + 2, j - 1)
  <2> SUFFICES ASSUME NEW c, i + 1 < j PROVE ArgsOf(c, s, f, i + 2, j - 1) = ArgsOf(c, s, g, i + 2, j - 1)
    OBVIOUS
  <2>1. PICK a \in Int, b \in Int : a = i + 2 /\ b = j - 1
    OBVIOUS
  <2>2. SameWithin(f, g, a, b)
    <3>1. ASSUME NEW m \in 0 .. 3, NEW x \in a .. b + 1, NEW y \in a - 1 .. b
          PROVE  f[<<m, x, y>>] = g[<<m, x, y>>]
      <4>1. x \in i .. j + 1 /\ y \in i - 1 .. j /\ y - x < j - i
        BY <2>1
      <4> QED BY <4>1 DEF SameInside
    <3> QED BY <3>1 DEF SameWithin
  <2>3. CASE a <= b
    <3>1. ArgsOf(c, s, f, a, b) = ArgsOf(c, s, g, a, b)
      BY <2>2, <2>3, ArgsInside
    <3> QED BY <2>1, <3>1
  <2>4. CASE ~(a <= b)
    <3>1. Where(s, {","}, a, b) = {}
      <4>1. \A k \in a .. b : FALSE
        BY <2>4
      <4> QED BY <4>1 DEF Where
    <3>2. a \in a .. b + 1 /\ b \in a - 1 .. b /\ 0 \in 0 .. 3 /\ 1 \in 0 .. 3
      BY <2>1, <2>4
    <3>3. f[<<1, a, b>>] = g[<<1, a, b>>] /\ f[<<0, a, b>>] = g[<<0, a, b>>]
      BY <2>2, <3>2 DEF SameWithin
    <3>4. ArgsOf(c, s, f, a, b) = ArgsOf(c, s, g, a, b)
      BY <3>1, <3>3 DEF ArgsOf
    <3> QED BY <2>1, <3>4
  <2> QED BY <2>3, <2>4
<1>4. PICK t, u, v : t = s[i] /\ u = s[j] /\ v = s[i + 1]
  OBVIOUS
<1> DEFINE F(d) == CASE t \in Numbers \cup Accounts -> IF i = j THEN {<<Leaf(t)>>} ELSE {}
                     [] t = "-"                     -> NodeOf("neg", d[<<3, i + 1, j>>])
                     [] t = "(" /\ u = ")"          -> d[<<1, i + 1, j - 1>>]
                     [] t \in Funcs /\ i + 1 < j /\ v = "(" /\ u = ")"
                                                    -> NodeOf(t, ArgsOf(t, s, d, i + 2, j - 1))
                     [] OTHER                       -> {}
<1>5. FactorsOf(s, f, i, j) = F(f) /\ FactorsOf(s, g, i, j) = F(g)
  BY <1>4 DEF FactorsOf
<1>6. F(f) = F(g)
  BY <1>1, <1>2, <1>3
<1> HIDE DEF F
<1> QED BY <1>5, <1>6

LEMMA LineInside ==
  ASSUME NEW s, NEW f, NEW g, NEW n \in 0 .. 3, NEW i \in Int, NEW j \in Int, i <= j, SameInside(f, g, n, i, j)
  PROVE  Line(s, f, n, i, j) = Line(s, g, n, i, j)
<1>1. ASSUME NEW m \in 0 .. 3, NEW k \in i .. j
      PROVE  f[<<m, i, k - 1>>] = g[<<m, i, k - 1>>] /\ f[<<m, k + 1, j>>] = g[<<m, k + 1, j>>]
  <2>1. i \in i .. j + 1 /\ k - 1 \in i - 1 .. j /\ (k - 1) - i < j - i
    OBVIOUS
  <2>2. k + 1 \in i .. j + 1 /\ j \in i - 1 .. j /\ j - (k + 1) < j - i
    OBVIOUS
  <2> QED BY <2>1, <2>2 DEF SameInside
<1>2. CASE n = 0
  <2>1. f[<<1, i, j>>] = g[<<1, i, j>>]
    BY <1>2 DEF SameInside
  <2>2. 0 \in 0 .. 3 /\ 1 \in 0 .. 3
    OBVIOUS
  <2>3. ListsOf(s, f, i, j) = ListsOf(s, g, i, j)
    BY <1>1, <2>1, <2>2, ListsInside
  <2> QED BY <1>2, <2>3 DEF Line
<1>3. CASE n = 3
  BY <1>3, FactorsInside DEF Line
<1>4. CASE n \in {1, 2}
  <2>1. PICK m \in 0 .. 3 : m = n + 1 /\ m > n
    BY <1>4
  <2>2. f[<<m, i, j>>] = g[<<m, i, j>>]
    BY <2>1 DEF SameInside
  <2>3. ASSUME NEW S
        PROVE  Binary(s, f, S, n, i, j, m) = Binary(s, g, S, n, i, j, m)
    <3>1. SameSides(f, g, n, i, j, m)
      BY <1>1 DEF SameSides
    <3> QED BY <3>1, BinaryInside
  <2>4. n # 0 /\ n # 3
    BY <1>4
  <2>5. \A d : Line(s, d, n, i, j) = d[<<m, i, j>>] \cup Binary(s, d, Levels[n], n, i, j, m)
    BY <2>1, <2>4 DEF Line
  <2> QED BY <2>2, <2>3, <2>5
<1> QED BY <1>2, <1>3, <1>4

Weight(n, i, j) == 4 * (j - i) + (3 - n)

\* d is right for the spans of less than weight w.
Weighed(s, w, d) ==
  \A n \in 0 .. 3 : \A i \in 1 .. Len(s) + 2 : \A j \in 0 .. Len(s) :
    i > j \/ Weight(n, i, j) < w => d[<<n, i, j>>] = Line(s, d, n, i, j)

Rederived(s, d) == [x \in Spans(s) |-> Line(s, d, x[1], x[2], x[3])]

LEMMA NextIs ==
  \A s, d : \A n \in 0 .. 3 : \A i \in 1 .. Len(s) + 2 : \A j \in 0 .. Len(s) :
    Rederived(s, d)[<<n, i, j>>] = Line(s, d, n, i, j)
<1> SUFFICES ASSUME NEW s, NEW d, NEW n \in 0 .. 3, NEW i \in 1 .. Len(s) + 2, NEW j \in 0 .. Len(s)
             PROVE  Rederived(s, d)[<<n, i, j>>] = Line(s, d, n, i, j)
  OBVIOUS
<1>1. <<n, i, j>> \in Spans(s)
  BY DEF Spans
<1>2. <<n, i, j>>[1] = n /\ <<n, i, j>>[2] = i /\ <<n, i, j>>[3] = j
  OBVIOUS
<1> QED BY <1>1, <1>2 DEF Rederived

LEMMA WeighedNext ==
  ASSUME NEW s, IsText(s), NEW w \in Nat, NEW d, Weighed(s, w, d)
  PROVE  Weighed(s, w + 1, Rederived(s, d))
<1> SUFFICES ASSUME NEW n \in 0 .. 3, NEW i \in 1 .. Len(s) + 2, NEW j \in 0 .. Len(s),
                    i > j \/ Weight(n, i, j) < w + 1
             PROVE  Rederived(s, d)[<<n, i, j>>] = Line(s, Rederived(s, d), n, i, j)
  BY DEF Weighed
<1>1. PICK e : e = Rederived(s, d)
  OBVIOUS
<1>2. PICK N \in Nat : N = Len(s)
  BY TextFacts
<1>3. i \in Int /\ j \in Int /\ i \in 1 .. N + 2 /\ j \in 0 .. N
  BY <1>2
<1>4. e[<<n, i, j>>] = Line(s, d, n, i, j)
  BY <1>1, NextIs
<1>5. CASE i > j
  BY <1>1, <1>4, <1>5 DEF Line
<1>6. CASE i <= j
  <2>1. 4 * (j - i) + (3 - n) <= w
    BY <1>3, <1>6 DEF Weight
  <2>2. ASSUME NEW m \in 0 .. 3, NEW a \in i .. j + 1, NEW b \in i - 1 .. j, b - a < j - i \/ (m > n /\ a = i /\ b = j)
        PROVE  d[<<m, a, b>>] = e[<<m, a, b>>]
    <3>1. a \in 1 .. N + 2 /\ b \in 0 .. N /\ a \in Int /\ b \in Int
      BY <1>3
    <3>2. a > b \/ 4 * (b - a) + (3 - m) < w
      BY <1>3, <2>1, <2>2, <3>1
    <3>3. a > b \/ Weight(m, a, b) < w
      BY <3>2 DEF Weight
    <3>4. d[<<m, a, b>>] = Line(s, d, m, a, b)
      BY <1>2, <3>1, <3>3 DEF Weighed
    <3> QED BY <1>1, <1>2, <3>1, <3>4, NextIs
  <2>3. SameInside(d, e, n, i, j)
    <3>1. i \in i .. j + 1 /\ j \in i - 1 .. j
      BY <1>3, <1>6
    <3> QED BY <2>2, <3>1 DEF SameInside
  <2>4. Line(s, d, n, i, j) = Line(s, e, n, i, j)
    BY <1>3, <1>6, <2>3, LineInside, ZenonT(60)
  <2> QED BY <1>1, <1>4, <2>4
<1> QED BY <1>3, <1>5, <1>6

LEMMA DerivationExists ==
  ASSUME NEW s, IsText(s)
  PROVE  \E d : Derivation(s, d) /\ Derived(s) = {l[1] : l \in d[<<1, 1, Len(s)>>]}
<1>1. PICK N \in Nat : N = Len(s)
  BY TextFacts
<1>2. PICK K \in Nat : K = 4 * N + 4
  BY <1>1
<1> DEFINE G == {w \in Nat : \E d : Weighed(s, w, d)}
<1>3. 0 \in G
  <2>1. PICK e : e = [x \in Spans(s) |-> {}]
    OBVIOUS
  <2>2. ASSUME NEW n \in 0 .. 3, NEW i \in 1 .. Len(s) + 2, NEW j \in 0 .. Len(s), i > j \/ Weight(n, i, j) < 0
        PROVE  e[<<n, i, j>>] = Line(s, e, n, i, j)
    <3>1. i > j
      <4>1. PICK x \in Int, y \in Int, z \in Int : x = i /\ y = j /\ z = n /\ z <= 3
        BY <1>1
      <4>2. x > y \/ 4 * (y - x) + (3 - z) < 0
        BY <2>2, <4>1 DEF Weight
      <4>3. x > y
        BY <4>1, <4>2
      <4> QED BY <4>1, <4>3
    <3>2. <<n, i, j>> \in Spans(s)
      BY DEF Spans
    <3> QED BY <2>1, <3>1, <3>2 DEF Line
  <2>3. Weighed(s, 0, e)
    BY <2>2 DEF Weighed
  <2> QED BY <2>3
<1>4. ASSUME NEW w \in 0 .. K - 1, w \in G
      PROVE  w + 1 \in G
  <2>1. PICK d : Weighed(s, w, d)
    BY <1>4
  <2>2. w \in Nat /\ w + 1 \in Nat
    OBVIOUS
  <2>3. Weighed(s, w + 1, Rederived(s, d))
    BY <2>1, <2>2, WeighedNext
  <2> QED BY <2>2, <2>3
<1>5. PICK g : Weighed(s, K, g)
  <2> HIDE DEF G
  <2>1. 0 .. K \subseteq G
    BY <1>3, <1>4, Stepwise
  <2>2. K \in 0 .. K
    OBVIOUS
  <2>3. K \in G
    BY <2>1, <2>2
  <2> QED BY <2>3 DEF G
<1>6. PICK f : f = Rederived(s, g)
  OBVIOUS
<1>7. ASSUME NEW n \in 0 .. 3, NEW i \in 1 .. Len(s) + 2, NEW j \in 0 .. Len(s)
      PROVE  f[<<n, i, j>>] = Line(s, f, n, i, j)
  <2>1. i > j \/ Weight(n, i, j) < K + 1
    <3>1. i \in Int /\ j \in Int /\ i >= 1 /\ j <= N /\ n \in 0 .. 3
      BY <1>1
    <3> QED BY <1>2, <3>1 DEF Weight
  <2>2. Weighed(s, K + 1, f)
    BY <1>5, <1>6, WeighedNext
  <2> QED BY <2>1, <2>2 DEF Weighed
<1> DEFINE Is(d) == d = [x \in Spans(s) |-> Line(s, d, x[1], x[2], x[3])]
           c == CHOOSE d : Is(d)
<1>8. Is(f)
  <2>1. f = [x \in Spans(s) |-> f[x]]
    BY <1>6 DEF Rederived
  <2>2. \A x \in Spans(s) : f[x] = Line(s, f, x[1], x[2], x[3])
    BY <1>7 DEF Spans
  <2> QED BY <2>1, <2>2
<1>9. Is(c)
  <2> HIDE DEF Is
  <2> QED BY <1>8
<1>10. Derived(s) = {l[1] : l \in c[<<1, 1, Len(s)>>]}
  BY DEF Derived
<1> HIDE DEF c
<1>11. ASSUME NEW n \in 0 .. 3, NEW i \in 1 .. Len(s) + 2, NEW j \in 0 .. Len(s)
       PROVE  c[<<n, i, j>>] = Line(s, c, n, i, j)
  <2>1. <<n, i, j>> \in Spans(s)
    BY DEF Spans
  <2>2. <<n, i, j>>[1] = n /\ <<n, i, j>>[2] = i /\ <<n, i, j>>[3] = j
    OBVIOUS
  <2> QED BY <1>9, <2>1, <2>2
<1>12. Derivation(s, c)
  BY <1>11 DEF Derivation
<1> QED BY <1>10, <1>12

-----------------------------------------------------------------------------
(* Line by line.                                                           *)
LEMMA DerivedNothing ==
  ASSUME NEW s, NEW d, Derivation(s, d), NEW n \in 0 .. 3, NEW i \in 1 .. Len(s) + 2, NEW j \in 0 .. Len(s), i > j
  PROVE  d[<<n, i, j>>] = {}
  BY DEF Derivation, Line

\* l is a node of two operands, the operator at place k.
SplitAt(s, d, n, i, j, m, k, l) ==
  \E a \in d[<<n, i, k - 1>>] : \E b \in d[<<m, k + 1, j>>] : l = <<Node(s[k], a \o b)>>

LEMMA BinaryIs ==
  \A s, d, S, n, i, j, m, l :
    l \in Binary(s, d, S, n, i, j, m) <=> \E k \in i .. j : s[k] \in S /\ SplitAt(s, d, n, i, j, m, k, l)
<1> SUFFICES ASSUME NEW s, NEW d, NEW S, NEW n, NEW i, NEW j, NEW m, NEW l
             PROVE  l \in Binary(s, d, S, n, i, j, m) <=>
                      \E k \in i .. j : s[k] \in S /\ SplitAt(s, d, n, i, j, m, k, l)
  OBVIOUS
<1>1. ASSUME NEW k
      PROVE  l \in NodeOf(s[k], Join(d[<<n, i, k - 1>>], d[<<m, k + 1, j>>])) <=> SplitAt(s, d, n, i, j, m, k, l)
  <2>1. PICK A, B, op : A = d[<<n, i, k - 1>>] /\ B = d[<<m, k + 1, j>>] /\ op = s[k]
    OBVIOUS
  <2>2. l \in NodeOf(op, Join(A, B)) <=> \E x \in Join(A, B) : l = <<Node(op, x)>>
    BY DEF NodeOf
  <2>3. \A x : x \in Join(A, B) <=> \E a \in A : \E b \in B : x = a \o b
    BY DEF Join
  <2>4. l \in NodeOf(op, Join(A, B)) <=> \E a \in A : \E b \in B : l = <<Node(op, a \o b)>>
    <3>1. PICK J : J = Join(A, B)
      OBVIOUS
    <3>2. ASSUME NEW x \in J, l = <<Node(op, x)>>
          PROVE  \E a \in A : \E b \in B : l = <<Node(op, a \o b)>>
      <4>1. PICK a \in A, b \in B : x = a \o b
        BY <2>3, <3>1
      <4> QED BY <3>2, <4>1
    <3>3. ASSUME NEW a \in A, NEW b \in B, l = <<Node(op, a \o b)>>
          PROVE  \E x \in J : l = <<Node(op, x)>>
      <4>1. a \o b \in J
        BY <2>3, <3>1
      <4> QED BY <3>3, <4>1
    <3> QED BY <2>2, <3>1, <3>2, <3>3
  <2> QED BY <2>1, <2>4 DEF SplitAt
<1>2. \A k : k \in Where(s, S, i, j) <=> k \in i .. j /\ s[k] \in S
  BY DEF Where
<1> QED BY <1>1, <1>2 DEF Binary

LEMMA LevelIs ==
  ASSUME NEW s, NEW d, Derivation(s, d), NEW n \in {1, 2}, NEW i \in 1 .. Len(s) + 2, NEW j \in 0 .. Len(s), i <= j
  PROVE  \A l : l \in d[<<n, i, j>>] <=>
                  \/ l \in d[<<n + 1, i, j>>]
                  \/ \E k \in i .. j : s[k] \in Levels[n] /\ SplitAt(s, d, n, i, j, n + 1, k, l)
<1>1. PICK m : m = n + 1
  OBVIOUS
<1>2. n \in 0 .. 3 /\ n # 0 /\ n # 3 /\ ~(i > j)
  OBVIOUS
<1>3. d[<<n, i, j>>] = d[<<m, i, j>>] \cup Binary(s, d, Levels[n], n, i, j, m)
  BY <1>1, <1>2 DEF Derivation, Line
<1> QED BY <1>1, <1>3, BinaryIs

\* l is a list of arguments with a comma between, at place k.
CommaAt(s, d, i, j, k, l) ==
  s[k] = "," /\ \E a \in d[<<0, i, k - 1>>] : \E b \in d[<<1, k + 1, j>>] : l = a \o b

LEMMA ListIs ==
  ASSUME NEW s, NEW d, Derivation(s, d), NEW i \in 1 .. Len(s) + 2, NEW j \in 0 .. Len(s), i <= j
  PROVE  \A l : l \in d[<<0, i, j>>] <=> l \in d[<<1, i, j>>] \/ \E k \in i .. j : CommaAt(s, d, i, j, k, l)
<1>1. 0 \in 0 .. 3 /\ ~(i > j)
  OBVIOUS
<1>2. d[<<0, i, j>>] = ListsOf(s, d, i, j)
  BY <1>1 DEF Derivation, Line
<1>3. \A l : \A k : l \in Join(d[<<0, i, k - 1>>], d[<<1, k + 1, j>>]) <=>
                      \E a \in d[<<0, i, k - 1>>] : \E b \in d[<<1, k + 1, j>>] : l = a \o b
  BY DEF Join
<1>4. \A k : k \in Where(s, {","}, i, j) <=> k \in i .. j /\ s[k] = ","
  BY DEF Where
<1>5. \A l : l \in d[<<0, i, j>>] <=>
                \/ l \in d[<<1, i, j>>]
                \/ \E k \in Where(s, {","}, i, j) : l \in Join(d[<<0, i, k - 1>>], d[<<1, k + 1, j>>])
  BY <1>2 DEF ListsOf
<1>6. ASSUME NEW l
      PROVE  l \in d[<<0, i, j>>] <=> l \in d[<<1, i, j>>] \/ \E k \in i .. j : CommaAt(s, d, i, j, k, l)
  BY <1>3, <1>4, <1>5 DEF CommaAt
<1> QED BY <1>6

\* The cases of a factor, of which one applies.
FactorDerives(s, d, i, j) ==
  LET t == s[i]
      D == d[<<3, i, j>>]
      call == i + 1 < j /\ s[i + 1] = "(" /\ s[j] = ")"
  IN  /\ t \in Numbers \cup Accounts => D = IF i = j THEN {<<Leaf(t)>>} ELSE {}
      /\ t = "-" => D = NodeOf("neg", d[<<3, i + 1, j>>])
      /\ t = "(" => D = IF s[j] = ")" THEN d[<<1, i + 1, j - 1>>] ELSE {}
      /\ t \in Funcs => D = IF call THEN NodeOf(t, ArgsOf(t, s, d, i + 2, j - 1)) ELSE {}
      /\ t \notin {"-", "("} \cup Numbers \cup Accounts \cup Funcs => D = {}

LEMMA FactorDerived ==
  ASSUME NEW s, NEW d, Derivation(s, d), NEW i \in 1 .. Len(s) + 2, NEW j \in 0 .. Len(s), i <= j
  PROVE  FactorDerives(s, d, i, j)
<1>1. PICK t, u, v, D, A : /\ t = s[i] /\ u = s[j] /\ v = s[i + 1] /\ D = d[<<3, i, j>>]
                           /\ A = ArgsOf(t, s, d, i + 2, j - 1)
  OBVIOUS
<1>2. 3 \in 0 .. 3 /\ ~(i > j)
  OBVIOUS
<1>3. D = FactorsOf(s, d, i, j)
  BY <1>1, <1>2 DEF Derivation, Line
<1>4. \A x \in Numbers \cup Accounts : x # "-" /\ x # "(" /\ x \notin Funcs
  BY TokensAssumption DEF Operators, Levels, Punctuation
<1>5. "-" \notin Funcs /\ "(" \notin Funcs
  BY DEF Funcs
<1>6. D = CASE t \in Numbers \cup Accounts -> IF i = j THEN {<<Leaf(t)>>} ELSE {}
            [] t = "-"                     -> NodeOf("neg", d[<<3, i + 1, j>>])
            [] t = "(" /\ u = ")"          -> d[<<1, i + 1, j - 1>>]
            [] t \in Funcs /\ i + 1 < j /\ v = "(" /\ u = ")" -> NodeOf(t, A)
            [] OTHER                       -> {}
  BY <1>1, <1>3 DEF FactorsOf
<1>7. t \in Numbers \cup Accounts => D = IF i = j THEN {<<Leaf(t)>>} ELSE {}
  BY <1>4, <1>6
<1>8. t = "-" => D = NodeOf("neg", d[<<3, i + 1, j>>])
  BY <1>4, <1>5, <1>6
<1>9. t = "(" => D = IF u = ")" THEN d[<<1, i + 1, j - 1>>] ELSE {}
  BY <1>4, <1>5, <1>6
<1>10. t \in Funcs => D = IF i + 1 < j /\ v = "(" /\ u = ")" THEN NodeOf(t, A) ELSE {}
  BY <1>4, <1>5, <1>6
<1>11. t \notin {"-", "("} \cup Numbers \cup Accounts \cup Funcs => D = {}
  BY <1>6
<1> QED BY <1>1, <1>7, <1>8, <1>9, <1>10, <1>11 DEF FactorDerives

-----------------------------------------------------------------------------
(* Right results: what is parsed is derived, and what is derived is parsed *)
(* when no operator behind it goes on.                                     *)
\* Lists of one tree, which is one of a formula.
Lists(s) == {l \in Seq(TreesOf(s)) : Len(l) = 1 /\ l[1] # NotAFormula}

Free(s, n, k) == \A m \in {1, 2} : m >= n => Peek(s, k) \notin Levels[m]

Agrees(s, d, n, i, r) ==
  /\ r.at # 0 => r.trees \in d[<<n, i, r.at - 1>>]
  /\ \A j \in i .. Len(s) : \A l \in d[<<n, i, j>>] :
       l \in Lists(s) /\ (Free(s, n, j + 1) => r = Done(l, j + 1))

Right(s, d, p, i) == \A k \in i .. Len(s) + 1 : \A n \in 1 .. 3 : Agrees(s, d, n, k, p[k][n])

LEMMA DoneIs == \A l, a : Done(l, a).at = a /\ Done(l, a).trees = l
  BY DEF Done

LEMMA ErrorIs == Error.at = 0 /\ Failed(Error)
  BY DEF Error, Done, Failed

\* A result that no turn changes stays.
LEMMA Settles ==
  ASSUME NEW N \in Nat, NEW t, NEW m \in 0 .. N, \A k \in 1 .. N : t[k - 1] = t[m] => t[k] = t[m]
  PROVE  t[N] = t[m]
<1> DEFINE G == {k \in 0 .. N : k >= m => t[k] = t[m]}
<1>1. 0 \in G
  <2>1. 0 >= m => m = 0
    OBVIOUS
  <2> QED BY <2>1
<1>2. ASSUME NEW k \in 0 .. N - 1, k \in G
      PROVE  k + 1 \in G
  <2>1. k + 1 \in 1 .. N /\ k + 1 \in 0 .. N /\ (k + 1) - 1 = k
    OBVIOUS
  <2>2. CASE k >= m
    <3>1. t[k] = t[m]
      BY <1>2, <2>2
    <3>2. t[(k + 1) - 1] = t[m] => t[k + 1] = t[m]
      BY <2>1
    <3> QED BY <2>1, <3>1, <3>2
  <2>3. CASE ~(k >= m)
    <3>1. k + 1 >= m => k + 1 = m
      BY <2>3
    <3> QED BY <2>1, <3>1
  <2> QED BY <2>2, <2>3
<1> HIDE DEF G
<1>3. 0 .. N \subseteq G
  BY <1>1, <1>2, Stepwise
<1>4. N \in G /\ N >= m
  <2>1. N \in 0 .. N /\ N >= m
    OBVIOUS
  <2> QED BY <1>3, <2>1
<1> QED BY <1>4 DEF G

\* The table p is right from place i on.
Parsed(s, d, p, i) ==
  IsText(s) /\ Derivation(s, d) /\ p \in Tables(s) /\ i \in 1 .. Len(s) + 2 /\ Right(s, d, p, i)

LEMMA EntryIsRight ==
  ASSUME NEW s, NEW d, NEW p, NEW i, Parsed(s, d, p, i), NEW a \in i .. Len(s) + 1, NEW n \in 1 .. 3
  PROVE  p[a][n] \in Entries(s, a) /\ Agrees(s, d, n, a, p[a][n]) /\ a \in Nat /\ a # 0
<1>1. a \in 1 .. Len(s) + 1
  <2>1. Len(s) \in Nat /\ i \in 1 .. Len(s) + 2
    BY TextFacts DEF Parsed
  <2> QED BY <2>1
<1> QED BY <1>1 DEF Parsed, Right, Tables

\* Behind l an operand is derived ...
Follows(s, d, n, a, l, e) == \E b \in a .. Len(s) : \E q \in d[<<n, a, b>>] : q \in Lists(s) /\ e = Done(l \o q, b + 1)

LEMMA OperandSound ==
  ASSUME NEW s, NEW d, NEW p, NEW i, Parsed(s, d, p, i), NEW a \in i .. Len(s) + 1, NEW n \in 1 .. 3, NEW l,
         Operand(n, p, Done(l, a)).at # 0
  PROVE  Follows(s, d, n, a, l, Operand(n, p, Done(l, a)))
<1>1. PICK e : e = p[a][n]
  OBVIOUS
<1>2. e \in Entries(s, a) /\ e \in Results(s, a) /\ Agrees(s, d, n, a, e) /\ a \in Nat
  BY <1>1, EntryIsRight DEF Entries
<1>3. Operand(n, p, Done(l, a)) = IF e.at = 0 THEN Error ELSE Done(l \o e.trees, e.at)
  BY <1>1, DoneIs DEF Operand, Failed
<1>4. e.at # 0
  BY <1>3, ErrorIs
<1>5. PICK c \in Nat : c = e.at /\ c \in 0 .. Len(s) + 1 /\ a < c
  BY <1>2, <1>4, ResultFacts DEF Parsed, Entries
<1>6. PICK b \in Nat : b = c - 1 /\ b \in a .. Len(s) /\ b + 1 = c
  <2>1. Len(s) \in Nat
    BY TextFacts DEF Parsed
  <2> QED BY <1>2, <1>5, <2>1
<1>7. e.trees \in d[<<n, a, b>>]
  BY <1>2, <1>4, <1>5, <1>6 DEF Agrees
<1>8. e.trees \in Lists(s)
  BY <1>2, <1>6, <1>7 DEF Agrees
<1>9. Operand(n, p, Done(l, a)) = Done(l \o e.trees, b + 1)
  BY <1>3, <1>4, <1>5, <1>6
<1> QED BY <1>6, <1>7, <1>8, <1>9 DEF Follows

\* ... and every operand that nothing goes on with is found.
LEMMA OperandFound ==
  ASSUME NEW s, NEW d, NEW p, NEW i, Parsed(s, d, p, i), NEW a \in i .. Len(s) + 1, NEW n \in 1 .. 3, NEW l,
         NEW b \in a .. Len(s), NEW q \in d[<<n, a, b>>], Free(s, n, b + 1)
  PROVE  q \in Lists(s) /\ Operand(n, p, Done(l, a)) = Done(l \o q, b + 1)
<1>1. PICK e : e = p[a][n]
  OBVIOUS
<1>2. Agrees(s, d, n, a, e) /\ a \in Nat
  BY <1>1, EntryIsRight
<1>3. q \in Lists(s) /\ e = Done(q, b + 1)
  BY <1>2 DEF Agrees
<1>4. b + 1 # 0
  <2>1. Len(s) \in Nat
    BY TextFacts DEF Parsed
  <2> QED BY <1>2, <2>1
<1>5. e.at # 0 /\ e.trees = q /\ e.at = b + 1
  BY <1>3, <1>4, DoneIs
<1>6. Operand(n, p, Done(l, a)) = IF e.at = 0 THEN Error ELSE Done(l \o e.trees, e.at)
  BY <1>1, DoneIs DEF Operand, Failed
<1> QED BY <1>3, <1>5, <1>6

LEMMA OperandFails == \A s, p, n, r : p \in Tables(s) /\ n \in 1 .. 3 /\ r.at = 0 => Operand(n, p, r) = Error
  BY ErrorIs DEF Operand, Tables

\* Small steps.
LEMMA ExpectSound ==
  ASSUME NEW s, IsText(s), NEW tok, tok # End, NEW r, r.at \in Nat, Expect(s, r, tok).at # 0
  PROVE  r.at \in 1 .. Len(s) /\ s[r.at] = tok /\ Expect(s, r, tok) = Done(r.trees, r.at + 1)
<1>1. Peek(s, r.at) = tok
  BY ErrorIs DEF Expect
<1>2. r.at \in 1 .. Len(s) /\ s[r.at] = tok
  BY <1>1, PeekFacts
<1> QED BY <1>1, <1>2 DEF Expect, Skip

LEMMA ExpectFound ==
  ASSUME NEW s, IsText(s), NEW k \in 1 .. Len(s), NEW l
  PROVE  Expect(s, Done(l, k), s[k]) = Done(l, k + 1)
  BY TextFacts, DoneIs DEF Expect, Skip, Peek

LEMMA ExpectFails ==
  ASSUME NEW s, IsText(s), NEW tok, tok # End, NEW r, r.at = 0
  PROVE  Expect(s, r, tok) = Error
<1>1. Peek(s, 0) = End
  <2>1. 0 \notin DOMAIN s
    BY TextFacts
  <2> QED BY <2>1 DEF Peek
<1> QED BY <1>1 DEF Expect

LEMMA MadeIs ==
  ASSUME NEW op, NEW l, NEW a, a # 0
  PROVE  Made(op, Done(l, a)) = Done(<<Node(op, l)>>, a)
  BY DoneIs DEF Made, Failed

LEMMA MadeFails == \A op, r : r.at = 0 => Made(op, r) = Error
  BY DEF Made, Failed

LEMMA SkipIs == \A l, a : Skip(Done(l, a)) = Done(l, a + 1)
  BY DoneIs DEF Skip

\* A formula has a token at its root.
LEMMA Rooted == \A op, args : op # "" => Node(op, args) # NotAFormula
<1>1. ASSUME NEW op, NEW args PROVE Node(op, args)[<<>>] = op
  <2> DEFINE none == <<>>
             D == {none} \cup UNION {{<<i>> \o w : w \in DOMAIN args[i]} : i \in DOMAIN args}
             F(way) == IF way = none THEN op ELSE args[Head(way)][Tail(way)]
  <2>1. Node(op, args) = [way \in D |-> F(way)]
    BY DEF Node
  <2>2. none \in D /\ F(none) = op
    OBVIOUS
  <2> HIDE DEF D, F
  <2>3. Node(op, args)[none] = op
    BY <2>1, <2>2
  <2> QED BY <2>3
<1>2. NotAFormula[<<>>] = ""
  BY <1>1 DEF NotAFormula, Leaf
<1> QED BY <1>1, <1>2

LEMMA TokensAreNamed ==
  \A t : (t \in Levels[1] \/ t \in Levels[2] \/ t \in Cmps \cup Funcs \cup {"neg"} \cup Numbers \cup Accounts) => t # ""
<1>1. "" \notin Numbers \cup Accounts
  BY TokensAssumption DEF Punctuation
<1>2. Levels[1] = {"+", "-"} /\ Levels[2] = {"*", "/"}
  BY DEF Levels
<1> QED BY <1>1, <1>2 DEF Cmps, Funcs

LEMMA OneInList == \A S : \A t \in S : <<t>> \in Seq(S) /\ Len(<<t>>) = 1 /\ <<t>>[1] = t
  OBVIOUS

LEMMA ListFacts ==
  ASSUME NEW s
  PROVE  /\ \A q \in Lists(s) : q \in Seq(TreesOf(s)) /\ <<>> \o q = q /\ Len(q) = 1
         /\ \A a, b \in Seq(TreesOf(s)) : a \o b \in Seq(TreesOf(s)) /\ Len(a \o b) = Len(a) + Len(b)
         /\ \A op \in Toks(s) : \A a \in Seq(TreesOf(s)) : op # "" => <<Node(op, a)>> \in Lists(s)
<1>1. \A op \in Toks(s) : \A a \in Seq(TreesOf(s)) : op # "" => <<Node(op, a)>> \in Lists(s)
  <2> SUFFICES ASSUME NEW op \in Toks(s), NEW a \in Seq(TreesOf(s)), op # "" PROVE <<Node(op, a)>> \in Lists(s)
    OBVIOUS
  <2>1. PICK t \in TreesOf(s) : t = Node(op, a)
    BY NodeMadeOf
  <2>2. <<t>> \in Seq(TreesOf(s)) /\ Len(<<t>>) = 1 /\ <<t>>[1] = t
    BY OneInList
  <2>3. t # NotAFormula
    BY <2>1, Rooted
  <2> QED BY <2>1, <2>2, <2>3 DEF Lists
<1>2. \A q \in Lists(s) : q \in Seq(TreesOf(s)) /\ Len(q) = 1
  BY DEF Lists
<1>3. \A q \in Seq(TreesOf(s)) : <<>> \o q = q
  OBVIOUS
<1>4. \A a, b \in Seq(TreesOf(s)) : a \o b \in Seq(TreesOf(s)) /\ Len(a \o b) = Len(a) + Len(b)
  OBVIOUS
<1> QED BY <1>1, <1>2, <1>3, <1>4

LEMMA OperandLists ==
  ASSUME NEW s, NEW d, NEW p, NEW i, Parsed(s, d, p, i), NEW a \in i .. Len(s) + 1, NEW n \in 1 .. 3,
         NEW b \in a .. Len(s), NEW q \in d[<<n, a, b>>]
  PROVE  q \in Lists(s)
  BY EntryIsRight DEF Agrees

\* A tree that is derived, found among the turns of a loop.
TurnIs(t, N, k, r) == \E m \in 0 .. N : m <= k /\ t[m] = r

FoundTo(s, d, n, i, t, b) ==
  \A l \in d[<<n, i, b>>] :
    l \in Lists(s) /\ (Free(s, n + 1, b + 1) => TurnIs(t, Len(s), b - i, Done(l, b + 1)))

LEMMA OperatorFree ==
  \A s : IsText(s) => \A n \in {1, 2} : \A k \in 1 .. Len(s) : s[k] \in Levels[n] => Free(s, n + 1, k)
<1> SUFFICES ASSUME NEW s, IsText(s), NEW n \in {1, 2}, NEW k \in 1 .. Len(s), s[k] \in Levels[n], NEW m \in {1, 2}, m >= n + 1
             PROVE  Peek(s, k) \notin Levels[m]
  BY DEF Free
<1>1. n = 1 /\ m = 2
  OBVIOUS
<1>2. Peek(s, k) = s[k]
  BY TextFacts DEF Peek
<1> QED BY <1>1, <1>2 DEF Levels

LEMMA TurnIsTaken ==
  ASSUME NEW s, NEW n, NEW p, NEW l, NEW k, Peek(s, k) = s[k], s[k] \in Levels[n]
  PROVE  OneTurn(n, s, p, Done(l, k)) = Made(s[k], Operand(n + 1, p, Done(l, k + 1)))
<1>1. PICK r, q : r = Done(l, k) /\ q = Done(l, k + 1)
  OBVIOUS
<1>2. r.at = k /\ Skip(r) = q
  BY <1>1, DoneIs, SkipIs
<1>3. OneTurn(n, s, p, r) = Made(s[k], Operand(n + 1, p, q))
  BY <1>2 DEF OneTurn
<1> QED BY <1>1, <1>3

LEMMA TurnFound ==
  ASSUME NEW s, NEW d, NEW p, NEW i \in 1 .. Len(s) + 1, Parsed(s, d, p, i + 1), NEW n \in {1, 2}, NEW r,
         Agrees(s, d, n + 1, i, r), NEW t, t[0] = r, RestTurns(n, s, p, t),
         NEW b \in i .. Len(s), \A c \in i .. b - 1 : FoundTo(s, d, n, i, t, c)
  PROVE  FoundTo(s, d, n, i, t, b)
<1>1. PICK N \in Nat : N = Len(s) /\ DOMAIN s = 1 .. N
  BY TextFacts DEF Parsed
<1>2. i \in Nat /\ b \in Nat /\ i <= b /\ b <= N /\ 1 <= i
  BY <1>1
<1>3. IsText(s) /\ Derivation(s, d)
  BY DEF Parsed
<1>4. PICK m \in 1 .. 3 : m = n + 1 /\ n \in 0 .. 3
  OBVIOUS
<1> SUFFICES ASSUME NEW l \in d[<<n, i, b>>]
             PROVE  l \in Lists(s) /\ (Free(s, m, b + 1) => TurnIs(t, N, b - i, Done(l, b + 1)))
  BY <1>1, <1>4 DEF FoundTo
<1>5. CASE l \in d[<<m, i, b>>]
  <2>1. l \in Lists(s) /\ (Free(s, m, b + 1) => r = Done(l, b + 1))
    BY <1>4, <1>5 DEF Agrees
  <2>2. 0 \in 0 .. N /\ 0 <= b - i
    BY <1>2
  <2> QED BY <2>1, <2>2 DEF TurnIs
<1>6. CASE \E k \in i .. b : s[k] \in Levels[n] /\ SplitAt(s, d, n, i, b, m, k, l)
  <2>1. PICK k \in i .. b : s[k] \in Levels[n] /\ SplitAt(s, d, n, i, b, m, k, l)
    BY <1>6
  <2>2. PICK x \in d[<<n, i, k - 1>>] : \E y \in d[<<m, k + 1, b>>] : l = <<Node(s[k], x \o y)>>
    BY <2>1 DEF SplitAt
  <2>3. PICK y \in d[<<m, k + 1, b>>] : l = <<Node(s[k], x \o y)>>
    BY <2>2
  <2>4. PICK c \in Nat, e \in Nat : c = k - 1 /\ e = k + 1
    BY <1>2
  <2>5. k \in 1 .. N /\ k \in Nat /\ c + 1 = k
    BY <1>2, <2>4
  <2>6. i <= c
    <3>1. i \in 1 .. Len(s) + 2 /\ c \in 0 .. Len(s)
      BY <1>1, <1>2, <2>4, <2>5
    <3>2. x \in d[<<n, i, c>>]
      BY <2>4
    <3>3. ~(i > c)
      BY <1>3, <1>4, <3>1, <3>2, DerivedNothing
    <3> QED BY <1>2, <3>3
  <2>7. e <= b
    <3>1. e \in 1 .. Len(s) + 2 /\ b \in 0 .. Len(s)
      BY <1>1, <1>2, <2>4, <2>5
    <3>2. y \in d[<<m, e, b>>]
      BY <2>4
    <3>3. m \in 0 .. 3
      OBVIOUS
    <3>4. ~(e > b)
      BY <1>3, <3>1, <3>2, <3>3, DerivedNothing
    <3> QED BY <1>2, <3>4
  <2>8. x \in Lists(s) /\ TurnIs(t, N, c - i, Done(x, k))
    <3>1. c \in i .. b - 1
      BY <1>2, <2>4, <2>6, <2>7
    <3>2. FoundTo(s, d, n, i, t, c)
      BY <3>1
    <3>3. Free(s, m, k)
      BY <1>1, <1>3, <1>4, <2>1, <2>5, OperatorFree
    <3> QED BY <1>1, <1>4, <2>4, <2>5, <3>2, <3>3 DEF FoundTo
  <2>9. e \in (i + 1) .. Len(s) + 1 /\ b \in e .. Len(s) /\ y \in d[<<m, e, b>>]
    BY <1>1, <1>2, <2>4, <2>5, <2>6, <2>7
  <2>10. y \in Lists(s)
    BY <2>9, OperandLists
  <2>11. s[k] \in Toks(s) /\ Peek(s, k) = s[k]
    BY <1>1, <1>3, <2>5, TextFacts DEF Peek
  <2>12. l \in Lists(s)
    <3>1. s[k] # ""
      BY <2>1, TokensAreNamed
    <3> QED BY <2>3, <2>8, <2>10, <2>11, <3>1, ListFacts
  <2>13. ASSUME Free(s, m, b + 1)
         PROVE  TurnIs(t, N, b - i, Done(l, b + 1))
    <3>1. PICK h \in 0 .. N : h <= c - i /\ t[h] = Done(x, k)
      BY <2>8 DEF TurnIs
    <3>2. h + 1 \in 1 .. N /\ (h + 1) - 1 = h /\ h + 1 <= b - i /\ h + 1 \in 0 .. N
      BY <1>2, <2>4, <2>6, <2>7, <3>1
    <3>3. t[h + 1] = OneTurn(n, s, p, Done(x, k))
      BY <1>1, <3>1, <3>2 DEF RestTurns
    <3>4. OneTurn(n, s, p, Done(x, k)) = Made(s[k], Operand(m, p, Done(x, e)))
      BY <1>4, <2>1, <2>4, <2>11, TurnIsTaken
    <3>5. Operand(m, p, Done(x, e)) = Done(x \o y, b + 1)
      <4>1. PICK g : g = i + 1 /\ Parsed(s, d, p, g) /\ e \in g .. Len(s) + 1
        BY <2>9
      <4>2. PICK last : last = Len(s) /\ b \in e .. last
        BY <2>9
      <4> QED BY <1>4, <2>9, <2>13, <4>1, <4>2, OperandFound, SMTT(60)
    <3>6. Made(s[k], Done(x \o y, b + 1)) = Done(l, b + 1)
      <4>1. b + 1 # 0
        BY <1>2
      <4> QED BY <2>3, <4>1, MadeIs
    <3>7. t[h + 1] = Done(l, b + 1)
      BY <3>3, <3>4, <3>5, <3>6
    <3> QED BY <3>2, <3>7 DEF TurnIs
  <2> QED BY <2>12, <2>13
<1> QED
  <2>1. i \in 1 .. Len(s) + 2 /\ b \in 0 .. Len(s)
    BY <1>1, <1>2
  <2>2. \/ l \in d[<<n + 1, i, b>>]
        \/ \E k \in i .. b : s[k] \in Levels[n] /\ SplitAt(s, d, n, i, b, n + 1, k, l)
    BY <1>2, <1>3, <2>1, LevelIs
  <2> QED BY <1>4, <1>5, <1>6, <2>2

\* What a turn makes is derived.
Got(d, n, i, r) == r.at # 0 => r.trees \in d[<<n, i, r.at - 1>>]

LEMMA GotDone == \A d, n, i : \A b \in Nat : \A x \in d[<<n, i, b>>] : Got(d, n, i, Done(x, b + 1))
<1> SUFFICES ASSUME NEW d, NEW n, NEW i, NEW b \in Nat, NEW x \in d[<<n, i, b>>]
             PROVE  Got(d, n, i, Done(x, b + 1))
  OBVIOUS
<1>1. PICK c : c = b + 1 /\ c - 1 = b
  OBVIOUS
<1>2. Done(x, c).trees = x /\ Done(x, c).at - 1 = b
  BY <1>1, DoneIs
<1> QED BY <1>1, <1>2 DEF Got

LEMMA TurnSound ==
  ASSUME NEW s, NEW d, NEW p, NEW i \in 1 .. Len(s) + 1, Parsed(s, d, p, i + 1), NEW n \in {1, 2},
         NEW r \in Entries(s, i), Got(d, n, i, r)
  PROVE  Got(d, n, i, OneTurn(n, s, p, r))
<1>1. PICK N \in Nat : N = Len(s) /\ DOMAIN s = 1 .. N
  BY TextFacts DEF Parsed
<1>2. IsText(s) /\ Derivation(s, d)
  BY DEF Parsed
<1> DEFINE l == r.trees
<1>3. PICK k \in Nat : k = r.at /\ r = Done(l, k) /\ l \in Seq(TreesOf(s)) /\ (k # 0 => i < k /\ k \in 1 .. N + 1)
  <2>1. r \in Results(s, i)
    BY DEF Entries
  <2>2. r.at \in Nat /\ r.at \in 0 .. Len(s) + 1 /\ r = [trees |-> r.trees, at |-> r.at] /\ r.trees \in Seq(TreesOf(s))
    BY <1>2, <2>1, ResultFacts
  <2>3. r.at # 0 => i < r.at /\ r.at \in 1 .. N + 1
    BY <1>1, <2>2 DEF Entries
  <2> QED BY <2>2, <2>3 DEF Done
<1> HIDE DEF l
<1>4. CASE Peek(s, k) \notin Levels[n]
  BY <1>3, <1>4 DEF OneTurn
<1>5. CASE Peek(s, k) \in Levels[n]
  <2>1. k \in 1 .. N /\ Peek(s, k) = s[k] /\ s[k] \in Levels[n] /\ k # 0
    <3>1. Peek(s, k) # End
      BY <1>5, AccountsApart
    <3>2. k \in 1 .. N /\ Peek(s, k) = s[k]
      BY <1>1, <1>2, <3>1, PeekFacts
    <3> QED BY <1>1, <1>5, <3>2
  <2>2. PICK m \in 1 .. 3 : m = n + 1
    OBVIOUS
  <2>3. PICK a \in Nat : a = k + 1 /\ a \in (i + 1) .. Len(s) + 1 /\ i < k
    BY <1>1, <1>3, <2>1
  <2>4. PICK e : e = Operand(m, p, Done(l, a))
    OBVIOUS
  <2>5. OneTurn(n, s, p, r) = Made(s[k], e)
    <3>1. OneTurn(n, s, p, Done(l, k)) = Made(s[k], Operand(n + 1, p, Done(l, k + 1)))
      BY <2>1, TurnIsTaken
    <3>2. r = Done(l, k)
      BY <1>3
    <3> QED BY <2>2, <2>3, <2>4, <3>1, <3>2
  <2>6. CASE e.at = 0
    BY <2>5, <2>6, MadeFails, ErrorIs DEF Got
  <2>7. CASE e.at # 0
    <3>1. Follows(s, d, m, a, l, e)
      BY <2>3, <2>4, <2>7, OperandSound
    <3>2. PICK b \in a .. Len(s) : \E q \in d[<<m, a, b>>] : q \in Lists(s) /\ e = Done(l \o q, b + 1)
      BY <3>1 DEF Follows
    <3>3. PICK q \in d[<<m, a, b>>] : e = Done(l \o q, b + 1)
      BY <3>2
    <3>4. b \in Nat /\ i <= b /\ k \in i .. b /\ b + 1 # 0 /\ (b + 1) - 1 = b /\ b \in 0 .. Len(s) /\ i \in 1 .. Len(s) + 2
      BY <1>1, <2>3
    <3>5. PICK x : x = <<Node(s[k], l \o q)>>
      OBVIOUS
    <3>6. OneTurn(n, s, p, r) = Done(x, b + 1)
      BY <2>5, <3>3, <3>4, <3>5, MadeIs
    <3>7. l \in d[<<n, i, k - 1>>]
      BY <1>3, <2>1 DEF Got, l
    <3>8. SplitAt(s, d, n, i, b, m, k, x)
      BY <2>3, <3>3, <3>5, <3>7 DEF SplitAt
    <3>9. x \in d[<<n, i, b>>]
      BY <1>2, <2>1, <2>2, <3>4, <3>8, LevelIs
    <3> QED BY <3>4, <3>6, <3>9, GotDone
  <2> QED BY <2>6, <2>7
<1> QED BY <1>4, <1>5

LEMMA RestAgrees ==
  ASSUME NEW s, NEW d, NEW p, NEW i \in 1 .. Len(s) + 1, Parsed(s, d, p, i + 1), NEW n \in {1, 2},
         NEW r \in Entries(s, i), Agrees(s, d, n + 1, i, r)
  PROVE  Agrees(s, d, n, i, Rest(n, s, p, r))
<1>1. PICK N \in Nat : N = Len(s) /\ DOMAIN s = 1 .. N
  BY TextFacts DEF Parsed
<1>2. IsText(s) /\ Derivation(s, d) /\ p \in Tables(s) /\ i \in Nat
  BY <1>1 DEF Parsed
<1>3. PICK t \in [0 .. N -> Entries(s, i)] : t[0] = r /\ RestTurns(n, s, p, t) /\ Rest(n, s, p, r) = t[N]
  BY <1>1, <1>2, RestIsLast
<1>4. Got(d, n, i, t[N])
  <2> DEFINE G == {k \in 0 .. N : Got(d, n, i, t[k])}
  <2>1. 0 \in G
    <3>1. ASSUME r.at # 0
          PROVE  r.trees \in d[<<n, i, r.at - 1>>]
      <4>1. r.at \in Nat /\ r.at \in 0 .. N + 1 /\ i < r.at
        BY <1>1, <1>2, <3>1, ResultFacts DEF Entries
      <4>2. PICK b \in Nat : b = r.at - 1 /\ i <= b /\ b \in 0 .. Len(s) /\ i \in 1 .. Len(s) + 2
        BY <1>1, <1>2, <4>1
      <4>3. r.trees \in d[<<n + 1, i, b>>]
        BY <3>1, <4>2 DEF Agrees
      <4>4. r.trees \in d[<<n, i, b>>]
        BY <1>2, <4>2, <4>3, LevelIs
      <4> QED BY <4>2, <4>4
    <3>2. Got(d, n, i, t[0])
      BY <1>3, <3>1 DEF Got
    <3> QED BY <3>2
  <2>2. ASSUME NEW k \in 0 .. N - 1, k \in G
        PROVE  k + 1 \in G
    <3>1. k + 1 \in 1 .. N /\ (k + 1) - 1 = k /\ k \in 0 .. N /\ k + 1 \in 0 .. N
      OBVIOUS
    <3>2. t[k + 1] = OneTurn(n, s, p, t[k])
      BY <1>1, <1>3, <3>1 DEF RestTurns
    <3>3. t[k] \in Entries(s, i) /\ Got(d, n, i, t[k])
      BY <1>3, <2>2, <3>1
    <3>4. Got(d, n, i, t[k + 1])
      BY <3>2, <3>3, TurnSound
    <3> QED BY <3>1, <3>4
  <2> HIDE DEF G
  <2>3. 0 .. N \subseteq G
    BY <2>1, <2>2, Stepwise
  <2>4. N \in 0 .. N
    OBVIOUS
  <2> QED BY <2>3, <2>4 DEF G
<1>5. \A b \in i .. N : FoundTo(s, d, n, i, t, b)
  <2> DEFINE G == {k \in 0 .. N : \A b \in i .. N : b < i + k => FoundTo(s, d, n, i, t, b)}
  <2>1. 0 \in G
    BY <1>2
  <2>2. ASSUME NEW k \in 0 .. N - 1, k \in G
        PROVE  k + 1 \in G
    <3>1. ASSUME NEW b \in i .. N, b < i + (k + 1)
          PROVE  FoundTo(s, d, n, i, t, b)
      <4>1. ASSUME NEW c \in i .. b - 1
            PROVE  FoundTo(s, d, n, i, t, c)
        <5>1. c \in i .. N /\ c < i + k
          BY <1>2, <3>1
        <5> QED BY <2>2, <5>1
      <4> HIDE DEF G
      <4> QED BY <1>1, <1>3, <4>1, TurnFound
    <3>2. k + 1 \in 0 .. N
      OBVIOUS
    <3> QED BY <3>1, <3>2
  <2> HIDE DEF G
  <2>3. 0 .. N \subseteq G
    BY <2>1, <2>2, Stepwise
  <2>4. N \in G
    <3>1. N \in 0 .. N
      OBVIOUS
    <3> QED BY <2>3, <3>1
  <2>5. \A b \in i .. N : b < i + N
    BY <1>2
  <2> QED BY <2>4, <2>5 DEF G
<1>6. ASSUME NEW j \in i .. N, NEW l \in d[<<n, i, j>>]
      PROVE  l \in Lists(s) /\ (Free(s, n, j + 1) => t[N] = Done(l, j + 1))
  <2>1. l \in Lists(s) /\ (Free(s, n + 1, j + 1) => TurnIs(t, N, j - i, Done(l, j + 1)))
    BY <1>1, <1>5 DEF FoundTo
  <2>2. ASSUME Free(s, n, j + 1)
        PROVE  t[N] = Done(l, j + 1)
    <3>1. Free(s, n + 1, j + 1) /\ Peek(s, j + 1) \notin Levels[n]
      BY <2>2 DEF Free
    <3>2. PICK m \in 0 .. N : t[m] = Done(l, j + 1)
      BY <2>1, <3>1 DEF TurnIs
    <3>3. ASSUME NEW k \in 1 .. N, t[k - 1] = t[m]
          PROVE  t[k] = t[m]
      <4>1. t[k] = OneTurn(n, s, p, t[m])
        BY <1>1, <1>3, <3>3 DEF RestTurns
      <4>2. t[m].at = j + 1
        BY <3>2, DoneIs
      <4>3. OneTurn(n, s, p, t[m]) = t[m]
        BY <3>1, <4>2 DEF OneTurn
      <4> QED BY <4>1, <4>3
    <3>4. t[N] = t[m]
      BY <3>3, Settles
    <3> QED BY <3>2, <3>4
  <2> QED BY <2>1, <2>2
<1> QED BY <1>1, <1>3, <1>4, <1>6 DEF Agrees, Got

-----------------------------------------------------------------------------
(* The arguments of a call.                                                *)
\* A list of arguments is not empty, and one argument is an expression.
ListTo(s, d, a, b) ==
  \A l \in d[<<0, a, b>>] : l \in Seq(TreesOf(s)) /\ Len(l) >= 1 /\ (Len(l) = 1 => l \in d[<<1, a, b>>])

LEMMA ListSplits ==
  ASSUME NEW s, NEW d, NEW p, NEW i, Parsed(s, d, p, i), NEW a \in i .. Len(s) + 1, NEW b \in a .. Len(s),
         NEW l \in d[<<0, a, b>>], l \notin d[<<1, a, b>>]
  PROVE  \E k \in a + 1 .. b - 1 : CommaAt(s, d, a, b, k, l) /\ d[<<1, k + 1, b>>] \subseteq Lists(s)
<1>1. PICK N \in Nat : N = Len(s)
  BY TextFacts DEF Parsed
<1>2. Derivation(s, d) /\ a \in Nat /\ b \in Nat /\ 1 <= a /\ a <= b /\ b <= N /\ i \in Nat /\ i <= a
  BY <1>1 DEF Parsed
<1>3. PICK k \in a .. b : CommaAt(s, d, a, b, k, l)
  <2>1. a \in 1 .. Len(s) + 2 /\ b \in 0 .. Len(s)
    BY <1>1, <1>2
  <2>2. \A q : q \in d[<<0, a, b>>] <=> q \in d[<<1, a, b>>] \/ \E k \in a .. b : CommaAt(s, d, a, b, k, q)
    BY <1>2, <2>1, ListIs
  <2> QED BY <2>2
<1>4. PICK x \in d[<<0, a, k - 1>>] : \E y \in d[<<1, k + 1, b>>] : l = x \o y
  BY <1>3 DEF CommaAt
<1>5. PICK y \in d[<<1, k + 1, b>>] : l = x \o y
  BY <1>4
<1>6. PICK c \in Nat, e \in Nat : c = k - 1 /\ e = k + 1
  BY <1>2
<1>7. a <= c
  <2>1. a \in 1 .. Len(s) + 2 /\ c \in 0 .. Len(s) /\ 0 \in 0 .. 3
    BY <1>1, <1>2, <1>6
  <2>2. x \in d[<<0, a, c>>]
    BY <1>6
  <2>3. ~(a > c)
    BY <1>2, <2>1, <2>2, DerivedNothing
  <2> QED BY <1>2, <2>3
<1>8. e <= b
  <2>1. e \in 1 .. Len(s) + 2 /\ b \in 0 .. Len(s) /\ 1 \in 0 .. 3
    BY <1>1, <1>2, <1>6
  <2>2. y \in d[<<1, e, b>>]
    BY <1>6
  <2>3. ~(e > b)
    BY <1>2, <2>1, <2>2, DerivedNothing
  <2> QED BY <1>2, <2>3
<1>9. d[<<1, k + 1, b>>] \subseteq Lists(s)
  <2>1. e \in i .. Len(s) + 1 /\ b \in e .. Len(s) /\ 1 \in 1 .. 3
    BY <1>1, <1>2, <1>6, <1>8
  <2>2. \A q \in d[<<1, e, b>>] : q \in Lists(s)
    BY <2>1, OperandLists
  <2> QED BY <1>6, <2>2
<1>10. k \in a + 1 .. b - 1
  BY <1>2, <1>6, <1>7, <1>8
<1> QED BY <1>3, <1>9, <1>10

LEMMA ListsAreLong ==
  ASSUME NEW s, NEW d, NEW p, NEW i, Parsed(s, d, p, i), NEW a \in i .. Len(s) + 1
  PROVE  \A b \in a .. Len(s) : ListTo(s, d, a, b)
<1>1. PICK N \in Nat : N = Len(s)
  BY TextFacts DEF Parsed
<1>2. Derivation(s, d) /\ a \in Nat /\ 1 <= a
  BY <1>1 DEF Parsed
<1> DEFINE G == {k \in 0 .. N : \A b \in a .. N : b < a + k => ListTo(s, d, a, b)}
<1>3. 0 \in G
  BY <1>2
<1>4. ASSUME NEW h \in 0 .. N - 1, h \in G
      PROVE  h + 1 \in G
  <2>1. ASSUME NEW b \in a .. N, b < a + (h + 1), NEW l \in d[<<0, a, b>>]
        PROVE  l \in Seq(TreesOf(s)) /\ Len(l) >= 1 /\ (Len(l) = 1 => l \in d[<<1, a, b>>])
    <3>1. b \in a .. Len(s) /\ 1 \in 1 .. 3
      BY <1>1
    <3>2. CASE l \in d[<<1, a, b>>]
      <4>1. l \in Lists(s)
        BY <3>1, <3>2, OperandLists
      <4>2. l \in Seq(TreesOf(s)) /\ Len(l) = 1
        BY <4>1, ListFacts
      <4>3. Len(l) >= 1
        BY <4>2
      <4> QED BY <3>2, <4>2, <4>3
    <3>3. CASE l \notin d[<<1, a, b>>]
      <4> HIDE DEF G
      <4>1. PICK k \in a + 1 .. b - 1 : CommaAt(s, d, a, b, k, l) /\ d[<<1, k + 1, b>>] \subseteq Lists(s)
        BY <3>1, <3>3, ListSplits
      <4>2. PICK x \in d[<<0, a, k - 1>>] : \E y \in d[<<1, k + 1, b>>] : l = x \o y
        BY <4>1 DEF CommaAt
      <4>3. PICK y \in Lists(s) : l = x \o y
        BY <4>1, <4>2
      <4>4. PICK c \in a .. N : c = k - 1 /\ c < a + h
        BY <1>2, <2>1
      <4>5. ListTo(s, d, a, c)
        BY <1>4, <4>4 DEF G
      <4>6. x \in Seq(TreesOf(s)) /\ Len(x) >= 1
        BY <4>4, <4>5 DEF ListTo
      <4>7. y \in Seq(TreesOf(s)) /\ Len(y) = 1
        BY ListFacts
      <4>8. x \o y \in Seq(TreesOf(s)) /\ Len(x \o y) = Len(x) + Len(y)
        <5>1. \A v, w \in Seq(TreesOf(s)) : v \o w \in Seq(TreesOf(s)) /\ Len(v \o w) = Len(v) + Len(w)
          BY ListFacts
        <5> QED BY <4>6, <4>7, <5>1
      <4>9. Len(x) \in Nat
        BY <4>6
      <4>10. l \in Seq(TreesOf(s)) /\ Len(l) >= 2
        BY <4>3, <4>6, <4>7, <4>8, <4>9
      <4>11. PICK g \in Nat : g = Len(l)
        BY <4>10
      <4>12. Len(l) >= 1 /\ Len(l) # 1
        BY <4>10, <4>11
      <4> QED BY <4>10, <4>12
    <3> QED BY <3>2, <3>3
  <2>2. h + 1 \in 0 .. N
    OBVIOUS
  <2> QED BY <2>1, <2>2 DEF ListTo
<1> HIDE DEF G
<1>5. N \in G
  <2>1. 0 .. N \subseteq G
    BY <1>3, <1>4, Stepwise
  <2>2. N \in 0 .. N
    OBVIOUS
  <2> QED BY <2>1, <2>2
<1>6. \A b \in a .. N : b < a + N
  BY <1>2
<1> QED BY <1>1, <1>5, <1>6 DEF G

\* What the turns find is a list of arguments ...
GotList(s, d, a, r) == r.at # 0 => \E b \in a .. Len(s) : \E l \in d[<<0, a, b>>] : r = Done(l, b + 1)

LEMMA MoreSound ==
  ASSUME NEW s, NEW d, NEW p, NEW i, Parsed(s, d, p, i), NEW a \in i .. Len(s) + 1,
         NEW r \in Results(s, a), GotList(s, d, a, r)
  PROVE  GotList(s, d, a, OneMore(s, p, r))
<1>1. PICK N \in Nat : N = Len(s)
  BY TextFacts DEF Parsed
<1>2. IsText(s) /\ Derivation(s, d) /\ a \in Nat /\ i \in Nat /\ 1 <= a /\ i <= a
  BY <1>1 DEF Parsed
<1>3. PICK k \in Nat : k = r.at
  BY <1>2, ResultFacts
<1>4. CASE Peek(s, k) # ","
  BY <1>3, <1>4 DEF OneMore
<1>5. CASE Peek(s, k) = ","
  <2>15. Peek(s, k) # End
    BY <1>5, PunctuationApart
  <2>1. k \in 1 .. N /\ Peek(s, k) = s[k]
    BY <1>1, <1>2, <2>15, PeekFacts
  <2>14. s[k] = ","
    BY <1>5, <2>1
  <2>2. r.at # 0
    BY <1>3, <2>1
  <2>3. PICK c \in a .. Len(s) : \E l \in d[<<0, a, c>>] : r = Done(l, c + 1)
    BY <2>2 DEF GotList
  <2>4. PICK l \in d[<<0, a, c>>] : r = Done(l, c + 1)
    BY <2>3
  <2>5. r.at = c + 1
    BY <2>4, DoneIs
  <2>6. c \in Nat /\ c + 1 = k /\ c = k - 1 /\ a <= c /\ c <= N /\ k <= N
    BY <1>1, <1>2, <1>3, <2>1, <2>5
  <2>7. PICK e \in Nat : e = k + 1
    OBVIOUS
  <2>8. e \in i .. Len(s) + 1 /\ a <= k /\ k < e
    BY <1>1, <1>2, <2>6, <2>7
  <2>9. r = Done(l, k)
    BY <2>4, <2>6
  <2>10. PICK z : z = Operand(1, p, Done(l, e))
    OBVIOUS
  <2>11. OneMore(s, p, r) = z
    <3>1. OneMore(s, p, r) = Operand(1, p, Skip(r))
      BY <1>3, <1>5 DEF OneMore
    <3>2. Skip(r) = Done(l, e)
      BY <2>7, <2>9, SkipIs
    <3> QED BY <2>10, <3>1, <3>2
  <2>12. CASE z.at = 0
    BY <2>11, <2>12 DEF GotList
  <2>13. CASE z.at # 0
    <3>1. Follows(s, d, 1, e, l, z)
      BY <2>8, <2>10, <2>13, Nonterminals, OperandSound
    <3>2. PICK b \in e .. Len(s) : \E q \in d[<<1, e, b>>] : q \in Lists(s) /\ z = Done(l \o q, b + 1)
      BY <3>1 DEF Follows
    <3>3. PICK q \in d[<<1, e, b>>] : z = Done(l \o q, b + 1)
      BY <3>2
    <3>4. b \in Int /\ e <= b /\ b <= N
      BY <1>1, <2>7
    <3>5. b \in a .. Len(s) /\ k \in a .. b /\ a <= b /\ a \in 1 .. Len(s) + 2 /\ b \in 0 .. Len(s)
      BY <1>1, <1>2, <2>6, <2>8, <3>4
    <3>6. l \o q \in d[<<0, a, b>>]
      <4>1. l \in d[<<0, a, k - 1>>] /\ q \in d[<<1, k + 1, b>>]
        BY <2>4, <2>6, <2>7, <3>3
      <4>2. CommaAt(s, d, a, b, k, l \o q)
        BY <2>14, <4>1 DEF CommaAt
      <4>3. \A x : (\E j \in a .. b : CommaAt(s, d, a, b, j, x)) => x \in d[<<0, a, b>>]
        BY <1>2, <3>5, ListIs
      <4> QED BY <3>5, <4>2, <4>3
    <3> QED BY <2>11, <3>3, <3>5, <3>6 DEF GotList
  <2> QED BY <2>12, <2>13
<1> QED BY <1>4, <1>5

\* No binary operator stands where a comma, a parenthesis or a comparison does.
LEMMA PunctuationFree ==
  \A s : IsText(s) => \A k \in 1 .. Len(s) : s[k] \in {",", ")"} \cup Cmps => Free(s, 1, k)
<1>1. Levels[1] = {"+", "-"} /\ Levels[2] = {"*", "/"}
  BY DEF Levels
<1>2. \A t \in {",", ")"} \cup Cmps : t \notin {"+", "-"} /\ t \notin {"*", "/"}
  BY DEF Cmps
<1>3. \A t \in {",", ")"} \cup Cmps : \A m \in {1, 2} : t \notin Levels[m]
  BY <1>1, <1>2
<1>4. \A s : IsText(s) => \A k \in 1 .. Len(s) : Peek(s, k) = s[k]
  BY TextFacts DEF Peek
<1> QED BY <1>3, <1>4 DEF Free

FoundList(s, d, a, t, b) ==
  \A l \in d[<<0, a, b>>] : Free(s, 1, b + 1) => TurnIs(t, Len(s), b - a, Done(l, b + 1))

LEMMA MoreFound ==
  ASSUME NEW s, NEW d, NEW p, NEW i, Parsed(s, d, p, i), NEW a \in i .. Len(s) + 1,
         NEW t, t[0] = Operand(1, p, Done(<<>>, a)), MoreTurns(s, p, t),
         NEW b \in a .. Len(s), \A c \in a .. b - 1 : FoundList(s, d, a, t, c)
  PROVE  FoundList(s, d, a, t, b)
<1>1. PICK N \in Nat : N = Len(s) /\ DOMAIN s = 1 .. N
  BY TextFacts DEF Parsed
<1>2. a \in Nat /\ b \in Nat /\ a <= b /\ b <= N /\ 1 <= a /\ i \in Nat /\ i <= a
  BY <1>1 DEF Parsed
<1>3. IsText(s) /\ Derivation(s, d)
  BY DEF Parsed
<1> SUFFICES ASSUME NEW l \in d[<<0, a, b>>], Free(s, 1, b + 1)
             PROVE  TurnIs(t, N, b - a, Done(l, b + 1))
  BY <1>1 DEF FoundList
<1>4. CASE l \in d[<<1, a, b>>]
  <2>1. PICK none : none = <<>>
    OBVIOUS
  <2>2. l \in Lists(s) /\ Operand(1, p, Done(none, a)) = Done(none \o l, b + 1)
    BY <1>4, Nonterminals, OperandFound
  <2>3. none \o l = l
    BY <2>1, <2>2, ListFacts
  <2>4. 0 \in 0 .. N /\ 0 <= b - a
    BY <1>2
  <2>5. t[0] = Done(l, b + 1)
    BY <2>1, <2>2, <2>3
  <2> QED BY <2>4, <2>5 DEF TurnIs
<1>5. CASE l \notin d[<<1, a, b>>]
  <2>1. PICK k \in a + 1 .. b - 1 : CommaAt(s, d, a, b, k, l) /\ d[<<1, k + 1, b>>] \subseteq Lists(s)
    BY <1>5, ListSplits
  <2>2. PICK x \in d[<<0, a, k - 1>>] : \E y \in d[<<1, k + 1, b>>] : l = x \o y
    BY <2>1 DEF CommaAt
  <2>3. PICK y \in d[<<1, k + 1, b>>] : l = x \o y
    BY <2>2
  <2>4. PICK c \in Nat, e \in Nat : c = k - 1 /\ e = k + 1
    BY <1>2
  <2>5. k \in 1 .. N /\ k \in Nat /\ c + 1 = k /\ c \in a .. b - 1 /\ e \in i .. Len(s) + 1 /\ b \in e .. Len(s)
    BY <1>1, <1>2, <2>4
  <2>6. s[k] = ","
    BY <2>1 DEF CommaAt
  <2>7. Free(s, 1, k) /\ Peek(s, k) = ","
    <3>1. k \in DOMAIN s /\ k \in 1 .. Len(s)
      BY <1>1, <2>5
    <3> QED BY <1>3, <2>6, <3>1, PunctuationFree DEF Peek
  <2>8. TurnIs(t, N, c - a, Done(x, k))
    <3>1. FoundList(s, d, a, t, c) /\ x \in d[<<0, a, c>>]
      BY <2>4, <2>5
    <3>2. Free(s, 1, c + 1)
      BY <2>5, <2>7
    <3>3. TurnIs(t, Len(s), c - a, Done(x, c + 1))
      BY <3>1, <3>2 DEF FoundList
    <3> QED BY <1>1, <2>5, <3>3
  <2>9. PICK h \in 0 .. N : h <= c - a /\ t[h] = Done(x, k)
    BY <2>8 DEF TurnIs
  <2>10. h + 1 \in 1 .. N /\ (h + 1) - 1 = h /\ h + 1 <= b - a /\ h + 1 \in 0 .. N
    BY <1>2, <2>4, <2>5, <2>9
  <2>11. t[h + 1] = OneMore(s, p, t[h])
    BY <1>1, <2>10 DEF MoreTurns
  <2>12. t[h].at = k
    BY <2>9, DoneIs
  <2>13. OneMore(s, p, t[h]) = Operand(1, p, Skip(t[h]))
    BY <2>7, <2>12 DEF OneMore
  <2>14. Skip(t[h]) = Done(x, e)
    BY <2>4, <2>9, SkipIs
  <2>15. y \in d[<<1, e, b>>]
    BY <2>4
  <2>16. Operand(1, p, Done(x, e)) = Done(x \o y, b + 1)
    BY <2>5, <2>15, Nonterminals, OperandFound
  <2>17. t[h + 1] = Done(l, b + 1)
    BY <2>3, <2>11, <2>13, <2>14, <2>16
  <2> QED BY <2>10, <2>17 DEF TurnIs
<1> QED BY <1>4, <1>5

\* The arguments that More finds, and all arguments in front of a parenthesis.
ListAgrees(s, d, a, e) ==
  /\ GotList(s, d, a, e)
  /\ \A b \in a .. Len(s) : \A l \in d[<<0, a, b>>] : Peek(s, b + 1) = ")" => e = Done(l, b + 1)

LEMMA MoreAgrees ==
  ASSUME NEW s, NEW d, NEW p, NEW i, Parsed(s, d, p, i), NEW a \in i .. Len(s) + 1
  PROVE  ListAgrees(s, d, a, More(s, p, Operand(1, p, Done(<<>>, a))))
<1>1. PICK N \in Nat : N = Len(s) /\ DOMAIN s = 1 .. N
  BY TextFacts DEF Parsed
<1>2. IsText(s) /\ Derivation(s, d) /\ p \in Tables(s) /\ i \in Nat /\ a \in Nat /\ a \in 1 .. Len(s) + 1
  BY <1>1 DEF Parsed
<1>3. PICK r : r = Operand(1, p, Done(<<>>, a))
  OBVIOUS
<1>4. r \in Results(s, a)
  BY <1>2, <1>3, Nonterminals, FirstOperand
<1>5. PICK t \in [0 .. N -> Results(s, a)] : t[0] = r /\ MoreTurns(s, p, t) /\ More(s, p, r) = t[N]
  BY <1>1, <1>2, <1>4, MoreIsLast
<1>6. GotList(s, d, a, t[N])
  <2> DEFINE G == {k \in 0 .. N : GotList(s, d, a, t[k])}
  <2>1. 0 \in G
    <3>1. ASSUME r.at # 0
          PROVE  \E b \in a .. Len(s) : \E l \in d[<<0, a, b>>] : r = Done(l, b + 1)
      <4>1. PICK none : none = <<>>
        OBVIOUS
      <4>2. Operand(1, p, Done(none, a)) = r
        BY <1>3, <4>1
      <4>3. Follows(s, d, 1, a, none, r)
        BY <3>1, <4>2, Nonterminals, OperandSound
      <4>4. PICK b \in a .. Len(s) : \E q \in d[<<1, a, b>>] : q \in Lists(s) /\ r = Done(none \o q, b + 1)
        BY <4>3 DEF Follows
      <4>5. PICK q \in d[<<1, a, b>>] : q \in Lists(s) /\ r = Done(none \o q, b + 1)
        BY <4>4
      <4>6. none \o q = q
        BY <4>1, <4>5, ListFacts
      <4>7. a \in 1 .. Len(s) + 2 /\ b \in 0 .. Len(s) /\ a <= b
        BY <1>1, <1>2
      <4>8. q \in d[<<0, a, b>>]
        BY <1>2, <4>7, ListIs
      <4> QED BY <4>5, <4>6, <4>8
    <3>2. GotList(s, d, a, t[0])
      BY <1>5, <3>1 DEF GotList
    <3> QED BY <3>2
  <2>2. ASSUME NEW k \in 0 .. N - 1, k \in G
        PROVE  k + 1 \in G
    <3>1. k + 1 \in 1 .. N /\ (k + 1) - 1 = k /\ k \in 0 .. N /\ k + 1 \in 0 .. N
      OBVIOUS
    <3>2. t[k + 1] = OneMore(s, p, t[k])
      BY <1>1, <1>5, <3>1 DEF MoreTurns
    <3>3. t[k] \in Results(s, a) /\ GotList(s, d, a, t[k])
      BY <1>5, <2>2, <3>1
    <3>4. GotList(s, d, a, t[k + 1])
      BY <3>2, <3>3, MoreSound
    <3> QED BY <3>1, <3>4
  <2> HIDE DEF G
  <2>3. 0 .. N \subseteq G
    BY <2>1, <2>2, Stepwise
  <2>4. N \in 0 .. N
    OBVIOUS
  <2> QED BY <2>3, <2>4 DEF G
<1>7. \A b \in a .. N : FoundList(s, d, a, t, b)
  <2> DEFINE G == {k \in 0 .. N : \A b \in a .. N : b < a + k => FoundList(s, d, a, t, b)}
  <2>1. 0 \in G
    BY <1>2
  <2>2. ASSUME NEW k \in 0 .. N - 1, k \in G
        PROVE  k + 1 \in G
    <3>1. ASSUME NEW b \in a .. N, b < a + (k + 1)
          PROVE  FoundList(s, d, a, t, b)
      <4>1. ASSUME NEW c \in a .. b - 1
            PROVE  FoundList(s, d, a, t, c)
        <5>1. c \in a .. N /\ c < a + k
          BY <1>2, <3>1
        <5> QED BY <2>2, <5>1
      <4> HIDE DEF G
      <4>2. t[0] = Operand(1, p, Done(<<>>, a))
        BY <1>3, <1>5
      <4> QED BY <1>1, <1>5, <4>1, <4>2, MoreFound
    <3>2. k + 1 \in 0 .. N
      OBVIOUS
    <3> QED BY <3>1, <3>2
  <2> HIDE DEF G
  <2>3. 0 .. N \subseteq G
    BY <2>1, <2>2, Stepwise
  <2>4. N \in G
    <3>1. N \in 0 .. N
      OBVIOUS
    <3> QED BY <2>3, <3>1
  <2>5. \A b \in a .. N : b < a + N
    BY <1>2
  <2> QED BY <2>4, <2>5 DEF G
<1>8. ASSUME NEW b \in a .. N, NEW l \in d[<<0, a, b>>], Peek(s, b + 1) = ")"
      PROVE  t[N] = Done(l, b + 1)
  <2>1. b + 1 \in Nat
    BY <1>2
  <2>2. Peek(s, b + 1) # End
    BY <1>8, PunctuationApart
  <2>3. b + 1 \in 1 .. Len(s) /\ Peek(s, b + 1) = s[b + 1]
    BY <1>2, <2>1, <2>2, PeekFacts
  <2>4. s[b + 1] = ")"
    BY <1>8, <2>3
  <2>5. Free(s, 1, b + 1)
    BY <1>2, <2>3, <2>4, PunctuationFree
  <2>6. TurnIs(t, Len(s), b - a, Done(l, b + 1))
    BY <1>7, <2>5 DEF FoundList
  <2>7. PICK m \in 0 .. N : t[m] = Done(l, b + 1)
    BY <1>1, <2>6 DEF TurnIs
  <2>8. OneMore(s, p, t[m]) = t[m]
    <3>1. t[m].at = b + 1
      BY <2>7, DoneIs
    <3>2. Peek(s, t[m].at) # ","
      BY <1>8, <3>1
    <3> QED BY <3>2 DEF OneMore
  <2>9. ASSUME NEW k \in 1 .. N, t[k - 1] = t[m]
        PROVE  t[k] = t[m]
    <3>1. t[k] = OneMore(s, p, t[m])
      BY <1>1, <1>5, <2>9 DEF MoreTurns
    <3> QED BY <2>8, <3>1
  <2>10. t[N] = t[m]
    BY <2>9, Settles
  <2> QED BY <2>7, <2>10
<1> QED BY <1>1, <1>3, <1>5, <1>6, <1>8 DEF ListAgrees

\* The conditions that are derived.
Conds(s, d, a, b) == Binary(s, d, Cmps, 1, a, b, 1)

IsCond(s, d, a, r) == \E b \in a .. Len(s) : \E c \in Conds(s, d, a, b) : c \in Lists(s) /\ r = Done(c, b + 1)

LEMMA CondSound ==
  ASSUME NEW s, NEW d, NEW p, NEW i, Parsed(s, d, p, i), NEW a \in i .. Len(s) + 1,
         Cond(s, p, Done(<<>>, a)).at # 0
  PROVE  IsCond(s, d, a, Cond(s, p, Done(<<>>, a)))
<1>1. PICK N \in Nat : N = Len(s) /\ DOMAIN s = 1 .. N
  BY TextFacts DEF Parsed
<1>2. IsText(s) /\ Derivation(s, d) /\ a \in Nat /\ i \in Nat /\ i <= a /\ 1 <= a
  BY <1>1 DEF Parsed
<1>3. PICK none : none = <<>>
  OBVIOUS
<1>4. PICK left : left = Operand(1, p, Done(none, a))
  OBVIOUS
<1>5. PICK e : e = Cond(s, p, Done(none, a))
  OBVIOUS
<1>6. PICK op : op = Peek(s, left.at)
  OBVIOUS
<1>7. e = IF op \in Cmps THEN Made(op, Operand(1, p, Skip(left))) ELSE Error
  BY <1>4, <1>5, <1>6 DEF Cond
<1>8. e.at # 0
  BY <1>3, <1>5
<1>9. op \in Cmps
  BY <1>7, <1>8, ErrorIs
<1>10. left.at # 0
  <2>1. 0 \notin DOMAIN s
    BY <1>1
  <2>2. Peek(s, 0) = End
    BY <2>1 DEF Peek
  <2>3. op # End
    BY <1>9, AccountsApart
  <2> QED BY <1>6, <2>2, <2>3
<1>11. Follows(s, d, 1, a, none, left)
  BY <1>4, <1>10, Nonterminals, OperandSound
<1>12. PICK c \in a .. Len(s) : \E x \in d[<<1, a, c>>] : x \in Lists(s) /\ left = Done(none \o x, c + 1)
  BY <1>11 DEF Follows
<1>13. PICK x \in d[<<1, a, c>>] : x \in Lists(s) /\ left = Done(none \o x, c + 1)
  BY <1>12
<1>14. none \o x = x
  BY <1>3, <1>13, ListFacts
<1>15. PICK k \in Nat, g \in Nat : k = c + 1 /\ g = k + 1 /\ c = k - 1
  BY <1>2
<1>16. left = Done(x, k) /\ op = Peek(s, k)
  BY <1>6, <1>13, <1>14, <1>15, DoneIs
<1>17. k \in 1 .. Len(s) /\ op = s[k] /\ s[k] \in Toks(s)
  <2>1. Peek(s, k) # End
    BY <1>9, <1>16, AccountsApart
  <2> QED BY <1>2, <1>16, <2>1, PeekFacts
<1>18. g \in i .. Len(s) + 1 /\ a <= c /\ c < k
  BY <1>1, <1>2, <1>15, <1>17
<1>19. PICK z : z = Operand(1, p, Done(x, g))
  OBVIOUS
<1>20. e = Made(op, z)
  <2>1. Skip(left) = Done(x, g)
    BY <1>15, <1>16, SkipIs
  <2> QED BY <1>7, <1>9, <1>19, <2>1
<1>21. z.at # 0
  BY <1>8, <1>20, MadeFails, ErrorIs
<1>22. Follows(s, d, 1, g, x, z)
  BY <1>18, <1>19, <1>21, Nonterminals, OperandSound
<1>23. PICK b \in g .. Len(s) : \E y \in d[<<1, g, b>>] : y \in Lists(s) /\ z = Done(x \o y, b + 1)
  BY <1>22 DEF Follows
<1>24. PICK y \in d[<<1, g, b>>] : y \in Lists(s) /\ z = Done(x \o y, b + 1)
  BY <1>23
<1>25. PICK q : q = <<Node(s[k], x \o y)>>
  OBVIOUS
<1>26. b \in a .. Len(s) /\ b + 1 # 0 /\ k \in a .. b
  <2>1. b \in Int /\ g <= b /\ b <= N
    BY <1>1, <1>15
  <2> QED BY <1>1, <1>2, <1>15, <1>18, <2>1
<1>27. e = Done(q, b + 1)
  BY <1>17, <1>20, <1>24, <1>25, <1>26, MadeIs
<1>28. SplitAt(s, d, 1, a, b, 1, k, q)
  BY <1>15, <1>13, <1>24, <1>25 DEF SplitAt
<1>29. q \in Conds(s, d, a, b)
  BY <1>9, <1>17, <1>26, <1>28, BinaryIs DEF Conds
<1>30. q \in Lists(s)
  <2>1. s[k] # ""
    BY <1>9, <1>17, TokensAreNamed
  <2>2. x \o y \in Seq(TreesOf(s))
    BY <1>13, <1>24, ListFacts
  <2> QED BY <1>17, <1>25, <2>1, <2>2, ListFacts
<1>31. IsCond(s, d, a, e)
  BY <1>26, <1>27, <1>29, <1>30 DEF IsCond
<1> QED BY <1>3, <1>5, <1>31

\* The pieces of a condition.
CondAt(s, d, a, b, k, c) ==
  /\ k \in a + 1 .. b - 1
  /\ s[k] \in Cmps
  /\ \E x \in d[<<1, a, k - 1>>] : \E y \in d[<<1, k + 1, b>>] : c = <<Node(s[k], x \o y)>>

LEMMA CondSplits ==
  ASSUME NEW s, NEW d, NEW p, NEW i, Parsed(s, d, p, i), NEW a \in i .. Len(s) + 1, NEW b \in 0 .. Len(s),
         NEW c \in Conds(s, d, a, b)
  PROVE  \E k \in 1 .. Len(s) : CondAt(s, d, a, b, k, c)
<1>1. PICK N \in Nat : N = Len(s)
  BY TextFacts DEF Parsed
<1>2. Derivation(s, d) /\ a \in Nat /\ b \in Nat /\ i \in Nat /\ i <= a /\ 1 <= a /\ b <= N
  BY <1>1 DEF Parsed
<1>3. PICK k \in a .. b : s[k] \in Cmps /\ SplitAt(s, d, 1, a, b, 1, k, c)
  BY BinaryIs DEF Conds
<1>4. PICK x \in d[<<1, a, k - 1>>] : \E y \in d[<<1, k + 1, b>>] : c = <<Node(s[k], x \o y)>>
  BY <1>3 DEF SplitAt
<1>5. PICK y \in d[<<1, k + 1, b>>] : c = <<Node(s[k], x \o y)>>
  BY <1>4
<1>6. PICK h \in Nat, e \in Nat : h = k - 1 /\ e = k + 1
  BY <1>2
<1>7. a <= h
  <2>1. a \in 1 .. Len(s) + 2 /\ h \in 0 .. Len(s) /\ 1 \in 0 .. 3
    BY <1>1, <1>2, <1>6
  <2>2. x \in d[<<1, a, h>>]
    BY <1>6
  <2>3. ~(a > h)
    BY <1>2, <2>1, <2>2, DerivedNothing
  <2> QED BY <1>2, <2>3
<1>8. e <= b
  <2>1. e \in 1 .. Len(s) + 2 /\ b \in 0 .. Len(s) /\ 1 \in 0 .. 3
    BY <1>1, <1>2, <1>6
  <2>2. y \in d[<<1, e, b>>]
    BY <1>6
  <2>3. ~(e > b)
    BY <1>2, <2>1, <2>2, DerivedNothing
  <2> QED BY <1>2, <2>3
<1>9. k \in a + 1 .. b - 1 /\ k \in 1 .. Len(s)
  BY <1>1, <1>2, <1>6, <1>7, <1>8
<1> QED BY <1>3, <1>5, <1>9 DEF CondAt

LEMMA CondFound ==
  ASSUME NEW s, NEW d, NEW p, NEW i, Parsed(s, d, p, i), NEW a \in i .. Len(s) + 1, NEW b \in 0 .. Len(s),
         NEW c \in Conds(s, d, a, b), Free(s, 1, b + 1)
  PROVE  c \in Lists(s) /\ Cond(s, p, Done(<<>>, a)) = Done(c, b + 1)
<1>1. PICK N \in Nat : N = Len(s) /\ DOMAIN s = 1 .. N
  BY TextFacts DEF Parsed
<1>2. IsText(s) /\ Derivation(s, d) /\ a \in Nat /\ b \in Nat /\ i \in Nat /\ i <= a /\ 1 <= a /\ b <= N
  BY <1>1 DEF Parsed
<1>3. PICK k \in 1 .. Len(s) : CondAt(s, d, a, b, k, c)
  BY CondSplits
<1>4. k \in a + 1 .. b - 1 /\ s[k] \in Cmps
  BY <1>3 DEF CondAt
<1>5. PICK x \in d[<<1, a, k - 1>>] : \E y \in d[<<1, k + 1, b>>] : c = <<Node(s[k], x \o y)>>
  BY <1>3 DEF CondAt
<1>6. PICK y \in d[<<1, k + 1, b>>] : c = <<Node(s[k], x \o y)>>
  BY <1>5
<1>7. PICK h \in Nat, e \in Nat : h = k - 1 /\ e = k + 1 /\ h + 1 = k
  BY <1>2, <1>4
<1>8. h \in a .. Len(s) /\ e \in i .. Len(s) + 1 /\ b \in e .. Len(s) /\ b + 1 # 0
  BY <1>1, <1>2, <1>4, <1>7
<1>9. Peek(s, k) = s[k] /\ s[k] \in Toks(s) /\ Free(s, 1, k)
  BY <1>1, <1>2, <1>4, TextFacts, PunctuationFree DEF Peek
<1>10. x \in d[<<1, a, h>>] /\ y \in d[<<1, e, b>>] /\ Free(s, 1, h + 1)
  BY <1>7, <1>9
<1>11. PICK none : none = <<>>
  OBVIOUS
<1>12. x \in Lists(s) /\ Operand(1, p, Done(none, a)) = Done(none \o x, h + 1)
  BY <1>8, <1>10, Nonterminals, OperandFound
<1>13. none \o x = x
  BY <1>11, <1>12, ListFacts
<1>14. PICK left : left = Operand(1, p, Done(none, a)) /\ left = Done(x, k)
  BY <1>7, <1>12, <1>13
<1>15. left.at = k
  BY <1>14, DoneIs
<1>16. Cond(s, p, Done(none, a)) = Made(s[k], Operand(1, p, Skip(left)))
  BY <1>4, <1>9, <1>14, <1>15 DEF Cond
<1>17. Skip(left) = Done(x, e)
  BY <1>7, <1>14, SkipIs
<1>18. y \in Lists(s) /\ Operand(1, p, Done(x, e)) = Done(x \o y, b + 1)
  BY <1>8, <1>10, Nonterminals, OperandFound
<1>19. Made(s[k], Done(x \o y, b + 1)) = Done(c, b + 1)
  BY <1>6, <1>8, MadeIs
<1>20. Cond(s, p, Done(none, a)) = Done(c, b + 1)
  BY <1>16, <1>17, <1>18, <1>19
<1>21. c \in Lists(s)
  <2>1. s[k] # ""
    BY <1>4, TokensAreNamed
  <2>2. x \o y \in Seq(TreesOf(s))
    BY <1>12, <1>18, ListFacts
  <2> QED BY <1>6, <1>9, <2>1, <2>2, ListFacts
<1> QED BY <1>11, <1>20, <1>21

LEMMA JoinsJoin ==
  \A S : \A a, b, c \in Seq(S) : \A v, w : v = a \o b /\ w = b \o c => v \o c = a \o w
<1> SUFFICES ASSUME NEW S, NEW a \in Seq(S), NEW b \in Seq(S), NEW c \in Seq(S)
             PROVE  (a \o b) \o c = a \o (b \o c)
  OBVIOUS
<1> DEFINE u == (a \o b) \o c
           v == a \o (b \o c)
<1>1. PICK l \in Nat, m \in Nat, n \in Nat : l = Len(a) /\ m = Len(b) /\ n = Len(c)
  OBVIOUS
<1>2. /\ Len(a \o b) = l + m /\ a \o b \in Seq(S) /\ Len(b \o c) = m + n /\ b \o c \in Seq(S)
      /\ Len(u) = l + m + n /\ u \in Seq(S) /\ Len(v) = l + m + n /\ v \in Seq(S)
  BY <1>1
<1>3. ASSUME NEW k \in 1 .. l + m + n PROVE u[k] = v[k]
  <2>1. CASE k <= l
    BY <1>1, <1>2, <2>1
  <2>2. CASE l < k /\ k <= l + m
    BY <1>1, <1>2, <2>2
  <2>3. CASE l + m < k
    BY <1>1, <1>2, <2>3
  <2>4. k <= l \/ (l < k /\ k <= l + m) \/ l + m < k
    OBVIOUS
  <2> HIDE DEF u, v
  <2> QED BY <2>1, <2>2, <2>3, <2>4
<1> HIDE DEF u, v
<1>4. u = v
  BY <1>2, <1>3
<1> QED BY <1>4 DEF u, v

Associate(a, b, c) == (a \o b) \o c = a \o (b \o c)

LEMMA TreesJoin == \A s : \A a, b, c \in Seq(TreesOf(s)) : Associate(a, b, c)
  BY JoinsJoin DEF Associate

LEMMA OneAndTwo ==
  ASSUME NEW s
  PROVE  /\ \A a, b \in Lists(s) : Len(a \o b) = 2
         /\ \A a \in Lists(s) : Len(a) # 2
         /\ \A a \in Seq(TreesOf(s)) : \A b \in Lists(s) : Len(a \o b) = 2 => Len(a) = 1
<1>1. ASSUME NEW a \in Seq(TreesOf(s)), NEW b \in Lists(s)
      PROVE  (Len(a) = 1 => Len(a \o b) = 2) /\ (Len(a \o b) = 2 => Len(a) = 1)
  <2>1. PICK n \in Nat : n = Len(a)
    OBVIOUS
  <2>2. Len(b) = 1 /\ b \in Seq(TreesOf(s))
    BY ListFacts
  <2>3. Len(a \o b) = n + 1
    BY <2>1, <2>2, ListFacts
  <2>4. n + 1 = 2 <=> n = 1
    OBVIOUS
  <2> QED BY <2>1, <2>3, <2>4
<1>2. \A a \in Lists(s) : a \in Seq(TreesOf(s)) /\ Len(a) = 1
  BY ListFacts
<1>3. \A a \in Lists(s) : Len(a) # 2
  <2>1. \A n : n = 1 => n # 2
    OBVIOUS
  <2> QED BY <1>2, <2>1
<1> QED BY <1>1, <1>2, <1>3

\* The arguments of an IF: a condition, and two expressions behind it.
IfArgs(s, p, open) == Operand(1, p, Expect(s, Operand(1, p, Expect(s, Cond(s, p, open), ",")), ","))

IfLists(s, d, a, b) ==
  UNION {Join(Conds(s, d, a, k - 1), {l \in d[<<0, k + 1, b>>] : Len(l) = 2}) : k \in Where(s, {","}, a, b)}

IfAt(s, d, a, b, k, l) ==
  s[k] = "," /\ \E c \in Conds(s, d, a, k - 1) : \E q \in d[<<0, k + 1, b>>] : Len(q) = 2 /\ l = c \o q

LEMMA IfListsAre ==
  \A s, d, a, b, l : l \in IfLists(s, d, a, b) <=> \E k \in a .. b : IfAt(s, d, a, b, k, l)
<1> SUFFICES ASSUME NEW s, NEW d, NEW a, NEW b, NEW l
             PROVE  l \in IfLists(s, d, a, b) <=> \E k \in a .. b : IfAt(s, d, a, b, k, l)
  OBVIOUS
<1>1. ASSUME NEW k
      PROVE  l \in Join(Conds(s, d, a, k - 1), {q \in d[<<0, k + 1, b>>] : Len(q) = 2}) <=>
               \E c \in Conds(s, d, a, k - 1) : \E q \in d[<<0, k + 1, b>>] : Len(q) = 2 /\ l = c \o q
  <2>1. PICK A, D : A = Conds(s, d, a, k - 1) /\ D = d[<<0, k + 1, b>>]
    OBVIOUS
  <2>2. l \in Join(A, {q \in D : Len(q) = 2}) <=> \E c \in A : \E q \in {r \in D : Len(r) = 2} : l = c \o q
    BY DEF Join
  <2>3. l \in Join(A, {q \in D : Len(q) = 2}) <=> \E c \in A : \E q \in D : Len(q) = 2 /\ l = c \o q
    BY <2>2
  <2> QED BY <2>1, <2>3
<1>2. \A k : k \in Where(s, {","}, a, b) <=> k \in a .. b /\ s[k] = ","
  BY DEF Where
<1>3. \A k : IfAt(s, d, a, b, k, l) <=>
             s[k] = "," /\ l \in Join(Conds(s, d, a, k - 1), {q \in d[<<0, k + 1, b>>] : Len(q) = 2})
  BY <1>1 DEF IfAt
<1>4. l \in IfLists(s, d, a, b) <=>
        \E k \in Where(s, {","}, a, b) : l \in Join(Conds(s, d, a, k - 1), {q \in d[<<0, k + 1, b>>] : Len(q) = 2})
  BY DEF IfLists
<1> QED BY <1>2, <1>3, <1>4

\* A list is passed when a comma follows it.
LEMMA CommaPassed ==
  ASSUME NEW s, IsText(s), NEW r, r.at \in Nat, Expect(s, r, ",").at # 0
  PROVE  r.at \in 1 .. Len(s) /\ s[r.at] = "," /\ Expect(s, r, ",") = Done(r.trees, r.at + 1)
<1>1. PICK comma : comma = "," /\ comma # End
  BY PunctuationApart
<1>2. Expect(s, r, comma).at # 0
  BY <1>1
<1>3. r.at \in 1 .. Len(s) /\ s[r.at] = comma /\ Expect(s, r, comma) = Done(r.trees, r.at + 1)
  BY <1>1, <1>2, ExpectSound, ZenonT(60)
<1> QED BY <1>1, <1>3

LEMMA CommaMissed ==
  ASSUME NEW s, IsText(s), NEW r, r.at = 0
  PROVE  Expect(s, r, ",") = Error
<1>1. "," # End
  BY PunctuationApart
<1> QED BY <1>1, ExpectFails

LEMMA CommaFound ==
  ASSUME NEW s, IsText(s), NEW k \in 1 .. Len(s), s[k] = ",", NEW l
  PROVE  Expect(s, Done(l, k), ",") = Done(l, k + 1) /\ Free(s, 1, k)
<1>1. Expect(s, Done(l, k), s[k]) = Done(l, k + 1)
  BY ExpectFound
<1>2. Free(s, 1, k)
  BY PunctuationFree
<1> QED BY <1>1, <1>2

GotIf(s, d, a, r) ==
  \E b \in a .. Len(s) : \E l \in IfLists(s, d, a, b) : l \in Seq(TreesOf(s)) /\ r = Done(l, b + 1)

LEMMA IfSound ==
  ASSUME NEW s, NEW d, NEW p, NEW i, Parsed(s, d, p, i), NEW a \in i .. Len(s) + 1,
         IfArgs(s, p, Done(<<>>, a)).at # 0
  PROVE  GotIf(s, d, a, IfArgs(s, p, Done(<<>>, a)))
<1>1. PICK N \in Nat : N = Len(s)
  BY TextFacts DEF Parsed
<1>2. IsText(s) /\ Derivation(s, d) /\ p \in Tables(s) /\ a \in Nat /\ i \in Nat /\ i <= a /\ 1 <= a
  BY <1>1 DEF Parsed
<1>3. PICK r1 : r1 = Cond(s, p, Done(<<>>, a))
  OBVIOUS
<1>4. PICK e1 : e1 = Expect(s, r1, ",")
  OBVIOUS
<1>5. PICK r2 : r2 = Operand(1, p, e1)
  OBVIOUS
<1>6. PICK e2 : e2 = Expect(s, r2, ",")
  OBVIOUS
<1>7. PICK r3 : r3 = Operand(1, p, e2)
  OBVIOUS
<1>8. r3 = IfArgs(s, p, Done(<<>>, a)) /\ r3.at # 0
  BY <1>3, <1>4, <1>5, <1>6, <1>7 DEF IfArgs
<1>9. e2.at # 0
  BY <1>2, <1>7, <1>8, Nonterminals, OperandFails, ErrorIs
<1>10. r2.at # 0
  BY <1>2, <1>6, <1>9, CommaMissed, ErrorIs
<1>11. e1.at # 0
  BY <1>2, <1>5, <1>10, Nonterminals, OperandFails, ErrorIs
<1>12. r1.at # 0
  BY <1>2, <1>4, <1>11, CommaMissed, ErrorIs
<1>13. IsCond(s, d, a, r1)
  BY <1>3, <1>12, CondSound
<1>14. PICK b1 \in a .. Len(s) : \E c \in Conds(s, d, a, b1) : c \in Lists(s) /\ r1 = Done(c, b1 + 1)
  BY <1>13 DEF IsCond
<1>15. PICK c \in Conds(s, d, a, b1) : c \in Lists(s) /\ r1 = Done(c, b1 + 1)
  BY <1>14
<1>16. PICK k1 \in Nat, a1 \in Nat : k1 = b1 + 1 /\ a1 = k1 + 1 /\ b1 = k1 - 1
  BY <1>2
<1>17. r1.at = k1 /\ r1.trees = c
  BY <1>15, <1>16, DoneIs
<1>18. k1 \in 1 .. Len(s) /\ s[k1] = "," /\ e1 = Done(c, a1)
  BY <1>2, <1>4, <1>11, <1>16, <1>17, CommaPassed
<1>19. a1 \in i .. Len(s) + 1 /\ a < k1 /\ k1 < a1
  <2>1. k1 \in 1 .. Len(s)
    BY <1>18
  <2> QED BY <1>1, <1>2, <1>16, <2>1
<1>20. Follows(s, d, 1, a1, c, r2)
  BY <1>5, <1>10, <1>18, <1>19, Nonterminals, OperandSound
<1>21. PICK b2 \in a1 .. Len(s) : \E q \in d[<<1, a1, b2>>] : q \in Lists(s) /\ r2 = Done(c \o q, b2 + 1)
  BY <1>20 DEF Follows
<1>22. PICK q1 \in d[<<1, a1, b2>>] : q1 \in Lists(s) /\ r2 = Done(c \o q1, b2 + 1)
  BY <1>21
<1>23. PICK k2 \in Nat, a2 \in Nat : k2 = b2 + 1 /\ a2 = k2 + 1 /\ b2 = k2 - 1
  BY <1>16
<1>24. r2.at = k2 /\ r2.trees = c \o q1
  BY <1>22, <1>23, DoneIs
<1>25. k2 \in 1 .. Len(s) /\ s[k2] = "," /\ e2 = Done(c \o q1, a2)
  BY <1>2, <1>6, <1>9, <1>23, <1>24, CommaPassed
<1>26. a2 \in i .. Len(s) + 1 /\ a1 < k2 /\ k2 < a2 /\ a1 <= b2
  <2>1. b2 \in Int /\ a1 <= b2
    BY <1>1, <1>16
  <2>2. k2 \in 1 .. Len(s)
    BY <1>25
  <2>3. k2 <= N
    BY <1>1, <2>2
  <2> QED BY <1>1, <1>2, <1>16, <1>19, <1>23, <2>1, <2>3
<1>27. Follows(s, d, 1, a2, c \o q1, r3)
  BY <1>7, <1>8, <1>25, <1>26, Nonterminals, OperandSound
<1>28. PICK b \in a2 .. Len(s) : \E q \in d[<<1, a2, b>>] : q \in Lists(s) /\ r3 = Done((c \o q1) \o q, b + 1)
  BY <1>27 DEF Follows
<1>29. PICK q2 \in d[<<1, a2, b>>] : q2 \in Lists(s) /\ r3 = Done((c \o q1) \o q2, b + 1)
  BY <1>28
<1>30. b \in Nat /\ a2 <= b /\ b <= N
  BY <1>1, <1>23
<1>31. (c \o q1) \o q2 = c \o (q1 \o q2) /\ Len(q1 \o q2) = 2
  <2>1. c \in Seq(TreesOf(s)) /\ q1 \in Seq(TreesOf(s)) /\ q2 \in Seq(TreesOf(s))
    BY <1>15, <1>22, <1>29, ListFacts
  <2>2. Len(q1 \o q2) = 2
    BY <1>22, <1>29, OneAndTwo
  <2>3. Associate(c, q1, q2)
    BY <2>1, TreesJoin
  <2> QED BY <2>2, <2>3 DEF Associate
<1>32. q1 \o q2 \in d[<<0, a1, b>>]
  <2>1. a1 \in 1 .. Len(s) + 2 /\ b2 \in 0 .. Len(s) /\ b \in 0 .. Len(s) /\ a1 <= b2 /\ a1 <= b /\ k2 \in a1 .. b
    BY <1>1, <1>2, <1>16, <1>19, <1>23, <1>26, <1>30
  <2>2. q1 \in d[<<0, a1, b2>>]
    BY <1>2, <2>1, ListIs
  <2>3. q1 \in d[<<0, a1, k2 - 1>>] /\ q2 \in d[<<1, k2 + 1, b>>]
    BY <1>23, <2>2
  <2>4. CommaAt(s, d, a1, b, k2, q1 \o q2)
    BY <1>25, <2>3 DEF CommaAt
  <2>5. \A x : (\E j \in a1 .. b : CommaAt(s, d, a1, b, j, x)) => x \in d[<<0, a1, b>>]
    BY <1>2, <2>1, ListIs
  <2> QED BY <2>1, <2>4, <2>5
<1>33. IfAt(s, d, a, b, k1, c \o (q1 \o q2))
  <2>1. c \in Conds(s, d, a, k1 - 1) /\ q1 \o q2 \in d[<<0, k1 + 1, b>>]
    BY <1>16, <1>32
  <2> QED BY <1>18, <1>31, <2>1 DEF IfAt
<1>34. k1 \in a .. b /\ b \in a .. Len(s)
  BY <1>1, <1>2, <1>16, <1>19, <1>26, <1>30
<1>35. c \o (q1 \o q2) \in IfLists(s, d, a, b)
  BY <1>33, <1>34, IfListsAre
<1>36. c \o (q1 \o q2) \in Seq(TreesOf(s))
  <2>1. c \in Seq(TreesOf(s)) /\ q1 \in Seq(TreesOf(s)) /\ q2 \in Seq(TreesOf(s))
    BY <1>15, <1>22, <1>29, ListFacts
  <2>2. q1 \o q2 \in Seq(TreesOf(s))
    BY <2>1, ListFacts
  <2> QED BY <2>1, <2>2, ListFacts
<1> QED BY <1>8, <1>29, <1>31, <1>34, <1>35, <1>36 DEF GotIf

LEMMA IfFound ==
  ASSUME NEW s, NEW d, NEW p, NEW i, Parsed(s, d, p, i), NEW a \in i .. Len(s) + 1, NEW b \in 0 .. Len(s),
         NEW l \in IfLists(s, d, a, b), Free(s, 1, b + 1)
  PROVE  l \in Seq(TreesOf(s)) /\ IfArgs(s, p, Done(<<>>, a)) = Done(l, b + 1)
<1>1. PICK N \in Nat : N = Len(s)
  BY TextFacts DEF Parsed
<1>2. /\ IsText(s) /\ Derivation(s, d) /\ p \in Tables(s)
      /\ a \in Nat /\ i \in Nat /\ i <= a /\ 1 <= a /\ b \in Nat /\ b <= N
  BY <1>1 DEF Parsed
<1>3. PICK k \in a .. b : IfAt(s, d, a, b, k, l)
  BY IfListsAre
<1>4. s[k] = ","
  BY <1>3 DEF IfAt
<1>5. PICK c \in Conds(s, d, a, k - 1) : \E q \in d[<<0, k + 1, b>>] : Len(q) = 2 /\ l = c \o q
  BY <1>3 DEF IfAt
<1>6. PICK q \in d[<<0, k + 1, b>>] : Len(q) = 2 /\ l = c \o q
  BY <1>5
<1>7. PICK b1 \in Nat, a1 \in Nat : b1 = k - 1 /\ a1 = k + 1 /\ b1 + 1 = k
  BY <1>2
<1>8. k \in 1 .. Len(s) /\ b1 \in 0 .. Len(s) /\ a1 \in i .. Len(s) + 1 /\ a1 \in 1 .. Len(s) + 2
  BY <1>1, <1>2, <1>7
<1>9. c \in Conds(s, d, a, b1) /\ q \in d[<<0, a1, b>>] /\ Free(s, 1, b1 + 1)
  BY <1>2, <1>4, <1>5, <1>6, <1>7, <1>8, CommaFound
<1>10. c \in Lists(s) /\ Cond(s, p, Done(<<>>, a)) = Done(c, k)
  BY <1>7, <1>8, <1>9, CondFound
<1>11. a1 <= b
  <2>1. b \in 0 .. Len(s) /\ 0 \in 0 .. 3
    OBVIOUS
  <2>2. ~(a1 > b)
    BY <1>2, <1>8, <1>9, <2>1, DerivedNothing
  <2> QED BY <1>2, <1>7, <2>2
<1>12. b \in a1 .. Len(s)
  BY <1>1, <1>2, <1>7, <1>11
<1>13. q \notin d[<<1, a1, b>>]
  <2>1. ASSUME q \in d[<<1, a1, b>>] PROVE FALSE
    <3>1. q \in Lists(s)
      BY <1>8, <1>12, <2>1, Nonterminals, OperandLists
    <3> QED BY <1>6, <3>1, OneAndTwo
  <2> QED BY <2>1
<1>14. PICK m \in a1 + 1 .. b - 1 : CommaAt(s, d, a1, b, m, q) /\ d[<<1, m + 1, b>>] \subseteq Lists(s)
  BY <1>8, <1>9, <1>12, <1>13, ListSplits
<1>15. s[m] = ","
  BY <1>14 DEF CommaAt
<1>16. PICK x \in d[<<0, a1, m - 1>>] : \E y \in d[<<1, m + 1, b>>] : q = x \o y
  BY <1>14 DEF CommaAt
<1>17. PICK y \in d[<<1, m + 1, b>>] : q = x \o y
  BY <1>16
<1>18. PICK b2 \in Nat, a2 \in Nat : b2 = m - 1 /\ a2 = m + 1 /\ b2 + 1 = m
  BY <1>7
<1>19. m \in 1 .. Len(s) /\ b2 \in a1 .. Len(s) /\ a2 \in i .. Len(s) + 1 /\ b \in a2 .. Len(s)
  BY <1>1, <1>2, <1>7, <1>18
<1>20. x \in d[<<0, a1, b2>>] /\ y \in d[<<1, a2, b>>] /\ y \in Lists(s)
  BY <1>14, <1>17, <1>18
<1>21. ListTo(s, d, a1, b2)
  BY <1>8, <1>19, ListsAreLong
<1>22. x \in Seq(TreesOf(s)) /\ (Len(x) = 1 => x \in d[<<1, a1, b2>>])
  BY <1>20, <1>21 DEF ListTo
<1>23. Len(x) = 1
  BY <1>6, <1>17, <1>20, <1>22, OneAndTwo
<1>24. x \in d[<<1, a1, b2>>] /\ Free(s, 1, b2 + 1)
  BY <1>2, <1>15, <1>18, <1>19, <1>22, <1>23, CommaFound
<1>25. PICK none : none = <<>>
  OBVIOUS
<1>26. Expect(s, Cond(s, p, Done(none, a)), ",") = Done(c, a1)
  BY <1>2, <1>4, <1>7, <1>8, <1>10, <1>25, CommaFound
<1>27. x \in Lists(s) /\ Operand(1, p, Done(c, a1)) = Done(c \o x, m)
  <2>1. 1 \in 1 .. 3
    BY Nonterminals
  <2>2. x \in Lists(s) /\ Operand(1, p, Done(c, a1)) = Done(c \o x, b2 + 1)
    BY <1>8, <1>19, <1>24, <2>1, OperandFound, SMTT(20)
  <2> QED BY <1>18, <2>2
<1>28. Expect(s, Done(c \o x, m), ",") = Done(c \o x, a2)
  BY <1>2, <1>15, <1>18, <1>19, CommaFound
<1>29. Operand(1, p, Done(c \o x, a2)) = Done((c \o x) \o y, b + 1)
  BY <1>19, <1>20, Nonterminals, OperandFound
<1>30. IfArgs(s, p, Done(none, a)) = Done((c \o x) \o y, b + 1)
  BY <1>26, <1>27, <1>28, <1>29 DEF IfArgs
<1>31. c \in Seq(TreesOf(s)) /\ y \in Seq(TreesOf(s))
  BY <1>10, <1>20, ListFacts
<1>32. (c \o x) \o y = l
  <2>1. Associate(c, x, y)
    BY <1>22, <1>31, TreesJoin
  <2> QED BY <1>6, <1>17, <2>1 DEF Associate
<1>33. l \in Seq(TreesOf(s))
  <2>1. q \in Seq(TreesOf(s))
    BY <1>17, <1>22, <1>31, ListFacts
  <2> QED BY <1>6, <1>31, <2>1, ListFacts
<1> QED BY <1>25, <1>30, <1>32, <1>33

-----------------------------------------------------------------------------
(* A call.                                                                 *)
CallArgs(s, p, f, open) == IF f = "IF" THEN IfArgs(s, p, open) ELSE More(s, p, Operand(1, p, open))

CallOf(s, f, args) == IF f = "ABS" /\ Len(args.trees) # 1 THEN Error ELSE Made(f, Expect(s, args, ")"))

LEMMA CallIs ==
  \A s, p, f, i : Call(s, p, f, i) = CallOf(s, f, CallArgs(s, p, f, Expect(s, Done(<<>>, i), "(")))
  BY DEF Call, CallOf, CallArgs, IfArgs

ArgsCases(s, d, a, f) ==
  /\ f = "ABS" => \A b : ArgsOf(f, s, d, a, b) = d[<<1, a, b>>]
  /\ f = "IF" => \A b : ArgsOf(f, s, d, a, b) = IfLists(s, d, a, b)
  /\ f # "ABS" /\ f # "IF" => \A b : ArgsOf(f, s, d, a, b) = d[<<0, a, b>>]

LEMMA ArgsAre == \A s, d, a, f : ArgsCases(s, d, a, f)
<1> SUFFICES ASSUME NEW s, NEW d, NEW a, NEW f PROVE ArgsCases(s, d, a, f)
  OBVIOUS
<1>1. ASSUME NEW b
      PROVE  /\ f = "ABS" => ArgsOf(f, s, d, a, b) = d[<<1, a, b>>]
             /\ f = "IF" => ArgsOf(f, s, d, a, b) = IfLists(s, d, a, b)
             /\ f # "ABS" /\ f # "IF" => ArgsOf(f, s, d, a, b) = d[<<0, a, b>>]
  <2>1. PICK A, B, C, D : /\ A = ArgsOf(f, s, d, a, b) /\ B = d[<<1, a, b>>]
                          /\ C = IfLists(s, d, a, b) /\ D = d[<<0, a, b>>]
    OBVIOUS
  <2>2. A = CASE f = "ABS" -> B [] f = "IF" -> C [] OTHER -> D
    BY <2>1 DEF ArgsOf, IfLists, Conds
  <2>3. f = "ABS" => A = B
    BY <2>2
  <2>4. f = "IF" => A = C
    BY <2>2
  <2>5. f # "ABS" /\ f # "IF" => A = D
    BY <2>2
  <2> QED BY <2>1, <2>3, <2>4, <2>5
<1> QED BY <1>1 DEF ArgsCases

\* The arguments that a call finds are those that are derived.
ArgsAgree(s, d, f, a, e) ==
  /\ e.at # 0 /\ ~(f = "ABS" /\ Len(e.trees) # 1) =>
       \E b \in a .. Len(s) : \E l \in ArgsOf(f, s, d, a, b) : l \in Seq(TreesOf(s)) /\ e = Done(l, b + 1)
  /\ \A b \in 0 .. Len(s) : \A l \in ArgsOf(f, s, d, a, b) :
       Peek(s, b + 1) = ")" =>
         l \in Seq(TreesOf(s)) /\ e = Done(l, b + 1) /\ ~(f = "ABS" /\ Len(l) # 1)

\* A parenthesis ends an expression.
LEMMA ClosingFree ==
  \A s : IsText(s) => \A b \in 0 .. Len(s) : Peek(s, b + 1) = ")" => b + 1 \in 1 .. Len(s) /\ Free(s, 1, b + 1)
<1> SUFFICES ASSUME NEW s, IsText(s), NEW b \in 0 .. Len(s), Peek(s, b + 1) = ")"
             PROVE  b + 1 \in 1 .. Len(s) /\ Free(s, 1, b + 1)
  OBVIOUS
<1>1. Peek(s, b + 1) # End
  BY PunctuationApart
<1>2. b + 1 \in Nat
  BY TextFacts
<1>3. b + 1 \in 1 .. Len(s) /\ Peek(s, b + 1) = s[b + 1]
  BY <1>1, <1>2, PeekFacts
<1> QED BY <1>3, PunctuationFree

LEMMA IfAgrees ==
  ASSUME NEW s, NEW d, NEW p, NEW i, Parsed(s, d, p, i), NEW a \in i .. Len(s) + 1
  PROVE  ArgsAgree(s, d, "IF", a, IfArgs(s, p, Done(<<>>, a)))
<1>1. PICK e : e = IfArgs(s, p, Done(<<>>, a))
  OBVIOUS
<1>2. \A b : ArgsOf("IF", s, d, a, b) = IfLists(s, d, a, b)
  <2>1. ArgsCases(s, d, a, "IF")
    BY ArgsAre
  <2> QED BY <2>1 DEF ArgsCases
<1>3. ASSUME NEW b \in 0 .. Len(s), NEW l \in IfLists(s, d, a, b), Free(s, 1, b + 1)
      PROVE  l \in Seq(TreesOf(s)) /\ e = Done(l, b + 1)
  BY <1>1, <1>3, IfFound
<1>4. IsText(s)
  BY DEF Parsed
<1>5. ASSUME e.at # 0
      PROVE  \E b \in a .. Len(s) : \E l \in IfLists(s, d, a, b) : l \in Seq(TreesOf(s)) /\ e = Done(l, b + 1)
  BY <1>1, <1>5, IfSound DEF GotIf
<1>6. \A b \in 0 .. Len(s) : \A l \in IfLists(s, d, a, b) :
        Peek(s, b + 1) = ")" => l \in Seq(TreesOf(s)) /\ e = Done(l, b + 1)
  BY <1>3, <1>4, ClosingFree
<1>7. ArgsAgree(s, d, "IF", a, e)
  BY <1>2, <1>5, <1>6 DEF ArgsAgree
<1> QED BY <1>1, <1>7

LEMMA ListArgsAgree ==
  ASSUME NEW s, NEW d, NEW p, NEW i, Parsed(s, d, p, i), NEW a \in i .. Len(s) + 1, NEW f \in Funcs, f # "IF"
  PROVE  ArgsAgree(s, d, f, a, More(s, p, Operand(1, p, Done(<<>>, a))))
<1>1. PICK e : e = More(s, p, Operand(1, p, Done(<<>>, a)))
  OBVIOUS
<1>2. GotList(s, d, a, e) /\ \A b \in a .. Len(s) : \A l \in d[<<0, a, b>>] : Peek(s, b + 1) = ")" => e = Done(l, b + 1)
  BY <1>1, MoreAgrees DEF ListAgrees
<1>3. PICK N \in Nat : N = Len(s)
  BY TextFacts DEF Parsed
<1>4. IsText(s) /\ Derivation(s, d) /\ a \in Nat /\ 1 <= a /\ i \in Nat /\ i <= a /\ a \in 1 .. Len(s) + 2
  BY <1>3 DEF Parsed
<1>5. \A b \in a .. Len(s) : ListTo(s, d, a, b)
  BY ListsAreLong
<1>6. ASSUME NEW b \in 0 .. Len(s), NEW n \in {0, 1}, NEW l \in d[<<n, a, b>>]
      PROVE  b \in a .. Len(s)
  <2>1. n \in 0 .. 3
    OBVIOUS
  <2>2. ~(a > b)
    BY <1>4, <1>6, <2>1, DerivedNothing
  <2> QED BY <1>3, <1>4, <2>2
<1>7. \A b \in a .. Len(s) : \A l \in d[<<1, a, b>>] : l \in d[<<0, a, b>>] /\ l \in Lists(s)
  <2> SUFFICES ASSUME NEW b \in a .. Len(s), NEW l \in d[<<1, a, b>>]
               PROVE  l \in d[<<0, a, b>>] /\ l \in Lists(s)
    OBVIOUS
  <2>1. b \in 0 .. Len(s) /\ a <= b
    BY <1>3, <1>4
  <2> QED BY <1>4, <2>1, ListIs, Nonterminals, OperandLists
<1>8. CASE f = "ABS"
  <2>1. \A b : ArgsOf(f, s, d, a, b) = d[<<1, a, b>>]
    <3>1. ArgsCases(s, d, a, f)
      BY ArgsAre
    <3> QED BY <1>8, <3>1 DEF ArgsCases
  <2>2. ASSUME e.at # 0, Len(e.trees) = 1
        PROVE  \E b \in a .. Len(s) : \E l \in d[<<1, a, b>>] : l \in Seq(TreesOf(s)) /\ e = Done(l, b + 1)
    <3>1. PICK b \in a .. Len(s) : \E l \in d[<<0, a, b>>] : e = Done(l, b + 1)
      BY <1>2, <2>2 DEF GotList
    <3>2. PICK l \in d[<<0, a, b>>] : e = Done(l, b + 1)
      BY <3>1
    <3>3. Len(l) = 1
      BY <2>2, <3>2, DoneIs
    <3> QED BY <1>5, <3>2, <3>3 DEF ListTo
  <2>3. ASSUME NEW b \in 0 .. Len(s), NEW l \in d[<<1, a, b>>], Peek(s, b + 1) = ")"
        PROVE  l \in Seq(TreesOf(s)) /\ e = Done(l, b + 1) /\ Len(l) = 1
    <3>1. b \in a .. Len(s)
      BY <1>6
    <3>2. l \in d[<<0, a, b>>] /\ l \in Lists(s)
      BY <1>7, <3>1
    <3> QED BY <1>2, <2>3, <3>1, <3>2, ListFacts
  <2>4. ArgsAgree(s, d, f, a, e)
    <3>1. e.at # 0 /\ ~(f = "ABS" /\ Len(e.trees) # 1) =>
            \E b \in a .. Len(s) : \E l \in ArgsOf(f, s, d, a, b) : l \in Seq(TreesOf(s)) /\ e = Done(l, b + 1)
      BY <1>8, <2>1, <2>2
    <3>2. \A b \in 0 .. Len(s) : \A l \in ArgsOf(f, s, d, a, b) :
            Peek(s, b + 1) = ")" =>
              l \in Seq(TreesOf(s)) /\ e = Done(l, b + 1) /\ ~(f = "ABS" /\ Len(l) # 1)
      BY <2>1, <2>3
    <3> QED BY <3>1, <3>2 DEF ArgsAgree
  <2> QED BY <1>1, <2>4
<1>9. CASE f # "ABS"
  <2>1. \A b : ArgsOf(f, s, d, a, b) = d[<<0, a, b>>]
    <3>1. ArgsCases(s, d, a, f)
      BY ArgsAre
    <3> QED BY <1>9, <3>1 DEF ArgsCases
  <2>2. ASSUME e.at # 0
        PROVE  \E b \in a .. Len(s) : \E l \in d[<<0, a, b>>] : l \in Seq(TreesOf(s)) /\ e = Done(l, b + 1)
    <3>1. PICK b \in a .. Len(s) : \E l \in d[<<0, a, b>>] : e = Done(l, b + 1)
      BY <1>2, <2>2 DEF GotList
    <3>2. PICK l \in d[<<0, a, b>>] : e = Done(l, b + 1)
      BY <3>1
    <3> QED BY <1>5, <3>2 DEF ListTo
  <2>3. ASSUME NEW b \in 0 .. Len(s), NEW l \in d[<<0, a, b>>], Peek(s, b + 1) = ")"
        PROVE  l \in Seq(TreesOf(s)) /\ e = Done(l, b + 1)
    <3>1. b \in a .. Len(s)
      BY <1>6
    <3> QED BY <1>2, <1>5, <2>3, <3>1 DEF ListTo
  <2>4. ArgsAgree(s, d, f, a, e)
    BY <1>9, <2>1, <2>2, <2>3 DEF ArgsAgree
  <2> QED BY <1>1, <2>4
<1> QED BY <1>8, <1>9

\* Without its parenthesis a call fails.
LEMMA NoCall ==
  ASSUME NEW s, IsText(s), NEW p \in Tables(s), NEW f \in Funcs
  PROVE  CallOf(s, f, CallArgs(s, p, f, Error)) = Error
<1>1. PICK N \in Nat : N = Len(s)
  BY TextFacts
<1>2. Operand(1, p, Error) = Error /\ Expect(s, Error, ",") = Error /\ Expect(s, Error, ")") = Error
  <2>1. Operand(1, p, Error) = Error
    BY Nonterminals, OperandFails, ErrorIs
  <2>2. "," # End /\ ")" # End
    BY PunctuationApart
  <2>3. \A tok : tok # End => Expect(s, Error, tok) = Error
    BY ErrorIs, ExpectFails
  <2> QED BY <2>1, <2>2, <2>3
<1>3. Peek(s, Error.at) = End
  <2>1. Error.at \notin DOMAIN s
    BY TextFacts, ErrorIs
  <2> QED BY <2>1 DEF Peek
<1>4. Cond(s, p, Error) = Error
  <2>1. End \notin Cmps
    BY AccountsApart
  <2> QED BY <1>2, <1>3, <2>1 DEF Cond
<1>5. IfArgs(s, p, Error) = Error
  BY <1>2, <1>4 DEF IfArgs
<1>6. More(s, p, Error) = Error
  <2>1. PICK t \in [0 .. N -> Results(s, 1)] : t[0] = Error /\ MoreTurns(s, p, t) /\ More(s, p, Error) = t[N]
    <3>1. 1 \in Nat /\ Error \in Results(s, 1)
      BY ErrorIsResult
    <3> QED BY <1>1, <3>1, MoreIsLast
  <2>2. OneMore(s, p, Error) = Error
    <3>1. Peek(s, Error.at) # ","
      BY <1>3, PunctuationApart
    <3> QED BY <3>1 DEF OneMore
  <2>3. \A k \in 1 .. N : t[k - 1] = t[0] => t[k] = t[0]
    BY <1>1, <2>1, <2>2 DEF MoreTurns
  <2>4. 0 \in 0 .. N
    OBVIOUS
  <2>5. t[N] = t[0]
    BY <2>3, <2>4, Settles
  <2> QED BY <2>1, <2>5
<1>7. CallArgs(s, p, f, Error) = Error
  BY <1>2, <1>5, <1>6 DEF CallArgs
<1>8. Made(f, Error) = Error
  BY ErrorIs, MadeFails
<1> QED BY <1>2, <1>7, <1>8 DEF CallOf

LEMMA CallAgrees ==
  ASSUME NEW s, NEW d, NEW p, NEW i \in 1 .. Len(s), Parsed(s, d, p, i + 1), s[i] \in Funcs
  PROVE  Agrees(s, d, 3, i, Call(s, p, s[i], i + 1))
<1>1. PICK N \in Nat : N = Len(s) /\ DOMAIN s = 1 .. N
  BY TextFacts DEF Parsed
<1>2. IsText(s) /\ Derivation(s, d) /\ p \in Tables(s) /\ i \in Nat /\ 1 <= i /\ i <= N
  BY <1>1 DEF Parsed
<1>3. PICK f : f = s[i] /\ f \in Funcs /\ f \in Toks(s)
  BY <1>2, TextFacts
<1>4. PICK e : e = Call(s, p, f, i + 1)
  OBVIOUS
<1>5. PICK o \in Nat, a \in Nat : o = i + 1 /\ a = o + 1
  BY <1>2
<1>6. PICK open : open = Expect(s, Done(<<>>, o), "(")
  OBVIOUS
<1>7. e = CallOf(s, f, CallArgs(s, p, f, open))
  BY <1>4, <1>5, <1>6, CallIs
<1>8. ASSUME NEW j \in i .. Len(s)
      PROVE  d[<<3, i, j>>] = IF i + 1 < j /\ s[i + 1] = "(" /\ s[j] = ")"
                                THEN NodeOf(f, ArgsOf(f, s, d, i + 2, j - 1)) ELSE {}
  <2>1. i \in 1 .. Len(s) + 2 /\ j \in 0 .. Len(s) /\ i <= j
    BY <1>1, <1>2
  <2>2. FactorDerives(s, d, i, j)
    BY <1>2, <2>1, FactorDerived
  <2>3. s[i] \in Funcs => d[<<3, i, j>>] = IF i + 1 < j /\ s[i + 1] = "(" /\ s[j] = ")"
                                 THEN NodeOf(s[i], ArgsOf(s[i], s, d, i + 2, j - 1)) ELSE {}
    BY <2>2 DEF FactorDerives
  <2> QED BY <1>3, <2>3
<1>9. \A j \in i .. Len(s) : \A l \in d[<<3, i, j>>] : o < j /\ s[o] = "(" /\ s[j] = ")"
  BY <1>5, <1>8
<1>10. \A j \in i .. Len(s) : o < j /\ s[o] = "(" /\ s[j] = ")" => d[<<3, i, j>>] = NodeOf(f, ArgsOf(f, s, d, a, j - 1))
  <2>1. a = i + 2
    BY <1>2, <1>5
  <2> QED BY <1>5, <1>8, <2>1
<1>11. \A q : \A A : q \in NodeOf(f, A) <=> \E l \in A : q = <<Node(f, l)>>
  BY DEF NodeOf
<1>12. CASE Peek(s, o) # "("
  <2>1. open = Error
    BY <1>6, <1>12, DoneIs DEF Expect
  <2>2. e = Error
    BY <1>2, <1>3, <1>7, <2>1, NoCall
  <2>3. \A j \in i .. Len(s) : d[<<3, i, j>>] = {}
    <3>1. ASSUME NEW j \in i .. Len(s), NEW l \in d[<<3, i, j>>] PROVE FALSE
      <4>1. o < j /\ s[o] = "("
        BY <1>9
      <4>2. o \in DOMAIN s
        BY <1>1, <1>2, <1>5, <4>1
      <4> QED BY <1>12, <4>1, <4>2 DEF Peek
    <3> QED BY <3>1
  <2>4. Agrees(s, d, 3, i, e)
    BY <2>2, <2>3, ErrorIs DEF Agrees
  <2> QED BY <1>3, <1>4, <2>4
<1>13. CASE Peek(s, o) = "("
  <2>1. o \in 1 .. Len(s) /\ s[o] = "("
    <3>1. Peek(s, o) # End
      BY <1>13, PunctuationApart
    <3>2. o \in 1 .. Len(s) /\ Peek(s, o) = s[o]
      BY <1>2, <3>1, PeekFacts
    <3> QED BY <1>13, <3>2
  <2>2. PICK none : none = <<>>
    OBVIOUS
  <2>3. open = Done(none, a)
    <3>1. Expect(s, Done(none, o), s[o]) = Done(none, o + 1)
      BY <1>2, <2>1, ExpectFound
    <3> QED BY <1>5, <1>6, <2>1, <2>2, <3>1
  <2>4. a \in i + 1 .. Len(s) + 1
    <3>1. o \in 1 .. Len(s)
      BY <2>1
    <3> QED BY <1>1, <1>2, <1>5, <3>1
  <2>5. PICK args : args = CallArgs(s, p, f, open)
    OBVIOUS
  <2>6. ArgsAgree(s, d, f, a, args)
    <3>1. CASE f = "IF"
      <4>1. args = IfArgs(s, p, Done(none, a))
        BY <2>3, <2>5, <3>1 DEF CallArgs
      <4>2. ArgsAgree(s, d, "IF", a, IfArgs(s, p, Done(none, a)))
        BY <2>2, <2>4, IfAgrees
      <4> QED BY <3>1, <4>1, <4>2
    <3>2. CASE f # "IF"
      <4>1. args = More(s, p, Operand(1, p, Done(none, a)))
        BY <2>3, <2>5, <3>2 DEF CallArgs
      <4>2. ArgsAgree(s, d, f, a, More(s, p, Operand(1, p, Done(none, a))))
        BY <1>3, <2>2, <2>4, <3>2, ListArgsAgree
      <4> QED BY <4>1, <4>2
    <3> QED BY <3>1, <3>2
  <2>7. e = CallOf(s, f, args)
    BY <1>7, <2>5
  <2>8. ASSUME e.at # 0
        PROVE  e.trees \in d[<<3, i, e.at - 1>>]
    <3>1. ~(f = "ABS" /\ Len(args.trees) # 1) /\ e = Made(f, Expect(s, args, ")"))
      BY <2>7, <2>8, ErrorIs DEF CallOf
    <3>2. Expect(s, args, ")").at # 0
      BY <2>8, <3>1, MadeFails, ErrorIs
    <3>3. args.at # 0
      <4>1. ")" # End
        BY PunctuationApart
      <4> QED BY <1>2, <3>2, <4>1, ExpectFails, ErrorIs
    <3>4. PICK b \in a .. Len(s) : \E l \in ArgsOf(f, s, d, a, b) : l \in Seq(TreesOf(s)) /\ args = Done(l, b + 1)
      BY <2>6, <3>1, <3>3 DEF ArgsAgree
    <3>5. PICK l \in ArgsOf(f, s, d, a, b) : args = Done(l, b + 1)
      BY <3>4
    <3>6. PICK j \in Nat : j = b + 1 /\ j - 1 = b /\ o < j
      BY <1>5
    <3>7. args.at = j /\ args.trees = l
      BY <3>5, <3>6, DoneIs
    <3>8. j \in 1 .. Len(s) /\ s[j] = ")" /\ Expect(s, args, ")") = Done(l, j + 1)
      <4>1. ")" # End
        BY PunctuationApart
      <4> QED BY <1>2, <3>2, <3>6, <3>7, <4>1, ExpectSound
    <3>9. PICK q : q = <<Node(f, l)>>
      OBVIOUS
    <3>10. e = Done(q, j + 1)
      <4>1. j + 1 # 0
        BY <3>6
      <4> QED BY <3>1, <3>8, <3>9, <4>1, MadeIs
    <3>11. j \in i .. Len(s)
      <4>1. j \in 1 .. Len(s)
        BY <3>8
      <4> QED BY <1>1, <1>2, <1>5, <3>6, <4>1
    <3>12. q \in d[<<3, i, j>>]
      <4>1. d[<<3, i, j>>] = NodeOf(f, ArgsOf(f, s, d, a, b))
        BY <1>10, <2>1, <3>6, <3>8, <3>11
      <4> QED BY <1>11, <3>5, <3>9, <4>1
    <3>13. e.trees = q /\ e.at - 1 = j
      <4>1. e.trees = q /\ e.at = j + 1
        BY <3>10, DoneIs
      <4> QED BY <3>6, <4>1
    <3> QED BY <3>12, <3>13
  <2>9. ASSUME NEW j \in i .. Len(s), NEW q \in d[<<3, i, j>>]
        PROVE  q \in Lists(s) /\ e = Done(q, j + 1)
    <3>1. o < j /\ s[j] = ")"
      BY <1>9
    <3>2. PICK b \in Nat : b = j - 1 /\ b + 1 = j /\ b \in 0 .. Len(s) /\ j \in 1 .. Len(s)
      BY <1>1, <1>2, <1>5, <3>1
    <3>3. d[<<3, i, j>>] = NodeOf(f, ArgsOf(f, s, d, a, b))
      BY <1>10, <2>1, <3>1, <3>2
    <3>4. PICK l \in ArgsOf(f, s, d, a, b) : q = <<Node(f, l)>>
      BY <1>11, <3>3
    <3>5. Peek(s, b + 1) = ")"
      BY <1>1, <3>1, <3>2 DEF Peek
    <3>6. l \in Seq(TreesOf(s)) /\ args = Done(l, j) /\ ~(f = "ABS" /\ Len(l) # 1)
      BY <2>6, <3>2, <3>5 DEF ArgsAgree
    <3>7. args.trees = l
      BY <3>6, DoneIs
    <3>8. e = Made(f, Expect(s, args, ")"))
      BY <2>7, <3>6, <3>7 DEF CallOf
    <3>9. Expect(s, args, ")") = Done(l, j + 1)
      <4>1. Expect(s, Done(l, j), s[j]) = Done(l, j + 1)
        BY <1>2, <3>2, ExpectFound
      <4> QED BY <3>1, <3>6, <4>1
    <3>10. e = Done(q, j + 1)
      <4>1. j + 1 # 0
        BY <3>2
      <4> QED BY <3>4, <3>8, <3>9, <4>1, MadeIs
    <3>11. q \in Lists(s)
      <4>1. f # ""
        BY <1>3, TokensAreNamed
      <4> QED BY <1>3, <3>4, <3>6, <4>1, ListFacts
    <3> QED BY <3>10, <3>11
  <2>10. Agrees(s, d, 3, i, e)
    BY <2>8, <2>9 DEF Agrees
  <2> QED BY <1>3, <1>4, <2>10
<1> QED BY <1>12, <1>13

-----------------------------------------------------------------------------
(* A factor.                                                               *)
LEMMA NothingAgrees ==
  ASSUME NEW s, NEW d, NEW n, NEW i, \A j \in i .. Len(s) : d[<<n, i, j>>] = {}
  PROVE  Agrees(s, d, n, i, Error)
  BY ErrorIs DEF Agrees

LEMMA NegationAgrees ==
  ASSUME NEW s, NEW d, NEW p, NEW i \in 1 .. Len(s), Parsed(s, d, p, i + 1), s[i] = "-"
  PROVE  Agrees(s, d, 3, i, Made("neg", Operand(3, p, Done(<<>>, i + 1))))
<1>1. PICK N \in Nat : N = Len(s) /\ DOMAIN s = 1 .. N
  BY TextFacts DEF Parsed
<1>2. IsText(s) /\ Derivation(s, d) /\ p \in Tables(s) /\ i \in Nat /\ 1 <= i /\ i <= N
  BY <1>1 DEF Parsed
<1>3. PICK neg : neg = "neg" /\ neg \in Toks(s) /\ neg # ""
  BY DEF Toks
<1>4. PICK o \in Nat : o = i + 1 /\ o \in i + 1 .. Len(s) + 1
  BY <1>1, <1>2
<1>5. PICK none : none = <<>>
  OBVIOUS
<1>6. PICK z : z = Operand(3, p, Done(none, o))
  OBVIOUS
<1>7. PICK e : e = Made(neg, z)
  OBVIOUS
<1>8. ASSUME NEW j \in i .. Len(s)
      PROVE  d[<<3, i, j>>] = NodeOf(neg, d[<<3, o, j>>])
  <2>1. i \in 1 .. Len(s) + 2 /\ j \in 0 .. Len(s) /\ i <= j
    BY <1>1, <1>2
  <2>2. FactorDerives(s, d, i, j)
    BY <1>2, <2>1, FactorDerived
  <2>3. s[i] = "-" => d[<<3, i, j>>] = NodeOf("neg", d[<<3, i + 1, j>>])
    BY <2>2 DEF FactorDerives
  <2> QED BY <1>3, <1>4, <2>3
<1>9. \A q : \A A : q \in NodeOf(neg, A) <=> \E l \in A : q = <<Node(neg, l)>>
  BY DEF NodeOf
<1>10. ASSUME e.at # 0
       PROVE  e.trees \in d[<<3, i, e.at - 1>>]
  <2>1. z.at # 0
    BY <1>7, <1>10, MadeFails, ErrorIs
  <2>2. Follows(s, d, 3, o, none, z)
    BY <1>4, <1>6, <2>1, Nonterminals, OperandSound
  <2>3. PICK b \in o .. Len(s) : \E l \in d[<<3, o, b>>] : l \in Lists(s) /\ z = Done(none \o l, b + 1)
    BY <2>2 DEF Follows
  <2>4. PICK l \in d[<<3, o, b>>] : l \in Lists(s) /\ z = Done(none \o l, b + 1)
    BY <2>3
  <2>5. none \o l = l
    BY <1>5, <2>4, ListFacts
  <2>6. PICK c \in Nat : c = b + 1 /\ c - 1 = b /\ c # 0
    BY <1>4
  <2>7. PICK q : q = <<Node(neg, l)>>
    OBVIOUS
  <2>8. e = Done(q, c)
    BY <1>7, <2>4, <2>5, <2>6, <2>7, MadeIs
  <2>9. e.trees = q /\ e.at - 1 = b
    BY <2>6, <2>8, DoneIs
  <2>10. b \in i .. Len(s)
    BY <1>1, <1>2, <1>4
  <2>11. q \in d[<<3, i, b>>]
    BY <1>8, <1>9, <2>7, <2>10
  <2> QED BY <2>9, <2>11
<1>11. ASSUME NEW j \in i .. Len(s), NEW q \in d[<<3, i, j>>]
       PROVE  q \in Lists(s) /\ (Free(s, 3, j + 1) => e = Done(q, j + 1))
  <2>1. PICK l \in d[<<3, o, j>>] : q = <<Node(neg, l)>>
    BY <1>8, <1>9
  <2>2. j \in o .. Len(s) /\ j + 1 # 0
    <3>1. o \in 1 .. Len(s) + 2 /\ j \in 0 .. Len(s) /\ 3 \in 0 .. 3
      BY <1>1, <1>2, <1>4
    <3>2. ~(o > j)
      BY <1>2, <2>1, <3>1, DerivedNothing
    <3> QED BY <1>1, <1>2, <1>4, <3>2
  <2>3. l \in Lists(s)
    BY <1>4, <2>1, <2>2, Nonterminals, OperandLists
  <2>4. q \in Lists(s)
    BY <1>3, <2>1, <2>3, ListFacts
  <2>5. ASSUME Free(s, 3, j + 1)
        PROVE  e = Done(q, j + 1)
    <3>1. z = Done(none \o l, j + 1)
      BY <1>4, <1>6, <2>1, <2>2, <2>5, Nonterminals, OperandFound
    <3>2. none \o l = l
      BY <1>5, <2>3, ListFacts
    <3>3. Made(neg, Done(l, j + 1)) = Done(q, j + 1)
      BY <2>1, <2>2, MadeIs
    <3> QED BY <1>7, <3>1, <3>2, <3>3
  <2> QED BY <2>4, <2>5
<1>12. Agrees(s, d, 3, i, e)
  BY <1>10, <1>11 DEF Agrees
<1>13. e = Made("neg", Operand(3, p, Done(<<>>, i + 1)))
  BY <1>3, <1>4, <1>5, <1>6, <1>7
<1> QED BY <1>12, <1>13

LEMMA LeafAgrees ==
  ASSUME NEW s, NEW d, IsText(s), Derivation(s, d), NEW i \in 1 .. Len(s), s[i] \in Numbers \cup Accounts
  PROVE  Agrees(s, d, 3, i, Done(<<Leaf(s[i])>>, i + 1))
<1>1. PICK N \in Nat : N = Len(s)
  BY TextFacts
<1>2. i \in Nat /\ 1 <= i /\ i <= N
  BY <1>1
<1>3. PICK none : none = <<>> /\ none \in Seq(TreesOf(s))
  <2>1. PICK none : none = <<>>
    OBVIOUS
  <2>2. none \in Seq(TreesOf(s))
    BY <2>1
  <2> QED BY <2>1, <2>2
<1>4. PICK q : q = <<Leaf(s[i])>>
  OBVIOUS
<1>5. q \in Lists(s)
  <2>1. s[i] \in Toks(s)
    BY TextFacts
  <2>2. s[i] # ""
    BY TokensAreNamed
  <2>3. q = <<Node(s[i], none)>>
    BY <1>3, <1>4 DEF Leaf
  <2> QED BY <1>3, <2>1, <2>2, <2>3, ListFacts
<1>6. ASSUME NEW j \in i .. Len(s)
      PROVE  d[<<3, i, j>>] = IF i = j THEN {q} ELSE {}
  <2>1. i \in 1 .. Len(s) + 2 /\ j \in 0 .. Len(s) /\ i <= j
    BY <1>1, <1>2
  <2>2. FactorDerives(s, d, i, j)
    BY <2>1, FactorDerived
  <2>3. d[<<3, i, j>>] = IF i = j THEN {<<Leaf(s[i])>>} ELSE {}
    BY <2>2 DEF FactorDerives
  <2> QED BY <1>4, <2>3
<1>7. PICK e, c : e = Done(q, c) /\ c = i + 1 /\ c - 1 = i
  BY <1>2
<1>8. e.trees = q /\ e.at - 1 = i
  BY <1>7, DoneIs
<1>9. q \in d[<<3, i, i>>]
  <2>1. i \in i .. Len(s)
    BY <1>1, <1>2
  <2> QED BY <1>6, <2>1
<1>10. \A j \in i .. Len(s) : \A l \in d[<<3, i, j>>] : l = q /\ j = i
  BY <1>6
<1>11. Agrees(s, d, 3, i, e)
  BY <1>5, <1>7, <1>8, <1>9, <1>10 DEF Agrees
<1> QED BY <1>4, <1>7, <1>11

LEMMA BracketsAgree ==
  ASSUME NEW s, NEW d, NEW p, NEW i \in 1 .. Len(s), Parsed(s, d, p, i + 1), s[i] = "("
  PROVE  Agrees(s, d, 3, i, Expect(s, Operand(1, p, Done(<<>>, i + 1)), ")"))
<1>1. PICK N \in Nat : N = Len(s) /\ DOMAIN s = 1 .. N
  BY TextFacts DEF Parsed
<1>2. IsText(s) /\ Derivation(s, d) /\ p \in Tables(s) /\ i \in Nat /\ 1 <= i /\ i <= N
  BY <1>1 DEF Parsed
<1>3. PICK close : close = ")" /\ close # End
  <2>1. ")" # End
    BY PunctuationApart
  <2> QED BY <2>1
<1>4. PICK o \in Nat : o = i + 1 /\ o \in i + 1 .. Len(s) + 1
  BY <1>1, <1>2
<1>5. PICK none : none = <<>>
  OBVIOUS
<1>6. PICK z : z = Operand(1, p, Done(none, o))
  OBVIOUS
<1>7. PICK e : e = Expect(s, z, close)
  OBVIOUS
<1>8. ASSUME NEW j \in i .. Len(s)
      PROVE  d[<<3, i, j>>] = IF s[j] = close THEN d[<<1, o, j - 1>>] ELSE {}
  <2>1. i \in 1 .. Len(s) + 2 /\ j \in 0 .. Len(s) /\ i <= j
    BY <1>1, <1>2
  <2>2. FactorDerives(s, d, i, j)
    BY <1>2, <2>1, FactorDerived
  <2>3. s[i] = "(" => d[<<3, i, j>>] = IF s[j] = ")" THEN d[<<1, i + 1, j - 1>>] ELSE {}
    BY <2>2 DEF FactorDerives
  <2> QED BY <1>3, <1>4, <2>3
<1>10. ASSUME e.at # 0
       PROVE  e.trees \in d[<<3, i, e.at - 1>>]
  <2>1. z.at # 0
    BY <1>2, <1>3, <1>7, <1>10, ExpectFails, ErrorIs
  <2>2. Follows(s, d, 1, o, none, z)
    BY <1>4, <1>6, <2>1, Nonterminals, OperandSound
  <2>3. PICK b \in o .. Len(s) : \E l \in d[<<1, o, b>>] : l \in Lists(s) /\ z = Done(none \o l, b + 1)
    BY <2>2 DEF Follows
  <2>4. PICK l \in d[<<1, o, b>>] : l \in Lists(s) /\ z = Done(none \o l, b + 1)
    BY <2>3
  <2>5. none \o l = l
    BY <1>5, <2>4, ListFacts
  <2>6. PICK j \in Nat, c \in Nat : j = b + 1 /\ j - 1 = b /\ c = j + 1 /\ c - 1 = j /\ i <= j
    BY <1>4
  <2>7. z.at = j /\ z.trees = l
    BY <2>4, <2>5, <2>6, DoneIs
  <2>8. j \in 1 .. Len(s) /\ s[j] = close /\ e = Done(l, c)
    <3>1. z.at \in Nat /\ Expect(s, z, close).at # 0
      BY <1>7, <1>10, <2>6, <2>7
    <3>2. z.at \in 1 .. Len(s) /\ s[z.at] = close /\ Expect(s, z, close) = Done(z.trees, z.at + 1)
      BY <1>2, <1>3, <3>1, ExpectSound
    <3> QED BY <1>7, <2>6, <2>7, <3>2
  <2>9. e.trees = l /\ e.at - 1 = j
    BY <2>6, <2>8, DoneIs
  <2>10. j \in i .. Len(s)
    <3>1. j \in 1 .. Len(s)
      BY <2>8
    <3> QED BY <1>1, <1>2, <2>6, <3>1
  <2>11. l \in d[<<3, i, j>>]
    BY <1>8, <2>6, <2>8, <2>10
  <2> QED BY <2>9, <2>11
<1>11. ASSUME NEW j \in i .. Len(s), NEW l \in d[<<3, i, j>>]
       PROVE  l \in Lists(s) /\ e = Done(l, j + 1)
  <2>1. s[j] = close /\ l \in d[<<1, o, j - 1>>]
    BY <1>8
  <2>2. PICK b : b = j - 1 /\ b + 1 = j /\ b \in 0 .. Len(s) /\ j \in 1 .. Len(s)
    BY <1>1, <1>2
  <2>3. b \in o .. Len(s)
    <3>1. o \in 1 .. Len(s) + 2 /\ 1 \in 0 .. 3
      BY <1>1, <1>2, <1>4
    <3>2. ~(o > b)
      BY <1>2, <2>1, <2>2, <3>1, DerivedNothing
    <3> QED BY <1>1, <1>2, <1>4, <2>2, <3>2
  <2>4. Free(s, 1, b + 1)
    BY <1>2, <1>3, <2>1, <2>2, PunctuationFree
  <2>5. l \in Lists(s) /\ z = Done(none \o l, b + 1)
    BY <1>4, <1>6, <2>1, <2>2, <2>3, <2>4, Nonterminals, OperandFound
  <2>6. none \o l = l
    BY <1>5, <2>5, ListFacts
  <2>7. Expect(s, Done(l, j), s[j]) = Done(l, j + 1)
    BY <1>2, <2>2, ExpectFound
  <2> QED BY <1>7, <2>1, <2>2, <2>5, <2>6, <2>7
<1>12. Agrees(s, d, 3, i, e)
  BY <1>10, <1>11 DEF Agrees
<1>13. e = Expect(s, Operand(1, p, Done(<<>>, i + 1)), ")")
  BY <1>3, <1>4, <1>5, <1>6, <1>7
<1> QED BY <1>12, <1>13

LEMMA FactorAgrees ==
  ASSUME NEW s, NEW d, NEW p, NEW i \in 1 .. Len(s) + 1, Parsed(s, d, p, i + 1)
  PROVE  Agrees(s, d, 3, i, Factor(s, p, i))
<1>1. PICK N \in Nat : N = Len(s) /\ DOMAIN s = 1 .. N
  BY TextFacts DEF Parsed
<1>2. IsText(s) /\ Derivation(s, d) /\ p \in Tables(s) /\ i \in Nat /\ 1 <= i /\ i <= N + 1
  BY <1>1 DEF Parsed
<1>3. PICK f, b, j, t : /\ f = Factor(s, p, i) /\ b = Done(<<>>, j) /\ j = i + 1 /\ t = Peek(s, i)
                        /\ FactorCases(s, p, t, j, b, f)
  BY FactorIs
<1>4. CASE i \notin 1 .. Len(s)
  <2>1. t = End
    BY <1>1, <1>3, <1>4 DEF Peek
  <2>2. End \notin {"-", "("} /\ End \notin Numbers \cup Accounts /\ End \notin Funcs
    <3>1. End # "-" /\ End # "("
      BY DEF End
    <3>2. End \notin Numbers
      BY TokensAssumption DEF Punctuation
    <3> QED BY <3>1, <3>2, PunctuationApart
  <2>3. f = Error
    BY <1>3, <2>1, <2>2 DEF FactorCases
  <2>4. \A k \in i .. Len(s) : FALSE
    BY <1>1, <1>2, <1>4
  <2> QED BY <1>3, <2>3, <2>4, NothingAgrees
<1>5. CASE i \in 1 .. Len(s)
  <2>1. t = s[i]
    BY <1>1, <1>3, <1>5 DEF Peek
  <2>2. CASE t = "-"
    <3>1. f = Made("neg", Operand(3, p, b))
      BY <1>3, <2>2 DEF FactorCases
    <3>2. Agrees(s, d, 3, i, Made("neg", Operand(3, p, Done(<<>>, i + 1))))
      BY <1>5, <2>1, <2>2, NegationAgrees
    <3> QED BY <1>3, <3>1, <3>2
  <2>3. CASE t \in Numbers \cup Accounts
    <3>1. f = Done(<<Leaf(t)>>, j)
      BY <1>3, <2>3 DEF FactorCases
    <3>2. Agrees(s, d, 3, i, Done(<<Leaf(s[i])>>, i + 1))
      BY <1>2, <1>5, <2>1, <2>3, LeafAgrees
    <3> QED BY <1>3, <2>1, <3>1, <3>2
  <2>4. CASE t = "("
    <3>1. f = Expect(s, Operand(1, p, b), ")")
      BY <1>3, <2>4 DEF FactorCases
    <3>2. Agrees(s, d, 3, i, Expect(s, Operand(1, p, Done(<<>>, i + 1)), ")"))
      BY <1>5, <2>1, <2>4, BracketsAgree
    <3> QED BY <1>3, <3>1, <3>2
  <2>5. CASE t \in Funcs
    <3>1. f = Call(s, p, t, j)
      BY <1>3, <2>5 DEF FactorCases
    <3>2. Agrees(s, d, 3, i, Call(s, p, s[i], i + 1))
      BY <1>5, <2>1, <2>5, CallAgrees
    <3> QED BY <1>3, <2>1, <3>1, <3>2
  <2>6. CASE t \notin {"-", "("} \cup Numbers \cup Accounts \cup Funcs
    <3>1. f = Error
      BY <1>3, <2>6 DEF FactorCases
    <3>2. \A k \in i .. Len(s) : d[<<3, i, k>>] = {}
      <4>1. ASSUME NEW k \in i .. Len(s) PROVE d[<<3, i, k>>] = {}
        <5>1. i \in 1 .. Len(s) + 2 /\ k \in 0 .. Len(s) /\ i <= k
          BY <1>1, <1>2
        <5>2. FactorDerives(s, d, i, k)
          BY <1>2, <5>1, FactorDerived
        <5>3. s[i] \notin {"-", "("} \cup Numbers \cup Accounts \cup Funcs => d[<<3, i, k>>] = {}
          BY <5>2 DEF FactorDerives
        <5> QED BY <2>1, <2>6, <5>3
      <4> QED BY <4>1
    <3> QED BY <1>3, <3>1, <3>2, NothingAgrees
  <2> QED BY <2>2, <2>3, <2>4, <2>5, <2>6
<1> QED BY <1>4, <1>5

LEMMA EntriesAgree ==
  ASSUME NEW s, NEW d, NEW p, NEW i \in 1 .. Len(s) + 1, Parsed(s, d, p, i + 1)
  PROVE  \A n \in 1 .. 3 : Agrees(s, d, n, i, ResultsAt(s, p, i)[n])
<1>1. IsText(s) /\ p \in Tables(s) /\ i \in Nat
  BY TextFacts DEF Parsed
<1>2. PICK factor \in Entries(s, i) : factor = Factor(s, p, i)
  BY <1>1, FactorFits
<1>3. Agrees(s, d, 3, i, factor)
  BY <1>2, FactorAgrees
<1>4. \A n \in {1, 2} : \A r \in Entries(s, i) :
        Agrees(s, d, n + 1, i, r) => Agrees(s, d, n, i, Rest(n, s, p, r))
  BY RestAgrees
<1>5. PICK term : term = Rest(2, s, p, factor)
  OBVIOUS
<1>6. PICK expr : expr = Rest(1, s, p, term)
  OBVIOUS
<1>7. ResultsAt(s, p, i) = <<expr, term, factor>>
  BY <1>2, <1>5, <1>6 DEF ResultsAt
<1>8. <<expr, term, factor>>[1] = expr /\ <<expr, term, factor>>[2] = term /\ <<expr, term, factor>>[3] = factor
  OBVIOUS
<1>9. term \in Entries(s, i)
  <2>1. ResultsAt(s, p, i)[2] \in Entries(s, i)
    BY <1>1, ResultsAtFit, Nonterminals
  <2> QED BY <1>7, <1>8, <2>1
<1>10. Agrees(s, d, 2, i, term)
  <2>1. 2 \in {1, 2} /\ 2 + 1 = 3
    OBVIOUS
  <2> QED BY <1>3, <1>4, <1>5, <2>1
<1>11. Agrees(s, d, 1, i, expr)
  <2>1. 1 \in {1, 2} /\ 1 + 1 = 2
    OBVIOUS
  <2> QED BY <1>4, <1>6, <1>9, <1>10, <2>1
<1>12. \A n \in 1 .. 3 : n = 1 \/ n = 2 \/ n = 3
  OBVIOUS
<1> QED BY <1>3, <1>7, <1>8, <1>10, <1>11, <1>12

\* Entering the results of one more place keeps the table right.
LEMMA EnteredIsRight ==
  ASSUME NEW s, NEW d, NEW p, NEW i \in 1 .. Len(s) + 1, Parsed(s, d, p, i + 1)
  PROVE  Parsed(s, d, Entered(s, p, i), i)
<1>1. IsText(s) /\ Derivation(s, d) /\ p \in Tables(s) /\ Right(s, d, p, i + 1)
  BY DEF Parsed
<1>2. PICK N \in Nat : N = Len(s)
  BY <1>1, TextFacts
<1>3. PICK r : r = ResultsAt(s, p, i)
  OBVIOUS
<1>4. \A n \in 1 .. 3 : Agrees(s, d, n, i, r[n])
  BY <1>3, EntriesAgree
<1>5. PICK q : q = Entered(s, p, i) /\ q = [p EXCEPT ![i] = r]
  BY <1>3 DEF Entered
<1>6. q \in Tables(s)
  BY <1>1, <1>5, EnteredFits
<1>7. p \in [0 .. Len(s) + 1 -> AllResults(s) \X AllResults(s) \X AllResults(s)] /\ i \in 0 .. Len(s) + 1
  BY <1>1, <1>2 DEF Tables
<1>8. q[i] = r /\ \A j \in 0 .. Len(s) + 1 : j # i => q[j] = p[j]
  BY <1>5, <1>7
<1>9. ASSUME NEW k \in i .. Len(s) + 1, NEW n \in 1 .. 3
      PROVE  Agrees(s, d, n, k, q[k][n])
  <2>1. CASE k = i
    BY <1>4, <1>8, <2>1
  <2>2. CASE k # i
    <3>1. k \in 0 .. Len(s) + 1 /\ k \in i + 1 .. Len(s) + 1
      BY <1>2, <2>2
    <3>2. Agrees(s, d, n, k, p[k][n])
      BY <1>1, <3>1 DEF Right
    <3> QED BY <1>8, <2>2, <3>1, <3>2
  <2> QED BY <2>1, <2>2
<1>10. Right(s, d, q, i)
  BY <1>9 DEF Right
<1>11. i \in 1 .. Len(s) + 2
  BY <1>2
<1> QED BY <1>1, <1>5, <1>6, <1>10, <1>11 DEF Parsed

LEMMA TableIsRight ==
  ASSUME NEW s, IsText(s), NEW d, Derivation(s, d), NEW from, Fills(s, from)
  PROVE  Parsed(s, d, from[1], 1)
<1>1. PICK N \in Nat : N = Len(s) + 1 /\ N + 1 = Len(s) + 2
  BY TextFacts
<1> DEFINE G == {k \in 0 .. N : Parsed(s, d, from[N + 1 - k], N + 1 - k)}
<1>2. 0 \in G
  <2>1. 0 \in 0 .. N /\ N + 1 - 0 = N + 1 /\ N + 1 \in 1 .. Len(s) + 2
    BY <1>1
  <2>2. from[N + 1] = NoTable(s) /\ NoTable(s) \in Tables(s)
    BY <1>1, NoTableFits DEF Fills
  <2>3. \A k \in N + 1 .. Len(s) + 1 : FALSE
    BY <1>1
  <2>4. Right(s, d, NoTable(s), N + 1)
    BY <2>3 DEF Right
  <2>5. Parsed(s, d, from[N + 1], N + 1)
    BY <2>1, <2>2, <2>4 DEF Parsed
  <2> QED BY <2>1, <2>5
<1>3. ASSUME NEW k \in 0 .. N - 1, k \in G
      PROVE  k + 1 \in G
  <2>1. PICK i : i = N + 1 - (k + 1) /\ i \in 1 .. N /\ i + 1 = N + 1 - k /\ k + 1 \in 0 .. N
    BY <1>1
  <2>2. i \in 1 .. Len(s) + 1
    BY <1>1, <2>1
  <2>3. Parsed(s, d, from[i + 1], i + 1)
    BY <1>3, <2>1
  <2>4. from[i] = Entered(s, from[i + 1], i)
    BY <2>2 DEF Fills
  <2>5. Parsed(s, d, from[i], i)
    BY <2>2, <2>3, <2>4, EnteredIsRight
  <2> QED BY <2>1, <2>5
<1> HIDE DEF G
<1>4. 0 .. N \subseteq G
  BY <1>2, <1>3, Stepwise
<1>5. N \in 0 .. N /\ N + 1 - N = 1
  BY <1>1
<1>6. N \in G
  BY <1>4, <1>5
<1>7. Parsed(s, d, from[N + 1 - N], N + 1 - N)
  BY <1>6 DEF G
<1> QED BY <1>5, <1>7

\* Of a text the parser makes the one tree that the grammar derives, if any.
LEMMA ParseIsDerived ==
  ASSUME NEW s, IsText(s)
  PROVE  Derived(s) = {Parse(s)} \ {NotAFormula}
<1>1. PICK N \in Nat : N = Len(s) /\ DOMAIN s = 1 .. N
  BY TextFacts
<1>2. PICK d : Derivation(s, d) /\ Derived(s) = {l[1] : l \in d[<<1, 1, Len(s)>>]}
  BY DerivationExists
<1>3. PICK from : Fills(s, from) /\ ParseTable(s) = from[1]
  BY TableIsFilled
<1>4. PICK p : p = ParseTable(s) /\ Parsed(s, d, p, 1)
  BY <1>2, <1>3, TableIsRight
<1>5. PICK e : e = p[1][1]
  OBVIOUS
<1>6. e \in Entries(s, 1) /\ Agrees(s, d, 1, 1, e)
  <2>1. 1 \in 1 .. Len(s) + 1
    BY <1>1
  <2> QED BY <1>4, <1>5, <2>1, Nonterminals, EntryIsRight
<1>7. Parse(s) = IF e.at = N + 1 THEN e.trees[1] ELSE NotAFormula
  BY <1>1, <1>4, <1>5 DEF Parse
<1>8. Free(s, 1, N + 1)
  <2>1. N + 1 \notin 1 .. N
    OBVIOUS
  <2>2. Peek(s, N + 1) = End
    BY <1>1, <2>1 DEF Peek
  <2> QED BY <2>2, AccountsApart DEF Free
<1>9. PICK D : D = d[<<1, 1, N>>]
  OBVIOUS
<1>10. ASSUME NEW l \in D
       PROVE  N # 0 /\ l \in Lists(s) /\ e.at = N + 1 /\ e.trees = l
  <2>1. N # 0
    <3>1. ASSUME N = 0 PROVE FALSE
      <4>1. 1 \in 0 .. 3 /\ 1 \in 1 .. Len(s) + 2 /\ N \in 0 .. Len(s) /\ 1 > N
        BY <1>1, <3>1
      <4>2. d[<<1, 1, N>>] = {}
        BY <1>2, <4>1, DerivedNothing
      <4> QED BY <1>9, <1>10, <4>2
    <3> QED BY <3>1
  <2>2. N \in 1 .. Len(s)
    BY <1>1, <2>1
  <2>3. l \in Lists(s) /\ (Free(s, 1, N + 1) => e = Done(l, N + 1))
    BY <1>6, <1>9, <2>2 DEF Agrees
  <2>4. e = Done(l, N + 1)
    BY <1>8, <2>3
  <2> QED BY <2>1, <2>3, <2>4, DoneIs
<1>11. CASE e.at = N + 1
  <2>1. e.trees \in d[<<1, 1, e.at - 1>>]
    <3>1. e.at # 0
      BY <1>11
    <3> QED BY <1>6, <3>1 DEF Agrees
  <2>2. e.at - 1 = N
    BY <1>11
  <2>3. e.trees \in D
    BY <1>9, <2>1, <2>2
  <2>4. \A l \in D : l = e.trees
    BY <1>10
  <2>5. e.trees[1] # NotAFormula
    BY <1>10, <2>3 DEF Lists
  <2>6. Derived(s) = {e.trees[1]}
    <3>1. Derived(s) = {l[1] : l \in D}
      BY <1>1, <1>2, <1>9
    <3> QED BY <2>3, <2>4, <3>1
  <2>7. Parse(s) = e.trees[1]
    BY <1>7, <1>11
  <2> QED BY <2>5, <2>6, <2>7
<1>12. CASE e.at # N + 1
  <2>1. D = {}
    BY <1>10, <1>12
  <2>2. Derived(s) = {}
    BY <1>1, <1>2, <1>9, <2>1
  <2>3. Parse(s) = NotAFormula
    BY <1>7, <1>12
  <2> QED BY <2>2, <2>3
<1> QED BY <1>11, <1>12

(* SPEC.md section 6: whatever is typed, the recursive descent accepts what *)
(* the grammar derives and nothing else, and the tree it builds is the only *)
(* one the grammar has: which operand an operator takes is never open.      *)
THEOREM FormulasAreParsed == Spec => []ParsesTheGrammar
<1>1. FInv => ParsesTheGrammar
  BY ParseIsDerived DEF FInv, TextsInv, ParsesTheGrammar
<1> QED BY <1>1, FormulasInvariant, PTL

-----------------------------------------------------------------------------
(* The lexer.  First the grammar again: which tokens stand next to each    *)
(* other in a formula.                                                     *)
Starts  == Numbers \cup Accounts \cup Funcs \cup {"-", "("}
Ends    == Numbers \cup Accounts \cup {")"}
Between == Levels[1] \cup Levels[2] \cup Cmps \cup {","}

MayFollow(t, u) ==
  \/ t \in Ends /\ u \in Between \cup {")"}
  \/ t \in Funcs /\ u = "("
  \/ t \in Between \cup {"("} /\ u \in Starts

Phrase(s, i, j) ==
  i <= j /\ s[i] \in Starts /\ s[j] \in Ends /\ \A k \in i .. j - 1 : MayFollow(s[k], s[k + 1])

LEMMA JoinedPhrases ==
  ASSUME NEW s, NEW i \in Int, NEW j \in Int, NEW k \in Int, Phrase(s, i, k - 1), Phrase(s, k + 1, j),
         s[k] \in Between
  PROVE  Phrase(s, i, j)
<1>1. i <= k - 1 /\ k + 1 <= j /\ s[i] \in Starts /\ s[j] \in Ends /\ s[k - 1] \in Ends /\ s[k + 1] \in Starts
  BY DEF Phrase
<1>2. ASSUME NEW m \in i .. j - 1
      PROVE  MayFollow(s[m], s[m + 1])
  <2>1. CASE m < k - 1
    <3>1. m \in i .. (k - 1) - 1
      BY <2>1
    <3> QED BY <3>1 DEF Phrase
  <2>2. CASE m = k - 1
    <3>1. s[m] \in Ends /\ s[m + 1] \in Between
      BY <1>1, <2>2
    <3> QED BY <3>1 DEF MayFollow
  <2>3. CASE m = k
    BY <1>1, <2>3 DEF MayFollow
  <2>4. CASE m > k
    <3>1. m \in k + 1 .. j - 1
      BY <2>4
    <3> QED BY <3>1 DEF Phrase
  <2> QED BY <2>1, <2>2, <2>3, <2>4
<1>3. i <= j
  BY <1>1
<1> QED BY <1>1, <1>2, <1>3 DEF Phrase

LEMMA NegatedPhrase ==
  ASSUME NEW s, NEW i \in Int, NEW j \in Int, s[i] = "-", Phrase(s, i + 1, j)
  PROVE  Phrase(s, i, j)
<1>1. i + 1 <= j /\ s[i + 1] \in Starts /\ s[j] \in Ends
  BY DEF Phrase
<1>2. "-" \in Between /\ "-" \in Starts
  BY DEF Between, Levels, Starts
<1>3. ASSUME NEW m \in i .. j - 1
      PROVE  MayFollow(s[m], s[m + 1])
  <2>1. CASE m = i
    BY <1>1, <1>2, <2>1 DEF MayFollow
  <2>2. CASE m # i
    <3>1. m \in i + 1 .. j - 1
      BY <2>2
    <3> QED BY <3>1 DEF Phrase
  <2> QED BY <2>1, <2>2
<1>4. i <= j
  BY <1>1
<1> QED BY <1>1, <1>2, <1>3, <1>4 DEF Phrase

LEMMA BracketedPhrase ==
  ASSUME NEW s, NEW i \in Int, NEW j \in Int, s[i] = "(", s[j] = ")", Phrase(s, i + 1, j - 1)
  PROVE  Phrase(s, i, j)
<1>1. i + 1 <= j - 1 /\ s[i + 1] \in Starts /\ s[j - 1] \in Ends
  BY DEF Phrase
<1>2. "(" \in Starts /\ ")" \in Ends
  BY DEF Starts, Ends
<1>3. ASSUME NEW m \in i .. j - 1
      PROVE  MayFollow(s[m], s[m + 1])
  <2>1. CASE m = i
    BY <1>1, <2>1 DEF MayFollow
  <2>2. CASE m = j - 1
    <3>1. s[m] \in Ends /\ s[m + 1] = ")"
      BY <1>1, <2>2
    <3> QED BY <3>1 DEF MayFollow
  <2>3. CASE m # i /\ m # j - 1
    <3>1. m \in i + 1 .. (j - 1) - 1
      BY <2>3
    <3> QED BY <3>1 DEF Phrase
  <2> QED BY <2>1, <2>2, <2>3
<1>4. i <= j
  BY <1>1
<1> QED BY <1>2, <1>3, <1>4 DEF Phrase

LEMMA CalledPhrase ==
  ASSUME NEW s, NEW i \in Int, NEW j \in Int, s[i] \in Funcs, s[i + 1] = "(", s[j] = ")", Phrase(s, i + 2, j - 1)
  PROVE  Phrase(s, i, j)
<1>1. PICK a \in Int : a = i + 1
  OBVIOUS
<1>2. Phrase(s, a + 1, j - 1)
  BY <1>1
<1>3. Phrase(s, a, j)
  BY <1>1, <1>2, BracketedPhrase
<1>4. s[i] \in Starts
  BY DEF Starts
<1>5. ASSUME NEW m \in i .. j - 1
      PROVE  MayFollow(s[m], s[m + 1])
  <2>1. CASE m = i
    BY <2>1 DEF MayFollow
  <2>2. CASE m # i
    <3>1. m \in a .. j - 1
      BY <1>1, <2>2
    <3> QED BY <1>3, <3>1 DEF Phrase
  <2> QED BY <2>1, <2>2
<1>6. i <= j /\ s[j] \in Ends
  BY <1>1, <1>3 DEF Phrase
<1> QED BY <1>4, <1>5, <1>6 DEF Phrase

\* What is derived from a span of less than weight w is a phrase.
Phrased(s, d, w) ==
  \A n \in 0 .. 3 : \A i \in 1 .. Len(s) + 2 : \A j \in 0 .. Len(s) :
    i <= j /\ Weight(n, i, j) < w /\ d[<<n, i, j>>] # {} => Phrase(s, i, j)

\* Shorter spans inside a span, or the same by a tighter line, are phrases.
InnerPhrases(s, d, n, i, j) ==
  \A m \in 0 .. 3 : \A a \in i .. j + 1 : \A b \in i - 1 .. j :
    (b - a < j - i \/ (m > n /\ a = i /\ b = j)) /\ d[<<m, a, b>>] # {} => Phrase(s, a, b)

LEMMA InnerArePhrases ==
  ASSUME NEW s, IsText(s), NEW d, Derivation(s, d), NEW w \in Nat, Phrased(s, d, w),
         NEW n \in 0 .. 3, NEW i \in 1 .. Len(s) + 2, NEW j \in 0 .. Len(s), i <= j, Weight(n, i, j) < w + 1
  PROVE  InnerPhrases(s, d, n, i, j)
<1>1. PICK N \in Nat : N = Len(s)
  BY TextFacts
<1>2. i \in Int /\ j \in Int /\ 1 <= i /\ j <= N
  BY <1>1
<1>3. 4 * (j - i) + (3 - n) <= w
  BY <1>2 DEF Weight
<1>4. ASSUME NEW m \in 0 .. 3, NEW a \in i .. j + 1, NEW b \in i - 1 .. j, d[<<m, a, b>>] # {},
             b - a < j - i \/ (m > n /\ a = i /\ b = j)
      PROVE  Phrase(s, a, b)
  <2>1. a \in 1 .. N + 2 /\ b \in 0 .. N /\ a \in Int /\ b \in Int
    BY <1>2
  <2>2. a <= b
    <3>1. ~(a > b)
      BY <1>1, <1>4, <2>1, DerivedNothing
    <3> QED BY <2>1, <3>1
  <2>3. 4 * (b - a) + (3 - m) < w
    <3>1. CASE b - a < j - i
      BY <1>2, <1>3, <2>1, <3>1
    <3>2. CASE m > n /\ a = i /\ b = j
      BY <1>2, <1>3, <2>1, <3>2
    <3> QED BY <1>4, <3>1, <3>2
  <2>4. Weight(m, a, b) < w
    BY <2>3 DEF Weight
  <2> QED BY <1>1, <1>4, <2>1, <2>2, <2>4 DEF Phrased
<1> QED BY <1>4 DEF InnerPhrases

LEMMA SplitPhrase ==
  ASSUME NEW s, NEW d, NEW n \in 0 .. 3, NEW i \in Int, NEW j \in Int, InnerPhrases(s, d, n, i, j),
         NEW k \in i .. j, s[k] \in Between, NEW m1 \in 0 .. 3, NEW m2 \in 0 .. 3,
         d[<<m1, i, k - 1>>] # {}, d[<<m2, k + 1, j>>] # {}
  PROVE  Phrase(s, i, j)
<1>1. PICK a \in Int, b \in Int : a = k + 1 /\ b = k - 1
  OBVIOUS
<1>2. i \in i .. j + 1 /\ b \in i - 1 .. j /\ b - i < j - i /\ a \in i .. j + 1 /\ j \in i - 1 .. j /\ j - a < j - i
  BY <1>1
<1>3. Phrase(s, i, b) /\ Phrase(s, a, j)
  BY <1>1, <1>2 DEF InnerPhrases
<1> QED BY <1>1, <1>3, JoinedPhrases

\* The arguments of a call.
LEMMA ArgsPhrase ==
  ASSUME NEW s, IsText(s), NEW d, Derivation(s, d), NEW i \in 1 .. Len(s) + 2, NEW j \in 0 .. Len(s),
         InnerPhrases(s, d, 3, i, j), i + 1 < j, NEW f, ArgsOf(f, s, d, i + 2, j - 1) # {}
  PROVE  Phrase(s, i + 2, j - 1)
<1>1. PICK N \in Nat : N = Len(s)
  BY TextFacts
<1>2. PICK a \in Int, b \in Int : a = i + 2 /\ b = j - 1
  BY <1>1
<1>3. i \in Int /\ j \in Int /\ 1 <= i /\ j <= N /\ a \in i .. j + 1 /\ b \in i - 1 .. j /\ b - a < j - i
  BY <1>1, <1>2
<1>4. InnerPhrases(s, d, 3, a, b)
  <2>1. ASSUME NEW m \in 0 .. 3, NEW x \in a .. b + 1, NEW y \in a - 1 .. b, d[<<m, x, y>>] # {},
               y - x < b - a \/ (m > 3 /\ x = a /\ y = b)
        PROVE  Phrase(s, x, y)
    <3>1. x \in i .. j + 1 /\ y \in i - 1 .. j
      BY <1>2, <1>3
    <3>2. y - x < j - i
      <4>1. y - x < b - a
        BY <2>1, SMTT(30)
      <4>2. x \in Int /\ y \in Int
        BY <1>3
      <4> QED BY <1>3, <4>1, <4>2
    <3> QED BY <2>1, <3>1, <3>2 DEF InnerPhrases
  <2> QED BY <2>1 DEF InnerPhrases
<1>5. \A m \in 0 .. 3 : d[<<m, a, b>>] # {} => Phrase(s, a, b)
  BY <1>3 DEF InnerPhrases
<1>6. ArgsCases(s, d, a, f)
  BY ArgsAre
<1>7. ArgsOf(f, s, d, a, b) # {}
  BY <1>2
<1>8. CASE f = "ABS" \/ (f # "ABS" /\ f # "IF")
  <2>1. d[<<1, a, b>>] # {} \/ d[<<0, a, b>>] # {}
    BY <1>6, <1>7, <1>8 DEF ArgsCases
  <2>2. 0 \in 0 .. 3 /\ 1 \in 0 .. 3
    OBVIOUS
  <2> QED BY <1>2, <1>5, <2>1, <2>2
<1>9. CASE f = "IF"
  <2>1. ArgsOf(f, s, d, a, b) = IfLists(s, d, a, b)
    BY <1>6, <1>9 DEF ArgsCases
  <2>2. PICK l : l \in IfLists(s, d, a, b)
    BY <1>7, <2>1
  <2>3. PICK k \in a .. b : IfAt(s, d, a, b, k, l)
    BY <2>2, IfListsAre
  <2>4. s[k] = "," /\ d[<<0, k + 1, b>>] # {}
    BY <2>3 DEF IfAt
  <2>5. PICK c : c \in Conds(s, d, a, k - 1)
    BY <2>3 DEF IfAt
  <2>6. PICK e \in Int : e = k - 1
    BY <1>3
  <2>7. c \in Binary(s, d, Cmps, 1, a, e, 1)
    BY <2>5, <2>6 DEF Conds
  <2>8. PICK h \in a .. e : s[h] \in Cmps /\ SplitAt(s, d, 1, a, e, 1, h, c)
    BY <2>7, BinaryIs
  <2>9. d[<<1, a, h - 1>>] # {} /\ d[<<1, h + 1, e>>] # {}
    BY <2>8 DEF SplitAt
  <2>10. PICK g \in Int, q \in Int : g = h - 1 /\ q = h + 1
    BY <1>3, <2>6
  <2>11. PICK r \in Int : r = k + 1
    BY <1>3
  <2>12. k \in Int /\ a <= k /\ k <= b /\ h \in Int /\ a <= h /\ h <= e
    BY <1>3, <2>6
  <2>13. /\ a \in a .. b + 1 /\ g \in a - 1 .. b /\ g - a < b - a
         /\ q \in a .. b + 1 /\ e \in a - 1 .. b /\ e - q < b - a
         /\ r \in a .. b + 1 /\ b \in a - 1 .. b /\ b - r < b - a
    BY <1>3, <2>6, <2>10, <2>11, <2>12
  <2>14. 0 \in 0 .. 3 /\ 1 \in 0 .. 3
    OBVIOUS
  <2>15. Phrase(s, a, g) /\ Phrase(s, q, e) /\ Phrase(s, r, b)
    BY <1>4, <2>4, <2>9, <2>10, <2>11, <2>13, <2>14 DEF InnerPhrases
  <2>16. s[h] \in Between /\ s[k] \in Between
    BY <2>4, <2>8 DEF Between
  <2>17. Phrase(s, a, e)
    BY <1>2, <2>6, <2>10, <2>12, <2>15, <2>16, JoinedPhrases
  <2>18. Phrase(s, a, b)
    BY <1>2, <2>6, <2>11, <2>12, <2>16, <2>15, <2>17, JoinedPhrases
  <2> QED BY <1>2, <2>18
<1> QED BY <1>8, <1>9

LEMMA PhrasedNext ==
  ASSUME NEW s, IsText(s), NEW d, Derivation(s, d), NEW w \in Nat, Phrased(s, d, w)
  PROVE  Phrased(s, d, w + 1)
<1> SUFFICES ASSUME NEW n \in 0 .. 3, NEW i \in 1 .. Len(s) + 2, NEW j \in 0 .. Len(s), i <= j,
                    Weight(n, i, j) < w + 1, d[<<n, i, j>>] # {}
             PROVE  Phrase(s, i, j)
  BY DEF Phrased
<1>1. PICK N \in Nat : N = Len(s)
  BY TextFacts
<1>2. i \in Int /\ j \in Int /\ 1 <= i /\ j <= N
  BY <1>1
<1>3. InnerPhrases(s, d, n, i, j)
  BY InnerArePhrases
<1>4. PICK l : l \in d[<<n, i, j>>]
  OBVIOUS
<1>5. i \in i .. j + 1 /\ j \in i - 1 .. j
  BY <1>2
<1>6. \A m \in 0 .. 3 : m > n /\ d[<<m, i, j>>] # {} => Phrase(s, i, j)
  BY <1>3, <1>5 DEF InnerPhrases
<1>7. CASE n = 0
  <2>1. CASE l \in d[<<1, i, j>>]
    <3>1. 1 \in 0 .. 3 /\ 1 > n
      BY <1>7
    <3> QED BY <1>6, <2>1, <3>1
  <2>2. CASE l \notin d[<<1, i, j>>]
    <3>1. PICK k \in i .. j : CommaAt(s, d, i, j, k, l)
      BY <1>4, <1>7, <2>2, ListIs
    <3>2. s[k] = "," /\ d[<<0, i, k - 1>>] # {} /\ d[<<1, k + 1, j>>] # {}
      BY <3>1 DEF CommaAt
    <3>3. s[k] \in Between
      BY <3>2 DEF Between
    <3>4. 0 \in 0 .. 3 /\ 1 \in 0 .. 3
      OBVIOUS
    <3> QED BY <1>2, <1>3, <3>2, <3>3, <3>4, SplitPhrase
  <2> QED BY <2>1, <2>2
<1>8. CASE n \in {1, 2}
  <2>1. PICK m \in 0 .. 3 : m = n + 1 /\ m > n
    BY <1>8
  <2>2. CASE l \in d[<<m, i, j>>]
    BY <1>6, <2>1, <2>2
  <2>3. CASE l \notin d[<<m, i, j>>]
    <3>1. PICK k \in i .. j : s[k] \in Levels[n] /\ SplitAt(s, d, n, i, j, m, k, l)
      BY <1>4, <1>8, <2>1, <2>3, LevelIs
    <3>2. d[<<n, i, k - 1>>] # {} /\ d[<<m, k + 1, j>>] # {}
      BY <3>1 DEF SplitAt
    <3>3. s[k] \in Between
      BY <1>8, <3>1 DEF Between
    <3> QED BY <1>2, <1>3, <3>2, <3>3, SplitPhrase
  <2> QED BY <2>2, <2>3
<1>9. CASE n = 3
  <2>1. FactorDerives(s, d, i, j)
    BY FactorDerived
  <2>2. PICK t, D : t = s[i] /\ D = d[<<3, i, j>>]
    OBVIOUS
  <2>3. D # {}
    BY <1>9, <2>2
  <2>4. CASE t \in Numbers \cup Accounts
    <3>1. D = IF i = j THEN {<<Leaf(t)>>} ELSE {}
      BY <2>1, <2>2, <2>4 DEF FactorDerives
    <3>2. i = j
      BY <2>3, <3>1
    <3>3. s[i] \in Starts /\ s[j] \in Ends
      BY <2>2, <2>4, <3>2 DEF Starts, Ends
    <3>4. \A k \in i .. j - 1 : FALSE
      BY <1>2, <3>2
    <3>5. i <= j
      OBVIOUS
    <3> QED BY <3>3, <3>4, <3>5 DEF Phrase
  <2>5. CASE t = "-"
    <3>1. D = NodeOf("neg", d[<<3, i + 1, j>>])
      BY <2>1, <2>2, <2>5 DEF FactorDerives
    <3>2. d[<<3, i + 1, j>>] # {}
      BY <2>3, <3>1 DEF NodeOf
    <3>3. PICK a \in Int : a = i + 1 /\ a \in i .. j + 1 /\ j - a < j - i
      BY <1>2
    <3>4. Phrase(s, a, j)
      BY <1>3, <1>5, <1>9, <3>2, <3>3 DEF InnerPhrases
    <3> QED BY <1>2, <2>2, <2>5, <3>3, <3>4, NegatedPhrase
  <2>6. CASE t = "("
    <3>1. D = IF s[j] = ")" THEN d[<<1, i + 1, j - 1>>] ELSE {}
      BY <2>1, <2>2, <2>6 DEF FactorDerives
    <3>2. s[j] = ")" /\ d[<<1, i + 1, j - 1>>] # {}
      BY <2>3, <3>1
    <3>3. PICK a \in Int, b \in Int : a = i + 1 /\ b = j - 1 /\ a \in i .. j + 1 /\ b \in i - 1 .. j /\ b - a < j - i
      BY <1>2
    <3>4. 1 \in 0 .. 3
      OBVIOUS
    <3>5. Phrase(s, a, b)
      BY <1>3, <3>2, <3>3, <3>4 DEF InnerPhrases
    <3> QED BY <1>2, <2>2, <2>6, <3>2, <3>3, <3>5, BracketedPhrase
  <2>7. CASE t \in Funcs
    <3>1. PICK call : call <=> i + 1 < j /\ s[i + 1] = "(" /\ s[j] = ")"
      OBVIOUS
    <3>2. D = IF call THEN NodeOf(t, ArgsOf(t, s, d, i + 2, j - 1)) ELSE {}
      BY <2>1, <2>2, <2>7, <3>1 DEF FactorDerives
    <3>3. i + 1 < j /\ s[i + 1] = "(" /\ s[j] = ")"
      BY <2>3, <3>1, <3>2
    <3>4. ArgsOf(t, s, d, i + 2, j - 1) # {}
      BY <2>3, <3>2 DEF NodeOf
    <3>5. Phrase(s, i + 2, j - 1)
      BY <1>3, <1>9, <3>3, <3>4, ArgsPhrase
    <3> QED BY <1>2, <2>2, <2>7, <3>3, <3>5, CalledPhrase
  <2>8. CASE t \notin {"-", "("} \cup Numbers \cup Accounts \cup Funcs
    BY <2>1, <2>2, <2>3, <2>8 DEF FactorDerives
  <2> QED BY <2>4, <2>5, <2>6, <2>7, <2>8
<1>10. n = 0 \/ n \in {1, 2} \/ n = 3
  OBVIOUS
<1> QED BY <1>7, <1>8, <1>9, <1>10

\* The tokens of a formula stand next to each other as the grammar has them.
LEMMA FormulaIsPhrase ==
  ASSUME NEW s, IsText(s), Parse(s) # NotAFormula
  PROVE  Phrase(s, 1, Len(s))
<1>1. PICK N \in Nat : N = Len(s)
  BY TextFacts
<1>2. PICK d : Derivation(s, d) /\ Derived(s) = {l[1] : l \in d[<<1, 1, Len(s)>>]}
  BY DerivationExists
<1>3. d[<<1, 1, N>>] # {}
  <2>1. Derived(s) # {}
    BY ParseIsDerived
  <2> QED BY <1>1, <1>2, <2>1
<1>4. 1 <= N
  <2>1. 1 \in 0 .. 3 /\ 1 \in 1 .. Len(s) + 2 /\ N \in 0 .. Len(s)
    BY <1>1
  <2>2. ~(1 > N)
    BY <1>2, <1>3, <2>1, DerivedNothing
  <2> QED BY <2>2
<1>5. PICK K \in Nat : K = 4 * N
  OBVIOUS
<1> DEFINE G == {w \in 0 .. K : Phrased(s, d, w)}
<1>6. 0 \in G
  <2>1. ASSUME NEW n \in 0 .. 3, NEW i \in 1 .. Len(s) + 2, NEW j \in 0 .. Len(s), i <= j
        PROVE  ~(Weight(n, i, j) < 0)
    <3>1. i \in Int /\ j \in Int
      BY <1>1
    <3>2. 4 * (j - i) + (3 - n) >= 0
      BY <3>1, <2>1
    <3> QED BY <3>1, <3>2 DEF Weight
  <2>2. Phrased(s, d, 0)
    BY <2>1 DEF Phrased
  <2> QED BY <2>2
<1>7. ASSUME NEW w \in 0 .. K - 1, w \in G
      PROVE  w + 1 \in G
  <2>1. w \in Nat /\ w + 1 \in 0 .. K
    OBVIOUS
  <2> QED BY <1>2, <1>7, <2>1, PhrasedNext
<1> HIDE DEF G
<1>8. 0 .. K \subseteq G
  BY <1>6, <1>7, Stepwise
<1>9. Phrased(s, d, K)
  <2>1. K \in 0 .. K
    OBVIOUS
  <2> QED BY <1>8, <2>1 DEF G
<1>10. Weight(1, 1, N) < K
  BY <1>4, <1>5 DEF Weight
<1>11. 1 \in 0 .. 3 /\ 1 \in 1 .. Len(s) + 2 /\ N \in 0 .. Len(s)
  BY <1>1
<1> QED BY <1>1, <1>3, <1>4, <1>9, <1>10, <1>11 DEF Phrased

-----------------------------------------------------------------------------
(* A text made of pieces.                                                  *)
\* The pieces q stand in w one behind the other, piece m at place pos[m].
Pieces(w, q, N, pos) ==
  /\ pos \in [1 .. N + 1 -> Nat] /\ pos[1] = 1 /\ pos[N + 1] = Len(w) + 1
  /\ \A m \in 1 .. N : /\ pos[m + 1] = pos[m] + Len(q[m])
                       /\ \A k \in 1 .. Len(q[m]) : w[pos[m] + k - 1] = q[m][k]

\* The sequences that FlattenSeq goes through.
Flattened(q, N, u) == u[0] = <<>> /\ \A k \in 1 .. N : u[k] = u[k - 1] \o q[k]

LEMMA FlattenSteps ==
  ASSUME NEW C, NEW N \in Nat, N # 0, NEW q \in [1 .. N -> Seq(C)]
  PROVE  \E u \in [0 .. N -> Seq(C)] : Flattened(q, N, u) /\ FlattenSeq(q) = u[N]
<1> DEFINE S == Seq(C)
           f == [x \in (0 .. N) \X S |-> IF x[1] = 0 THEN x[2] ELSE x[2] \o q[x[1]]]
           Is(t) == t = [i \in 1 .. N |-> IF i = 1 THEN q[i] ELSE t[i - 1] \o q[i]]
           c == CHOOSE t : Is(t)
<1>1. f \in [(0 .. N) \X S -> S]
  <2>1. ASSUME NEW x \in (0 .. N) \X S
        PROVE  (IF x[1] = 0 THEN x[2] ELSE x[2] \o q[x[1]]) \in S
    <3>1. PICK k \in 0 .. N, v \in Seq(C) : x[1] = k /\ x[2] = v
      OBVIOUS
    <3>2. CASE k # 0
      <4>1. q[k] \in Seq(C)
        BY <3>2
      <4>2. v \o q[k] \in Seq(C)
        BY <4>1
      <4> QED BY <3>1, <3>2, <4>2
    <3> QED BY <3>1, <3>2
  <2> QED BY <2>1
<1>2. \A k \in 1 .. N : \A x \in S : f[<<k, x>>] = x \o q[k]
  <2> HIDE DEF S
  <2>1. ASSUME NEW k \in 1 .. N, NEW x \in S
        PROVE  f[<<k, x>>] = x \o q[k]
    <3>1. k \in 0 .. N /\ k # 0
      OBVIOUS
    <3>2. PICK p : p = <<k, x>>
      OBVIOUS
    <3>3. p \in (0 .. N) \X S /\ p[1] = k /\ p[2] = x
      BY <3>1, <3>2
    <3>4. f[p] = IF p[1] = 0 THEN p[2] ELSE p[2] \o q[p[1]]
      BY <3>3
    <3> QED BY <3>1, <3>2, <3>3, <3>4
  <2> QED BY <2>1
<1>3. <<>> \in S
  OBVIOUS
<1> HIDE DEF f
<1>4. PICK u \in [0 .. N -> S] : u[0] = <<>> /\ \A k \in 1 .. N : u[k] = f[<<k, u[k - 1]>>]
  <2> HIDE DEF S
  <2>1. f \in StepFunctions(N, S)
    BY <1>1 DEF StepFunctions
  <2>2. Runs(N, S, <<>>, f) # {}
    BY <1>3, <2>1, StepsExist
  <2> QED BY <2>2 DEF Runs
<1>5. \A k \in 1 .. N : k - 1 \in 0 .. N /\ u[k] = u[k - 1] \o q[k]
  <2>1. ASSUME NEW k \in 1 .. N
        PROVE  k - 1 \in 0 .. N /\ u[k] = u[k - 1] \o q[k]
    <3>1. k - 1 \in 0 .. N
      OBVIOUS
    <3>2. u[k - 1] \in S
      BY <3>1
    <3> HIDE DEF S
    <3> QED BY <1>2, <1>4, <3>1, <3>2
  <2> QED BY <2>1
<1>6. u[1] = q[1]
  <2>1. 1 \in 1 .. N /\ 1 - 1 = 0 /\ q[1] \in Seq(C)
    OBVIOUS
  <2>2. <<>> \o q[1] = q[1]
    BY <2>1
  <2> QED BY <1>4, <1>5, <2>1, <2>2
<1>7. ASSUME NEW i \in 1 .. N
      PROVE  u[i] = IF i = 1 THEN q[i] ELSE u[i - 1] \o q[i]
  BY <1>5, <1>6
<1> DEFINE g == [i \in 1 .. N |-> u[i]]
<1>8. Is(g)
  <2>1. \A i \in 1 .. N : i # 1 => i - 1 \in 1 .. N
    OBVIOUS
  <2>2. \A i \in 1 .. N : g[i] = u[i]
    OBVIOUS
  <2>3. g = [i \in 1 .. N |-> g[i]]
    OBVIOUS
  <2> HIDE DEF g
  <2>4. \A i \in 1 .. N : g[i] = IF i = 1 THEN q[i] ELSE g[i - 1] \o q[i]
    BY <1>7, <2>1, <2>2
  <2> QED BY <2>3, <2>4
<1> HIDE DEF g
<1>9. Is(c)
  <2> HIDE DEF Is
  <2> QED BY <1>8
<1>10. FlattenSeq(q) = c[N]
  <2>1. Len(q) = N /\ N # 0
    OBVIOUS
  <2> QED BY <2>1 DEF FlattenSeq
<1> HIDE DEF c
<1>11. \A i \in 1 .. N : c[i] = IF i = 1 THEN q[i] ELSE c[i - 1] \o q[i]
  BY <1>9
<1>12. c[N] = u[N]
  <2> DEFINE G == {k \in 0 .. N : k # 0 => c[k] = u[k]}
  <2>1. 0 \in G
    OBVIOUS
  <2>2. ASSUME NEW k \in 0 .. N - 1, k \in G
        PROVE  k + 1 \in G
    <3>1. k + 1 \in 1 .. N /\ (k + 1) - 1 = k /\ (k + 1 = 1 <=> k = 0)
      OBVIOUS
    <3>2. c[k + 1] = IF k = 0 THEN q[1] ELSE c[k] \o q[k + 1]
      BY <1>11, <3>1
    <3>3. u[k + 1] = IF k = 0 THEN q[1] ELSE u[k] \o q[k + 1]
      BY <1>5, <1>6, <3>1
    <3>4. c[k + 1] = u[k + 1]
      BY <2>2, <3>2, <3>3
    <3> QED BY <3>1, <3>4
  <2> HIDE DEF G
  <2>3. 0 .. N \subseteq G
    BY <2>1, <2>2, Stepwise
  <2>4. N \in 0 .. N
    OBVIOUS
  <2>5. N \in G
    BY <2>3, <2>4
  <2> QED BY <2>5 DEF G
<1>13. Flattened(q, N, u)
  BY <1>4, <1>5 DEF Flattened
<1> QED BY <1>10, <1>12, <1>13

\* a is how b starts.
Opens(a, b) == Len(a) <= Len(b) /\ \A x \in 1 .. Len(a) : a[x] = b[x]

LEMMA OpensWhole ==
  ASSUME NEW C, NEW a \in Seq(C), NEW b \in Seq(C), NEW e \in Seq(C), Opens(a, b)
  PROVE  Opens(a, b \o e)
<1>1. PICK A \in Nat, B \in Nat, E \in Nat : A = Len(a) /\ B = Len(b) /\ E = Len(e)
  OBVIOUS
<1>2. Len(b \o e) = B + E /\ \A x \in 1 .. B : (b \o e)[x] = b[x]
  BY <1>1
<1>3. A <= B /\ \A x \in 1 .. A : a[x] = b[x]
  BY <1>1 DEF Opens
<1>4. A <= B + E /\ \A x \in 1 .. A : x \in 1 .. B
  BY <1>3
<1> QED BY <1>1, <1>2, <1>3, <1>4 DEF Opens

LEMMA FlattenPieces ==
  ASSUME NEW C, NEW N \in Nat, N # 0, NEW q \in [1 .. N -> Seq(C)]
  PROVE  FlattenSeq(q) \in Seq(C) /\ \E pos : Pieces(FlattenSeq(q), q, N, pos)
<1>1. PICK u \in [0 .. N -> Seq(C)] : Flattened(q, N, u) /\ FlattenSeq(q) = u[N]
  BY FlattenSteps
<1>2. PICK w : w = u[N] /\ w = FlattenSeq(q) /\ w \in Seq(C)
  <2>1. N \in 0 .. N
    OBVIOUS
  <2> QED BY <1>1, <2>1
<1>3. \A k \in 1 .. N : /\ k - 1 \in 0 .. N /\ k \in 0 .. N /\ u[k] = u[k - 1] \o q[k]
                        /\ u[k - 1] \in Seq(C) /\ u[k] \in Seq(C) /\ q[k] \in Seq(C)
  <2>1. ASSUME NEW k \in 1 .. N
        PROVE  /\ k - 1 \in 0 .. N /\ k \in 0 .. N /\ u[k] = u[k - 1] \o q[k]
               /\ u[k - 1] \in Seq(C) /\ u[k] \in Seq(C) /\ q[k] \in Seq(C)
    <3>1. k - 1 \in 0 .. N /\ k \in 0 .. N
      OBVIOUS
    <3>2. u[k] = u[k - 1] \o q[k]
      BY <1>1 DEF Flattened
    <3>3. u[k - 1] \in Seq(C) /\ u[k] \in Seq(C) /\ q[k] \in Seq(C)
      BY <3>1
    <3> QED BY <3>1, <3>2, <3>3
  <2> QED BY <2>1
<1>4. \A m \in 0 .. N : Opens(u[m], w)
  <2> SUFFICES ASSUME NEW m \in 0 .. N PROVE Opens(u[m], w)
    OBVIOUS
  <2> DEFINE G == {k \in 0 .. N : k >= m => Opens(u[m], u[k])}
  <2>1. \A k \in 0 .. N : k = m => k \in G
    <3>1. Opens(u[m], u[m])
      <4>1. Len(u[m]) \in Nat
        OBVIOUS
      <4> QED BY <4>1 DEF Opens
    <3> QED BY <3>1
  <2>2. 0 \in G
    <3>1. 0 \in 0 .. N /\ (0 >= m => 0 = m)
      OBVIOUS
    <3> QED BY <2>1, <3>1
  <2>3. ASSUME NEW k \in 0 .. N - 1, k \in G
        PROVE  k + 1 \in G
    <3>1. k + 1 \in 1 .. N /\ (k + 1) - 1 = k /\ k + 1 \in 0 .. N /\ k \in 0 .. N
      OBVIOUS
    <3>2. CASE k >= m
      <4>1. PICK a, b, e : a = u[m] /\ b = u[k] /\ e = q[k + 1]
        OBVIOUS
      <4>2. a \in Seq(C) /\ b \in Seq(C) /\ e \in Seq(C) /\ u[k + 1] = b \o e
        BY <1>3, <3>1, <4>1
      <4>3. Opens(a, b)
        BY <2>3, <3>2, <4>1
      <4>4. Opens(a, b \o e)
        BY <4>2, <4>3, OpensWhole
      <4> QED BY <3>1, <4>1, <4>2, <4>4
    <3>3. CASE k + 1 = m
      BY <2>1, <3>1, <3>3
    <3>4. CASE ~(k >= m) /\ k + 1 # m
      <4>1. ~(k + 1 >= m)
        BY <3>4
      <4> QED BY <3>1, <4>1
    <3> QED BY <3>2, <3>3, <3>4
  <2> HIDE DEF G
  <2>4. 0 .. N \subseteq G
    BY <2>2, <2>3, Stepwise
  <2>5. N \in G /\ N >= m
    <3>1. N \in 0 .. N /\ N >= m
      OBVIOUS
    <3> QED BY <2>4, <3>1
  <2> QED BY <1>2, <2>5 DEF G
<1> DEFINE pos == [m \in 1 .. N + 1 |-> Len(u[m - 1]) + 1]
<1>5. /\ pos \in [1 .. N + 1 -> Nat]
      /\ \A m \in 1 .. N + 1 : pos[m] = Len(u[m - 1]) + 1
  <2>1. \A m \in 1 .. N + 1 : m - 1 \in 0 .. N /\ Len(u[m - 1]) \in Nat
    OBVIOUS
  <2> QED BY <2>1
<1> HIDE DEF pos
<1>6. pos[1] = 1 /\ pos[N + 1] = Len(w) + 1
  <2>1. 1 \in 1 .. N + 1 /\ 1 - 1 = 0 /\ N + 1 \in 1 .. N + 1 /\ (N + 1) - 1 = N
    OBVIOUS
  <2>2. pos[1] = Len(u[0]) + 1 /\ pos[N + 1] = Len(u[N]) + 1
    BY <1>5, <2>1
  <2>3. u[0] = <<>>
    BY <1>1 DEF Flattened
  <2>4. Len(u[0]) = 0
    BY <2>3
  <2>5. pos[1] = 1
    BY <2>2, <2>4
  <2>6. w = u[N]
    BY <1>2
  <2> QED BY <2>2, <2>5, <2>6
<1>7. ASSUME NEW m \in 1 .. N
      PROVE  pos[m + 1] = pos[m] + Len(q[m]) /\ \A k \in 1 .. Len(q[m]) : w[pos[m] + k - 1] = q[m][k]
  <2>1. PICK a, e, b : a = u[m - 1] /\ e = q[m] /\ b = u[m] /\ b = a \o e /\ a \in Seq(C) /\ e \in Seq(C)
    BY <1>3
  <2>2. PICK A \in Nat, E \in Nat : A = Len(a) /\ E = Len(e)
    BY <2>1
  <2>3. Len(b) = A + E /\ \A k \in 1 .. E : b[A + k] = e[k]
    BY <2>1, <2>2
  <2>4. m \in 1 .. N + 1 /\ m + 1 \in 1 .. N + 1 /\ (m + 1) - 1 = m /\ m \in 0 .. N
    OBVIOUS
  <2>5. pos[m] = A + 1 /\ pos[m + 1] = Len(b) + 1
    BY <1>5, <2>1, <2>2, <2>4
  <2>6. pos[m + 1] = pos[m] + E
    BY <2>3, <2>5
  <2>7. \A k \in 1 .. A + E : b[k] = w[k]
    BY <1>4, <2>1, <2>3, <2>4 DEF Opens
  <2>8. ASSUME NEW k \in 1 .. E
        PROVE  w[pos[m] + k - 1] = e[k]
    <3>1. A + k \in 1 .. A + E /\ (A + 1) + k - 1 = A + k
      OBVIOUS
    <3> QED BY <2>3, <2>5, <2>7, <3>1
  <2> QED BY <2>1, <2>2, <2>6, <2>8
<1>8. Pieces(w, q, N, pos)
  BY <1>5, <1>6, <1>7 DEF Pieces
<1> QED BY <1>2, <1>8

-----------------------------------------------------------------------------
(* The characters of a text.                                               *)
Nothing == ""   \* read behind a text

LEMMA CharactersApart ==
  /\ \A c \in Signs \cup {"=", "!", "#", " ", Nothing} :
       c \notin Letters /\ c \notin Digits /\ c \notin L!Alnum /\ c # "_" /\ c \notin L!NameWord
  /\ \A c \in Letters : c \in L!Alnum /\ c \in L!NameWord /\ c \notin Digits /\ c # "_" /\ c # "."
  /\ \A c \in Digits : c \in L!Alnum /\ c \in L!NameWord /\ c \notin Letters /\ c # "_" /\ c # "."
  /\ "A" \in Letters
<1>1. \A c \in Signs \cup {"=", "!", "#", " ", ".", "_", Nothing} :
          c \notin Letters /\ c \notin Digits /\ c \notin L!Alnum
  BY SpellingAssumption DEF L!Alnum, Nothing
<1>2. \A c \in Signs \cup {"=", "!", "#", " ", Nothing} : c # "_" /\ c # "."
  BY DEF Signs, Nothing
<1>3. \A c \in L!NameWord : c \in L!Alnum \/ c = "." \/ c = "_"
  BY DEF L!NameWord
<1>4. \A c \in Letters : c \in L!Alnum /\ c \in L!NameWord /\ c \notin Digits
  BY SpellingAssumption DEF L!Alnum, L!NameWord
<1>5. \A c \in Digits : c \in L!Alnum /\ c \in L!NameWord /\ c \notin Letters
  BY SpellingAssumption DEF L!Alnum, L!NameWord
<1>6. "_" \notin Letters /\ "_" \notin Digits /\ "." \notin Letters /\ "." \notin Digits
  BY <1>1
<1>7. "A" \in Letters
  BY SpellingAssumption
<1> QED BY <1>1, <1>2, <1>3, <1>4, <1>5, <1>6, <1>7

LEMMA AtIs ==
  ASSUME NEW C, NEW w \in Seq(C)
  PROVE  /\ \A i \in 1 .. Len(w) : L!At(w, i) = w[i]
         /\ \A i \in Int : i \notin 1 .. Len(w) => L!At(w, i) = Nothing
         /\ Len(w) \in Nat
<1>1. DOMAIN w = 1 .. Len(w) /\ Len(w) \in Nat
  OBVIOUS
<1> QED BY <1>1 DEF L!At, Nothing

\* The first place from i on that is in S.
LEMMA FirstPlace ==
  ASSUME NEW i \in Nat, NEW n \in Nat, NEW S, i <= n, n \in S
  PROVE  \E j \in i .. n : j \in S /\ \A k \in i .. j - 1 : k \notin S
<1> DEFINE B == {k \in i .. n : k \in S}
<1>1. B \subseteq Nat /\ B # {}
  OBVIOUS
<1>2. PICK m \in B : \A k \in B : m <= k
  <2> HIDE DEF B
  <2> QED BY <1>1, LeastNatural
<1>3. ASSUME NEW k \in i .. m - 1
      PROVE  k \notin S
  <2>1. m \in i .. n
    BY <1>2
  <2>2. k \in i .. n /\ ~(m <= k)
    BY <2>1
  <2> QED BY <1>2, <2>2
<1> QED BY <1>2, <1>3

\* Where a run of characters of S ends.
RunsTo(w, i, S, j) == L!At(w, j) \notin S /\ \A k \in i .. j - 1 : w[k] \in S

LEMMA OneRun ==
  ASSUME NEW C, NEW w \in Seq(C), NEW i \in 1 .. Len(w) + 1, NEW S,
         NEW j \in i .. Len(w) + 1, RunsTo(w, i, S, j), NEW h \in i .. Len(w) + 1, RunsTo(w, i, S, h)
  PROVE  ~(h < j)
<1> SUFFICES ASSUME h < j PROVE FALSE
  OBVIOUS
<1>1. PICK N \in Nat : N = Len(w)
  OBVIOUS
<1>2. i \in Nat /\ j \in Nat /\ h \in Nat /\ 1 <= i
  BY <1>1
<1>3. h \in i .. j - 1 /\ h \in 1 .. N
  BY <1>1, <1>2
<1>4. w[h] \in S /\ L!At(w, h) \notin S
  BY <1>3 DEF RunsTo
<1>5. L!At(w, h) = w[h]
  BY <1>1, <1>3, AtIs
<1> QED BY <1>4, <1>5

LEMMA RunEndIs ==
  ASSUME NEW C, NEW w \in Seq(C), NEW i \in 1 .. Len(w) + 1, NEW S,
         NEW j \in i .. Len(w) + 1, RunsTo(w, i, S, j)
  PROVE  L!RunEnd(w, i, S) = j
<1> DEFINE e == CHOOSE h \in i .. Len(w) + 1 : RunsTo(w, i, S, h)
<1>1. L!RunEnd(w, i, S) = e
  BY DEF L!RunEnd, RunsTo
<1>2. e \in i .. Len(w) + 1 /\ RunsTo(w, i, S, e)
  OBVIOUS
<1> HIDE DEF e
<1>3. ~(e < j) /\ ~(j < e)
  BY <1>2, OneRun
<1>4. e \in Int /\ j \in Int
  BY <1>2
<1> QED BY <1>1, <1>3, <1>4

LEMMA RunEndExists ==
  ASSUME NEW C, NEW w \in Seq(C), NEW i \in 1 .. Len(w) + 1, NEW S, Nothing \notin S
  PROVE  L!RunEnd(w, i, S) \in i .. Len(w) + 1 /\ RunsTo(w, i, S, L!RunEnd(w, i, S))
<1>1. PICK N \in Nat : N = Len(w)
  OBVIOUS
<1> DEFINE B == {k \in Nat : L!At(w, k) \notin S}
<1>2. N + 1 \in B
  <2>1. L!At(w, N + 1) = Nothing
    BY <1>1, AtIs
  <2> QED BY <2>1
<1>3. i \in Nat /\ N + 1 \in Nat /\ i <= N + 1
  BY <1>1
<1>4. PICK j \in i .. N + 1 : j \in B /\ \A k \in i .. j - 1 : k \notin B
  <2> HIDE DEF B
  <2> QED BY <1>2, <1>3, FirstPlace
<1>5. ASSUME NEW k \in i .. j - 1
      PROVE  w[k] \in S
  <2>1. k \in Nat /\ k \in 1 .. N
    BY <1>1, <1>3
  <2>2. L!At(w, k) = w[k]
    BY <1>1, <2>1, AtIs
  <2> QED BY <1>4, <2>1, <2>2
<1>6. RunsTo(w, i, S, j)
  BY <1>4, <1>5 DEF RunsTo
<1> QED BY <1>1, <1>4, <1>6, RunEndIs

\* Where a reference ends.
NameTo(w, start, j) == ~L!Continues(w, start, j) /\ \A k \in start .. j - 1 : L!Continues(w, start, k)

NameEnd(w, start) == CHOOSE j \in start .. Len(w) + 1 : NameTo(w, start, j)

LEMMA NameEnds ==
  ASSUME NEW C, NEW w \in Seq(C), NEW start \in 1 .. Len(w) + 1
  PROVE  NameEnd(w, start) \in start .. Len(w) + 1 /\ NameTo(w, start, NameEnd(w, start))
<1>1. PICK N \in Nat : N = Len(w)
  OBVIOUS
<1> DEFINE B == {k \in Nat : ~L!Continues(w, start, k)}
<1>2. N + 1 \in B
  <2>1. PICK none : none = Nothing
    OBVIOUS
  <2>2. L!At(w, N + 1) = none
    BY <1>1, <2>1, AtIs
  <2>3. none \notin L!NameWord /\ none # " " /\ none # "-"
    <3>1. Nothing # " " /\ Nothing # "-"
      BY DEF Nothing
    <3>2. Nothing \notin L!NameWord
      BY CharactersApart
    <3> QED BY <2>1, <3>1, <3>2
  <2>4. ~L!Continues(w, start, N + 1)
    BY <2>2, <2>3 DEF L!Continues
  <2> QED BY <2>4
<1>3. start \in Nat /\ N + 1 \in Nat /\ start <= N + 1
  BY <1>1
<1>4. PICK j \in start .. N + 1 : j \in B /\ \A k \in start .. j - 1 : k \notin B
  <2> HIDE DEF B
  <2> QED BY <1>2, <1>3, FirstPlace
<1>5. \A k \in start .. j - 1 : k \in Nat
  BY <1>3
<1>6. j \in start .. Len(w) + 1 /\ NameTo(w, start, j)
  BY <1>1, <1>4, <1>5 DEF NameTo
<1> QED BY <1>6 DEF NameEnd

\* It ends no later than at a character that does not go on with it.
LEMMA NameStops ==
  ASSUME NEW C, NEW w \in Seq(C), NEW start \in 1 .. Len(w) + 1,
         NEW j \in start .. Len(w) + 1, ~L!Continues(w, start, j)
  PROVE  NameEnd(w, start) <= j
<1>1. PICK e \in start .. Len(w) + 1 : e = NameEnd(w, start) /\ NameTo(w, start, e)
  BY NameEnds
<1>2. e \in Int /\ j \in Int
  OBVIOUS
<1>3. ~(j < e)
  <2> SUFFICES ASSUME j < e PROVE FALSE
    OBVIOUS
  <2>1. j \in start .. e - 1
    BY <1>2
  <2> QED BY <1>1, <2>1 DEF NameTo
<1> QED BY <1>1, <1>2, <1>3

LEMMA NameEndIs ==
  ASSUME NEW C, NEW w \in Seq(C), NEW start \in 1 .. Len(w) + 1,
         NEW j \in start .. Len(w) + 1, NameTo(w, start, j)
  PROVE  NameEnd(w, start) = j
<1>1. PICK e \in start .. Len(w) + 1 : e = NameEnd(w, start) /\ NameTo(w, start, e)
  BY NameEnds
<1>2. e \in Int /\ j \in Int
  OBVIOUS
<1>3. e <= j
  BY <1>1, NameStops DEF NameTo
<1>4. ~(e < j)
  <2> SUFFICES ASSUME e < j PROVE FALSE
    OBVIOUS
  <2>1. e \in start .. j - 1
    BY <1>2
  <2> QED BY <1>1, <2>1 DEF NameTo
<1> QED BY <1>1, <1>2, <1>3, <1>4

-----------------------------------------------------------------------------
(* One token.                                                              *)
OneCharOps == {"+", "-", "*", "/", "(", ")", ","}

TokenCases(w, i, c, eq) ==
  /\ c \in Digits => L!LexToken(w, i) = L!Token("num", w, i, L!RunEnd(w, i, Digits))
  /\ c \notin Digits /\ c \in Letters \cup {"_"}
       => L!LexToken(w, i) = L!Token("ident", w, i, L!RunEnd(w, i, L!Alnum \cup {"_"}))
  /\ c \notin Digits /\ c \notin Letters \cup {"_"} =>
       /\ c \in OneCharOps => L!LexToken(w, i) = L!Token("op", w, i, i + 1)
       /\ c \in {"<", ">"} => L!LexToken(w, i) = L!Token("op", w, i, IF eq THEN i + 2 ELSE i + 1)
       /\ c \in {"=", "!"} /\ eq => L!LexToken(w, i) = L!Token("op", w, i, i + 2)
       /\ c \notin OneCharOps \cup {"<", ">"} /\ ~(c \in {"=", "!"} /\ eq)
            => L!LexToken(w, i) = L!Token("error", w, i, i)

LEMMA TokenKinds ==
  ASSUME NEW C, NEW w \in Seq(C), NEW i \in 1 .. Len(w)
  PROVE  /\ L!StartsRef(w, i) => L!LexToken(w, i) = L!LexRefName(w, i + 2)
         /\ ~L!StartsRef(w, i) => TokenCases(w, i, w[i], L!At(w, i + 1) = "=")
<1> DEFINE t  == L!LexToken(w, i)
           c  == w[i]
           eq == L!At(w, i + 1) = "="
           p0 == L!StartsRef(w, i)
           p1 == c \in Digits
           p2 == c \in Letters \cup {"_"} /\ ~p0
           p3 == c \in OneCharOps
           p4 == c \in {"<", ">"}
           p5 == c \in {"=", "!"} /\ eq
           v0 == L!LexRefName(w, i + 2)
           v1 == L!Token("num", w, i, L!RunEnd(w, i, Digits))
           v2 == L!Token("ident", w, i, L!RunEnd(w, i, L!Alnum \cup {"_"}))
           v3 == L!Token("op", w, i, i + 1)
           v4 == L!Token("op", w, i, IF eq THEN i + 2 ELSE i + 1)
           v5 == L!Token("op", w, i, i + 2)
           v6 == L!Token("error", w, i, i)
<1>1. t = CASE p0 -> v0 [] p1 -> v1 [] p2 -> v2 [] p3 -> v3 [] p4 -> v4 [] p5 -> v5 [] OTHER -> v6
  BY DEF L!LexToken, OneCharOps
<1>2. p0 => c = "A"
  <2>1. L!At(w, i) = w[i]
    BY AtIs
  <2> QED BY <2>1 DEF L!StartsRef
<1>3. (p3 => ~p4 /\ ~p5) /\ (p4 => ~p5)
  BY DEF OneCharOps
<1>4. c = "A" => ~p1 /\ ~p3 /\ ~p4 /\ ~p5
  BY CharactersApart DEF OneCharOps
<1>5. OneCharOps \cup {"<", ">"} \cup {"=", "!"} \subseteq Signs \cup {"=", "!", "#", " ", Nothing}
  BY DEF OneCharOps, Signs
<1>6. p3 \/ p4 \/ p5 => c \notin Digits /\ c \notin Letters /\ c # "_"
  <2>1. p3 \/ p4 \/ p5 => c \in OneCharOps \cup {"<", ">"} \cup {"=", "!"}
    OBVIOUS
  <2>2. p3 \/ p4 \/ p5 => c \in Signs \cup {"=", "!", "#", " ", Nothing}
    BY <1>5, <2>1
  <2> QED BY <2>2, CharactersApart
<1>7. c \in Digits => c \notin Letters /\ c # "_"
  BY CharactersApart
<1> DEFINE q2 == c \in Letters \cup {"_"}
<1>8. /\ p0 => ~p1 /\ ~p2 /\ ~p3 /\ ~p4 /\ ~p5
      /\ p1 => ~q2 /\ ~p3 /\ ~p4 /\ ~p5
      /\ q2 => ~p3 /\ ~p4 /\ ~p5
      /\ p3 => ~p4 /\ ~p5
      /\ p4 => ~p5
      /\ p2 <=> q2 /\ ~p0
  BY <1>2, <1>3, <1>4, <1>6, <1>7
<1> HIDE DEF t, v0, v1, v2, v3, v4, v5, v6, p0, p1, p2, p3, p4, p5, q2
<1>9. p0 => t = v0
  BY <1>1, <1>8
<1>10. p1 /\ ~p0 => t = v1
  BY <1>1, <1>8
<1>11. p2 => t = v2
  BY <1>1, <1>8
<1>12. (p3 /\ ~p0 => t = v3) /\ (p4 /\ ~p0 => t = v4) /\ (p5 /\ ~p0 => t = v5)
  BY <1>1, <1>8
<1>13. ~p0 /\ ~p1 /\ ~p2 /\ ~p3 /\ ~p4 /\ ~p5 => t = v6
  BY <1>1
<1>14. ~p0 =>
         /\ p1 => t = v1
         /\ ~p1 /\ q2 => t = v2
         /\ ~p1 /\ ~q2 =>
              (p3 => t = v3) /\ (p4 => t = v4) /\ (p5 => t = v5) /\ (~p3 /\ ~p4 /\ ~p5 => t = v6)
  BY <1>8, <1>10, <1>11, <1>12, <1>13
<1> QED BY <1>9, <1>14 DEF TokenCases, t, v0, v1, v2, v3, v4, v5, v6, p0, p1, p2, p3, p4, p5, q2

\* What lexRefName makes of a name that ends at e.
RefTo(w, start, e) ==
  [kind |-> "ref", text |-> L!FromWord(SubSeq(w, start, e - 1)), next |-> L!SkipSpaces(w, e)]

LEMMA RefToken ==
  ASSUME NEW C, NEW w \in Seq(C), NEW i \in 1 .. Len(w), L!StartsRef(w, i)
  PROVE  i + 2 \in 1 .. Len(w) + 1 /\ L!LexToken(w, i) = RefTo(w, i + 2, NameEnd(w, i + 2))
<1>1. PICK a \in Int, b \in Int, N \in Nat : a = i + 1 /\ b = i + 2 /\ N = Len(w)
  OBVIOUS
<1>2. a <= N
  <2>1. L!At(w, a) = "#"
    BY <1>1 DEF L!StartsRef
  <2>2. Nothing # "#"
    BY DEF Nothing
  <2>3. L!At(w, a) # Nothing
    BY <2>1, <2>2
  <2>4. a \in 1 .. Len(w)
    BY <2>3, AtIs
  <2> QED BY <1>1, <2>4
<1>3. i + 2 \in 1 .. Len(w) + 1
  BY <1>1, <1>2
<1>4. L!LexRefName(w, b) = RefTo(w, b, NameEnd(w, b))
  BY DEF L!LexRefName, RefTo, NameEnd, NameTo
<1>5. L!LexToken(w, i) = L!LexRefName(w, i + 2)
  BY TokenKinds
<1> QED BY <1>1, <1>3, <1>4, <1>5

LEMMA TokenEnds ==
  ASSUME NEW C, NEW w \in Seq(C), NEW i \in 1 .. Len(w), ~L!StartsRef(w, i)
  PROVE  \E e \in i .. Len(w) + 1 : \E k : L!LexToken(w, i) = L!Token(k, w, i, e)
<1>1. PICK N \in Nat, a \in Int, b \in Int : N = Len(w) /\ a = i + 1 /\ b = i + 2
  OBVIOUS
<1>2. i \in i .. Len(w) + 1 /\ a \in i .. Len(w) + 1 /\ i \in 1 .. Len(w) + 1
  BY <1>1
<1>3. PICK eq : eq <=> L!At(w, i + 1) = "="
  OBVIOUS
<1>4. eq => b \in i .. Len(w) + 1
  <2> SUFFICES ASSUME eq PROVE b \in i .. Len(w) + 1
    OBVIOUS
  <2>1. L!At(w, a) # Nothing
    <3>1. Nothing # "="
      BY DEF Nothing
    <3> QED BY <1>1, <1>3, <3>1
  <2>2. a \in 1 .. Len(w)
    BY <2>1, AtIs
  <2> QED BY <1>1, <2>2
<1>5. TokenCases(w, i, w[i], eq)
  BY <1>3, TokenKinds
<1>6. PICK e1 \in i .. Len(w) + 1, e2 \in i .. Len(w) + 1 :
        e1 = L!RunEnd(w, i, Digits) /\ e2 = L!RunEnd(w, i, L!Alnum \cup {"_"})
  <2>1. Nothing \notin Digits /\ Nothing \notin L!Alnum \cup {"_"}
    BY CharactersApart
  <2>2. L!RunEnd(w, i, Digits) \in i .. Len(w) + 1
    BY <1>2, <2>1, RunEndExists
  <2>3. L!RunEnd(w, i, L!Alnum \cup {"_"}) \in i .. Len(w) + 1
    BY <1>2, <2>1, RunEndExists
  <2> QED BY <2>2, <2>3
<1>7. PICK e3 \in i .. Len(w) + 1 : e3 = IF eq THEN i + 2 ELSE i + 1
  BY <1>1, <1>2, <1>4
<1>8. PICK c : c = w[i]
  OBVIOUS
<1>9. CASE c \in Digits
  BY <1>5, <1>6, <1>8, <1>9 DEF TokenCases
<1>10. CASE c \notin Digits /\ c \in Letters \cup {"_"}
  BY <1>5, <1>6, <1>8, <1>10 DEF TokenCases
<1>11. CASE c \notin Digits /\ c \notin Letters \cup {"_"}
  <2>1. /\ c \in OneCharOps => L!LexToken(w, i) = L!Token("op", w, i, a)
        /\ c \in {"<", ">"} => L!LexToken(w, i) = L!Token("op", w, i, e3)
        /\ c \in {"=", "!"} /\ eq => L!LexToken(w, i) = L!Token("op", w, i, b)
        /\ c \notin OneCharOps \cup {"<", ">"} /\ ~(c \in {"=", "!"} /\ eq)
             => L!LexToken(w, i) = L!Token("error", w, i, i)
    BY <1>1, <1>5, <1>7, <1>8, <1>11 DEF TokenCases
  <2> QED BY <1>2, <1>4, <2>1
<1> QED BY <1>9, <1>10, <1>11

\* A token that has a text ends behind its start.
LEMMA TokenMoves ==
  ASSUME NEW C, NEW w \in Seq(C), NEW i \in 1 .. Len(w), L!LexToken(w, i).text # <<>>
  PROVE  L!LexToken(w, i).next \in i + 1 .. Len(w) + 1
<1>1. PICK N \in Nat : N = Len(w)
  OBVIOUS
<1>2. CASE L!StartsRef(w, i)
  <2>1. PICK b \in 1 .. Len(w) + 1 : b = i + 2 /\ L!LexToken(w, i) = RefTo(w, b, NameEnd(w, b))
    BY <1>2, RefToken
  <2>2. PICK e \in b .. Len(w) + 1 : e = NameEnd(w, b)
    BY NameEnds
  <2>3. Nothing \notin {" "}
    BY DEF Nothing
  <2>4. PICK n : n = L!SkipSpaces(w, e)
    OBVIOUS
  <2>5. e \in 1 .. Len(w) + 1
    BY <1>1
  <2>6. n \in e .. Len(w) + 1
    BY <2>3, <2>4, <2>5, RunEndExists DEF L!SkipSpaces
  <2>7. L!LexToken(w, i).next = n
    BY <2>1, <2>2, <2>4 DEF RefTo
  <2> QED BY <1>1, <2>1, <2>6, <2>7
<1>3. CASE ~L!StartsRef(w, i)
  <2>1. PICK e \in i .. Len(w) + 1 : \E k : L!LexToken(w, i) = L!Token(k, w, i, e)
    BY <1>3, TokenEnds
  <2>2. PICK t, k : t = L!LexToken(w, i) /\ t = L!Token(k, w, i, e)
    BY <2>1
  <2>3. t.next = e /\ t.text = SubSeq(w, i, e - 1)
    BY <2>2 DEF L!Token
  <2>4. e # i
    <3> SUFFICES ASSUME e = i PROVE FALSE
      OBVIOUS
    <3>1. SubSeq(w, i, i - 1) = <<>>
      BY <1>1
    <3> QED BY <2>2, <2>3, <3>1
  <2> QED BY <1>1, <2>2, <2>3, <2>4
<1> QED BY <1>2, <1>3

-----------------------------------------------------------------------------
(* All tokens of a text.                                                   *)
TokenOf(w, i) == [kind |-> L!LexToken(w, i).kind, text |-> L!LexToken(w, i).text]
TokensOf(w)   == {TokenOf(w, i) : i \in 1 .. Len(w)}

\* The tokens from place i on, when f has those from later places on.
LexFrom(w, i, f) ==
  IF i > Len(w) THEN <<>>
  ELSE IF w[i] = " " THEN f[i + 1]
  ELSE IF L!LexToken(w, i).text = <<>> THEN <<TokenOf(w, i)>>
  ELSE <<TokenOf(w, i)>> \o f[L!LexToken(w, i).next]

Lexing(w, f) ==
  /\ f \in [1 .. Len(w) + 1 -> Seq(TokensOf(w))]
  /\ \A i \in 1 .. Len(w) + 1 : f[i] = LexFrom(w, i, f)

LEMMA LexLater ==
  ASSUME NEW C, NEW w \in Seq(C), NEW i \in 1 .. Len(w) + 1, NEW f, NEW g,
         \A j \in i + 1 .. Len(w) + 1 : f[j] = g[j]
  PROVE  LexFrom(w, i, f) = LexFrom(w, i, g)
<1>1. PICK N \in Nat : N = Len(w)
  OBVIOUS
<1>2. CASE i > N
  BY <1>1, <1>2 DEF LexFrom
<1>3. CASE i <= N
  <2>1. i \in 1 .. Len(w) /\ i + 1 \in i + 1 .. Len(w) + 1 /\ ~(i > Len(w))
    BY <1>1, <1>3
  <2>2. f[i + 1] = g[i + 1]
    BY <2>1
  <2>3. L!LexToken(w, i).text # <<>> => f[L!LexToken(w, i).next] = g[L!LexToken(w, i).next]
    BY <2>1, TokenMoves
  <2> QED BY <2>1, <2>2, <2>3 DEF LexFrom
<1> QED BY <1>1, <1>2, <1>3

LEMMA LexTyped ==
  ASSUME NEW C, NEW w \in Seq(C), NEW i \in 1 .. Len(w) + 1, NEW f \in [1 .. Len(w) + 1 -> Seq(TokensOf(w))]
  PROVE  LexFrom(w, i, f) \in Seq(TokensOf(w))
<1>1. PICK N \in Nat : N = Len(w)
  OBVIOUS
<1>2. PICK S : S = TokensOf(w)
  OBVIOUS
<1>3. CASE i > N
  <2>1. <<>> \in Seq(S)
    OBVIOUS
  <2> QED BY <1>1, <1>2, <1>3, <2>1 DEF LexFrom
<1>4. CASE i <= N
  <2>1. i \in 1 .. Len(w) /\ i + 1 \in 1 .. Len(w) + 1 /\ ~(i > Len(w))
    BY <1>1, <1>4
  <2>2. f[i + 1] \in Seq(S)
    BY <1>2, <2>1
  <2>3. PICK t \in S : t = TokenOf(w, i)
    BY <1>2, <2>1 DEF TokensOf
  <2>4. <<t>> \in Seq(S)
    BY <2>3
  <2>5. L!LexToken(w, i).text # <<>> => <<t>> \o f[L!LexToken(w, i).next] \in Seq(S)
    <3> SUFFICES ASSUME L!LexToken(w, i).text # <<>>
                 PROVE  <<t>> \o f[L!LexToken(w, i).next] \in Seq(S)
      OBVIOUS
    <3>1. L!LexToken(w, i).next \in i + 1 .. Len(w) + 1
      BY <2>1, TokenMoves
    <3>2. \A x \in i + 1 .. Len(w) + 1 : x \in 1 .. Len(w) + 1
      BY <1>1
    <3>3. PICK rest \in Seq(S) : rest = f[L!LexToken(w, i).next]
      BY <1>2, <3>1, <3>2
    <3> QED BY <2>4, <3>3
  <2> QED BY <1>2, <2>1, <2>2, <2>3, <2>4, <2>5 DEF LexFrom
<1> QED BY <1>1, <1>3, <1>4

\* Right from the last k places on.
LexedFrom(w, f, k) ==
  /\ f \in [1 .. Len(w) + 1 -> Seq(TokensOf(w))]
  /\ \A i \in 1 .. Len(w) + 1 : i > Len(w) + 1 - k => f[i] = LexFrom(w, i, f)

LEMMA LexedOneMore ==
  ASSUME NEW C, NEW w \in Seq(C), NEW k \in 0 .. Len(w), NEW f, LexedFrom(w, f, k)
  PROVE  \E g : LexedFrom(w, g, k + 1)
<1>1. PICK N \in Nat, p \in Nat : N = Len(w) /\ p = N + 1 - k
  OBVIOUS
<1>2. p \in 1 .. Len(w) + 1 /\ k \in Int
  BY <1>1
<1>3. PICK v : v = LexFrom(w, p, f)
  OBVIOUS
<1>4. f \in [1 .. Len(w) + 1 -> Seq(TokensOf(w))]
  BY DEF LexedFrom
<1>5. v \in Seq(TokensOf(w))
  BY <1>2, <1>3, <1>4, LexTyped
<1> DEFINE g == [f EXCEPT ![p] = v]
<1>6. g \in [1 .. Len(w) + 1 -> Seq(TokensOf(w))]
  BY <1>4, <1>5
<1>7. g[p] = v /\ \A j \in 1 .. Len(w) + 1 : j # p => g[j] = f[j]
  BY <1>2, <1>4
<1> HIDE DEF g
<1>8. ASSUME NEW i \in 1 .. Len(w) + 1, i > Len(w) + 1 - (k + 1)
      PROVE  g[i] = LexFrom(w, i, g)
  <2>1. \A j \in i + 1 .. Len(w) + 1 : j \in 1 .. Len(w) + 1 /\ j # p
    BY <1>1, <1>2, <1>8
  <2>2. \A j \in i + 1 .. Len(w) + 1 : g[j] = f[j]
    BY <1>7, <2>1
  <2>3. LexFrom(w, i, g) = LexFrom(w, i, f)
    BY <2>2, LexLater
  <2>4. CASE i = p
    BY <1>3, <1>7, <2>3, <2>4
  <2>5. CASE i # p
    <3>1. i > Len(w) + 1 - k
      BY <1>1, <1>2, <1>8, <2>5
    <3>2. f[i] = LexFrom(w, i, f)
      BY <3>1 DEF LexedFrom
    <3> QED BY <1>7, <2>3, <2>5, <3>2
  <2> QED BY <2>4, <2>5
<1> QED BY <1>6, <1>8 DEF LexedFrom

LEMMA LexingExists ==
  ASSUME NEW C, NEW w \in Seq(C)
  PROVE  \E f : Lexing(w, f) /\ L!Lex(w) = f[1]
<1>1. PICK N \in Nat, K \in Nat : N = Len(w) /\ K = N + 1
  OBVIOUS
<1> DEFINE G == {k \in 0 .. K : \E f : LexedFrom(w, f, k)}
<1>2. 0 \in G
  <2> DEFINE f == [i \in 1 .. Len(w) + 1 |-> <<>>]
  <2>1. f \in [1 .. Len(w) + 1 -> Seq(TokensOf(w))]
    OBVIOUS
  <2> HIDE DEF f
  <2>2. \A i \in 1 .. Len(w) + 1 : ~(i > Len(w) + 1 - 0)
    BY <1>1
  <2>3. LexedFrom(w, f, 0)
    BY <2>1, <2>2 DEF LexedFrom
  <2> QED BY <2>3
<1>3. ASSUME NEW k \in 0 .. K - 1, k \in G
      PROVE  k + 1 \in G
  <2>1. k \in 0 .. Len(w) /\ k + 1 \in 0 .. K
    BY <1>1
  <2>2. PICK f : LexedFrom(w, f, k)
    BY <1>3
  <2>3. \E g : LexedFrom(w, g, k + 1)
    BY <2>1, <2>2, LexedOneMore
  <2> QED BY <2>1, <2>3
<1> HIDE DEF G
<1>4. 0 .. K \subseteq G
  BY <1>2, <1>3, Stepwise
<1>5. K \in G
  BY <1>4
<1>6. PICK g : LexedFrom(w, g, K)
  BY <1>5 DEF G
<1>7. Lexing(w, g)
  <2>1. \A i \in 1 .. Len(w) + 1 : i > Len(w) + 1 - K
    BY <1>1
  <2> QED BY <1>6, <2>1 DEF LexedFrom, Lexing
<1> DEFINE Is(t) == t = [i \in 1 .. Len(w) + 1 |-> LexFrom(w, i, t)]
           f == CHOOSE t : Is(t)
<1>8. Is(g)
  <2>1. g = [i \in 1 .. Len(w) + 1 |-> g[i]]
    BY <1>7 DEF Lexing
  <2>2. \A i \in 1 .. Len(w) + 1 : g[i] = LexFrom(w, i, g)
    BY <1>7 DEF Lexing
  <2> QED BY <2>1, <2>2
<1>9. Is(f)
  <2> HIDE DEF Is
  <2> QED BY <1>8
<1>10. L!Lex(w) = f[1]
  BY DEF L!Lex, LexFrom, TokenOf
<1> HIDE DEF f
<1>11. DOMAIN f = 1 .. Len(w) + 1 /\ \A i \in 1 .. Len(w) + 1 : f[i] = LexFrom(w, i, f)
  BY <1>9
<1>12. f = g
  <2> DEFINE H == {k \in 0 .. K : \A i \in 1 .. K : i > K - k => f[i] = g[i]}
  <2>1. 0 \in H
    <3>1. \A i \in 1 .. K : ~(i > K - 0)
      OBVIOUS
    <3> QED BY <3>1
  <2>2. ASSUME NEW k \in 0 .. K - 1, k \in H
        PROVE  k + 1 \in H
    <3>1. ASSUME NEW i \in 1 .. K, i > K - (k + 1)
          PROVE  f[i] = g[i]
      <4>1. \A j \in i + 1 .. Len(w) + 1 : j \in 1 .. K /\ j > K - k
        BY <1>1, <3>1
      <4>2. \A j \in i + 1 .. Len(w) + 1 : f[j] = g[j]
        BY <2>2, <4>1
      <4>3. i \in 1 .. Len(w) + 1
        BY <1>1
      <4>4. LexFrom(w, i, f) = LexFrom(w, i, g)
        BY <4>2, <4>3, LexLater
      <4> QED BY <1>7, <1>11, <4>3, <4>4 DEF Lexing
    <3> QED BY <3>1
  <2> HIDE DEF H
  <2>3. 0 .. K \subseteq H
    BY <2>1, <2>2, Stepwise
  <2>4. K \in H
    BY <2>3
  <2>5. \A i \in 1 .. K : i > K - K
    OBVIOUS
  <2>6. \A i \in 1 .. Len(w) + 1 : f[i] = g[i]
    BY <1>1, <2>4, <2>5 DEF H
  <2>7. f = [i \in 1 .. Len(w) + 1 |-> f[i]] /\ g = [i \in 1 .. Len(w) + 1 |-> g[i]]
    BY <1>7, <1>9 DEF Lexing
  <2> QED BY <2>6, <2>7
<1> QED BY <1>7, <1>10, <1>12

-----------------------------------------------------------------------------
(* Words that are read as they were written.                               *)
StandsAt(w, i, v) ==
  /\ i >= 1 /\ i + Len(v) <= Len(w) + 1
  /\ \A k \in 1 .. Len(v) : w[i + k - 1] = v[k]

\* The token at i is the text, a reference or not, and ends before e.
ReadsOne(w, i, ref, text, e) ==
  /\ L!LexToken(w, i).text = text
  /\ (L!LexToken(w, i).kind = "ref") = ref
  /\ L!LexToken(w, i).next = e

LEMMA StandingText ==
  ASSUME NEW C, NEW w \in Seq(C), NEW i \in Nat, NEW D, NEW v \in Seq(D), StandsAt(w, i, v)
  PROVE  SubSeq(w, i, i + Len(v) - 1) = v
<1>1. PICK N \in Nat, V \in Nat : N = Len(w) /\ V = Len(v)
  OBVIOUS
<1>2. i >= 1 /\ i + V <= N + 1 /\ \A k \in 1 .. V : w[i + k - 1] = v[k]
  BY <1>1 DEF StandsAt
<1>3. PICK e \in Int : e = i + V - 1
  OBVIOUS
<1>4. e <= N /\ e - i + 1 = V
  BY <1>2, <1>3
<1>5. PICK u : u = SubSeq(w, i, e)
  OBVIOUS
<1>6. u \in Seq(C) /\ Len(u) = V
  BY <1>1, <1>2, <1>3, <1>4, <1>5
<1>7. ASSUME NEW k \in 1 .. V
      PROVE  u[k] = v[k]
  <2>1. u[k] = w[i + k - 1]
    BY <1>1, <1>2, <1>3, <1>4, <1>5
  <2> QED BY <1>2, <2>1
<1>8. u \in Seq(C \cup D) /\ v \in Seq(C \cup D)
  BY <1>6
<1>9. u = v
  BY <1>1, <1>6, <1>7, <1>8, SameSeq
<1> QED BY <1>1, <1>3, <1>5, <1>9

LEMMA TokenReads ==
  ASSUME NEW C, NEW w \in Seq(C), NEW i \in Nat, NEW D, NEW v \in Seq(D), StandsAt(w, i, v),
         NEW k, k # "ref", NEW e \in Nat, e = i + Len(v), L!LexToken(w, i) = L!Token(k, w, i, e)
  PROVE  ReadsOne(w, i, FALSE, v, e)
<1>1. PICK t : t = L!LexToken(w, i) /\ t = L!Token(k, w, i, e)
  OBVIOUS
<1>2. t.kind = k /\ t.next = e /\ t.text = SubSeq(w, i, e - 1)
  BY <1>1 DEF L!Token
<1>3. PICK V \in Nat : V = Len(v)
  OBVIOUS
<1>4. e - 1 = i + Len(v) - 1
  BY <1>3
<1>5. SubSeq(w, i, e - 1) = v
  BY <1>4, StandingText
<1>6. (t.kind = "ref") = FALSE
  BY <1>2
<1> QED BY <1>1, <1>2, <1>5, <1>6 DEF ReadsOne

\* The first character of what stands there, and the one behind it.
LEMMA StandingChars ==
  ASSUME NEW C, NEW w \in Seq(C), NEW i \in Nat, NEW D, NEW v \in Seq(D), v # <<>>, StandsAt(w, i, v)
  PROVE  /\ i \in 1 .. Len(w) /\ w[i] = v[1] /\ v[1] \in D /\ Len(v) \in Nat /\ Len(v) >= 1
         /\ i + Len(v) \in i .. Len(w) + 1
         /\ \A k \in 1 .. Len(v) : i + k - 1 \in 1 .. Len(w) /\ L!At(w, i + k - 1) = v[k] /\ v[k] \in D
<1>1. PICK N \in Nat, V \in Nat : N = Len(w) /\ V = Len(v) /\ V >= 1
  OBVIOUS
<1>2. i >= 1 /\ i + V <= N + 1 /\ \A k \in 1 .. V : w[i + k - 1] = v[k]
  BY <1>1 DEF StandsAt
<1>3. 1 \in 1 .. V /\ i + 1 - 1 = i
  BY <1>1
<1>4. \A k \in 1 .. V : i + k - 1 \in 1 .. N /\ v[k] \in D
  BY <1>1, <1>2
<1>5. \A k \in 1 .. V : L!At(w, i + k - 1) = v[k]
  <2>1. ASSUME NEW k \in 1 .. V
        PROVE  L!At(w, i + k - 1) = v[k]
    <3>1. PICK p : p = i + k - 1 /\ p \in 1 .. Len(w) /\ w[p] = v[k]
      BY <1>1, <1>2, <1>4
    <3>2. L!At(w, p) = w[p]
      BY <3>1, AtIs
    <3> QED BY <3>1, <3>2
  <2> QED BY <2>1
<1>6. w[i] = v[1] /\ v[1] \in D
  BY <1>2, <1>3, <1>4
<1>7. i \in 1 .. N /\ i + V \in i .. N + 1
  BY <1>1, <1>2
<1> QED BY <1>1, <1>4, <1>5, <1>6, <1>7

IdentChars == L!Alnum \cup {"_"}

\* The character at j goes on with no word, and makes no reference of it.
EndsWord(w, j) == L!At(w, j) \notin IdentChars /\ L!At(w, j) # "#"

WithEq(w, j)    == L!At(w, j) = "="
WideStarts      == {"<", ">", "=", "!"}
WithEqual(c)    == <<c, "=">>

LEMMA RunOf ==
  ASSUME NEW C, NEW w \in Seq(C), NEW i \in Nat, NEW D, NEW v \in Seq(D), v # <<>>, StandsAt(w, i, v),
         NEW S, D \subseteq S, L!At(w, i + Len(v)) \notin S
  PROVE  L!RunEnd(w, i, S) = i + Len(v)
<1>1. PICK V \in Nat, e \in Nat : V = Len(v) /\ e = i + V
  OBVIOUS
<1>2. i \in 1 .. Len(w) /\ e \in i .. Len(w) + 1
  BY <1>1, StandingChars
<1>3. \A k \in 1 .. V : v[k] \in S /\ w[i + k - 1] = v[k]
  <2>1. \A k \in 1 .. Len(v) : v[k] \in D
    BY StandingChars
  <2> QED BY <1>1, <2>1 DEF StandsAt
<1>4. ASSUME NEW p \in i .. e - 1
      PROVE  w[p] \in S
  <2>1. PICK k \in 1 .. V : p = i + k - 1
    <3>1. p - i + 1 \in 1 .. V /\ p = i + (p - i + 1) - 1
      BY <1>1
    <3> QED BY <3>1
  <2> QED BY <1>3, <2>1
<1>5. RunsTo(w, i, S, e)
  BY <1>1, <1>4 DEF RunsTo
<1>6. i \in 1 .. Len(w) + 1
  BY <1>2
<1> QED BY <1>1, <1>2, <1>5, <1>6, RunEndIs

LEMMA NoReference ==
  ASSUME NEW C, NEW w \in Seq(C), NEW i \in 1 .. Len(w), w[i] # "A" \/ L!At(w, i + 1) # "#"
  PROVE  ~L!StartsRef(w, i)
<1>1. L!At(w, i) = w[i]
  BY AtIs
<1> QED BY <1>1 DEF L!StartsRef

LEMMA NumberReads ==
  ASSUME NEW C, NEW w \in Seq(C), NEW i \in Nat, NEW v \in Seq(Digits), v # <<>>, StandsAt(w, i, v),
         L!At(w, i + Len(v)) \notin Digits
  PROVE  ReadsOne(w, i, FALSE, v, i + Len(v))
<1>1. i \in 1 .. Len(w) /\ w[i] \in Digits
  BY StandingChars
<1>2. w[i] # "A"
  BY <1>1, CharactersApart
<1>3. TokenCases(w, i, w[i], L!At(w, i + 1) = "=")
  BY <1>1, <1>2, NoReference, TokenKinds
<1>4. L!LexToken(w, i) = L!Token("num", w, i, L!RunEnd(w, i, Digits))
  BY <1>1, <1>3 DEF TokenCases
<1>5. L!RunEnd(w, i, Digits) = i + Len(v)
  BY RunOf
<1>6. PICK e \in Nat : e = i + Len(v)
  OBVIOUS
<1>7. L!LexToken(w, i) = L!Token("num", w, i, e)
  BY <1>4, <1>5, <1>6
<1>8. ReadsOne(w, i, FALSE, v, e)
  BY <1>6, <1>7, TokenReads
<1> QED BY <1>6, <1>8

LEMMA FunctionReads ==
  ASSUME NEW C, NEW w \in Seq(C), NEW i \in Nat, NEW v \in Seq(Letters), v # <<>>, StandsAt(w, i, v),
         EndsWord(w, i + Len(v))
  PROVE  ReadsOne(w, i, FALSE, v, i + Len(v))
<1>1. i \in 1 .. Len(w) /\ w[i] \in Letters
  BY StandingChars
<1>2. L!At(w, i + 1) # "#"
  <2>1. PICK V \in Nat : V = Len(v) /\ V >= 1
    BY StandingChars
  <2>2. CASE V = 1
    BY <2>1, <2>2 DEF EndsWord
  <2>3. CASE V # 1
    <3>1. PICK two \in Int : two = 2 /\ two \in 1 .. Len(v) /\ i + two - 1 = i + 1
      BY <2>1, <2>3
    <3>2. L!At(w, i + two - 1) = v[two] /\ v[two] \in Letters
      BY <3>1, StandingChars
    <3>3. "#" \notin Letters
      BY CharactersApart
    <3> QED BY <3>1, <3>2, <3>3
  <2> QED BY <2>2, <2>3
<1>3. TokenCases(w, i, w[i], L!At(w, i + 1) = "=")
  BY <1>1, <1>2, NoReference, TokenKinds
<1>4. w[i] \notin Digits
  BY <1>1, CharactersApart
<1>5. L!LexToken(w, i) = L!Token("ident", w, i, L!RunEnd(w, i, IdentChars))
  BY <1>1, <1>3, <1>4 DEF TokenCases, IdentChars
<1>6. L!RunEnd(w, i, IdentChars) = i + Len(v)
  <2>1. Letters \subseteq IdentChars
    BY CharactersApart DEF IdentChars
  <2>2. L!At(w, i + Len(v)) \notin IdentChars
    BY DEF EndsWord
  <2> QED BY <2>1, <2>2, RunOf
<1>7. PICK e \in Nat : e = i + Len(v)
  OBVIOUS
<1>8. L!LexToken(w, i) = L!Token("ident", w, i, e)
  BY <1>5, <1>6, <1>7
<1>9. ReadsOne(w, i, FALSE, v, e)
  BY <1>7, <1>8, TokenReads
<1> QED BY <1>7, <1>9

LEMMA SignCases ==
  ASSUME NEW C, NEW w \in Seq(C), NEW i \in 1 .. Len(w), w[i] \in Signs \cup {"=", "!"}
  PROVE  /\ w[i] \notin Digits /\ w[i] \notin Letters \cup {"_"}
         /\ TokenCases(w, i, w[i], WithEq(w, i + 1))
<1>1. w[i] \notin Digits /\ w[i] \notin Letters \cup {"_"} /\ w[i] # "A"
  BY CharactersApart
<1>2. TokenCases(w, i, w[i], WithEq(w, i + 1))
  BY <1>1, NoReference, TokenKinds DEF WithEq
<1> QED BY <1>1, <1>2

LEMMA SignReads ==
  ASSUME NEW C, NEW w \in Seq(C), NEW i \in Nat, NEW t \in Signs, StandsAt(w, i, <<t>>),
         t \in OneCharOps \/ ~WithEq(w, i + 1)
  PROVE  ReadsOne(w, i, FALSE, <<t>>, i + 1)
<1>1. PICK v \in Seq({t}) : v = <<t>> /\ v # <<>> /\ Len(v) = 1 /\ v[1] = t /\ StandsAt(w, i, v)
  <2>1. <<t>> \in Seq({t}) /\ <<t>> # <<>> /\ Len(<<t>>) = 1 /\ <<t>>[1] = t
    OBVIOUS
  <2> QED BY <2>1
<1>2. i \in 1 .. Len(w) /\ w[i] = t
  BY <1>1, StandingChars, ZenonT(30)
<1>3. t \in Signs \cup {"=", "!"}
  OBVIOUS
<1>4. t \notin Digits /\ t \notin Letters \cup {"_"} /\ TokenCases(w, i, t, WithEq(w, i + 1))
  BY <1>2, <1>3, SignCases
<1>5. t \in OneCharOps \/ t \in {"<", ">"}
  BY DEF Signs, OneCharOps
<1>6. PICK e \in Nat : e = i + 1 /\ e = i + Len(v)
  BY <1>1
<1>7. L!LexToken(w, i) = L!Token("op", w, i, e)
  <2>1. CASE t \in OneCharOps
    BY <1>4, <1>6, <2>1 DEF TokenCases
  <2>2. CASE t \in {"<", ">"} /\ ~WithEq(w, i + 1)
    BY <1>4, <1>6, <2>2 DEF TokenCases
  <2> QED BY <1>5, <2>1, <2>2
<1>8. ReadsOne(w, i, FALSE, v, e)
  BY <1>1, <1>6, <1>7, TokenReads
<1> QED BY <1>1, <1>6, <1>8

LEMMA WideSignReads ==
  ASSUME NEW C, NEW w \in Seq(C), NEW i \in Nat, NEW c \in WideStarts, StandsAt(w, i, WithEqual(c))
  PROVE  ReadsOne(w, i, FALSE, WithEqual(c), i + 2)
<1>1. PICK b : b = "="
  OBVIOUS
<1>2. PICK v \in Seq({c, b}) : v = WithEqual(c) /\ v # <<>> /\ Len(v) = 2 /\ v[1] = c /\ v[2] = b /\ StandsAt(w, i, v)
  <2>1. <<c, b>> \in Seq({c, b}) /\ <<c, b>> # <<>> /\ Len(<<c, b>>) = 2 /\ <<c, b>>[1] = c /\ <<c, b>>[2] = b
    OBVIOUS
  <2>2. WithEqual(c) = <<c, b>>
    BY <1>1 DEF WithEqual
  <2> QED BY <2>1, <2>2
<1>3. i \in 1 .. Len(w) /\ w[i] = c
  BY <1>2, StandingChars
<1>4. WithEq(w, i + 1)
  <2>1. PICK two \in Int : two = 2 /\ two \in 1 .. Len(v) /\ i + two - 1 = i + 1 /\ v[two] = b
    BY <1>2
  <2>2. L!At(w, i + two - 1) = v[two]
    BY <1>2, <2>1, StandingChars
  <2> QED BY <1>1, <2>1, <2>2 DEF WithEq
<1>5. c \in Signs \cup {"=", "!"}
  BY DEF Signs, WideStarts
<1>6. c \notin Digits /\ c \notin Letters \cup {"_"} /\ TokenCases(w, i, c, WithEq(w, i + 1))
  BY <1>3, <1>5, SignCases
<1>7. PICK e \in Nat : e = i + 2 /\ e = i + Len(v)
  BY <1>2
<1>8. c \in {"<", ">"} \/ c \in {"=", "!"}
  BY DEF WideStarts
<1>9. L!LexToken(w, i) = L!Token("op", w, i, e)
  BY <1>4, <1>6, <1>7, <1>8 DEF TokenCases
<1>10. ReadsOne(w, i, FALSE, v, e)
  BY <1>2, <1>7, <1>9, TokenReads
<1> QED BY <1>2, <1>7, <1>10

-----------------------------------------------------------------------------
(* References.  The rules of member names, a character at a time.          *)
IsSpace(c)  == c = " "
IsHyphen(c) == c = "-"
IsSharp(c)  == c = "#"

NameRules(n) ==
  /\ Len(n) >= 1 /\ n[1] \in L!NameWord /\ ~IsSpace(n[Len(n)])
  /\ \A k \in 1 .. Len(n) : n[k] \in L!NameWord \/ IsSpace(n[k]) \/ IsHyphen(n[k])
  /\ \A k \in 1 .. Len(n) : IsHyphen(n[k]) =>
       k # 1 /\ k # Len(n) /\ ~IsSpace(n[k - 1]) /\ ~IsSpace(n[k + 1])

Apart(n) == \A k \in 1 .. Len(n) - 1 : ~IsHyphen(n[k]) \/ ~IsHyphen(n[k + 1])

RefWord(n) == <<"A", "#">> \o n

LEMMA ValidNames ==
  ASSUME NEW D, NEW n \in Seq(D), L!ValidMemberName(n)
  PROVE  n # <<>> /\ NameRules(n) /\ (L!HyphensApart(n) <=> Apart(n))
<1>1. DOMAIN n = 1 .. Len(n) /\ (n # <<>> => Len(n) >= 1)
  OBVIOUS
<1>2. n # <<>> /\ n[1] \in L!NameWord /\ ~IsSpace(n[Len(n)])
  BY DEF L!ValidMemberName, L!NameWord, IsSpace
<1>3. \A k \in 1 .. Len(n) : n[k] \in L!NameWord \/ IsSpace(n[k]) \/ IsHyphen(n[k])
  BY <1>1 DEF L!ValidMemberName, IsSpace, IsHyphen
<1>4. \A k \in 1 .. Len(n) : IsHyphen(n[k]) =>
        k # 1 /\ k # Len(n) /\ ~IsSpace(n[k - 1]) /\ ~IsSpace(n[k + 1])
  BY <1>1 DEF L!ValidMemberName, IsSpace, IsHyphen
<1>5. L!HyphensApart(n) <=> Apart(n)
  BY DEF L!HyphensApart, Apart, IsHyphen
<1> QED BY <1>1, <1>2, <1>3, <1>4, <1>5 DEF NameRules

LEMMA KindsApart ==
  ASSUME NEW c
  PROVE  /\ c \in L!NameWord => ~IsSpace(c) /\ ~IsHyphen(c) /\ ~IsSharp(c)
         /\ IsSpace(c) => ~IsHyphen(c) /\ ~IsSharp(c)
         /\ IsHyphen(c) => ~IsSharp(c)
<1>1. c \in L!NameWord => c # " " /\ c # "-" /\ c # "#"
  <2>1. "-" \in Signs
    BY DEF Signs
  <2> QED BY <2>1, CharactersApart
<1> QED BY <1>1 DEF IsSpace, IsHyphen, IsSharp

LEMMA ContinuesIs ==
  ASSUME NEW w, NEW st, NEW j
  PROVE  L!Continues(w, st, j) <=>
           \/ L!At(w, j) \in L!NameWord
           \/ IsSpace(L!At(w, j)) /\ L!At(w, L!SkipSpaces(w, j)) \in L!NameWord
           \/ IsHyphen(L!At(w, j)) /\ j > st /\ L!At(w, j + 1) \in L!NameWord /\ ~L!StartsRef(w, j + 1)
BY DEF L!Continues, IsSpace, IsHyphen

\* Spaces inside of a name go up to a word.
LEMMA SpacesInName ==
  ASSUME NEW C, NEW w \in Seq(C), NEW st \in Nat, NEW D, NEW n \in Seq(D), n # <<>>, NameRules(n),
         StandsAt(w, st, n), NEW x \in 1 .. Len(n), IsSpace(n[x])
  PROVE  L!At(w, L!SkipSpaces(w, st + x - 1)) \in L!NameWord
<1>1. PICK V \in Nat : V = Len(n)
  OBVIOUS
<1> DEFINE S == {k \in 1 .. V : ~IsSpace(n[k])}
<1>2. V \in S /\ x \in Nat /\ x <= V
  BY <1>1 DEF NameRules
<1>3. PICK y \in x .. V : y \in S /\ \A k \in x .. y - 1 : k \notin S
  <2> HIDE DEF S
  <2> QED BY <1>2, FirstPlace
<1>4. \A k \in x .. y - 1 : k \in 1 .. V /\ IsSpace(n[k])
  BY <1>1, <1>3
<1>5. y # x
  BY <1>3
<1>6. y - 1 \in x .. y - 1 /\ y \in 1 .. V
  BY <1>2, <1>3, <1>5
<1>7. n[y] \in L!NameWord
  <2>1. IsSpace(n[y - 1]) /\ ~IsSpace(n[y])
    BY <1>3, <1>4, <1>6
  <2> QED BY <1>1, <1>6, <2>1 DEF NameRules
<1>8. PICK p \in Nat, e \in Nat : p = st + x - 1 /\ e = st + y - 1
  BY <1>6
<1>9. \A k \in 1 .. V : st + k - 1 \in 1 .. Len(w) /\ L!At(w, st + k - 1) = n[k]
  BY <1>1, StandingChars
<1>10. p \in 1 .. Len(w) + 1 /\ e \in p .. Len(w) + 1 /\ L!At(w, e) = n[y]
  <2>1. p \in 1 .. Len(w) /\ e \in 1 .. Len(w)
    BY <1>1, <1>6, <1>8, <1>9
  <2>2. p <= e
    BY <1>3, <1>8
  <2> QED BY <1>6, <1>8, <1>9, <2>1, <2>2
<1>11. ASSUME NEW q \in p .. e - 1
       PROVE  w[q] \in {" "}
  <2>1. PICK k \in x .. y - 1 : q = st + k - 1
    <3>1. q - st + 1 \in x .. y - 1 /\ q = st + (q - st + 1) - 1
      BY <1>8
    <3> QED BY <3>1
  <2>2. k \in 1 .. V /\ IsSpace(n[k])
    BY <1>4
  <2>3. w[q] = n[k]
    BY <1>1, <2>1, <2>2 DEF StandsAt
  <2> QED BY <2>2, <2>3 DEF IsSpace
<1>12. L!At(w, e) \notin {" "}
  BY <1>3, <1>10 DEF IsSpace
<1>13. RunsTo(w, p, {" "}, e)
  BY <1>11, <1>12 DEF RunsTo
<1>14. L!SkipSpaces(w, p) = e
  BY <1>10, <1>13, RunEndIs DEF L!SkipSpaces
<1> QED BY <1>7, <1>8, <1>10, <1>14

LEMMA HyphenInName ==
  ASSUME NEW C, NEW w \in Seq(C), NEW st \in Nat, NEW D, NEW n \in Seq(D), n # <<>>, NameRules(n), Apart(n),
         StandsAt(w, st, n), ~IsSharp(L!At(w, st + Len(n))), NEW x \in 1 .. Len(n), IsHyphen(n[x])
  PROVE  x > 1 /\ L!At(w, st + x) \in L!NameWord /\ ~L!StartsRef(w, st + x)
<1>1. PICK V \in Nat : V = Len(n)
  OBVIOUS
<1>2. x # 1 /\ x # V /\ ~IsSpace(n[x + 1])
  BY <1>1 DEF NameRules
<1>3. PICK y \in 2 .. V : y = x + 1 /\ x \in 1 .. V - 1
  BY <1>1, <1>2
<1>4. \A k \in 1 .. V : L!At(w, st + k - 1) = n[k]
  BY <1>1, StandingChars
<1>5. y \in 1 .. V /\ st + y - 1 = st + x
  BY <1>3
<1>6. n[y] \in L!NameWord
  <2>1. ~IsHyphen(n[x + 1])
    BY <1>1, <1>3 DEF Apart
  <2> QED BY <1>1, <1>2, <1>3, <1>5, <2>1 DEF NameRules
<1>7. L!At(w, st + x) = n[y]
  BY <1>4, <1>5
<1>8. ~IsSharp(L!At(w, st + x + 1))
  <2>1. CASE y = V
    BY <1>1, <1>3, <2>1
  <2>2. CASE y # V
    <3>1. PICK z \in 1 .. V : z = y + 1 /\ st + z - 1 = st + x + 1
      BY <1>3, <2>2
    <3>2. L!At(w, st + x + 1) = n[z]
      BY <1>4, <3>1
    <3>3. ~IsSharp(n[z])
      BY <1>1, <3>1, KindsApart DEF NameRules
    <3> QED BY <3>2, <3>3
  <2> QED BY <2>1, <2>2
<1>9. ~L!StartsRef(w, st + x)
  BY <1>8 DEF L!StartsRef, IsSharp
<1> QED BY <1>2, <1>6, <1>7, <1>9

LEMMA NameContinues ==
  ASSUME NEW C, NEW w \in Seq(C), NEW st \in Nat, NEW D, NEW n \in Seq(D), n # <<>>, NameRules(n), Apart(n),
         StandsAt(w, st, n), ~IsSharp(L!At(w, st + Len(n))), NEW x \in 1 .. Len(n)
  PROVE  L!Continues(w, st, st + x - 1)
<1>1. PICK p \in Nat : p = st + x - 1 /\ p + 1 = st + x
  BY StandingChars
<1>2. L!At(w, p) = n[x]
  BY <1>1, StandingChars
<1>3. CASE n[x] \in L!NameWord
  BY <1>1, <1>2, <1>3, ContinuesIs
<1>4. CASE IsSpace(n[x])
  <2>1. L!At(w, L!SkipSpaces(w, p)) \in L!NameWord
    BY <1>1, <1>4, SpacesInName
  <2> QED BY <1>1, <1>2, <1>4, <2>1, ContinuesIs
<1>5. CASE IsHyphen(n[x])
  <2>1. x > 1 /\ L!At(w, p + 1) \in L!NameWord /\ ~L!StartsRef(w, p + 1)
    BY <1>1, <1>5, HyphenInName
  <2>2. p > st
    BY <1>1, <2>1
  <2> QED BY <1>1, <1>2, <1>5, <2>1, <2>2, ContinuesIs
<1>6. n[x] \in L!NameWord \/ IsSpace(n[x]) \/ IsHyphen(n[x])
  BY DEF NameRules
<1> QED BY <1>3, <1>4, <1>5, <1>6

LEMMA RefStands ==
  ASSUME NEW C, NEW w \in Seq(C), NEW i \in Nat, NEW D, NEW n \in Seq(D), n # <<>>, StandsAt(w, i, RefWord(n))
  PROVE  /\ StandsAt(w, i + 2, n) /\ L!StartsRef(w, i) /\ i \in 1 .. Len(w)
         /\ i + 2 \in 1 .. Len(w) + 1 /\ Len(RefWord(n)) = Len(n) + 2
<1>1. PICK a, b : a = "A" /\ b = "#"
  OBVIOUS
<1>2. PICK ab \in Seq({a, b}) : ab = <<a, b>> /\ Len(ab) = 2 /\ ab[1] = a /\ ab[2] = b
  <2>1. <<a, b>> \in Seq({a, b}) /\ Len(<<a, b>>) = 2 /\ <<a, b>>[1] = a /\ <<a, b>>[2] = b
    OBVIOUS
  <2> QED BY <2>1
<1>3. PICK E : E = D \cup {a, b}
  OBVIOUS
<1>4. ab \in Seq(E) /\ n \in Seq(E)
  BY <1>3
<1>5. PICK v \in Seq(E) : v = ab \o n /\ v = RefWord(n)
  <2>1. ab \o n \in Seq(E)
    BY <1>4
  <2>2. ab \o n = RefWord(n)
    BY <1>1, <1>2 DEF RefWord
  <2> QED BY <2>1, <2>2
<1>6. PICK N \in Nat, V \in Nat : N = Len(w) /\ V = Len(n) /\ V >= 1
  OBVIOUS
<1>7. Len(v) = V + 2 /\ v[1] = a /\ v[2] = b /\ \A k \in 1 .. V : v[k + 2] = n[k]
  BY <1>2, <1>4, <1>5, <1>6
<1>8. i >= 1 /\ i + (V + 2) <= N + 1 /\ \A k \in 1 .. V + 2 : w[i + k - 1] = v[k]
  BY <1>5, <1>6, <1>7 DEF StandsAt
<1>9. ASSUME NEW k \in 1 .. V
      PROVE  w[i + 2 + k - 1] = n[k]
  <2>1. PICK m \in 1 .. V + 2 : m = k + 2 /\ i + m - 1 = i + 2 + k - 1
    OBVIOUS
  <2> QED BY <1>7, <1>8, <2>1
<1>10. i + 2 >= 1 /\ i + 2 + V <= N + 1
  BY <1>8
<1>11. StandsAt(w, i + 2, n)
  BY <1>6, <1>9, <1>10 DEF StandsAt
<1>12. w[i] = a /\ w[i + 1] = b
  <2>1. PICK one \in 1 .. V + 2, two \in 1 .. V + 2 : one = 1 /\ two = 2 /\ i + one - 1 = i /\ i + two - 1 = i + 1
    <3>1. 1 \in 1 .. V + 2 /\ 2 \in 1 .. V + 2 /\ i + 1 - 1 = i /\ i + 2 - 1 = i + 1
      OBVIOUS
    <3> QED BY <3>1
  <2> QED BY <1>7, <1>8, <2>1
<1>13. i \in 1 .. N /\ i + 1 \in 1 .. N /\ i + 2 \in 1 .. N + 1
  BY <1>6, <1>8
<1>14. L!At(w, i) = a /\ L!At(w, i + 1) = b
  BY <1>6, <1>12, <1>13, AtIs
<1>15. L!StartsRef(w, i)
  BY <1>1, <1>14 DEF L!StartsRef
<1>16. Len(RefWord(n)) = Len(n) + 2
  BY <1>5, <1>6, <1>7
<1> QED BY <1>6, <1>11, <1>13, <1>15, <1>16

\* A reference is read if the text behind its name does not go on with it.
LEMMA ReferenceReads ==
  ASSUME NEW C, NEW w \in Seq(C), NEW i \in Nat, NEW D, NEW n \in Seq(D), n # <<>>, NameRules(n), Apart(n),
         StandsAt(w, i, RefWord(n)), NEW e \in Nat, e = i + 2 + Len(n),
         ~L!Continues(w, i + 2, e), ~IsSharp(L!At(w, e))
  PROVE  ReadsOne(w, i, TRUE, n, L!SkipSpaces(w, e))
<1>1. PICK st \in Nat, V \in Nat : st = i + 2 /\ V = Len(n) /\ e = st + V
  OBVIOUS
<1>2. StandsAt(w, st, n) /\ L!StartsRef(w, i) /\ i \in 1 .. Len(w) /\ st \in 1 .. Len(w) + 1
  BY <1>1, RefStands
<1>3. ASSUME NEW k \in st .. e - 1
      PROVE  L!Continues(w, st, k)
  <2>1. PICK x \in 1 .. V : k = st + x - 1
    <3>1. k - st + 1 \in 1 .. V /\ k = st + (k - st + 1) - 1
      BY <1>1
    <3> QED BY <3>1
  <2> QED BY <1>1, <1>2, <2>1, NameContinues
<1>4. NameTo(w, st, e)
  BY <1>1, <1>3 DEF NameTo
<1>5. e \in st .. Len(w) + 1
  BY <1>1, <1>2, StandingChars
<1>6. NameEnd(w, st) = e
  BY <1>2, <1>4, <1>5, NameEndIs
<1>7. L!LexToken(w, i) = RefTo(w, st, e)
  BY <1>1, <1>2, <1>6, RefToken
<1>8. SubSeq(w, st, e - 1) = n
  BY <1>1, <1>2, StandingText
<1>9. L!FromWord(n) = n
  <2>1. PICK one \in Nat : one = 1 /\ one \in 1 .. Len(n) /\ one \in 1 .. Len(n) + 1 /\ one \in one .. Len(n) + 1
    BY <1>1 DEF NameRules
  <2>2. L!At(n, one) = n[1]
    BY <2>1, AtIs
  <2>3. n[1] \notin {" "}
    BY KindsApart DEF NameRules, IsSpace
  <2>4. \A k \in one .. one - 1 : FALSE
    BY <2>1
  <2>5. RunsTo(n, one, {" "}, one)
    BY <2>2, <2>3, <2>4 DEF RunsTo
  <2>6. L!SkipSpaces(n, one) = one
    BY <2>1, <2>5, RunEndIs DEF L!SkipSpaces
  <2>7. SubSeq(n, 1, Len(n)) = n
    OBVIOUS
  <2> QED BY <2>1, <2>6, <2>7 DEF L!FromWord
<1>10. PICK t : t = L!LexToken(w, i) /\ t = RefTo(w, st, e)
  BY <1>7
<1>11. t.text = L!FromWord(SubSeq(w, st, e - 1)) /\ t.kind = "ref" /\ t.next = L!SkipSpaces(w, e)
  BY <1>10 DEF RefTo
<1>12. t.text = n
  BY <1>8, <1>9, <1>11
<1>13. (t.kind = "ref") = TRUE
  BY <1>11
<1> QED BY <1>10, <1>11, <1>12, <1>13 DEF ReadsOne

\* A name with two hyphens in a row is not read to its end.
LEMMA DoubleHyphenStops ==
  ASSUME NEW C, NEW w \in Seq(C), NEW i \in Nat, NEW D, NEW n \in Seq(D), n # <<>>, NameRules(n), ~Apart(n),
         StandsAt(w, i, RefWord(n))
  PROVE  L!LexToken(w, i).text # n
<1>1. PICK st \in Nat, V \in Nat, N \in Nat : st = i + 2 /\ V = Len(n) /\ N = Len(w)
  <2>1. i + 2 \in Nat /\ Len(n) \in Nat /\ Len(w) \in Nat
    OBVIOUS
  <2> QED BY <2>1
<1>2. StandsAt(w, st, n) /\ L!StartsRef(w, i) /\ i \in 1 .. Len(w) /\ st \in 1 .. Len(w) + 1
  BY <1>1, RefStands
<1>3. PICK x \in 1 .. V - 1 : IsHyphen(n[x]) /\ IsHyphen(n[x + 1])
  BY <1>1 DEF Apart
<1>4. \A k \in 1 .. V : st + k - 1 \in 1 .. N /\ L!At(w, st + k - 1) = n[k]
  BY <1>1, <1>2, StandingChars
<1>5. PICK p \in Nat, y \in Nat : p = st + x - 1 /\ y = x + 1 /\ st + y - 1 = p + 1 /\ x \in 1 .. V /\ y \in 1 .. V
  <2>1. st + x - 1 \in Nat /\ x + 1 \in Nat /\ st + (x + 1) - 1 = (st + x - 1) + 1 /\ x \in 1 .. V /\ x + 1 \in 1 .. V
    OBVIOUS
  <2> QED BY <2>1
<1>6. L!At(w, p) = n[x] /\ L!At(w, p + 1) = n[y]
  BY <1>4, <1>5
<1>7. ~L!Continues(w, st, p)
  BY <1>3, <1>5, <1>6, KindsApart, ContinuesIs
<1>8. p \in st .. Len(w) + 1
  <2>1. st + x - 1 \in 1 .. N
    BY <1>4, <1>5
  <2>2. p \in 1 .. N /\ st <= p
    BY <1>5, <2>1
  <2> QED BY <1>1, <2>2
<1>9. PICK e \in st .. Len(w) + 1 : e = NameEnd(w, st) /\ e <= p
  <2>1. NameEnd(w, st) \in st .. Len(w) + 1
    BY <1>2, NameEnds
  <2>2. NameEnd(w, st) <= p
    BY <1>2, <1>7, <1>8, NameStops
  <2> QED BY <2>1, <2>2
<1>10. PICK u : u = SubSeq(w, st, e - 1)
  OBVIOUS
<1>11. u \in Seq(C) /\ Len(u) < V
  <2>1. e \in Nat /\ e - st < V /\ e - 1 <= N /\ e >= st /\ 1 <= st
    BY <1>1, <1>2, <1>5, <1>9
  <2>2. u \in Seq(C) /\ Len(u) = e - st
    BY <1>1, <1>10, <2>1
  <2> QED BY <2>1, <2>2
<1>12. Len(L!FromWord(u)) < V
  <2>1. PICK U \in Nat, one \in Nat : U = Len(u) /\ one = 1 /\ one \in 1 .. Len(u) + 1
    BY <1>11
  <2>2. Nothing \notin {" "}
    BY DEF Nothing
  <2>3. PICK a \in 1 .. U + 1 : a = L!SkipSpaces(u, one)
    BY <1>11, <2>1, <2>2, RunEndExists DEF L!SkipSpaces
  <2>4. Len(SubSeq(u, a, U)) <= U
    BY <1>11, <2>1, <2>3
  <2>5. L!FromWord(u) = SubSeq(u, a, U)
    BY <2>1, <2>3 DEF L!FromWord
  <2>6. Len(SubSeq(u, a, U)) \in Nat
    BY <1>11, <2>1, <2>3
  <2> QED BY <1>11, <2>1, <2>4, <2>5, <2>6
<1>13. L!LexToken(w, i) = RefTo(w, st, e)
  BY <1>1, <1>2, <1>9, RefToken
<1>14. PICK t : t = L!LexToken(w, i) /\ t = RefTo(w, st, e)
  BY <1>13
<1>15. t.text = L!FromWord(u)
  BY <1>10, <1>14 DEF RefTo
<1>16. L!FromWord(u) # n
  BY <1>1, <1>12
<1> QED BY <1>14, <1>15, <1>16

-----------------------------------------------------------------------------
(* Words and what follows them in a formula.                               *)
WideCmps == {"<=", ">=", "==", "!="}
Tokens   == Numbers \cup Accounts \cup Funcs \cup Signs \cup WideCmps
Marks    == Signs \cup {"=", "!", Nothing}

NamesLegal(names) == \A a \in Accounts : IsText(names[a]) /\ L!ValidMemberName(names[a])

LEMMA SignsAndCmps ==
  /\ Between \cup {")"} \subseteq Signs \cup WideCmps
  /\ Between = {"+", "-", "*", "/", "<", "<=", ">", ">=", "==", "!=", ","}
  /\ \A t \in WideCmps : \E c \in WideStarts : Spelling[t] = WithEqual(c)
<1>1. Levels[1] = {"+", "-"} /\ Levels[2] = {"*", "/"}
  BY DEF Levels
<1>2. Between = {"+", "-", "*", "/", "<", "<=", ">", ">=", "==", "!=", ","}
  BY <1>1 DEF Between, Cmps
<1>3. Between \cup {")"} \subseteq Signs \cup WideCmps
  BY <1>2 DEF Signs, WideCmps
<1>4. /\ Spelling["<="] = WithEqual("<") /\ Spelling[">="] = WithEqual(">")
      /\ Spelling["=="] = WithEqual("=") /\ Spelling["!="] = WithEqual("!")
  BY SpellingAssumption DEF WithEqual
<1>5. "<" \in WideStarts /\ ">" \in WideStarts /\ "=" \in WideStarts /\ "!" \in WideStarts
  BY DEF WideStarts
<1>6. \A t \in WideCmps : \E c \in WideStarts : Spelling[t] = WithEqual(c)
  BY <1>4, <1>5 DEF WideCmps
<1> QED BY <1>2, <1>3, <1>6

\* No account is another token, nor is a number.
LEMMA TokensApart ==
  \A t \in Accounts \cup Numbers : t \notin Funcs /\ t \notin Between /\ t \notin {"(", ")", "-"} /\ t \notin Signs
                                /\ t \notin WideCmps
<1>1. \A t \in Accounts \cup Numbers : t \notin Funcs \cup Cmps \cup Operators \cup Punctuation
  BY TokensAssumption
<1>2. Levels[1] = {"+", "-"} /\ Levels[2] = {"*", "/"}
  BY DEF Levels
<1>3. Between \cup {"(", ")", "-"} \cup Signs \cup WideCmps \subseteq Funcs \cup Cmps \cup Operators \cup Punctuation
  BY <1>2 DEF Between, Signs, WideCmps, Cmps, Operators, Punctuation
<1> QED BY <1>1, <1>3

LEMMA FollowersAre ==
  ASSUME NEW t, NEW u, MayFollow(t, u)
  PROVE  /\ t \in Tokens /\ (t \in Numbers \cup Accounts => u \in Between \cup {")"})
         /\ t \in Funcs => u = "("
         /\ t \in {"<", ">", "-"} => u \in Starts
<1>1. /\ \A x \in Funcs : x \notin Between /\ x \notin {"(", ")"}
      /\ \A x \in {"<", ">", "-"} : x \notin Funcs /\ x # ")"
  BY SignsAndCmps DEF Funcs
<1>2. t \in Funcs => t \notin Ends /\ t \notin Between \cup {"("}
  BY <1>1, TokensApart DEF Ends
<1>3. t \in {"<", ">", "-"} => t \notin Ends /\ t \notin Funcs
  BY <1>1, TokensApart, SignsAndCmps DEF Ends
<1>4. t \in Numbers \cup Accounts => t \notin Funcs /\ t \notin Between \cup {"("}
  BY TokensApart
<1>5. t \in Tokens
  <2>1. Ends \cup Funcs \cup Between \cup {"("} \subseteq Tokens
    BY SignsAndCmps DEF Ends, Tokens, Signs
  <2> QED BY <2>1 DEF MayFollow
<1> QED BY <1>2, <1>3, <1>4, <1>5 DEF MayFollow

\* What a word starts with.
FirstRight(t, v) ==
  /\ IsText(v) /\ v # <<>>
  /\ t \in Accounts => v[1] = "A"
  /\ t \in Numbers => v[1] \in Digits
  /\ t \in Funcs => v[1] \in Letters
  /\ t \in Signs => v[1] = t
  /\ t \in WideCmps => v[1] \in WideStarts

LEMMA WordStarts ==
  ASSUME NEW names, NamesLegal(names), NEW t \in Tokens
  PROVE  /\ FirstRight(t, Word(names, t))
         /\ t \notin Accounts => Word(names, t) = Spelling[t]
         /\ t \in Accounts => Word(names, t) = RefWord(names[t])
<1>1. t \in Accounts => Word(names, t) = RefWord(names[t])
  BY DEF Word, RefWord
<1>2. t \notin Accounts => Word(names, t) = Spelling[t]
  BY DEF Word
<1>3. ASSUME NEW D, NEW v \in Seq(D), v # <<>>
      PROVE  IsText(v) /\ v[1] \in D
  <2>1. v[1] \in D
    BY <1>3
  <2> QED BY <2>1, SeqIsText
<1>4. PICK v : v = Word(names, t)
  OBVIOUS
<1>5. CASE t \in Accounts
  <2>1. PICK n : n = names[t] /\ IsText(n)
    BY <1>5 DEF NamesLegal
  <2>2. PICK a, b : a = "A" /\ b = "#"
    OBVIOUS
  <2>3. PICK E : E = Listed(n) \cup {a, b}
    OBVIOUS
  <2>4. n \in Seq(E)
    BY <2>1, <2>3 DEF IsText
  <2>5. <<a, b>> \in Seq(E) /\ Len(<<a, b>>) = 2 /\ <<a, b>>[1] = a
    BY <2>3
  <2>6. PICK ab : ab = <<a, b>>
    OBVIOUS
  <2>7. ab \o n \in Seq(E) /\ ab \o n # <<>> /\ (ab \o n)[1] = a
    BY <2>4, <2>5, <2>6
  <2>8. v = ab \o n
    BY <1>1, <1>4, <1>5, <2>1, <2>2, <2>6 DEF RefWord
  <2>9. IsText(v) /\ v # <<>> /\ v[1] = "A"
    BY <2>2, <2>7, <2>8, SeqIsText
  <2>10. t \notin Numbers /\ t \notin Funcs /\ t \notin Signs /\ t \notin WideCmps
    BY <1>5, TokensApart, TokensAssumption
  <2> QED BY <1>1, <1>2, <1>4, <2>9, <2>10 DEF FirstRight
<1>6. CASE t \in Numbers
  <2>1. t \notin Accounts /\ t \notin Funcs /\ t \notin Signs /\ t \notin WideCmps
    BY <1>6, TokensApart, TokensAssumption
  <2>2. v \in Seq(Digits) /\ v # <<>>
    BY <1>2, <1>4, <1>6, <2>1, SpellingAssumption
  <2>3. IsText(v) /\ v[1] \in Digits
    BY <1>3, <2>2
  <2> QED BY <1>1, <1>2, <1>4, <2>1, <2>2, <2>3 DEF FirstRight
<1>7. CASE t \in Funcs
  <2>1. t \notin Accounts /\ t \notin Numbers
    BY <1>7, TokensApart
  <2>2. t \notin Signs /\ t \notin WideCmps
    BY <1>7 DEF Funcs, Signs, WideCmps
  <2>3. v \in Seq(Letters) /\ v # <<>>
    BY <1>2, <1>4, <1>7, <2>1, SpellingAssumption
  <2>4. IsText(v) /\ v[1] \in Letters
    BY <1>3, <2>3
  <2> QED BY <1>1, <1>2, <1>4, <2>1, <2>2, <2>3, <2>4 DEF FirstRight
<1>8. CASE t \in Signs
  <2>1. t \notin Accounts /\ t \notin Numbers
    BY <1>8, TokensApart
  <2>2. t \notin Funcs /\ t \notin WideCmps
    BY <1>8 DEF Funcs, Signs, WideCmps
  <2>3. v = <<t>>
    BY <1>2, <1>4, <1>8, <2>1, SpellingAssumption
  <2>4. v \in Seq({t}) /\ v # <<>> /\ v[1] = t
    BY <2>3
  <2>5. IsText(v)
    BY <2>4, SeqIsText
  <2> QED BY <1>1, <1>2, <1>4, <2>1, <2>2, <2>4, <2>5 DEF FirstRight
<1>9. CASE t \in WideCmps
  <2>1. t \notin Accounts /\ t \notin Numbers
    BY <1>9, TokensApart
  <2>2. t \notin Funcs /\ t \notin Signs
    BY <1>9 DEF Funcs, Signs, WideCmps
  <2>3. PICK c \in WideStarts : Spelling[t] = WithEqual(c)
    BY <1>9, SignsAndCmps
  <2>4. PICK b : b = "="
    OBVIOUS
  <2>5. v = <<c, b>>
    BY <1>2, <1>4, <2>1, <2>3, <2>4 DEF WithEqual
  <2>6. v \in Seq({c, b}) /\ v # <<>> /\ v[1] = c
    BY <2>5
  <2>7. IsText(v)
    BY <2>6, SeqIsText
  <2> QED BY <1>1, <1>2, <1>4, <2>1, <2>2, <2>6, <2>7 DEF FirstRight
<1> QED BY <1>5, <1>6, <1>7, <1>8, <1>9 DEF Tokens

LEMMA PhraseTokens ==
  ASSUME NEW s, IsText(s), Phrase(s, 1, Len(s)), NEW m \in 1 .. Len(s)
  PROVE  s[m] \in Tokens
<1>1. PICK N \in Nat : N = Len(s)
  BY TextFacts
<1>2. CASE m = N
  <2>1. s[m] \in Ends
    BY <1>1, <1>2 DEF Phrase
  <2>2. Ends \subseteq Tokens
    BY DEF Ends, Tokens, Signs
  <2> QED BY <2>1, <2>2
<1>3. CASE m # N
  <2>1. m \in 1 .. Len(s) - 1
    BY <1>1, <1>3
  <2>2. MayFollow(s[m], s[m + 1])
    BY <2>1 DEF Phrase
  <2> QED BY <2>2, FollowersAre
<1> QED BY <1>2, <1>3

\* The words of s stand in w one behind the other, word m at place pos[m].
Seps == {<<>>, <<" ">>}

LaidAt(t, names, sep, w, i, j) ==
  /\ StandsAt(w, i, Word(names, t)) /\ j = i + Len(Word(names, t)) + Len(sep)
  /\ sep # <<>> => w[i + Len(Word(names, t))] = " "

Laid(s, names, sep, w, pos) ==
  /\ IsText(w) /\ pos \in [1 .. Len(s) + 1 -> Nat] /\ pos[1] = 1 /\ pos[Len(s) + 1] = Len(w) + 1
  /\ \A m \in 1 .. Len(s) : LaidAt(s[m], names, sep, w, pos[m], pos[m + 1])

LEMMA PiecesInside ==
  ASSUME NEW C, NEW w \in Seq(C), NEW N \in Nat, NEW q \in [1 .. N -> Seq(C)], NEW pos, Pieces(w, q, N, pos),
         NEW m \in 1 .. N
  PROVE  pos[m] \in Nat /\ pos[m] >= 1 /\ pos[m] + Len(q[m]) <= Len(w) + 1
<1>1. PICK W \in Nat : W = Len(w)
  OBVIOUS
<1>2. \A k \in 1 .. N : /\ pos[k] \in Nat /\ pos[k + 1] \in Nat /\ Len(q[k]) \in Nat
                        /\ pos[k + 1] = pos[k] + Len(q[k])
  <2>1. ASSUME NEW k \in 1 .. N
        PROVE  /\ pos[k] \in Nat /\ pos[k + 1] \in Nat /\ Len(q[k]) \in Nat
               /\ pos[k + 1] = pos[k] + Len(q[k])
    <3>1. k \in 1 .. N + 1 /\ k + 1 \in 1 .. N + 1 /\ q[k] \in Seq(C)
      OBVIOUS
    <3> QED BY <3>1 DEF Pieces
  <2> QED BY <2>1
<1> DEFINE G == {k \in 0 .. N : pos[k + 1] >= 1}
           H == {k \in 0 .. N : pos[N + 1 - k] <= W + 1}
<1>3. 0 .. N \subseteq G
  <2>1. 0 \in G
    BY DEF Pieces
  <2>2. ASSUME NEW k \in 0 .. N - 1, k \in G
        PROVE  k + 1 \in G
    <3>1. PICK j \in 1 .. N : j = k + 1 /\ k + 1 \in 0 .. N
      OBVIOUS
    <3>2. pos[j] >= 1
      BY <2>2, <3>1
    <3>3. pos[j + 1] >= 1
      BY <1>2, <3>2
    <3> QED BY <3>1, <3>3
  <2> HIDE DEF G
  <2> QED BY <2>1, <2>2, Stepwise
<1>4. 0 .. N \subseteq H
  <2>1. 0 \in H
    <3>1. N + 1 - 0 = N + 1 /\ pos[N + 1] = W + 1
      BY <1>1 DEF Pieces
    <3> QED BY <3>1
  <2>2. ASSUME NEW k \in 0 .. N - 1, k \in H
        PROVE  k + 1 \in H
    <3>1. PICK j \in 1 .. N : j = N + 1 - (k + 1) /\ j + 1 = N + 1 - k /\ k + 1 \in 0 .. N
      OBVIOUS
    <3>2. pos[j + 1] <= W + 1
      BY <2>2, <3>1
    <3>3. pos[j] <= W + 1
      BY <1>2, <3>2
    <3> QED BY <3>1, <3>3
  <2> HIDE DEF H
  <2> QED BY <2>1, <2>2, Stepwise
<1>5. PICK a \in 0 .. N, b \in 0 .. N : a + 1 = m /\ N + 1 - b = m + 1
  <2>1. m - 1 \in 0 .. N /\ (m - 1) + 1 = m /\ N - m \in 0 .. N /\ N + 1 - (N - m) = m + 1
    OBVIOUS
  <2> QED BY <2>1
<1>6. pos[m] >= 1 /\ pos[m + 1] <= W + 1
  BY <1>3, <1>4, <1>5
<1> QED BY <1>1, <1>2, <1>6

LEMMA WrittenIsLaid ==
  ASSUME NEW s, IsText(s), Phrase(s, 1, Len(s)), NEW names, NamesLegal(names), NEW sep \in Seps
  PROVE  \E pos : Laid(s, names, sep, Written(s, names, sep), pos)
<1>1. PICK N \in Nat : N = Len(s) /\ N # 0 /\ DOMAIN s = 1 .. N
  <2>1. PICK N \in Nat : N = Len(s) /\ DOMAIN s = 1 .. N
    BY TextFacts
  <2>2. 1 <= N
    BY <2>1 DEF Phrase
  <2> QED BY <2>1, <2>2
<1> DEFINE q == [m \in 1 .. N |-> Word(names, s[m]) \o sep]
           C == {" "} \cup UNION {Listed(Word(names, s[m])) : m \in 1 .. N}
<1>2. sep \in Seq(C) /\ Len(sep) \in Nat
  <2>1. <<>> \in Seq({" "}) /\ <<" ">> \in Seq({" "})
    OBVIOUS
  <2>2. sep \in Seq({" "})
    BY <2>1 DEF Seps
  <2>3. {" "} \subseteq C
    OBVIOUS
  <2> HIDE DEF C, q
  <2>4. PICK B : B = {" "}
    OBVIOUS
  <2>5. B \subseteq C /\ sep \in Seq(B)
    BY <2>2, <2>3, <2>4
  <2> QED BY <2>5
<1>3. \A m \in 1 .. N : Word(names, s[m]) \in Seq(C) /\ Word(names, s[m]) # <<>>
  <2>1. ASSUME NEW m \in 1 .. N
        PROVE  Word(names, s[m]) \in Seq(C) /\ Word(names, s[m]) # <<>>
    <3>1. s[m] \in Tokens
      BY <1>1, PhraseTokens
    <3>2. IsText(Word(names, s[m])) /\ Word(names, s[m]) # <<>>
      BY <3>1, WordStarts DEF FirstRight
    <3>3. Listed(Word(names, s[m])) \subseteq C
      OBVIOUS
    <3> HIDE DEF C
    <3> QED BY <3>2, <3>3 DEF IsText
  <2> QED BY <2>1
<1> HIDE DEF C
<1>4. q \in [1 .. N -> Seq(C)] /\ \A m \in 1 .. N : q[m] = Word(names, s[m]) \o sep
  BY <1>2, <1>3
<1>5. Written(s, names, sep) = FlattenSeq(q)
  BY <1>1 DEF Written
<1> HIDE DEF q
<1>6. FlattenSeq(q) \in Seq(C) /\ \E pos : Pieces(FlattenSeq(q), q, N, pos)
  BY <1>1, <1>4, FlattenPieces
<1>7. PICK w \in Seq(C) : w = Written(s, names, sep) /\ \E pos : Pieces(w, q, N, pos)
  BY <1>5, <1>6
<1>8. PICK pos : Pieces(w, q, N, pos)
  BY <1>7
<1>9. ASSUME NEW m \in 1 .. N
      PROVE  LaidAt(s[m], names, sep, w, pos[m], pos[m + 1])
  <2>1. PICK v \in Seq(C) : v = Word(names, s[m])
    BY <1>3
  <2>2. PICK x \in Seq(C) : x = q[m] /\ x = v \o sep
    BY <1>4, <2>1
  <2>3. PICK V \in Nat, P \in Nat, W \in Nat : V = Len(v) /\ P = Len(sep) /\ W = Len(w)
    BY <1>2
  <2>4. Len(x) = V + P /\ (\A k \in 1 .. V : x[k] = v[k]) /\ (\A k \in 1 .. P : x[V + k] = sep[k])
    BY <1>2, <2>2, <2>3
  <2>5. PICK p \in Nat : p = pos[m] /\ p >= 1 /\ p + (V + P) <= W + 1
    <3>1. pos[m] \in Nat /\ pos[m] >= 1 /\ pos[m] + Len(q[m]) <= Len(w) + 1
      BY <1>4, <1>8, PiecesInside
    <3>2. Len(q[m]) = V + P
      BY <2>2, <2>4
    <3> QED BY <2>3, <3>1, <3>2
  <2>6. pos[m + 1] = p + (V + P) /\ \A k \in 1 .. V + P : w[p + k - 1] = x[k]
    BY <1>8, <2>2, <2>4, <2>5 DEF Pieces
  <2>7. p + V <= W + 1 /\ \A k \in 1 .. V : w[p + k - 1] = v[k]
    <3>1. p + V <= W + 1
      BY <2>5
    <3>2. \A k \in 1 .. V : k \in 1 .. V + P
      OBVIOUS
    <3> QED BY <2>4, <2>6, <3>1, <3>2
  <2>8. StandsAt(w, p, v)
    BY <2>3, <2>5, <2>7 DEF StandsAt
  <2>9. sep # <<>> => w[p + V] = " "
    <3> SUFFICES ASSUME sep # <<>> PROVE w[p + V] = " "
      OBVIOUS
    <3>1. PICK sp : sp = " "
      OBVIOUS
    <3>2. sep = <<sp>>
      BY <3>1 DEF Seps
    <3>3. P = 1 /\ sep[1] = sp
      BY <2>3, <3>2
    <3>4. PICK k \in 1 .. V + P : k = V + 1 /\ p + k - 1 = p + V
      BY <3>3
    <3>5. x[k] = sep[1]
      BY <2>4, <3>3, <3>4
    <3>6. w[p + V] = x[k]
      BY <2>6, <3>4
    <3> QED BY <3>1, <3>3, <3>5, <3>6
  <2>10. pos[m + 1] = p + V + P
    BY <2>6
  <2> QED BY <2>1, <2>3, <2>5, <2>8, <2>9, <2>10 DEF LaidAt
<1>10. pos \in [1 .. Len(s) + 1 -> Nat] /\ pos[1] = 1 /\ pos[Len(s) + 1] = Len(w) + 1
  BY <1>1, <1>7, <1>8 DEF Pieces
<1>11. IsText(w)
  BY SeqIsText
<1>12. Laid(s, names, sep, w, pos)
  BY <1>1, <1>9, <1>10, <1>11 DEF Laid
<1> QED BY <1>7, <1>12

LaidOut(s, names, sep, w, pos) ==
  IsText(s) /\ Phrase(s, 1, Len(s)) /\ NamesLegal(names) /\ sep \in Seps /\ Laid(s, names, sep, w, pos)

LEMMA SepLength == \A sep \in Seps : Len(sep) = IF sep = <<>> THEN 0 ELSE 1
<1>1. Len(<<>>) = 0 /\ Len(<<" ">>) = 1
  OBVIOUS
<1>2. <<" ">> # <<>>
  OBVIOUS
<1> QED BY <1>1, <1>2 DEF Seps

\* Where a word starts, how it does, and where it ends.
WordPlace(t, names, sep, w, i, e, j) ==
  /\ i \in 1 .. Len(w) /\ e \in i .. Len(w) + 1 /\ j \in i .. Len(w) + 1
  /\ StandsAt(w, i, Word(names, t)) /\ e = i + Len(Word(names, t))
  /\ t \in Tokens /\ L!At(w, i) = Word(names, t)[1] /\ w[i] = Word(names, t)[1]
  /\ sep = <<>> => j = e
  /\ sep # <<>> => j = e + 1 /\ e <= Len(w) /\ IsSpace(w[e])

LEMMA WordPlaces ==
  ASSUME NEW s, NEW names, NEW sep, NEW w, NEW pos, LaidOut(s, names, sep, w, pos), NEW m \in 1 .. Len(s)
  PROVE  \E e \in Nat : WordPlace(s[m], names, sep, w, pos[m], e, pos[m + 1])
<1>1. PICK N \in Nat : N = Len(s)
  BY TextFacts DEF LaidOut
<1>2. PICK C : C = Listed(w) /\ w \in Seq(C)
  BY DEF LaidOut, Laid, IsText
<1>3. PICK t \in Tokens : t = s[m]
  BY PhraseTokens DEF LaidOut
<1>4. PICK v : v = Word(names, t) /\ v \in Seq(Listed(v)) /\ v # <<>>
  BY <1>3, WordStarts DEF LaidOut, FirstRight, IsText
<1>5. m \in 1 .. Len(s) + 1 /\ m + 1 \in 1 .. Len(s) + 1
  BY <1>1
<1>6. PICK i \in Nat, j \in Nat : i = pos[m] /\ j = pos[m + 1]
  BY <1>5 DEF LaidOut, Laid
<1>7. LaidAt(t, names, sep, w, i, j)
  BY <1>3, <1>6 DEF LaidOut, Laid
<1>8. StandsAt(w, i, v)
  BY <1>4, <1>7 DEF LaidAt
<1>9. /\ i \in 1 .. Len(w) /\ w[i] = v[1] /\ i + Len(v) \in i .. Len(w) + 1
  BY <1>2, <1>4, <1>8, StandingChars
<1>10. L!At(w, i) = v[1]
  BY <1>2, <1>9, AtIs
<1>11. PICK e \in Nat, W \in Nat : e = i + Len(v) /\ e \in i .. Len(w) + 1 /\ W = Len(w)
  BY <1>2, <1>4, <1>9
<1>12. j = e + Len(sep) /\ (sep # <<>> => IsSpace(w[e]))
  BY <1>4, <1>7, <1>11 DEF LaidAt, IsSpace
<1>13. Len(sep) = IF sep = <<>> THEN 0 ELSE 1
  BY SepLength DEF LaidOut
<1>14. j <= W + 1
  <2>1. CASE m = N
    <3>1. j = W + 1
      BY <1>1, <1>6, <1>11, <2>1 DEF LaidOut, Laid
    <3> QED BY <3>1
  <2>2. CASE m # N
    <3>1. PICK k \in 1 .. Len(s) : k = m + 1
      BY <1>1, <2>2
    <3>2. PICK x : x = Word(names, s[k]) /\ x \in Seq(Listed(x)) /\ x # <<>>
      <4>1. s[k] \in Tokens
        BY PhraseTokens DEF LaidOut
      <4> QED BY <4>1, WordStarts DEF LaidOut, FirstRight, IsText
    <3>3. LaidAt(s[k], names, sep, w, pos[k], pos[k + 1])
      BY DEF LaidOut, Laid
    <3>4. StandsAt(w, j, x)
      BY <1>6, <3>1, <3>2, <3>3 DEF LaidAt
    <3>5. j \in 1 .. Len(w)
      BY <1>2, <3>2, <3>4, StandingChars
    <3> QED BY <1>11, <3>5
  <2> QED BY <2>1, <2>2
<1>15. sep = <<>> => j = e
  BY <1>12, <1>13
<1>16. sep # <<>> => j = e + 1 /\ e <= W
  BY <1>12, <1>13, <1>14
<1>17. j \in i .. W + 1
  BY <1>11, <1>14, <1>15, <1>16
<1> QED BY <1>3, <1>4, <1>6, <1>8, <1>9, <1>10, <1>11, <1>12, <1>15, <1>16, <1>17 DEF WordPlace

\* The first character behind a word and what separates it from the next.
LEMMA NextFirst ==
  ASSUME NEW s, NEW names, NEW sep, NEW w, NEW pos, LaidOut(s, names, sep, w, pos), NEW m \in 1 .. Len(s)
  PROVE  /\ m = Len(s) => s[m] \in Ends /\ L!At(w, pos[m + 1]) = Nothing
         /\ m # Len(s) => /\ m + 1 \in 1 .. Len(s) /\ s[m + 1] \in Tokens /\ MayFollow(s[m], s[m + 1])
                          /\ FirstRight(s[m + 1], Word(names, s[m + 1]))
                          /\ L!At(w, pos[m + 1]) = Word(names, s[m + 1])[1]
<1>1. PICK N \in Nat : N = Len(s)
  BY TextFacts DEF LaidOut
<1>2. PICK C : w \in Seq(C)
  BY DEF LaidOut, Laid, IsText
<1>3. CASE m = N
  <2>1. s[m] \in Ends
    BY <1>1, <1>3 DEF LaidOut, Phrase
  <2>2. PICK W \in Nat : W = Len(w)
    BY <1>2
  <2>3. pos[m + 1] = W + 1
    BY <1>1, <1>3, <2>2 DEF LaidOut, Laid
  <2>4. L!At(w, W + 1) = Nothing
    BY <1>2, <2>2, AtIs
  <2> QED BY <1>1, <1>3, <2>1, <2>3, <2>4
<1>4. CASE m # N
  <2>1. PICK k \in 1 .. Len(s) : k = m + 1
    BY <1>1, <1>4
  <2>2. \E e \in Nat : WordPlace(s[k], names, sep, w, pos[k], e, pos[k + 1])
    BY WordPlaces
  <2>3. s[k] \in Tokens /\ L!At(w, pos[k]) = Word(names, s[k])[1]
    BY <2>2 DEF WordPlace
  <2>4. FirstRight(s[k], Word(names, s[k]))
    BY <2>3, WordStarts DEF LaidOut
  <2>5. m \in 1 .. Len(s) - 1
    BY <1>1, <1>4
  <2>6. MayFollow(s[m], s[m + 1])
    BY <2>5 DEF LaidOut, Phrase
  <2> QED BY <1>1, <1>4, <2>1, <2>3, <2>4, <2>6
<1> QED BY <1>1, <1>3, <1>4

\* It depends on the token before it.
NextRight(t, c) ==
  /\ ~IsSpace(c)
  /\ t \in Numbers \cup Accounts => c \in Marks
  /\ t \in Funcs => c = "("
  /\ t \in {"<", ">"} => c # "="

LEMMA FirstChars ==
  ASSUME NEW u \in Tokens, NEW v, FirstRight(u, v), NEW c, c = v[1]
  PROVE  /\ ~IsSpace(c)
         /\ u \in Signs \cup WideCmps => c \in Marks
         /\ u = "(" => c = "("
         /\ u \in Starts => c # "="
<1>1. "A" \in L!NameWord /\ \A x \in Letters \cup Digits : x \in L!NameWord
  BY CharactersApart
<1>2. c \in L!NameWord \/ c \in Signs \/ c \in WideStarts
  BY <1>1 DEF FirstRight, Tokens
<1>3. \A x \in Signs \cup WideStarts : x \in Marks /\ ~IsSpace(x)
  BY DEF Signs, WideStarts, Marks, IsSpace
<1>4. ~IsSpace(c)
  BY <1>2, <1>3, KindsApart
<1>5. u \in Signs \cup WideCmps => c \in Marks
  BY <1>3 DEF FirstRight
<1>6. "(" \in Signs /\ "-" \in Signs
  BY DEF Signs
<1>7. u = "(" => c = "("
  BY <1>6 DEF FirstRight
<1>8. u \in Starts => c # "="
  <2>1. "=" \notin Letters /\ "=" \notin Digits
    BY CharactersApart
  <2>2. u \in {"-", "("} => c = u
    BY <1>6 DEF FirstRight
  <2>3. u \in Numbers \cup Accounts \cup Funcs => c # "="
    BY <2>1 DEF FirstRight
  <2> QED BY <2>2, <2>3 DEF Starts
<1> QED BY <1>4, <1>5, <1>7, <1>8

LEMMA NextIsRight ==
  ASSUME NEW s, NEW names, NEW sep, NEW w, NEW pos, LaidOut(s, names, sep, w, pos), NEW m \in 1 .. Len(s)
  PROVE  NextRight(s[m], L!At(w, pos[m + 1]))
<1>1. CASE m = Len(s)
  <2>1. s[m] \in Ends /\ L!At(w, pos[m + 1]) = Nothing
    BY <1>1, NextFirst
  <2>2. Nothing \in Marks /\ ~IsSpace(Nothing)
    BY DEF Marks, Nothing, IsSpace
  <2>3. s[m] \notin Funcs /\ s[m] \notin {"<", ">"}
    <3>1. \A x \in Ends : x \in Numbers \cup Accounts \/ x = ")"
      BY DEF Ends
    <3>2. ")" \notin Funcs /\ ")" \notin {"<", ">"}
      BY DEF Funcs
    <3>3. {"<", ">"} \subseteq Signs
      BY DEF Signs
    <3> QED BY <2>1, <3>1, <3>2, <3>3, TokensApart
  <2> QED BY <2>1, <2>2, <2>3 DEF NextRight
<1>2. CASE m # Len(s)
  <2>1. PICK t, u, v, c : t = s[m] /\ u = s[m + 1] /\ v = Word(names, u) /\ c = L!At(w, pos[m + 1])
    OBVIOUS
  <2>2. MayFollow(t, u) /\ u \in Tokens /\ FirstRight(u, v) /\ c = v[1]
    BY <1>2, <2>1, NextFirst
  <2>3. /\ ~IsSpace(c) /\ (u \in Signs \cup WideCmps => c \in Marks)
        /\ (u = "(" => c = "(") /\ (u \in Starts => c # "=")
    BY <2>2, FirstChars
  <2>4. t \in Numbers \cup Accounts => u \in Signs \cup WideCmps
    BY <2>2, FollowersAre, SignsAndCmps
  <2>5. t \in Funcs => u = "("
    BY <2>2, FollowersAre
  <2>6. t \in {"<", ">"} => u \in Starts
    BY <2>2, FollowersAre
  <2> QED BY <2>1, <2>3, <2>4, <2>5, <2>6 DEF NextRight
<1> QED BY <1>1, <1>2

TextOf(names, t) == IF t \in Accounts THEN names[t] ELSE Spelling[t]

\* The token at place i is t, and the lexer goes on to place j.
ReadTo(t, names, w, i, j) ==
  /\ TokenOf(w, i).text = TextOf(names, t) /\ (TokenOf(w, i).kind = "ref") = (t \in Accounts)
  /\ \A f : Lexing(w, f) => f[i] = <<TokenOf(w, i)>> \o f[j]

LEMMA SpacesSkipped ==
  ASSUME NEW C, NEW w \in Seq(C), NEW e \in 1 .. Len(w) + 1, NEW j \in 1 .. Len(w) + 1, ~IsSpace(L!At(w, j)),
         j = e \/ (j = e + 1 /\ IsSpace(w[e]))
  PROVE  L!SkipSpaces(w, e) = j
<1>1. PICK N \in Nat : N = Len(w)
  OBVIOUS
<1>2. j \in e .. Len(w) + 1
  BY <1>1
<1>3. \A k \in e .. j - 1 : k = e /\ IsSpace(w[e])
  BY <1>1
<1>4. RunsTo(w, e, {" "}, j)
  BY <1>3 DEF RunsTo, IsSpace
<1> QED BY <1>2, <1>4, RunEndIs DEF L!SkipSpaces

LEMMA ReadsTo ==
  ASSUME NEW C, NEW w \in Seq(C), NEW t, NEW names, NEW i \in 1 .. Len(w), NEW j \in 1 .. Len(w) + 1,
         NEW e \in 1 .. Len(w) + 1,
         ReadsOne(w, i, t \in Accounts, TextOf(names, t), e), TextOf(names, t) # <<>>, ~IsSpace(w[i]),
         j = e \/ (j = e + 1 /\ e <= Len(w) /\ IsSpace(w[e]))
  PROVE  ReadTo(t, names, w, i, j)
<1>1. PICK N \in Nat : N = Len(w)
  OBVIOUS
<1>2. PICK x : x = L!LexToken(w, i)
  OBVIOUS
<1>3. x.text = TextOf(names, t) /\ (x.kind = "ref") = (t \in Accounts) /\ x.next = e
  BY <1>2 DEF ReadsOne
<1>4. PICK y : y = TokenOf(w, i) /\ y.text = x.text /\ y.kind = x.kind
  <2>1. PICK y : y = [kind |-> x.kind, text |-> x.text]
    OBVIOUS
  <2>2. y.text = x.text /\ y.kind = x.kind
    BY <2>1
  <2>3. y = TokenOf(w, i)
    BY <1>2, <2>1 DEF TokenOf
  <2> QED BY <2>2, <2>3
<1>5. ASSUME NEW f, Lexing(w, f)
      PROVE  f[i] = <<y>> \o f[j]
  <2>1. \A k \in 1 .. Len(w) + 1 : f[k] = LexFrom(w, k, f)
    BY <1>5 DEF Lexing
  <2>2. i \in 1 .. Len(w) + 1 /\ ~(i > Len(w))
    BY <1>1
  <2>3. f[i] = <<y>> \o f[e]
    <3>1. f[i] = LexFrom(w, i, f)
      BY <2>1, <2>2
    <3>2. w[i] # " "
      BY DEF IsSpace
    <3>3. L!LexToken(w, i).text # <<>> /\ L!LexToken(w, i).next = e
      BY <1>2, <1>3
    <3> QED BY <1>4, <2>2, <3>1, <3>2, <3>3 DEF LexFrom
  <2>4. CASE j = e
    BY <2>3, <2>4
  <2>5. CASE j = e + 1 /\ e <= Len(w) /\ IsSpace(w[e])
    <3>1. f[e] = LexFrom(w, e, f)
      BY <2>1
    <3>2. ~(e > Len(w)) /\ w[e] = " "
      <4>1. ~(e > Len(w))
        BY <1>1, <2>5
      <4> QED BY <2>5, <4>1 DEF IsSpace
    <3>3. f[e] = f[j]
      BY <2>5, <3>1, <3>2 DEF LexFrom
    <3> QED BY <2>3, <3>3
  <2> QED BY <2>4, <2>5
<1> QED BY <1>3, <1>4, <1>5 DEF ReadTo

\* Behind a reference the name does not go on, unless a hyphen touches it.
LEMMA NameIsOver ==
  ASSUME NEW s, NEW names, NEW sep, NEW w, NEW pos, LaidOut(s, names, sep, w, pos), NEW m \in 1 .. Len(s),
         s[m] \in Accounts, NEW e \in Nat, WordPlace(s[m], names, sep, w, pos[m], e, pos[m + 1]),
         sep = <<>> => ~Hyphenated(s), NEW st
  PROVE  ~L!Continues(w, st, e) /\ ~IsSharp(L!At(w, e))
<1>1. PICK C : w \in Seq(C)
  BY DEF LaidOut, Laid, IsText
<1>2. PICK j \in Nat : j = pos[m + 1] /\ j \in 1 .. Len(w) + 1 /\ e \in 1 .. Len(w) + 1
  BY DEF WordPlace
<1>3. L!At(w, j) \in Marks /\ ~IsSpace(L!At(w, j))
  <2>1. NextRight(s[m], L!At(w, j))
    BY <1>2, NextIsRight
  <2> QED BY <2>1 DEF NextRight
<1>4. \A c \in Marks : c \notin L!NameWord /\ ~IsSharp(c)
  <2>1. \A c \in Marks : c \notin L!NameWord
    BY CharactersApart DEF Marks
  <2>2. \A c \in Marks : ~IsSharp(c)
    <3>1. ~IsSharp(Nothing)
      BY DEF Nothing, IsSharp
    <3>2. \A c \in Signs \cup {"=", "!"} : ~IsSharp(c)
      BY DEF Signs, IsSharp
    <3> QED BY <3>1, <3>2 DEF Marks
  <2> QED BY <2>1, <2>2
<1>5. CASE sep # <<>>
  <2>1. j = e + 1 /\ e <= Len(w) /\ IsSpace(w[e])
    BY <1>2, <1>5 DEF WordPlace
  <2>2. e \in 1 .. Len(w)
    <3>1. PICK W \in Nat : W = Len(w)
      BY <1>1
    <3> QED BY <1>2, <2>1, <3>1
  <2>3. IsSpace(L!At(w, e))
    BY <1>1, <2>1, <2>2, AtIs
  <2>4. L!SkipSpaces(w, e) = j
    BY <1>1, <1>2, <1>3, <2>1, SpacesSkipped
  <2>5. ~L!Continues(w, st, e)
    BY <1>3, <1>4, <2>3, <2>4, KindsApart, ContinuesIs
  <2> QED BY <2>3, <2>5, KindsApart
<1>6. CASE sep = <<>>
  <2>1. j = e
    BY <1>2, <1>6 DEF WordPlace
  <2>2. CASE ~IsHyphen(L!At(w, e))
    BY <1>3, <1>4, <2>1, <2>2, ContinuesIs
  <2>3. CASE IsHyphen(L!At(w, e))
    <3>1. m # Len(s)
      <4>1. ~IsHyphen(Nothing)
        BY DEF Nothing, IsHyphen
      <4>2. m = Len(s) => L!At(w, pos[m + 1]) = Nothing
        BY NextFirst
      <4>3. L!At(w, pos[m + 1]) = L!At(w, e)
        BY <1>2, <2>1
      <4> QED BY <2>3, <4>1, <4>2, <4>3
    <3>2. PICK k \in 1 .. Len(s) :
            /\ k = m + 1 /\ s[k] \in Tokens /\ FirstRight(s[k], Word(names, s[k]))
            /\ L!At(w, e) = Word(names, s[k])[1]
      <4>1. /\ m + 1 \in 1 .. Len(s) /\ s[m + 1] \in Tokens /\ FirstRight(s[m + 1], Word(names, s[m + 1]))
            /\ L!At(w, pos[m + 1]) = Word(names, s[m + 1])[1]
        BY <3>1, NextFirst
      <4>2. L!At(w, pos[m + 1]) = L!At(w, e)
        BY <1>2, <2>1
      <4> QED BY <4>1, <4>2
    <3> DEFINE u == s[k]
    <3> HIDE DEF u
    <3>3. u = s[k]
      BY DEF u
    <3>4. u = "-"
      <4>1. u \in Accounts \cup Numbers \cup Funcs => Word(names, u)[1] \in L!NameWord
        BY <3>2, <3>3, CharactersApart DEF FirstRight
      <4>2. u \in Signs => Word(names, u)[1] = u
        BY <3>2, <3>3 DEF FirstRight
      <4>3. u \in WideCmps => ~IsHyphen(Word(names, u)[1])
        BY <3>2, <3>3 DEF FirstRight, WideStarts, IsHyphen
      <4>4. u \in Tokens /\ L!At(w, e) = Word(names, u)[1]
        BY <3>2, <3>3
      <4>5. IsHyphen(Word(names, u)[1])
        BY <2>3, <4>4
      <4>6. u \in Signs
        BY <4>1, <4>3, <4>4, <4>5, KindsApart DEF Tokens
      <4> QED BY <4>2, <4>5, <4>6 DEF IsHyphen
    <3>5. k # Len(s)
      <4>1. "-" \notin Ends
        <5>1. "-" \notin Numbers \cup Accounts
          BY TokensApart
        <5>2. "-" # ")"
          OBVIOUS
        <5> QED BY <5>1, <5>2 DEF Ends
      <4>2. k = Len(s) => s[k] \in Ends
        BY NextFirst
      <4> QED BY <3>4, <3>3, <4>1, <4>2
    <3>6. PICK h \in 1 .. Len(s) :
            /\ h = k + 1 /\ s[h] \in Tokens /\ MayFollow(s[k], s[h])
            /\ L!At(w, pos[h]) = Word(names, s[h])[1] /\ FirstRight(s[h], Word(names, s[h]))
      BY <3>5, NextFirst
    <3> DEFINE x == s[h]
    <3> HIDE DEF x
    <3>7. x = s[h]
      BY DEF x
    <3>8. x \in Starts
      BY <3>4, <3>6, <3>3, <3>7, FollowersAre
    <3>9. x \in Accounts \cup {"(", "-"}
      <4>1. PICK N \in Nat : N = Len(s)
        BY TextFacts DEF LaidOut
      <4>2. m \in 1 .. Len(s) - 2 /\ h = m + 2 /\ k = m + 1
        BY <3>2, <3>6, <4>1
      <4>3. s[m + 1] = "-"
        BY <3>4, <3>3, <4>2
      <4>4. s[m + 2] \in Accounts \cup {"(", "-"}
        BY <1>6, <4>2, <4>3 DEF Hyphenated
      <4> QED BY <3>7, <4>2, <4>4
    <3>10. pos[h] = e + 1
      <4>1. PICK d \in Nat : WordPlace(s[k], names, sep, w, pos[k], d, pos[k + 1])
        BY WordPlaces
      <4>2. pos[h] = d /\ d = pos[k] + Len(Word(names, u)) /\ pos[k] = e
        BY <1>2, <1>6, <2>1, <3>2, <3>6, <3>3, <4>1 DEF WordPlace
      <4>3. Word(names, u) = <<"-">>
        <5>1. "-" \in Signs /\ "-" \in Tokens /\ "-" \notin Accounts
          BY TokensApart DEF Tokens, Signs
        <5> QED BY <3>4, <5>1, WordStarts, SpellingAssumption DEF LaidOut
      <4>4. Len(<<"-">>) = 1
        OBVIOUS
      <4> QED BY <4>2, <4>3, <4>4
    <3>11. CASE x \in Accounts
      <4>1. \E d \in Nat : WordPlace(s[h], names, sep, w, pos[h], d, pos[h + 1])
        BY WordPlaces
      <4>2. StandsAt(w, pos[h], Word(names, x)) /\ pos[h] \in Nat
        BY <3>7, <4>1 DEF WordPlace
      <4>3. PICK n : n = names[x] /\ n \in Seq(Listed(n)) /\ n # <<>>
        BY <3>11, ValidNames DEF LaidOut, NamesLegal, IsText
      <4>4. Word(names, x) = RefWord(n)
        BY <3>6, <3>7, <3>11, <4>3, WordStarts DEF LaidOut
      <4>5. L!StartsRef(w, pos[h])
        BY <1>1, <4>2, <4>3, <4>4, RefStands
      <4>6. L!StartsRef(w, e + 1)
        BY <3>10, <4>5
      <4> QED BY <1>3, <1>4, <2>1, <4>6, ContinuesIs
    <3>12. CASE x \in {"(", "-"}
      <4>1. "(" \in Signs /\ "-" \in Signs /\ Signs \subseteq Marks
        BY DEF Signs, Marks
      <4>2. L!At(w, pos[h]) \in Marks
        BY <3>6, <3>7, <3>12, <4>1 DEF FirstRight
      <4>3. L!At(w, e + 1) \notin L!NameWord
        BY <1>4, <3>10, <4>2
      <4> QED BY <1>3, <1>4, <2>1, <4>3, ContinuesIs
    <3> QED BY <3>9, <3>11, <3>12
  <2> QED BY <2>2, <2>3
<1> QED BY <1>5, <1>6

LEMMA BehindWord ==
  ASSUME NEW s, NEW names, NEW sep, NEW w, NEW pos, LaidOut(s, names, sep, w, pos), NEW m \in 1 .. Len(s),
         NEW e \in Nat, WordPlace(s[m], names, sep, w, pos[m], e, pos[m + 1])
  PROVE  /\ s[m] \in Numbers => L!At(w, e) \notin Digits
         /\ s[m] \in Funcs => EndsWord(w, e)
         /\ s[m] \in {"<", ">"} => ~WithEq(w, e)
<1>1. PICK C : w \in Seq(C)
  BY DEF LaidOut, Laid, IsText
<1>2. PICK c, t : c = L!At(w, e) /\ t = s[m]
  OBVIOUS
<1>3. NextRight(t, L!At(w, pos[m + 1]))
  BY <1>2, NextIsRight
<1>4. IsSpace(c) \/ NextRight(t, c)
  <2>1. CASE sep = <<>>
    BY <1>2, <1>3, <2>1 DEF WordPlace
  <2>2. CASE sep # <<>>
    <3>1. PICK W \in Nat : W = Len(w)
      BY <1>1
    <3>2. e \in 1 .. Len(w) + 1 /\ e <= W /\ IsSpace(w[e])
      BY <2>2, <3>1 DEF WordPlace
    <3>3. e \in 1 .. Len(w)
      BY <3>1, <3>2
    <3>4. L!At(w, e) = w[e]
      BY <1>1, <3>3, AtIs
    <3> QED BY <1>2, <3>2, <3>4
  <2> QED BY <2>1, <2>2
<1>5. \A x \in Signs \cup {"=", "!", "#", " ", Nothing} : x \notin Digits /\ x \notin L!Alnum /\ x # "_"
  BY CharactersApart
<1>6. t \in Numbers => c \notin Digits
  BY <1>4, <1>5 DEF NextRight, IsSpace, Marks
<1>7. t \in Funcs => c \notin IdentChars /\ c # "#"
  <2>1. "(" \in Signs
    BY DEF Signs
  <2>2. t \in Funcs => c = " " \/ c = "("
    BY <1>4 DEF NextRight, IsSpace
  <2> QED BY <1>5, <2>1, <2>2 DEF IdentChars
<1>8. t \in {"<", ">"} => c # "="
  BY <1>4 DEF NextRight, IsSpace
<1> QED BY <1>2, <1>6, <1>7, <1>8 DEF EndsWord, WithEq

LEMMA WordIsRead ==
  ASSUME NEW s, NEW names, NEW sep, NEW w, NEW pos, LaidOut(s, names, sep, w, pos), NEW m \in 1 .. Len(s),
         s[m] \notin Accounts
  PROVE  ReadTo(s[m], names, w, pos[m], pos[m + 1])
<1>1. PICK C : w \in Seq(C)
  BY DEF LaidOut, Laid, IsText
<1>2. PICK e \in Nat : WordPlace(s[m], names, sep, w, pos[m], e, pos[m + 1])
  BY WordPlaces
<1>3. PICK t, v, i, j : t = s[m] /\ v = Word(names, t) /\ i = pos[m] /\ j = pos[m + 1]
  OBVIOUS
<1>4. WordPlace(t, names, sep, w, i, e, j)
  BY <1>2, <1>3
<1>5. /\ i \in Nat /\ i \in 1 .. Len(w) /\ e \in 1 .. Len(w) + 1 /\ j \in 1 .. Len(w) + 1
      /\ StandsAt(w, i, v) /\ e = i + Len(v)
      /\ t \in Tokens /\ w[i] = v[1] /\ (j = e \/ (j = e + 1 /\ e <= Len(w) /\ IsSpace(w[e])))
  BY <1>3, <1>4, SMTT(30) DEF WordPlace
<1>6. t \notin Accounts /\ v = Spelling[t] /\ v = TextOf(names, t) /\ FirstRight(t, v)
  BY <1>3, <1>5, WordStarts DEF LaidOut, TextOf
<1>7. ~IsSpace(w[i]) /\ v # <<>>
  BY <1>5, <1>6, FirstChars DEF FirstRight
<1>8. /\ t \in Numbers => L!At(w, e) \notin Digits
      /\ t \in Funcs => EndsWord(w, e)
      /\ t \in {"<", ">"} => ~WithEq(w, e)
  BY <1>2, <1>3, BehindWord
<1>9. ReadsOne(w, i, FALSE, v, e)
  <2>1. CASE t \in Numbers
    <3>1. v \in Seq(Digits)
      BY <1>6, <2>1, SpellingAssumption
    <3> QED BY <1>1, <1>5, <1>7, <1>8, <2>1, <3>1, NumberReads
  <2>2. CASE t \in Funcs
    <3>1. v \in Seq(Letters)
      BY <1>6, <2>2, SpellingAssumption
    <3> QED BY <1>1, <1>5, <1>7, <1>8, <2>2, <3>1, FunctionReads
  <2>3. CASE t \in Signs
    <3>1. v = <<t>>
      BY <1>6, <2>3, SpellingAssumption
    <3>2. e = i + 1
      <4>1. Len(<<t>>) = 1
        OBVIOUS
      <4> QED BY <1>5, <3>1, <4>1
    <3>3. t \in OneCharOps \/ ~WithEq(w, i + 1)
      <4>1. t \in OneCharOps \/ t \in {"<", ">"}
        BY <2>3 DEF OneCharOps, Signs
      <4> QED BY <1>8, <3>2, <4>1
    <3>4. StandsAt(w, i, <<t>>)
      BY <1>5, <3>1
    <3>5. ReadsOne(w, i, FALSE, <<t>>, i + 1)
      BY <1>1, <1>5, <2>3, <3>3, <3>4, SignReads
    <3> QED BY <3>1, <3>2, <3>5
  <2>4. CASE t \in WideCmps
    <3>1. PICK c \in WideStarts : v = WithEqual(c)
      BY <1>6, <2>4, SignsAndCmps
    <3>2. e = i + 2
      <4>1. PICK b : b = "="
        OBVIOUS
      <4>2. Len(<<c, b>>) = 2
        OBVIOUS
      <4>3. Len(v) = 2
        BY <3>1, <4>1, <4>2 DEF WithEqual
      <4> QED BY <1>5, <4>3
    <3> QED BY <1>1, <1>5, <3>1, <3>2, WideSignReads
  <2> QED BY <1>5, <1>6, <2>1, <2>2, <2>3, <2>4 DEF Tokens
<1>10. ReadsOne(w, i, t \in Accounts, TextOf(names, t), e)
  BY <1>6, <1>9 DEF ReadsOne
<1>11. ReadTo(t, names, w, i, j)
  BY <1>1, <1>5, <1>6, <1>7, <1>10, ReadsTo
<1> QED BY <1>3, <1>11

LEMMA NameIsRead ==
  ASSUME NEW s, NEW names, NEW sep, NEW w, NEW pos, LaidOut(s, names, sep, w, pos), NEW m \in 1 .. Len(s),
         s[m] \in Accounts, L!HyphensApart(names[s[m]]), sep = <<>> => ~Hyphenated(s)
  PROVE  ReadTo(s[m], names, w, pos[m], pos[m + 1])
<1>1. PICK C : w \in Seq(C)
  BY DEF LaidOut, Laid, IsText
<1>2. PICK e \in Nat : WordPlace(s[m], names, sep, w, pos[m], e, pos[m + 1])
  BY WordPlaces
<1>3. PICK t, n, i, j : t = s[m] /\ n = names[t] /\ i = pos[m] /\ j = pos[m + 1]
  OBVIOUS
<1>4. WordPlace(t, names, sep, w, i, e, j)
  BY <1>2, <1>3
<1>5. n \in Seq(Listed(n)) /\ n # <<>> /\ NameRules(n) /\ Apart(n)
  <2>1. IsText(n) /\ L!ValidMemberName(n)
    BY <1>3 DEF LaidOut, NamesLegal
  <2> QED BY <1>3, <2>1, ValidNames DEF IsText
<1>6. Word(names, t) = RefWord(n) /\ FirstRight(t, RefWord(n)) /\ n = TextOf(names, t)
  BY <1>3, <1>4, WordStarts DEF LaidOut, TextOf, WordPlace
<1>7. /\ i \in Nat /\ i \in 1 .. Len(w) /\ e \in 1 .. Len(w) + 1 /\ j \in 1 .. Len(w) + 1
      /\ StandsAt(w, i, RefWord(n))
      /\ e = i + Len(RefWord(n)) /\ t \in Tokens /\ w[i] = RefWord(n)[1]
      /\ (j = e \/ (j = e + 1 /\ IsSpace(w[e])))
  BY <1>4, <1>6 DEF WordPlace
<1>8. e = i + 2 + Len(n)
  <2>1. PICK V \in Nat : V = Len(n)
    BY <1>5
  <2>2. Len(RefWord(n)) = V + 2
    BY <1>1, <1>5, <1>7, <2>1, RefStands
  <2> QED BY <1>7, <2>1, <2>2
<1>9. ~L!Continues(w, i + 2, e) /\ ~IsSharp(L!At(w, e))
  BY <1>2, <1>3, NameIsOver
<1>10. ~IsSpace(w[i])
  BY <1>6, <1>7, FirstChars
<1>11. ~IsSpace(L!At(w, j))
  <2>1. NextRight(t, L!At(w, j))
    BY <1>3, NextIsRight
  <2> QED BY <2>1 DEF NextRight
<1>12. L!SkipSpaces(w, e) = j
  BY <1>1, <1>7, <1>11, SpacesSkipped
<1>13. ReadsOne(w, i, TRUE, n, j)
  BY <1>1, <1>5, <1>7, <1>8, <1>9, <1>12, ReferenceReads
<1>14. ReadsOne(w, i, t \in Accounts, TextOf(names, t), j)
  BY <1>3, <1>6, <1>13 DEF ReadsOne
<1>15. ReadTo(t, names, w, i, j)
  BY <1>1, <1>5, <1>6, <1>7, <1>10, <1>14, ReadsTo
<1> QED BY <1>3, <1>15

-----------------------------------------------------------------------------
(* All words of a text.                                                    *)
\* g[1] is e[1], ..., e[m] and what g[m + 1] is.
Chained(g, e, m) ==
  /\ Len(g[1]) = m + Len(g[m + 1]) /\ \A k \in 1 .. m : g[1][k] = e[k]
  /\ \A k \in 1 .. Len(g[m + 1]) : g[1][m + k] = g[m + 1][k]

LEMMA ChainNext ==
  ASSUME NEW R, NEW n \in Nat, NEW g \in [1 .. n + 1 -> Seq(R)], NEW e \in [1 .. n -> R],
         NEW m \in 0 .. n - 1, Chained(g, e, m), g[m + 1] = <<e[m + 1]>> \o g[m + 2]
  PROVE  Chained(g, e, m + 1)
<1>1. PICK a \in Seq(R), b \in Seq(R), x \in R, c \in Seq(R)
        : a = g[1] /\ b = g[m + 1] /\ x = e[m + 1] /\ c = g[m + 2]
  <2>1. 1 \in 1 .. n + 1 /\ m + 1 \in 1 .. n + 1 /\ m + 1 \in 1 .. n /\ m + 2 \in 1 .. n + 1
    OBVIOUS
  <2> QED BY <2>1
<1>2. b = <<x>> \o c
  BY <1>1
<1>3. PICK A \in Nat, B \in Nat, D \in Nat : A = Len(a) /\ B = Len(b) /\ D = Len(c)
  OBVIOUS
<1>4. B = D + 1 /\ b[1] = x /\ \A k \in 1 .. D : b[k + 1] = c[k]
  BY <1>2, <1>3
<1>5. A = m + B /\ (\A k \in 1 .. m : a[k] = e[k]) /\ (\A k \in 1 .. B : a[m + k] = b[k])
  BY <1>1, <1>3 DEF Chained
<1>6. A = (m + 1) + D
  BY <1>4, <1>5
<1>7. a[m + 1] = x
  <2>1. 1 \in 1 .. B
    BY <1>4
  <2> QED BY <1>4, <1>5, <2>1
<1>8. ASSUME NEW k \in 1 .. m + 1
      PROVE  a[k] = e[k]
  <2>1. CASE k = m + 1
    BY <1>1, <1>7, <2>1
  <2>2. CASE k # m + 1
    <3>1. k \in 1 .. m
      BY <2>2
    <3> QED BY <1>5, <3>1
  <2> QED BY <2>1, <2>2
<1>9. ASSUME NEW k \in 1 .. D
      PROVE  a[(m + 1) + k] = c[k]
  <2>1. PICK h \in 1 .. B : h = k + 1 /\ m + h = (m + 1) + k
    BY <1>4
  <2> QED BY <1>4, <1>5, <2>1
<1>10. (m + 1) + 1 = m + 2
  OBVIOUS
<1> QED BY <1>1, <1>3, <1>6, <1>8, <1>9, <1>10 DEF Chained

LEMMA ChainHolds ==
  ASSUME NEW R, NEW n \in Nat, NEW g \in [1 .. n + 1 -> Seq(R)], NEW e \in [1 .. n -> R],
         NEW M \in 0 .. n, \A m \in 1 .. M : g[m] = <<e[m]>> \o g[m + 1]
  PROVE  Chained(g, e, M)
<1> DEFINE G == {m \in 0 .. M : Chained(g, e, m)}
<1>1. 0 \in G
  <2>1. PICK a \in Seq(R) : a = g[1] /\ 0 + 1 = 1
    <3>1. 1 \in 1 .. n + 1
      OBVIOUS
    <3> QED BY <3>1
  <2>2. Len(a) = 0 + Len(a) /\ (\A k \in 1 .. 0 : FALSE) /\ \A k \in 1 .. Len(a) : 0 + k = k
    OBVIOUS
  <2>3. Chained(g, e, 0)
    BY <2>1, <2>2 DEF Chained
  <2> QED BY <2>3
<1>2. ASSUME NEW m \in 0 .. M - 1, m \in G
      PROVE  m + 1 \in G
  <2>1. m \in 0 .. n - 1 /\ m + 1 \in 1 .. M /\ (m + 1) + 1 = m + 2 /\ m + 1 \in 0 .. M
    OBVIOUS
  <2>2. g[m + 1] = <<e[m + 1]>> \o g[m + 2]
    BY <2>1
  <2>3. Chained(g, e, m)
    BY <1>2
  <2>4. Chained(g, e, m + 1)
    BY <2>1, <2>2, <2>3, ChainNext
  <2> QED BY <2>1, <2>4
<1> HIDE DEF G
<1>3. 0 .. M \subseteq G
  <2>1. M \in Nat
    OBVIOUS
  <2> QED BY <1>1, <1>2, <2>1, Stepwise
<1>4. M \in G
  BY <1>3
<1> QED BY <1>4 DEF G

\* The first M words are read, and then what stands at the next.
Heads(s, w, pos, M) ==
  LET rest == L!Lex(w)
  IN  \E f : /\ Lexing(w, f) /\ Len(rest) = M + Len(f[pos[M + 1]])
             /\ \A k \in 1 .. M : rest[k] = TokenOf(w, pos[k])
             /\ \A k \in 1 .. Len(f[pos[M + 1]]) : rest[M + k] = f[pos[M + 1]][k]

LEMMA FirstWords ==
  ASSUME NEW s, NEW names, NEW sep, NEW w, NEW pos, LaidOut(s, names, sep, w, pos), NEW M \in 0 .. Len(s),
         \A m \in 1 .. M : ReadTo(s[m], names, w, pos[m], pos[m + 1])
  PROVE  Heads(s, w, pos, M)
<1>1. PICK n \in Nat : n = Len(s)
  BY TextFacts DEF LaidOut
<1>2. PICK C : w \in Seq(C)
  BY DEF LaidOut, Laid, IsText
<1>3. PICK f : Lexing(w, f) /\ L!Lex(w) = f[1]
  BY <1>2, LexingExists
<1>4. PICK R : R = TokensOf(w)
  OBVIOUS
<1>5. \A m \in 1 .. n : pos[m] \in 1 .. Len(w)
  <2>1. ASSUME NEW m \in 1 .. n
        PROVE  pos[m] \in 1 .. Len(w)
    <3>1. \E x \in Nat : WordPlace(s[m], names, sep, w, pos[m], x, pos[m + 1])
      BY <1>1, WordPlaces
    <3> QED BY <3>1 DEF WordPlace
  <2> QED BY <2>1
<1>6. PICK W \in Nat : W = Len(w)
  BY <1>2
<1>7. \A m \in 1 .. n + 1 : pos[m] \in 1 .. Len(w) + 1
  <2>1. ASSUME NEW m \in 1 .. n + 1
        PROVE  pos[m] \in 1 .. W + 1
    <3>1. CASE m = n + 1
      <4>1. pos[m] = W + 1
        BY <1>1, <1>6, <3>1 DEF LaidOut, Laid
      <4> QED BY <4>1
    <3>2. CASE m # n + 1
      <4>1. m \in 1 .. n
        BY <3>2
      <4> QED BY <1>5, <1>6, <4>1
    <3> QED BY <3>1, <3>2
  <2> QED BY <1>6, <2>1
<1> DEFINE g == [m \in 1 .. n + 1 |-> f[pos[m]]]
           e == [m \in 1 .. n |-> TokenOf(w, pos[m])]
<1>8. g \in [1 .. n + 1 -> Seq(R)]
  <2>1. \A i \in 1 .. Len(w) + 1 : f[i] \in Seq(R)
    BY <1>3, <1>4 DEF Lexing
  <2> QED BY <1>7, <2>1
<1>9. e \in [1 .. n -> R]
  BY <1>4, <1>5 DEF TokensOf
<1>10. (\A m \in 1 .. n + 1 : g[m] = f[pos[m]]) /\ \A m \in 1 .. n : e[m] = TokenOf(w, pos[m])
  OBVIOUS
<1> HIDE DEF g, e
<1>11. \A m \in 1 .. M : g[m] = <<e[m]>> \o g[m + 1]
  <2>1. ASSUME NEW m \in 1 .. M
        PROVE  g[m] = <<e[m]>> \o g[m + 1]
    <3>1. m \in 1 .. n /\ m \in 1 .. n + 1 /\ m + 1 \in 1 .. n + 1
      BY <1>1
    <3>2. f[pos[m]] = <<TokenOf(w, pos[m])>> \o f[pos[m + 1]]
      BY <1>3 DEF ReadTo
    <3> QED BY <1>10, <3>1, <3>2
  <2> QED BY <2>1
<1>12. M \in 0 .. n
  BY <1>1
<1>13. Chained(g, e, M)
  BY <1>8, <1>9, <1>11, <1>12, ChainHolds
<1>14. g[1] = L!Lex(w) /\ g[M + 1] = f[pos[M + 1]] /\ \A k \in 1 .. M : e[k] = TokenOf(w, pos[k])
  <2>1. 1 \in 1 .. n + 1 /\ M + 1 \in 1 .. n + 1 /\ \A k \in 1 .. M : k \in 1 .. n
    BY <1>12
  <2>2. pos[1] = 1
    BY DEF LaidOut, Laid
  <2> QED BY <1>3, <1>10, <2>1, <2>2
<1> QED BY <1>3, <1>13, <1>14 DEF Chained, Heads

LEMMA AllWordsRead ==
  ASSUME NEW s, NEW names, NEW sep, NEW pos, LaidOut(s, names, sep, Written(s, names, sep), pos),
         \A m \in 1 .. Len(s) : ReadTo(s[m], names, Written(s, names, sep), pos[m], pos[m + 1])
  PROVE  IsRead(s, names, sep)
<1>1. PICK n \in Nat : n = Len(s) /\ DOMAIN s = 1 .. n
  BY TextFacts DEF LaidOut
<1>2. PICK w : w = Written(s, names, sep) /\ LaidOut(s, names, sep, w, pos)
  OBVIOUS
<1>3. n \in 0 .. Len(s) /\ \A m \in 1 .. n : ReadTo(s[m], names, w, pos[m], pos[m + 1])
  BY <1>1, <1>2
<1>4. Heads(s, w, pos, n)
  BY <1>2, <1>3, FirstWords
<1>5. PICK read : read = L!Lex(w)
  OBVIOUS
<1>6. PICK f : /\ Lexing(w, f) /\ Len(read) = n + Len(f[pos[n + 1]])
               /\ \A k \in 1 .. n : read[k] = TokenOf(w, pos[k])
  BY <1>4, <1>5 DEF Heads
<1>7. PICK W \in Nat : W = Len(w) /\ pos[n + 1] = W + 1
  <2>1. Len(w) \in Nat
    BY <1>2, TextFacts DEF LaidOut, Laid
  <2> QED BY <1>1, <1>2, <2>1 DEF LaidOut, Laid
<1>8. f[pos[n + 1]] = <<>>
  <2>1. f[W + 1] = LexFrom(w, W + 1, f)
    BY <1>6, <1>7 DEF Lexing
  <2>2. W + 1 > Len(w)
    BY <1>7
  <2> QED BY <1>7, <2>1, <2>2 DEF LexFrom
<1>9. Len(read) = n
  <2>1. Len(<<>>) = 0
    OBVIOUS
  <2> QED BY <1>6, <1>8, <2>1
<1>10. ASSUME NEW i \in 1 .. n
       PROVE  /\ read[i].text = IF s[i] \in Accounts THEN names[s[i]] ELSE Spelling[s[i]]
              /\ (read[i].kind = "ref") = (s[i] \in Accounts)
  <2>1. read[i] = TokenOf(w, pos[i])
    BY <1>6
  <2>2. /\ TokenOf(w, pos[i]).text = TextOf(names, s[i])
        /\ (TokenOf(w, pos[i]).kind = "ref") = (s[i] \in Accounts)
    BY <1>3 DEF ReadTo
  <2> QED BY <2>1, <2>2 DEF TextOf
<1> QED BY <1>1, <1>2, <1>5, <1>9, <1>10 DEF IsRead

\* The first name with two hyphens in a row is read wrong.
LEMMA NotAllWordsRead ==
  ASSUME NEW s, NEW names, NEW sep, NEW pos, LaidOut(s, names, sep, Written(s, names, sep), pos),
         sep # <<>>, ~Readable(s, names)
  PROVE  ~IsRead(s, names, sep)
<1> SUFFICES ASSUME IsRead(s, names, sep) PROVE FALSE
  OBVIOUS
<1>1. PICK n \in Nat : n = Len(s) /\ DOMAIN s = 1 .. n
  BY TextFacts DEF LaidOut
<1>2. PICK w : w = Written(s, names, sep) /\ LaidOut(s, names, sep, w, pos)
  OBVIOUS
<1> DEFINE S == {k \in 1 .. n : s[k] \in Accounts /\ ~L!HyphensApart(names[s[k]])}
<1>3. PICK b \in 1 .. n : b \in S
  BY <1>1 DEF Readable
<1>4. PICK m \in 1 .. b : m \in S /\ \A k \in 1 .. m - 1 : k \notin S
  <2>1. 1 \in Nat /\ b \in Nat /\ 1 <= b
    OBVIOUS
  <2> HIDE DEF S
  <2> QED BY <1>3, <2>1, FirstPlace, ZenonT(30)
<1>5. PICK M \in 0 .. n : M + 1 = m /\ m \in 1 .. n /\ M = m - 1
  <2>1. m - 1 \in 0 .. n /\ (m - 1) + 1 = m /\ m \in 1 .. n
    OBVIOUS
  <2> QED BY <2>1
<1>6. \A k \in 1 .. M : ReadTo(s[k], names, w, pos[k], pos[k + 1])
  <2>1. ASSUME NEW k \in 1 .. M
        PROVE  ReadTo(s[k], names, w, pos[k], pos[k + 1])
    <3>1. k \in 1 .. Len(s) /\ k \in 1 .. n /\ k \in 1 .. m - 1
      BY <1>1, <1>5
    <3>2. s[k] \in Accounts => L!HyphensApart(names[s[k]])
      BY <1>4, <3>1
    <3>3. CASE s[k] \in Accounts
      BY <1>2, <3>1, <3>2, <3>3, NameIsRead
    <3>4. CASE s[k] \notin Accounts
      BY <1>2, <3>1, <3>4, WordIsRead
    <3> QED BY <3>3, <3>4
  <2> QED BY <2>1
<1>7. PICK read : read = L!Lex(w)
  OBVIOUS
<1>8. PICK f : /\ Lexing(w, f) /\ \A k \in 1 .. Len(f[pos[M + 1]]) : read[M + k] = f[pos[M + 1]][k]
  <2>1. Heads(s, w, pos, M)
    BY <1>1, <1>2, <1>6, FirstWords
  <2> QED BY <1>7, <2>1 DEF Heads
<1>9. PICK C : w \in Seq(C)
  BY <1>2 DEF LaidOut, Laid, IsText
<1>10. PICK e \in Nat : WordPlace(s[m], names, sep, w, pos[m], e, pos[m + 1])
  BY <1>1, <1>2, <1>5, WordPlaces
<1> DEFINE t == s[m]
           i == pos[m]
           nm == names[s[m]]
<1>11. i \in Nat /\ i \in 1 .. Len(w) /\ StandsAt(w, i, Word(names, t)) /\ t \in Tokens /\ w[i] = Word(names, t)[1]
  BY <1>10 DEF WordPlace
<1>12. t \in Accounts /\ ~L!HyphensApart(nm)
  BY <1>4
<1> HIDE DEF t, i, nm, S
<1>13. nm \in Seq(Listed(nm)) /\ nm # <<>> /\ NameRules(nm) /\ ~Apart(nm) /\ nm = names[t]
  <2>1. nm = names[t]
    BY DEF nm, t
  <2>2. IsText(nm) /\ L!ValidMemberName(nm)
    BY <1>2, <1>12, <2>1 DEF LaidOut, NamesLegal
  <2> QED BY <1>12, <2>1, <2>2, ValidNames DEF IsText
<1>14. Word(names, t) = RefWord(nm) /\ ~IsSpace(w[i])
  <2>1. Word(names, t) = RefWord(nm) /\ FirstRight(t, Word(names, t))
    BY <1>2, <1>11, <1>12, <1>13, WordStarts DEF LaidOut
  <2> QED BY <1>11, <2>1, FirstChars
<1>15. L!LexToken(w, i).text # nm
  BY <1>9, <1>11, <1>13, <1>14, DoubleHyphenStops
<1>16. PICK y \in TokensOf(w) : y = TokenOf(w, i) /\ y.text # nm
  <2>1. TokenOf(w, i) \in TokensOf(w)
    BY <1>11 DEF TokensOf
  <2>2. TokenOf(w, i).text = L!LexToken(w, i).text
    BY DEF TokenOf
  <2> QED BY <1>15, <2>1, <2>2
<1>17. Len(f[i]) >= 1 /\ f[i][1] = y
  <2>1. PICK W \in Nat : W = Len(w)
    BY <1>9
  <2>2. i \in 1 .. Len(w) + 1 /\ ~(i > Len(w))
    BY <1>11, <2>1
  <2>3. f[i] = LexFrom(w, i, f)
    BY <1>8, <2>2 DEF Lexing
  <2>4. w[i] # " "
    BY <1>14 DEF IsSpace
  <2>5. CASE L!LexToken(w, i).text = <<>>
    <3>1. f[i] = <<y>>
      BY <1>16, <2>2, <2>3, <2>4, <2>5 DEF LexFrom
    <3> QED BY <3>1
  <2>6. CASE L!LexToken(w, i).text # <<>>
    <3>1. PICK j : j = L!LexToken(w, i).next
      OBVIOUS
    <3>2. j \in i + 1 .. Len(w) + 1
      BY <1>9, <1>11, <2>6, <3>1, TokenMoves
    <3>3. j \in 1 .. Len(w) + 1
      BY <2>1, <2>2, <3>2
    <3>4. PICK rest \in Seq(TokensOf(w)) : rest = f[j]
      BY <1>8, <3>3 DEF Lexing
    <3>5. f[i] = <<y>> \o rest
      BY <1>16, <2>2, <2>3, <2>4, <2>6, <3>1, <3>4 DEF LexFrom
    <3>6. Len(<<y>> \o rest) >= 1 /\ (<<y>> \o rest)[1] = y
      OBVIOUS
    <3> QED BY <3>5, <3>6
  <2> QED BY <2>5, <2>6
<1>18. read[m] = y
  <2>1. f[pos[M + 1]] = f[i]
    BY <1>5 DEF i
  <2>2. f[i] \in Seq(TokensOf(w))
    <3>1. i \in 1 .. Len(w) + 1
      <4>1. PICK W \in Nat : W = Len(w)
        BY <1>9
      <4> QED BY <1>11, <4>1
    <3> QED BY <1>8, <3>1 DEF Lexing
  <2>3. PICK one \in 1 .. Len(f[i]) : one = 1 /\ M + one = m
    <3>1. Len(f[i]) \in Nat
      BY <2>2
    <3>2. 1 \in 1 .. Len(f[i])
      BY <1>17, <3>1
    <3> QED BY <1>5, <3>2
  <2>4. read[M + one] = f[i][one]
    BY <1>8, <2>1, <2>3
  <2> QED BY <1>17, <2>3, <2>4
<1>19. read[m].text = nm
  <2>1. m \in DOMAIN s
    BY <1>1, <1>5
  <2>2. L!Lex(Written(s, names, sep))[m].text = IF s[m] \in Accounts THEN names[s[m]] ELSE Spelling[s[m]]
    BY <2>1 DEF IsRead
  <2> QED BY <1>2, <1>7, <1>12, <2>2 DEF t, nm
<1> QED BY <1>16, <1>18, <1>19

\* Whatever the accounts are named, a formula is read as it was written.
LEMMA FormulaRoundTrips ==
  ASSUME NEW s, IsText(s), Parse(s) # NotAFormula, NEW names, NamesLegal(names)
  PROVE  /\ IsRead(s, names, <<" ">>) <=> Readable(s, names)
         /\ Readable(s, names) /\ ~Hyphenated(s) => IsRead(s, names, <<>>)
<1>1. Phrase(s, 1, Len(s))
  BY FormulaIsPhrase
<1>2. PICK n \in Nat : n = Len(s) /\ DOMAIN s = 1 .. n
  BY TextFacts
<1>3. ASSUME NEW sep \in Seps
      PROVE  \E pos : LaidOut(s, names, sep, Written(s, names, sep), pos)
  BY <1>1, <1>3, WrittenIsLaid DEF LaidOut
<1>4. ASSUME NEW sep \in Seps, Readable(s, names), sep = <<>> => ~Hyphenated(s)
      PROVE  IsRead(s, names, sep)
  <2>1. PICK pos : LaidOut(s, names, sep, Written(s, names, sep), pos)
    BY <1>3
  <2>2. PICK w : w = Written(s, names, sep)
    OBVIOUS
  <2>3. ASSUME NEW m \in 1 .. Len(s)
        PROVE  ReadTo(s[m], names, w, pos[m], pos[m + 1])
    <3>1. LaidOut(s, names, sep, w, pos)
      BY <2>1, <2>2
    <3>2. CASE s[m] \in Accounts
      <4>1. L!HyphensApart(names[s[m]])
        BY <1>2, <1>4, <3>2 DEF Readable
      <4> QED BY <1>4, <3>1, <3>2, <4>1, NameIsRead
    <3>3. CASE s[m] \notin Accounts
      BY <3>1, <3>3, WordIsRead
    <3> QED BY <3>2, <3>3
  <2> QED BY <2>1, <2>2, <2>3, AllWordsRead
<1>5. PICK sp : sp = <<" ">> /\ sp \in Seps /\ sp # <<>>
  BY DEF Seps
<1>6. PICK none : none = <<>> /\ none \in Seps
  BY DEF Seps
<1>7. Readable(s, names) => IsRead(s, names, sp)
  BY <1>4, <1>5
<1>8. ~Readable(s, names) => ~IsRead(s, names, sp)
  <2>1. PICK pos : LaidOut(s, names, sp, Written(s, names, sp), pos)
    BY <1>3, <1>5
  <2> QED BY <1>5, <2>1, NotAllWordsRead
<1>9. Readable(s, names) /\ ~Hyphenated(s) => IsRead(s, names, none)
  BY <1>4, <1>6
<1> QED BY <1>5, <1>6, <1>7, <1>8, <1>9

LEMMA RenamedLegal ==
  ASSUME NEW a \in Accounts, NEW n \in OtherNames, L!ValidMemberName(n)
  PROVE  NamesLegal([AccountName EXCEPT ![a] = n])
<1> DEFINE names == [AccountName EXCEPT ![a] = n]
<1>1. \A b \in Accounts : names[b] = IF b = a THEN n ELSE AccountName[b]
  BY NamesAssumption
<1>2. IsText(n) /\ \A b \in Accounts : IsText(AccountName[b]) /\ L!ValidMemberName(AccountName[b])
  BY NamesAssumption
<1> HIDE DEF names
<1>3. NamesLegal(names)
  BY <1>1, <1>2 DEF NamesLegal
<1> QED BY <1>3 DEF names

\* A legal member name round-trips as a reference (dims.go:73-79 on what
\* lexRefName and lex of parser.go:68-202 read): in every formula, whatever
\* legal names its accounts have, the lexer reads the tokens that were written
\* if and only if none of the names has two hyphens in a row; and touching
\* tokens as well, unless a minus touches the reference before it.
THEOREM LegalNamesRoundTrip == Spec => []NamesAreReferable
<1>1. FInv => NamesAreReferable
  <2> SUFFICES ASSUME FInv, Parse(draft) # NotAFormula,
                      NEW n \in {n \in OtherNames : L!ValidMemberName(n)}, NEW a \in Listed(draft) \cap Accounts
               PROVE  LET names == [AccountName EXCEPT ![a] = n]
                      IN  /\ IsRead(draft, names, <<" ">>) = Readable(draft, names)
                          /\ Readable(draft, names) /\ ~Hyphenated(draft) => IsRead(draft, names, <<>>)
    BY DEF NamesAreReferable
  <2>1. IsText(draft)
    BY DEF FInv, TextsInv
  <2>2. PICK names : names = [AccountName EXCEPT ![a] = n] /\ NamesLegal(names)
    BY RenamedLegal
  <2>3. /\ IsRead(draft, names, <<" ">>) <=> Readable(draft, names)
        /\ Readable(draft, names) /\ ~Hyphenated(draft) => IsRead(draft, names, <<>>)
    BY <2>1, <2>2, FormulaRoundTrips
  <2>4. IsRead(draft, names, <<" ">>) \in BOOLEAN /\ Readable(draft, names) \in BOOLEAN
    BY DEF IsRead, Readable
  <2> QED BY <2>2, <2>3, <2>4
<1> QED BY <1>1, FormulasInvariant, PTL
=============================================================================
