--------------------------- MODULE DimensionProofs --------------------------
(***************************************************************************)
(* Proofs that the two records of every link of a stored dimension agree,  *)
(* that it never closes into a cycle, and that it implements the forest    *)
(* the rest of the program takes it for, for any set of names.             *)
(***************************************************************************)
EXTENDS Dimension, TLAPS

-----------------------------------------------------------------------------
(* What the two operations on lists do, on lists without repetition.       *)

\* Taking a name out of a list leaves the others, each still once.
LEMMA WithoutProperties ==
  ASSUME NEW S, NEW list \in Seq(S), NEW x, Once(list)
  PROVE  /\ Without(list, x) \in Seq(S)
         /\ Listed(Without(list, x)) = Listed(list) \ {x}
         /\ Once(Without(list, x))
<1>1. CASE x \notin Listed(list)
  BY <1>1 DEF Without
<1>2. CASE x \in Listed(list)
  <2> DEFINE i == CHOOSE i \in DOMAIN list : list[i] = x
             n == Len(list)
             w == [j \in 1 .. n - 1 |-> IF j < i THEN list[j] ELSE list[j + 1]]
  <2>1. i \in 1 .. n /\ list[i] = x
    BY <1>2 DEF Listed
  <2>2. n \in Nat /\ \A j \in 1 .. n : list[j] \in S
    OBVIOUS
  <2>3. Without(list, x) = w
    BY <1>2 DEF Without
  <2> HIDE DEF i
  <2>4. w \in Seq(S) /\ Len(w) = n - 1
    BY <2>1, <2>2
  <2>5. \A j \in 1 .. n - 1 : w[j] = IF j < i THEN list[j] ELSE list[j + 1]
    OBVIOUS
  <2>6. \A j, k \in 1 .. n : list[j] = list[k] => j = k
    BY DEF Once
  <2>7. DOMAIN w = 1 .. n - 1 /\ DOMAIN list = 1 .. n
    OBVIOUS
  <2> HIDE DEF w
  <2>8. Listed(w) \subseteq Listed(list) \ {x}
    BY <2>1, <2>2, <2>5, <2>6, <2>7 DEF Listed
  <2>9. ASSUME NEW y \in Listed(list) \ {x}
        PROVE  y \in Listed(w)
    <3>1. PICK j \in 1 .. n : list[j] = y
      BY <2>7 DEF Listed
    <3>2. j # i
      BY <2>1, <3>1
    <3>3. CASE j < i
      <4>1. j \in 1 .. n - 1 /\ w[j] = y
        BY <2>1, <2>2, <2>5, <3>1, <3>3
      <4> QED BY <4>1, <2>7 DEF Listed
    <3>4. CASE j > i
      <4>1. j - 1 \in 1 .. n - 1 /\ ~(j - 1 < i) /\ (j - 1) + 1 = j
        BY <2>1, <2>2, <3>4
      <4>2. w[j - 1] = y
        BY <2>5, <3>1, <4>1
      <4> QED BY <4>1, <4>2, <2>7 DEF Listed
    <3> QED BY <2>1, <3>2, <3>3, <3>4
  <2>10. Once(w)
    BY <2>1, <2>2, <2>5, <2>6, <2>7 DEF Once
  <2> QED BY <2>3, <2>4, <2>8, <2>9, <2>10
<1> QED BY <1>1, <1>2

\* A name that is not listed is appended once.
LEMMA AppendOnce ==
  ASSUME NEW S, NEW list \in Seq(S), NEW x \in S, Once(list), x \notin Listed(list)
  PROVE  /\ Append(list, x) \in Seq(S)
         /\ Listed(Append(list, x)) = Listed(list) \cup {x}
         /\ Once(Append(list, x))
<1> DEFINE n == Len(list)
           w == Append(list, x)
<1>1. /\ n \in Nat /\ DOMAIN list = 1 .. n
      /\ w \in Seq(S) /\ DOMAIN w = 1 .. n + 1
      /\ w[n + 1] = x /\ \A i \in 1 .. n : w[i] = list[i]
  OBVIOUS
<1> HIDE DEF n, w
<1>2. Listed(w) = Listed(list) \cup {x}
  BY <1>1 DEF Listed
<1>3. Once(w)
  BY <1>1 DEF Once, Listed
<1> QED BY <1>1, <1>2, <1>3 DEF w

-----------------------------------------------------------------------------
(* The inductive invariant, one step at a time.                            *)

\* The walk upwards from p meets p, and the parent of whatever it meets.
LEMMA PathIsClosed ==
  ASSUME NEW p \in Members, NoParent \notin Members
  PROVE  /\ p \in PathToRoot(p)
         /\ \A y \in PathToRoot(p) : parent[y] \in Members => parent[y] \in PathToRoot(p)
BY DEF PathToRoot, ClosedAbove

\* A set of members none of which has its parent outside, which is what a
\* cycle would be, is empty.
LEMMA NoCycle ==
  ASSUME Acyclic, NEW S \in SUBSET Members, \A y \in S : parent[y] \in S
  PROVE  S = {}
BY DEF Acyclic

\* What the invariant gives of the lists.
LEMMA Lists ==
  ASSUME IInv
  PROVE  /\ NoParent \notin Members /\ Members \subseteq Names
         /\ DOMAIN children = Members
         /\ \A y \in Members : /\ children[y] \in Seq(Names)
                               /\ Once(children[y])
                               /\ Listed(children[y]) = {z \in Members : parent[z] = y}
                               /\ parent[y] \in Members \cup {NoParent}
         /\ roots \in Seq(Names) /\ Once(roots)
         /\ Listed(roots) = {z \in Members : parent[z] = NoParent}
BY NamesAssumption DEF IInv, TypeOK, LinksAgree

LEMMA AddPreserves ==
  ASSUME IInv, NEW x \in Names, NEW p \in Names \cup {NoParent}, AddMember(x, p)
  PROVE  IInv'
<1>1. /\ x \notin Members /\ p \in Members \cup {NoParent}
      /\ p # x /\ x # NoParent
  BY NamesAssumption DEF AddMember
<1>2. /\ NoParent \notin Members /\ Members \subseteq Names
      /\ DOMAIN children = Members
      /\ roots \in Seq(Names) /\ Once(roots)
      /\ Listed(roots) = {z \in Members : parent[z] = NoParent}
  BY Lists
<1>3. \A y \in Members : /\ children[y] \in Seq(Names)
                         /\ Once(children[y])
                         /\ Listed(children[y]) = {z \in Members : parent[z] = y}
                         /\ parent[y] \in Members \cup {NoParent}
  BY Lists
<1>4. /\ parent' = [y \in Members \cup {x} |-> IF y = x THEN p ELSE parent[y]]
      /\ Members' = Members \cup {x}
  BY DEF AddMember, Members
<1>5. children' = [y \in Members \cup {x} |-> IF y = x THEN <<>>
                                              ELSE IF y = p THEN Append(children[y], x)
                                              ELSE children[y]]
  BY <1>1 DEF AddMember, Linked
<1>6. \A y \in Members : /\ Append(children[y], x) \in Seq(Names)
                         /\ Listed(Append(children[y], x)) = Listed(children[y]) \cup {x}
                         /\ Once(Append(children[y], x))
  <2>1. \A y \in Members : x \notin Listed(children[y])
    BY <1>1, <1>3
  <2> QED BY <1>3, <2>1, AppendOnce
<1>7. /\ Append(roots, x) \in Seq(Names)
      /\ Listed(Append(roots, x)) = Listed(roots) \cup {x}
      /\ Once(Append(roots, x))
  <2>1. x \notin Listed(roots)
    BY <1>1, <1>2
  <2> QED BY <1>2, <2>1, AppendOnce
<1>8. roots' = IF p = NoParent THEN Append(roots, x) ELSE roots
  BY DEF AddMember, Rooted
<1>9. <<>> \in Seq(Names) /\ Listed(<<>>) = {} /\ Once(<<>>)
  BY DEF Listed, Once
<1>10. TypeOK'
  <2>1. parent' \in [Members' -> Names \cup {NoParent}]
    BY <1>1, <1>2, <1>3, <1>4
  <2>2. children' \in [Members' -> Seq(Names)]
    BY <1>3, <1>4, <1>5, <1>6, <1>9
  <2>3. roots' \in Seq(Names) /\ Members' \subseteq Names
    BY <1>2, <1>4, <1>7, <1>8
  <2> QED BY <2>1, <2>2, <2>3 DEF TypeOK
<1>11. LinksAgree'
  <2>1. ASSUME NEW y \in Members'
        PROVE  /\ parent'[y] \in Members' \cup {NoParent}
               /\ Once(children'[y])
               /\ Listed(children'[y]) = {z \in Members' : parent'[z] = y}
    <3>1. parent'[y] \in Members' \cup {NoParent}
      BY <1>1, <1>3, <1>4
    <3>2. CASE y = x
      BY <1>1, <1>3, <1>4, <1>5, <1>9, <3>1, <3>2
    <3>3. CASE y # x /\ y = p
      BY <1>1, <1>3, <1>4, <1>5, <1>6, <3>1, <3>3
    <3>4. CASE y # x /\ y # p
      BY <1>1, <1>3, <1>4, <1>5, <3>1, <3>4
    <3> QED BY <3>2, <3>3, <3>4
  <2>2. Once(roots') /\ Listed(roots') = {z \in Members' : parent'[z] = NoParent}
    BY <1>1, <1>2, <1>4, <1>7, <1>8
  <2> QED BY <2>1, <2>2 DEF LinksAgree, Once, Listed
<1>12. Acyclic'
  <2> SUFFICES ASSUME NEW S \in SUBSET Members', S # {}, \A y \in S : parent'[y] \in S
               PROVE  FALSE
    BY DEF Acyclic
  \* Nothing has the new member for its parent, so what is left of S without
  \* it is closed among the old members.
  <2>1. S \ {x} \in SUBSET Members /\ \A y \in S \ {x} : parent[y] \in S \ {x}
    BY <1>1, <1>3, <1>4
  <2>2. S \ {x} = {}
    BY <2>1, NoCycle DEF IInv
  <2>3. p \in S \ {x}
    BY <1>1, <1>4, <2>2
  <2> QED BY <2>2, <2>3
<1> QED BY <1>10, <1>11, <1>12 DEF IInv

\* A member taken out of the list it stands in is in none any more, and the
\* other links stay as they were: the first half of a move and of a removal.
LEMMA Unlinking ==
  ASSUME IInv, NEW x \in Members
  PROVE  /\ DOMAIN Unlinked(children, parent[x], x) = Members
         /\ \A y \in Members :
              /\ Unlinked(children, parent[x], x)[y] \in Seq(Names)
              /\ Once(Unlinked(children, parent[x], x)[y])
              /\ Listed(Unlinked(children, parent[x], x)[y])
                   = {z \in Members \ {x} : parent[z] = y}
         /\ Unrooted(x) \in Seq(Names) /\ Once(Unrooted(x))
         /\ Listed(Unrooted(x)) = {z \in Members \ {x} : parent[z] = NoParent}
<1> DEFINE un == Unlinked(children, parent[x], x)
<1>1. /\ DOMAIN children = Members
      /\ roots \in Seq(Names) /\ Once(roots)
      /\ Listed(roots) = {z \in Members : parent[z] = NoParent}
  BY Lists
<1>2. ASSUME NEW y \in Members
      PROVE  /\ un[y] \in Seq(Names) /\ Once(un[y])
             /\ Listed(un[y]) = {z \in Members \ {x} : parent[z] = y}
  <2>1. /\ children[y] \in Seq(Names) /\ Once(children[y])
        /\ Listed(children[y]) = {z \in Members : parent[z] = y}
    BY Lists
  <2>2. un[y] = IF y = parent[x] THEN Without(children[y], x) ELSE children[y]
    BY <1>1 DEF Unlinked
  <2>3. /\ Without(children[y], x) \in Seq(Names) /\ Once(Without(children[y], x))
        /\ Listed(Without(children[y], x)) = Listed(children[y]) \ {x}
    BY <2>1, WithoutProperties
  <2> HIDE DEF un
  <2> QED BY <2>1, <2>2, <2>3
<1>3. /\ Without(roots, x) \in Seq(Names) /\ Once(Without(roots, x))
      /\ Listed(Without(roots, x)) = Listed(roots) \ {x}
  BY <1>1, WithoutProperties
<1>4. /\ Unrooted(x) \in Seq(Names) /\ Once(Unrooted(x))
      /\ Listed(Unrooted(x)) = {z \in Members \ {x} : parent[z] = NoParent}
  BY <1>1, <1>3 DEF Unrooted
<1>5. DOMAIN un = Members
  BY <1>1 DEF Unlinked
<1> QED BY <1>2, <1>4, <1>5

LEMMA MovePreserves ==
  ASSUME IInv, NEW x \in Names, NEW p \in Names \cup {NoParent}, MoveMember(x, p)
  PROVE  IInv'
<1> DEFINE un == Unlinked(children, parent[x], x)
           rest == Unrooted(x)
<1>1. /\ x \in Members /\ x # NoParent
      /\ p \in Members \cup {NoParent} /\ MayMove(x, p)
  BY NamesAssumption DEF MoveMember, MayMove
<1>2. /\ NoParent \notin Members /\ Members \subseteq Names
      /\ \A y \in Members : parent[y] \in Members \cup {NoParent}
  BY Lists
<1>3. /\ DOMAIN un = Members
      /\ \A y \in Members : /\ un[y] \in Seq(Names) /\ Once(un[y])
                            /\ Listed(un[y]) = {z \in Members \ {x} : parent[z] = y}
      /\ rest \in Seq(Names) /\ Once(rest)
      /\ Listed(rest) = {z \in Members \ {x} : parent[z] = NoParent}
  BY <1>1, Unlinking
<1>4. /\ Members' = Members
      /\ parent \in [Members -> Names \cup {NoParent}]
      /\ parent' \in [Members -> Names \cup {NoParent}]
      /\ \A y \in Members : parent'[y] = IF y = x THEN p ELSE parent[y]
  BY <1>1 DEF MoveMember, Members, IInv, TypeOK
<1>5. children' = [y \in Members |-> IF y = p THEN Append(un[y], x) ELSE un[y]]
  BY <1>3 DEF MoveMember, Linked
<1>6. roots' = IF p = NoParent THEN Append(rest, x) ELSE rest
  BY DEF MoveMember, Rooted
<1> HIDE DEF un, rest
<1>7. \A y \in Members : /\ Append(un[y], x) \in Seq(Names)
                         /\ Listed(Append(un[y], x)) = Listed(un[y]) \cup {x}
                         /\ Once(Append(un[y], x))
  <2>1. \A y \in Members : x \notin Listed(un[y])
    BY <1>3
  <2> QED BY <1>3, <2>1, AppendOnce
<1>8. /\ Append(rest, x) \in Seq(Names)
      /\ Listed(Append(rest, x)) = Listed(rest) \cup {x}
      /\ Once(Append(rest, x))
  <2>1. x \notin Listed(rest)
    BY <1>3
  <2> QED BY <1>3, <2>1, AppendOnce
<1>9. TypeOK'
  <2>1. children' \in [Members' -> Seq(Names)]
    BY <1>3, <1>4, <1>5, <1>7
  <2>2. roots' \in Seq(Names) /\ Members' \subseteq Names
    BY <1>2, <1>3, <1>4, <1>6, <1>8
  <2> QED BY <1>4, <2>1, <2>2 DEF TypeOK
<1>10. LinksAgree'
  <2>1. ASSUME NEW y \in Members'
        PROVE  /\ parent'[y] \in Members' \cup {NoParent}
               /\ Once(children'[y])
               /\ Listed(children'[y]) = {z \in Members' : parent'[z] = y}
    <3>1. parent'[y] \in Members' \cup {NoParent}
      BY <1>1, <1>2, <1>4
    <3>2. CASE y = p
      <4>1. children'[y] = Append(un[y], x)
        BY <1>4, <1>5, <3>2
      <4>2. Listed(un[y]) \cup {x} = {z \in Members : parent'[z] = y}
        BY <1>1, <1>3, <1>4, <3>2
      <4> QED BY <1>4, <1>7, <3>1, <4>1, <4>2
    <3>3. CASE y # p
      <4>1. children'[y] = un[y]
        BY <1>4, <1>5, <3>3
      <4>2. Listed(un[y]) = {z \in Members : parent'[z] = y}
        BY <1>1, <1>3, <1>4, <3>3
      <4> QED BY <1>3, <1>4, <3>1, <4>1, <4>2
    <3> QED BY <3>2, <3>3
  <2>2. Once(roots') /\ Listed(roots') = {z \in Members' : parent'[z] = NoParent}
    <3>1. CASE p = NoParent
      BY <1>1, <1>3, <1>4, <1>6, <1>8, <3>1
    <3>2. CASE p # NoParent
      BY <1>1, <1>3, <1>4, <1>6, <3>2
    <3> QED BY <3>1, <3>2
  <2> QED BY <2>1, <2>2 DEF LinksAgree, Once, Listed
<1>11. Acyclic'
  <2> SUFFICES ASSUME NEW S \in SUBSET Members, S # {}, \A y \in S : parent'[y] \in S
               PROVE  FALSE
    BY <1>4 DEF Acyclic
  \* A new cycle runs over the new link, from x to p; but the old walk up from
  \* p does not meet x, and so what S has of it was closed before the move.
  <2>1. x \in S
    <3>1. SUFFICES ASSUME x \notin S PROVE FALSE
      OBVIOUS
    <3>2. \A y \in S : parent[y] \in S
      BY <1>4, <3>1
    <3> QED BY <3>2, NoCycle DEF IInv
  <2>2. p \in S /\ p \in Members /\ p # NoParent
    BY <1>1, <1>2, <1>4, <2>1
  <2>3. x \notin PathToRoot(p)
    BY <1>1, <2>2 DEF MayMove
  <2>4. /\ p \in PathToRoot(p)
        /\ \A y \in PathToRoot(p) : parent[y] \in Members => parent[y] \in PathToRoot(p)
    BY <1>2, <2>2, PathIsClosed
  <2> DEFINE T == S \cap PathToRoot(p)
  <2>5. T \in SUBSET Members /\ \A y \in T : parent[y] \in T
    BY <1>4, <2>3, <2>4
  <2>6. T = {}
    BY <2>5, NoCycle DEF IInv
  <2> QED BY <2>2, <2>4, <2>6
<1> QED BY <1>9, <1>10, <1>11 DEF IInv

\* What a removal takes away is a whole subtree: all that hangs below one of
\* its members, and nothing that hangs elsewhere except the member removed.
LEMMA DoomedIsSubtree ==
  ASSUME IInv, NEW x \in Members
  PROVE  /\ x \in Doomed(x) /\ Doomed(x) \subseteq Members
         /\ \A z \in Members : parent[z] \in Doomed(x) => z \in Doomed(x)
         /\ \A z \in Doomed(x) \ {x} : parent[z] \in Doomed(x)
<1> DEFINE D == Doomed(x)
<1>1. \A y \in Members : Listed(children[y]) = {z \in Members : parent[z] = y}
  BY Lists
<1>2. x \in D /\ D \subseteq Members
  BY DEF Doomed
<1>3. ASSUME NEW S \in SUBSET Members, x \in S,
             \A z \in Members : parent[z] \in S => z \in S
      PROVE  D \subseteq S
  <2>1. ClosedBelow(S)
    BY <1>1, <1>3 DEF ClosedBelow
  <2> QED BY <1>3, <2>1 DEF Doomed
<1>4. ASSUME NEW z \in Members, parent[z] \in D
      PROVE  z \in D
  <2>1. z \in Listed(children[parent[z]])
    BY <1>1, <1>2, <1>4
  <2>2. \A S \in SUBSET Members : x \in S /\ ClosedBelow(S) => z \in S
    BY <1>4, <2>1 DEF Doomed, ClosedBelow
  <2> QED BY <2>2 DEF Doomed
\* Without a member whose parent stays, the subtree would still be closed.
<1>5. ASSUME NEW z \in D \ {x}, parent[z] \notin D
      PROVE  FALSE
  <2> HIDE DEF D
  <2> DEFINE S == D \ {z}
  <2>1. S \in SUBSET Members /\ x \in S
    BY <1>2
  <2>2. \A w \in Members : parent[w] \in S => w \in S
    BY <1>4, <1>5
  <2>3. D \subseteq S
    BY <1>3, <2>1, <2>2
  <2> QED BY <2>3
<1> QED BY <1>2, <1>4, <1>5

LEMMA RemovePreserves ==
  ASSUME IInv, NEW x \in Names, NEW recursive \in BOOLEAN, RemoveMember(x, recursive)
  PROVE  IInv'
<1> DEFINE D == Doomed(x)
           un == Unlinked(children, parent[x], x)
<1>1. x \in Members
  BY DEF RemoveMember
<1>2. /\ NoParent \notin Members /\ Members \subseteq Names
      /\ \A y \in Members : parent[y] \in Members \cup {NoParent}
  BY Lists
<1>3. /\ \A y \in Members : /\ un[y] \in Seq(Names) /\ Once(un[y])
                            /\ Listed(un[y]) = {z \in Members \ {x} : parent[z] = y}
      /\ Unrooted(x) \in Seq(Names) /\ Once(Unrooted(x))
      /\ Listed(Unrooted(x)) = {z \in Members \ {x} : parent[z] = NoParent}
  BY <1>1, Unlinking
<1>4. /\ x \in D /\ D \subseteq Members
      /\ \A z \in Members : parent[z] \in D => z \in D
      /\ \A z \in D \ {x} : parent[z] \in D
  BY <1>1, DoomedIsSubtree
<1>5. /\ parent' = [y \in Members \ D |-> parent[y]]
      /\ children' = [y \in Members \ D |-> un[y]]
      /\ roots' = Unrooted(x)
      /\ Members' = Members \ D
  BY DEF RemoveMember, Members
<1> HIDE DEF D, un
<1>6. TypeOK'
  <2>1. parent' \in [Members' -> Names \cup {NoParent}]
    BY <1>2, <1>5
  <2>2. children' \in [Members' -> Seq(Names)]
    BY <1>3, <1>5
  <2> QED BY <1>2, <1>3, <1>5, <2>1, <2>2 DEF TypeOK
<1>7. LinksAgree'
  <2>1. ASSUME NEW y \in Members'
        PROVE  /\ parent'[y] \in Members' \cup {NoParent}
               /\ Once(children'[y])
               /\ Listed(children'[y]) = {z \in Members' : parent'[z] = y}
    <3>1. parent'[y] \in Members' \cup {NoParent}
      BY <1>2, <1>4, <1>5
    <3>2. y \in Members /\ y \notin D /\ children'[y] = un[y]
      BY <1>5
    <3>3. {z \in Members \ {x} : parent[z] = y} = {z \in Members' : parent'[z] = y}
      BY <1>4, <1>5, <3>2
    <3> QED BY <1>3, <3>1, <3>2, <3>3
  <2>2. Once(roots') /\ Listed(roots') = {z \in Members' : parent'[z] = NoParent}
    <3>1. {z \in Members \ {x} : parent[z] = NoParent}
            = {z \in Members' : parent'[z] = NoParent}
      BY <1>2, <1>4, <1>5
    <3> QED BY <1>3, <1>5, <3>1
  <2> QED BY <2>1, <2>2 DEF LinksAgree, Once, Listed
<1>8. Acyclic'
  <2> SUFFICES ASSUME NEW S \in SUBSET Members', S # {}, \A y \in S : parent'[y] \in S
               PROVE  FALSE
    BY DEF Acyclic
  <2>1. S \in SUBSET Members /\ \A y \in S : parent[y] \in S
    BY <1>5
  <2> QED BY <2>1, NoCycle DEF IInv
<1> QED BY <1>6, <1>7, <1>8 DEF IInv

LEMMA InitEstablishes == Init => IInv
<1> SUFFICES ASSUME Init PROVE IInv
  OBVIOUS
<1>1. Members = {} /\ roots = <<>>
  BY DEF Init, Members
<1>2. TypeOK
  BY <1>1 DEF Init, TypeOK
<1>3. LinksAgree
  BY <1>1 DEF LinksAgree, Once, Listed
<1>4. Acyclic
  BY <1>1 DEF Acyclic
<1> QED BY <1>2, <1>3, <1>4 DEF IInv

LEMMA Invariance == Spec => []IInv
<1>1. IInv /\ [Next]_vars => IInv'
  <2> SUFFICES ASSUME IInv, [Next]_vars PROVE IInv'
    OBVIOUS
  <2>1. ASSUME NEW x \in Names, NEW p \in Names \cup {NoParent}, AddMember(x, p)
        PROVE  IInv'
    BY <2>1, AddPreserves
  <2>2. ASSUME NEW x \in Names, NEW p \in Names \cup {NoParent}, MoveMember(x, p)
        PROVE  IInv'
    BY <2>2, MovePreserves
  <2>3. ASSUME NEW x \in Names, NEW recursive \in BOOLEAN, RemoveMember(x, recursive)
        PROVE  IInv'
    BY <2>3, RemovePreserves
  <2>4. CASE UNCHANGED vars
    BY <2>4 DEF vars, IInv, TypeOK, LinksAgree, Acyclic, Members, Once, Listed
  <2> QED BY <2>1, <2>2, <2>3, <2>4 DEF Next
<1> QED BY <1>1, InitEstablishes, PTL DEF Spec

\* Parents, children and roots stay names, over the same members.
THEOREM TypeCorrect == Spec => []TypeOK
<1>1. IInv => TypeOK
  BY DEF IInv
<1> QED BY <1>1, Invariance, PTL

\* However members are added, moved and removed, the parent a member names and
\* the list it stands in never disagree, and no list has a name twice.
THEOREM LinksAlwaysAgree == Spec => []LinksAgree
<1>1. IInv => LinksAgree
  BY DEF IInv
<1> QED BY <1>1, Invariance, PTL

\* No sequence of moves makes a member its own ancestor, so the program's
\* walks over a dimension end.
THEOREM NeverACycle == Spec => []Acyclic
<1>1. IInv => Acyclic
  BY DEF IInv
<1> QED BY <1>1, Invariance, PTL

-----------------------------------------------------------------------------
(* The refinement of the forest.                                           *)

\* The subtree found through the children lists is the one the parents give.
LEMMA SameSubtree ==
  ASSUME IInv, NEW x \in Members
  PROVE  Forest!AtOrBelow(x) = Doomed(x)
<1>1. \A y \in Members : Listed(children[y]) = {z \in Members : parent[z] = y}
  BY Lists
<1>2. \A S \in SUBSET Members : ClosedBelow(S) <=> Forest!ClosedBelow(S)
  BY <1>1 DEF ClosedBelow, Forest!ClosedBelow, Forest!Members, Members
<1> QED BY <1>2 DEF Doomed, Forest!AtOrBelow, Forest!Members, Members

\* A member that does not meet x on its walk upwards does not hang below x.
LEMMA WalkFindsSubtree ==
  ASSUME IInv, NEW x \in Members, NEW p \in Members, x \notin PathToRoot(p)
  PROVE  p \notin Forest!AtOrBelow(x)
<1> DEFINE T == {y \in Members : x \in PathToRoot(y)}
<1>1. NoParent \notin Members
  BY Lists
<1>2. T \in SUBSET Members /\ x \in T /\ p \notin T
  BY DEF PathToRoot
<1>3. ASSUME NEW y \in Members, parent[y] \in T
      PROVE  y \in T
  <2>1. ASSUME NEW S \in SUBSET Members, y \in S, ClosedAbove(S)
        PROVE  x \in S
    <3>1. parent[y] \in S
      BY <1>1, <1>3, <2>1 DEF ClosedAbove
    <3>2. x \in PathToRoot(parent[y])
      BY <1>3
    <3> QED BY <2>1, <3>1, <3>2 DEF PathToRoot
  <2> QED BY <2>1 DEF PathToRoot
<1>4. Forest!ClosedBelow(T)
  BY <1>3 DEF Forest!ClosedBelow, Forest!Members, Members
<1> QED BY <1>2, <1>4 DEF Forest!AtOrBelow, Forest!Members, Members

LEMMA ForestStep == IInv /\ [Next]_vars => [Forest!Next]_parent
<1> SUFFICES ASSUME IInv, [Next]_vars PROVE [Forest!Next]_parent
  OBVIOUS
<1>1. ASSUME NEW x \in Names, NEW p \in Names \cup {NoParent}, AddMember(x, p)
      PROVE  Forest!Next
  <2>1. Forest!Add(x, p)
    BY <1>1 DEF AddMember, Forest!Add, Forest!Members, Members
  <2> QED BY <2>1 DEF Forest!Next
<1>2. ASSUME NEW x \in Names, NEW p \in Names \cup {NoParent}, MoveMember(x, p)
      PROVE  Forest!Next
  <2>1. /\ x \in Members /\ p \in Members \cup {NoParent} /\ MayMove(x, p)
        /\ parent' = [parent EXCEPT ![x] = p]
    BY <1>2 DEF MoveMember, MayMove
  <2>2. p \in Members /\ p # NoParent => p \notin Forest!AtOrBelow(x)
    BY <2>1, WalkFindsSubtree DEF MayMove
  <2>3. Forest!Move(x, p)
    BY <2>1, <2>2 DEF Forest!Move, Forest!Members, Members
  <2> QED BY <2>3 DEF Forest!Next
<1>3. ASSUME NEW x \in Names, NEW recursive \in BOOLEAN, RemoveMember(x, recursive)
      PROVE  Forest!Next
  <2>1. x \in Members /\ parent' = [y \in Members \ Doomed(x) |-> parent[y]]
    BY <1>3 DEF RemoveMember
  <2>2. Forest!Remove(x)
    BY <2>1, SameSubtree DEF Forest!Remove, Forest!Members, Members
  <2> QED BY <2>2 DEF Forest!Next
<1>4. CASE UNCHANGED vars
  BY <1>4 DEF vars
<1> QED BY <1>1, <1>2, <1>3, <1>4 DEF Next

\* What the rest of the program sees of a dimension, the parent of each
\* member, changes only as the forest of Hierarchy does.
THEOREM DimensionIsAForest == Spec => ImplementsHierarchy
<1>1. Init => Forest!Init
  BY DEF Init, Forest!Init
<1> QED BY <1>1, Invariance, ForestStep, PTL DEF Spec, ImplementsHierarchy, Forest!Spec
=============================================================================
