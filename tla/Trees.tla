------------------------------- MODULE Trees --------------------------------
(***************************************************************************)
(* A dimension hierarchy of internal/model, seen as the function from each *)
(* member to its parent ("" for a root), and the questions the engines ask *)
(* of it.  How the code stores the hierarchy (parent and child lists kept  *)
(* side by side) is the subject of module Dimension.                       *)
(***************************************************************************)
EXTENDS Naturals, FiniteSets

NoParent == ""

Has(t, x)      == x \in DOMAIN t
Children(t, x) == {c \in DOMAIN t : t[c] = x}
Roots(t)       == Children(t, NoParent)
IsLeaf(t, x)   == Has(t, x) /\ Children(t, x) = {}

\* Every parent is a member or the name of none.
Closed(t) == \A y \in DOMAIN t : t[y] = NoParent \/ t[y] \in DOMAIN t

\* No member is above itself: any members have one among them with no child
\* among them.
Acyclic(t) == \A S \in SUBSET DOMAIN t : S # {} => \E x \in S : Children(t, x) \cap S = {}

\* PathToRoot as a set: x, its parent, and so on up to a root.
PathToRoot(t, x) ==
  LET up[n \in 0 .. Cardinality(DOMAIN t)] ==
        IF n = 0 THEN {x} \cap DOMAIN t
                 ELSE LET below == up[n - 1]
                      IN  below \cup ({t[y] : y \in below} \ {NoParent})
  IN  up[Cardinality(DOMAIN t)]

SubtreeAlone(t, x) == {x} \cap DOMAIN t

\* x and its Descendants.
Subtree(t, x) == {y \in DOMAIN t : x \in PathToRoot(t, y)}

IsAncestor(t, a, x) == a # x /\ a \in PathToRoot(t, x)

\* The first common ancestor, a itself when both are the same name, NoParent
\* when the two share no root.
FCARoot(t, a, b) ==
  LET common == PathToRoot(t, a) \cap PathToRoot(t, b)
  IN  IF a = b THEN a
      ELSE IF common = {} THEN NoParent
      ELSE CHOOSE x \in common : common \subseteq Subtree(t, x)

FCA(t, a, b) ==
  LET common == PathToRoot(t, a) \cap PathToRoot(t, b)
  IN  IF a = b THEN a
      ELSE IF common = {} THEN NoParent
      ELSE CHOOSE x \in common : common \subseteq PathToRoot(t, x)
=============================================================================
