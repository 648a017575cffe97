----------------------------- MODULE Dimension ------------------------------
(***************************************************************************)
(* model.Dimension as it is stored: every member carries the name of its   *)
(* parent and the list of its children, and the dimension the list of its  *)
(* roots.  Each link is kept twice, in different places, and AddMember,    *)
(* MoveMember and RemoveMember must change both.                           *)
(*                                                                         *)
(* Dimension.Members is the two functions parent and children of the same  *)
(* domain.  A name passes ValidMemberName here; NoParent stands for "".    *)
(* Everything else a member carries takes no part in the tree.             *)
(***************************************************************************)
EXTENDS Naturals, Sequences

CONSTANTS Names, NoParent

ASSUME NamesAssumption == NoParent \notin Names

VARIABLES parent,    \* Member.Parent
          children,  \* Member.Children
          roots      \* Dimension.Roots

vars == <<parent, children, roots>>

Members == DOMAIN parent

Listed(list) == {list[i] : i \in DOMAIN list}

WithoutKeptLength(list, x) ==
  IF x \notin Listed(list) THEN list
  ELSE LET i == CHOOSE i \in DOMAIN list : list[i] = x
       IN  [j \in DOMAIN list |-> IF j < i THEN list[j]
                                 ELSE IF j < Len(list) THEN list[j + 1] ELSE NoParent]

\* slices.DeleteFunc for the name x; no list has a name twice (LinksAgree).
Without(list, x) ==
  IF x \notin Listed(list) THEN list
  ELSE LET i == CHOOSE i \in DOMAIN list : list[i] = x
       IN  [j \in 1 .. Len(list) - 1 |-> IF j < i THEN list[j] ELSE list[j + 1]]

Init == parent = [x \in {} |-> NoParent] /\ children = [x \in {} |-> <<>>] /\ roots = <<>>

-----------------------------------------------------------------------------
\* x and its ancestors, as IsAncestor and PathToRoot meet them on the way up:
\* the least set with x and the parents of its members.
ClosedAbove(S) == \A y \in S : parent[y] \in S \cup {NoParent}

PathToRoot(x) ==
  {y \in Members : \A S \in SUBSET Members : x \in S /\ ClosedAbove(S) => y \in S}

\* x and its Descendants, as RemoveMember meets them in the children lists.
ClosedBelow(S) == \A y \in S : Listed(children[y]) \subseteq S

Doomed(x) ==
  {y \in Members : \A S \in SUBSET Members : x \in S /\ ClosedBelow(S) => y \in S}

-----------------------------------------------------------------------------
\* Children lists ch with x added to the end of p's, or taken out of it.
Linked(ch, p, x)   == [y \in DOMAIN ch |-> IF y = p THEN Append(ch[y], x) ELSE ch[y]]
Unlinked(ch, p, x) == [y \in DOMAIN ch |-> IF y = p THEN Without(ch[y], x) ELSE ch[y]]

\* The roots with x added under p, or with x taken away from its old place.
Rooted(list, p, x) == IF p = NoParent THEN Append(list, x) ELSE list
Unrooted(x)        == IF parent[x] = NoParent THEN Without(roots, x) ELSE roots

AddMember(x, p) ==
  /\ x \notin Members /\ p \in Members \cup {NoParent}
  /\ parent' = [y \in Members \cup {x} |-> IF y = x THEN p ELSE parent[y]]
  /\ children' = Linked([y \in Members \cup {x} |-> IF y = x THEN <<>> ELSE children[y]], p, x)
  /\ roots' = Rooted(roots, p, x)

MayMoveAnywhere(x, p) == p = NoParent \/ (p \in Members /\ x # p)

MayMove(x, p) == p = NoParent \/ (p \in Members /\ x \notin PathToRoot(p))

MoveMemberAppendsOnly(x, p) ==
  /\ x \in Members /\ MayMove(x, p)
  /\ parent' = [parent EXCEPT ![x] = p]
  /\ children' = Linked(children, p, x)
  /\ roots' = Rooted(Unrooted(x), p, x)

\* A move under the present parent puts x at the end of its list.
MoveMember(x, p) ==
  /\ x \in Members /\ MayMove(x, p)
  /\ parent' = [parent EXCEPT ![x] = p]
  /\ children' = Linked(Unlinked(children, parent[x], x), p, x)
  /\ roots' = Rooted(Unrooted(x), p, x)

\* RemoveMember calls itself for every child and then takes the member out of
\* its own list; a member with children goes only with the recursive flag.
RemoveMemberAlone(x, recursive) ==
  /\ x \in Members /\ (recursive \/ children[x] = <<>>)
  /\ parent' = [y \in Members \ {x} |-> parent[y]]
  /\ children' = [y \in Members \ {x} |-> Unlinked(children, parent[x], x)[y]]
  /\ roots' = Unrooted(x)

RemoveMember(x, recursive) ==
  /\ x \in Members /\ (recursive \/ children[x] = <<>>)
  /\ parent' = [y \in Members \ Doomed(x) |-> parent[y]]
  /\ children' = [y \in Members \ Doomed(x) |-> Unlinked(children, parent[x], x)[y]]
  /\ roots' = Unrooted(x)

Next == \E x \in Names :
  \/ \E p \in Names \cup {NoParent} : AddMember(x, p) \/ MoveMember(x, p)
  \/ \E recursive \in BOOLEAN : RemoveMember(x, recursive)

Spec == Init /\ [][Next]_vars

-----------------------------------------------------------------------------
TypeOK == /\ Members \subseteq Names
          /\ parent \in [Members -> Names \cup {NoParent}]
          /\ children \in [Members -> Seq(Names)]
          /\ roots \in Seq(Names)

Once(list) == \A i, j \in DOMAIN list : list[i] = list[j] => i = j

(* The two records of every link agree: a member is in the list of its     *)
(* parent, or of the roots, exactly once, and in no other list; and every  *)
(* parent is a member.                                                     *)
LinksAgree ==
  /\ \A x \in Members :
        /\ parent[x] \in Members \cup {NoParent}
        /\ Once(children[x])
        /\ Listed(children[x]) = {y \in Members : parent[y] = x}
  /\ Once(roots)
  /\ Listed(roots) = {y \in Members : parent[y] = NoParent}

(* No member is its own ancestor: every set of members has one whose       *)
(* parent is outside, so every walk of PathToRoot, IsAncestor, Descendants *)
(* or the engines' rollups ends.                                           *)
Acyclic == \A S \in SUBSET Members : S # {} => \E y \in S : parent[y] \notin S

(* Inductive: a move or a removal keeps the links in agreement only where  *)
(* they agree already, and the cycle check reads the parents.              *)
IInv == TypeOK /\ LinksAgree /\ Acyclic

(* What the rest of the program sees of a dimension is a forest.           *)
Forest == INSTANCE Hierarchy
ImplementsHierarchy == Forest!Spec
=============================================================================
