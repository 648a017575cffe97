----------------------------- MODULE Hierarchy ------------------------------
(***************************************************************************)
(* What a dimension promises the rest of the program: a forest, given as   *)
(* the parent of each member ("" for a root), that grows by a member, loses*)
(* a member with everything below it, or has a member moved elsewhere, and *)
(* never closes into a cycle.  It is the view of a dimension that modules  *)
(* Trees and Server take.                                                  *)
(***************************************************************************)
CONSTANTS Names, NoParent

VARIABLE parent

Members == DOMAIN parent

\* Sets that contain the members below each of their members.
ClosedBelow(S) == \A y \in Members : parent[y] \in S => y \in S

\* x and everything below it.
AtOrBelow(x) == {y \in Members : \A S \in SUBSET Members : x \in S /\ ClosedBelow(S) => y \in S}

Init == parent = [x \in {} |-> NoParent]

Add(x, p) ==
  /\ x \notin Members /\ p \in Members \cup {NoParent}
  /\ parent' = [y \in Members \cup {x} |-> IF y = x THEN p ELSE parent[y]]

Move(x, p) ==
  /\ x \in Members /\ p \in (Members \ AtOrBelow(x)) \cup {NoParent}
  /\ parent' = [parent EXCEPT ![x] = p]

Remove(x) ==
  /\ x \in Members
  /\ parent' = [y \in Members \ AtOrBelow(x) |-> parent[y]]

Next == \E x \in Names : \/ \E p \in Names \cup {NoParent} : Add(x, p) \/ Move(x, p)
                         \/ Remove(x)

Spec == Init /\ [][Next]_parent
=============================================================================
