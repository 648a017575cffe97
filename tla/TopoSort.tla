------------------------------ MODULE TopoSort ------------------------------
(***************************************************************************)
(* TopoSortDeps of internal/calc: the order in which stored formulas are   *)
(* evaluated, by Kahn's algorithm, and the cycle it reports when there is  *)
(* no order.  One step here is one turn of a loop of the code.             *)
(*                                                                         *)
(* The code sorts names wherever it has a choice, so that its output is    *)
(* always the same; here any choice may be taken, and what follows holds   *)
(* whatever the order of the names.                                        *)
(***************************************************************************)
EXTENDS Naturals, Sequences, FiniteSets

CONSTANT Nodes   \* names that may be sorted

ASSUME NodesAssumption == IsFiniteSet(Nodes)

VARIABLES
  stage,  \* what TopoSortDeps is doing, and how it ended
  deps,   \* node -> its dependencies that are keys
  indeg,  \* node -> how many of them are not in order yet
  ready,  \* nodes with none left
  order,  \* the nodes sorted so far
  path    \* the walk along dependencies, in the end the cycle

sortVars == <<stage, deps, indeg, ready, order, path>>

Keys      == DOMAIN deps
Listed(s) == {s[i] : i \in DOMAIN s}
Remaining == Keys \ Listed(order)

SortInit == /\ stage = "idle" /\ ready = {} /\ order = <<>> /\ path = <<>>
            /\ deps = [n \in {} |-> {}] /\ indeg = [n \in {} |-> 0]

\* The tables TopoSortDeps builds from its argument; entries that are no keys
\* are ignored, duplicates count once.
Start(allDeps) ==
  /\ stage = "idle"
  /\ stage' = "sorting"
  /\ deps'  = [n \in DOMAIN allDeps |-> allDeps[n] \cap DOMAIN allDeps]
  /\ indeg' = [n \in DOMAIN allDeps |-> Cardinality(deps'[n])]
  /\ ready' = {n \in DOMAIN allDeps : indeg'[n] = 0}
  /\ order' = <<>> /\ path' = <<>>

TakeAgain ==
  /\ stage = "sorting"
  /\ \E n \in ready :
       /\ order' = Append(order, n)
       /\ indeg' = [m \in Keys |-> IF n \in deps[m] THEN indeg[m] - 1 ELSE indeg[m]]
       /\ ready' = ready \cup {m \in Keys : n \in deps[m] /\ indeg'[m] = 0}
  /\ UNCHANGED <<stage, deps, path>>

Take ==
  /\ stage = "sorting"
  /\ \E n \in ready :
       /\ order' = Append(order, n)
       /\ indeg' = [m \in Keys |-> IF n \in deps[m] THEN indeg[m] - 1 ELSE indeg[m]]
       /\ ready' = (ready \ {n}) \cup {m \in Keys : n \in deps[m] /\ indeg'[m] = 0}
  /\ UNCHANGED <<stage, deps, path>>

Finish ==
  /\ stage = "sorting" /\ ready = {}
  /\ Len(order) = Cardinality(Keys)
  /\ stage' = "ordered"
  /\ UNCHANGED <<deps, indeg, ready, order, path>>

\* The walk starts at a node that could not be ordered.
LookForCycle ==
  /\ stage = "sorting" /\ ready = {}
  /\ Len(order) # Cardinality(Keys)
  /\ stage' = "walking"
  /\ \E n \in Remaining : path' = <<n>>
  /\ UNCHANGED <<deps, indeg, ready, order>>

Onward == deps[path[Len(path)]] \cap Remaining

Walk ==
  /\ stage = "walking"
  /\ \E n \in Onward \ Listed(path) : path' = Append(path, n)
  /\ UNCHANGED <<stage, deps, indeg, ready, order>>

CloseWithTail ==
  /\ stage = "walking"
  /\ \E n \in Onward : n \in Listed(path)
  /\ stage' = "cycle"
  /\ UNCHANGED <<deps, indeg, ready, order, path>>

\* A node repeats: the loop is the path from where it stands first.
Close ==
  /\ stage = "walking"
  /\ \E at \in DOMAIN path : path[at] \in Onward /\ path' = SubSeq(path, at, Len(path))
  /\ stage' = "cycle"
  /\ UNCHANGED <<deps, indeg, ready, order>>

\* The caller has the order, or the error.
Return ==
  /\ stage \in {"ordered", "cycle"}
  /\ stage' = "idle" /\ ready' = {} /\ order' = <<>> /\ path' = <<>>
  /\ deps' = [n \in {} |-> {}] /\ indeg' = [n \in {} |-> 0]

SortStep == Take \/ Finish \/ LookForCycle \/ Walk \/ Close

SortNext == \/ \E K \in SUBSET Nodes : \E allDeps \in [K -> SUBSET Nodes] : Start(allDeps)
            \/ SortStep
            \/ Return

SortSpec == SortInit /\ [][SortNext]_sortVars

-----------------------------------------------------------------------------
(* The sorted nodes are distinct and the walk never comes by a node twice. *)
TypeOK ==
  /\ stage \in {"idle", "sorting", "ordered", "walking", "cycle"}
  /\ Keys \subseteq Nodes
  /\ deps \in [Keys -> SUBSET Keys]
  /\ indeg \in [Keys -> Nat]
  /\ ready \subseteq Remaining
  /\ order \in Seq(Keys) /\ Len(order) = Cardinality(Listed(order))
  /\ path \in Seq(Remaining)
  /\ \A i, j \in DOMAIN path : path[i] = path[j] => i = j

(* "every listed dependency comes before its dependent": calc.go, at       *)
(* TopoSortDeps, however far the sort has come.                            *)
DependenciesFirst ==
  \A i \in DOMAIN order : deps[order[i]] \subseteq {order[j] : j \in 1 .. i - 1}

(* The sort ends with every key ordered or with a loop of dependencies,    *)
(* and the branch the code calls unreachable is: a node of the walk always *)
(* has a dependency to go on to.                                           *)
VerdictRight ==
  /\ stage = "ordered" => Listed(order) = Keys
  /\ stage = "walking" => path # <<>> /\ Onward # {}
  /\ stage = "cycle" =>
       /\ path # <<>>
       /\ \A i \in DOMAIN path : path[IF i = Len(path) THEN 1 ELSE i + 1] \in deps[path[i]]
-----------------------------------------------------------------------------
(* The inductive invariant: the counters count what is not in order yet,   *)
(* the ready nodes are those with nothing left to wait for, and once none  *)
(* is ready every remaining node waits for a remaining one.                *)
Waits(n) == deps[n] \ Listed(order)

CountsInv == stage = "sorting" =>
  /\ \A n \in Keys : indeg[n] = Cardinality(Waits(n))
  /\ ready = {n \in Remaining : Waits(n) = {}}

WalkInv ==
  /\ stage \in {"idle", "sorting", "ordered"} => path = <<>>
  /\ stage \in {"walking", "cycle"} => \A n \in Remaining : deps[n] \cap Remaining # {}
  /\ stage = "walking" => \A i \in 1 .. Len(path) - 1 : path[i + 1] \in deps[path[i]]

IInv == TypeOK /\ CountsInv /\ WalkInv /\ DependenciesFirst /\ VerdictRight
=============================================================================
