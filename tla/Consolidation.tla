--------------------------- MODULE Consolidation ----------------------------
(***************************************************************************)
(* What the consolidation engine promises of a slice, whatever cells and   *)
(* derived stages the server holds when Process runs.  Every property      *)
(* below speaks of Processed(s): the units slice s would have after a run  *)
(* of Process in the present state.                                        *)
(***************************************************************************)
EXTENDS Server

Processed(s) == Process(MetaAt(s), units[s])

\* The slice as a server that never ran Process on it would hold it.
Pristine(us) == [e \in Entities |-> [NoUnit EXCEPT !["Input"] = UserCells(us[e]["Input"])]]

(* Process rebuilds everything it derives: its result depends on what      *)
(* users entered and not on the Calc cells and stages earlier runs, under  *)
(* earlier metadata, left behind.  Re-running it therefore changes nothing *)
(* (README.md, "Idempotent and deterministic").                            *)
HistoryIndependent ==
  \A s \in Slices : ~ProcessFails(MetaAt(s)) => Processed(s) = Process(MetaAt(s), Pristine(units[s]))

(* runStoredCalcs orders the formulas so that, when all have run, each     *)
(* Calc cell agrees with its formula over the final Input: no formula read *)
(* another's result, even through a common ancestor, before it was there.  *)
CalcConsistent ==
  \A s \in Slices, e \in Entities : ~ProcessFails(MetaAt(s)) =>
    LET meta  == MetaAt(s)
        input == Processed(s)[e]["Input"]
    IN  \A t \in DOMAIN meta.formulas : \A i \in Entities \cup {None} :
          Val(input, [acct |-> t, origin |-> "Calc", ic |-> i])
            = IF i \in Tuples(meta, input, meta.formulas[t])
              THEN Writable(EvalFormula(meta, input, meta.formulas[t], i)) ELSE 0

\* The share f has in x, a member of its subtree, in hundredths.
Share(f, x) ==
  MapThenFoldSet(LAMBDA p, q : (p * q) \div 100, 100, OwnershipPct,
                 LAMBDA S : CHOOSE y \in S : TRUE,
                 PathToRoot(ent, x) \ PathToRoot(ent, f))

\* The entities below f that hold a balance of account a with partner p.
Holders(us, f, a, p) ==
  {x \in Subtree(ent, f) : \E c \in DOMAIN us[x]["Translated"] : c.acct = a /\ c.ic = p}

\* g is the lowest entity that has both x and p at or below it.
Meet(g, x, p) == /\ {x, p} \subseteq Subtree(ent, g)
                 /\ \A y \in Children(ent, g) : ~({x, p} \subseteq Subtree(ent, y))

(* eliminate posts at the first common ancestor and at full value: where   *)
(* that ancestor wholly owns the entities that hold a balance with a given *)
(* partner of the group f, the balance nets to nothing in f, at every level *)
(* of the tree and not just at the top.  "None" is the code for no partner, *)
(* also where an entity has that name.                                     *)
EliminationNets ==
  \A s \in Slices : ~ProcessFails(MetaAt(s)) =>
    LET us == Processed(s)
    IN  \A f \in DOMAIN ent : \A a \in ICAccounts, p \in Subtree(ent, f) \ {None} :
          (\A x \in Holders(us, f, a, p) : \A g \in DOMAIN ent : Meet(g, x, p) => Share(g, x) = 100)
            => Total(us[f]["Consolidated"], [acct : {a}, origin : Origins, ic : {p}]) = 0

\* f has its share of each Translated and Elimination cell of its subtree.
Weighted(us, f) ==
  \A c \in UNION {DOMAIN us[x][st] : x \in Entities, st \in Stages} :
    Val(us[f]["Consolidated"], c)
      = SumFunction([x \in Subtree(ent, f) |->
           (Share(f, x) * (Val(us[x]["Translated"], c) + Val(us[x]["Elimination"], c))) \div 100])

(* consolidate, one level at a time, gives every entity its share of all   *)
(* translated and elimination cells of its subtree.                        *)
OwnershipWeighted ==
  \A s \in Slices, f \in DOMAIN ent : ~ProcessFails(MetaAt(s)) =>
    LET us == Processed(s) IN Weighted(us, f)
=============================================================================
