------------------------------- MODULE Query --------------------------------
(***************************************************************************)
(* The query engine of internal/cube over the state of the server: one     *)
(* cell at a point of view, and grids of cells over expanded axes.  It     *)
(* reads under the read lock and changes nothing.                          *)
(*                                                                         *)
(* A point of view is a record with a field per dimension; "" in origin or *)
(* ic stands for every origin, every partner.  A dynamic account answers   *)
(* with its formula, evaluated over what queries of its references answer; *)
(* how the recursion comes to that is the subject of module DynamicCalc.   *)
(* Flow and UD members take part in nothing but equality in this project   *)
(* (see Consol), so they have no axis here.                                *)
(***************************************************************************)
EXTENDS Consolidation, SequencesExt

CONSTANTS Years,    \* years of the Time dimension
          Points,   \* points of view the properties are about
          Grids     \* grid requests of two row levels the properties are about

AxisDims == {"entity", "account", "scenario", "time", "view", "stage", "origin", "ic"}

\* A point of view names an account, and cells are those of a month there is.
ASSUME PointsAssumption ==
  /\ \A pov \in Points :
       /\ DOMAIN pov = AxisDims
       /\ pov.account \in Accounts
  /\ \A s \in Slices : s = <<s[1], s[2]>> /\ s[2] \in TimeMembers(Years) /\ IsMonth(s[2])

\* The Time dimension has finitely many years, and a grid request two levels of
\* rows, each level a list of specifications.
ASSUME GridsAssumption ==
  /\ IsFiniteSet(Years)
  /\ \A g \in Grids :
       /\ {"pov", "rows", "cols"} \subseteq DOMAIN g
       /\ g.rows \in Seq(Range(g.rows)) /\ Len(g.rows) = 2
       /\ \A i \in 1 .. 2 : g.rows[i] \in Seq(Range(g.rows[i]))

Views       == {"Periodic", "YTD"}
QueryStages == {"Local", "Translated", "Elimination", "Consolidated"}

-----------------------------------------------------------------------------
(* One cell.                                                               *)

\* An account's time aggregation picks the months that are read: balances
\* the last of the period under either view, flows all of them or the year
\* to date.
MonthsReadByView(pov) ==
  LET months == MonthsUnder(Years, pov.time)
  IN  IF months = <<>> THEN <<>>
      ELSE IF pov.view = "YTD" THEN YTDMonths(Last(months)) ELSE months

MonthsRead(pov) ==
  LET months == MonthsUnder(Years, pov.time)
  IN  IF months = <<>> THEN <<>>
      ELSE IF IsBalance(TypeOf(Meta, pov.account)) THEN <<Last(months)>>
      ELSE IF pov.view = "YTD" THEN YTDMonths(Last(months)) ELSE months

\* stageCells.  A stage without cells has no map: Process and ClearStage
\* leave none behind (a purge can, and that empty map is then read).
StageCellsLatest(u, stage, localIsGroup) ==
  IF stage = "Local" THEN u["Input"]
  ELSE IF stage \in {"Translated", "Elimination"} THEN u[stage]
  ELSE IF u["Translated"] # Empty THEN u["Translated"]
  ELSE IF u["Consolidated"] # Empty THEN u["Consolidated"]
  ELSE IF localIsGroup THEN u["Input"] ELSE Empty

StageCells(u, stage, localIsGroup) ==
  IF stage = "Local" THEN u["Input"]
  ELSE IF stage \in {"Translated", "Elimination"} THEN u[stage]
  ELSE IF u["Consolidated"] # Empty THEN u["Consolidated"]
  ELSE IF u["Translated"] # Empty THEN u["Translated"]
  ELSE IF localIsGroup THEN u["Input"] ELSE Empty

\* memberWeights: target and its descendants, each with the product of the
\* weights up to the target; an unknown target matches its own name.
MemberWeightsOfEdge(t, target) ==
  [x \in {target} \cup Subtree(t, target) |-> IF x = target THEN 1 ELSE AccountWeight(x)]

MemberWeights(t, target) ==
  LET w[x \in {target} \cup Subtree(t, target)] ==
        IF x = target THEN 1 ELSE w[t[x]] * AccountWeight(x)
  IN  w

Matches(pov, c) == pov.origin \in {"", c.origin} /\ pov.ic \in {"", c.ic}

\* matcher.sum
SumCells(pov, weights, cells) ==
  SumFunction([c \in {x \in DOMAIN cells : Matches(pov, x) /\ x.acct \in DOMAIN weights} |->
                 cells[c] * weights[c.acct]])

UnitAt(e, sc, month) ==
  IF <<sc, month>> \in Slices /\ e \in Entities THEN units[<<sc, month>>][e] ELSE NoUnit

\* The months and units of a point of view, read with the given weights.
Read(pov, weights) ==
  LET localIsGroup == EntityCurrency(Meta, pov.entity) = GroupCurrency
      months       == MonthsRead(pov)
  IN  SumFunction([i \in DOMAIN months |->
        SumCells(pov, weights, StageCells(UnitAt(pov.entity, pov.scenario, months[i]),
                                          pov.stage, localIsGroup))])

At(pov, dim, x) == [pov EXCEPT ![dim] = x]

\* What the stages hold for an account and all below it, dynamic or not.
StoredCell(pov) == Read(pov, MemberWeights(acc, pov.account))

\* Accounts whose formula is evaluated in place of what is stored.
DynamicAccounts == DOMAIN acc \cap dynamic \cap DOMAIN expr

DynamicRefs(a) == Refs(expr[a]) \cap DynamicAccounts

OnCycle(a) == \A S \in SUBSET DynamicAccounts :
  DynamicRefs(a) \subseteq S /\ (\A x \in S : DynamicRefs(x) \subseteq S) => a \in S

MaxDynDepth == 16

\* What a linear formula makes of the values of its dynamic references; the
\* others are read like any account.
Evaluated(pov, a, below) ==
  expr[a].const + SumFunction([r \in Refs(expr[a]) |->
    expr[a].coef[r] * IF r \in DynamicAccounts THEN below[r] ELSE StoredCell(At(pov, "account", r))])

\* 0 at the depth limit and on a cycle.  (That a cell on a cycle is found there,
\* whatever was evaluated before it, holds of no more than MaxDynDepth dynamic
\* accounts: see CyclesYieldZero of DynamicCalc.)
DynamicCell(pov) ==
  LET value[n \in 0 .. MaxDynDepth] ==
        [a \in DynamicAccounts |->
           IF n = 0 \/ OnCycle(a) THEN 0 ELSE Evaluated(pov, a, value[n - 1])]
  IN  value[MaxDynDepth][pov.account]

\* getCell
GetCell(pov) == IF pov.account \in DynamicAccounts THEN DynamicCell(pov) ELSE StoredCell(pov)

-----------------------------------------------------------------------------
(* Axes.  A specification [dim, member, expand] becomes a sequence of      *)
(* headers; an axis is a sequence of nesting levels, outermost first, each *)
(* a sequence of specifications.                                           *)
Members(dim) ==
  CASE dim = "entity"   -> DOMAIN ent
    [] dim = "account"  -> DOMAIN acc
    [] dim = "scenario" -> scen
    [] dim = "time"     -> TimeMembers(Years)
    [] dim = "origin"   -> Origins
    [] dim = "ic"       -> {None} \cup DOMAIN ent
    [] dim = "view"     -> Views
    [] dim = "stage"    -> QueryStages

ChildrenIn(dim, x) ==
  CASE dim \in {"entity", "ic"} -> Children(ent, x)
    [] dim = "account"          -> Children(acc, x)
    [] dim = "time"             -> SubPeriods(x)
    [] OTHER                    -> {}

SpecOK(spec) == /\ spec.dim \in AxisDims /\ spec.member \in Members(spec.dim)
                /\ spec.expand \in {"member", "children", "leaves", "tree"}

Header(dim, x, leaf) == [dim |-> dim, name |-> x, depth |-> 0, leaf |-> leaf]
Deeper(hs)           == [i \in DOMAIN hs |-> [hs[i] EXCEPT !.depth = @ + 1]]

\* The walk of a subtree, each member with its depth below the first.
TreeWalk(dim, member) ==
  LET walk[x \in Members(dim)] ==
        LET kids == SetToSeq(ChildrenIn(dim, x))
        IN  <<Header(dim, x, kids = <<>>)>>
              \o FlattenSeq([i \in DOMAIN kids |-> Deeper(walk[kids[i]])])
  IN  walk[member]

\* Some headers of a walk, as a flat list.
Flat(hs, chosen) ==
  FlattenSeq([i \in DOMAIN hs |-> IF i \in chosen THEN <<[hs[i] EXCEPT !.depth = 0]>> ELSE <<>>])

\* expandSpec; None is a flat partner even if an entity has its name.
ExpandSpec(spec) ==
  LET walk == IF spec.dim = "ic" /\ spec.member = None THEN <<Header("ic", None, TRUE)>>
              ELSE TreeWalk(spec.dim, spec.member)
  IN  CASE spec.expand = "member"   -> <<Head(walk)>>
        [] spec.expand = "children" -> Flat(walk, {i \in DOMAIN walk : walk[i].depth = 1})
        [] spec.expand = "leaves"   -> Flat(walk, {i \in DOMAIN walk : walk[i].leaf})
        [] spec.expand = "tree"     -> walk

ExpandAxes(level) == FlattenSeq([i \in DOMAIN level |-> ExpandSpec(level[i])])

\* The cross product, the innermost level varying fastest.
NestLevel(tuples, level) ==
  LET cells == ExpandAxes(level)
      n     == Len(cells)
  IN  [i \in 1 .. Len(tuples) * n |->
         Append(tuples[((i - 1) \div n) + 1], cells[((i - 1) % n) + 1])]

ExpandNested(levels) == FoldLeft(NestLevel, << <<>> >>, levels)

\* applyAxis, outermost first: of two levels on one dimension the inner wins.
ApplyHeader(pov, h) == [pov EXCEPT ![h.dim] = h.name]

OverlayOuterLast(pov, tuple) == FoldLeft(ApplyHeader, pov, Reverse(tuple))

Overlay(pov, tuple) == FoldLeft(ApplyHeader, pov, tuple)

RequestOK(req) == \A axis \in {req.rows, req.cols} :
  \A i \in DOMAIN axis : \A j \in DOMAIN axis[i] : SpecOK(axis[i][j])

\* Engine.Query: the cells of the grid, row by row.
Cells(req) ==
  LET rows == ExpandNested(req.rows)
      cols == ExpandNested(req.cols)
  IN  [i \in DOMAIN rows |-> [j \in DOMAIN cols |->
         GetCell(Overlay(Overlay(req.pov, rows[i]), cols[j]))]]

-----------------------------------------------------------------------------
Balance(a) == IsBalance(TypeOf(Meta, a))

(* SPEC.md section 2: a member is the weighted sum of its children, and of *)
(* what is stored at the member itself.  memberWeights multiplies whole    *)
(* paths instead.  It holds in each month whatever the types; over longer  *)
(* periods, where the queried account alone chooses the months, if the     *)
(* children aggregate over time as it does.  A dynamic child answers with  *)
(* its formula and yet adds to its parent what is stored below it, which   *)
(* is the code's disagreement with section 2, and is left out.             *)
ParentIsWeightedSum ==
  \A pov \in Points :
    LET a        == pov.account
        kids     == Children(acc, a)
        adds(p)  == GetCell(p) = Read(p, [x \in {a} |-> 1])
                                   + SumFunction([k \in kids |->
                                                    AccountWeight(k) * GetCell(At(p, "account", k))])
    IN  ({a} \cup kids) \cap DynamicAccounts = {} =>
          /\ \A m \in Range(MonthsRead(pov)) : adds(At(At(pov, "time", m), "view", "Periodic"))
          /\ (\A k \in kids : Balance(k) = Balance(a)) => adds(pov)

\* Whether an account is a balance; for a dynamic one its own type says
\* nothing, the accounts that its formula refers to do.
Kinds(a) == {Balance(r) : r \in IF a \in DynamicAccounts THEN Refs(expr[a]) ELSE {a}}

\* A dynamic formula of sums adds up over time: no constant, no other formula.
AddsUp(a) == a \in DynamicAccounts => expr[a].const = 0 /\ DynamicRefs(a) = {}

(* Periods of different lengths tell one story: a flow of a year or a      *)
(* quarter is the sum of its parts, the year to date grows by each month,  *)
(* and a balance is that of the last part under either view, be it empty.  *)
(* The same of a dynamic account that is a sum of flows, or of balances,   *)
(* since it is evaluated after aggregation; other formulas need not add up *)
(* (a ratio, a constant), nor do flows and balances together.              *)
LastPart(t) == CHOOSE p \in SubPeriods(t) : \A q \in SubPeriods(t) : q.n <= p.n

PeriodsAgree ==
  \A pov \in Points, t \in TimeMembers(Years), v \in Views, balance \in BOOLEAN :
    LET value(x, w) == GetCell(At(At(pov, "time", x), "view", w))
    IN  Kinds(pov.account) = {balance} /\ AddsUp(pov.account) =>
          IF IsMonth(t)
          THEN value(t, "YTD") = value(t, "Periodic")
                 + IF t.n = 1 \/ balance THEN 0 ELSE value(Month(t.year, t.n - 1), "YTD")
          ELSE value(t, v) = IF v = "YTD" \/ balance THEN value(LastPart(t), v)
                             ELSE SumFunction([p \in SubPeriods(t) |-> value(p, v)])

InSync(s) == ~ProcessFails(MetaAt(s)) /\ units[s] = Processed(s)

(* A stored formula read back through the query engine: in a slice that is *)
(* consolidated, the Calc cells of an account equal its formula over what  *)
(* queries of the referenced accounts answer at that entity and partner.   *)
(* The two engines weight an account tree in code of their own.  Of a      *)
(* dynamic account the consolidation reads what is stored below it and a   *)
(* query the formula, so formulas that refer to one are left out.          *)
StoredFormulaQueried ==
  \A s \in Slices : InSync(s) =>
    \A t \in {x \in DOMAIN StoredFormulas : DynamicRefs(x) = {}},
       e \in DOMAIN ent, i \in {None} \cup DOMAIN ent :
      LET f == StoredFormulas[t]
          local(a, o) == GetCell([entity |-> e, scenario |-> s[1], time |-> s[2], stage |-> "Local",
                                  view |-> "Periodic", account |-> a, origin |-> o, ic |-> i])
      IN  local(t, "Calc") =
            IF i \in Tuples(MetaAt(s), units[s][e]["Input"], f)
            THEN Writable(f.const + SumFunction([r \in Refs(f) |-> f.coef[r] * local(r, "")]))
            ELSE 0

(* Over consolidated slices, a consolidated query of an entity answers     *)
(* with its share of what Translated and Elimination queries of its        *)
(* subtree answer: rollup, ownership and the fallback of stageCells work   *)
(* together.  SPEC.md section 4 means the fallback for leaves; the code    *)
(* also takes it for a parent whose own cells its children's cancel out,   *)
(* where nothing is consolidated: the last disjunct leaves that case out.  *)
(* A dynamic account, be it a ratio, is no sum over entities.              *)
ConsolidatedQuery ==
  LET synced == {s \in Slices : InSync(s)}
  IN  \A pov \in Points :
        LET f    == pov.entity
            read == {<<pov.scenario, m>> : m \in Range(MonthsRead(pov))} \cap Slices
            answer(x, st) == GetCell([pov EXCEPT !.entity = x, !.stage = st])
        IN  /\ pov.account \notin DynamicAccounts
            /\ Has(ent, f) /\ read \subseteq synced
            /\ \A s \in read : \/ IsLeaf(ent, f)
                              \/ units[s][f]["Input"] = Empty
                              \/ units[s][f]["Consolidated"] # Empty
            => answer(f, "Consolidated")
                 = SumFunction([x \in Subtree(ent, f) |->
                     (Share(f, x) * (answer(x, "Translated") + answer(x, "Elimination"))) \div 100])

(* A grid of two row levels is the stack of the grids of its inner level,  *)
(* one per header of the outer, in order, also where both levels or a      *)
(* column speak of the same dimension: the innermost has the last word.    *)
NestedGrid ==
  \A g \in Grids : RequestOK(g) =>
    LET outer    == ExpandAxes(g.rows[1])
        inner(h) == [g EXCEPT !.rows = <<g.rows[2]>>, !.pov = At(g.pov, h.dim, h.name)]
    IN  Cells(g) = FlattenSeq([k \in DOMAIN outer |-> Cells(inner(outer[k]))])
=============================================================================
