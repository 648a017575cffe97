------------------------------- MODULE Consol -------------------------------
(***************************************************************************)
(* The consolidation engine of internal/consol as a function: Process maps *)
(* the units of one (cube, scenario, month) slice to the units with their  *)
(* Calc cells and derived stages rebuilt.                                  *)
(*                                                                         *)
(* A cell map is a function from the coordinates that hold a cell to its   *)
(* value, never 0 (zeros are deleted, not stored).  The Flow and UD        *)
(* dimensions take part in nothing below but equality, so a coordinate is  *)
(* reduced to account, origin and intercompany partner.  Values are        *)
(* integers; amounts are chosen so that every percentage of them is exact, *)
(* which leaves out rounding and the write threshold eps.  An integer out  *)
(* of the range of Largest stands for a float that is not finite.          *)
(*                                                                         *)
(* meta is the metadata Process reads: the entity tree, the account tree,  *)
(* the stored formula of each account that has one and the rates of the    *)
(* slice.                                                                  *)
(***************************************************************************)
EXTENDS Periods, Trees, Functions

CONSTANTS Entities,         \* every entity name
          Accounts,         \* every account name
          ICAccounts,       \* accounts flagged IsIC
          AccountWeight(_), \* Weight of an account into its parent
          AccountType(_),   \* AccountType of an account, "" if unset
          OwnershipPct(_),  \* percentage of an entity its parent consolidates
          Currency(_),      \* Currency of an entity, "" if unset
          GroupCurrency,    \* currency the cube reports in
          Largest           \* largest amount a float can hold

\* Values are integers, and so is all they are multiplied with.
ASSUME FactorsAssumption == /\ \A a \in Accounts : AccountWeight(a) \in Int
                            /\ \A e \in Entities : OwnershipPct(e) \in Int

None         == "None"
UserOrigins  == {"Import", "Forms", "Adj"}
Origins      == UserOrigins \cup {"Calc", "Elim"}
Coords       == [acct : Accounts, origin : Origins, ic : Entities \cup {None}]
InputCoords  == {c \in Coords : c.origin # "Elim"}
Stages       == {"Input", "Translated", "Elimination", "Consolidated"}

-----------------------------------------------------------------------------
(* Cell maps.                                                              *)
Empty     == [c \in {} |-> 0]
Val(m, c) == IF c \in DOMAIN m THEN m[c] ELSE 0
\* f itself; the comparison has TLC compute its values here, once, and not at
\* every application.
Strict(f) == CHOOSE g \in {f} : g = f
Keep(f)   == LET m == Strict(f) IN [c \in {x \in DOMAIN m : m[x] # 0} |-> m[c]]
ClearOrigin(m, o) == [c \in {x \in DOMAIN m : x.origin # o} |-> m[c]]
UserCells(m) == [c \in {x \in DOMAIN m : x.origin \in UserOrigins} |-> m[c]]
Total(m, S)  == SumFunctionOnSet(m, DOMAIN m \cap S)

Finite(v) == -Largest <= v /\ v <= Largest
\* writableValue: a computed value that is not finite is skipped.
Writable(v) == IF Finite(v) THEN v ELSE 0

NoUnit == [s \in Stages |-> Empty]

-----------------------------------------------------------------------------
(* Step 1: stored calculations.                                            *)

\* A formula is a linear form over accounts, which tells dependencies,
\* rollups and evaluation order apart as well as any other expression.
Refs(f) == DOMAIN f.coef

LinearForm(f) == IsFiniteSet(Refs(f)) /\ f.const \in Int /\ \A r \in Refs(f) : f.coef[r] \in Int

PathWeightWithTop(meta, a, b) ==
  FoldFunction(LAMBDA x, y : x * y, 1,
               [x \in PathToRoot(meta.acc, b) \ (PathToRoot(meta.acc, a) \ {a}) |-> AccountWeight(x)])

\* subtreeWeights: product of the weights on the way from b up into a.
PathWeight(meta, a, b) ==
  FoldFunction(LAMBDA x, y : x * y, 1,
               [x \in PathToRoot(meta.acc, b) \ PathToRoot(meta.acc, a) |-> AccountWeight(x)])

\* An unknown account still matches the cells stored at exactly that name.
Below(meta, a) == {a} \cup Subtree(meta.acc, a)

Rollup(meta, input, a, ic) ==
  SumFunction([c \in {x \in DOMAIN input : x.ic = ic /\ x.acct \in Below(meta, a)} |->
                 input[c] * PathWeight(meta, a, c.acct)])

DepsDirect(meta, t) == Refs(meta.formulas[t]) \cap DOMAIN meta.formulas

\* Every formula account inside the subtree of a reference.
Deps(meta, t) == {f \in DOMAIN meta.formulas :
                    \E r \in Refs(meta.formulas[t]) : f \in Below(meta, r)}

\* One turn of TopoSortDeps, which is Kahn's algorithm: a ready formula goes
\* to the end of the order, here any one, in the code the smallest name.
Ready(meta, done) == {t \in DOMAIN meta.formulas \ Range(done) : Deps(meta, t) \subseteq Range(done)}
TakeReady(meta, done) ==
  IF Ready(meta, done) = {} THEN done
  ELSE Append(done, CHOOSE t \in Ready(meta, done) : TRUE)

\* Shorter than its input on a cycle.
TopoSort(meta) ==
  LET n == Cardinality(DOMAIN meta.formulas)
      order[i \in 0 .. n] == IF i = 0 THEN <<>> ELSE TakeReady(meta, order[i - 1])
  IN  order[n]

EvalFormula(meta, input, f, ic) ==
  f.const + SumFunction([r \in Refs(f) |-> f.coef[r] * Rollup(meta, input, r, ic)])

\* tupleUniverse: the partners under which some reference has a cell.
Tuples(meta, input, f) ==
  {c.ic : c \in {x \in DOMAIN input : \E r \in Refs(f) : x.acct \in Below(meta, r)}}

\* One formula, over the Input cells the formulas before it have left.
ApplyFormula(meta, input, t) ==
  LET f  == meta.formulas[t]
      at == {[acct |-> t, origin |-> "Calc", ic |-> i] : i \in Tuples(meta, input, f)}
  IN  Keep([c \in DOMAIN input \cup at |->
              IF c \in at THEN Writable(EvalFormula(meta, input, f, c.ic)) ELSE input[c]])

\* The formulas of order applied one after the other.
Applied(meta, order, input) ==
  LET after[i \in 0 .. Len(order)] ==
        IF i = 0 THEN input ELSE ApplyFormula(meta, after[i - 1], order[i])
  IN  after[Len(order)]

StoredCalcsKeptOld(meta, order, input) == Applied(meta, order, input)

StoredCalcs(meta, order, input) == Applied(meta, order, ClearOrigin(input, "Calc"))

\* A formula on a non-leaf account, or a cycle, makes Process return an error
\* before it touches a unit.
ProcessFails(meta) ==
  \/ \E t \in DOMAIN meta.formulas : ~IsLeaf(meta.acc, t)
  \/ Len(TopoSort(meta)) < Cardinality(DOMAIN meta.formulas)

-----------------------------------------------------------------------------
(* Steps 2 to 4.                                                           *)
EntityCurrency(meta, e) ==
  IF Has(meta.ent, e) /\ Currency(e) # "" THEN Currency(e) ELSE GroupCurrency

\* Metadata.AccountType: an account without a type is a flow.
TypeOf(meta, a) ==
  IF Has(meta.acc, a) /\ AccountType(a) \in BalanceTypes \cup FlowTypes
  THEN AccountType(a) ELSE "Revenue"

\* ToGroup, with the 1 that translate puts in the place of a missing rate.
ToGroup(meta, cur, type) ==
  IF cur # GroupCurrency /\ <<cur, type>> \in DOMAIN meta.rates
  THEN meta.rates[<<cur, type>>] ELSE 1

Translated(meta, e, input) ==
  Keep([c \in DOMAIN input |->
          Writable(input[c] * ToGroup(meta, EntityCurrency(meta, e),
                                      RateType(TypeOf(meta, c.acct))))])

\* The translated cells whose negation is posted at f, each with its entity.
Eliminated(meta, tr, f) ==
  {p \in UNION {{e} \X DOMAIN tr[e] : e \in Entities} :
     /\ p[2].ic # None /\ p[2].acct \in ICAccounts
     /\ FCA(meta.ent, p[1], p[2].ic) = f}

\* eliminate: at full value whatever the ownership, collisions summed.
Elimination(meta, tr, f) ==
  LET posted     == Eliminated(meta, tr, f)
      elim(c)    == [c EXCEPT !.origin = "Elim"]
      sources(c) == {p \in posted : elim(p[2]) = c}
  IN  Keep([c \in {elim(p[2]) : p \in posted} |->
              Writable(-SumFunction([p \in sources(c) |-> tr[p[1]][p[2]]]))])

ContributionInFull(p, v) == v

Contribution(p, v) == (v * OwnershipPct(p)) \div 100

\* consolidate: post-order, each child weighted by the share its parent owns.
Consolidated(meta, tr, el) ==
  LET cons[e \in DOMAIN meta.ent] ==
        LET parts == Strict([p \in Children(meta.ent, e) |-> cons[p]])
            cells == DOMAIN tr[e] \cup DOMAIN el[e] \cup UNION {DOMAIN parts[p] : p \in DOMAIN parts}
        IN  Keep([c \in cells |->
                    Writable(Val(tr[e], c) + Val(el[e], c)
                      + SumFunction([p \in DOMAIN parts |-> Contribution(p, Val(parts[p], c))]))])
  IN  cons

-----------------------------------------------------------------------------
\* The units of a slice whose Input is input once steps 2 to 4 are done.
Derived(meta, input) ==
  LET tr   == Strict([e \in Entities |-> Translated(meta, e, input[e])])
      el   == Strict([e \in Entities |-> Elimination(meta, tr, e)])
      cons == Strict(Consolidated(meta, tr, el))
  IN  [e \in Entities |->
         [s \in Stages |-> CASE s = "Input"        -> input[e]
                             [] s = "Translated"   -> tr[e]
                             [] s = "Elimination"  -> el[e]
                             [] s = "Consolidated" -> IF Has(meta.ent, e) THEN cons[e] ELSE Empty]]

\* Input with its Calc cells rebuilt, entity by entity.
Calculated(meta, units) ==
  LET order == TopoSort(meta)
  IN  Strict([e \in Entities |-> StoredCalcs(meta, order, units[e]["Input"])])

Process(meta, units) == Derived(meta, Calculated(meta, units))
=============================================================================
