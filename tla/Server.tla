------------------------------- MODULE Server -------------------------------
(***************************************************************************)
(* The application state behind the API of internal/server, and the        *)
(* mutating handlers of data.go, flow.go, imports.go and dims.go.  Every   *)
(* handler runs under the write lock from its first look at the state to   *)
(* its reply (module Persistence), so each is one action here; a handler   *)
(* that answers 4xx leaves the state alone and is no step.                 *)
(*                                                                         *)
(* There is one cube.  A slice is a (scenario, month) pair and the cells   *)
(* of a data unit are units[slice][entity].  Editable metadata are the     *)
(* entity and account trees, the formulas, the scenarios and the rates;    *)
(* currencies, ownership, weights and account flags are constants of       *)
(* Consol.  Requests come from constant sets.                              *)
(***************************************************************************)
EXTENDS Consol, WorkflowRules

CONSTANTS Slices,       \* every <<scenario, month>> cells may be in
          Writes,       \* cell writes a client may put into a request
          MaxBatch,     \* bound: writes in one request
          Rows,         \* lines an import file may hold
          MaxRows,      \* bound: lines in one import file
          Exprs,        \* formula texts a client may send, parsed
          RateLists,    \* rates a client may put, by currency and type
          InitEnt, InitAcc, InitExpr, InitRates, \* the metadata the server starts with
          EditEntities, EditAccounts, EditScenarios, \* members clients add, move, delete
          FormulaTargets,             \* accounts whose formula clients edit
          FlowEntities                \* entities whose workflow clients drive

VARIABLES ent,      \* Entity dimension: member -> parent
          acc,      \* Account dimension: member -> parent
          expr,     \* Formula of the accounts that have one
          dynamic,  \* accounts with DynamicCalc set
          scen,     \* Scenario dimension: its members
          rates,    \* slice -> FX rates by currency and type
          units,    \* slice -> entity -> cell maps
          status,   \* workflow registry: tracked unit -> status
          stale     \* history: units imported since their slice was processed

metaVars == <<ent, acc, expr, dynamic, scen, rates>>
vars     == <<ent, acc, expr, dynamic, scen, rates, units, status, stale>>

UnitKeys     == Slices \X Entities
Scenarios    == {s[1] : s \in Slices}
SlicesOf(sc) == {s \in Slices : s[1] = sc}

\* storedFormulaAccount
StoredFormula(a) == a \in DOMAIN expr /\ a \notin dynamic

StoredFormulas == [a \in {x \in DOMAIN expr : StoredFormula(x)} |-> expr[a]]
Meta           == [ent |-> ent, acc |-> acc, formulas |-> StoredFormulas]
MetaAt(s)      == [ent |-> ent, acc |-> acc, formulas |-> StoredFormulas, rates |-> rates[s]]

StatusOf(u) == IF u \in DOMAIN status THEN status[u] ELSE "NotStarted"
Certified(u) == StatusOf(u) = "Certified"

\* Registry.Apply of one action to each unit of us.
Tracked(us, a) == [u \in DOMAIN status \cup us |-> IF u \in us THEN Target(a) ELSE status[u]]

Restricted(f, S) == [x \in DOMAIN f \cap S |-> f[x]]

Init == /\ ent = InitEnt /\ acc = InitAcc /\ expr = InitExpr /\ dynamic = {}
        /\ scen = Scenarios /\ rates = InitRates
        /\ units = [s \in Slices |-> [e \in Entities |-> NoUnit]]
        /\ status = [u \in {} |-> "NotStarted"]
        /\ stale = {}

\* The metadata a server starts with: trees, with every formula on a leaf.
\* A name is not empty (ValidMemberName).
ASSUME MetadataAssumption ==
  /\ IsFiniteSet(DOMAIN InitEnt) /\ Closed(InitEnt) /\ Acyclic(InitEnt)
  /\ IsFiniteSet(DOMAIN InitAcc) /\ Closed(InitAcc) /\ Acyclic(InitAcc)
  /\ \A a \in DOMAIN InitExpr : IsLeaf(InitAcc, a)
  /\ DOMAIN InitEnt \cup EditEntities \subseteq Entities
  /\ DOMAIN InitAcc \cup EditAccounts \subseteq Accounts
  /\ NoParent \notin Entities \cup Accounts

\* A write names a coordinate, cube.Coord, and amounts are integers.
ASSUME DataAssumption == /\ \A w \in Writes : w.coord \in Coords /\ w.value \in Int
                         /\ \A r \in Rows : r.amount \in Int

\* What handleRatesPut lets pass: a positive rate of one of two types.
RateTable(list) == \A r \in DOMAIN list : r[2] \in {"Average", "Closing"} /\ list[r] \in Nat \ {0}

ASSUME SettingsAssumption ==
  /\ \A f \in Exprs : LinearForm(f)
  /\ \A a \in DOMAIN InitExpr : LinearForm(InitExpr[a])
  /\ DOMAIN InitRates = Slices /\ \A s \in Slices : RateTable(InitRates[s])
  /\ \A list \in RateLists : RateTable(list)
  /\ EditScenarios \subseteq Scenarios

-----------------------------------------------------------------------------
(* Data.  validateWrite and stage.Validate ask the same of a coordinate.   *)
ValidCell(s, e, c) ==
  /\ s \in Slices /\ s[1] \in scen /\ IsLeaf(ent, e) /\ IsLeaf(acc, c.acct)
  /\ c.acct \notin dynamic /\ c.acct \notin DOMAIN expr
  /\ c.origin \in UserOrigins
  /\ c.ic = None \/ Has(ent, c.ic)

ValidWrite(w) == /\ Finite(w.value) /\ ValidCell(w.slice, w.entity, w.coord)
                 /\ ~Certified(<<w.slice, w.entity>>)

\* What a batch of writes to unit u leaves of its cells m: the last write to a
\* cell stands.
Overwritten(m, batch, u) ==
  LET here    == {i \in DOMAIN batch : <<batch[i].slice, batch[i].entity>> = u}
      to(c)   == {i \in here : batch[i].coord = c}
      last(c) == CHOOSE i \in to(c) : \A j \in to(c) : j <= i
  IN  Keep([c \in DOMAIN m \cup {batch[i].coord : i \in here} |->
              IF to(c) = {} THEN m[c] ELSE batch[last(c)].value])

Written(batch, u) == Overwritten(units[u[1]][u[2]]["Input"], batch, u)

WriteAll(batch) ==
  units' = [s \in Slices |-> [e \in Entities |->
              [units[s][e] EXCEPT !["Input"] = Written(batch, <<s, e>>)]]]

\* handleDataCells: every write is validated before any is applied.
DataCellsChecksFirst(batch) ==
  /\ ValidWrite(batch[1])
  /\ WriteAll(batch)
  /\ UNCHANGED <<metaVars, status, stale>>

DataCells(batch) ==
  /\ \A i \in DOMAIN batch : ValidWrite(batch[i])
  /\ WriteAll(batch)
  /\ UNCHANGED <<metaVars, status, stale>>

\* The coordinate a row is loaded at.
ImportCoord(r) == [acct |-> r.acct, origin |-> "Import", ic |-> IF r.ic = "" THEN None ELSE r.ic]

\* Validate flags bad rows; LoadPlan groups the others and sums duplicates.
CleanRows(rows) == {i \in DOMAIN rows :
                      ValidCell(rows[i].slice, rows[i].entity, ImportCoord(rows[i]))}
RowUnit(r) == <<r.slice, r.entity>>

Planned(rows, u, c) ==
  SumFunction([i \in {j \in CleanRows(rows) : RowUnit(rows[j]) = u /\ ImportCoord(rows[j]) = c} |->
                 rows[i].amount])

PlanFiniteByRow(rows, u) ==
  \A i \in CleanRows(rows) : RowUnit(rows[i]) = u => Finite(rows[i].amount)

\* Finite rows may add up to a sum that is not.
PlanFinite(rows, u) ==
  \A i \in CleanRows(rows) : RowUnit(rows[i]) = u => Finite(Planned(rows, u, ImportCoord(rows[i])))

LoadedOnTop(rows, u) ==
  LET input  == units[u[1]][u[2]]["Input"]
      coords == {ImportCoord(rows[i]) : i \in {j \in CleanRows(rows) : RowUnit(rows[j]) = u}}
  IN  Keep([c \in DOMAIN input \cup coords |->
              IF c \in coords THEN Planned(rows, u, c) ELSE input[c]])

\* The Input of a planned unit: its Import cells are replaced by the plan's.
Loaded(rows, u) ==
  LET cleared == ClearOrigin(units[u[1]][u[2]]["Input"], "Import")
      coords  == {ImportCoord(rows[i]) : i \in {j \in CleanRows(rows) : RowUnit(rows[j]) = u}}
  IN  Keep([c \in DOMAIN cleared \cup coords |->
              IF c \in coords THEN Planned(rows, u, c) ELSE cleared[c]])

TrackedAsNew(us) == Tracked(us \ DOMAIN status, "import")

TrackedImport(us) == Tracked(us, "import")

\* handleImportCommit: refused as a whole when one target unit is certified,
\* or one sum is not finite.
ImportCommit(rows) ==
  LET planned == {RowUnit(rows[i]) : i \in CleanRows(rows)}
  IN  /\ \A u \in planned : Allowed(StatusOf(u), "import") /\ PlanFinite(rows, u)
      /\ units' = [s \in Slices |-> [e \in Entities |->
                     IF <<s, e>> \in planned
                     THEN [units[s][e] EXCEPT !["Input"] = Loaded(rows, <<s, e>>)]
                     ELSE units[s][e]]]
      /\ status' = TrackedImport(planned)
      /\ stale' = stale \cup planned
      /\ UNCHANGED metaVars

-----------------------------------------------------------------------------
(* Consolidation and workflow.                                             *)

\* consol.Process of a slice; an error leaves the units untouched.
RunProcess(s) ==
  /\ ~ProcessFails(MetaAt(s))
  /\ units' = [units EXCEPT ![s] = Process(MetaAt(s), units[s])]
  /\ stale' = stale \ ({s} \X Entities)

\* handleProcess: no look at the workflow, and none at the certified units.
ManualProcess(s) == RunProcess(s) /\ UNCHANGED <<metaVars, status>>

\* handleWorkflowAction: the transition is checked before anything is done;
\* "process" consolidates the slice first.
WorkflowAction(s, e, a) ==
  /\ Has(ent, e) /\ s[1] \in scen
  /\ Allowed(StatusOf(<<s, e>>), a)
  /\ IF a = "process" THEN RunProcess(s) ELSE UNCHANGED <<units, stale>>
  /\ status' = Tracked({<<s, e>>}, a)
  /\ UNCHANGED metaVars

-----------------------------------------------------------------------------
(* Metadata.                                                               *)
Added(t, x, p)   == [y \in DOMAIN t \cup {x} |-> IF y = x THEN p ELSE t[y]]
CanAdd(t, x, p)  == ~Has(t, x) /\ (p = NoParent \/ Has(t, p))
\* MoveMember
CanMove(t, x, p) == p = NoParent \/ (Has(t, p) /\ x # p /\ ~IsAncestor(t, x, p))
Moved(t, x, p)   == [t EXCEPT ![x] = p]

AddEntity(x, p) ==
  /\ CanAdd(ent, x, p)
  /\ ent' = Added(ent, x, p)
  /\ UNCHANGED <<acc, expr, dynamic, scen, rates, units, status, stale>>

MoveEntity(x, p) ==
  /\ Has(ent, x) /\ p # ent[x] /\ CanMove(ent, x, p)
  /\ ent' = Moved(ent, x, p)
  /\ UNCHANGED <<acc, expr, dynamic, scen, rates, units, status, stale>>

\* A formula field of a request: some expression, or none ("").
NoExpr == [coef |-> [r \in {} |-> 0], const |-> -1]
WithFormula(a, f) == IF f = NoExpr THEN Restricted(expr, DOMAIN expr \ {a})
                     ELSE [x \in DOMAIN expr \cup {a} |-> IF x = a THEN f ELSE expr[x]]
WithDynamic(a, d) == IF d THEN dynamic \cup {a} ELSE dynamic \ {a}

MayHaveChildrenByFlag(p) == p \notin dynamic

MayHaveChildren(p) == ~StoredFormula(p)

\* handleDimAdd on Account: nothing may be hung under a stored formula.
AddAccount(x, p, f, d) ==
  /\ CanAdd(acc, x, p) /\ MayHaveChildren(p)
  /\ acc' = Added(acc, x, p)
  /\ expr' = WithFormula(x, f) /\ dynamic' = WithDynamic(x, d)
  /\ UNCHANGED <<ent, scen, rates, units, status, stale>>

\* handleDimUpdate on Account, p, f and d being the prospective parent,
\* formula and DynamicCalc (a field left out keeps its value).
UpdateAccount(x, p, f, d) ==
  /\ Has(acc, x)
  /\ f # NoExpr /\ ~d => IsLeaf(acc, x)
  /\ p # acc[x] => CanMove(acc, x, p) /\ MayHaveChildren(p)
  /\ acc' = Moved(acc, x, p)
  /\ expr' = WithFormula(x, f) /\ dynamic' = WithDynamic(x, d)
  /\ UNCHANGED <<ent, scen, rates, units, status, stale>>

\* handleFormulaPut: an empty formula also takes the dynamic flag away.
FormulaPut(a, f, d) ==
  /\ Has(acc, a)
  /\ f # NoExpr /\ ~d => IsLeaf(acc, a)
  /\ expr' = WithFormula(a, f)
  /\ dynamic' = WithDynamic(a, d /\ f # NoExpr)
  /\ UNCHANGED <<ent, acc, scen, rates, units, status, stale>>

\* inputRefCount # 0: some Input cell of a doomed entity, or with a doomed
\* entity as its partner.
EntityInUseByPartner(doomed) ==
  \E s \in Slices, e \in Entities : \E c \in DOMAIN units[s][e]["Input"] : c.ic \in doomed

EntityInUse(doomed) ==
  \E s \in Slices, e \in Entities : \E c \in DOMAIN units[s][e]["Input"] :
     e \in doomed \/ c.ic \in doomed

AccountInUse(doomed) ==
  \E s \in Slices, e \in Entities : \E c \in DOMAIN units[s][e]["Input"] : c.acct \in doomed

\* purgeDerivedRefs, the cells: whole units of the doomed entities, and the
\* stage cells at the coordinates that name a doomed member.
PurgedInputOnly(u, naming) ==
  [st \in Stages |-> [c \in DOMAIN u[st] \ (IF st = "Input" THEN naming ELSE {}) |-> u[st][c]]]

Purged(u, naming) ==
  [st \in Stages |-> [c \in DOMAIN u[st] \ (IF st = "Input" THEN {} ELSE naming) |-> u[st][c]]]

Forgotten(us) == Restricted(status, DOMAIN status \ us)

\* handleDimDelete; a member with children needs the recursive flag.
DeleteEntity(x, recursive) ==
  LET doomed == Subtree(ent, x)
  IN  /\ Has(ent, x) /\ (recursive \/ IsLeaf(ent, x))
      /\ ~EntityInUse(doomed)
      /\ ent' = Restricted(ent, DOMAIN ent \ doomed)
      /\ units' = [s \in Slices |-> [e \in Entities |->
                     IF e \in doomed THEN NoUnit
                     ELSE Purged(units[s][e], {c \in Coords : c.ic \in doomed})]]
      /\ status' = Forgotten(Slices \X doomed)
      /\ stale' = stale \ (Slices \X doomed)
      /\ UNCHANGED <<acc, expr, dynamic, scen, rates>>

DeleteAccount(x, recursive) ==
  LET doomed == Subtree(acc, x)
  IN  /\ Has(acc, x) /\ (recursive \/ IsLeaf(acc, x))
      /\ ~AccountInUse(doomed)
      /\ acc' = Restricted(acc, DOMAIN acc \ doomed)
      /\ expr' = Restricted(expr, DOMAIN expr \ doomed)
      /\ dynamic' = dynamic \ doomed
      /\ units' = [s \in Slices |-> [e \in Entities |->
                     Purged(units[s][e], {c \in Coords : c.acct \in doomed})]]
      /\ UNCHANGED <<ent, scen, rates, status, stale>>

\* Scenario members: flat, and only their own units refer to them.
AddScenario(sc) ==
  /\ sc \notin scen
  /\ scen' = scen \cup {sc}
  /\ UNCHANGED <<ent, acc, expr, dynamic, rates, units, status, stale>>

\* The rates of the scenario stay in the table.
DeleteScenario(sc) ==
  LET doomed == SlicesOf(sc)
  IN  /\ sc \in scen
      /\ \A s \in doomed, e \in Entities : units[s][e]["Input"] = Empty
      /\ scen' = scen \ {sc}
      /\ units' = [s \in Slices |-> IF s \in doomed THEN [e \in Entities |-> NoUnit] ELSE units[s]]
      /\ status' = Forgotten(doomed \X Entities)
      /\ stale' = stale \ (doomed \X Entities)
      /\ UNCHANGED <<ent, acc, expr, dynamic, rates>>

WithRates(s, list) ==
  [r \in DOMAIN rates[s] \cup DOMAIN list |-> IF r \in DOMAIN list THEN list[r] ELSE rates[s][r]]

\* handleRatesPut sets the listed rates and removes none.
RatesPut(s, list) ==
  /\ s[1] \in scen
  /\ rates' = [rates EXCEPT ![s] = WithRates(s, list)]
  /\ UNCHANGED <<ent, acc, expr, dynamic, scen, units, status, stale>>

-----------------------------------------------------------------------------
Lists(S, n) == UNION {[1 .. k -> S] : k \in 1 .. n}

DataStep ==
  \/ \E batch \in Lists(Writes, MaxBatch) : DataCells(batch)
  \/ \E rows \in Lists(Rows, MaxRows) : ImportCommit(rows)

FlowStep == \E s \in Slices :
  \/ ManualProcess(s)
  \/ \E e \in FlowEntities, a \in Actions : WorkflowAction(s, e, a)

EntityStep == \E x \in EditEntities :
  \/ \E p \in Entities \cup {NoParent} : AddEntity(x, p) \/ MoveEntity(x, p)
  \/ \E recursive \in BOOLEAN : DeleteEntity(x, recursive)

AccountStep == \E x \in EditAccounts :
  \/ \E p \in Accounts \cup {NoParent}, f \in Exprs \cup {NoExpr}, d \in BOOLEAN :
        AddAccount(x, p, f, d) \/ UpdateAccount(x, p, f, d)
  \/ \E recursive \in BOOLEAN : DeleteAccount(x, recursive)

FormulaStep == \E a \in FormulaTargets, f \in Exprs \cup {NoExpr}, d \in BOOLEAN :
  FormulaPut(a, f, d)

ScenarioStep == \E sc \in EditScenarios : AddScenario(sc) \/ DeleteScenario(sc)

RatesStep == \E s \in Slices, list \in RateLists : RatesPut(s, list)

Next == \/ DataStep \/ FlowStep \/ EntityStep \/ AccountStep \/ FormulaStep
        \/ ScenarioStep \/ RatesStep

Spec == Init /\ [][Next]_vars

-----------------------------------------------------------------------------
Tree(t, S) == /\ DOMAIN t \subseteq S
              /\ \A x \in DOMAIN t : t[x] = NoParent \/ t[x] \in DOMAIN t

CellMap(m) == DOMAIN m \subseteq Coords /\ \A c \in DOMAIN m : m[c] \in Int \ {0}

(* The state has its shape; in particular a zero cell is never stored, and *)
(* an elimination cell never reaches Input.                                *)
TypeOK ==
  /\ Tree(ent, Entities) /\ Tree(acc, Accounts)
  /\ DOMAIN expr \subseteq DOMAIN acc /\ dynamic \subseteq DOMAIN acc
  /\ scen \subseteq Scenarios
  /\ \A s \in Slices : RateTable(rates[s])
  /\ \A s \in Slices, e \in Entities, st \in Stages : CellMap(units[s][e][st])
  /\ \A s \in Slices, e \in Entities : DOMAIN units[s][e]["Input"] \subseteq InputCoords
  /\ DOMAIN status \subseteq UnitKeys /\ \A u \in DOMAIN status : status[u] \in Statuses

(* data.go and imports.go refuse writes to a certified unit, and nothing   *)
(* else a client can do may change what users entered there: not a run of  *)
(* Process, not an edit of the metadata.                                   *)
UserInput(us, u) == UserCells(us[u[1]][u[2]]["Input"])

CertifiedFrozen ==
  [][\A u \in UnitKeys : Certified(u) => UserInput(units', u) = UserInput(units, u)]_vars

(* A metadata edit never loses or invents a user's cell: deletions are     *)
(* refused while Input refers to the doomed members (inputRefCount).       *)
UserDataSurvivesEdits ==
  [][metaVars' # metaVars => \A u \in UnitKeys : UserInput(units', u) = UserInput(units, u)]_vars

(* Neither a cell of any stage nor a workflow entry ever names a member    *)
(* that does not exist, whatever was deleted before.                       *)
NoDanglingRefs ==
  /\ \A s \in Slices, e \in Entities, st \in Stages : \A c \in DOMAIN units[s][e][st] :
        s[1] \in scen /\ Has(ent, e) /\ Has(acc, c.acct) /\ (c.ic = None \/ Has(ent, c.ic))
  /\ \A u \in DOMAIN status : u[1][1] \in scen /\ Has(ent, u[2])

(* dims.go keeps every stored formula on a leaf account through additions, *)
(* moves and formula edits, so that Process never refuses a slice for it.  *)
StoredFormulasAtLeaves == \A a \in DOMAIN expr : StoredFormula(a) => IsLeaf(acc, a)

(* "a single NaN/Inf cell would make every JSON snapshot save fail", says  *)
(* writableValue of consol.go: whatever users enter and import, and however *)
(* their finite amounts add up, no stage of any unit holds an amount that   *)
(* is out of range.                                                         *)
SnapshotSavable ==
  \A s \in Slices, e \in Entities, st \in Stages :
    \A c \in DOMAIN units[s][e][st] : Finite(units[s][e][st][c])

(* A unit counts as processed or certified only if its slice was           *)
(* consolidated after its last import.                                     *)
ProcessedAfterImport ==
  \A u \in UnitKeys : StatusOf(u) \in {"Processed", "Certified"} => u \notin stale
=============================================================================
