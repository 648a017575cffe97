# TLA+ models of onetrickle

onetrickle is a small corporate-performance-management server: users enter or
import financial amounts for their entities, the server translates, eliminates
and consolidates them up an entity hierarchy, and a workflow takes each data
unit from import to certification. It keeps everything in memory, saves it as
one JSON snapshot after every change, and serves a browser application.

These modules model that program: the parts whose correctness depends on the
order of steps, on several pieces of state agreeing, or on a recursion over
data that a user can change. `PROJECT.json` maps every definition to the lines
it stands for, lists the runs, the hazards and the theorems. Source paths below
are relative to `src/`; "SPEC" is `src/SPEC.md`.

## 1. The system

| component | state | operations | hard behaviours |
|---|---|---|---|
| workflow registry, `internal/workflow` | per unit: status, history of events | `Apply(action)`, `Get`; deletion with its entity or scenario | long sequences of reopening and re-importing; the audit trail must keep explaining the status |
| snapshot store, `internal/store` | `<path>`, `<path>.tmp` | `Save` (write temporary, rename), `Load` | a failure or the end of the process at every step |
| HTTP server, `internal/server` | `state` under one `RWMutex` | one handler per route | requests in parallel, a writer queueing readers, a save that fails after the change |
| data entry, `server/data.go` | `Input` cells of units | batch of cell writes, process, query, export | atomic batches; certified units frozen |
| import, `server/imports.go`, `internal/stage` | profiles; `Import` cells | edit profiles, transform, validate, load plan, commit | overlapping rules, files that are partly bad, several units in one commit, replacement, workflow moved back |
| metadata, `server/dims.go` | dimensions, formulas, rates | add, update/move, delete, formula put, rates put | references from cells, stages, workflow; formulas on leaves only |
| dimension trees, `internal/model/dims.go` | parent, children lists, roots | `AddMember`, `MoveMember`, `RemoveMember`, walks | every link stored twice; a cycle would make walks endless |
| consolidation, `internal/consol` | none: rebuilds `Calc` cells and stages of a slice | `Process`: formulas, translation, elimination, consolidation | order of dependent formulas, common ancestors, ownership over levels, leftovers of earlier runs |
| formulas, `internal/calc` | none | lex, parse, evaluate, references, topological order | names that look like subtractions, dependencies through rollups, the cycle that refuses a run |
| query engine, `internal/cube/engine.go` | one evaluation context per grid | `GetCell`, `Query` | weighted rollup, periods and views, stages that fall back, nested axes; recursive formulas, cycles, the depth limit, a context shared by all cells |
| time members and account types, `internal/model` | none: generated or constant | months of a period, balance or flow, which rate | boundaries of quarters and years |
| codecs, `internal/cube/types.go` | none | unit and coordinate keys | names with the separator in them |
| seed, `cmd/onetrickle`, `internal/seed` | the data directory | check, build, consolidate, save | a server on the same directory |
| browser, `web/app.js` | point of view, filters, last answer, queries in flight | filter, query, edit | answers out of order, state read before and used after an await |

How they interact. `cmd/onetrickle` loads the snapshot into `Server.state` and
starts the handlers. A handler takes the lock (read or write), looks at and
changes the state (calling `model`, `stage`, `consol`, `workflow`), calls
`store.Save` while it holds the lock, replies, and unlocks. A query goes
through `cube.Engine`, which calls `calc` for dynamic formulas, which calls the
engine back for each reference. `Process` reads metadata, rates and the `Input`
cells of a slice and replaces its derived cells. Everything shared is in
`Server.state`; there are no channels, timers or background jobs. The browser
holds state of its own and sees the server's through requests.

What makes each part correct:

* the registry: the trail of a unit is an unbroken walk from NotStarted to its
  status, never rewritten, and shows the whole pipeline behind a certification;
* store and lock: the snapshot is always loadable, an acknowledged write is in
  it, every request ends;
* handlers: a certified unit keeps what users entered, no member is deleted
  under a reference, nothing counts as processed on an import that was not
  consolidated, formulas stay where the engine can evaluate them;
* trees: both records of a link agree, no cycle;
* the engine: its result depends on user data only, formulas agree with each
  other's results, elimination nets to nothing at the first common ancestor,
  every ancestor holds its share of its subtree;
* queries: cells outside cycles are exact, cells on them are 0, and the grid
  never changes a value without an issue; parents, periods, stages and grids
  agree with their parts and with what the consolidation wrote;
* imports: the closest rule decides, and `Import` cells are those of the last
  commit for their unit;
* formulas: a text means what the grammar says, every legal name can be
  referred to, the order puts inputs first or names a real cycle.

## 2. Modules

| module | models | state | actions |
|---|---|---|---|
| `WorkflowRules` | the transition table | | |
| `Workflow` | `workflow.Registry` | `entries` | `Apply`, `Forget` |
| `DurableStore` | *abstract*: what persistence promises | `memory`, `durable`, `acked` | `Mutate`, `Sync`, `Ack`, `Restart` |
| `Persistence` | lock, handlers as a whole, `Save`, `Load`, end of the process | files, lock, requests | one per step between two places where a request can wait, fail or die |
| `Hierarchy` | *abstract*: a forest | `parent` | `Add`, `Move`, `Remove` |
| `Dimension` | `model.Dimension` as stored | `parent`, `children`, `roots` | `AddMember`, `MoveMember`, `RemoveMember` |
| `Trees` | the questions asked of a hierarchy, over its parents | | |
| `Periods` | time members, account types | | |
| `Consol` | `consol.Process` as a function of metadata and units | | |
| `Server` | the mutating handlers, each one action | metadata, rates, units, workflow status | `DataCells`, `ImportCommit`, `ManualProcess`, `WorkflowAction`, `AddEntity`, ..., `DeleteScenario`, `RatesPut` |
| `Consolidation` | what `Process` promises, in every state of `Server` | | |
| `Query` | `Engine.GetCell`, dynamic accounts included, and `Engine.Query`, in every state of `Server` | | |
| `Demo` | the tables of `internal/seed` | | |
| `Seed` | the state `runSeed` saves, and a server that starts from it | `requests` | those of `Server` |
| `Staging` | profiles, `stage.Transform`, the import handlers, on top of `Server` | `profiles`, `loaded` | `ProfilePost`, `ProfilePut`, `ProfileDelete`, `Commit`, `OtherRequest` |
| `Lexer`, `Parser` | `internal/calc/parser.go`, `ValidMemberName` | | |
| `TopoSort` | `calc.TopoSortDeps`, one step per turn of its loops | `deps`, `indeg`, `ready`, `order`, `path` | `Start`, `Take`, `Finish`, `LookForCycle`, `Walk`, `Close`, `Return` |
| `Formulas` | a formula from the editor through the parser and the dependency graph to the sort | `draft`, `texts` and those of `TopoSort` | `Edit`, `PutFormula`, `ClearFormula`, `RunStoredCalcs`, `Sort` |
| `DynamicCalc` | `Engine.getCell` over a grid, its recursion as a stack | `stack`, `inFlight`, `cycled`, `issues`, `answers` | one per call and per return |
| `KeyCodec` | `UnitKey.Key`, `ParseUnitKey` through a save and a load | profiles, units, file | `PutProfile`, `DeleteProfile`, `ImportCommit`, `Restart` |
| `QuickView` | the grid page of `web/app.js` | filters, queries in flight, table on screen | the event handlers, split at their awaits |

`WorkflowProofs`, `PersistenceProofs`, `DimensionProofs`, `FormulasProofs`,
`DynamicCalcProofs`, `TreeProofs`, `EngineProofs` and `ServerProofs` hold the
theorems and their proofs. An `MC...` module gives the constants of a module that takes
more than model values.

How they compose. `Server` extends `Consol` (which extends `Trees` and
`Periods`) and `WorkflowRules`, so a consolidation is the real one, run inside
the workflow action that calls it. `Query` extends `Consolidation`, which
extends `Server`: what is read and what was written meet in one state. `Seed`
starts `Query` from `Demo`; `Staging` puts profiles and files in front of
`ImportCommit`. `Formulas` extends `Parser` and `TopoSort` and takes `Lexer` and
`Trees` as instances; the sort `Consol` uses is the same one as a function. That a handler is one atomic action in `Server` is what
`Persistence` shows of the lock; that a hierarchy may be taken for the function
from member to parent in `Trees` and `Server` is what `Dimension` shows by
implementing `Hierarchy`.

### Correspondence to the code

**Workflow.** `Registry.Entries` is a function on the tracked units; `Get` and
`Status` answer for an untracked one as the code does. `Apply` appends the event
before it moves the status. Time stamps and user names are left out.

**Persistence.** Between its first look at the state and its reply a mutating
handler holds the write lock, so what it does to the state is one write, a
number, and the state is the set of writes it reflects. `sync.RWMutex` is
modelled as Go implements it: `Announce` keeps new readers out, `Enter` waits
for the present ones, unlocking lets every queued reader in. `Save` is
`Create`, `Write`, `Rename`, and `SaveFails` at each of them; a failed save
leaves the change in memory and the client with a 500. `Crash` may come
anywhere. `fsync` is absent from the code and from the model: the model ends
the process, not the machine.

**Server.** A unit is its four cell maps; a cell map has no zero cell (as
the handlers and the engine's writes keep it). One cube; a slice is a scenario and a
month, the second as a record in `Query` and as a name elsewhere. A coordinate
is account, origin and partner: Flow and UD1-4 take part in nothing but
equality. A request that is answered with an error changes nothing
and is no step. `stale` is a history variable, the units imported since their
slice was last processed; no guard reads it.

**Consol.** `Process` is a function, as the code has it: the order in which it
walks its maps does not matter, except in the last bits of a float. Formulas
are linear forms. Amounts are integers divisible by every percentage used, so
nothing is rounded, and `eps` has nothing to drop but zero. `translate` takes
the rate of an account's type and the entity's currency from the table of the
slice, and 1 where there is none. An integer beyond `Largest` stands for a
float that is not finite: `Writable` skips it as `writableValue` does, in each
of the four steps. Only the final sum is judged; a sum that overflows halfway
and would come back, which the code skips, is stored here.

**Query.** A point of view is a record with one field per dimension. Stages
without cells have no map, as `Process` leaves them; a purge can leave an empty
map behind, which is then read instead of the next stage, and is not told from
a missing one here. `memberWeights` walks down, `MemberWeights` recurses up, to
the same product. The headers and paths of an answer are left out: the cells
are its content.

**Demo, Seed.** Members, types, weights, ownership, formulas, cells and rules
are those of `seed.go`. Amounts are multiples of 5 and rates whole numbers in
the code's order, so that the 80% of a multiple of 5 is whole. The run puts one
more account under one of the demo's, so that a parent holds cells.

**Query.** `GetCell` branches as `getCell` does: an account that is in the tree,
flagged dynamic and has a formula answers with the formula (`DynamicCell`), every
other with what is stored for it and below it (`StoredCell`). A formula is linear,
as everywhere around the server, so a dynamic account is a constant and weighted
references, each a query of its own with only the account swapped. The value is
by depth: 0 at the limit of 16, 0 on a cycle, otherwise the formula over the
values one deeper. That the recursion with its set of cells in flight comes to
these values is what `DynamicCalc` shows, of no more than 16 dynamic accounts
(`CyclesYieldZero`, `AcyclicIsExact`). A dynamic account has no part in rollups:
a parent reads the cells stored below it, whatever it answers itself. The
properties say where that matters, and the run makes `Cash` dynamic, a child of
the queried `BalanceSheet`.

**Staging.** Texts are opaque: constants answer which begins with which, how
long one is, and which amount it spells. A file is a sequence of records. The
preview transforms and validates as the commit does, under the read lock, and
keeps nothing; it is no action. `loaded` is a history variable, the Import cells
clients meant a unit to hold: what its last commit said, and what was written
over it since, since `validateWrite` takes Import for an origin like any other.
The index of `indexRules` is a set of positions in the list of rules, of which
the last counts where a map or a field would be overwritten; the scan of
`applyRules` over the prefixes is a recursion over those positions.

**Lexer, Parser, Formulas.** `lexRefName`'s loop is "the first place that does
not continue the name". What a parse function returns depends on the
place it starts at alone (`parser.pos`), and it calls others for later places or
a tighter one for the same place: the results of `parseExpr`, `parseTerm` and
`parseFactor` are a table, filled from the last place to the first. A node tree
is a function from the way to a node (which argument to take at each level) to
its token. `ParsesTheGrammar` compares the parser with the grammar in the comment of `Parse`, written as the set of
all trees a token sequence can be split into, so that it also shows there is
never more than one. In `Formulas` a text is a sequence of tokens; only
`NamesAreReferable` spells it out, in spaced and in touching form.

**TopoSort.** The code sorts names wherever it has a choice. The model takes
any, so its results do not rest on the order of names; that the output is the
same each time is not stated.

**DynamicCalc.** The cells of one evaluation differ in their account alone, so
an account stands for a cell. A formula is a sum of references, or an IF on one
reference. Where the code evaluates a sum from left to right, the model reads
the references in any order. `maxDynDepth` is 2 or 3 instead of 16, so that
three formulas can reach it.

**Dimension.** `Descendants`, `IsAncestor` and the recursion of `RemoveMember`
are least sets closed under the links they follow, children lists downwards
and parents upwards: so the refinement also checks that both walks find the
same members. `ValidMemberName` is the membership in `Names`.

**QuickView.** A handler with an `await` is two actions, before and after it.

## 3. Runs

| run | module | question | instance |
|---|---|---|---|
| `workflow` | `MCWorkflow` | trail unbroken, append-only, evidence of the pipeline | two units, six events each: enough to certify, reopen and start over, or to re-import in the middle |
| `persistence` | `MCPersistence` | snapshot whole, acknowledged writes survive, implements `DurableStore`, every request ends | three requests at a time, three writes, two crashes: two writers and a reader compete, a save fails between two that succeed, a crash meets every combination of files (102 753 states) |
| `server_data` | `MCServerData` | certified units frozen, nothing processed on an unseen import, no overflow in a snapshot | a group of two entities, one in another currency, that trade with each other; a formula account; batches of two writes, files of two rows, one of them invalid; amounts of 8 and 4 where 16 is out of range, so that two rows, a formula, a translation, an elimination and a group can each overflow (10 404 states) |
| `server_metadata` | `MCServerMeta` | no dangling reference, no user cell lost, stored formulas on leaves | two entities that refer to each other as partners, two editable accounts and a scenario that come and go |
| `consolidation` | `MCConsol` | the four promises of `Process` | a group, a half-owned sub-group, an entity that moves, two formulas of which one reads the other through a parent account |
| `dynamic_calc` | `MCDynamicCalc` | exact off cycles, 0 on cycles, no silent change | every set of sums with up to two references over three accounts, and every one whose first account is an IF; grids of two cells; limits 2 and 3 |
| `dimension` | `Dimension` | links agree, no cycle, implements `Hierarchy` | four names: a move under a grandchild, a removal from the middle of a list |
| `query` | `MCQuery` | a parent is the weighted sum of its children, periods of different lengths agree, stored formulas and consolidated shares read back, a nested grid is a stack of flat ones | the demo's seven entities and thirteen accounts, one a balance below a flow, in three months of two quarters, consolidated; then up to three requests that write, change a rate, move the partly owned entity, put a formula with three levels of weights on an account, stored or dynamic, consolidate one month or leave it (656 states) |
| `staging` | `MCStaging` | the closest rule wins, `Import` cells mirror the last commit | every list of up to three of eight overlapping rules; three profiles, one refused, under one name; the demo's sample file and one with every kind of bad row; cell writes, workflow, moves of entities, formulas in between (42 480 states) |
| `formulas` | `MCFormulas` | the parser is the grammar, legal names are readable, inputs first, a reported cycle is real | five texts, two edits from a vocabulary of ten tokens; names of up to three characters from letters, digits, spaces and hyphens; stored formulas over a parent with two children (289 491 states) |
| `key_codec` | `MCKeyCodec` | *violated:* parsing reverses the key | one profile, a cube with and one without the separator |
| `quick_view` | `QuickView` | *violated:* an edit replaces the value on screen | two months, two stages, three queries, two pages |

Each property of a passing run is paired with a plausible mistake in the code,
kept in the module as a second form of the definition (for instance
`MoveMemberAppendsOnly`, a move that forgets the old list): with the mistake in
place TLC finds the property violated. Deadlock is not checked where a bound on
requests or on the grid ends the behaviour, or the instance can run out of
legal requests; it is checked in `workflow` and `persistence`.

### Bounds

`MaxHistory` (events in a trail), `MaxWrites` and `MaxCrashes`, `MaxBatch` and
`MaxRows` (writes and rows in one request), `MaxCells` (cells in a grid),
`MaxQueries` and `MaxPages`, `MaxRequests` (requests after the seed), `MaxEdits`
and `MaxLength` (edits of a text, and its length while it is edited) cap what
the program does not cap. `Largest` stands for the largest float: 15 in
`server_data`, out of every sum's reach in the other runs, so that
`EliminationNets` and `OwnershipWeighted` speak of amounts that fit. The properties
speak of one unit, one link, one cell or one pair of requests at a time; the
instances have at least one more of them, to interfere, and are large enough
that every action happens and that each of the mistakes is found.

### Fairness

Only `persistence` assumes any. A goroutine that can run runs (weak fairness of
`Handle`); the mutex that orders the writers hands itself over to a starving
waiter (`sync.Mutex` does since Go 1.9; strong fairness of `Announce`); a
stopped server is started again (`deploy/onetrickle.service` restarts it after a
failure). It also
assumes that a reply is written: `runServe` sets no write timeout, so a client
that never reads its reply holds the lock, which is listed as a hazard and is
outside the model.

## 4. Where code and documentation disagree

* **Unit keys** (`internal/cube/types.go:31`). The cube of an import profile is
  unchecked text; with a `|` in it the saved key does not parse and the
  snapshot does not load.
* **Grid edits** (`web/app.js:691`). The write is made from the filters at the
  time of the click, the table from an earlier query: the value on screen need
  not be the one replaced.

Met while modelling, described here without a run:

* **Seed** (`cmd/onetrickle/main.go:62`). The check for a snapshot and the
  save are apart; a server that saves in between loses its snapshot, although
  "The seed subcommand refuses to overwrite an existing snapshot" (main.go:7).
* **Fallback** (`internal/cube/engine.go:209`). A missing `Consolidated` map
  sends a query to the translated cells, also for a parent whose consolidation
  came to nothing; SPEC section 4 grants the fallback to a leaf entity.
  `ConsolidatedQuery` leaves that parent out.
* **Engine-owned accounts** (`internal/server/dims.go:623`). A formula can be
  put on an account users have written to; their cells stay beside the
  engine's, and the account reads as the sum, although data.go:29-31 calls its
  values the engine's. `StoredFormulaQueried` therefore looks at `Calc` cells.
* **Weighted sums** (`internal/cube/engine.go:166`). SPEC section 2 has a
  parent as the weighted sum of its children; the queried account's type alone
  chooses the months, so over a quarter a balance above flows is the last month
  of them. `ParentIsWeightedSum` holds the sum for each month whatever the types,
  for a period where the children are balances or not as the parent is.
* **Dynamic children** (`internal/cube/engine.go:119`). Nor is a parent the sum of
  its children where one is dynamic: the child answers with its formula, the
  parent adds the cells stored below it, which remain when a formula is put on an
  account that has some, or when it has children. In the run, `Cash` made dynamic
  answers with its formula while `BalanceSheet` goes on summing Cash's stored
  cells. `ParentIsWeightedSum` speaks of parents that are not dynamic and have no
  dynamic child.
* **Dynamic references** (`internal/consol/consol.go:455`). Of a stored formula
  that refers to a dynamic account, consolidation reads the cells stored below
  it, while a query of the same reference answers with the dynamic formula.
  SPEC section 5 gives the first reading for stored formulas;
  `StoredFormulaQueried` leaves these formulas out.
* **Names** (`internal/model/dims.go:80`). "a name must round-trip as a calc A#
  formula reference" (dims.go:73-79), but two hyphens in a row pass
  `ValidMemberName` and end a reference (`internal/calc/parser.go:88`): no
  formula can name `a--b`. `NamesAreReferable` states exactly that: whatever legal
  names the accounts of a formula have, it is read as written if and only if
  none of them has two hyphens in a row (`Readable`). Of tokens that touch it
  excepts one more form, a minus between a name and a number or a function
  (`A#Sales-1`), where the hyphen belongs to the name by the rules of
  `lexRefName` (`Hyphenated`).

And from `DynamicCalc`: the set of cycled cells lives
as long as the grid, so among formulas that close a cycle in one branch of an
IF only, a cell can read 0 in a grid and another value alone. `CyclesYieldZero`
therefore speaks of formulas without IF.

## 5. Proofs

All theorems hold for every value of the constants, under the named assumptions
of the modules. TLC evaluates each of them on the instances of the runs.

* `MaxHistoryAssumption`, `BoundsAssumption`, `LimitsAssumption`: bounds and
  limits are naturals, the limit of the recursion not zero.
* `NamesAssumption` (of `Dimension`): "" is no member's name. `NodesAssumption`: the names to sort
  are finitely many. `LimitsAssumption` also: so are the accounts of a grid.
  `FormulasAssumption` (of `DynamicCalc`): a formula refers to accounts.
* `TokensAssumption`: a token is an account, a literal, a function name, a
  comparison, an operator or punctuation, and only one of them.
  `FormulasAssumption` (of `Formulas`): the texts at the start are sequences of
  tokens, and a formula that is stored at the start is one that the parser takes
  (`handleFormulaPut` stores no other).
* `SpellingAssumption`: a literal is spelled in digits, a function's name in
  letters, every other token as `lex` has it, and no sign is a letter or a digit.
  `NamesAssumption` (of `Formulas`): accounts have names that `ValidMemberName`
  takes (`AddMember` takes no other).
* `MetadataAssumption`: the trees of entities and accounts a server starts with
  are finite, closed under the parent and without cycles, its stored formulas are
  on leaves, and no client creates a member named "" (`Load` checks none of it, the
  seed and the handlers see to it).
* `DataAssumption`, `SettingsAssumption`, `FilesAssumption`: what clients send
  has the shape that decoding gives it: whole amounts, linear formulas, rates
  that are positive numbers, records of texts.
* `FactorsAssumption`: weights and percentages are whole, as in the models.
* `TextsAssumption`: rules come in lists, and a text is no shorter than its
  prefixes.
* `PointsAssumption`: a point of view has its eight fields and names an account;
  a slice belongs to a month. `GridsAssumption`: the Time dimension has finitely
  many years, and a grid request has two row levels, each a list of
  specifications (any: `RequestOK` refuses what the code refuses).

**`WorkflowProofs`.** `TypeCorrect`, `HistoryIsChained`,
`CertifiedWentThroughPipeline`, `HistoryIsAppendOnly`. The chain is inductive
with the types. The evidence is inductive too: the only way to a status is an
action whose guard pins the status before it, and the trail behind that one
already ends with the shorter pipeline.

**`PersistenceProofs`.** `TypeCorrect`, `SnapshotAlwaysWhole`,
`AcknowledgedWritesSurvive`, `PersistenceIsDurable`. None of the properties is
inductive: a rename publishes whatever the temporary file holds. `IInv` adds
`LockInv` (the lock has one owner, which is the one request inside a mutating
handler), `SaveInv` (a request about to rename has a temporary file equal to
memory, and one about to answer 200 has its write in the snapshot) and
`DownInv`. With them every step of the server is a step of `DurableStore` or
none: `Mutate`, a rename is `Sync`, a 200 is `Ack`, a crash is `Restart`.

**`DimensionProofs`.** `TypeCorrect`, `LinksAlwaysAgree`, `NeverACycle`,
`DimensionIsAForest`. `IInv` is the conjunction of the three invariants: a move
or removal deletes one name from one list, which is right only while each name
stands in one list once; and the check for a cycle looks at the parents. Two
facts carry the argument. A new cycle would run over the new link, and what it
has in common with the walk up from the new parent would have been closed
before. And what a removal takes is a whole subtree, since a subtree without a
member whose parent stays would still be closed. The refinement needs that the
walk upwards (`IsAncestor`) and the walk downwards (children lists) find the
same members.

**`FormulasProofs`.** Of the sort alone `TypeCorrect`,
`OrderRespectsDependencies`, `VerdictIsRight`: for any finite set of names, any
dependencies and any choice among ready nodes. `IInv` adds what the counters
mean: `CountsInv`, that `indeg` counts the dependencies not in order yet and
`ready` holds exactly the remaining nodes without one; and `WalkInv`, that once
nothing is ready every remaining node depends on a remaining one, and the walk
follows dependencies. From the first, a node is ordered after its dependencies
and no counter goes below zero; from the second, the walk never ends without a
repeated node (the branch the code calls unreachable is), and the loop it
reports is one.

From the text to the order: `FormulasFollowInputs`, `ReportedCyclesAreRead`, for
any accounts, tree, texts and edits. The dependencies are made of what a tree
refers to and the properties speak of what a text says, so the parser stands
between them: `ParseRefersToTokens`, of a sequence of tokens that is a formula
the tree refers to the accounts among the tokens and to no other. It follows
from what a result of each parse function at a place is: trees that refer to
exactly the accounts between that place and the one after them (`Results`, and
one lemma per function that it returns such a result), by induction over the
turns of the loops (`OneTurnFits`, `OneMoreFits`) and over the table from the
last place to the first (`TableIsFilled`). `FInv` is `IInv` with `TextsInv`, that
every stored text is a formula, and `DepsInv`, that what is being sorted is what
the stored texts refer to.

The parser against its grammar: `FormulasAreParsed`. The grammar is ambiguous in
form, every span is split wherever it can be, and the parser never goes back, so
what has to be shown is that it need not. `Agrees` says of a result of a level
(expr, term or factor) at a place: its tree is derived from the tokens up to
where it ends, and whatever is derived from the place up to another end is the
result, if behind that end stands no operator of the level or a tighter one
(`Free`). The second half is what makes the derivation unique. A table is
`Right` from a place on when all its results from there agree. Nothing is
entered behind the end of the text, and the results of a place agree when the
table is right behind it (`EnteredIsRight`): a turn of a loop passes one
operator, and an operator inside a derived tree is where the derivation of what
stands left of it ends, which is therefore what the loop has found at some turn
(`TurnFound`); arguments end at commas and parentheses, which are free
(`MoreFound`, `IfFound`). At the end of the text every level is free, so the
first entry is all that is derived (`ParseIsDerived`). That the equations of the
grammar have a solution at all is an induction over the length of a span
(`DerivationExists`).

The characters: `LegalNamesRoundTrip`, for any accounts, legal names and texts
that are formulas. The lexer does not know the grammar, and what it reads of a
word depends on what stands behind it: letters go on with a function's name,
"=" with a comparison, "-" or a blank and a letter with a reference. So the
grammar has to say which tokens can stand side by side: `FormulaIsPhrase`, by
induction over the length of a derived span, that operands and what stands
between them take turns. Then each word is read on its own. `WordPlaces` says
where it stands in the text and what follows it, `WordIsRead` and `NameIsRead`
what the lexer makes of it: it ends where the word does (`RunEndIs`, `NameEnds`,
and a lemma for each kind of token), and the lexer goes on at the next word.
`LexingExists` is that the lexer's table of results has a solution, and
`AllWordsRead` puts the words together, by induction from the last to the first.
Where a name has two hyphens in a row, take the first word that is one: all words
before it are read as written (`FirstWords`), and of this one the lexer reads no
more than stands before the hyphens (`DoubleHyphenStops`), a shorter name, so
the result is another one (`NotAllWordsRead`).

**`DynamicCalcProofs`.** `TypeCorrect`, `AcyclicCellsAreExact`,
`SilenceIsExact`, `CyclicCellsYieldZero`, for any accounts, formulas and limit.
The recursion is a stack, so the invariants speak of its frames. `StackInv`: each
frame was called for a reference of the one below it, and the cells in flight
are those of the stack, each once. `ValueInv`: what a frame has added up, and
what it has still to read, give the exact value of its cell, unless a cell that
was marked stands in the way; a cell is marked only when a way along formulas
leads from it back to itself, so none that is off the cycles ever is. `CycleInv`,
for sums: when a cell on a cycle answers, it is marked, or the cell that closes
its cycle is still on the stack below it.

**`TreeProofs`, `EngineProofs`.** What `ServerProofs` needs of the operators of
`Trees`, `Periods`, `Consol` and `Query`. They are recursive functions, and sums
and products over sets. That such a function exists, and what it preserves, is
proved from the least natural number where it would fail (`LeastNatural`), which
`WFMin` of the library gives for sets, or from a least subset (`SetInduction`);
the library's own induction theorems are about operators and cannot be used
here.

* Trees: a path to the root is the least set that holds the member and is
  closed under the parent, so `RemovalLeavesATree`; in a tree without cycles the
  `FirstCommonAncestor` is the one below all others. Moves and removals keep a
  tree a tree.
* Sums: a finite sum does not depend on the order in which its terms are taken
  (`FoldsUnique`), is linear, may be split, swapped with another, reindexed, or
  extended by zeros.
* `ProcessKeepsUserCells`: a formula writes `Calc` cells only, and dropping
  zeros drops no cell of a user while none is stored as zero. `ProcessFits`:
  each of the four steps makes cells of known names, whole, finite, not zero.
* `FormulasAgreeWithInput`: the order of the sort puts a formula after all that
  it reads, through rollups too, so later ones leave its inputs alone.
* Queries: the weight of an account is the product along its way up
  (`WeightsAreWays`), the months read are an interval of the year
  (`MonthsReadFacts`), and a query is a sum over months and cells that is linear
  in the weights (`ReadMadeOf`). From these `ParentsAgree`, `QueriesAgree`,
  `FormulasReadBack`. The values of dynamic accounts exist depth by depth
  (`EvaluationExists`); one whose formula only adds stored accounts is the
  weighted sum of their queries (`DynamicIsSum`), and adding over months and over
  references may be swapped (`ValueIsInterval`).
* Grids: the walk of a dimension exists because of any members some has no child
  among them (`WalksExist`); the expansion of two row levels has, at place i, the
  headers that i gives when divided by the inner level's length (`NestsTwo`),
  which is where flattening the inner grids one after the other puts that row
  (`FlattenOfRows`). `GridsNest` needs nothing else of the cells than that each
  is read at the point of view with its headers laid over it, outer first.
* Consolidation: a share is the product of the percentages on the way, so it
  composes (`SharesCompose`), and an entity, which gathers its children level by
  level, holds its shares of the whole subtree (`SharesOfRun`). What an
  elimination posts at the ancestor where a holder and its partner meet weighs,
  seen from a group above, as much as the balance it takes back
  (`PostingsWeighAlike`).

**`ServerProofs`.** The properties of the handlers, of the engine, of queries and
of imports, for any metadata, requests and data.

* The handlers. `NothingUnseenIsCertified` is inductive as it stands. For
  `FormulasStayAtLeaves` the invariant `LeafInv` adds that accounts form a finite
  tree and formulas belong to accounts: without it a name that is deleted and
  added again could find children waiting for it. `UserDataIsKept` needs no
  invariant, the guards and the purge decide it. `CertifiedDataIsFrozen` needs
  `DataInv`, that no Input cell is zero: a batch or a run of `Process` drops
  zeros also in units it should leave alone.
* `IntegrityInv` is the invariant of the store. Each stage of a unit holds whole,
  finite amounts at coordinates made of names the metadata has now, the workflow
  tracks units of such names, the metadata is a pair of trees. It is inductive
  because `Process` makes no cell of a name it does not find (`ProcessFits`), and
  a deletion purges the cells of every name it takes. `NamesStayGood`,
  `SnapshotStaysSavable` and, with `InputInv` (no elimination cell in Input),
  `TypeCorrect` are parts of it.
* The engine. `ProcessForgetsHistory` and `CalcAgreesWithInput` follow from the
  invariant and the lemmas about `Consol`.
* Imports. `ImportsAreMirrored` looks at what each request leaves of the Import
  cells. `ImportsKeepTheServersPromises` shows the invariants kept by the server
  behind the import pipeline: `Staging` adds no step the handlers do not take.
  `RulesPickTheClosest`: the scan keeps, after each rule, the last of the
  longest that match so far (`Longest`).
* Queries. `ParentsAreWeightedSums`, `PeriodsAlwaysAgree`, `FormulasAreReadBack`:
  with `QueryInv`, that accounts form no cycle either. Dynamic accounts are part
  of what is queried: the first speaks of members that are not dynamic and have no
  dynamic child, the second also of dynamic accounts that add up stored flows or
  stored balances, the third of stored formulas that refer to no dynamic account,
  `ConsolidatedAnswersAreShares` of accounts that are not dynamic, since a ratio
  is no sum over entities. `NestedGridsAreStacks`
  needs it of all trees, so that every specification can be expanded. They are theorems of
  `Spec`, for every state a server may start in; the run `query` starts from the
  seed.
* Consolidation. `SharesAreCompounded`, `GroupsOweThemselvesNothing` and
  `ConsolidatedAnswersAreShares` have a premise, `AmountsAreExact`: no amount of a
  run is skipped for its size, and every percentage divides what it is applied
  to. Without it the properties are false as equations, since
  each level rounds (in the code, a float does) and a skipped cell is missing in
  the levels above. TLC finds the premise true in every state of the runs
  `consolidation` and `query`, whose amounts are chosen for it.

Only model-checked: liveness (`EveryRequestEnds`), which rests on fairness. Every
other property of a passing run is a theorem.

## 6. Not modelled

* The CSV reader; upload limits other than the number of rows; the rows and
  counts a preview or a commit reports.
* Fractions and exponents of number literals, error texts, the arithmetic of
  quotients, ABS, MIN and MAX (`DynamicCalc` and `Consol` evaluate sums, `Consol`
  linear ones): their results are pure functions of two numbers.
* Dynamic formulas in `Query` that are not linear, the demo's `GPMargin` among
  them (`DynamicCalc` has IFs, over opaque stored values); the set of cycled cells
  a grid shares is in `DynamicCalc`, a query in `Query` is evaluated alone.
* Flow and UD1-4: the account's handlers with fewer guards, and rollups and axes
  of the same form as the account's.
* Adding a year to the Time dimension; edits of weights, currencies, account
  types and ownership: plain assignments, constants here.
* A second process on the data directory.
* `store.normalize`: repairs files the server does not write itself.
* Floating-point sums and their order: amounts are integers. Of infinity, the
  model has that it is out of range and not stored, not how it propagates
  through a sum.
* Power failure between rename and the disk; slow clients.
* Pages of the browser other than the grid; logging, static files, deployment.

## 7. Plan

In place: registry, persistence, handlers with consolidation, stored dimensions,
dynamic formulas, the query engine over the demo, the import pipeline,
formulas from their text to their order, and proofs of what all of them promise.
Next, in this order:

1. Import into a cube the metadata does not know, and Flow and UD axes.
